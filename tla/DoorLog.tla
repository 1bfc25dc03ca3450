------------------------------ MODULE DoorLog ------------------------------
(***************************************************************************)
(* The board's event log on its way to the door history:                   *)
(*                                                                         *)
(*   reader --> ring of log slots --(read, post, clear)--> door_events     *)
(*                                                                         *)
(* The board logs a card as two entries, the low and the high half of its  *)
(* tag, in a ring it dumps whole in slot order.  The report pass reads the *)
(* ring, posts it, and clears it; the reader goes on logging in between,   *)
(* the post can fail or its answer be lost, and the service can restart.   *)
(***************************************************************************)
EXTENDS Naturals, FiniteSets

CONSTANTS
    LogSlots,   \* the size of the ring; 40 on the board
    Divisor,    \* splits a tag in two; 32767 on the board
    Tag,        \* tags held to the reader
    MaxLogged,  \* bound: entries ever logged
    MaxFaults   \* bound: failed requests and restarts

ASSUME LogSlotsAssumption == LogSlots \in Nat /\ LogSlots > 1
ASSUME DivisorAssumption == Divisor \in Nat \ {0}
ASSUME TagAssumption == Tag \subseteq Nat
ASSUME LogBoundsAssumption == MaxLogged \in Nat /\ MaxFaults \in Nat

VARIABLES
    \* the board
    ring,      \* logKeys and logData, by slot; an unused slot holds NoEntry
    cursor,    \* logCursor
    logged,    \* how many entries were ever logged; numbers them
    \* the door service
    pass,      \* "idle", "read", "posted"
    entries,   \* what readLog returned, by the slot it came from
    \* the members database
    reported,  \* the card-presented events in door_events
    posts,     \* how often each entry was in a report the API took
    \* history, read by the properties only
    presented, \* number of a low half -> what was held to the reader
    faults

boardVars == <<ring, cursor, logged, presented>>
passVars == <<pass, entries>>
apiVars == <<reported, posts>>
vars == <<boardVars, passVars, apiVars, faults>>

Outcome == {"granted", "denied", "presented"}
LowKey == [granted |-> "G", denied |-> "D", presented |-> "R"]
HighHalfKey == [G |-> "g", D |-> "d", R |-> "r"]
OutcomeOf == [G |-> "granted", D |-> "denied", R |-> "presented"]
Key == {"G", "D", "R", "g", "d", "r", "S"}   \* "S" stands for every other letter

NoEntry == [key |-> "", value |-> 0, number |-> 0]
Slots == 0..(LogSlots - 1)
NextSlot(i) == IF i = LogSlots - 1 THEN 0 ELSE i + 1

(***************************************************************************)
(* Reading the log (wire.ts parseLog, reads.ts readCards).                 *)
(***************************************************************************)

\* The dump as parseLog returns it: the used slots.
ParseLog(slots) == [i \in {i \in DOMAIN slots : slots[i] # NoEntry} |-> slots[i]]

\* The numbers of the entries in a log, and on the board.
Numbers(log) == {log[i].number : i \in DOMAIN log}
OnRing == Numbers(ParseLog(ring))

IsLowHalf(key) == key \in DOMAIN HighHalfKey

\* A plausible mistake: the log is taken for a flat list.
PartnerInAFlatList(log, i) ==
    LET later == {j \in DOMAIN log : j > i}
    IN  IF later = {} THEN i ELSE CHOOSE j \in later : \A k \in later : j <= k

\* How many slots on another one is, round the ring; a slot is a whole round from itself.
Distance(i, j) == IF j > i THEN j - i ELSE j + LogSlots - i

\* A plausible mistake: the high half is looked for in front of the low half.
PartnerBefore(log, i) == CHOOSE j \in DOMAIN log : \A k \in DOMAIN log : Distance(j, i) <= Distance(k, i)

\* The entry after this one, round the ring.
Partner(log, i) == CHOOSE j \in DOMAIN log : \A k \in DOMAIN log : Distance(i, j) <= Distance(i, k)

CardNumberOf(high, low) == high * Divisor + low

\* The slots of low halves whose high half follows and whose tag is not 0.
PairAt(log, i) ==
    /\ IsLowHalf(log[i].key)
    /\ log[Partner(log, i)].key = HighHalfKey[log[i].key]
    /\ CardNumberOf(log[Partner(log, i)].value, log[i].value) # 0

ReadAt(log, i) ==
    [cardNumber |-> CardNumberOf(log[Partner(log, i)].value, log[i].value),
     outcome |-> OutcomeOf[log[i].key],
     number |-> log[i].number]

\* The card reads a log mentions.
ReadCards(log) == {ReadAt(log, i) : i \in {i \in DOMAIN log : PairAt(log, i)}}

(***************************************************************************)
(* The board.                                                              *)
(***************************************************************************)

Entry(key, value, number) == [key |-> key, value |-> value, number |-> number]

\* Somebody holds a card to the reader: the low half, then the high half.
PresentCard(tag, outcome) ==
    LET low  == Entry(LowKey[outcome], tag % Divisor, logged + 1)
        high == Entry(HighHalfKey[LowKey[outcome]], tag \div Divisor, logged + 2)
    IN  /\ logged + 2 <= MaxLogged
        /\ ring' = [ring EXCEPT ![cursor] = low, ![NextSlot(cursor)] = high]
        /\ cursor' = NextSlot(NextSlot(cursor))
        /\ logged' = logged + 2
        /\ presented' = [presented EXCEPT ![logged + 1] = <<tag, outcome>>]
        /\ UNCHANGED <<passVars, apiVars, faults>>

\* A lock, a login, an alarm: one entry.
LogOther ==
    /\ logged + 1 <= MaxLogged
    /\ ring' = [ring EXCEPT ![cursor] = Entry("S", 0, logged + 1)]
    /\ cursor' = NextSlot(cursor)
    /\ logged' = logged + 1
    /\ UNCHANGED <<presented, passVars, apiVars, faults>>

EmptyRing == [i \in Slots |-> NoEntry]
Nothing == ParseLog(EmptyRing)

\* A plausible mistake: the cursor goes back and the slots keep what they hold.
ClearLogCursorOnly ==
    /\ cursor' = 0
    /\ UNCHANGED <<ring, logged, presented>>

ClearLog ==
    /\ ring' = EmptyRing
    /\ cursor' = 0
    /\ UNCHANGED <<logged, presented>>

(***************************************************************************)
(* The report pass (runReportPass).                                        *)
(***************************************************************************)

ReadLog ==
    /\ pass = "idle"
    /\ pass' = "read"
    /\ entries' = ParseLog(ring)
    /\ UNCHANGED <<boardVars, apiVars, faults>>

\* POST /api/door/report: the reads and the other entries, in one insert.
Take ==
    /\ reported' = reported \cup ReadCards(entries)
    /\ posts' = [n \in 1..MaxLogged |-> posts[n] + IF n \in Numbers(entries) THEN 1 ELSE 0]

EndPass == pass' = "idle" /\ entries' = Nothing

\* A plausible mistake: a log with no card read in it is not worth posting.
PostReportOfReads ==
    /\ pass = "read"
    /\ IF ReadCards(entries) = {}
       THEN EndPass /\ UNCHANGED <<boardVars, apiVars, faults>>
       ELSE Take /\ pass' = "posted" /\ UNCHANGED <<boardVars, entries, faults>>

PostReport ==
    /\ pass = "read"
    /\ Take
    /\ pass' = "posted"
    /\ UNCHANGED <<boardVars, entries, faults>>

\* A plausible mistake: a log of a single entry is not worth clearing.
ClearIfSeveral ==
    /\ pass = "posted"
    /\ IF Cardinality(DOMAIN entries) > 1 THEN ClearLog ELSE UNCHANGED boardVars
    /\ EndPass
    /\ UNCHANGED <<apiVars, faults>>

\* The log is cleared if anything was read from it.
ClearReported ==
    /\ pass = "posted"
    /\ IF entries # Nothing THEN ClearLog ELSE UNCHANGED boardVars
    /\ EndPass
    /\ UNCHANGED <<apiVars, faults>>

Fault == faults < MaxFaults /\ faults' = faults + 1

\* A plausible mistake: the log is cleared although the post failed.
PassFailsAndClears ==
    /\ Fault
    /\ pass = "read"
    /\ ClearLog
    /\ EndPass
    /\ UNCHANGED apiVars

\* The link drops, the board does not answer, or the service restarts.
PassFails ==
    /\ Fault
    /\ pass # "idle"
    /\ EndPass
    /\ UNCHANGED <<boardVars, apiVars>>

\* The API took the report and its answer was lost.
PostAnswerLost ==
    /\ Fault
    /\ pass = "read"
    /\ Take
    /\ EndPass
    /\ UNCHANGED boardVars

\* The board cleared its log and its answer was lost.
ClearAnswerLost ==
    /\ Fault
    /\ pass = "posted"
    /\ entries # Nothing
    /\ ClearLog
    /\ EndPass
    /\ UNCHANGED apiVars

(***************************************************************************)
(* The specification.                                                      *)
(***************************************************************************)

Init ==
    /\ ring = EmptyRing
    /\ cursor \in {0, LogSlots - 1}
    /\ logged = 0
    /\ pass = "idle"
    /\ entries = Nothing
    /\ reported = {}
    /\ posts = [n \in 1..MaxLogged |-> 0]
    /\ presented = [n \in 1..MaxLogged |-> <<>>]
    /\ faults = 0

ReportPass == ReadLog \/ PostReport \/ ClearReported

Next ==
    \/ \E tag \in Tag, outcome \in Outcome : PresentCard(tag, outcome)
    \/ LogOther
    \/ ReportPass
    \/ PassFails \/ PostAnswerLost \/ ClearAnswerLost

Spec == Init /\ [][Next]_vars

\* The timer keeps starting passes; nothing is assumed of the reader.
FairSpec == Spec /\ WF_vars(ReportPass)

(***************************************************************************)
(* Properties.                                                             *)
(***************************************************************************)

Logged == [key : Key, value : Nat, number : 1..logged]
Behind(i) == IF i < cursor THEN cursor - 1 - i ELSE cursor + LogSlots - 1 - i

\* Every variable keeps its shape: the ring's entries are numbered in the order
\* they were logged, walking back from the cursor, and the read ones existed.
TypeOK ==
    /\ ring \in [Slots -> {NoEntry} \cup Logged]
    /\ cursor \in Slots
    /\ \A i \in Slots : ring[i] # NoEntry => ring[i].number = logged - Behind(i)
    /\ logged \in 0..MaxLogged
    /\ pass \in {"idle", "read", "posted"}
    /\ DOMAIN entries \subseteq Slots /\ entries \in [DOMAIN entries -> Logged]
    /\ posts \in [1..MaxLogged -> Nat]
    /\ presented \in [1..MaxLogged -> {<<>>} \cup (Tag \X Outcome)]
    /\ faults \in 0..MaxFaults

\* "Half a tag is not a card number and guessing the other half would enroll the
\* wrong person" (reads.ts:71-72): every card read in the door history is one
\* that was held to the reader, with its outcome, however the ring had wrapped
\* over older entries when it was read.
ReadsAreReal == \A read \in reported : presented[read.number] = <<read.cardNumber, read.outcome>>

\* "A pair can straddle the wrap" (reads.ts:69-70): a card whose two halves are
\* both in the log that is posted is in the door history afterwards.
WholePairsAreReported ==
    [][\A n \in 1..MaxLogged :
           /\ {n, n + 1} \subseteq Numbers(entries)
           /\ presented[n] # <<>> /\ presented[n][1] # 0
           /\ posts'[n] > posts[n]
           => \E read \in reported' : read.number = n]_vars

\* "The log is cleared only after the API has taken the events, so a link that
\* drops loses nothing" (main.ts:78-80), of what the pass has read: an entry it
\* read leaves the board's log, other than by being overwritten, only once it is
\* in the door history.
ReadEntriesAreTakenFirst ==
    [][\A n \in OnRing :
           /\ n \in Numbers(entries)
           /\ logged' = logged
           /\ n \notin Numbers(ParseLog(ring'))
           => posts[n] > 0]_vars

\* An entry is recorded twice only if a request failed or the service restarted:
\* each further copy costs a fault.
RepeatsNeedFaults == \A n \in 1..MaxLogged : posts[n] <= 1 + faults

\* An entry on the board's log does not stay there unreported.
EveryEntryLeavesTheBoard ==
    \A n \in 1..MaxLogged : (n \in OnRing) ~> (n \notin OnRing \/ posts[n] > 0)

\* The same sentence of main.ts:78-80, of every entry: what the log loses when it
\* is cleared, the API has taken.
ClearedOnlyIfTaken ==
    [][\A n \in OnRing :
           /\ logged' = logged
           /\ n \notin Numbers(ParseLog(ring'))
           => posts[n] > 0]_vars
=============================================================================
