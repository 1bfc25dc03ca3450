-------------------------- MODULE DoorLog_proofs ---------------------------
(***************************************************************************)
(* Proofs about DoorLog for every size of the ring, every divisor, every   *)
(* tag and any number of entries and faults.                               *)
(***************************************************************************)
EXTENDS DoorLog, Integers, TLAPS

(***************************************************************************)
(* The ring.                                                               *)
(***************************************************************************)

\* An entry's number, and that a low half is the low half of a card that was presented
\* with its high half in the next slot, of the ring or of a log read from it.
Held(log, i) ==
    /\ presented[log[i].number] # <<>> => IsLowHalf(log[i].key)
    /\ IsLowHalf(log[i].key) =>
           /\ NextSlot(i) \in DOMAIN log
           /\ log[NextSlot(i)].key = HighHalfKey[log[i].key]
           /\ presented[log[i].number] =
                  <<CardNumberOf(log[NextSlot(i)].value, log[i].value), OutcomeOf[log[i].key]>>

\* A low half is never the newest entry, so what is logged next does not take the slot of
\* its high half without taking its own before.
RingInv ==
    /\ TypeOK
    /\ \A n \in 1..MaxLogged : n > logged => presented[n] = <<>> /\ posts[n] = 0
    /\ \A i \in DOMAIN ParseLog(ring) :
           Held(ParseLog(ring), i) /\ (IsLowHalf(ring[i].key) => Behind(i) > 0)
    /\ \A i \in DOMAIN entries : Held(entries, i)

LEMMA SlotFacts ==
    /\ LogSlots \in Nat /\ LogSlots > 1
    /\ \A i \in Slots : i \in Int /\ NextSlot(i) \in Slots /\ NextSlot(i) # i
    /\ \A i, j \in Slots : NextSlot(i) = NextSlot(j) => i = j
BY LogSlotsAssumption DEF Slots, NextSlot

LEMMA NothingFacts == DOMAIN Nothing = {} /\ EmptyRing \in [Slots -> {NoEntry}]
BY DEF Nothing, ParseLog, EmptyRing

LEMMA ParseFacts ==
    ASSUME NEW slots
    PROVE  /\ DOMAIN ParseLog(slots) = {i \in DOMAIN slots : slots[i] # NoEntry}
           /\ \A i \in DOMAIN ParseLog(slots) : ParseLog(slots)[i] = slots[i]
BY DEF ParseLog

\* The two entries of a card make up its tag again.
LEMMA HalvesFacts ==
    ASSUME NEW tag \in Tag, NEW outcome \in Outcome
    PROVE  /\ tag % Divisor \in Nat /\ tag \div Divisor \in Nat
           /\ CardNumberOf(tag \div Divisor, tag % Divisor) = tag
           /\ LowKey[outcome] \in Key /\ IsLowHalf(LowKey[outcome])
           /\ HighHalfKey[LowKey[outcome]] \in Key /\ ~IsLowHalf(HighHalfKey[LowKey[outcome]])
           /\ OutcomeOf[LowKey[outcome]] = outcome
<1>1. tag \in Nat /\ Divisor \in Nat \ {0}
    BY TagAssumption, DivisorAssumption
<1>2. tag % Divisor \in Nat /\ tag \div Divisor \in Nat
    BY <1>1
<1>3. ((tag \div Divisor) * Divisor) + (tag % Divisor) = tag
    BY <1>1
<1>4. /\ LowKey[outcome] \in Key /\ IsLowHalf(LowKey[outcome])
      /\ HighHalfKey[LowKey[outcome]] \in Key /\ ~IsLowHalf(HighHalfKey[LowKey[outcome]])
      /\ OutcomeOf[LowKey[outcome]] = outcome
    BY DEF Outcome, LowKey, HighHalfKey, Key, IsLowHalf, OutcomeOf
<1> QED BY <1>2, <1>3, <1>4 DEF CardNumberOf

\* The slot of the next entry is the partner, if it is in the log.
LEMMA PartnerIsNext ==
    ASSUME NEW log, DOMAIN log \subseteq Slots, NEW i \in DOMAIN log, NextSlot(i) \in DOMAIN log
    PROVE  Partner(log, i) = NextSlot(i)
<1>1. \A k \in DOMAIN log : Distance(i, NextSlot(i)) <= Distance(i, k)
    BY SlotFacts DEF Distance, NextSlot, Slots
<1>2. \A j \in DOMAIN log : j # NextSlot(i) => Distance(i, j) > Distance(i, NextSlot(i))
    BY SlotFacts DEF Distance, NextSlot, Slots
<1>3. /\ Partner(log, i) \in DOMAIN log
      /\ \A k \in DOMAIN log : Distance(i, Partner(log, i)) <= Distance(i, k)
    BY <1>1 DEF Partner
<1>4. \A k \in DOMAIN log : Distance(i, k) \in Int
    BY SlotFacts DEF Distance, Slots
<1> QED BY <1>2, <1>3, <1>4

LEMMA InitRing ==
    ASSUME Init
    PROVE  RingInv
<1> USE LogSlotsAssumption, DivisorAssumption, LogBoundsAssumption, NothingFacts
<1>1. DOMAIN ParseLog(ring) = {}
    BY ParseFacts DEF Init, EmptyRing
<1>2. entries = Nothing /\ ring = EmptyRing /\ entries \in [DOMAIN entries -> Logged]
    BY DEF Init, Nothing, ParseLog
<1>3. TypeOK
    BY <1>2 DEF Init, TypeOK, Slots
<1> QED BY <1>1, <1>2, <1>3 DEF Init, RingInv

\* Where an entry is behind the cursor.
LEMMA BehindFacts ==
    ASSUME cursor \in Slots
    PROVE  \A i \in Slots : /\ Behind(i) \in 0..(LogSlots - 1)
                            /\ Behind(i) > 0 => NextSlot(i) # cursor
BY SlotFacts DEF Slots, Behind, NextSlot

LEMMA TheLogStaysHeld ==
    ASSUME RingInv, logged' \in Nat, logged' >= logged, UNCHANGED entries,
           \A n \in 1..logged : presented'[n] = presented[n]
    PROVE  \A i \in DOMAIN entries' : Held(entries, i)'
<1> SUFFICES ASSUME NEW i \in DOMAIN entries'
             PROVE  Held(entries, i)'
    OBVIOUS
<1>1. i \in DOMAIN entries /\ Held(entries, i)
    BY DEF RingInv
<1>2. entries[i].number \in 1..logged
    BY <1>1 DEF RingInv, TypeOK, Logged
<1> QED BY <1>1, <1>2 DEF Held

LEMMA PresentCardRing ==
    ASSUME RingInv, NEW tag \in Tag, NEW outcome \in Outcome, PresentCard(tag, outcome)
    PROVE  RingInv'
<1> USE LogSlotsAssumption, LogBoundsAssumption
<1> DEFINE next == NextSlot(cursor)
           low  == Entry(LowKey[outcome], tag % Divisor, logged + 1)
           high == Entry(HighHalfKey[LowKey[outcome]], tag \div Divisor, logged + 2)
<1>1. /\ cursor \in Slots /\ next \in Slots /\ next # cursor
      /\ logged \in Nat /\ logged + 2 \in 1..MaxLogged /\ logged' = logged + 2
      /\ ring \in [Slots -> {NoEntry} \cup Logged]
    BY SlotFacts DEF RingInv, TypeOK, PresentCard
<1>2. /\ low \in Logged' /\ low.key = LowKey[outcome] /\ low.value = tag % Divisor
      /\ low.number = logged + 1
      /\ high \in Logged' /\ high.key = HighHalfKey[LowKey[outcome]]
      /\ high.value = tag \div Divisor /\ high.number = logged + 2
    BY <1>1, HalvesFacts DEF Entry, Logged
<1>3. low # NoEntry /\ high # NoEntry
  <2>1. NoEntry.number = 0
      BY DEF NoEntry
  <2> HIDE DEF low, high
  <2> QED BY <1>1, <1>2, <2>1
<1>4. /\ ring' = [ring EXCEPT ![cursor] = low, ![next] = high]
      /\ cursor' = NextSlot(next) /\ cursor' \in Slots
      /\ presented' = [presented EXCEPT ![logged + 1] = <<tag, outcome>>]
      /\ UNCHANGED <<pass, entries, reported, posts, faults>>
    BY <1>1, SlotFacts DEF PresentCard, passVars, apiVars
<1> HIDE DEF low, high
<1>5. /\ ring'[cursor] = low /\ ring'[next] = high
      /\ \A i \in Slots : i # cursor /\ i # next => ring'[i] = ring[i]
    BY <1>1, <1>4
<1>6. \A i \in Slots : (Behind(i))' = IF i = next THEN 0 ELSE IF i = cursor THEN 1 ELSE Behind(i) + 2
    BY <1>1, <1>4, SlotFacts DEF Behind, NextSlot, Slots
<1>7. Logged \subseteq Logged'
    BY <1>1 DEF Logged
<1>8. ring' \in [Slots -> {NoEntry} \cup Logged']
    BY <1>1, <1>2, <1>4, <1>7
<1>9. \A i \in Slots : ring'[i] # NoEntry => ring'[i].number = logged' - (Behind(i))'
  <2> SUFFICES ASSUME NEW i \in Slots, ring'[i] # NoEntry
               PROVE  ring'[i].number = logged' - (Behind(i))'
      OBVIOUS
  <2>1. CASE i = cursor \/ i = next
      BY <1>1, <1>2, <1>5, <1>6, <2>1
  <2>2. CASE i # cursor /\ i # next
    <3>1. ring[i] # NoEntry /\ ring[i].number = logged - Behind(i) /\ ring'[i] = ring[i]
        BY <1>5, <2>2 DEF RingInv, TypeOK
    <3>2. (Behind(i))' = Behind(i) + 2 /\ Behind(i) \in Int
        BY <1>1, <1>6, <2>2, BehindFacts, SlotFacts
    <3> QED BY <1>1, <3>1, <3>2
  <2> QED BY <2>1, <2>2
<1>10. presented' \in [1..MaxLogged -> {<<>>} \cup (Tag \X Outcome)]
    BY <1>4 DEF RingInv, TypeOK
<1>11. TypeOK'
  <2>1. DOMAIN entries' \subseteq Slots /\ entries' \in [DOMAIN entries' -> Logged']
      BY <1>4, <1>7 DEF RingInv, TypeOK
  <2>2. /\ posts' \in [1..MaxLogged -> Nat] /\ pass' \in {"idle", "read", "posted"}
        /\ faults' \in 0..MaxFaults
      BY <1>4 DEF RingInv, TypeOK
  <2>3. logged' \in 0..MaxLogged
      BY <1>1
  <2> QED BY <1>4, <1>8, <1>9, <1>10, <2>1, <2>2, <2>3 DEF TypeOK
<1>12. \A n \in 1..MaxLogged : n > logged' => presented'[n] = <<>> /\ posts'[n] = 0
    BY <1>1, <1>4 DEF RingInv, TypeOK
<1>13. \A n \in 1..logged : presented'[n] = presented[n]
    BY <1>1, <1>4 DEF RingInv, TypeOK
<1>14. \A i \in DOMAIN entries' : Held(entries, i)'
    BY <1>1, <1>4, <1>13, TheLogStaysHeld
<1>15. ASSUME NEW i \in DOMAIN ParseLog(ring')
       PROVE  Held(ParseLog(ring), i)' /\ (IsLowHalf(ring'[i].key) => (Behind(i))' > 0)
  <2>1. /\ DOMAIN ParseLog(ring') = {j \in Slots : ring'[j] # NoEntry}
        /\ \A j \in DOMAIN ParseLog(ring') : ParseLog(ring')[j] = ring'[j]
      BY <1>8, ParseFacts
  <2>2. /\ DOMAIN ParseLog(ring) = {j \in Slots : ring[j] # NoEntry}
        /\ \A j \in DOMAIN ParseLog(ring) : ParseLog(ring)[j] = ring[j]
      BY <1>1, ParseFacts
  <2>3. CASE i = cursor
    <3>1. next \in DOMAIN ParseLog(ring') /\ NextSlot(i) = next
        BY <1>1, <1>3, <1>5, <2>1, <2>3
    <3>2. presented'[low.number] = <<tag, outcome>>
        BY <1>1, <1>2, <1>4 DEF RingInv, TypeOK
    <3> QED BY <1>1, <1>2, <1>5, <1>6, <2>1, <2>3, <3>1, <3>2, HalvesFacts DEF Held
  <2>4. CASE i = next
    <3>1. presented'[high.number] = <<>>
        BY <1>1, <1>2, <1>4 DEF RingInv, TypeOK
    <3> QED BY <1>2, <1>5, <2>1, <2>4, <3>1, HalvesFacts DEF Held
  <2>5. CASE i # cursor /\ i # next
    <3>1. /\ i \in Slots /\ ring'[i] = ring[i] /\ i \in DOMAIN ParseLog(ring)
          /\ ParseLog(ring')[i] = ring[i] /\ ParseLog(ring)[i] = ring[i]
        BY <1>5, <2>1, <2>2, <2>5
    <3>2. Held(ParseLog(ring), i) /\ (IsLowHalf(ring[i].key) => Behind(i) > 0)
        BY <3>1 DEF RingInv
    <3>3. ring[i].number \in 1..logged
        BY <1>1, <3>1, <2>2 DEF Logged
    <3>4. ASSUME IsLowHalf(ring[i].key)
          PROVE  /\ NextSlot(i) \in DOMAIN ParseLog(ring')
                 /\ ParseLog(ring')[NextSlot(i)] = ParseLog(ring)[NextSlot(i)]
      <4>1. NextSlot(i) # cursor /\ NextSlot(i) # next /\ NextSlot(i) \in Slots
          BY <1>1, <2>5, <3>1, <3>2, <3>4, BehindFacts, SlotFacts
      <4>2. NextSlot(i) \in DOMAIN ParseLog(ring)
          BY <3>1, <3>2, <3>4 DEF Held
      <4> QED BY <1>5, <2>1, <2>2, <4>1, <4>2
    <3>5. (Behind(i))' = Behind(i) + 2 /\ Behind(i) \in Nat
        BY <1>1, <1>6, <2>5, <3>1, BehindFacts
    <3> QED BY <1>13, <3>1, <3>2, <3>3, <3>4, <3>5 DEF Held
  <2> QED BY <2>3, <2>4, <2>5
<1> QED BY <1>11, <1>12, <1>14, <1>15 DEF RingInv

LEMMA LogOtherRing ==
    ASSUME RingInv, LogOther
    PROVE  RingInv'
<1> USE LogSlotsAssumption, LogBoundsAssumption
<1> DEFINE entry == Entry("S", 0, logged + 1)
<1>1. /\ cursor \in Slots /\ logged \in Nat /\ logged + 1 \in 1..MaxLogged /\ logged' = logged + 1
      /\ ring \in [Slots -> {NoEntry} \cup Logged]
    BY DEF RingInv, TypeOK, LogOther
<1>2. entry \in Logged' /\ entry.key = "S" /\ entry.number = logged + 1 /\ ~IsLowHalf("S")
    BY <1>1 DEF Entry, Logged, Key, IsLowHalf, HighHalfKey
<1>3. /\ ring' = [ring EXCEPT ![cursor] = entry]
      /\ cursor' = NextSlot(cursor) /\ cursor' \in Slots
      /\ UNCHANGED <<presented, pass, entries, reported, posts, faults>>
    BY <1>1, SlotFacts DEF LogOther, passVars, apiVars
<1> HIDE DEF entry
<1>4. ring'[cursor] = entry /\ \A i \in Slots : i # cursor => ring'[i] = ring[i]
    BY <1>1, <1>3
<1>5. \A i \in Slots : (Behind(i))' = IF i = cursor THEN 0 ELSE Behind(i) + 1
    BY <1>1, <1>3, SlotFacts DEF Behind, NextSlot, Slots
<1>6. Logged \subseteq Logged'
    BY <1>1 DEF Logged
<1>7. ring' \in [Slots -> {NoEntry} \cup Logged']
    BY <1>1, <1>2, <1>3, <1>6
<1>8. \A i \in Slots : ring'[i] # NoEntry => ring'[i].number = logged' - (Behind(i))'
  <2> SUFFICES ASSUME NEW i \in Slots, ring'[i] # NoEntry
               PROVE  ring'[i].number = logged' - (Behind(i))'
      OBVIOUS
  <2>1. CASE i = cursor
      BY <1>1, <1>2, <1>4, <1>5, <2>1
  <2>2. CASE i # cursor
    <3>1. ring[i] # NoEntry /\ ring[i].number = logged - Behind(i) /\ ring'[i] = ring[i]
        BY <1>4, <2>2 DEF RingInv, TypeOK
    <3>2. (Behind(i))' = Behind(i) + 1 /\ Behind(i) \in Int
        BY <1>1, <1>5, <2>2, BehindFacts, SlotFacts
    <3> QED BY <1>1, <3>1, <3>2
  <2> QED BY <2>1, <2>2
<1>9. TypeOK'
  <2>1. DOMAIN entries' \subseteq Slots /\ entries' \in [DOMAIN entries' -> Logged']
      BY <1>3, <1>6 DEF RingInv, TypeOK
  <2>2. /\ posts' \in [1..MaxLogged -> Nat] /\ pass' \in {"idle", "read", "posted"}
        /\ presented' \in [1..MaxLogged -> {<<>>} \cup (Tag \X Outcome)]
        /\ faults' \in 0..MaxFaults
      BY <1>3 DEF RingInv, TypeOK
  <2>3. logged' \in 0..MaxLogged
      BY <1>1
  <2> QED BY <1>3, <1>7, <1>8, <2>1, <2>2, <2>3 DEF TypeOK
<1>10. \A n \in 1..MaxLogged : n > logged' => presented'[n] = <<>> /\ posts'[n] = 0
    BY <1>1, <1>3 DEF RingInv
<1>11. \A i \in DOMAIN entries' : Held(entries, i)'
    BY <1>1, <1>3, TheLogStaysHeld
<1>12. ASSUME NEW i \in DOMAIN ParseLog(ring')
       PROVE  Held(ParseLog(ring), i)' /\ (IsLowHalf(ring'[i].key) => (Behind(i))' > 0)
  <2>1. /\ DOMAIN ParseLog(ring') = {j \in Slots : ring'[j] # NoEntry}
        /\ \A j \in DOMAIN ParseLog(ring') : ParseLog(ring')[j] = ring'[j]
      BY <1>7, ParseFacts
  <2>2. /\ DOMAIN ParseLog(ring) = {j \in Slots : ring[j] # NoEntry}
        /\ \A j \in DOMAIN ParseLog(ring) : ParseLog(ring)[j] = ring[j]
      BY <1>1, ParseFacts
  <2>3. CASE i = cursor
    <3>1. presented'[entry.number] = <<>>
        BY <1>1, <1>2, <1>3 DEF RingInv
    <3> QED BY <1>2, <1>4, <2>1, <2>3, <3>1 DEF Held
  <2>4. CASE i # cursor
    <3>1. /\ i \in Slots /\ ring'[i] = ring[i] /\ i \in DOMAIN ParseLog(ring)
          /\ ParseLog(ring')[i] = ring[i] /\ ParseLog(ring)[i] = ring[i]
        BY <1>4, <2>1, <2>2, <2>4
    <3>2. Held(ParseLog(ring), i) /\ (IsLowHalf(ring[i].key) => Behind(i) > 0)
        BY <3>1 DEF RingInv
    <3>3. ASSUME IsLowHalf(ring[i].key)
          PROVE  /\ NextSlot(i) \in DOMAIN ParseLog(ring')
                 /\ ParseLog(ring')[NextSlot(i)] = ParseLog(ring)[NextSlot(i)]
      <4>1. NextSlot(i) # cursor /\ NextSlot(i) \in Slots
          BY <1>1, <3>1, <3>2, <3>3, BehindFacts, SlotFacts
      <4>2. NextSlot(i) \in DOMAIN ParseLog(ring)
          BY <3>1, <3>2, <3>3 DEF Held
      <4> QED BY <1>4, <2>1, <2>2, <4>1, <4>2
    <3>4. (Behind(i))' = Behind(i) + 1 /\ Behind(i) \in Nat
        BY <1>1, <1>5, <2>4, <3>1, BehindFacts
    <3>5. presented' = presented
        BY <1>3
    <3> QED BY <3>1, <3>2, <3>3, <3>4, <3>5 DEF Held
  <2> QED BY <2>3, <2>4
<1> QED BY <1>9, <1>10, <1>11, <1>12 DEF RingInv

(***************************************************************************)
(* The report pass.                                                        *)
(***************************************************************************)

\* The board's log is as it was, or empty with the cursor back at the start.
BoardKeptOrCleared == UNCHANGED boardVars \/ ClearLog

\* The log in hand is as it was, the one on the board, or none.
LogKeptReadOrDropped == UNCHANGED entries \/ entries' = ParseLog(ring) \/ entries' = Nothing

\* Nothing of the report pass makes or moves an entry.
LEMMA PassRing ==
    ASSUME RingInv, BoardKeptOrCleared, LogKeptReadOrDropped,
           posts' \in [1..MaxLogged -> Nat],
           \A n \in 1..MaxLogged : n > logged => posts'[n] = posts[n],
           pass' \in {"idle", "read", "posted"}, faults' \in 0..MaxFaults
    PROVE  RingInv'
<1> USE LogSlotsAssumption, LogBoundsAssumption
<1>1. UNCHANGED <<logged, presented>> /\ Logged' = Logged
    BY DEF BoardKeptOrCleared, boardVars, ClearLog, Logged
<1>2. ring \in [Slots -> {NoEntry} \cup Logged] /\ cursor \in Slots
    BY DEF RingInv, TypeOK
<1>3. /\ DOMAIN ParseLog(ring) = {j \in Slots : ring[j] # NoEntry}
      /\ \A j \in DOMAIN ParseLog(ring) : ParseLog(ring)[j] = ring[j]
    BY <1>2, ParseFacts
<1>4. \/ ring' = ring /\ cursor' = cursor
      \/ ring' = EmptyRing /\ cursor' = 0
    BY DEF BoardKeptOrCleared, boardVars, ClearLog
<1>5. /\ ring' \in [Slots -> {NoEntry} \cup Logged] /\ cursor' \in Slots
      /\ \A i \in Slots : ring'[i] # NoEntry => ring'[i].number = logged - (Behind(i))'
  <2>1. CASE ring' = ring /\ cursor' = cursor
      BY <2>1 DEF RingInv, TypeOK, Behind
  <2>2. CASE ring' = EmptyRing /\ cursor' = 0
      BY <2>2 DEF EmptyRing, Slots
  <2> QED BY <1>4, <2>1, <2>2
<1>6. DOMAIN entries' \subseteq Slots /\ entries' \in [DOMAIN entries' -> Logged]
  <2>1. CASE entries' = entries
      BY <2>1 DEF RingInv, TypeOK
  <2>2. CASE entries' = ParseLog(ring)
      BY <1>2, <2>2 DEF ParseLog
  <2>3. CASE entries' = Nothing
      BY <2>3, NothingFacts DEF Nothing, ParseLog
  <2> QED BY <2>1, <2>2, <2>3 DEF LogKeptReadOrDropped
<1>7. TypeOK'
    BY <1>1, <1>5, <1>6 DEF RingInv, TypeOK
<1>8. \A n \in 1..MaxLogged : n > logged' => presented'[n] = <<>> /\ posts'[n] = 0
    BY <1>1 DEF RingInv
<1>9. ASSUME NEW i \in DOMAIN entries'
      PROVE  Held(entries, i)'
  <2>1. CASE entries' = entries
      BY <1>1, <2>1 DEF RingInv, Held
  <2>2. CASE entries' = ParseLog(ring)
      BY <1>1, <1>3, <2>2 DEF RingInv, Held
  <2>3. CASE entries' = Nothing
      BY <2>3, NothingFacts
  <2> QED BY <2>1, <2>2, <2>3 DEF LogKeptReadOrDropped
<1>10. ASSUME NEW i \in DOMAIN ParseLog(ring')
       PROVE  Held(ParseLog(ring), i)' /\ (IsLowHalf(ring'[i].key) => (Behind(i))' > 0)
  <2>1. ring' = ring /\ cursor' = cursor
    <3>1. ring' # EmptyRing
        BY NothingFacts DEF Nothing
    <3> QED BY <1>4, <3>1
  <2> QED BY <1>1, <2>1 DEF RingInv, Held, Behind
<1> QED BY <1>7, <1>8, <1>9, <1>10 DEF RingInv

\* What the API took: a copy more of each entry in the report.
LEMMA TakeFacts ==
    ASSUME TypeOK, Take
    PROVE  /\ posts' \in [1..MaxLogged -> Nat]
           /\ \A n \in 1..MaxLogged :
                  posts'[n] = IF n \in Numbers(entries) THEN posts[n] + 1 ELSE posts[n]
           /\ reported' = reported \cup ReadCards(entries)
BY DEF TypeOK, Take

LEMMA NumbersFacts ==
    ASSUME TypeOK
    PROVE  /\ Numbers(entries) \subseteq 1..logged
           /\ OnRing \subseteq 1..logged
           /\ 1..logged \subseteq 1..MaxLogged /\ logged \in Nat
<1>1. Numbers(entries) \subseteq 1..logged
    BY DEF TypeOK, Numbers, Logged
<1>2. OnRing \subseteq 1..logged
  <2>1. /\ DOMAIN ParseLog(ring) = {j \in Slots : ring[j] # NoEntry}
        /\ \A j \in DOMAIN ParseLog(ring) : ParseLog(ring)[j] = ring[j]
      BY ParseFacts DEF TypeOK
  <2> QED BY <2>1 DEF TypeOK, OnRing, Numbers, Logged
<1>3. 1..logged \subseteq 1..MaxLogged /\ logged \in Nat
    BY LogBoundsAssumption DEF TypeOK
<1> QED BY <1>1, <1>2, <1>3

\* The steps of the pass, by what they do to the board, the log in hand and the API.
LEMMA PassSteps ==
    ASSUME TypeOK, ReportPass \/ PassFails \/ PostAnswerLost \/ ClearAnswerLost
    PROVE  /\ BoardKeptOrCleared /\ LogKeptReadOrDropped
           /\ Take \/ UNCHANGED apiVars
           /\ pass' \in {"idle", "read", "posted"} /\ faults' \in 0..MaxFaults
<1> USE LogBoundsAssumption DEF BoardKeptOrCleared, LogKeptReadOrDropped, EndPass
<1>1. CASE ReadLog
    BY <1>1 DEF ReadLog, TypeOK
<1>2. CASE PostReport
    BY <1>2 DEF PostReport, TypeOK
<1>3. CASE ClearReported
    BY <1>3 DEF ClearReported, TypeOK
<1>4. CASE PassFails
    BY <1>4 DEF PassFails, Fault, TypeOK
<1>5. CASE PostAnswerLost
    BY <1>5 DEF PostAnswerLost, Fault, TypeOK
<1>6. CASE ClearAnswerLost
    BY <1>6 DEF ClearAnswerLost, Fault, TypeOK
<1> QED BY <1>1, <1>2, <1>3, <1>4, <1>5, <1>6 DEF ReportPass

LEMMA NextRing ==
    ASSUME RingInv, [Next]_vars
    PROVE  RingInv'
<1>1. CASE UNCHANGED vars
    BY <1>1 DEF RingInv, TypeOK, Held, Behind, Logged, ParseLog, vars, boardVars, passVars, apiVars
<1>2. CASE ReportPass \/ PassFails \/ PostAnswerLost \/ ClearAnswerLost
  <2>1. TypeOK
      BY DEF RingInv
  <2>2. /\ posts' \in [1..MaxLogged -> Nat]
        /\ \A n \in 1..MaxLogged : n > logged => posts'[n] = posts[n]
    <3>1. CASE Take
      <4>1. \A n \in 1..MaxLogged : n > logged => n \notin Numbers(entries)
          BY <2>1, NumbersFacts
      <4> QED BY <2>1, <3>1, <4>1, TakeFacts
    <3>2. CASE UNCHANGED apiVars
        BY <2>1, <3>2 DEF TypeOK, apiVars
    <3> QED BY <1>2, <2>1, <3>1, <3>2, PassSteps
  <2> QED BY <1>2, <2>1, <2>2, PassSteps, PassRing
<1> QED BY <1>1, <1>2, PresentCardRing, LogOtherRing DEF Next

\* TypeOK holds in every run: the entries on the board are the newest ones, numbered back
\* from the cursor, however often the ring has wrapped or been cleared.
THEOREM LogTypeCorrect == Spec => []TypeOK
<1>1. RingInv => TypeOK
    BY DEF RingInv
<1> QED BY <1>1, InitRing, NextRing, PTL DEF Spec

(***************************************************************************)
(* The card reads.                                                         *)
(***************************************************************************)

\* A read the API has is of a card that was presented.
RealInv ==
    /\ RingInv
    /\ \A read \in reported : /\ read.number \in 1..logged
                              /\ presented[read.number] = <<read.cardNumber, read.outcome>>

\* What a log of entries that hold says was presented.
LEMMA ReadsOfAHeldLog ==
    ASSUME NEW log, DOMAIN log \subseteq Slots, \A i \in DOMAIN log : Held(log, i)
    PROVE  /\ \A read \in ReadCards(log) :
                  /\ presented[read.number] = <<read.cardNumber, read.outcome>>
                  /\ read.number \in Numbers(log)
           /\ \A i \in DOMAIN log :
                  IsLowHalf(log[i].key) /\ presented[log[i].number][1] # 0
                      => \E read \in ReadCards(log) : read.number = log[i].number
<1>1. ASSUME NEW i \in DOMAIN log, IsLowHalf(log[i].key)
      PROVE  /\ Partner(log, i) = NextSlot(i)
             /\ log[NextSlot(i)].key = HighHalfKey[log[i].key]
             /\ presented[log[i].number] =
                    <<CardNumberOf(log[NextSlot(i)].value, log[i].value), OutcomeOf[log[i].key]>>
    BY <1>1, PartnerIsNext DEF Held
<1>2. ASSUME NEW read \in ReadCards(log)
      PROVE  /\ presented[read.number] = <<read.cardNumber, read.outcome>>
             /\ read.number \in Numbers(log)
  <2>1. PICK i \in DOMAIN log : PairAt(log, i) /\ read = ReadAt(log, i)
      BY <1>2 DEF ReadCards
  <2>2. read.number = log[i].number /\ read.outcome = OutcomeOf[log[i].key]
        /\ read.cardNumber = CardNumberOf(log[Partner(log, i)].value, log[i].value)
      BY <2>1 DEF ReadAt
  <2>3. IsLowHalf(log[i].key)
      BY <2>1 DEF PairAt
  <2> QED BY <1>1, <2>2, <2>3 DEF Numbers
<1>3. ASSUME NEW i \in DOMAIN log, IsLowHalf(log[i].key), presented[log[i].number][1] # 0
      PROVE  \E read \in ReadCards(log) : read.number = log[i].number
  <2>1. presented[log[i].number][1] = CardNumberOf(log[NextSlot(i)].value, log[i].value)
      BY <1>1, <1>3
  <2>2. PairAt(log, i)
      BY <1>1, <1>3, <2>1 DEF PairAt
  <2>3. ReadAt(log, i) \in ReadCards(log)
      BY <2>2 DEF ReadCards
  <2> QED BY <2>3 DEF ReadAt
<1> QED BY <1>2, <1>3

LEMMA NextReal ==
    ASSUME RealInv, [Next]_vars
    PROVE  RealInv'
<1>1. RingInv' /\ RingInv /\ TypeOK
    BY NextRing DEF RealInv, RingInv
<1>2. CASE UNCHANGED vars
    BY <1>1, <1>2 DEF RealInv, vars, boardVars, apiVars
<1>3. CASE \E tag \in Tag, outcome \in Outcome : PresentCard(tag, outcome)
  <2>1. PICK tag \in Tag, outcome \in Outcome : PresentCard(tag, outcome)
      BY <1>3
  <2>2. /\ logged' = logged + 2 /\ logged \in Nat /\ reported' = reported
        /\ presented' = [presented EXCEPT ![logged + 1] = <<tag, outcome>>]
      BY <1>1, <2>1, NumbersFacts DEF PresentCard, apiVars
  <2>3. \A n \in 1..logged : presented'[n] = presented[n]
      BY <1>1, <2>2, NumbersFacts DEF TypeOK
  <2>4. reported' = reported /\ 1..logged \subseteq 1..logged'
      BY <2>2
  <2> QED BY <1>1, <2>3, <2>4 DEF RealInv
<1>4. CASE LogOther
  <2>1. /\ logged' = logged + 1 /\ logged \in Nat /\ reported' = reported
        /\ presented' = presented
      BY <1>1, <1>4, NumbersFacts DEF LogOther, apiVars
  <2> QED BY <1>1, <2>1 DEF RealInv
<1>5. CASE ReportPass \/ PassFails \/ PostAnswerLost \/ ClearAnswerLost
  <2>1. UNCHANGED <<logged, presented>>
      BY <1>1, <1>5, PassSteps DEF BoardKeptOrCleared, boardVars, ClearLog
  <2>2. CASE Take
    <3>1. reported' = reported \cup ReadCards(entries)
        BY <2>2 DEF Take
    <3>2. \A read \in ReadCards(entries) :
              /\ presented[read.number] = <<read.cardNumber, read.outcome>>
              /\ read.number \in 1..logged
        BY <1>1, ReadsOfAHeldLog, NumbersFacts DEF RingInv, TypeOK
    <3> QED BY <1>1, <2>1, <3>1, <3>2 DEF RealInv
  <2>3. CASE UNCHANGED apiVars
      BY <1>1, <2>1, <2>3 DEF RealInv, apiVars
  <2> QED BY <1>1, <1>5, <2>2, <2>3, PassSteps
<1> QED BY <1>2, <1>3, <1>4, <1>5 DEF Next

\* "Half a tag is not a card number and guessing the other half would enroll the wrong
\* person" (reads.ts:71-72): every card read in the door history was held to the reader,
\* with its outcome, for every size of the ring and every divisor, wherever the ring had
\* wrapped when it was read.
THEOREM CardReadsAreReal == Spec => []ReadsAreReal
<1>1. Init => RealInv
    BY InitRing DEF Init, RealInv
<1>2. RealInv /\ [Next]_vars => RealInv'
    BY NextReal
<1>3. RealInv => ReadsAreReal
    BY DEF RealInv, ReadsAreReal
<1> QED BY <1>1, <1>2, <1>3, PTL DEF Spec

\* "A pair can straddle the wrap" (reads.ts:69-70): a card both halves of which are in the
\* log that is posted is in the door history, for every size of the ring.
THEOREM WholePairsReachTheHistory == Spec => WholePairsAreReported
<1>1. RingInv /\ [Next]_vars =>
          [\A n \in 1..MaxLogged :
              /\ {n, n + 1} \subseteq Numbers(entries)
              /\ presented[n] # <<>> /\ presented[n][1] # 0
              /\ posts'[n] > posts[n]
              => \E read \in reported' : read.number = n]_vars
  <2> SUFFICES ASSUME RingInv, Next, NEW n \in 1..MaxLogged, n \in Numbers(entries),
                      presented[n] # <<>>, presented[n][1] # 0, posts'[n] > posts[n]
               PROVE  \E read \in reported' : read.number = n
      OBVIOUS
  <2>1. TypeOK
      BY DEF RingInv
  <2>2. posts' # posts
    <3>1. posts[n] \in Nat
        BY <2>1 DEF TypeOK
    <3> QED BY <3>1
  <2>3. Take
      BY <2>1, <2>2, PassSteps DEF Next, PresentCard, LogOther, apiVars
  <2>4. PICK i \in DOMAIN entries : entries[i].number = n
      BY DEF Numbers
  <2>5. IsLowHalf(entries[i].key)
      BY <2>4 DEF RingInv, Held
  <2>6. \E read \in ReadCards(entries) : read.number = n
      BY <2>1, <2>4, <2>5, ReadsOfAHeldLog DEF RingInv, TypeOK
  <2> QED BY <2>3, <2>6 DEF Take
<1> QED BY <1>1, InitRing, NextRing, PTL DEF Spec, WholePairsAreReported

(***************************************************************************)
(* Once, and before it is gone.                                            *)
(***************************************************************************)

\* Each copy but the one that clears the log cost a fault: an entry still on the board, or
\* read and not posted, has none more than that, and one that is posted is being cleared.
PostsInv ==
    /\ TypeOK
    /\ \A n \in 1..MaxLogged :
           /\ posts[n] <= 1 + faults
           /\ n > logged => posts[n] = 0
           /\ n \in OnRing /\ ~(pass = "posted" /\ n \in Numbers(entries)) => posts[n] <= faults
           /\ pass = "read" /\ n \in Numbers(entries) => posts[n] <= faults
           /\ pass = "posted" /\ n \in Numbers(entries) => posts[n] > 0

LEMMA InitPosts ==
    ASSUME Init
    PROVE  PostsInv
<1>1. TypeOK
    BY InitRing DEF RingInv
<1>2. OnRing = {} /\ Numbers(entries) = {}
    BY NothingFacts, ParseFacts DEF Init, OnRing, Numbers, EmptyRing
<1> QED BY <1>1, <1>2, LogBoundsAssumption DEF Init, PostsInv

\* What is logged has not been posted.
LEMMA LoggingPosts ==
    ASSUME PostsInv, TypeOK', UNCHANGED <<pass, entries, posts, faults>>,
           logged' >= logged,
           \A n \in OnRing' : n \in OnRing \/ n > logged
    PROVE  PostsInv'
<1>1. faults \in Nat /\ logged \in Nat /\ logged' \in Nat
    BY LogBoundsAssumption DEF PostsInv, TypeOK
<1>2. Numbers(entries)' = Numbers(entries)
    BY DEF Numbers
<1> QED BY <1>1, <1>2 DEF PostsInv

LEMMA OnTheRingAfter ==
    ASSUME TypeOK, NEW i \in Slots, NEW j \in Slots,
           ring' \in [Slots -> {NoEntry} \cup Logged'],
           \A k \in Slots : k # i /\ k # j => ring'[k] = ring[k],
           ring'[i].number > logged, ring'[j].number > logged
    PROVE  \A n \in OnRing' : n \in OnRing \/ n > logged
<1>1. /\ DOMAIN ParseLog(ring) = {k \in Slots : ring[k] # NoEntry}
      /\ \A k \in DOMAIN ParseLog(ring) : ParseLog(ring)[k] = ring[k]
      /\ DOMAIN ParseLog(ring') = {k \in Slots : ring'[k] # NoEntry}
      /\ \A k \in DOMAIN ParseLog(ring') : ParseLog(ring')[k] = ring'[k]
    BY ParseFacts DEF TypeOK
<1> SUFFICES ASSUME NEW k \in DOMAIN ParseLog(ring')
             PROVE  ParseLog(ring')[k].number \in OnRing \/ ParseLog(ring')[k].number > logged
    BY DEF OnRing, Numbers
<1>2. CASE k = i \/ k = j
    BY <1>1, <1>2
<1>3. CASE k # i /\ k # j
    BY <1>1, <1>3 DEF OnRing, Numbers
<1> QED BY <1>2, <1>3

LEMMA NextPosts ==
    ASSUME PostsInv, RingInv, [Next]_vars
    PROVE  PostsInv'
<1>1. TypeOK /\ TypeOK' /\ logged \in Nat /\ faults \in Nat
    BY NextRing, LogBoundsAssumption DEF RingInv, TypeOK
<1>2. CASE UNCHANGED vars
    BY <1>1, <1>2 DEF PostsInv, OnRing, Numbers, vars, boardVars, passVars, apiVars
<1>3. ASSUME NEW tag \in Tag, NEW outcome \in Outcome, PresentCard(tag, outcome)
      PROVE  PostsInv'
  <2>1. /\ cursor \in Slots /\ NextSlot(cursor) \in Slots /\ NextSlot(cursor) # cursor
        /\ ring \in [Slots -> {NoEntry} \cup Logged]
      BY <1>1, SlotFacts DEF TypeOK
  <2>2. /\ ring'[cursor].number = logged + 1 /\ ring'[NextSlot(cursor)].number = logged + 2
        /\ \A k \in Slots : k # cursor /\ k # NextSlot(cursor) => ring'[k] = ring[k]
      BY <1>3, <2>1 DEF PresentCard, Entry
  <2>3. logged' = logged + 2 /\ UNCHANGED <<pass, entries, posts, faults>>
      BY <1>3 DEF PresentCard, passVars, apiVars
  <2>4. ring' \in [Slots -> {NoEntry} \cup Logged']
      BY <1>1 DEF TypeOK
  <2>5. \A n \in OnRing' : n \in OnRing \/ n > logged
      BY <1>1, <2>1, <2>2, <2>4, OnTheRingAfter
  <2> QED BY <1>1, <2>3, <2>5, LoggingPosts
<1>4. CASE LogOther
  <2>1. cursor \in Slots /\ ring \in [Slots -> {NoEntry} \cup Logged]
      BY <1>1 DEF TypeOK
  <2>2. /\ ring'[cursor].number = logged + 1
        /\ \A k \in Slots : k # cursor => ring'[k] = ring[k]
      BY <1>4, <2>1 DEF LogOther, Entry
  <2>3. logged' = logged + 1 /\ UNCHANGED <<pass, entries, posts, faults>>
      BY <1>4 DEF LogOther, passVars, apiVars
  <2>4. ring' \in [Slots -> {NoEntry} \cup Logged']
      BY <1>1 DEF TypeOK
  <2>5. \A n \in OnRing' : n \in OnRing \/ n > logged
      BY <1>1, <2>1, <2>2, <2>4, OnTheRingAfter
  <2> QED BY <1>1, <2>3, <2>5, LoggingPosts
<1>5. CASE ReadLog
  <2>1. Numbers(entries)' = OnRing /\ OnRing' = OnRing
      BY <1>5 DEF ReadLog, boardVars, OnRing, Numbers
  <2>2. UNCHANGED <<logged, posts, faults>> /\ pass = "idle" /\ pass' = "read"
      BY <1>5 DEF ReadLog, boardVars, apiVars
  <2> QED BY <1>1, <2>1, <2>2 DEF PostsInv
<1>6. CASE PostReport
  <2>1. Numbers(entries)' = Numbers(entries) /\ OnRing' = OnRing
      BY <1>6 DEF PostReport, boardVars, OnRing, Numbers
  <2>2. UNCHANGED <<logged, faults>> /\ pass = "read" /\ pass' = "posted"
      BY <1>6 DEF PostReport, boardVars
  <2>3. \A n \in 1..MaxLogged :
            posts[n] \in Nat /\ posts'[n] = IF n \in Numbers(entries) THEN posts[n] + 1 ELSE posts[n]
      BY <1>1, <1>6, TakeFacts DEF PostReport, TypeOK
  <2>4. \A n \in 1..MaxLogged : n > logged => n \notin Numbers(entries)
      BY <1>1, NumbersFacts
  <2> QED BY <1>1, <2>1, <2>2, <2>3, <2>4 DEF PostsInv
<1>7. CASE ClearReported
  <2>1. UNCHANGED <<logged, posts, faults>> /\ pass = "posted" /\ pass' = "idle"
      BY <1>7 DEF ClearReported, EndPass, ClearLog, boardVars, apiVars
  <2>2. CASE entries # Nothing
    <3>1. OnRing' = {}
        BY <1>7, <2>2, NothingFacts DEF ClearReported, ClearLog, OnRing, Numbers, Nothing
    <3> QED BY <1>1, <2>1, <3>1 DEF PostsInv
  <2>3. CASE entries = Nothing
    <3>1. OnRing' = OnRing /\ Numbers(entries) = {}
        BY <1>7, <2>3, NothingFacts DEF ClearReported, boardVars, OnRing, Numbers
    <3> QED BY <1>1, <2>1, <3>1 DEF PostsInv
  <2> QED BY <2>2, <2>3
<1>8. CASE PassFails
  <2>1. OnRing' = OnRing /\ UNCHANGED <<logged, posts>>
      BY <1>8 DEF PassFails, boardVars, apiVars, OnRing
  <2>2. faults' = faults + 1 /\ pass' = "idle"
      BY <1>8 DEF PassFails, Fault, EndPass
  <2>3. \A n \in 1..MaxLogged : posts[n] \in Nat
      BY <1>1 DEF TypeOK
  <2> QED BY <1>1, <2>1, <2>2, <2>3 DEF PostsInv
<1>9. CASE PostAnswerLost
  <2>1. OnRing' = OnRing /\ logged' = logged /\ pass = "read"
      BY <1>9 DEF PostAnswerLost, boardVars, OnRing
  <2>2. faults' = faults + 1 /\ pass' = "idle"
      BY <1>9 DEF PostAnswerLost, Fault, EndPass
  <2>3. \A n \in 1..MaxLogged :
            posts[n] \in Nat /\ posts'[n] = IF n \in Numbers(entries) THEN posts[n] + 1 ELSE posts[n]
      BY <1>1, <1>9, TakeFacts DEF PostAnswerLost, TypeOK
  <2>4. \A n \in 1..MaxLogged : n > logged => n \notin Numbers(entries)
      BY <1>1, NumbersFacts
  <2> QED BY <1>1, <2>1, <2>2, <2>3, <2>4 DEF PostsInv
<1>10. CASE ClearAnswerLost
  <2>1. OnRing' = {} /\ UNCHANGED <<logged, posts>>
      BY <1>10, NothingFacts DEF ClearAnswerLost, ClearLog, apiVars, OnRing, Numbers, Nothing
  <2>2. faults' = faults + 1 /\ pass' = "idle"
      BY <1>10 DEF ClearAnswerLost, Fault, EndPass
  <2>3. \A n \in 1..MaxLogged : posts[n] \in Nat
      BY <1>1 DEF TypeOK
  <2> QED BY <1>1, <2>1, <2>2, <2>3 DEF PostsInv
<1> QED BY <1>2, <1>3, <1>4, <1>5, <1>6, <1>7, <1>8, <1>9, <1>10 DEF Next, ReportPass

LEMMA PostsKept == Spec => [](PostsInv /\ RingInv)
<1>1. Init => PostsInv /\ RingInv
    BY InitPosts, InitRing
<1>2. PostsInv /\ RingInv /\ [Next]_vars => (PostsInv /\ RingInv)'
    BY NextPosts, NextRing
<1> QED BY <1>1, <1>2, PTL DEF Spec

\* A report given up on may have been taken (link.ts:116-127): an entry is in the door
\* history once, and once more for each request that failed or restart there was.
THEOREM EachRepeatCostsAFault == Spec => []RepeatsNeedFaults
<1>1. PostsInv => RepeatsNeedFaults
    BY DEF PostsInv, RepeatsNeedFaults
<1> QED BY <1>1, PostsKept, PTL

\* "The log is cleared only after the API has taken the events" (main.ts:78-80): whatever
\* fails and whatever the reader logs meanwhile, an entry the pass has read is not cleared
\* before it is in the door history.
THEOREM ReadEntriesAreNotLost == Spec => ReadEntriesAreTakenFirst
<1>1. PostsInv /\ RingInv /\ [Next]_vars =>
          [\A n \in OnRing :
              /\ n \in Numbers(entries)
              /\ logged' = logged
              /\ n \notin Numbers(ParseLog(ring'))
              => posts[n] > 0]_vars
  <2> SUFFICES ASSUME PostsInv, Next, NEW n \in OnRing, n \in Numbers(entries), logged' = logged,
                      n \notin Numbers(ParseLog(ring'))
               PROVE  posts[n] > 0
      OBVIOUS
  <2>1. TypeOK
      BY DEF PostsInv
  <2>2. n \in 1..MaxLogged /\ logged \in Nat
      BY <2>1, NumbersFacts
  <2>3. ring' # ring
      BY DEF OnRing
  <2>4. pass = "posted"
      BY <2>2, <2>3 DEF Next, ReportPass, PresentCard, LogOther, ReadLog, PostReport, ClearReported,
                        PassFails, PostAnswerLost, ClearAnswerLost, boardVars
  <2> QED BY <2>2, <2>4 DEF PostsInv
<1> QED BY <1>1, PostsKept, PTL DEF Spec, ReadEntriesAreTakenFirst
=============================================================================
