----------------------------- MODULE Enrolment ------------------------------
(***************************************************************************)
(* The rest of the admins' door screen: the queue of cards nobody holds,   *)
(* handing one of them out, the card table, and asking for a sync.  The    *)
(* queue is polled; the card table is read again only after a change made  *)
(* here.  Other admins work on the same table.                             *)
(*                                                                         *)
(* Which member and which slot a card goes to is module Members.           *)
(***************************************************************************)
EXTENDS Naturals, FiniteSets

CONSTANTS
    Card,
    None,
    MaxLost     \* bound: requests that fail, or that get no answer

VARIABLES
    read,       \* cards held to the reader of late
    rows,       \* the card table: the cards handed out, each active or not
    queue,      \* the screen's panels
    table,
    directory,  \* the members to pick from are there
    pending,    \* the panels that are being loaded
    failed,     \* the panels whose load failed, with Try again
    picked,     \* the card being assigned
    asking,     \* its question is open
    assigning,  \* an assignment, a deactivation or a sync is in flight, its button
    busySlot,   \* off until everything it waits for has ended
    syncing,
    requests,
    lost

api == <<read, rows>>
panels == <<queue, table, directory, pending, failed>>
form == <<picked, asking>>
flags == <<assigning, busySlot, syncing>>
vars == <<api, panels, form, flags, requests, lost>>

\* Cards read and in no row: a row that is deactivated keeps its card.
UnknownCards == read \ {row.card : row \in rows}

Reads == {"unknown-cards", "cards", "members"}

\* for: what waits for it, a panel's load, the timer, an assignment, a deactivation, a sync.
Request(kind, for, card) == [kind |-> kind, for |-> for, card |-> card, answer |-> None]

Shown(kind) == kind \notin pending \cup failed

(***************************************************************************)
(* The API.                                                                *)
(***************************************************************************)

AnswerTo(r) ==
    CASE r.kind = "unknown-cards" -> UnknownCards
      [] r.kind = "cards"         -> rows
      [] r.kind = "assign"        -> \A row \in rows : row.card # r.card
      [] OTHER                    -> TRUE

Deactivated(card) == {IF row.card = card THEN [row EXCEPT !.active = FALSE] ELSE row : row \in rows}

Handle(r) ==
    /\ r.answer = None
    /\ requests' = (requests \ {r}) \cup {[r EXCEPT !.answer = [is |-> AnswerTo(r)]]}
    /\ rows' = CASE r.kind = "assign" /\ AnswerTo(r) -> rows \cup {[card |-> r.card, active |-> TRUE]}
                 [] r.kind = "deactivate"             -> Deactivated(r.card)
                 [] OTHER                             -> rows
    /\ UNCHANGED <<read, panels, form, flags, lost>>

\* A card is held to the reader, and another admin hands one out or takes it back.
CardIsRead ==
    /\ \E c \in Card \ read : read' = read \cup {c}
    /\ UNCHANGED <<rows, panels, form, flags, requests, lost>>

OtherAdminActs ==
    /\ \/ \E c \in UnknownCards : rows' = rows \cup {[card |-> c, active |-> TRUE]}
       \/ \E row \in rows : rows' = Deactivated(row.card) /\ rows' # rows
    /\ UNCHANGED <<read, panels, form, flags, requests, lost>>

(***************************************************************************)
(* The screen.                                                             *)
(***************************************************************************)

\* One poll of the timer at a time, or two: a request may take longer than the timer.
PollNow ==
    /\ Cardinality({r \in requests : r.for = "timer"}) < 2
    /\ requests' = requests \cup {Request("unknown-cards", "timer", None)}
    /\ requests' # requests
    /\ UNCHANGED <<api, panels, form, flags, lost>>

\* Try again.  The queue's asks for the members too, whose own failure shows nowhere.
Retry(kind) ==
    /\ kind \in failed
    /\ failed' = failed \ {kind}
    /\ pending' = pending \cup {kind}
    /\ requests' = requests \cup
           {Request(k, "load", None) : k \in IF kind = "cards" THEN {"cards"} ELSE {"unknown-cards", "members"}}
    /\ UNCHANGED <<api, queue, table, directory, form, flags, lost>>

\* Off while an assignment is in flight, so that a second one cannot be started.
Pick(c) ==
    /\ Shown("unknown-cards")
    /\ c \in queue /\ c # picked /\ ~assigning
    /\ picked' = c
    /\ UNCHANGED <<api, panels, asking, flags, requests, lost>>

\* Review, Back and Cancel: the form picks a member, the question names card and member.
Review ==
    /\ Shown("unknown-cards")
    /\ picked # None /\ directory /\ ~assigning
    /\ asking' = ~asking
    /\ UNCHANGED <<api, panels, picked, flags, requests, lost>>

Cancel ==
    /\ Shown("unknown-cards") /\ picked # None /\ ~asking
    /\ picked' = None
    /\ UNCHANGED <<api, panels, asking, flags, requests, lost>>

Assign ==
    /\ Shown("unknown-cards") /\ asking /\ ~assigning
    /\ assigning' = TRUE
    /\ requests' = requests \cup {Request("assign", "assign", picked)}
    /\ UNCHANGED <<api, panels, form, busySlot, syncing, lost>>

Deactivate(row) ==
    /\ Shown("cards") /\ row \in table /\ row.active /\ ~busySlot
    /\ busySlot' = TRUE
    /\ requests' = requests \cup {Request("deactivate", "deactivate", row.card)}
    /\ UNCHANGED <<api, panels, form, assigning, syncing, lost>>

Sync ==
    /\ ~syncing
    /\ syncing' = TRUE
    /\ requests' = requests \cup {Request("sync", "sync", None)}
    /\ UNCHANGED <<api, panels, form, assigning, busySlot, lost>>

(***************************************************************************)
(* Answers.                                                                *)
(***************************************************************************)

\* The button of what waited comes back once nothing it waits for is left.
Settles(left) ==
    /\ requests' = left
    /\ assigning' = (assigning /\ \E r \in left : r.for = "assign")
    /\ busySlot' = (busySlot /\ \E r \in left : r.for = "deactivate")
    /\ syncing' = (syncing /\ \E r \in left : r.for = "sync")

\* A panel shows the answer that came last.
PanelRead(r) ==
    /\ r.kind \in Reads /\ r.answer # None
    /\ queue' = IF r.kind = "unknown-cards" THEN r.answer.is ELSE queue
    /\ table' = IF r.kind = "cards" THEN r.answer.is ELSE table
    /\ directory' = IF r.kind = "members" THEN r.answer.is ELSE directory
    /\ pending' = IF r.for = "load" THEN pending \ {r.kind} ELSE pending
    /\ Settles(requests \ {r})
    /\ UNCHANGED <<api, form, failed, lost>>

\* What was assigned is no longer picked, and its panels are read again, both at once.
Assigned(r) ==
    /\ r.kind = "assign" /\ r.answer # None /\ r.answer.is
    /\ picked' = None /\ asking' = FALSE
    /\ Settles((requests \ {r}) \cup {Request(kind, "assign", None) : kind \in {"unknown-cards", "cards"}})
    /\ UNCHANGED <<api, panels, lost>>

DeactivateDone(r) ==
    /\ r.kind = "deactivate" /\ r.answer # None
    /\ Settles((requests \ {r}) \cup {Request("cards", "deactivate", None)})
    /\ UNCHANGED <<api, panels, form, lost>>

SyncDone(r) ==
    /\ r.kind = "sync" /\ r.answer # None
    /\ Settles(requests \ {r})
    /\ UNCHANGED <<api, panels, form, lost>>

\* Refused: the question stays, with the reason under it.
Refused(r) ==
    /\ r.kind = "assign" /\ r.answer # None /\ ~r.answer.is
    /\ Settles(requests \ {r})
    /\ UNCHANGED <<api, panels, form, lost>>

\* No answer.  A panel keeps what it shows, unless it was its load that failed.
Unanswered(r) ==
    /\ lost < MaxLost
    /\ lost' = lost + 1
    /\ pending' = IF r.for = "load" THEN pending \ {r.kind} ELSE pending
    /\ failed' = IF r.for = "load" THEN failed \cup ({r.kind} \ {"members"}) ELSE failed
    /\ Settles(requests \ {r})
    /\ UNCHANGED <<api, queue, table, directory, form>>

\* The body of an answer breaks off, which no handler expects: nothing is said, and what
\* waited for it waits for nothing else.
CutOff(r) ==
    /\ r.answer # None /\ lost < MaxLost
    /\ lost' = lost + 1
    /\ pending' = IF r.for = "load" THEN pending \ {r.kind} ELSE pending
    /\ Settles({IF q.for = r.for /\ r.for \in {"assign", "deactivate"}
                THEN [q EXCEPT !.for = "nobody"] ELSE q : q \in requests \ {r}})
    /\ UNCHANGED <<api, queue, table, directory, failed, form>>

(***************************************************************************)
(* The specification.                                                      *)
(***************************************************************************)

Init ==
    /\ read \in SUBSET Card
    /\ rows \in {{}} \cup {{[card |-> c, active |-> TRUE]} : c \in Card}
    /\ queue = {} /\ table = {} /\ directory = FALSE
    /\ pending = {"unknown-cards", "cards"} /\ failed = {}
    /\ picked = None /\ asking = FALSE
    /\ assigning = FALSE /\ busySlot = FALSE /\ syncing = FALSE
    /\ requests = {Request(kind, "load", None) : kind \in Reads}
    /\ lost = 0

Ends(r) == PanelRead(r) \/ Assigned(r) \/ DeactivateDone(r) \/ SyncDone(r) \/ Refused(r)

Next ==
    \/ CardIsRead \/ OtherAdminActs \/ PollNow \/ Review \/ Cancel \/ Assign \/ Sync
    \/ \E kind \in Reads : Retry(kind)
    \/ \E c \in Card : Pick(c)
    \/ \E row \in table : Deactivate(row)
    \/ \E r \in requests : Handle(r) \/ Ends(r) \/ Unanswered(r) \/ CutOff(r)

Spec == Init /\ [][Next]_vars

\* The timer keeps firing, and what it asks is answered.
Polled == {r \in requests : r.for = "timer"}
TimerHandled == \E r \in Polled : Handle(r)
TimerRead == \E r \in Polled : PanelRead(r)
=============================================================================
