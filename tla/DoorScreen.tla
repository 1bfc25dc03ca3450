----------------------------- MODULE DoorScreen -----------------------------
(***************************************************************************)
(* The status and the controls of the two door screens, the members' and   *)
(* the admins', which poll the API on a timer shorter than the time a      *)
(* request may take: polls overlap and answers arrive in any order.        *)
(*                                                                         *)
(* Time is counted in ages: of the newest report the API has, of each      *)
(* request, of the report a screen draws.                                  *)
(***************************************************************************)
EXTENDS Integers, FiniteSets

CONSTANTS
    None,
    Poll,       \* POLL_MS
    Timeout,    \* REQUEST_TIMEOUT_MS
    Stale       \* doorStatusStaleSeconds

VARIABLES
    app,        \* "members" or "admin"
    reported,   \* the age of the newest report the API has
    door,       \* what the screen draws: the age of a report, and stale as answered
    pending,    \* the panel is being loaded, and shows nothing
    error,      \* the panel's load failed, and it shows that
    busy,       \* a button says Sending, and no other can be pressed
    phase,      \* until the timer's next tick; None before there is one
    cutOff,     \* a poll since the report that is drawn was answered in part
    requests

panel == <<door, pending, error, cutOff>>
vars == <<app, reported, panel, busy, phase, requests>>

\* Ages past these are alike: nothing compares older ones, nor any that the admins' panel
\* draws, and a stale answer stays one.
Oldest == IF app = "members" THEN Stale + Poll + 2 * Timeout + 1 ELSE Stale
Aged(reading) ==
    IF reading = None \/ reading.stale \/ reading.age = Oldest THEN reading
    ELSE [reading EXCEPT !.age = @ + 1]

Reading(age) == [stale |-> age > Stale, age |-> IF age > Stale THEN 0 ELSE age]

(***************************************************************************)
(* Requests: doorStatus, by the first load, a poll or a press that was     *)
(* taken, and controlDoor.                                                 *)
(***************************************************************************)

Ids == 0..3
Sends(left, kind) ==
    LET id == CHOOSE n \in Ids : n \notin {r.id : r \in left} /\ \A k \in 0..(n - 1) : k \in {r.id : r \in left}
    IN  requests' = left \cup {[id |-> id, kind |-> kind, age |-> 0, answer |-> None]}

\* The API answers with the newest report and whether it is stale, and takes a command
\* only if it is not.
Handle(r) ==
    /\ r.answer = None
    /\ requests' = (requests \ {r}) \cup {[r EXCEPT !.answer = Reading(reported)]}
    /\ UNCHANGED <<app, reported, panel, busy, phase>>

\* The API takes a report of the door service.
Report ==
    /\ reported # 0
    /\ reported' = 0
    /\ UNCHANGED <<app, panel, busy, phase, requests>>

\* Time passes up to the next thing that is due.
Tick ==
    /\ phase # 0
    /\ \A r \in requests : r.age < Timeout
    /\ phase' = IF phase = None THEN None ELSE phase - 1
    /\ requests' = {[r EXCEPT !.age = @ + 1,
                              !.answer = IF r.kind = "control" THEN @ ELSE Aged(@)] : r \in requests}
    /\ reported' = IF reported > Stale THEN reported ELSE reported + 1
    /\ door' = Aged(door)
    /\ UNCHANGED <<app, pending, error, cutOff, busy>>

(***************************************************************************)
(* The screens.                                                            *)
(***************************************************************************)

\* A stale report is not a reading: without one neither door is drawn and every control
\* is off.
Live == door # None /\ ~door.stale /\ ~pending /\ ~error

PollNow ==
    /\ phase = 0
    /\ phase' = Poll
    /\ UNCHANGED <<app, reported, panel, busy>>
    /\ Sends(requests, "poll")

Send ==
    /\ Live /\ ~busy
    /\ busy' = TRUE
    /\ UNCHANGED <<app, reported, panel, phase>>
    /\ Sends(requests, "control")

\* Try again, where the admin's panel shows what its load failed with.
Retry ==
    /\ error
    /\ pending' = TRUE /\ error' = FALSE
    /\ UNCHANGED <<app, reported, door, cutOff, busy, phase>>
    /\ Sends(requests, "load")

Release(r) == busy' = IF r.kind = "refresh" THEN FALSE ELSE busy

StatusRead(r) ==
    /\ r.kind # "control" /\ r.answer # None
    /\ door' = r.answer
    /\ pending' = IF r.kind = "load" THEN FALSE ELSE pending
    /\ phase' = IF r.kind = "load" /\ phase = None THEN Poll ELSE phase
    /\ requests' = requests \ {r}
    /\ Release(r)
    /\ cutOff' = FALSE
    /\ UNCHANGED <<app, reported, error>>

\* A plausible mistake: a read that fails leaves what is drawn alone.
StatusFailedKeepingIt(r) ==
    /\ r.kind # "control"
    /\ pending' = IF r.kind = "load" THEN FALSE ELSE pending
    /\ error' = (error \/ (app = "admin" /\ r.kind = "load"))
    /\ phase' = IF r.kind = "load" /\ phase = None THEN Poll ELSE phase
    /\ requests' = requests \ {r}
    /\ Release(r)
    /\ UNCHANGED <<app, reported, door, cutOff>>

\* The members' screen then draws nothing; the admins' panel keeps the last answer it
\* had, unless it is the load that failed.
StatusFailed(r) ==
    /\ r.kind # "control"
    /\ door' = IF app = "members" THEN None ELSE door
    /\ pending' = IF r.kind = "load" THEN FALSE ELSE pending
    /\ error' = (error \/ (app = "admin" /\ r.kind = "load"))
    /\ phase' = IF r.kind = "load" /\ phase = None THEN Poll ELSE phase
    /\ requests' = requests \ {r}
    /\ Release(r)
    /\ cutOff' = (cutOff /\ door' # None)
    /\ UNCHANGED <<app, reported>>

\* The command is queued, and the status is read again before the button comes back.
ControlTaken(r) ==
    /\ r.kind = "control" /\ r.answer # None /\ ~r.answer.stale
    /\ UNCHANGED <<app, reported, panel, busy, phase>>
    /\ Sends(requests \ {r}, "refresh")

\* Refused because nothing was reported lately, or no answer in time.
ControlFailed(r) ==
    /\ r.kind = "control"
    /\ busy' = FALSE
    /\ requests' = requests \ {r}
    /\ UNCHANGED <<app, reported, panel, phase>>

\* An answer whose body breaks off is an error no handler expects: a poll's goes nowhere,
\* and any other ends the members' screen until the page is loaded again, with the timer
\* and whatever is still under way.
CutOff(r) ==
    /\ r.answer # None
    /\ busy' = (busy /\ r.kind \in {"load", "poll"})
    /\ IF app = "members" /\ r.kind # "poll"
       THEN pending' = TRUE /\ phase' = None /\ requests' = {} /\ door' = None /\ cutOff' = FALSE
       ELSE /\ pending' = (pending /\ r.kind # "load")
            /\ requests' = requests \ {r}
            /\ cutOff' = (cutOff \/ (app = "members" /\ Live))
            /\ UNCHANGED <<phase, door>>
    /\ UNCHANGED <<app, reported, error>>

(***************************************************************************)
(* The specification.                                                      *)
(***************************************************************************)

\* The admins' timer starts with the screen, the members' after the first read.
Init ==
    /\ app \in {"members", "admin"}
    /\ reported \in {0, Stale + 1}
    /\ door = None /\ pending = TRUE /\ error = FALSE /\ cutOff = FALSE
    /\ busy = FALSE
    /\ phase = (IF app = "admin" THEN Poll ELSE None)
    /\ requests = {[id |-> 0, kind |-> "load", age |-> 0, answer |-> None]}

Ends(r) == StatusRead(r) \/ StatusFailed(r) \/ ControlTaken(r) \/ ControlFailed(r) \/ CutOff(r)

Next ==
    \/ Report \/ Tick \/ PollNow \/ Send \/ Retry
    \/ \E r \in requests : Handle(r) \/ Ends(r)

Spec == Init /\ [][Next]_vars

\* The client gives every request a timeout; one press at a time is under way.
Pressed == {r \in requests : r.kind \in {"control", "refresh"}}
Timed == \E r \in Pressed : Ends(r)

(***************************************************************************)
(* Properties.                                                             *)
(***************************************************************************)

\* The members' screen draws a door as locked or unlocked, and offers its controls, only
\* off a report that was fresh at most one poll and two timeouts ago, however the answers
\* crossed and whichever were lost (members DoorView.vue:58-59, 94-102); one that breaks
\* off leaves what is drawn alone.
TilesAreRecent == app = "members" /\ Live => door.age < Oldest \/ cutOff
=============================================================================
