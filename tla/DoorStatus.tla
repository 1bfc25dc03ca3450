----------------------------- MODULE DoorStatus -----------------------------
(***************************************************************************)
(* What the public is told about the doors:                                *)
(*                                                                         *)
(*   board --(status)--> door service --(report)--> door_events --> public *)
(*                                                                         *)
(* Two hosts, two clocks.  A report carries the time on the door service's *)
(* clock, the API believes it within a tolerance, and the newest row by    *)
(* that time is what the public page, the members' screen and the command  *)
(* queue go by.  The door service's clock may be off and may be set again  *)
(* while it runs; a report may reach the API late, after the next one, or  *)
(* not at all.                                                             *)
(***************************************************************************)
EXTENDS Integers, FiniteSets

CONSTANTS
    Door,               \* the doors whose lock the status tells of
    Offsets,            \* the door service's clock minus the API's, in ticks
    ClockSkew,          \* CLOCK_SKEW_SECONDS
    StatusStale,        \* doorStatusStaleSeconds
    ControllerTimeout,  \* CONTROLLER_TIMEOUT_MS: reading the log, before the post
    ApiTimeout,         \* API_TIMEOUT_MS: the door service gives a report up
    ReportDelay,        \* bound: how long a report is under way at most
    MaxTime,            \* bound: ticks of the API's clock
    MaxSteps            \* bound: times the door service's clock is set

ASSUME OffsetsAssumption == Offsets \subseteq Int
ASSUME DurationsAssumption ==
    {ClockSkew, StatusStale, ControllerTimeout, ApiTimeout, ReportDelay} \subseteq Nat
ASSUME StatusBoundsAssumption == MaxTime \in Nat \ {0} /\ MaxSteps \in Nat

VARIABLES
    now,           \* the API's clock
    offset,        \* the door service's clock is now + offset
    unlocked,      \* the board: the doors that are unlocked
    \* the door service
    pass,          \* "idle", or "read": a status is in hand and not posted
    reading,       \* the doors it found unlocked
    readAt,        \* when, on the API's clock
    posted,        \* when the last report was posted, on the API's clock
    \* on the way, and in door_events
    wire,          \* reports the API has not handled
    rows,          \* the status rows
    \* history, read by the properties only
    lastUnlocked,  \* when each door was last unlocked
    steps

doorVars == <<pass, reading, readAt, posted>>
vars == <<now, offset, unlocked, doorVars, wire, rows, lastUnlocked, steps>>

(***************************************************************************)
(* The API.                                                                *)
(***************************************************************************)

\* A plausible mistake: the reported time is taken as it comes.
AsReported(reported, at) == reported

\* A plausible mistake: a row carries the time it was inserted.
AsInserted(reported, at) == at

\* A time this server is willing to believe.
BelievableTime(reported, at) == IF reported > at + ClockSkew THEN at ELSE reported

\* The newest status: one of the rows, not from the future, with the highest time.
LatestDoorStatus ==
    LET bounded == {row \in rows : row.at <= now + ClockSkew}
    IN  {row \in bounded : \A other \in bounded : other.at <= row.at}

IsFresh(at) == now - at <= StatusStale

\* The public document: the doors it calls open.  Nothing fresh reads closed.
DeriveSpaceApiState(row) == IF IsFresh(row.at) THEN row.status ELSE {}

\* POST /api/door/report: one row for the status.
RecordReport(report) ==
    /\ report \in wire
    /\ rows' = rows \cup {[at |-> BelievableTime(report.reportedAt, now),
                           status |-> report.status, readAt |-> report.readAt]}
    /\ wire' = wire \ {report}
    /\ UNCHANGED <<now, offset, unlocked, doorVars, lastUnlocked, steps>>

LoseReport(report) ==
    /\ report \in wire
    /\ wire' = wire \ {report}
    /\ UNCHANGED <<now, offset, unlocked, doorVars, rows, lastUnlocked, steps>>

(***************************************************************************)
(* The door service (runReportPass, postReport).                           *)
(***************************************************************************)

\* The next pass begins once the last report was answered or given up.  The board's
\* sample and its answer are one moment.
ReadStatus ==
    /\ pass = "idle"
    /\ \A report \in wire : now >= report.sentAt + ApiTimeout
    /\ pass' = "read"
    /\ reading' = unlocked
    /\ readAt' = now
    /\ UNCHANGED <<now, offset, unlocked, posted, wire, rows, lastUnlocked, steps>>

EndPass == pass' = "idle" /\ reading' = {} /\ readAt' = 0

\* The report is dated when it is posted, not when the board answered.  Two
\* posts are never in the same tick: a pass lasts longer than the clock's unit.
PostReport ==
    /\ pass = "read"
    /\ now > posted
    /\ wire' = wire \cup {[reportedAt |-> now + offset, status |-> reading,
                           readAt |-> readAt, sentAt |-> now]}
    /\ posted' = now
    /\ EndPass
    /\ UNCHANGED <<now, offset, unlocked, rows, lastUnlocked, steps>>

\* The log could not be read, or the service restarted.
PassFails ==
    /\ pass = "read"
    /\ EndPass
    /\ UNCHANGED <<now, offset, unlocked, posted, wire, rows, lastUnlocked, steps>>

(***************************************************************************)
(* The building, and the clocks.                                           *)
(***************************************************************************)

TurnLock(door) ==
    /\ unlocked' = (unlocked \cup {door}) \ (unlocked \cap {door})
    /\ lastUnlocked' = [lastUnlocked EXCEPT ![door] = now]
    /\ UNCHANGED <<now, offset, doorVars, wire, rows, steps>>

\* The door service's clock is set.
StepClock ==
    /\ steps < MaxSteps
    /\ offset' \in Offsets \ {offset}
    /\ steps' = steps + 1
    /\ UNCHANGED <<now, unlocked, doorVars, wire, rows, lastUnlocked>>

Tick ==
    /\ now < MaxTime
    /\ pass = "read" => now < readAt + ControllerTimeout
    /\ \A report \in wire : now < report.sentAt + ReportDelay
    /\ now' = now + 1
    /\ lastUnlocked' = [d \in Door |-> IF d \in unlocked THEN now + 1 ELSE lastUnlocked[d]]
    /\ UNCHANGED <<offset, unlocked, doorVars, wire, rows, steps>>

(***************************************************************************)
(* The specification.                                                      *)
(***************************************************************************)

Never == -1

Init ==
    /\ now = 1
    /\ offset \in Offsets
    /\ unlocked = {}
    /\ pass = "idle"
    /\ reading = {}
    /\ readAt = 0
    /\ posted = 0
    /\ wire = {}
    /\ rows = {}
    /\ lastUnlocked = [d \in Door |-> Never]
    /\ steps = 0

Next ==
    \/ \E report \in wire : RecordReport(report) \/ LoseReport(report)
    \/ ReadStatus \/ PostReport \/ PassFails
    \/ \E door \in Door : TurnLock(door)
    \/ StepClock
    \/ Tick

Spec == Init /\ [][Next]_vars

(***************************************************************************)
(* Properties.                                                             *)
(***************************************************************************)

\* Every variable keeps its shape, and no row is dated further ahead than the
\* tolerance (believableTime, door.ts:204-217).
TypeOK ==
    /\ now \in 1..MaxTime
    /\ offset \in Offsets
    /\ unlocked \subseteq Door
    /\ pass \in {"idle", "read"}
    /\ reading \subseteq Door
    /\ readAt \in 0..now
    /\ pass = "read" => readAt > 0
    /\ posted \in 0..now
    /\ wire \subseteq [reportedAt : Int, status : SUBSET Door, readAt : 1..now, sentAt : 1..posted]
    /\ rows \subseteq [at : Int, status : SUBSET Door, readAt : 1..now]
    /\ \A row \in rows : row.at <= now + ClockSkew
    /\ lastUnlocked \in [Door -> Never..now]
    /\ steps \in 0..MaxSteps

\* A door the public page calls open was really unlocked not long ago: within
\* the staleness window and the tolerance, one log read and one report under
\* way.  No clock, however wrong and however often set, keeps an open door on the
\* page longer ("a member is told the front door is unlocked on the strength of a
\* reading that never happened", door.ts:211-212).
OpenIsRecent ==
    \A row \in LatestDoorStatus : \A door \in DeriveSpaceApiState(row) :
        now - lastUnlocked[door] <= StatusStale + ClockSkew + ControllerTimeout + ReportDelay

\* "The newest status the door service posted" (door.ts:97): while the door
\* service's clock is within the tolerance and nobody sets it, what is shown is
\* the newest reading the API has, though a report given up on may be handled
\* after the one that followed it.
NewestStatusIsShown ==
    steps = 0 /\ offset <= ClockSkew =>
        \A row \in LatestDoorStatus : \A other \in rows : other.readAt <= row.readAt
=============================================================================
