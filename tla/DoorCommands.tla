---------------------------- MODULE DoorCommands ----------------------------
(***************************************************************************)
(* A door command's way from a member's phone to the board:                *)
(*                                                                         *)
(*   member --> door_commands --(drain)--> door service --> board          *)
(*                                                                         *)
(* The API stores the command, the door service drains the queue at the    *)
(* start of each pass and runs what it was handed, one request at a time.  *)
(* A drain is three statements on the database, several can be open at     *)
(* once because the door service gives up on one after a timeout and asks  *)
(* again, and either process can restart between any two steps.            *)
(***************************************************************************)
EXTENDS Naturals, Sequences, FiniteSets

CONSTANTS
    Drain,              \* requests to GET /api/door/commands open at one time
    NoDrain,            \* waiting for none of them
    MemberCommands,     \* the commands members ask for, of DoorCommand
    LocalCommands,      \* the commands sent to the door service's own port
    CommandTtl,         \* COMMAND_TTL_SECONDS, in ticks of the clock
    StatusStale,        \* doorStatusStaleSeconds, in ticks
    ApiTimeout,         \* API_TIMEOUT_MS, in ticks
    ControllerTimeout,  \* CONTROLLER_TIMEOUT_MS, in ticks
    MaxCommands,        \* bound: commands queued
    MaxTime,            \* bound: ticks of the clock
    MaxFaults           \* bound: failed requests and restarts

DoorCommand == {"open-front", "open-rear", "unlock", "unlock-front", "unlock-rear",
                "lock", "lock-front", "lock-rear", "arm", "disarm"}

ASSUME TimesAssumption == /\ CommandTtl \in Nat /\ StatusStale \in Nat
                          /\ ApiTimeout \in Nat /\ ControllerTimeout \in Nat
ASSUME NoDrainAssumption == NoDrain \notin Drain
ASSUME CommandsAssumption == MemberCommands \cup LocalCommands \subseteq DoorCommand
ASSUME CommandBoundsAssumption ==
    MaxCommands \in Nat /\ MaxTime \in Nat \ {0} /\ MaxFaults \in Nat

VARIABLES
    now,         \* one clock: the two hosts' skew is DoorStatus's subject
    \* the members database
    queue,       \* door_commands, in id order
    audited,     \* ids with a door.control row in audit_log
    history,     \* ids the door history says never ran
    reportedAt,  \* the newest status reading, 0 for none
    \* the API process
    auditing,    \* ids inserted whose audit row the handler still has to write
    drains,      \* the drains it is answering
    \* the door service
    pass,        \* "idle", "asking", "running", "reporting"
    answering,   \* the drain it waits for
    since,       \* when the request it waits for was sent
    batch,       \* ids handed over and not yet run
    handedOver,  \* all ids of this pass's answer
    \* the board
    locked,      \* the doors held locked
    \* history, read by the properties only
    taken,       \* ids that ever reached the door service
    runs,        \* how often each id was run on the board
    faults

dbVars == <<queue, audited, history, reportedAt>>
apiVars == <<auditing, drains>>
doorVars == <<pass, answering, since, batch, handedOver>>
boardVars == <<locked, taken, runs>>
vars == <<now, dbVars, apiVars, doorVars, boardVars, faults>>

Id == 1..MaxCommands
Ids == DOMAIN queue
Idle == [step |-> "idle", at |-> 0, ids |-> {}]

(***************************************************************************)
(* The lab's decision of 2018-02-22, and what the board does with the rest.*)
(***************************************************************************)

\* A plausible mistake: only the command that names the rear door is refused.
OnlyRearRefused == {"unlock-rear"}

RefusedDoorCommands == {"unlock-rear", "unlock"}

\* The doors held locked once the board has carried a command out.
Effect(command, doors) ==
    CASE command = "unlock"       -> {}
      [] command = "unlock-front" -> doors \ {"front"}
      [] command = "unlock-rear"  -> doors \ {"rear"}
      [] command = "lock"         -> {"front", "rear"}
      [] command = "lock-front"   -> doors \cup {"front"}
      [] command = "lock-rear"    -> doors \cup {"rear"}
      [] OTHER                    -> doors

(***************************************************************************)
(* Members, through the API.                                               *)
(***************************************************************************)

\* The status is recent enough to queue into.
IsFresh == reportedAt > 0 /\ now - reportedAt <= StatusStale

\* POST /api/door/control.  A refused command only writes an audit row, a stale
\* status answers 503; otherwise the row is inserted, and audited next.
Control(command) ==
    /\ command \notin RefusedDoorCommands
    /\ IsFresh
    /\ Len(queue) < MaxCommands
    /\ queue' = Append(queue, [command |-> command, requestedAt |-> now, resolution |-> "waiting"])
    /\ auditing' = auditing \cup {Len(queue) + 1}
    /\ UNCHANGED <<now, audited, history, reportedAt, drains, doorVars, boardVars, faults>>

\* The handler's second statement.
AuditControl(id) ==
    /\ id \in auditing
    /\ audited' = audited \cup {id}
    /\ auditing' = auditing \ {id}
    /\ UNCHANGED <<now, queue, history, reportedAt, drains, doorVars, boardVars, faults>>

(***************************************************************************)
(* drainCommands: expire, record what expired, claim the rest.             *)
(***************************************************************************)

Waiting == {id \in Ids : queue[id].resolution = "waiting"}

Resolve(ids, resolution) ==
    queue' = [id \in Ids |-> IF id \in ids THEN [queue[id] EXCEPT !.resolution = resolution]
                                           ELSE queue[id]]

\* A plausible mistake: every old row is expired again, whatever became of it.
StaleAtAnyResolution(at) == {id \in Ids : queue[id].requestedAt + CommandTtl < at}

\* A plausible mistake: nothing waits too long.
NeverStale(at) == {}

\* The commands that have waited too long, as of `at`.
Stale(at) == {id \in Waiting : queue[id].requestedAt + CommandTtl < at}

\* A plausible mistake: the claim reads the rows and marks nothing of them.
ClaimableEvenIfSent == {id \in Ids : queue[id].resolution # "expired"}

\* The commands a claim takes: whatever still waits.
Claimable == Waiting

\* One request of the API's own; only drains and their rows change.
DrainStep ==
    UNCHANGED <<now, audited, reportedAt, auditing, doorVars, boardVars, faults>>

ExpireStale(d) ==
    LET stale == Stale(drains[d].at)
    IN  /\ drains[d].step = "began"
        /\ Resolve(stale, "expired")
        /\ drains' = [drains EXCEPT ![d] =
                         [step |-> IF stale = {} THEN "settled" ELSE "expired", at |-> 0, ids |-> stale]]
        /\ UNCHANGED history
        /\ DrainStep

RecordExpired(d) ==
    /\ drains[d].step = "expired"
    /\ history' = history \cup drains[d].ids
    /\ drains' = [drains EXCEPT ![d].step = "settled", ![d].ids = {}]
    /\ UNCHANGED queue
    /\ DrainStep

Claim(d) ==
    /\ drains[d].step = "settled"
    /\ Resolve(Claimable, "sent")
    /\ drains' = [drains EXCEPT ![d].step = "claimed", ![d].ids = Claimable]
    /\ UNCHANGED history
    /\ DrainStep

\* Nobody waits for this drain any more: its answer goes nowhere.
DropAnswer(d) ==
    /\ drains[d].step = "claimed"
    /\ answering # d
    /\ drains' = [drains EXCEPT ![d] = Idle]
    /\ UNCHANGED <<queue, history>>
    /\ DrainStep

(***************************************************************************)
(* The door service's pass.                                                *)
(***************************************************************************)

DoorStep == UNCHANGED <<now, queue, audited, history, auditing>>

\* The timer fires with no pass running and the queue is asked for.  The drain
\* reads its clock when the request arrives; that it is not delayed on the way is
\* the worst case, since a later clock expires more.
AskForCommands ==
    /\ pass = "idle"
    /\ \E d \in Drain :
           /\ drains[d] = Idle
           /\ drains' = [drains EXCEPT ![d] = [step |-> "began", at |-> now, ids |-> {}]]
           /\ answering' = d
    /\ pass' = "asking"
    /\ since' = now
    /\ DoorStep
    /\ UNCHANGED <<reportedAt, batch, handedOver, boardVars, faults>>

\* The answer arrives in time.
TakeCommands ==
    /\ pass = "asking"
    /\ drains[answering].step = "claimed"
    /\ batch' = drains[answering].ids
    /\ handedOver' = drains[answering].ids
    /\ taken' = taken \cup drains[answering].ids
    /\ drains' = [drains EXCEPT ![answering] = Idle]
    /\ answering' = NoDrain
    /\ pass' = "running"
    /\ since' = now
    /\ DoorStep
    /\ UNCHANGED <<reportedAt, locked, runs, faults>>

\* A plausible mistake: the rows are run as the update returned them.
IsNextAsReturned(id) == id \in batch

\* The commands are run in the order members asked, ties in any order.
IsNext(id) == id \in batch /\ \A other \in batch : queue[id].requestedAt <= queue[other].requestedAt

\* What running one command does to the board.
RunOnBoard(id) ==
    /\ locked' = Effect(queue[id].command, locked)
    /\ runs' = [runs EXCEPT ![id] = @ + 1]

RunNextCommand(id) ==
    /\ pass = "running"
    /\ IsNext(id)
    /\ IF queue[id].command \in RefusedDoorCommands
       THEN UNCHANGED <<locked, runs>>
       ELSE RunOnBoard(id)
    /\ batch' = batch \ {id}
    /\ since' = now
    /\ DoorStep
    /\ UNCHANGED <<reportedAt, drains, pass, answering, handedOver, taken, faults>>

FinishCommands ==
    /\ pass = "running"
    /\ batch = {}
    /\ pass' = "reporting"
    /\ DoorStep
    /\ UNCHANGED <<reportedAt, drains, answering, since, batch, handedOver, boardVars, faults>>

\* The pass is over, however it ended; what was left of the answer is gone.
EndPass ==
    /\ pass' = "idle"
    /\ answering' = NoDrain
    /\ batch' = {}
    /\ handedOver' = {}
    /\ since' = 0
    /\ DoorStep

\* The reconcile and the report went through, and the status is fresh again.
FinishPass ==
    /\ pass = "reporting"
    /\ reportedAt' = now
    /\ EndPass
    /\ UNCHANGED <<drains, boardVars, faults>>

\* The API took longer than API_TIMEOUT_MS: the pass is dropped, the drain goes on.
AskTimesOut ==
    /\ pass = "asking"
    /\ now >= since + ApiTimeout
    /\ EndPass
    /\ UNCHANGED <<reportedAt, drains, boardVars, faults>>

\* The board took longer than CONTROLLER_TIMEOUT_MS: by then it has run the command, or
\* it never does.  (The adapter only stops listening, controller.ts:98; a board that goes
\* on is left out, which RunsInTime and RunsInOrder need and AtMostOnce does not.)
BoardTimesOut(id) ==
    /\ pass = "running"
    /\ IsNext(id)
    /\ queue[id].command \notin RefusedDoorCommands
    /\ now >= since + ControllerTimeout
    /\ RunOnBoard(id) \/ UNCHANGED <<locked, runs>>
    /\ EndPass
    /\ UNCHANGED <<reportedAt, drains, taken, faults>>

(***************************************************************************)
(* Faults, and what reaches the board another way.                         *)
(***************************************************************************)

Fault == faults < MaxFaults /\ faults' = faults + 1

\* A plausible mistake: a pass that throws never clears `running`.
PassFailsForGood ==
    /\ Fault
    /\ pass # "idle"
    /\ pass' = "failed"
    /\ DoorStep
    /\ UNCHANGED <<reportedAt, drains, answering, since, batch, handedOver, boardVars>>

\* Any request of the pass fails, or the door service restarts.
PassFails ==
    /\ Fault
    /\ pass # "idle"
    /\ EndPass
    /\ UNCHANGED <<reportedAt, drains, boardVars>>

\* A deploy: every handler the API was running is gone, its statements are not.
RestartApi ==
    /\ Fault
    /\ auditing' = {}
    /\ drains' = [d \in Drain |-> Idle]
    /\ IF pass = "asking"
       THEN pass' = "idle" /\ answering' = NoDrain /\ since' = 0
       ELSE UNCHANGED <<pass, answering, since>>
    /\ UNCHANGED <<now, dbVars, batch, handedOver, boardVars>>

\* POST /control on the door service's loopback port, at any time.
ControlLocally(command) ==
    /\ command \notin RefusedDoorCommands
    /\ locked' = Effect(command, locked)
    /\ locked' # locked
    /\ UNCHANGED <<now, dbVars, apiVars, doorVars, taken, runs, faults>>

\* Time passes, though never beyond the deadline of a request being waited for.
Tick ==
    /\ now < MaxTime
    /\ pass = "asking" => now < since + ApiTimeout
    /\ pass = "running" /\ batch # {} => now < since + ControllerTimeout
    /\ now' = now + 1
    /\ UNCHANGED <<dbVars, apiVars, doorVars, boardVars, faults>>

(***************************************************************************)
(* The specification.  The clock starts at 1, with a status just reported. *)
(***************************************************************************)

Init ==
    /\ now = 1
    /\ queue = <<>>
    /\ audited = {}
    /\ history = {}
    /\ reportedAt = 1
    /\ auditing = {}
    /\ drains = [d \in Drain |-> Idle]
    /\ pass = "idle"
    /\ answering = NoDrain
    /\ since = 0
    /\ batch = {}
    /\ handedOver = {}
    /\ locked = {"front", "rear"}
    /\ taken = {}
    /\ runs = [id \in Id |-> 0]
    /\ faults = 0

Api ==
    \/ \E id \in Id : AuditControl(id)
    \/ \E d \in Drain : ExpireStale(d) \/ RecordExpired(d) \/ Claim(d) \/ DropAnswer(d)

DoorService ==
    \/ AskForCommands \/ TakeCommands \/ FinishCommands \/ FinishPass \/ AskTimesOut
    \/ \E id \in Id : RunNextCommand(id) \/ BoardTimesOut(id)

Next ==
    \/ \E command \in MemberCommands : Control(command)
    \/ Api
    \/ DoorService
    \/ PassFails \/ RestartApi
    \/ \E command \in LocalCommands : ControlLocally(command)
    \/ Tick

Spec == Init /\ [][Next]_vars

\* The API's event loop finishes what it started, and the timer keeps starting
\* passes that run to their end (startLoop).
FairSpec == Spec /\ WF_vars(Api) /\ WF_vars(DoorService) /\ WF_vars(Tick)

(***************************************************************************)
(* Properties.                                                             *)
(***************************************************************************)

QueuedCommand == [command : MemberCommands \ RefusedDoorCommands, requestedAt : Nat,
                  resolution : {"waiting", "sent", "expired"}]
QueueOK ==
    /\ queue \in Seq(QueuedCommand)
    /\ Len(queue) <= MaxCommands
    /\ \A id \in Ids : queue[id].requestedAt \in 1..now
    /\ audited \cup auditing \cup history \subseteq Ids
    /\ reportedAt \in 1..now
DrainsOK ==
    drains \in [Drain -> [step : {"idle", "began", "expired", "settled", "claimed"},
                         at : 0..now, ids : SUBSET Ids]]
PassOK ==
    /\ pass \in {"idle", "asking", "running", "reporting"}
    /\ answering \in IF pass = "asking" THEN Drain ELSE {NoDrain}
    /\ since \in 0..now
    /\ batch \subseteq handedOver
    /\ handedOver \subseteq {id \in taken : queue[id].resolution = "sent"}
    /\ pass # "running" => batch = {}
BoardOK ==
    /\ locked \subseteq {"front", "rear"}
    /\ taken \subseteq Ids
    /\ runs \in [Id -> Nat]

\* Every variable keeps its shape; what is left to run was handed over, and what
\* was handed over is what the queue calls sent.
TypeOK ==
    /\ now \in 1..MaxTime
    /\ QueueOK
    /\ DrainsOK
    /\ PassOK
    /\ BoardOK
    /\ faults \in 0..MaxFaults

\* "Hands each command over exactly once" (door.test.ts:468): a lost answer, a
\* second drain beside a first one that was given up on, a restart or a timeout
\* never makes the board carry one request out twice.
AtMostOnce == \A id \in Id : runs[id] <= 1

\* What the door history says never ran, never ran and never will: no drain
\* expires what another has handed over, however they overlap.
NeverRanIsTrue ==
    \A id \in history : id \notin taken /\ runs[id] = 0 /\ queue[id].resolution = "expired"

\* "Running it later unlocks a door with nobody there" (services/api/src/routes/door.ts:66-69): from
\* asking to the board acting takes at most the TTL, one API timeout, and one
\* controller timeout for each command of the answer up to this one.
RunsInTime ==
    [][\A id \in Ids : runs'[id] > runs[id] =>
           now <= queue[id].requestedAt + CommandTtl + ApiTimeout
                      + ControllerTimeout * Cardinality((handedOver \ batch) \cup {id})]_vars

\* "In the order members asked for them" (door.ts:72-74): no command runs after one
\* that was asked for later, in this pass or an earlier one.  A lock asked for
\* after an unlock is never overtaken by it.
RunsInOrder ==
    [][\A id \in Ids : runs'[id] > runs[id] =>
           \A other \in Ids : runs[other] > 0 => queue[other].requestedAt <= queue[id].requestedAt]_vars

\* No command, from a member or on the loopback port, leaves the rear door
\* unlocked that was locked (REFUSED_DOOR_COMMANDS, the decision of 2018-02-22).
RearStaysLocked == [][ "rear" \in locked => "rear" \in locked' ]_vars

\* A command does not wait for ever: it is handed over or expired, after any
\* number of lost answers, timeouts and restarts.
EveryCommandSettles == \A id \in Id : (id \in Waiting) ~> (id \notin Waiting)
=============================================================================
