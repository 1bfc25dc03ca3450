------------------------ MODULE DoorCommands_proofs ------------------------
(***************************************************************************)
(* Proofs about DoorCommands for every number of drains, commands, faults  *)
(* and ticks, and every window and timeout.                                *)
(***************************************************************************)
EXTENDS DoorCommands, FiniteSetTheorems, SequenceTheorems, TLAPS

(***************************************************************************)
(* The queue changes in two ways: a row is added, or rows are resolved.    *)
(***************************************************************************)

LEMMA QueueRows ==
    ASSUME QueueOK
    PROVE  /\ Ids = 1..Len(queue) /\ Len(queue) \in Nat
           /\ Ids \subseteq Id
           /\ \A id \in Ids : queue[id] \in QueuedCommand
<1>1. queue \in Seq(QueuedCommand) /\ Len(queue) <= MaxCommands
    BY DEF QueueOK
<1>2. Ids = 1..Len(queue) /\ Len(queue) \in Nat
    BY <1>1 DEF Ids
<1>3. \A id \in Ids : queue[id] \in QueuedCommand
    BY <1>1, <1>2, ElementOfSeq
<1>4. Ids \subseteq Id
    BY <1>1, <1>2, CommandBoundsAssumption DEF Id
<1> QED
    BY <1>2, <1>3, <1>4

LEMMA ControlQueue ==
    ASSUME TypeOK, NEW command \in MemberCommands, Control(command)
    PROVE  /\ queue' \in Seq(QueuedCommand) /\ Len(queue') <= MaxCommands
           /\ Ids' = Ids \cup {Len(queue) + 1} /\ Len(queue) + 1 \notin Ids
           /\ \A id \in Ids : queue'[id] = queue[id]
           /\ queue'[Len(queue) + 1].requestedAt = now
           /\ queue'[Len(queue) + 1].resolution = "waiting"
<1> DEFINE row == [command |-> command, requestedAt |-> now, resolution |-> "waiting"]
<1>1. queue \in Seq(QueuedCommand) /\ Len(queue) < MaxCommands /\ queue' = Append(queue, row)
    BY DEF TypeOK, QueueOK, QueuedCommand, Control
<1>2. row \in QueuedCommand
    BY DEF TypeOK, Control, QueuedCommand
<1> HIDE DEF row
<1>3. /\ queue' \in Seq(QueuedCommand)
      /\ Len(queue') = Len(queue) + 1
      /\ \A i \in 1..Len(queue) : queue'[i] = queue[i]
      /\ queue'[Len(queue) + 1] = row
    BY <1>1, <1>2, AppendProperties
<1>4. Ids = 1..Len(queue) /\ Ids' = 1..(Len(queue) + 1) /\ Len(queue) \in Nat
    BY <1>1, <1>3 DEF Ids
<1>5. row.requestedAt = now /\ row.resolution = "waiting"
    BY DEF row
<1> QED
    BY <1>1, <1>3, <1>4, <1>5, CommandBoundsAssumption

LEMMA ResolveQueue ==
    ASSUME QueueOK, NEW ids \in SUBSET Ids, NEW resolution \in {"sent", "expired"},
           Resolve(ids, resolution)
    PROVE  /\ queue' \in Seq(QueuedCommand) /\ Len(queue') <= MaxCommands
           /\ Ids' = Ids
           /\ \A id \in Ids : /\ queue'[id].command = queue[id].command
                              /\ queue'[id].requestedAt = queue[id].requestedAt
                              /\ queue'[id].resolution = IF id \in ids THEN resolution
                                                                      ELSE queue[id].resolution
<1>1. /\ Ids = 1..Len(queue) /\ Len(queue) \in Nat /\ Len(queue) <= MaxCommands
      /\ \A id \in Ids : queue[id] \in QueuedCommand
    BY QueueRows DEF QueueOK
<1>2. queue' = [id \in Ids |-> IF id \in ids THEN [queue[id] EXCEPT !.resolution = resolution]
                                            ELSE queue[id]]
    BY DEF Resolve
<1>3. \A id \in Ids : queue'[id] \in QueuedCommand
    BY <1>1, <1>2 DEF QueuedCommand
<1>4. queue' \in [1..Len(queue) -> QueuedCommand]
    BY <1>1, <1>2, <1>3
<1>5. queue' \in Seq(QueuedCommand) /\ Len(queue') = Len(queue) /\ Ids' = Ids
    BY <1>1, <1>4 DEF Ids
<1>6. ASSUME NEW id \in Ids
      PROVE  /\ queue'[id].command = queue[id].command
             /\ queue'[id].requestedAt = queue[id].requestedAt
             /\ queue'[id].resolution = IF id \in ids THEN resolution ELSE queue[id].resolution
    BY <1>1, <1>2 DEF QueuedCommand
<1> QED
    BY <1>1, <1>5, <1>6
(***************************************************************************)
(* What a drain has in hand is its own: claimed rows are marked sent, no   *)
(* other drain holds them, and they have not reached the door service yet. *)
(* That a command runs once, and that one recorded as never run never      *)
(* runs, needs both this and where each command handed over came from.     *)
(***************************************************************************)

ClaimedInv ==
    /\ \A d \in Drain : drains[d].step = "claimed" =>
           \A id \in drains[d].ids : queue[id].resolution = "sent" /\ id \notin taken
    /\ \A d \in Drain : drains[d].step = "expired" =>
           \A id \in drains[d].ids : queue[id].resolution = "expired"
    /\ \A d, e \in Drain :
           drains[d].step = "claimed" /\ drains[e].step = "claimed" /\ d # e =>
               drains[d].ids \cap drains[e].ids = {}

RanInv ==
    /\ \A id \in taken : queue[id].resolution = "sent"
    /\ \A id \in history : queue[id].resolution = "expired"
    /\ \A id \in Id : runs[id] > 0 => id \in taken
    /\ \A id \in Id : runs[id] <= 1
    /\ \A id \in batch : runs[id] = 0

(***************************************************************************)
(* The types.                                                              *)
(***************************************************************************)

LEMMA InitTypeOK ==
    ASSUME Init
    PROVE  TypeOK
<1>1. queue \in Seq(QueuedCommand) /\ Len(queue) = 0 /\ Ids = {}
    BY EmptySeq DEF Init, Ids
<1> QED
    BY <1>1, CommandBoundsAssumption
       DEF Init, TypeOK, QueueOK, DrainsOK, PassOK, BoardOK, Idle, Id

LEMMA ControlTypeOK ==
    ASSUME TypeOK, NEW command \in MemberCommands, Control(command)
    PROVE  TypeOK'
<1>0. /\ queue' \in Seq(QueuedCommand) /\ Len(queue') <= MaxCommands
      /\ Ids' = Ids \cup {Len(queue) + 1}
      /\ \A id \in Ids : queue'[id] = queue[id]
      /\ queue'[Len(queue) + 1].requestedAt = now
    BY ControlQueue
<1>1. UNCHANGED <<now, audited, history, reportedAt, drains, doorVars, boardVars, faults>>
    BY DEF Control
<1>2. QueueOK'
    <2>1. queue' \in Seq(QueuedCommand) /\ Len(queue') <= MaxCommands
        BY <1>0
    <2>2. \A id \in Ids' : queue'[id].requestedAt \in 1..now'
        <3>1. queue'[Len(queue) + 1].requestedAt = now /\ now' = now /\ now \in 1..now
            BY <1>0, <1>1 DEF TypeOK
        <3>2. \A id \in Ids : queue'[id].requestedAt \in 1..now
            BY <1>0 DEF TypeOK, QueueOK
        <3> QED
            BY <3>1, <3>2, <1>0
    <2>3. (audited \cup auditing \cup history \subseteq Ids)'
        BY <1>0, <1>1 DEF TypeOK, QueueOK, Control
    <2> QED
        BY <1>1, <2>1, <2>2, <2>3 DEF TypeOK, QueueOK
<1>3. DrainsOK'
    BY <1>0, <1>1 DEF TypeOK, DrainsOK
<1>4. PassOK' /\ BoardOK'
    BY <1>0, <1>1 DEF TypeOK, PassOK, BoardOK, doorVars, boardVars
<1> QED
    BY <1>1, <1>2, <1>3, <1>4 DEF TypeOK

LEMMA ApiTypeOK ==
    ASSUME TypeOK, Api
    PROVE  TypeOK'
<1>1. ASSUME NEW id \in Id, AuditControl(id) PROVE TypeOK'
    BY <1>1 DEF TypeOK, AuditControl, QueueOK, DrainsOK, PassOK, BoardOK, Ids, doorVars, boardVars
<1>2. ASSUME NEW d \in Drain, ExpireStale(d) PROVE TypeOK'
    <2> DEFINE stale == Stale(drains[d].at)
    <2>1. stale \in SUBSET Ids /\ Resolve(stale, "expired") /\ DrainStep /\ UNCHANGED history
        BY <1>2 DEF ExpireStale, Stale, Waiting
    <2>2. \A id \in stale : queue[id].resolution = "waiting"
        BY DEF Stale, Waiting
    <2>3. drains' = [drains EXCEPT ![d] = [step |-> IF stale = {} THEN "settled" ELSE "expired",
                                           at |-> 0, ids |-> stale]]
        BY <1>2 DEF ExpireStale
    <2> HIDE DEF stale
    <2>4. Ids' = Ids /\ QueueOK'
        BY <2>1, ResolveQueue DEF TypeOK, QueueOK, DrainStep
    <2>5. DrainsOK'
        BY <2>1, <2>3, <2>4 DEF TypeOK, DrainsOK, DrainStep
    <2>6. PassOK' /\ BoardOK'
        BY <2>1, <2>2, <2>4, ResolveQueue
           DEF TypeOK, PassOK, BoardOK, DrainStep, doorVars, boardVars
    <2> QED
        BY <2>1, <2>4, <2>5, <2>6 DEF TypeOK, DrainStep
<1>3. ASSUME NEW d \in Drain, RecordExpired(d) PROVE TypeOK'
    BY <1>3 DEF TypeOK, RecordExpired, DrainStep, QueueOK, DrainsOK, PassOK, BoardOK, Ids,
                doorVars, boardVars
<1>4. ASSUME NEW d \in Drain, Claim(d) PROVE TypeOK'
    <2>1. Waiting \in SUBSET Ids /\ Resolve(Waiting, "sent") /\ DrainStep /\ UNCHANGED history
        BY <1>4 DEF Claim, Claimable, Waiting
    <2>2. drains' = [drains EXCEPT ![d].step = "claimed", ![d].ids = Waiting]
        BY <1>4 DEF Claim, Claimable
    <2>3. Ids' = Ids /\ QueueOK'
        BY <2>1, ResolveQueue DEF TypeOK, QueueOK, DrainStep
    <2>4. DrainsOK'
        BY <2>1, <2>2, <2>3 DEF TypeOK, DrainsOK, DrainStep
    <2>5. PassOK' /\ BoardOK'
        BY <2>1, <2>3, ResolveQueue DEF TypeOK, PassOK, BoardOK, DrainStep, doorVars, boardVars
    <2> QED
        BY <2>1, <2>3, <2>4, <2>5 DEF TypeOK, DrainStep
<1>5. ASSUME NEW d \in Drain, DropAnswer(d) PROVE TypeOK'
    BY <1>5 DEF TypeOK, DropAnswer, DrainStep, QueueOK, DrainsOK, PassOK, BoardOK, Ids, Idle,
                doorVars, boardVars
<1> QED
    BY <1>1, <1>2, <1>3, <1>4, <1>5 DEF Api

\* What a pass changes leaves the queue as it is.
LEMMA DoorStepQueueOK ==
    ASSUME TypeOK, DoorStep, reportedAt' \in {reportedAt, now}
    PROVE  QueueOK' /\ now' = now /\ Ids' = Ids /\ queue' = queue
BY DEF TypeOK, QueueOK, DoorStep, Ids

LEMMA EndPassOK ==
    ASSUME TypeOK, EndPass, taken' = taken
    PROVE  PassOK'
BY DEF TypeOK, EndPass, DoorStep, PassOK, Ids

\* The board carries out a command a member asked for, or one on the local port.
LEMMA EffectDoors ==
    ASSUME NEW command, NEW doors \in SUBSET {"front", "rear"}
    PROVE  Effect(command, doors) \in SUBSET {"front", "rear"}
BY DEF Effect

LEMMA RunOnBoardOK ==
    ASSUME TypeOK, NEW id \in batch, RunOnBoard(id) \/ UNCHANGED <<locked, runs>>,
           UNCHANGED <<queue, taken>>
    PROVE  BoardOK'
<1>1. id \in Id
    <2>1. id \in Ids
        BY DEF TypeOK, PassOK, BoardOK
    <2> QED
        BY <2>1, QueueRows DEF TypeOK
<1>2. locked' \in SUBSET {"front", "rear"}
    <2>1. locked \in SUBSET {"front", "rear"}
        BY DEF TypeOK, BoardOK
    <2>2. Effect(queue[id].command, locked) \in SUBSET {"front", "rear"}
        BY <2>1, EffectDoors
    <2> QED
        BY <2>1, <2>2 DEF RunOnBoard
<1>3. runs' \in [Id -> Nat]
    BY <1>1 DEF TypeOK, BoardOK, RunOnBoard
<1> QED
    BY <1>2, <1>3 DEF TypeOK, BoardOK, Ids

LEMMA PassTypeOK ==
    ASSUME TypeOK, ClaimedInv, DoorService
    PROVE  TypeOK'
<1>1. CASE AskForCommands
    <2>1. QueueOK' /\ now' = now /\ Ids' = Ids /\ queue' = queue
        BY <1>1, DoorStepQueueOK DEF AskForCommands
    <2>2. PICK d \in Drain :
              /\ drains' = [drains EXCEPT ![d] = [step |-> "began", at |-> now, ids |-> {}]]
              /\ answering' = d
        BY <1>1 DEF AskForCommands
    <2>3. DrainsOK'
        BY <2>1, <2>2 DEF TypeOK, DrainsOK
    <2>4. PassOK' /\ BoardOK'
        BY <1>1, <2>1, <2>2 DEF TypeOK, PassOK, BoardOK, AskForCommands, boardVars
    <2> QED
        BY <1>1, <2>1, <2>3, <2>4 DEF TypeOK, AskForCommands
<1>2. CASE FinishCommands \/ FinishPass \/ AskTimesOut
    <2>1. QueueOK' /\ now' = now /\ Ids' = Ids /\ queue' = queue
        BY <1>2, DoorStepQueueOK DEF FinishCommands, FinishPass, AskTimesOut, EndPass
    <2>2. PassOK'
        BY <1>2, EndPassOK DEF FinishCommands, FinishPass, AskTimesOut, boardVars, TypeOK, PassOK,
                               DoorStep, Ids
    <2> QED
        BY <1>2, <2>1, <2>2 DEF TypeOK, DrainsOK, BoardOK, FinishCommands, FinishPass, AskTimesOut,
                                boardVars
<1>3. ASSUME NEW id \in Id, RunNextCommand(id) \/ BoardTimesOut(id) PROVE TypeOK'
    <2>1. QueueOK' /\ now' = now /\ Ids' = Ids /\ queue' = queue
        BY <1>3, DoorStepQueueOK DEF RunNextCommand, BoardTimesOut, EndPass
    <2>2. id \in batch /\ taken' = taken /\ drains' = drains /\ faults' = faults
          /\ (RunOnBoard(id) \/ UNCHANGED <<locked, runs>>)
        BY <1>3 DEF RunNextCommand, BoardTimesOut, IsNext
    <2>3. BoardOK'
        BY <2>1, <2>2, RunOnBoardOK
    <2>4. PassOK'
        BY <1>3, <2>1, <2>2, EndPassOK
           DEF RunNextCommand, BoardTimesOut, TypeOK, PassOK, DoorStep, Ids
    <2> QED
        BY <2>1, <2>2, <2>3, <2>4 DEF TypeOK, DrainsOK
<1>4. CASE TakeCommands
    <2>1. QueueOK' /\ now' = now /\ Ids' = Ids /\ queue' = queue
        BY <1>4, DoorStepQueueOK DEF TakeCommands
    <2> DEFINE ids == drains[answering].ids
    <2>0. answering \in Drain /\ drains[answering].step = "claimed"
        BY <1>4 DEF TypeOK, PassOK, TakeCommands
    <2>2. /\ ids \subseteq Ids /\ drains' = [drains EXCEPT ![answering] = Idle]
          /\ batch' = ids /\ handedOver' = ids /\ taken' = taken \cup ids
        BY <1>4, <2>0 DEF TypeOK, DrainsOK, TakeCommands
    <2>3. \A id \in ids : queue[id].resolution = "sent"
        BY <2>0 DEF ClaimedInv
    <2> HIDE DEF ids
    <2>4. DrainsOK' /\ BoardOK'
        BY <1>4, <2>0, <2>1, <2>2 DEF TypeOK, DrainsOK, BoardOK, TakeCommands, Idle
    <2>5. PassOK'
        BY <1>4, <2>1, <2>2, <2>3 DEF TypeOK, PassOK, BoardOK, TakeCommands
    <2> QED
        BY <1>4, <2>1, <2>4, <2>5 DEF TypeOK, TakeCommands
<1> QED
    BY <1>1, <1>2, <1>3, <1>4 DEF DoorService

LEMMA FaultTypeOK ==
    ASSUME TypeOK, PassFails \/ RestartApi
    PROVE  TypeOK'
<1>1. CASE PassFails
    <2>1. QueueOK' /\ now' = now /\ Ids' = Ids /\ queue' = queue
        BY <1>1, DoorStepQueueOK DEF PassFails, EndPass
    <2>2. PassOK'
        BY <1>1, EndPassOK DEF PassFails, boardVars
    <2> QED
        BY <1>1, <2>1, <2>2, CommandBoundsAssumption
           DEF TypeOK, DrainsOK, BoardOK, PassFails, Fault, boardVars
<1>2. CASE RestartApi
    <2>1. /\ UNCHANGED <<now, queue, audited, history, reportedAt, batch, handedOver, boardVars>>
          /\ auditing' = {} /\ drains' = [d \in Drain |-> Idle] /\ Fault
        BY <1>2 DEF RestartApi, dbVars
    <2>2. QueueOK' /\ DrainsOK' /\ BoardOK'
        BY <2>1 DEF TypeOK, QueueOK, DrainsOK, BoardOK, Ids, Idle, boardVars
    <2>3. PassOK'
        BY <1>2, <2>1 DEF TypeOK, PassOK, RestartApi, Ids, boardVars
    <2> QED
        BY <2>1, <2>2, <2>3, CommandBoundsAssumption DEF TypeOK, Fault
<1> QED
    BY <1>1, <1>2

LEMMA OutsideTypeOK ==
    ASSUME TypeOK, (\E command \in LocalCommands : ControlLocally(command)) \/ Tick
    PROVE  TypeOK'
<1>1. ASSUME NEW command \in LocalCommands, ControlLocally(command) PROVE TypeOK'
    <2>1. locked' \in SUBSET {"front", "rear"}
        BY <1>1, EffectDoors DEF ControlLocally, TypeOK, BoardOK
    <2> QED
        BY <1>1, <2>1 DEF TypeOK, ControlLocally, QueueOK, DrainsOK, PassOK, BoardOK, Ids,
                          dbVars, apiVars, doorVars
<1>2. CASE Tick
    <2>1. now \in Nat /\ now' = now + 1 /\ now' \in 1..MaxTime
        BY <1>2, CommandBoundsAssumption DEF TypeOK, Tick
    <2>2. 1..now \subseteq 1..now' /\ 0..now \subseteq 0..now'
        BY <2>1
    <2>3. UNCHANGED <<dbVars, apiVars, doorVars, boardVars, faults>>
        BY <1>2 DEF Tick
    <2>4. QueueOK'
        BY <2>2, <2>3 DEF TypeOK, QueueOK, Ids, dbVars, apiVars
    <2>5. DrainsOK'
        BY <2>2, <2>3 DEF TypeOK, DrainsOK, Ids, dbVars, apiVars
    <2>6. PassOK' /\ BoardOK'
        BY <2>2, <2>3 DEF TypeOK, PassOK, BoardOK, Ids, dbVars, doorVars, boardVars
    <2> QED
        BY <2>1, <2>3, <2>4, <2>5, <2>6 DEF TypeOK
<1> QED
    BY <1>1, <1>2

(***************************************************************************)
(* What the drains hold, and what has run.                                 *)
(***************************************************************************)

\* The steps that touch neither the queue, nor a drain, nor what was taken.
Elsewhere ==
    \/ \E id \in Id : AuditControl(id) \/ RunNextCommand(id) \/ BoardTimesOut(id)
    \/ FinishCommands \/ FinishPass \/ AskTimesOut \/ PassFails \/ Tick
    \/ \E command \in LocalCommands : ControlLocally(command)
    \/ UNCHANGED vars

LEMMA ElsewhereFrame ==
    ASSUME Elsewhere
    PROVE  UNCHANGED <<queue, drains, taken>>
BY DEF Elsewhere, AuditControl, RunNextCommand, BoardTimesOut, RunOnBoard, FinishCommands,
       FinishPass, AskTimesOut, PassFails, Tick, ControlLocally, EndPass, DoorStep,
       vars, dbVars, apiVars, doorVars, boardVars

\* Every step is one of these.
LEMMA Steps ==
    ASSUME [Next]_vars
    PROVE  \/ Elsewhere
           \/ \E command \in MemberCommands : Control(command)
           \/ \E d \in Drain : ExpireStale(d) \/ RecordExpired(d) \/ Claim(d) \/ DropAnswer(d)
           \/ AskForCommands \/ TakeCommands \/ RestartApi
BY DEF Next, Api, DoorService, Elsewhere

LEMMA NextClaimed ==
    ASSUME TypeOK, ClaimedInv, RanInv, [Next]_vars
    PROVE  ClaimedInv'
<1>0. /\ drains \in [Drain -> [step : {"idle", "began", "expired", "settled", "claimed"},
                               at : 0..now, ids : SUBSET Ids]]
      /\ taken \subseteq Ids
    BY DEF TypeOK, DrainsOK, BoardOK
<1>1. CASE Elsewhere
    BY <1>1, ElsewhereFrame DEF ClaimedInv
<1>2. ASSUME NEW command \in MemberCommands, Control(command) PROVE ClaimedInv'
    <2>1. \A id \in Ids : queue'[id] = queue[id]
        BY <1>2, ControlQueue
    <2>2. drains' = drains /\ taken' = taken
        BY <1>2 DEF Control, boardVars
    <2> QED
        BY <1>0, <2>1, <2>2 DEF ClaimedInv
<1>3. ASSUME NEW d \in Drain, ExpireStale(d) PROVE ClaimedInv'
    <2> DEFINE stale == Stale(drains[d].at)
    <2>1. /\ stale \in SUBSET Ids /\ Resolve(stale, "expired") /\ taken' = taken
          /\ \A id \in stale : queue[id].resolution = "waiting"
        BY <1>3 DEF ExpireStale, Stale, Waiting, DrainStep, boardVars
    <2>2. drains' = [drains EXCEPT ![d] = [step |-> IF stale = {} THEN "settled" ELSE "expired",
                                           at |-> 0, ids |-> stale]]
        BY <1>3 DEF ExpireStale
    <2> HIDE DEF stale
    <2>3. \A id \in Ids : queue'[id].resolution = IF id \in stale THEN "expired"
                                                            ELSE queue[id].resolution
        BY <2>1, ResolveQueue DEF TypeOK
    <2>4. /\ drains'[d].ids = stale /\ drains'[d].step \in {"settled", "expired"}
          /\ \A e \in Drain \ {d} : drains'[e] = drains[e]
        BY <1>0, <2>2
    <2>5. ASSUME NEW e \in Drain, drains'[e].step = "claimed", NEW id \in drains'[e].ids
          PROVE  queue'[id].resolution = "sent" /\ id \notin taken'
        BY <1>0, <2>1, <2>3, <2>4, <2>5 DEF ClaimedInv
    <2>6. ASSUME NEW e \in Drain, drains'[e].step = "expired", NEW id \in drains'[e].ids
          PROVE  queue'[id].resolution = "expired"
        BY <1>0, <2>1, <2>3, <2>4, <2>6 DEF ClaimedInv
    <2>7. ASSUME NEW e \in Drain, NEW f \in Drain, e # f,
                 drains'[e].step = "claimed", drains'[f].step = "claimed"
          PROVE  drains'[e].ids \cap drains'[f].ids = {}
        BY <2>4, <2>7 DEF ClaimedInv
    <2> QED
        BY <2>5, <2>6, <2>7 DEF ClaimedInv
<1>4. ASSUME NEW d \in Drain, Claim(d) PROVE ClaimedInv'
    <2>1. Waiting \in SUBSET Ids /\ Resolve(Waiting, "sent") /\ taken' = taken
        BY <1>4 DEF Claim, Claimable, Waiting, DrainStep, boardVars
    <2>2. drains' = [drains EXCEPT ![d].step = "claimed", ![d].ids = Waiting]
        BY <1>4 DEF Claim, Claimable
    <2>3. \A id \in Ids : queue'[id].resolution = IF id \in Waiting THEN "sent"
                                                              ELSE queue[id].resolution
        BY <2>1, ResolveQueue DEF TypeOK
    <2>4. /\ drains'[d].ids = Waiting /\ drains'[d].step = "claimed"
          /\ \A e \in Drain \ {d} : drains'[e] = drains[e]
        BY <1>0, <2>2
    <2>5. \A id \in Waiting : queue[id].resolution = "waiting"
        BY DEF Waiting
    <2>6. ASSUME NEW e \in Drain, drains'[e].step = "claimed", NEW id \in drains'[e].ids
          PROVE  queue'[id].resolution = "sent" /\ id \notin taken'
        <3>1. CASE e = d
            BY <2>1, <2>3, <2>4, <2>5, <2>6, <3>1 DEF RanInv
        <3>2. CASE e # d
            BY <1>0, <2>1, <2>3, <2>4, <2>6, <3>2 DEF ClaimedInv
        <3> QED
            BY <3>1, <3>2
    <2>7. ASSUME NEW e \in Drain, drains'[e].step = "expired", NEW id \in drains'[e].ids
          PROVE  queue'[id].resolution = "expired"
        BY <1>0, <2>3, <2>4, <2>5, <2>7 DEF ClaimedInv
    <2>8. ASSUME NEW e \in Drain \ {d}, drains'[e].step = "claimed"
          PROVE  drains'[e].ids \cap Waiting = {}
        BY <2>4, <2>5, <2>8 DEF ClaimedInv
    <2>9. ASSUME NEW e \in Drain, NEW f \in Drain, e # f,
                 drains'[e].step = "claimed", drains'[f].step = "claimed"
          PROVE  drains'[e].ids \cap drains'[f].ids = {}
        BY <2>4, <2>8, <2>9 DEF ClaimedInv
    <2> QED
        BY <2>6, <2>7, <2>9 DEF ClaimedInv
<1>5. ASSUME NEW d \in Drain, RecordExpired(d) \/ DropAnswer(d) PROVE ClaimedInv'
    <2>1. queue' = queue /\ taken' = taken
        BY <1>5 DEF RecordExpired, DropAnswer, DrainStep, boardVars
    <2>2. /\ drains'[d].step \in {"settled", "idle"}
          /\ \A e \in Drain \ {d} : drains'[e] = drains[e]
        BY <1>0, <1>5 DEF RecordExpired, DropAnswer, Idle
    <2> QED
        BY <2>1, <2>2 DEF ClaimedInv
<1>6. CASE AskForCommands
    <2>1. queue' = queue /\ taken' = taken
        BY <1>6 DEF AskForCommands, DoorStep, boardVars
    <2>2. PICK d \in Drain : drains' = [drains EXCEPT ![d] =
                                            [step |-> "began", at |-> now, ids |-> {}]]
        BY <1>6 DEF AskForCommands
    <2>3. drains'[d].step = "began" /\ \A e \in Drain \ {d} : drains'[e] = drains[e]
        BY <1>0, <2>2
    <2> QED
        BY <2>1, <2>3 DEF ClaimedInv
<1>7. CASE TakeCommands
    <2>1. /\ queue' = queue /\ taken' = taken \cup drains[answering].ids
          /\ answering \in Drain /\ drains[answering].step = "claimed"
          /\ drains' = [drains EXCEPT ![answering] = Idle]
        BY <1>7 DEF TakeCommands, DoorStep, TypeOK, PassOK
    <2>2. /\ drains'[answering].step = "idle"
          /\ \A e \in Drain \ {answering} : drains'[e] = drains[e]
        BY <1>0, <2>1 DEF Idle
    <2> QED
        BY <2>1, <2>2 DEF ClaimedInv
<1>8. CASE RestartApi
    <2>1. \A d \in Drain : drains'[d].step = "idle"
        BY <1>8 DEF RestartApi, Idle
    <2> QED
        BY <2>1 DEF ClaimedInv
<1> QED
    BY <1>1, <1>2, <1>3, <1>4, <1>5, <1>6, <1>7, <1>8, Steps

LEMMA NextRan ==
    ASSUME TypeOK, ClaimedInv, RanInv, [Next]_vars
    PROVE  RanInv'
<1>0. /\ drains \in [Drain -> [step : {"idle", "began", "expired", "settled", "claimed"},
                               at : 0..now, ids : SUBSET Ids]]
      /\ taken \subseteq Ids /\ history \subseteq Ids /\ runs \in [Id -> Nat]
      /\ batch \subseteq taken
    BY DEF TypeOK, QueueOK, DrainsOK, PassOK, BoardOK
<1>1. CASE UNCHANGED <<queue, history, taken, runs>> /\ (batch' = batch \/ batch' = {})
    BY <1>1 DEF RanInv
<1>2. ASSUME NEW command \in MemberCommands, Control(command) PROVE RanInv'
    <2>1. \A id \in Ids : queue'[id] = queue[id]
        BY <1>2, ControlQueue
    <2>2. UNCHANGED <<history, batch, taken, runs>>
        BY <1>2 DEF Control, doorVars, boardVars
    <2> QED
        BY <1>0, <2>1, <2>2 DEF RanInv
<1>3. ASSUME NEW d \in Drain, ExpireStale(d) \/ Claim(d) PROVE RanInv'
    <2>1. PICK ids \in SUBSET Waiting, resolution \in {"expired", "sent"} :
              Resolve(ids, resolution)
        BY <1>3 DEF ExpireStale, Claim, Claimable, Stale
    <2>2. Waiting \subseteq Ids /\ \A id \in Waiting : queue[id].resolution = "waiting"
        BY DEF Waiting
    <2>3. \A id \in Ids \ ids : queue'[id].resolution = queue[id].resolution
        BY <2>1, <2>2, ResolveQueue DEF TypeOK
    <2>4. \A id \in taken \cup history : id \notin ids
        BY <2>1, <2>2 DEF RanInv
    <2>5. UNCHANGED <<history, batch, taken, runs>>
        BY <1>3 DEF ExpireStale, Claim, DrainStep, doorVars, boardVars
    <2> QED
        BY <1>0, <2>3, <2>4, <2>5 DEF RanInv
<1>4. ASSUME NEW d \in Drain, RecordExpired(d) PROVE RanInv'
    <2>1. UNCHANGED <<queue, batch, taken, runs>> /\ history' = history \cup drains[d].ids
        BY <1>4 DEF RecordExpired, DrainStep, doorVars, boardVars
    <2>2. \A id \in drains[d].ids : queue[id].resolution = "expired"
        BY <1>4 DEF RecordExpired, ClaimedInv
    <2> QED
        BY <2>1, <2>2 DEF RanInv
<1>5. CASE TakeCommands
    <2>1. /\ UNCHANGED <<queue, history, runs>> /\ batch' = drains[answering].ids
          /\ taken' = taken \cup drains[answering].ids
          /\ answering \in Drain /\ drains[answering].step = "claimed"
        BY <1>5 DEF TakeCommands, DoorStep, TypeOK, PassOK
    <2>2. \A id \in drains[answering].ids : queue[id].resolution = "sent" /\ id \notin taken
        BY <2>1 DEF ClaimedInv
    <2>3. \A id \in drains[answering].ids : id \in Id
        <3>1. drains[answering].ids \subseteq Ids
            BY <1>0, <2>1
        <3> QED
            BY <3>1, QueueRows DEF TypeOK
    <2>4. \A id \in drains[answering].ids : runs[id] = 0
        BY <1>0, <2>2, <2>3 DEF RanInv
    <2> QED
        BY <2>1, <2>2, <2>4 DEF RanInv
<1>6. ASSUME NEW id \in Id, RunNextCommand(id) \/ BoardTimesOut(id) PROVE RanInv'
    <2>1. /\ UNCHANGED <<queue, history, taken>> /\ id \in batch
          /\ batch' \subseteq batch \ {id}
          /\ runs' = runs \/ runs' = [runs EXCEPT ![id] = @ + 1]
        BY <1>6 DEF RunNextCommand, BoardTimesOut, RunOnBoard, EndPass, DoorStep, IsNext
    <2>2. CASE runs' = runs
        BY <2>1, <2>2 DEF RanInv
    <2>3. CASE runs' = [runs EXCEPT ![id] = @ + 1]
        <3>1. runs[id] = 0 /\ id \in taken
            BY <1>0, <2>1 DEF RanInv
        <3>2. runs'[id] = 1 /\ \A other \in Id \ {id} : runs'[other] = runs[other]
            BY <1>0, <2>3, <3>1
        <3>3. \A other \in batch : other \in Id
            BY <1>0, QueueRows DEF TypeOK
        <3> QED
            BY <2>1, <3>1, <3>2, <3>3 DEF RanInv
    <2> QED
        BY <2>1, <2>2, <2>3
<1>7. ASSUME NEW id \in Id, AuditControl(id) PROVE RanInv'
    BY <1>1, <1>7 DEF AuditControl, doorVars, boardVars
<1>8. ASSUME NEW d \in Drain, DropAnswer(d) PROVE RanInv'
    BY <1>1, <1>8 DEF DropAnswer, DrainStep, doorVars, boardVars
<1>9. CASE \/ FinishCommands \/ FinishPass \/ AskTimesOut \/ PassFails \/ Tick
           \/ AskForCommands \/ RestartApi
    BY <1>1, <1>9 DEF FinishCommands, FinishPass, AskTimesOut, PassFails, Tick, AskForCommands,
                      RestartApi, EndPass, DoorStep, dbVars, doorVars, boardVars
<1>10. ASSUME NEW command \in LocalCommands, ControlLocally(command) PROVE RanInv'
    BY <1>1, <1>10 DEF ControlLocally, dbVars, doorVars
<1>11. CASE UNCHANGED vars
    BY <1>1, <1>11 DEF vars, dbVars, doorVars, boardVars
<1> QED
    BY <1>2, <1>3, <1>4, <1>5, <1>6, <1>7, <1>8, <1>9, <1>10, <1>11 DEF Next, Api, DoorService

(***************************************************************************)
(* The theorems.                                                           *)
(***************************************************************************)

LEMMA Invariant == Spec => [](TypeOK /\ ClaimedInv /\ RanInv)
<1>1. Init => TypeOK /\ ClaimedInv /\ RanInv
    <2>1. Init => ClaimedInv
        BY DEF Init, ClaimedInv, Idle
    <2>2. Init => RanInv
        BY DEF Init, RanInv
    <2> QED
        BY <2>1, <2>2, InitTypeOK
<1>2. TypeOK /\ ClaimedInv /\ RanInv /\ [Next]_vars => (TypeOK /\ ClaimedInv /\ RanInv)'
    <2>1. TypeOK /\ UNCHANGED vars => TypeOK'
        BY DEF TypeOK, QueueOK, DrainsOK, PassOK, BoardOK, Ids, vars, dbVars, apiVars, doorVars,
               boardVars
    <2>2. TypeOK /\ ClaimedInv /\ Next => TypeOK'
        BY ControlTypeOK, ApiTypeOK, PassTypeOK, FaultTypeOK, OutsideTypeOK DEF Next
    <2> QED
        BY <2>1, <2>2, NextClaimed, NextRan
<1> QED
    BY <1>1, <1>2, PTL DEF Spec

\* Every reachable state is well formed: what the door service still has to run
\* was handed over to it, and is marked sent.
THEOREM CommandsTypeCorrect == Spec => []TypeOK
BY Invariant, PTL

\* However many drains are open at once, and whatever is lost, restarted or timed
\* out, the board never carries out one member's request twice.
THEOREM NoCommandRunsTwice == Spec => []AtMostOnce
<1>1. RanInv => AtMostOnce
    BY DEF RanInv, AtMostOnce
<1> QED
    BY <1>1, Invariant, PTL

\* A command the door history calls never run was not run, and no drain still
\* has it to hand over.
THEOREM HistoryTellsTheTruth == Spec => []NeverRanIsTrue
<1>1. TypeOK /\ RanInv => NeverRanIsTrue
    <2> SUFFICES ASSUME TypeOK, RanInv, NEW id \in history
                 PROVE  id \notin taken /\ runs[id] = 0 /\ queue[id].resolution = "expired"
        BY DEF NeverRanIsTrue
    <2>1. queue[id].resolution = "expired" /\ id \notin taken
        BY DEF RanInv
    <2>2. id \in Id /\ runs[id] \in Nat
        <3>1. id \in Ids
            BY DEF TypeOK, QueueOK
        <3> QED
            BY <3>1, QueueRows DEF TypeOK, BoardOK
    <2> QED
        BY <2>1, <2>2 DEF RanInv
<1> QED
    BY <1>1, Invariant, PTL

\* The decision of 2018-02-22 holds on both ways in: no command leaves the rear
\* door unlocked that was locked.
THEOREM RearDoorStaysLocked == Spec => RearStaysLocked
<1>1. ASSUME NEW command \in DoorCommand \ RefusedDoorCommands, NEW doors, "rear" \in doors
      PROVE  "rear" \in Effect(command, doors)
    BY <1>1 DEF DoorCommand, RefusedDoorCommands, Effect
<1>2. TypeOK /\ [Next]_vars => [ "rear" \in locked => "rear" \in locked' ]_vars
    <2> SUFFICES ASSUME TypeOK, Next, "rear" \in locked
                 PROVE  "rear" \in locked'
        BY DEF vars, boardVars
    <2>1. ASSUME NEW command \in LocalCommands, ControlLocally(command)
          PROVE  "rear" \in locked'
        BY <1>1, <2>1, CommandsAssumption DEF ControlLocally
    <2>2. ASSUME NEW id \in batch, RunOnBoard(id)
          PROVE  "rear" \in locked'
        <3>1. id \in Ids
            BY DEF TypeOK, PassOK, BoardOK
        <3>2. queue[id].command \in DoorCommand \ RefusedDoorCommands
            BY <3>1, QueueRows, CommandsAssumption DEF TypeOK, QueuedCommand
        <3> QED
            BY <1>1, <2>2, <3>2 DEF RunOnBoard
    <2>3. ASSUME NEW id \in Id, RunNextCommand(id) \/ BoardTimesOut(id)
          PROVE  "rear" \in locked'
        BY <2>2, <2>3 DEF RunNextCommand, BoardTimesOut, IsNext
    <2>4. CASE locked' = locked
        BY <2>4
    <2> QED
        BY <2>1, <2>3, <2>4
           DEF Next, Api, DoorService, Control, AuditControl, ExpireStale, RecordExpired, Claim,
               DropAnswer, DrainStep, AskForCommands, TakeCommands, FinishCommands, FinishPass,
               AskTimesOut, PassFails, RestartApi, Tick, boardVars
<1> QED
    BY <1>2, CommandsTypeCorrect, PTL DEF Spec, RearStaysLocked

(***************************************************************************)
(* Order.  A claim takes every row that waits, so whatever is handed over  *)
(* later was asked for later; within an answer the commands run in order.  *)
(***************************************************************************)

AskedNoLater(id, other) == queue[id].requestedAt <= queue[other].requestedAt

OrderInv ==
    /\ \A t \in taken, w \in Waiting : AskedNoLater(t, w)
    /\ \A d \in Drain : drains[d].step = "claimed" =>
           \A id \in drains[d].ids, w \in Waiting : AskedNoLater(id, w)
    /\ pass = "asking" /\ drains[answering].step = "claimed" =>
           \A t \in taken, id \in drains[answering].ids : AskedNoLater(t, id)
    /\ \A t \in taken \ handedOver, id \in batch : AskedNoLater(t, id)
    /\ \A r \in handedOver \ batch, id \in batch : AskedNoLater(r, id)

\* A drain's steps leave the times of all rows, and no row starts to wait.
LEMMA DrainFrame ==
    ASSUME TypeOK, NEW d \in Drain,
           ExpireStale(d) \/ RecordExpired(d) \/ Claim(d) \/ DropAnswer(d)
    PROVE  /\ Ids' = Ids /\ \A id \in Ids : queue'[id].requestedAt = queue[id].requestedAt
           /\ Waiting' \subseteq Waiting
           /\ \A e \in Drain \ {d} : drains'[e] = drains[e]
           /\ UNCHANGED <<now, pass, answering, since, batch, handedOver, taken, runs>>
<1>1. \A e \in Drain \ {d} : drains'[e] = drains[e]
    BY DEF TypeOK, DrainsOK, ExpireStale, RecordExpired, Claim, DropAnswer
<1>2. UNCHANGED <<now, pass, answering, since, batch, handedOver, taken, runs>>
    BY DEF ExpireStale, RecordExpired, Claim, DropAnswer, DrainStep, doorVars, boardVars
<1>3. CASE queue' = queue
    BY <1>1, <1>2, <1>3 DEF Ids, Waiting
<1>4. CASE queue' # queue
    <2>1. PICK ids \in SUBSET Ids, resolution \in {"expired", "sent"} : Resolve(ids, resolution)
        BY <1>4 DEF ExpireStale, RecordExpired, Claim, DropAnswer, Claimable, Stale, Waiting
    <2>2. /\ Ids' = Ids
          /\ \A id \in Ids : /\ queue'[id].requestedAt = queue[id].requestedAt
                             /\ queue'[id].resolution = IF id \in ids THEN resolution
                                                                     ELSE queue[id].resolution
        BY <2>1, ResolveQueue DEF TypeOK
    <2>3. Waiting' \subseteq Waiting
        BY <2>1, <2>2 DEF Waiting
    <2> QED
        BY <1>1, <1>2, <2>2, <2>3
<1> QED
    BY <1>3, <1>4

LEMMA ClaimLeavesNoneWaiting ==
    ASSUME TypeOK, NEW d \in Drain, Claim(d)
    PROVE  Waiting' = {} /\ drains'[d].ids = Waiting
<1>1. Waiting \in SUBSET Ids /\ Resolve(Waiting, "sent")
    BY DEF Claim, Claimable, Waiting
<1>2. Ids' = Ids /\ \A id \in Ids : queue'[id].resolution = IF id \in Waiting THEN "sent"
                                                                    ELSE queue[id].resolution
    BY <1>1, ResolveQueue DEF TypeOK
<1>3. drains'[d].ids = Waiting
    BY DEF Claim, Claimable, TypeOK, DrainsOK
<1> QED
    BY <1>2, <1>3 DEF Waiting

LEMMA NextOrder ==
    ASSUME TypeOK, OrderInv, [Next]_vars
    PROVE  OrderInv'
<1>0. /\ taken \subseteq Ids /\ Waiting \subseteq Ids
      /\ batch \subseteq handedOver /\ handedOver \subseteq taken
      /\ \A d \in Drain : drains[d].ids \subseteq Ids
      /\ pass = "asking" => answering \in Drain
      /\ pass # "running" => batch = {}
    BY DEF TypeOK, DrainsOK, PassOK, BoardOK, Waiting
<1>1. ASSUME NEW command \in MemberCommands, Control(command) PROVE OrderInv'
    <2>1. /\ Ids' = Ids \cup {Len(queue) + 1} /\ Len(queue) + 1 \notin Ids
          /\ \A id \in Ids : queue'[id] = queue[id]
          /\ queue'[Len(queue) + 1].requestedAt = now
        BY <1>1, ControlQueue
    <2>2. Waiting' \subseteq Waiting \cup {Len(queue) + 1}
        BY <2>1 DEF Waiting
    <2>3. UNCHANGED <<drains, pass, answering, batch, handedOver, taken>>
        BY <1>1 DEF Control, doorVars, boardVars
    <2>4. \A id \in Ids : queue'[id].requestedAt <= queue'[Len(queue) + 1].requestedAt
        BY <2>1 DEF TypeOK, QueueOK
    <2> QED
        BY <1>0, <2>1, <2>2, <2>3, <2>4 DEF OrderInv, AskedNoLater
<1>2. ASSUME NEW d \in Drain, ExpireStale(d) \/ RecordExpired(d) \/ DropAnswer(d) PROVE OrderInv'
    <2>1. drains'[d].step # "claimed"
        BY <1>2 DEF TypeOK, DrainsOK, ExpireStale, RecordExpired, DropAnswer, Idle
    <2> QED
        BY <1>0, <1>2, <2>1, DrainFrame DEF OrderInv, AskedNoLater
<1>3. ASSUME NEW d \in Drain, Claim(d) PROVE OrderInv'
    BY <1>0, <1>3, DrainFrame, ClaimLeavesNoneWaiting DEF OrderInv, AskedNoLater
<1>4. CASE TakeCommands
    <2>1. /\ queue' = queue /\ pass = "asking" /\ pass' = "running"
          /\ drains[answering].step = "claimed" /\ answering \in Drain
          /\ drains' = [drains EXCEPT ![answering] = Idle]
          /\ batch' = drains[answering].ids /\ handedOver' = drains[answering].ids
          /\ taken' = taken \cup drains[answering].ids
        BY <1>0, <1>4 DEF TakeCommands, DoorStep
    <2>2. drains'[answering].step = "idle" /\ \A e \in Drain \ {answering} : drains'[e] = drains[e]
        BY <2>1 DEF TypeOK, DrainsOK, Idle
    <2>3. Waiting' = Waiting
        BY <2>1 DEF Waiting, Ids
    <2> QED
        BY <2>1, <2>2, <2>3 DEF OrderInv, AskedNoLater
<1>5. CASE AskForCommands
    <2>1. PICK d \in Drain :
              /\ drains' = [drains EXCEPT ![d] = [step |-> "began", at |-> now, ids |-> {}]]
              /\ answering' = d
        BY <1>5 DEF AskForCommands
    <2>2. drains'[d].step = "began" /\ \A e \in Drain \ {d} : drains'[e] = drains[e]
        BY <2>1 DEF TypeOK, DrainsOK
    <2>3. UNCHANGED <<queue, batch, handedOver, taken>>
        BY <1>5 DEF AskForCommands, DoorStep, boardVars
    <2> QED
        BY <2>1, <2>2, <2>3 DEF OrderInv, AskedNoLater, Waiting, Ids
<1>6. ASSUME NEW id \in Id, RunNextCommand(id) PROVE OrderInv'
    <2>1. /\ UNCHANGED <<queue, drains, pass, answering, handedOver, taken>>
          /\ id \in batch /\ batch' = batch \ {id}
          /\ \A other \in batch : AskedNoLater(id, other)
        BY <1>6 DEF RunNextCommand, DoorStep, IsNext, AskedNoLater
    <2> QED
        BY <2>1 DEF OrderInv, AskedNoLater, Waiting, Ids
<1>7. CASE EndPass /\ UNCHANGED <<drains, taken>>
    BY <1>7 DEF EndPass, DoorStep, OrderInv, AskedNoLater, Waiting, Ids
<1>8. CASE RestartApi
    <2>1. /\ UNCHANGED <<queue, batch, handedOver, taken>>
          /\ \A d \in Drain : drains'[d].step = "idle"
          /\ pass' # "asking"
        BY <1>8 DEF RestartApi, Idle, dbVars, boardVars
    <2> QED
        BY <2>1 DEF OrderInv, AskedNoLater, Waiting, Ids
<1>9. CASE /\ UNCHANGED <<queue, drains, answering, batch, handedOver, taken>>
           /\ pass' = pass \/ pass' = "reporting"
    BY <1>9 DEF OrderInv, AskedNoLater, Waiting, Ids
<1>10. ASSUME NEW id \in Id, AuditControl(id) \/ BoardTimesOut(id) PROVE OrderInv'
    BY <1>7, <1>9, <1>10 DEF AuditControl, BoardTimesOut, RunOnBoard, doorVars, boardVars
<1>11. CASE FinishCommands \/ FinishPass \/ AskTimesOut \/ PassFails \/ Tick
    BY <1>7, <1>9, <1>11 DEF FinishCommands, FinishPass, AskTimesOut, PassFails, Tick, DoorStep,
                             dbVars, apiVars, doorVars, boardVars
<1>12. ASSUME NEW command \in LocalCommands, ControlLocally(command) PROVE OrderInv'
    BY <1>9, <1>12 DEF ControlLocally, dbVars, apiVars, doorVars
<1>13. CASE UNCHANGED vars
    BY <1>9, <1>13 DEF vars, dbVars, apiVars, doorVars, boardVars
<1> QED
    BY <1>1, <1>2, <1>3, <1>4, <1>5, <1>6, <1>8, <1>10, <1>11, <1>12, <1>13
       DEF Next, Api, DoorService

\* Only RunNextCommand and BoardTimesOut raise a command's count.
LEMMA RunsOnlyFromBatch ==
    ASSUME TypeOK, Next, NEW id \in Id, runs'[id] > runs[id]
    PROVE  pass = "running" /\ IsNext(id)
<1>1. runs' # runs
    BY DEF TypeOK, BoardOK
<1>2. PICK other \in Id : /\ RunNextCommand(other) \/ BoardTimesOut(other)
                          /\ RunOnBoard(other)
    BY <1>1 DEF Next, Api, DoorService, Control, AuditControl, ExpireStale, RecordExpired, Claim,
                DropAnswer, DrainStep, AskForCommands, TakeCommands, FinishCommands, FinishPass,
                AskTimesOut, PassFails, RestartApi, ControlLocally, Tick, boardVars,
                RunNextCommand, BoardTimesOut
<1>3. id = other
    BY <1>2 DEF RunOnBoard, TypeOK, BoardOK
<1> QED
    BY <1>2, <1>3 DEF RunNextCommand, BoardTimesOut

\* No command runs after one that was asked for later: a lock asked for after an
\* unlock is never undone by it, however many drains and passes lie between.
THEOREM CommandsRunInOrder == Spec => RunsInOrder
<1>1. Init => OrderInv
    BY DEF Init, OrderInv, Idle
<1>2. Spec => []OrderInv
    BY <1>1, NextOrder, Invariant, PTL DEF Spec
<1>3. TypeOK /\ RanInv /\ OrderInv /\ [Next]_vars =>
          [\A id \in Ids : runs'[id] > runs[id] =>
               \A other \in Ids : runs[other] > 0 =>
                   queue[other].requestedAt <= queue[id].requestedAt]_vars
    <2> SUFFICES ASSUME TypeOK, RanInv, OrderInv, Next, NEW id \in Ids, runs'[id] > runs[id],
                        NEW other \in Ids, runs[other] > 0
                 PROVE  queue[other].requestedAt <= queue[id].requestedAt
        OBVIOUS
    <2>1. id \in Id /\ other \in Id
        BY QueueRows DEF TypeOK
    <2>2. id \in batch
        BY <2>1, RunsOnlyFromBatch DEF IsNext
    <2>3. other \in taken /\ other \notin batch
        BY <2>1 DEF RanInv
    <2> QED
        BY <2>2, <2>3 DEF OrderInv, AskedNoLater
<1> QED
    BY <1>2, <1>3, Invariant, PTL DEF Spec, RunsInOrder

(***************************************************************************)
(* Time.  What waits when the answered drain claims is not older than the  *)
(* window was when it was asked; each wait after that has a timeout.       *)
(***************************************************************************)

\* The longest it may take to send some commands to the board.
SentTime(sent) == ControllerTimeout * Cardinality(sent)

\* The latest time the next command of the answer may be sent to the board.
Deadline(id) ==
    queue[id].requestedAt + CommandTtl + ApiTimeout + SentTime(handedOver \ batch)

AskingInTime ==
    /\ now <= since + ApiTimeout
    /\ drains[answering].step = "began" => drains[answering].at = since
    /\ drains[answering].step \in {"expired", "settled"} =>
           \A id \in Waiting : since <= queue[id].requestedAt + CommandTtl
    /\ drains[answering].step = "claimed" =>
           \A id \in drains[answering].ids : since <= queue[id].requestedAt + CommandTtl

RunningInTime ==
    /\ batch # {} => now <= since + ControllerTimeout
    /\ \A id \in batch : since <= Deadline(id)

TimeInv == (pass = "asking" => AskingInTime) /\ (pass = "running" => RunningInTime)

LEMMA TimeTypes ==
    ASSUME TypeOK
    PROVE  /\ now \in Nat /\ since \in Nat /\ since <= now
           /\ CommandTtl \in Nat /\ ApiTimeout \in Nat /\ ControllerTimeout \in Nat
           /\ \A id \in Ids : queue[id].requestedAt \in Nat
           /\ Waiting \subseteq Ids /\ batch \subseteq Ids
           /\ pass = "asking" => answering \in Drain /\ drains[answering].ids \subseteq Ids
BY TimesAssumption DEF TypeOK, QueueOK, DrainsOK, PassOK, BoardOK, Waiting

\* One more command sent to the board adds one timeout.
LEMMA OneMoreTimeout ==
    ASSUME TypeOK, NEW id \in batch
    PROVE  /\ handedOver \ (batch \ {id}) = (handedOver \ batch) \cup {id}
           /\ SentTime(handedOver \ batch) \in Nat
           /\ SentTime((handedOver \ batch) \cup {id}) = SentTime(handedOver \ batch) + ControllerTimeout
<1>1. IsFiniteSet(handedOver \ batch)
    <2>1. IsFiniteSet(Id)
        BY CommandBoundsAssumption, FS_Interval DEF Id
    <2>2. handedOver \ batch \subseteq Id
        BY QueueRows DEF TypeOK, PassOK, BoardOK
    <2> QED
        BY <2>1, <2>2, FS_Subset
<1>2. Cardinality(handedOver \ batch) \in Nat
    BY <1>1, FS_CardinalityType
<1>3. Cardinality((handedOver \ batch) \cup {id}) = Cardinality(handedOver \ batch) + 1
    BY <1>1, FS_AddElement
<1>4. \A k, n \in Nat : k * n \in Nat /\ k * (n + 1) = k * n + k
    OBVIOUS
<1>5. handedOver \ (batch \ {id}) = (handedOver \ batch) \cup {id}
    BY DEF TypeOK, PassOK
<1> QED
    BY <1>2, <1>3, <1>4, <1>5, TimesAssumption DEF SentTime

LEMMA NextInTime ==
    ASSUME TypeOK, TimeInv, [Next]_vars
    PROVE  TimeInv'
<1>0. /\ now \in Nat /\ since \in Nat /\ since <= now
      /\ CommandTtl \in Nat /\ ApiTimeout \in Nat /\ ControllerTimeout \in Nat
      /\ \A id \in Ids : queue[id].requestedAt \in Nat
      /\ Waiting \subseteq Ids /\ batch \subseteq Ids
      /\ pass = "asking" => answering \in Drain /\ drains[answering].ids \subseteq Ids
    BY TimeTypes
<1>1. ASSUME NEW command \in MemberCommands, Control(command) PROVE TimeInv'
    <2>1. /\ Ids' = Ids \cup {Len(queue) + 1}
          /\ \A id \in Ids : queue'[id] = queue[id]
          /\ queue'[Len(queue) + 1].requestedAt = now
        BY <1>1, ControlQueue
    <2>2. Waiting' \subseteq Waiting \cup {Len(queue) + 1}
        BY <2>1 DEF Waiting
    <2>3. UNCHANGED <<now, drains, pass, answering, since, batch, handedOver>>
        BY <1>1 DEF Control, doorVars
    <2>4. CASE pass = "asking"
        BY <1>0, <2>1, <2>2, <2>3, <2>4 DEF TimeInv, AskingInTime
    <2>5. CASE pass = "running"
        BY <1>0, <2>1, <2>3, <2>5 DEF TimeInv, RunningInTime, Deadline, SentTime
    <2> QED
        BY <2>3, <2>4, <2>5 DEF TimeInv
<1>2. ASSUME NEW d \in Drain,
             ExpireStale(d) \/ RecordExpired(d) \/ Claim(d) \/ DropAnswer(d)
      PROVE  TimeInv'
    <2>1. /\ Ids' = Ids /\ \A id \in Ids : queue'[id].requestedAt = queue[id].requestedAt
          /\ Waiting' \subseteq Waiting
          /\ \A e \in Drain \ {d} : drains'[e] = drains[e]
          /\ UNCHANGED <<now, pass, answering, since, batch, handedOver>>
        BY <1>2, DrainFrame
    <2>2. CASE pass = "running"
        BY <1>0, <2>1, <2>2 DEF TimeInv, RunningInTime, Deadline, SentTime
    <2>3. CASE pass = "asking" /\ answering # d
        BY <1>0, <2>1, <2>3 DEF TimeInv, AskingInTime
    <2>4. CASE pass = "asking" /\ answering = d
        <3>1. CASE ExpireStale(d)
            <4>1. drains[d].at = since /\ drains'[d].step \in {"settled", "expired"}
                BY <2>4, <3>1 DEF ExpireStale, TimeInv, AskingInTime, TypeOK, DrainsOK
            <4>2. \A id \in Waiting' : id \notin Stale(since)
                <5>1. Stale(since) \in SUBSET Ids /\ Resolve(Stale(since), "expired")
                    BY <3>1, <4>1 DEF ExpireStale, Stale, Waiting
                <5>2. \A id \in Stale(since) : queue'[id].resolution = "expired"
                    BY <5>1, ResolveQueue DEF TypeOK
                <5> QED
                    BY <5>2 DEF Waiting
            <4>3. \A id \in Waiting' : since <= queue[id].requestedAt + CommandTtl
                BY <1>0, <2>1, <4>2 DEF Stale
            <4> QED
                BY <1>0, <2>1, <2>4, <4>1, <4>3 DEF TimeInv, AskingInTime
        <3>2. CASE RecordExpired(d)
            <4>1. drains[d].step = "expired" /\ drains'[d].step = "settled"
                BY <3>2 DEF RecordExpired, TypeOK, DrainsOK
            <4> QED
                BY <1>0, <2>1, <2>4, <4>1 DEF TimeInv, AskingInTime
        <3>3. CASE Claim(d)
            <4>1. /\ drains[d].step = "settled" /\ drains'[d].step = "claimed"
                  /\ drains'[d].ids = Waiting
                BY <3>3, ClaimLeavesNoneWaiting DEF Claim, TypeOK, DrainsOK
            <4> QED
                BY <1>0, <2>1, <2>4, <4>1 DEF TimeInv, AskingInTime
        <3>4. CASE DropAnswer(d)
            BY <2>4, <3>4 DEF DropAnswer
        <3> QED
            BY <1>2, <3>1, <3>2, <3>3, <3>4
    <2> QED
        BY <2>1, <2>2, <2>3, <2>4 DEF TimeInv
<1>3. CASE AskForCommands
    <2>1. /\ pass' = "asking" /\ since' = now /\ now' = now
          /\ answering' \in Drain /\ drains'[answering'].step = "began"
          /\ drains'[answering'].at = now
        BY <1>3 DEF AskForCommands, DoorStep, TypeOK, DrainsOK
    <2> QED
        BY <1>0, <2>1 DEF TimeInv, AskingInTime
<1>4. CASE TakeCommands
    <2>1. /\ pass = "asking" /\ pass' = "running" /\ since' = now /\ now' = now
          /\ queue' = queue /\ drains[answering].step = "claimed"
          /\ batch' = drains[answering].ids /\ handedOver' = drains[answering].ids
        BY <1>4 DEF TakeCommands, DoorStep
    <2>2. SentTime(handedOver \ batch)' = 0
        <3>1. Cardinality(handedOver' \ batch') = 0
            BY <2>1, FS_EmptySet
        <3> QED
            BY <1>0, <3>1 DEF SentTime
    <2>3. \A id \in batch' : now <= queue[id].requestedAt + CommandTtl + ApiTimeout
        BY <1>0, <2>1 DEF TimeInv, AskingInTime
    <2> QED
        BY <1>0, <2>1, <2>2, <2>3 DEF TimeInv, RunningInTime, Deadline, SentTime
<1>5. ASSUME NEW id \in Id, RunNextCommand(id) PROVE TimeInv'
    <2>1. /\ id \in batch /\ batch' = batch \ {id} /\ since' = now
          /\ UNCHANGED <<now, queue, pass, handedOver>> /\ pass = "running"
        BY <1>5 DEF RunNextCommand, IsNext, DoorStep
    <2>2. /\ handedOver' \ batch' = (handedOver \ batch) \cup {id}
          /\ SentTime(handedOver \ batch) \in Nat
          /\ SentTime((handedOver \ batch) \cup {id}) = SentTime(handedOver \ batch) + ControllerTimeout
        BY <2>1, OneMoreTimeout
    <2>3. now <= since + ControllerTimeout /\ \A other \in batch : since <= Deadline(other)
        BY <2>1 DEF TimeInv, RunningInTime
    <2>4. \A other \in batch' : since' <= Deadline(other)'
        <3> SUFFICES ASSUME NEW other \in batch' PROVE since' <= Deadline(other)'
            OBVIOUS
        <3>1. /\ other \in Ids /\ queue[other].requestedAt \in Nat
              /\ now <= since + ControllerTimeout /\ since <= Deadline(other)
            BY <1>0, <2>1, <2>3
        <3>2. Deadline(other)' = queue[other].requestedAt + CommandTtl + ApiTimeout
                                     + SentTime((handedOver \ batch) \cup {id})
            BY <2>1, <2>2 DEF Deadline, SentTime
        <3> QED
            BY <1>0, <2>1, <2>2, <3>1, <3>2 DEF Deadline
    <2> QED
        BY <1>0, <2>1, <2>4 DEF TimeInv, RunningInTime
<1>6. CASE pass' \notin {"asking", "running"}
    BY <1>6 DEF TimeInv
<1>7. CASE UNCHANGED <<now, queue, drains, pass, answering, since, batch, handedOver>>
    BY <1>7 DEF TimeInv, AskingInTime, RunningInTime, Deadline, SentTime, Waiting, Ids
<1>8. CASE Tick
    <2>1. /\ now' = now + 1 /\ UNCHANGED <<queue, drains, pass, answering, since, batch, handedOver>>
          /\ pass = "asking" => now < since + ApiTimeout
          /\ pass = "running" /\ batch # {} => now < since + ControllerTimeout
        BY <1>8 DEF Tick, dbVars, apiVars, doorVars
    <2>2. pass = "asking" => AskingInTime'
        BY <1>0, <2>1 DEF TimeInv, AskingInTime, Waiting, Ids
    <2>3. pass = "running" => RunningInTime'
        <3>1. \A id \in batch : Deadline(id)' = Deadline(id)
            BY <2>1 DEF Deadline, SentTime
        <3>2. pass = "running" /\ batch # {} => now' <= since' + ControllerTimeout
            BY <1>0, <2>1
        <3> QED
            BY <2>1, <3>1, <3>2 DEF TimeInv, RunningInTime
    <2> QED
        BY <2>1, <2>2, <2>3 DEF TimeInv
<1>9. CASE RestartApi
    <2>1. CASE pass = "asking"
        BY <1>6, <1>9, <2>1 DEF RestartApi
    <2>2. CASE pass # "asking"
        BY <1>9, <2>2 DEF RestartApi, TimeInv, RunningInTime, Deadline, SentTime, dbVars
    <2> QED
        BY <2>1, <2>2
<1>10. ASSUME NEW id \in Id, BoardTimesOut(id) PROVE TimeInv'
    BY <1>6, <1>10 DEF BoardTimesOut, EndPass
<1>11. CASE FinishCommands \/ FinishPass \/ AskTimesOut \/ PassFails
    BY <1>6, <1>11 DEF FinishCommands, FinishPass, AskTimesOut, PassFails, EndPass
<1>12. ASSUME NEW id \in Id, AuditControl(id) PROVE TimeInv'
    BY <1>7, <1>12 DEF AuditControl, doorVars
<1>13. ASSUME NEW command \in LocalCommands, ControlLocally(command) PROVE TimeInv'
    BY <1>7, <1>13 DEF ControlLocally, dbVars, apiVars, doorVars
<1>14. CASE UNCHANGED vars
    BY <1>7, <1>14 DEF vars, dbVars, apiVars, doorVars
<1> QED
    BY <1>1, <1>2, <1>3, <1>4, <1>5, <1>8, <1>9, <1>10, <1>11, <1>12, <1>13, <1>14
       DEF Next, Api, DoorService

\* The board acts on a command, if at all, within the window, the API's timeout
\* and one controller timeout for each command of the answer up to it, whatever
\* the three are.
THEOREM CommandsRunInTime == Spec => RunsInTime
<1>1. Init => TimeInv
    BY DEF Init, TimeInv
<1>2. Spec => []TimeInv
    BY <1>1, NextInTime, Invariant, PTL DEF Spec
<1>3. TypeOK /\ TimeInv /\ [Next]_vars =>
          [\A id \in Ids : runs'[id] > runs[id] =>
               now <= queue[id].requestedAt + CommandTtl + ApiTimeout
                          + ControllerTimeout * Cardinality((handedOver \ batch) \cup {id})]_vars
    <2> SUFFICES ASSUME TypeOK, TimeInv, Next, NEW id \in Ids, runs'[id] > runs[id]
                 PROVE  now <= queue[id].requestedAt + CommandTtl + ApiTimeout
                                   + ControllerTimeout * Cardinality((handedOver \ batch) \cup {id})
        OBVIOUS
    <2>1. pass = "running" /\ id \in batch
        BY RunsOnlyFromBatch, QueueRows DEF IsNext, TypeOK
    <2>2. now <= since + ControllerTimeout /\ since <= Deadline(id)
        BY <2>1 DEF TimeInv, RunningInTime
    <2>3. /\ SentTime(handedOver \ batch) \in Nat
          /\ SentTime((handedOver \ batch) \cup {id}) = SentTime(handedOver \ batch) + ControllerTimeout
        BY <2>1, OneMoreTimeout
    <2>4. now <= queue[id].requestedAt + CommandTtl + ApiTimeout
                     + SentTime((handedOver \ batch) \cup {id})
        BY <2>2, <2>3, TimeTypes DEF Deadline
    <2> QED
        BY <2>4 DEF SentTime
<1> QED
    BY <1>2, <1>3, Invariant, PTL DEF Spec, RunsInTime
=============================================================================
