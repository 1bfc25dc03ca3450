------------------------- MODULE DoorStatus_proofs -------------------------
(***************************************************************************)
(* Proofs about DoorStatus for every number of doors, every set of clock   *)
(* offsets and every tolerance, timeout and window.                        *)
(***************************************************************************)
EXTENDS DoorStatus, TLAPS

(***************************************************************************)
(* The types.                                                              *)
(***************************************************************************)

LEMMA InitTypeOK ==
    ASSUME Init
    PROVE  TypeOK
<1> USE OffsetsAssumption, DurationsAssumption, StatusBoundsAssumption
<1> QED BY DEF Init, TypeOK, Never

LEMMA ApiTypeOK ==
    ASSUME TypeOK, NEW report \in wire, RecordReport(report) \/ LoseReport(report)
    PROVE  TypeOK'
<1> USE OffsetsAssumption, DurationsAssumption, StatusBoundsAssumption
<1>1. CASE RecordReport(report)
  <2>1. /\ report.reportedAt \in Int
        /\ report.status \in SUBSET Door
        /\ report.readAt \in 1..now
    BY DEF TypeOK
  <2>2. /\ BelievableTime(report.reportedAt, now) \in Int
        /\ BelievableTime(report.reportedAt, now) <= now + ClockSkew
    BY <2>1 DEF TypeOK, BelievableTime
  <2> DEFINE row == [at |-> BelievableTime(report.reportedAt, now),
                     status |-> report.status, readAt |-> report.readAt]
  <2>3. rows' = rows \cup {row} /\ wire' \subseteq wire
    BY <1>1 DEF RecordReport
  <2>4. row \in [at : Int, status : SUBSET Door, readAt : 1..now] /\ row.at <= now + ClockSkew
    BY <2>1, <2>2
  <2> HIDE DEF row
  <2> QED BY <1>1, <2>3, <2>4 DEF TypeOK, RecordReport, doorVars
<1>2. CASE LoseReport(report)
  BY <1>2 DEF TypeOK, LoseReport, doorVars
<1> QED BY <1>1, <1>2

LEMMA DoorServiceTypeOK ==
    ASSUME TypeOK, ReadStatus \/ PostReport \/ PassFails
    PROVE  TypeOK'
<1> USE OffsetsAssumption, DurationsAssumption, StatusBoundsAssumption
<1>1. CASE ReadStatus
  BY <1>1 DEF TypeOK, ReadStatus
<1>2. CASE PostReport
  <2> DEFINE report == [reportedAt |-> now + offset, status |-> reading,
                        readAt |-> readAt, sentAt |-> now]
  <2>1. report \in [reportedAt : Int, status : SUBSET Door, readAt : 1..now, sentAt : 1..now]
    BY <1>2 DEF TypeOK, PostReport
  <2>2. wire' = wire \cup {report} /\ posted' = now
    BY <1>2 DEF PostReport
  <2> HIDE DEF report
  <2>3. wire' \subseteq [reportedAt : Int, status : SUBSET Door, readAt : 1..now, sentAt : 1..posted']
    <3>1. posted \in 0..now /\ now \in Int
      BY DEF TypeOK
    <3>2. 1..posted \subseteq 1..now
      BY <3>1
    <3> QED BY <2>1, <2>2, <3>2 DEF TypeOK
  <2> QED BY <1>2, <2>2, <2>3 DEF TypeOK, PostReport, EndPass
<1>3. CASE PassFails
  BY <1>3 DEF TypeOK, PassFails, EndPass
<1> QED BY <1>1, <1>2, <1>3

LEMMA BuildingTypeOK ==
    ASSUME TypeOK, (\E door \in Door : TurnLock(door)) \/ StepClock \/ Tick
    PROVE  TypeOK'
<1> USE OffsetsAssumption, DurationsAssumption, StatusBoundsAssumption
<1>1. ASSUME NEW door \in Door, TurnLock(door) PROVE TypeOK'
  BY <1>1 DEF TypeOK, TurnLock, Never, doorVars
<1>2. CASE StepClock
  BY <1>2 DEF TypeOK, StepClock, doorVars
<1>3. CASE Tick
  <2>1. now \in Int /\ now' = now + 1 /\ now' \in 1..MaxTime
    BY <1>3 DEF TypeOK, Tick
  <2>2. 0..now \subseteq 0..now' /\ 1..now \subseteq 1..now'
    BY <2>1
  <2>3. wire' = wire /\ rows' = rows /\ posted' = posted
    BY <1>3 DEF Tick, doorVars
  <2>4. wire' \subseteq [reportedAt : Int, status : SUBSET Door, readAt : 1..now', sentAt : 1..posted']
    BY <2>2, <2>3 DEF TypeOK
  <2>5. rows' \subseteq [at : Int, status : SUBSET Door, readAt : 1..now']
    BY <2>2, <2>3 DEF TypeOK
  <2>6. \A row \in rows' : row.at <= now' + ClockSkew
    BY <2>1, <2>3 DEF TypeOK
  <2>7. lastUnlocked' \in [Door -> Never..now']
    BY <1>3, <2>1 DEF TypeOK, Tick, Never
  <2> QED BY <1>3, <2>1, <2>2, <2>4, <2>5, <2>6, <2>7 DEF TypeOK, Tick, doorVars
<1> QED BY <1>1, <1>2, <1>3

LEMMA NextTypeOK ==
    ASSUME TypeOK, [Next]_vars
    PROVE  TypeOK'
<1>1. CASE UNCHANGED vars
  BY <1>1 DEF TypeOK, vars, doorVars
<1>2. CASE Next
  BY <1>2, ApiTypeOK, DoorServiceTypeOK, BuildingTypeOK DEF Next
<1> QED BY <1>1, <1>2

\* TypeOK holds in every run, whatever the constants: no row is ever dated
\* further ahead of the API's clock than the tolerance.
THEOREM StatusTypeCorrect ==
    Spec => []TypeOK
<1>1. Init => TypeOK
  BY InitTypeOK
<1>2. TypeOK /\ [Next]_vars => TypeOK'
  BY NextTypeOK
<1> QED BY <1>1, <1>2, PTL DEF Spec

(***************************************************************************)
(* How old what the page shows can be.                                     *)
(***************************************************************************)

\* A door a reading, a report or a row calls unlocked was unlocked when the
\* reading was taken, or later.
Witnessed(status, at) == \A door \in status : lastUnlocked[door] >= at

\* From the reading to the row: each stage lasts as long as its timeout at most,
\* and the row is dated no later than the tolerance after it was inserted.
RecentInv ==
    /\ TypeOK
    /\ Witnessed(unlocked, now)
    /\ pass = "read" => Witnessed(reading, readAt) /\ now <= readAt + ControllerTimeout
    /\ \A report \in wire : /\ Witnessed(report.status, report.readAt)
                            /\ report.sentAt <= report.readAt + ControllerTimeout
                            /\ now <= report.sentAt + ReportDelay
    /\ \A row \in rows : /\ Witnessed(row.status, row.readAt)
                         /\ row.at <= row.readAt + ControllerTimeout + ReportDelay + ClockSkew

LEMMA InitRecent ==
    ASSUME Init
    PROVE  RecentInv
BY InitTypeOK DEF Init, RecentInv, Witnessed

LEMMA RecordReportRecent ==
    ASSUME RecentInv, NEW report \in wire, RecordReport(report)
    PROVE  RecentInv'
<1> USE OffsetsAssumption, DurationsAssumption, StatusBoundsAssumption
<1> DEFINE row == [at |-> BelievableTime(report.reportedAt, now),
                   status |-> report.status, readAt |-> report.readAt]
<1>1. TypeOK'
  BY ApiTypeOK DEF RecentInv
<1>2. rows' = rows \cup {row} /\ wire' \subseteq wire
  BY DEF RecordReport
<1>3. /\ report.readAt \in Int /\ report.sentAt \in Int /\ now \in Int
      /\ report.reportedAt \in Int
  BY DEF RecentInv, TypeOK
<1>4. Witnessed(row.status, row.readAt)
  BY DEF RecentInv, Witnessed
<1>5. row.at <= row.readAt + ControllerTimeout + ReportDelay + ClockSkew
  BY <1>3 DEF RecentInv, BelievableTime
<1> HIDE DEF row
<1> QED BY <1>1, <1>2, <1>4, <1>5 DEF RecentInv, Witnessed, RecordReport, doorVars

LEMMA PostReportRecent ==
    ASSUME RecentInv, PostReport
    PROVE  RecentInv'
<1> USE OffsetsAssumption, DurationsAssumption, StatusBoundsAssumption
<1> DEFINE report == [reportedAt |-> now + offset, status |-> reading,
                      readAt |-> readAt, sentAt |-> now]
<1>1. TypeOK'
  BY DoorServiceTypeOK DEF RecentInv
<1>2. wire' = wire \cup {report}
  BY DEF PostReport
<1>3. /\ Witnessed(report.status, report.readAt)
      /\ report.sentAt <= report.readAt + ControllerTimeout
      /\ now <= report.sentAt + ReportDelay
  BY DEF RecentInv, TypeOK, PostReport
<1> HIDE DEF report
<1> QED BY <1>1, <1>2, <1>3 DEF RecentInv, Witnessed, PostReport, EndPass

LEMMA TurnLockRecent ==
    ASSUME RecentInv, NEW door \in Door, TurnLock(door)
    PROVE  RecentInv'
<1> USE OffsetsAssumption, DurationsAssumption, StatusBoundsAssumption
<1>1. TypeOK'
  BY BuildingTypeOK DEF RecentInv
<1>2. \A d \in Door : lastUnlocked'[d] >= lastUnlocked[d]
  BY DEF RecentInv, TypeOK, TurnLock, Never
<1>3. \A d \in unlocked' : lastUnlocked'[d] >= now
  BY DEF RecentInv, TypeOK, TurnLock, Never, Witnessed
<1>4. ASSUME NEW status \in SUBSET Door, NEW at \in Int, Witnessed(status, at)
      PROVE  \A d \in status : lastUnlocked'[d] >= at
  <2>1. lastUnlocked \in [Door -> Int] /\ lastUnlocked' \in [Door -> Int]
    BY <1>1 DEF RecentInv, TypeOK, Never
  <2> QED BY <1>2, <1>4, <2>1 DEF Witnessed
<1>5. UNCHANGED <<now, doorVars, wire, rows>>
  BY DEF TurnLock
<1>6. pass = "read" => \A d \in reading : lastUnlocked'[d] >= readAt
  BY <1>4 DEF RecentInv, TypeOK
<1>7. \A report \in wire : \A d \in report.status : lastUnlocked'[d] >= report.readAt
  BY <1>4 DEF RecentInv, TypeOK
<1>8. \A row \in rows : \A d \in row.status : lastUnlocked'[d] >= row.readAt
  BY <1>4 DEF RecentInv, TypeOK
<1> QED BY <1>1, <1>3, <1>5, <1>6, <1>7, <1>8 DEF RecentInv, Witnessed, doorVars

LEMMA TickRecent ==
    ASSUME RecentInv, Tick
    PROVE  RecentInv'
<1> USE OffsetsAssumption, DurationsAssumption, StatusBoundsAssumption
<1>1. TypeOK'
  BY BuildingTypeOK DEF RecentInv
<1>2. \A d \in Door : lastUnlocked'[d] >= lastUnlocked[d]
  BY DEF RecentInv, TypeOK, Tick, Never
<1>3. \A d \in unlocked' : lastUnlocked'[d] >= now'
  BY DEF RecentInv, TypeOK, Tick, Never
<1>4. ASSUME NEW status \in SUBSET Door, NEW at \in Int, Witnessed(status, at)
      PROVE  \A d \in status : lastUnlocked'[d] >= at
  <2>1. lastUnlocked \in [Door -> Int] /\ lastUnlocked' \in [Door -> Int]
    BY <1>1 DEF RecentInv, TypeOK, Never
  <2> QED BY <1>2, <1>4, <2>1 DEF Witnessed
<1>5. UNCHANGED <<doorVars, wire, rows>>
  BY DEF Tick
<1>6. pass = "read" => (\A d \in reading : lastUnlocked'[d] >= readAt) /\ now' <= readAt + ControllerTimeout
  <2>1. reading \in SUBSET Door /\ readAt \in Int /\ now \in Int
    BY DEF RecentInv, TypeOK
  <2>2. pass = "read" => \A d \in reading : lastUnlocked'[d] >= readAt
    BY <1>4, <2>1 DEF RecentInv
  <2>3. ControllerTimeout \in Int
    OBVIOUS
  <2>4. pass = "read" => now' <= readAt + ControllerTimeout
    BY <2>1, <2>3 DEF Tick
  <2> QED BY <2>2, <2>4
<1>7. \A report \in wire : /\ \A d \in report.status : lastUnlocked'[d] >= report.readAt
                           /\ now' <= report.sentAt + ReportDelay
  <2> SUFFICES ASSUME NEW report \in wire
               PROVE  /\ \A d \in report.status : lastUnlocked'[d] >= report.readAt
                      /\ now' <= report.sentAt + ReportDelay
    OBVIOUS
  <2>1. report.status \in SUBSET Door /\ report.readAt \in Int /\ report.sentAt \in Int /\ now \in Int
    BY DEF RecentInv, TypeOK
  <2>2. \A d \in report.status : lastUnlocked'[d] >= report.readAt
    BY <1>4, <2>1 DEF RecentInv
  <2>3. ReportDelay \in Int
    OBVIOUS
  <2>4. now' <= report.sentAt + ReportDelay
    BY <2>1, <2>3 DEF Tick
  <2> QED BY <2>2, <2>4
<1>8. \A row \in rows : \A d \in row.status : lastUnlocked'[d] >= row.readAt
  BY <1>4 DEF RecentInv, TypeOK
<1> QED BY <1>1, <1>3, <1>5, <1>6, <1>7, <1>8 DEF RecentInv, Witnessed, doorVars

LEMMA NextRecent ==
    ASSUME RecentInv, [Next]_vars
    PROVE  RecentInv'
<1> USE OffsetsAssumption, DurationsAssumption, StatusBoundsAssumption
<1>1. CASE UNCHANGED vars
  BY <1>1, NextTypeOK DEF RecentInv, TypeOK, Witnessed, vars, doorVars
<1>2. ASSUME NEW report \in wire, LoseReport(report) PROVE RecentInv'
  BY <1>2, ApiTypeOK DEF RecentInv, Witnessed, LoseReport, doorVars
<1>3. CASE ReadStatus
  BY <1>3, DoorServiceTypeOK DEF RecentInv, Witnessed, ReadStatus, TypeOK
<1>4. CASE PassFails
  BY <1>4, DoorServiceTypeOK DEF RecentInv, Witnessed, PassFails, EndPass
<1>5. CASE StepClock
  BY <1>5, BuildingTypeOK DEF RecentInv, Witnessed, StepClock, doorVars
<1> QED BY <1>1, <1>2, <1>3, <1>4, <1>5, RecordReportRecent, PostReportRecent,
           TurnLockRecent, TickRecent DEF Next

LEMMA RecentIsEnough ==
    ASSUME RecentInv
    PROVE  OpenIsRecent
<1> USE OffsetsAssumption, DurationsAssumption, StatusBoundsAssumption
<1> SUFFICES ASSUME NEW row \in LatestDoorStatus, NEW door \in DeriveSpaceApiState(row)
             PROVE  now - lastUnlocked[door]
                        <= StatusStale + ClockSkew + ControllerTimeout + ReportDelay
  BY DEF OpenIsRecent
<1>1. row \in rows /\ now - row.at <= StatusStale /\ door \in row.status
  BY DEF LatestDoorStatus, DeriveSpaceApiState, IsFresh
<1>2. /\ now \in Int /\ row.at \in Int /\ row.readAt \in Int
      /\ lastUnlocked[door] \in Int
  BY <1>1 DEF RecentInv, TypeOK, Never
<1>3. /\ lastUnlocked[door] >= row.readAt
      /\ row.at <= row.readAt + ControllerTimeout + ReportDelay + ClockSkew
  BY <1>1 DEF RecentInv, Witnessed
<1> QED BY <1>1, <1>2, <1>3

\* However far off the door service's clock is and however often it is set, a
\* door the public page calls open was unlocked within the staleness window, the
\* tolerance and the two timeouts on the way.
THEOREM PublishedOpenIsRecent ==
    Spec => []OpenIsRecent
<1>1. Init => RecentInv
  BY InitRecent
<1>2. RecentInv /\ [Next]_vars => RecentInv'
  BY NextRecent
<1>3. RecentInv => OpenIsRecent
  BY RecentIsEnough
<1> QED BY <1>1, <1>2, <1>3, PTL DEF Spec

(***************************************************************************)
(* Which reading the page shows.                                           *)
(***************************************************************************)

\* While nobody sets the door service's clock and it is within the tolerance, a report
\* is believed as it is dated, so the later of two dates is the later reading, on the way
\* as in the table, and nothing is dated after the last post.
OrderInv ==
    /\ TypeOK
    /\ steps = 0 /\ offset <= ClockSkew =>
           /\ \A report \in wire : report.reportedAt = report.sentAt + offset
           /\ \A row \in rows : row.at <= posted + offset
           /\ pass = "read" => /\ \A report \in wire : report.readAt <= readAt
                               /\ \A row \in rows : row.readAt <= readAt
           /\ \A r, q \in wire : r.reportedAt <= q.reportedAt => r.readAt <= q.readAt
           /\ \A r, q \in rows : r.at <= q.at => r.readAt <= q.readAt
           /\ \A r \in wire, q \in rows : /\ r.reportedAt <= q.at => r.readAt <= q.readAt
                                          /\ q.at <= r.reportedAt => q.readAt <= r.readAt

LEMMA InitOrder ==
    ASSUME Init
    PROVE  OrderInv
BY InitTypeOK DEF Init, OrderInv

LEMMA RecordReportOrder ==
    ASSUME OrderInv, NEW report \in wire, RecordReport(report)
    PROVE  OrderInv'
<1> USE OffsetsAssumption, DurationsAssumption, StatusBoundsAssumption
<1> DEFINE row == [at |-> BelievableTime(report.reportedAt, now),
                   status |-> report.status, readAt |-> report.readAt]
<1>1. TypeOK'
  BY ApiTypeOK DEF OrderInv
<1>2. /\ rows' = rows \cup {row} /\ wire' \subseteq wire
      /\ UNCHANGED <<steps, offset, posted, pass, readAt>>
  BY DEF RecordReport, doorVars
<1>3. SUFFICES ASSUME steps = 0, offset <= ClockSkew
               PROVE  OrderInv'
  BY <1>1, <1>2 DEF OrderInv
<1>4. /\ report.readAt \in Int /\ report.sentAt \in 1..posted /\ now \in Int /\ posted \in 0..now
      /\ report.reportedAt = report.sentAt + offset /\ offset \in Int
  BY <1>3 DEF OrderInv, TypeOK
<1>5. row.at = report.reportedAt /\ row.readAt = report.readAt
  BY <1>3, <1>4 DEF BelievableTime
<1>6. row.at <= posted + offset
  BY <1>4, <1>5
<1> HIDE DEF row
<1> QED BY <1>1, <1>2, <1>3, <1>5, <1>6 DEF OrderInv

LEMMA PostReportOrder ==
    ASSUME OrderInv, PostReport
    PROVE  OrderInv'
<1> USE OffsetsAssumption, DurationsAssumption, StatusBoundsAssumption
<1> DEFINE report == [reportedAt |-> now + offset, status |-> reading,
                      readAt |-> readAt, sentAt |-> now]
<1>1. TypeOK'
  BY DoorServiceTypeOK DEF OrderInv
<1>2. /\ wire' = wire \cup {report} /\ pass' = "idle" /\ posted' = now
      /\ pass = "read" /\ now > posted /\ UNCHANGED <<steps, offset, rows>>
  BY DEF PostReport, EndPass
<1>3. SUFFICES ASSUME steps = 0, offset <= ClockSkew
               PROVE  OrderInv'
  BY <1>1, <1>2 DEF OrderInv
<1>4. now \in Int /\ posted \in Int /\ offset \in Int /\ readAt \in Int
  BY DEF OrderInv, TypeOK
<1>5. report.reportedAt = report.sentAt + offset /\ report.sentAt = now /\ report.readAt = readAt
  OBVIOUS
<1>6. \A r \in wire : r.reportedAt < report.reportedAt /\ r.readAt <= report.readAt
  <2> SUFFICES ASSUME NEW r \in wire
               PROVE  r.reportedAt < report.reportedAt /\ r.readAt <= report.readAt
    OBVIOUS
  <2>1. r.reportedAt = r.sentAt + offset /\ r.sentAt \in Int /\ r.sentAt <= posted
    BY <1>3, <1>4 DEF OrderInv, TypeOK
  <2> QED BY <1>2, <1>3, <1>4, <2>1 DEF OrderInv
<1>7. \A row \in rows : /\ row.at < report.reportedAt /\ row.readAt <= report.readAt
                        /\ row.at <= now + offset /\ row.at \in Int
  <2> SUFFICES ASSUME NEW row \in rows
               PROVE  /\ row.at < report.reportedAt /\ row.readAt <= report.readAt
                      /\ row.at <= now + offset /\ row.at \in Int
    OBVIOUS
  <2>1. row.at <= posted + offset /\ row.at \in Int
    BY <1>3 DEF OrderInv, TypeOK
  <2> QED BY <1>2, <1>3, <1>4, <2>1 DEF OrderInv
<1>8. /\ \A r \in wire : r.reportedAt \in Int /\ r.readAt \in Int
      /\ report.reportedAt \in Int /\ report.readAt \in Int
  BY <1>4 DEF OrderInv, TypeOK
<1> HIDE DEF report
<1> QED BY <1>1, <1>2, <1>3, <1>5, <1>6, <1>7, <1>8 DEF OrderInv

LEMMA NextOrder ==
    ASSUME OrderInv, [Next]_vars
    PROVE  OrderInv'
<1> USE OffsetsAssumption, DurationsAssumption, StatusBoundsAssumption
<1>1. CASE UNCHANGED vars
  BY <1>1, NextTypeOK DEF OrderInv, vars, doorVars
<1>2. ASSUME NEW report \in wire, LoseReport(report) PROVE OrderInv'
  BY <1>2, ApiTypeOK DEF OrderInv, LoseReport, doorVars
<1>3. CASE ReadStatus
  <2>1. /\ \A report \in wire : report.readAt <= now
        /\ \A row \in rows : row.readAt <= now
    BY DEF OrderInv, TypeOK
  <2> QED BY <1>3, <2>1, DoorServiceTypeOK DEF OrderInv, ReadStatus
<1>4. CASE PassFails
  BY <1>4, DoorServiceTypeOK DEF OrderInv, PassFails, EndPass
<1>5. ASSUME NEW door \in Door, TurnLock(door) PROVE OrderInv'
  BY <1>5, BuildingTypeOK DEF OrderInv, TurnLock, doorVars
<1>6. CASE StepClock
  <2>1. steps' # 0
    BY <1>6 DEF OrderInv, TypeOK, StepClock
  <2> QED BY <1>6, <2>1, BuildingTypeOK DEF OrderInv
<1>7. CASE Tick
  BY <1>7, BuildingTypeOK DEF OrderInv, Tick, doorVars
<1> QED BY <1>1, <1>2, <1>3, <1>4, <1>5, <1>6, <1>7, RecordReportOrder, PostReportOrder DEF Next

LEMMA OrderIsEnough ==
    ASSUME OrderInv
    PROVE  NewestStatusIsShown
<1> USE OffsetsAssumption, DurationsAssumption, StatusBoundsAssumption
<1> SUFFICES ASSUME steps = 0, offset <= ClockSkew, NEW row \in LatestDoorStatus, NEW other \in rows
             PROVE  other.readAt <= row.readAt
  BY DEF NewestStatusIsShown
<1>1. other.at <= now + ClockSkew
  BY DEF OrderInv, TypeOK
<1>2. row \in rows /\ other.at <= row.at
  BY <1>1 DEF LatestDoorStatus
<1> QED BY <1>2 DEF OrderInv

\* "The newest status the door service posted" (door.ts:97): whatever reports are lost or
\* handled after the next one, and however long each is under way, the row shown is the
\* newest reading the API has, as long as the door service's clock is within the tolerance
\* and nobody sets it.
THEOREM NewestReadingIsShown ==
    Spec => []NewestStatusIsShown
<1>1. Init => OrderInv
  BY InitOrder
<1>2. OrderInv /\ [Next]_vars => OrderInv'
  BY NextOrder
<1>3. OrderInv => NewestStatusIsShown
  BY OrderIsEnough
<1> QED BY <1>1, <1>2, <1>3, PTL DEF Spec
=============================================================================
