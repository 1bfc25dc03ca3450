-------------------------- MODULE Members_proofs ---------------------------
(***************************************************************************)
(* Proofs about Members for any number of members, requests at one time,   *)
(* slots and card numbers, and any imported tables.                        *)
(***************************************************************************)
EXTENDS Members, WellFoundedInduction, TLAPS

(***************************************************************************)
(* Facts about slots, rows and requests.                                   *)
(***************************************************************************)

\* The lowest free slot is one of the free slots, and none is lower.
LEMMA LowestFreeSlotIsFree ==
    ASSUME FreeSlots # {}
    PROVE  /\ LowestFreeSlot \in FreeSlots /\ LowestFreeSlot \in Slot
           /\ \A s \in FreeSlots : LowestFreeSlot <= s
<1>1. FreeSlots \in SUBSET Nat /\ FreeSlots \subseteq Slot
    BY SlotCountAssumption DEF FreeSlots, Slot
<1>2. PICK s \in FreeSlots : \A t \in FreeSlots : ~ (<<t, s>> \in OpToRel(<, Nat))
    BY <1>1, NatLessThanWellFounded, WFMin
<1>3. \A t \in FreeSlots : ~ (t < s)
    BY <1>1, <1>2 DEF OpToRel
<1>4. \A t \in FreeSlots : s <= t
    BY <1>1, <1>3
<1> QED
    BY <1>1, <1>4 DEF LowestFreeSlot

LEMMA IdleIsARow == Idle \in RequestRow /\ Idle.op = "none" /\ Idle.step = "none"
<1>1. (CHOOSE n \in CardNumber : TRUE) \in CardNumber
    BY CardNumberAssumption
<1>2. 0 \in Slot
    BY SlotCountAssumption DEF Slot
<1> QED
    BY <1>1, <1>2 DEF Idle, RequestRow, Ops, Steps, Field, Role

\* One request changes; the arguments of the others are what they were.
LEMMA OneRequest ==
    ASSUME TypeOK, NEW r \in Request, NEW row \in RequestRow,
           requests' = [requests EXCEPT ![r] = row],
           DOMAIN cards \subseteq DOMAIN cards', signedUp \subseteq signedUp',
           row.op \notin {"none", "update"} => row.userId \in Member,
           (row.op = "update" /\ row.step = "exists") \/ row.step = "audit" => row.userId \in Member,
           row.op = "update" /\ row.step = "write" => row.slot \in DOMAIN cards',
           row.op = "remove" /\ row.step # "fields" => row.userId \in signedUp'
    PROVE  requests' \in [Request -> RequestRow] /\ ArgumentsOK'
<1>1. requests \in [Request -> RequestRow]
    BY DEF TypeOK
<1>2. requests' \in [Request -> RequestRow]
    BY <1>1
<1>3. /\ requests'[r] = row
      /\ \A q \in Request \ {r} : requests'[q] = requests[q]
    BY <1>1
<1>4. ASSUME NEW q \in Request
      PROVE  /\ requests'[q].op \notin {"none", "update"} => requests'[q].userId \in Member
             /\ At(q, "update", "exists")' \/ requests'[q].step = "audit" => requests'[q].userId \in Member
             /\ At(q, "update", "write")' => requests'[q].slot \in DOMAIN cards'
             /\ requests'[q].op = "remove" /\ requests'[q].step # "fields" =>
                    requests'[q].userId \in signedUp'
    <2>1. CASE q = r
        BY <1>3, <2>1 DEF At
    <2>2. CASE q # r
        BY <1>3, <2>2 DEF At, TypeOK, ArgumentsOK
    <2> QED
        BY <2>1, <2>2
<1> QED
    BY <1>2, <1>4 DEF ArgumentsOK

\* A request that is answered, or that goes on to a step that needs no more than
\* the one before it.
LEMMA AnswerOK ==
    ASSUME TypeOK, NEW r \in Request, Answer(r),
           DOMAIN cards \subseteq DOMAIN cards', signedUp \subseteq signedUp'
    PROVE  requests' \in [Request -> RequestRow] /\ ArgumentsOK'
BY IdleIsARow, OneRequest DEF Answer

LEMMA GoOnOK ==
    ASSUME TypeOK, NEW r \in Request, NEW step \in Steps, GoOn(r, step),
           DOMAIN cards \subseteq DOMAIN cards', signedUp \subseteq signedUp',
           requests[r].op # "none",
           requests[r].op = "update" => step # "exists",
           requests[r].op = "update" /\ step = "audit" => requests[r].userId \in Member,
           requests[r].op = "update" /\ step = "write" => requests[r].slot \in DOMAIN cards',
           requests[r].op # "remove"
    PROVE  requests' \in [Request -> RequestRow] /\ ArgumentsOK'
<1> DEFINE row == [requests[r] EXCEPT !.step = step]
<1>1. requests[r] \in RequestRow /\ requests \in [Request -> RequestRow]
    BY DEF TypeOK
<1>2. row \in RequestRow /\ row.step = step /\ row.op = requests[r].op
      /\ row.userId = requests[r].userId /\ row.slot = requests[r].slot
    BY <1>1 DEF RequestRow
<1>3. requests' = [requests EXCEPT ![r] = row]
    BY <1>1 DEF GoOn
<1>4. requests[r].op # "update" => requests[r].userId \in Member
    BY DEF TypeOK, ArgumentsOK
<1> QED
    BY <1>2, <1>3, <1>4, OneRequest

\* A step that only moves its request on.
LEMMA TablesStay ==
    ASSUME TypeOK, UNCHANGED <<tables, audit>>, requests' \in [Request -> RequestRow], ArgumentsOK',
           received' \in 0..MaxRequests, faults' \in 0..MaxFaults
    PROVE  TypeOK'
BY DEF TypeOK, UsersOK, CardsOK, Exists, tables

(***************************************************************************)
(* The types.                                                              *)
(***************************************************************************)

LEMMA InitTypes == Init => TypeOK
<1> SUFFICES ASSUME Init PROVE TypeOK
    OBVIOUS
<1>1. UsersOK /\ credentials \subseteq Member
    BY InitialAssumption DEF Init, UsersOK
<1>2. CardsOK
    BY InitialAssumption DEF Init, CardsOK, Exists
<1>3. requests \in [Request -> RequestRow] /\ ArgumentsOK
    BY IdleIsARow DEF Init, ArgumentsOK, At
<1> QED
    BY <1>1, <1>2, <1>3, InitialAssumption, BoundsAssumption DEF Init, TypeOK

LEMMA ReceiveTypes ==
    ASSUME TypeOK, NEW r \in Request, NEW row \in RequestRow, Receive(r, row),
           row.op \notin {"none", "update"} => row.userId \in Member,
           (row.op = "update" /\ row.step = "exists") => row.userId \in Member,
           row.step # "audit", row.op = "update" => row.step # "write",
           row.op = "remove" => row.step = "fields"
    PROVE  TypeOK'
<1>1. requests' \in [Request -> RequestRow] /\ ArgumentsOK'
    BY OneRequest DEF Receive, tables
<1>2. received' \in 0..MaxRequests /\ faults' \in 0..MaxFaults
    BY BoundsAssumption DEF Receive, TypeOK
<1> QED
    BY <1>1, <1>2, TablesStay DEF Receive

\* What the routes add to a request's row.
SameStart(edited, row) ==
    edited \in RequestRow /\ edited.op = row.op /\ edited.step = row.step /\ edited.userId = row.userId

LEMMA RowEdits ==
    ASSUME NEW row \in RequestRow
    PROVE  /\ \A n \in CardNumber : SameStart([row EXCEPT !.cardNumber = n], row)
           /\ \A s \in Slot : SameStart([row EXCEPT !.slot = s], row)
           /\ \A f \in Field, on \in BOOLEAN : SameStart([row EXCEPT !.field = f, !.on = on], row)
           /\ \A s \in Slot : LET edited == [row EXCEPT !.slot = s, !.userId = Nobody]
                              IN  edited \in RequestRow /\ edited.op = row.op /\ edited.step = row.step
BY DEF RequestRow, SameStart

\* A request starts with its first statement, which no audit row is.
Started(r) ==
    \E row \in RequestRow :
        /\ Receive(r, row)
        /\ row.op \notin {"none", "update"} => row.userId \in Member
        /\ (row.op = "update" /\ row.step = "exists") => row.userId \in Member
        /\ row.step \notin {"audit", "choose"} /\ (row.op \in {"update", "assign"} => row.step # "write")
        /\ (row.op = "remove" => row.step = "fields")

LEMMA ReceiveAnyStarts ==
    ASSUME TypeOK, NEW r \in Request, ReceiveAny(r)
    PROVE  Started(r)
<1>1. PICK actor \in Member, m \in Member :
          LET begin(op, step) == [Idle EXCEPT !.op = op, !.step = step, !.actor = actor, !.userId = m]
          IN  \/ \E n \in CardNumber :
                     Receive(r, [begin("assign", "exists") EXCEPT !.cardNumber = n])
              \/ \E s \in Slot : Receive(r, [begin("update", "exists") EXCEPT !.slot = s])
              \/ \E s \in Slot :
                     Receive(r, [begin("update", "before") EXCEPT !.slot = s, !.userId = Nobody])
              \/ Receive(r, begin("remove", "fields"))
              \/ \E f \in Fields, on \in BOOLEAN :
                     Receive(r, [begin("patch", "find") EXCEPT !.field = f, !.on = on])
              \/ Receive(r, begin("grant", "exists"))
              \/ Receive(r, begin("revoke", "write"))
              \/ Receive(r, begin("pay", "exists"))
    BY DEF ReceiveAny
<1> DEFINE begin(op, step) == [Idle EXCEPT !.op = op, !.step = step, !.actor = actor, !.userId = m]
<1>2. ASSUME NEW op \in Ops, NEW step \in Steps
      PROVE  /\ begin(op, step) \in RequestRow
             /\ begin(op, step).op = op /\ begin(op, step).step = step
             /\ begin(op, step).userId = m
    BY IdleIsARow DEF RequestRow
<1> HIDE DEF begin
<1>3. ASSUME NEW op \in {"assign", "update", "patch"}, NEW step \in {"exists", "before", "find"}
      PROVE  /\ begin(op, step) \in RequestRow /\ begin(op, step).op = op
             /\ begin(op, step).step = step /\ begin(op, step).userId = m
    BY <1>2 DEF Ops, Steps
<1>4. /\ begin("remove", "fields") \in RequestRow /\ begin("remove", "fields").op = "remove"
      /\ begin("remove", "fields").step = "fields" /\ begin("remove", "fields").userId = m
    BY <1>2 DEF Ops, Steps
<1>5. ASSUME NEW op \in {"grant", "revoke", "pay"}, NEW step \in {"exists", "write"}
      PROVE  /\ begin(op, step) \in RequestRow /\ begin(op, step).op = op
             /\ begin(op, step).step = step /\ begin(op, step).userId = m
    BY <1>2 DEF Ops, Steps
<1>6. ASSUME NEW n \in CardNumber, Receive(r, [begin("assign", "exists") EXCEPT !.cardNumber = n])
      PROVE  Started(r)
    <2>1. SameStart([begin("assign", "exists") EXCEPT !.cardNumber = n], begin("assign", "exists"))
        BY <1>3, RowEdits
    <2> QED
        BY <1>3, <1>6, <2>1 DEF SameStart, Started
<1>7. ASSUME NEW s \in Slot, Receive(r, [begin("update", "exists") EXCEPT !.slot = s])
      PROVE  Started(r)
    <2>1. SameStart([begin("update", "exists") EXCEPT !.slot = s], begin("update", "exists"))
        BY <1>3, RowEdits
    <2> QED
        BY <1>3, <1>7, <2>1 DEF SameStart, Started
<1>8. ASSUME NEW s \in Slot,
             Receive(r, [begin("update", "before") EXCEPT !.slot = s, !.userId = Nobody])
      PROVE  Started(r)
    <2> DEFINE edited == [begin("update", "before") EXCEPT !.slot = s, !.userId = Nobody]
    <2>1. edited \in RequestRow /\ edited.op = "update" /\ edited.step = "before"
        BY <1>3, RowEdits
    <2> QED
        BY <1>8, <2>1 DEF Started
<1>9. ASSUME NEW f \in Fields, NEW on \in BOOLEAN,
             Receive(r, [begin("patch", "find") EXCEPT !.field = f, !.on = on])
      PROVE  Started(r)
    <2>1. SameStart([begin("patch", "find") EXCEPT !.field = f, !.on = on], begin("patch", "find"))
        BY <1>3, RowEdits, FieldsAssumption
    <2> QED
        BY <1>3, <1>9, <2>1 DEF SameStart, Started
<1>10. CASE Receive(r, begin("remove", "fields"))
    BY <1>4, <1>10 DEF Started
<1>11. CASE \/ Receive(r, begin("grant", "exists"))
            \/ Receive(r, begin("revoke", "write"))
            \/ Receive(r, begin("pay", "exists"))
    BY <1>5, <1>11 DEF Started
<1> QED
    BY <1>1, <1>6, <1>7, <1>8, <1>9, <1>10, <1>11 DEF begin

LEMMA MakeAdminStarts ==
    ASSUME TypeOK, NEW r \in Request, ReceiveMakeAdmin(r)
    PROVE  Started(r)
<1>1. PICK m \in Member :
          Receive(r, [Idle EXCEPT !.op = "make-admin", !.step = "find", !.userId = m])
    BY DEF ReceiveMakeAdmin
<1> DEFINE row == [Idle EXCEPT !.op = "make-admin", !.step = "find", !.userId = m]
<1>2. row \in RequestRow /\ row.op = "make-admin" /\ row.step = "find" /\ row.userId = m
    BY IdleIsARow DEF RequestRow, Ops, Steps
<1> QED
    BY <1>1, <1>2 DEF Started

\* The statements that only read.
Reads(r) ==
    \/ CheckMemberExists(r) \/ CheckDuplicate(r) \/ LockSlots(r) \/ ChooseSlot(r) \/ ReadCardBefore(r)
    \/ CheckFields(r) \/ CheckOwn(r) \/ CheckNamed(r)
    \/ FindMember(r) \/ FindForMakeAdmin(r) \/ CheckHeld(r)

LEMMA ReadTypes ==
    ASSUME TypeOK, NEW r \in Request, Reads(r)
    PROVE  TypeOK'
<1> DEFINE q == requests[r]
<1>0. q \in RequestRow /\ requests \in [Request -> RequestRow]
    BY DEF TypeOK
<1>1. UNCHANGED <<tables, audit, bounds>>
    BY DEF Reads, CheckMemberExists, CheckDuplicate, LockSlots, ChooseSlot, ReadCardBefore,
           CheckFields, CheckOwn, CheckNamed, FindMember, FindForMakeAdmin, CheckHeld
<1>2. DOMAIN cards \subseteq DOMAIN cards' /\ signedUp \subseteq signedUp'
    BY <1>1 DEF tables
<1> SUFFICES requests' \in [Request -> RequestRow] /\ ArgumentsOK'
    BY <1>1, TablesStay DEF bounds, TypeOK
<1>3. CASE Answer(r)
    BY <1>2, <1>3, AnswerOK
<1>4. CASE CheckMemberExists(r) /\ ~Answer(r)
    <2>1. PICK step \in {"duplicate", "before", "held", "write"} :
              GoOn(r, step) /\ q.step = "exists" /\ (q.op = "update" => step = "before")
              /\ q.op # "none" /\ q.op # "remove"
        BY <1>4 DEF CheckMemberExists, AfterExists
    <2> QED
        BY <1>2, <2>1, GoOnOK DEF Steps
<1>5. CASE CheckDuplicate(r) /\ ~Answer(r)
    BY <1>2, <1>5, GoOnOK DEF CheckDuplicate, At, Steps
<1>6. CASE LockSlots(r)
    BY <1>2, <1>6, GoOnOK DEF LockSlots, At, Steps
<1>7. CASE ChooseSlot(r) /\ ~Answer(r)
    <2> DEFINE row == [requests[r] EXCEPT !.step = "write", !.slot = LowestFreeSlot]
    <2>1. LowestFreeSlot \in Slot /\ q.op = "assign" /\ requests' = [requests EXCEPT ![r] = row]
        BY <1>0, <1>7, LowestFreeSlotIsFree DEF ChooseSlot, At
    <2>2. row \in RequestRow /\ row.op = "assign" /\ row.step = "write" /\ row.userId = q.userId
        BY <1>0, <2>1 DEF RequestRow, Steps
    <2>3. q.userId \in Member
        BY <2>1 DEF TypeOK, ArgumentsOK
    <2> QED
        BY <1>2, <2>1, <2>2, <2>3, OneRequest
<1>8. CASE ReadCardBefore(r) /\ ~Answer(r)
    BY <1>2, <1>8, GoOnOK DEF ReadCardBefore, At, Steps
<1>9. ASSUME NEW step \in {"own", "named", "write"}, NEW left \in SUBSET (Own \cup Named),
             q.op = "remove", q.userId \in signedUp,
             requests' = [requests EXCEPT ![r].step = step, ![r].left = left]
      PROVE  requests' \in [Request -> RequestRow] /\ ArgumentsOK'
    <2> DEFINE row == [requests[r] EXCEPT !.step = step, !.left = left]
    <2>1. row \in RequestRow /\ row.op = "remove" /\ row.step = step /\ row.userId = q.userId
        BY <1>0, <1>9 DEF RequestRow, Steps
    <2>2. requests' = [requests EXCEPT ![r] = row]
        BY <1>0, <1>9
    <2>3. q.userId \in Member
        BY <1>9 DEF TypeOK, UsersOK
    <2>4. row.userId \in signedUp'
        BY <1>2, <1>9, <2>1
    <2> HIDE DEF row
    <2> QED
        BY <1>2, <2>1, <2>2, <2>3, <2>4, OneRequest
<1>10. CASE CheckFields(r) /\ ~Answer(r)
    <2>1. /\ q.op = "remove" /\ q.userId \in signedUp
          /\ requests' = [requests EXCEPT ![r].step = "own", ![r].left = Own]
        BY <1>10 DEF CheckFields, At, Exists, TypeOK, UsersOK
    <2> QED
        BY <2>1, <1>9
<1>11. CASE (CheckOwn(r) \/ CheckNamed(r)) /\ ~Answer(r)
    <2>1. /\ q.op = "remove" /\ q.userId \in signedUp /\ q.step \in {"own", "named"}
        BY <1>11 DEF CheckOwn, CheckNamed, At, TypeOK, ArgumentsOK
    <2>2. q.left \in SUBSET (Own \cup Named)
        BY <1>0 DEF RequestRow
    <2>3. \E step \in {"own", "named", "write"}, left \in SUBSET (Own \cup Named) :
              requests' = [requests EXCEPT ![r].step = step, ![r].left = left]
        <3>1. PICK c \in q.left :
                  \/ requests' = [requests EXCEPT ![r].step = "named", ![r].left = Named]
                  \/ requests' = [requests EXCEPT ![r].step = "write", ![r].left = {}]
                  \/ requests' = [requests EXCEPT ![r].left = @ \ {c}]
            BY <1>11 DEF CheckOwn, CheckNamed
        <3>2. CASE requests' = [requests EXCEPT ![r].left = @ \ {c}]
            <4>1. [requests EXCEPT ![r].left = @ \ {c}]
                      = [requests EXCEPT ![r].step = q.step, ![r].left = q.left \ {c}]
                BY <1>0 DEF RequestRow
            <4> QED
                BY <2>1, <2>2, <3>2, <4>1
        <3> QED
            BY <3>1, <3>2
    <2> QED
        BY <2>1, <2>3, <1>9
<1>12. CASE (FindMember(r) \/ FindForMakeAdmin(r) \/ CheckHeld(r)) /\ ~Answer(r)
    BY <1>2, <1>12, GoOnOK DEF FindMember, FindForMakeAdmin, CheckHeld, At, Steps
<1> QED
    BY <1>3, <1>4, <1>5, <1>6, <1>7, <1>8, <1>10, <1>11, <1>12 DEF Reads

\* What every write's proof starts from.
LEMMA RequestFacts ==
    ASSUME TypeOK, NEW r \in Request
    PROVE  /\ requests[r] \in RequestRow /\ requests \in [Request -> RequestRow]
           /\ requests[r].op \notin {"none", "update"} => requests[r].userId \in Member
           /\ requests[r].step = "audit" => requests[r].userId \in Member
           /\ requests[r].actor \in Member \cup {Nobody} /\ requests[r].slot \in Slot
           /\ requests[r].op \in Ops /\ requests[r].cardNumber \in CardNumber
BY DEF TypeOK, ArgumentsOK, RequestRow

LEMMA RecordAuditTypes ==
    ASSUME TypeOK, NEW r \in Request, RecordAudit(r)
    PROVE  TypeOK'
<1>1. requests' \in [Request -> RequestRow] /\ ArgumentsOK'
    BY AnswerOK DEF RecordAudit, tables
<1>2. audit' \subseteq AuditRow
    BY RequestFacts DEF RecordAudit, TypeOK, AuditRow
<1> QED
    BY <1>1, <1>2 DEF RecordAudit, TypeOK, UsersOK, CardsOK, Exists, tables, bounds

LEMMA InsertCardTypes ==
    ASSUME TypeOK, NEW r \in Request, InsertCard(r)
    PROVE  TypeOK'
<1> DEFINE q == requests[r]
<1>0. /\ q \in RequestRow /\ requests \in [Request -> RequestRow] /\ q.userId \in Member
      /\ q.op = "assign" /\ q.slot \in Slot /\ q.cardNumber \in CardNumber
    BY RequestFacts DEF InsertCard, At
<1>1. UNCHANGED <<users, credentials, grants, payments, releases, signedUp, audit, bounds>>
    BY DEF InsertCard
<1>2. CASE Answer(r) /\ UNCHANGED cards
    <2>1. requests' \in [Request -> RequestRow] /\ ArgumentsOK'
        BY <1>1, <1>2, AnswerOK
    <2> QED
        BY <1>1, <1>2, <2>1, TablesStay DEF tables, bounds, TypeOK
<1>3. CASE /\ q.slot \notin DOMAIN cards /\ Exists(q.userId)
           /\ \A s \in DOMAIN cards : cards[s].cardNumber # q.cardNumber
           /\ cards' = [s \in DOMAIN cards \cup {q.slot} |->
                            IF s = q.slot THEN [cardNumber |-> q.cardNumber, userId |-> q.userId]
                                          ELSE cards[s]]
           /\ GoOn(r, "audit")
    <2>1. DOMAIN cards' = DOMAIN cards \cup {q.slot}
        BY <1>3
    <2>2. requests' \in [Request -> RequestRow] /\ ArgumentsOK'
        BY <1>0, <1>1, <1>3, <2>1, GoOnOK DEF Steps
    <2>3. CardsOK'
        <3>1. cards \in [DOMAIN cards -> CardRow] /\ DOMAIN cards \subseteq Slot
            BY DEF TypeOK, CardsOK
        <3>2. cards' \in [DOMAIN cards' -> CardRow] /\ DOMAIN cards' \subseteq Slot
            BY <1>0, <1>3, <2>1, <3>1 DEF CardRow
        <3>3. \A s, t \in DOMAIN cards' : cards'[s].cardNumber = cards'[t].cardNumber => s = t
            BY <1>3, <2>1 DEF TypeOK, CardsOK
        <3>4. \A s \in DOMAIN cards' : cards'[s].userId \in DOMAIN users'
            BY <1>1, <1>3, <2>1 DEF TypeOK, CardsOK, Exists
        <3> QED
            BY <3>2, <3>3, <3>4 DEF CardsOK, Exists
    <2> QED
        BY <1>1, <2>2, <2>3 DEF TypeOK, UsersOK, bounds
<1> QED
    BY <1>2, <1>3 DEF InsertCard

LEMMA UpdateCardTypes ==
    ASSUME TypeOK, NEW r \in Request, UpdateCard(r)
    PROVE  /\ TypeOK' /\ DOMAIN cards' = DOMAIN cards
           /\ \A s \in DOMAIN cards : cards'[s].cardNumber = cards[s].cardNumber
<1> DEFINE q == requests[r]
           holder == IF q.userId = Nobody THEN cards[q.slot].userId ELSE q.userId
           row == [requests[r] EXCEPT !.step = "audit", !.userId = holder]
<1>0. /\ q \in RequestRow /\ requests \in [Request -> RequestRow]
      /\ q.op = "update" /\ q.slot \in DOMAIN cards
    BY RequestFacts DEF UpdateCard, At, TypeOK, ArgumentsOK
<1>1. UNCHANGED <<users, credentials, grants, payments, releases, signedUp, audit, bounds>>
    BY DEF UpdateCard
<1>2. CASE Answer(r) /\ UNCHANGED cards
    <2>1. requests' \in [Request -> RequestRow] /\ ArgumentsOK'
        BY <1>1, <1>2, AnswerOK
    <2> QED
        BY <1>1, <1>2, <2>1, TablesStay DEF tables, bounds, TypeOK
<1>3. CASE /\ Exists(holder)
           /\ cards' = [cards EXCEPT ![q.slot].userId = holder]
           /\ requests' = [requests EXCEPT ![r].step = "audit", ![r].userId = holder]
    <2>1. holder \in Member
        BY <1>3 DEF Exists, TypeOK, UsersOK
    <2>2. cards \in [DOMAIN cards -> CardRow]
        BY DEF TypeOK, CardsOK
    <2>3. /\ DOMAIN cards' = DOMAIN cards
          /\ \A s \in DOMAIN cards :
                 /\ cards'[s].cardNumber = cards[s].cardNumber
                 /\ cards'[s].userId = IF s = q.slot THEN holder ELSE cards[s].userId
          /\ cards' \in [DOMAIN cards -> CardRow]
        BY <1>0, <1>3, <2>1, <2>2 DEF CardRow
    <2>4. row \in RequestRow /\ row.op = "update" /\ row.step = "audit" /\ row.userId \in Member
        BY <1>0, <2>1 DEF RequestRow, Steps
    <2>5. requests' = [requests EXCEPT ![r] = row]
        BY <1>0, <1>3
    <2>6. requests' \in [Request -> RequestRow] /\ ArgumentsOK'
        <3> HIDE DEF row
        <3> QED
            BY <1>1, <2>3, <2>4, <2>5, OneRequest
    <2>7. CardsOK'
        BY <1>1, <1>3, <2>3 DEF TypeOK, CardsOK, Exists
    <2> QED
        BY <1>1, <2>3, <2>6, <2>7 DEF TypeOK, UsersOK, bounds
<1> QED
    BY <1>2, <1>3 DEF UpdateCard

LEMMA RemoveMemberTypes ==
    ASSUME TypeOK, NEW r \in Request, RemoveMember(r)
    PROVE  TypeOK'
<1> DEFINE m == requests[r].userId
<1>0. /\ m \in Member /\ requests[r].actor \in Member \cup {Nobody}
      /\ UNCHANGED <<cards, payments, releases, signedUp, bounds>>
    BY RequestFacts DEF RemoveMember, At
<1>1. requests' \in [Request -> RequestRow] /\ ArgumentsOK'
    BY <1>0, AnswerOK DEF RemoveMember
<1>2. CASE UNCHANGED <<users, credentials, grants, audit>>
    BY <1>0, <1>1, <1>2, TablesStay DEF tables, bounds, TypeOK
<1>3. CASE /\ ~Referenced(m) /\ DeleteMember(m)
           /\ audit' = audit \cup {RemovalRow(requests[r])}
    <2>1. /\ users' = [o \in DOMAIN users \ {m} |-> users[o]]
          /\ credentials' = credentials \ {m} /\ grants' \subseteq grants
        BY <1>3 DEF DeleteMember
    <2>2. UsersOK' /\ DOMAIN users' = DOMAIN users \ {m}
        BY <1>0, <2>1 DEF TypeOK, UsersOK
    <2>3. CardsOK'
        BY <1>0, <1>3, <2>2 DEF TypeOK, CardsOK, Exists, Referenced
    <2>4. RemovalRow(requests[r]) \in AuditRow
        BY <1>0, SlotCountAssumption DEF RemovalRow, AuditRow, Ops, Slot
    <2> QED
        BY <1>0, <1>1, <1>3, <2>1, <2>2, <2>3, <2>4 DEF TypeOK, bounds
<1> QED
    BY <1>2, <1>3 DEF RemoveMember

\* Nothing but a member's row changes, and the member stays.
LEMMA UserRowTypes ==
    ASSUME TypeOK, DOMAIN users' = DOMAIN users, users' \in [DOMAIN users -> UserRow],
           UNCHANGED <<credentials, cards, grants, payments, signedUp, audit, bounds>>,
           releases' \subseteq Release,
           requests' \in [Request -> RequestRow], ArgumentsOK'
    PROVE  TypeOK'
BY DEF TypeOK, UsersOK, CardsOK, Exists, bounds

LEMMA ApplyPatchTypes ==
    ASSUME TypeOK, NEW r \in Request, ApplyPatch(r)
    PROVE  TypeOK'
<1> DEFINE q == requests[r]
<1>0. /\ q \in RequestRow /\ q.op = "patch"
      /\ UNCHANGED <<credentials, cards, grants, payments, releases, signedUp, audit, bounds>>
    BY RequestFacts DEF ApplyPatch, At
<1>1. users \in [DOMAIN users -> UserRow]
    BY DEF TypeOK, UsersOK
<1>2. CASE Answer(r) /\ UNCHANGED users
    <2>1. requests' \in [Request -> RequestRow] /\ ArgumentsOK'
        BY <1>0, <1>2, AnswerOK
    <2> QED
        BY <1>0, <1>1, <1>2, <2>1, UserRowTypes DEF TypeOK
<1>3. CASE /\ Exists(q.userId) /\ GoOn(r, "audit")
           /\ users' = [users EXCEPT ![q.userId] = Edited(@, q)]
    <2>1. requests' \in [Request -> RequestRow] /\ ArgumentsOK'
        BY <1>0, <1>3, GoOnOK DEF Steps
    <2>2. ASSUME NEW row \in UserRow PROVE Edited(row, q) \in UserRow
        <3>1. q.field \in Field /\ q.on \in BOOLEAN /\ q.actor \in Member \cup {Nobody}
            BY <1>0 DEF RequestRow
        <3>2. CASE q.field \in Role
            BY <3>1, <3>2 DEF Edited, UserRow, Role
        <3>3. CASE q.field = "memberLevel"
            BY <3>1, <3>3 DEF Edited, UserRow, Role
        <3>4. CASE q.field = "orientation"
            BY <3>1, <3>4 DEF Edited, UserRow, Role
        <3> QED
            BY <3>1, <3>2, <3>3, <3>4 DEF Field
    <2>3. users' \in [DOMAIN users -> UserRow]
        BY <1>1, <1>3, <2>2
    <2> QED
        BY <1>0, <2>1, <2>3, UserRowTypes DEF TypeOK
<1> QED
    BY <1>2, <1>3 DEF ApplyPatch

LEMMA MakeAdminTypes ==
    ASSUME TypeOK, NEW r \in Request, MakeAdmin(r)
    PROVE  TypeOK'
<1>0. /\ requests[r].op = "make-admin"
      /\ UNCHANGED <<credentials, cards, grants, payments, releases, signedUp, audit, bounds>>
    BY DEF MakeAdmin, At
<1>1. requests' \in [Request -> RequestRow] /\ ArgumentsOK'
    BY <1>0, GoOnOK DEF MakeAdmin, Steps
<1>2. users \in [DOMAIN users -> UserRow]
    BY DEF TypeOK, UsersOK
<1>3. \A row \in UserRow : [row EXCEPT !.roles = @ \cup {"admin"}] \in UserRow
    BY DEF UserRow, Role
<1>4. users' \in [DOMAIN users -> UserRow] /\ DOMAIN users' = DOMAIN users
    BY <1>2, <1>3 DEF MakeAdmin
<1> QED
    BY <1>0, <1>1, <1>4, UserRowTypes DEF TypeOK

LEMMA RecordWaiverTypes ==
    ASSUME TypeOK, NEW r \in Request, RecordMemberAndWaiver(r)
    PROVE  TypeOK'
<1> DEFINE m == requests[r].userId
<1>0. /\ m \in Member
      /\ UNCHANGED <<credentials, cards, grants, payments, signedUp, audit, bounds>>
    BY RequestFacts DEF RecordMemberAndWaiver, At
<1>1. requests' \in [Request -> RequestRow] /\ ArgumentsOK'
    BY <1>0, AnswerOK DEF RecordMemberAndWaiver
<1>2. users \in [DOMAIN users -> UserRow] /\ releases \subseteq Release
    BY DEF TypeOK, UsersOK
<1>3. CASE UNCHANGED <<users, releases>>
    BY <1>0, <1>1, <1>2, <1>3, UserRowTypes
<1>4. CASE /\ Exists(m) /\ releases' = releases \cup {[userId |-> m, recordedById |-> Nobody]}
           /\ \E tier \in BOOLEAN : users' = [users EXCEPT ![m].memberLevel = tier]
    <2>1. releases' \subseteq Release
        BY <1>0, <1>2, <1>4 DEF Release
    <2>2. users' \in [DOMAIN users -> UserRow] /\ DOMAIN users' = DOMAIN users
        BY <1>2, <1>4 DEF UserRow
    <2> QED
        BY <1>0, <1>1, <2>1, <2>2, UserRowTypes
<1> QED
    BY <1>3, <1>4 DEF RecordMemberAndWaiver

LEMMA GrantOrPayTypes ==
    ASSUME TypeOK, NEW r \in Request,
           GrantCertification(r) \/ RevokeCertification(r) \/ RecordPayment(r)
    PROVE  TypeOK'
<1> DEFINE q == requests[r]
<1>0. /\ q.userId \in Member /\ q.op \in {"grant", "revoke", "pay"}
      /\ UNCHANGED <<users, credentials, cards, releases, signedUp, audit, bounds>>
    BY RequestFacts DEF GrantCertification, RevokeCertification, RecordPayment, At
<1>1. grants' \subseteq Grant /\ payments' \subseteq Payment
    BY <1>0 DEF GrantCertification, RevokeCertification, RecordPayment, Exists, TypeOK, UsersOK,
                Grant, Payment
<1>2. requests' \in [Request -> RequestRow] /\ ArgumentsOK'
    <2>1. CASE Answer(r)
        BY <1>0, <2>1, AnswerOK
    <2>2. CASE GoOn(r, "audit")
        BY <1>0, <2>2, GoOnOK DEF Steps
    <2> QED
        BY <2>1, <2>2 DEF GrantCertification, RevokeCertification, RecordPayment
<1> QED
    BY <1>0, <1>1, <1>2 DEF TypeOK, UsersOK, CardsOK, Exists, bounds

LEMMA SignUpTypes ==
    ASSUME TypeOK, NEW r \in Request, SignUpEmail(r)
    PROVE  TypeOK'
<1> DEFINE fresh == [roles |-> {}, orientation |-> FALSE, memberLevel |-> FALSE,
                     orientedById |-> Nobody]
<1>1. PICK m \in Member \ signedUp :
          /\ users' = [o \in DOMAIN users \cup {m} |-> IF o = m THEN fresh ELSE users[o]]
          /\ credentials' = credentials \cup {m} /\ signedUp' = signedUp \cup {m}
          /\ requests' = [requests EXCEPT ![r] = [Idle EXCEPT !.op = "signup", !.step = "write",
                                                              !.userId = m]]
    BY DEF SignUpEmail
<1>2. /\ UNCHANGED <<cards, grants, payments, releases, audit, faults>>
      /\ received' = received + 1 /\ received < MaxRequests
    BY DEF SignUpEmail
<1>3. fresh \in UserRow
    BY DEF UserRow
<1>4. UsersOK' /\ DOMAIN users \subseteq DOMAIN users'
    BY <1>1, <1>3 DEF TypeOK, UsersOK
<1>5. CardsOK'
    BY <1>2, <1>4 DEF TypeOK, CardsOK, Exists
<1>6. requests' \in [Request -> RequestRow] /\ ArgumentsOK'
    <2> DEFINE row == [Idle EXCEPT !.op = "signup", !.step = "write", !.userId = m]
    <2>1. row \in RequestRow /\ row.op = "signup" /\ row.step = "write" /\ row.userId = m
        BY IdleIsARow DEF RequestRow, Ops, Steps
    <2>2. requests' = [requests EXCEPT ![r] = row]
        BY <1>1
    <2> HIDE DEF row
    <2> QED
        BY <1>1, <1>2, <2>1, <2>2, OneRequest
<1>7. received' \in 0..MaxRequests
    BY <1>2, BoundsAssumption DEF TypeOK
<1> QED
    BY <1>1, <1>2, <1>4, <1>5, <1>6, <1>7 DEF TypeOK

LEMMA NextTypes ==
    ASSUME TypeOK, [Next]_vars
    PROVE  TypeOK'
<1>1. ASSUME NEW r \in Request, ReceiveAny(r) \/ ReceiveMakeAdmin(r) PROVE TypeOK'
    <2>1. Started(r)
        BY <1>1, ReceiveAnyStarts, MakeAdminStarts
    <2> QED
        BY <2>1, ReceiveTypes DEF Started
<1>2. ASSUME NEW r \in Request, RequestDies(r) PROVE TypeOK'
    <2>1. requests' \in [Request -> RequestRow] /\ ArgumentsOK'
        BY <1>2, AnswerOK DEF RequestDies, tables
    <2>2. faults' \in 0..MaxFaults /\ received' \in 0..MaxRequests
        BY <1>2, BoundsAssumption DEF RequestDies, TypeOK
    <2> QED
        BY <1>2, <2>1, <2>2, TablesStay DEF RequestDies
<1>3. ASSUME NEW r \in Request, Step(r) PROVE TypeOK'
    BY <1>3, ReadTypes, RecordAuditTypes, InsertCardTypes, UpdateCardTypes, RemoveMemberTypes,
       ApplyPatchTypes, MakeAdminTypes, RecordWaiverTypes, GrantOrPayTypes DEF Step, Reads
<1>4. CASE UNCHANGED vars
    BY <1>4 DEF vars, tables, bounds, TypeOK, UsersOK, CardsOK, Exists, ArgumentsOK, At
<1> QED
    BY <1>1, <1>2, <1>3, <1>4, SignUpTypes DEF Next

\* Every table keeps its rows' types, the card numbers stay unique and every card's
\* holder has a member row, for any requests in any order.
THEOREM MembersTypeCorrect == Spec => []TypeOK
BY InitTypes, NextTypes, PTL DEF Spec

(***************************************************************************)
(* What a step does to the requests.                                       *)
(***************************************************************************)

\* A removal writes its audit row in its transaction and never as a statement.
RemovalsAudit == \A r \in Request : requests[r].op = "remove" => requests[r].step # "audit"

\* The two ways into a transaction that holds the slot lock.
LEMMA StepMoves ==
    ASSUME TypeOK, NEW r \in Request, Step(r)
    PROVE  /\ \A q \in Request \ {r} : requests'[q] = requests[q]
           /\ requests'[r].op = "remove" => requests'[r].step # "audit"
           /\ requests'[r].op = "assign" /\ requests'[r].step = "choose" => LockSlots(r)
           /\ requests'[r].op = "assign" /\ requests'[r].step = "write" =>
                  ChooseSlot(r) /\ FreeSlots # {} /\ requests'[r].slot = LowestFreeSlot
<1> DEFINE Moved == 
          /\ \A q \in Request \ {r} : requests'[q] = requests[q]
          /\ requests'[r].op = "remove" => requests'[r].step # "audit"
          /\ requests'[r].op = "assign" /\ requests'[r].step = "choose" => LockSlots(r)
          /\ requests'[r].op = "assign" /\ requests'[r].step = "write" =>
                 ChooseSlot(r) /\ FreeSlots # {} /\ requests'[r].slot = LowestFreeSlot
<1> SUFFICES Moved
    OBVIOUS
<1>1. requests[r] \in RequestRow /\ requests \in [Request -> RequestRow]
    BY DEF TypeOK
<1>2. CASE Answer(r)
    BY <1>1, <1>2, IdleIsARow DEF Answer
<1>3. ASSUME NEW step \in Steps, GoOn(r, step), requests[r].op # "remove",
             requests[r].op = "assign" => step \notin {"choose", "write"}
      PROVE  Moved
    BY <1>1, <1>3 DEF GoOn, RequestRow
<1>4. CASE CheckMemberExists(r) /\ ~Answer(r)
    <2>1. PICK step \in {"duplicate", "before", "held", "write"} :
              /\ GoOn(r, step) /\ requests[r].op # "remove"
              /\ requests[r].op = "assign" => step = "duplicate"
        BY <1>4 DEF CheckMemberExists, AfterExists
    <2> QED
        BY <2>1, <1>3 DEF Steps
<1>5. CASE (CheckDuplicate(r) \/ ReadCardBefore(r) \/ FindMember(r) \/ FindForMakeAdmin(r)
              \/ CheckHeld(r)) /\ ~Answer(r)
    BY <1>5, <1>3 DEF CheckDuplicate, ReadCardBefore, FindMember, FindForMakeAdmin, CheckHeld, At, Steps
<1>6. CASE (InsertCard(r) \/ ApplyPatch(r) \/ MakeAdmin(r) \/ GrantCertification(r)
              \/ RevokeCertification(r) \/ RecordPayment(r)) /\ ~Answer(r)
    BY <1>6, <1>3 DEF InsertCard, ApplyPatch, MakeAdmin, GrantCertification, RevokeCertification,
                      RecordPayment, At, Steps
<1>7. CASE LockSlots(r)
    BY <1>1, <1>7 DEF LockSlots, GoOn, At, RequestRow
<1>8. CASE ChooseSlot(r) /\ ~Answer(r)
    BY <1>1, <1>8 DEF ChooseSlot, At, RequestRow
<1>9. CASE UpdateCard(r) /\ ~Answer(r)
    BY <1>1, <1>9 DEF UpdateCard, At, RequestRow
<1>10. CASE (CheckFields(r) \/ CheckOwn(r) \/ CheckNamed(r)) /\ ~Answer(r)
    <2>1. requests[r].op = "remove" /\ requests[r].step \in {"fields", "own", "named"}
        BY <1>10 DEF CheckFields, CheckOwn, CheckNamed, At
    <2>2. \A q \in Request \ {r} : requests'[q] = requests[q]
        BY <1>1, <1>10 DEF CheckFields, CheckOwn, CheckNamed
    <2>3. requests'[r].op = "remove" /\ requests'[r].step \in {"fields", "own", "named", "write"}
        BY <1>1, <1>10, <2>1 DEF CheckFields, CheckOwn, CheckNamed, RequestRow
    <2> QED
        BY <2>2, <2>3
<1> QED
    BY <1>2, <1>4, <1>5, <1>6, <1>7, <1>8, <1>9, <1>10
    DEF Step, RecordAudit, RemoveMember, RecordMemberAndWaiver

\* A request that is received, or dies, is in no transaction and writes no audit row.
LEMMA OtherMoves ==
    ASSUME TypeOK, NEW r \in Request,
           ReceiveAny(r) \/ ReceiveMakeAdmin(r) \/ SignUpEmail(r) \/ RequestDies(r)
    PROVE  /\ \A q \in Request \ {r} : requests'[q] = requests[q]
           /\ requests'[r].op = "remove" => requests'[r].step # "audit"
           /\ requests'[r].op = "assign" => requests'[r].step \notin {"choose", "write"}
           /\ UNCHANGED <<cards, audit>>
<1>1. requests \in [Request -> RequestRow]
    BY DEF TypeOK
<1>2. CASE RequestDies(r)
    BY <1>1, <1>2, IdleIsARow DEF RequestDies, Answer, tables
<1>3. CASE SignUpEmail(r)
    <2>1. PICK m \in Member :
              requests' = [requests EXCEPT ![r] = [Idle EXCEPT !.op = "signup", !.step = "write",
                                                               !.userId = m]]
        BY <1>3 DEF SignUpEmail
    <2> DEFINE row == [Idle EXCEPT !.op = "signup", !.step = "write", !.userId = m]
    <2>2. row.op = "signup" /\ requests' = [requests EXCEPT ![r] = row]
        BY <2>1, IdleIsARow DEF RequestRow
    <2> HIDE DEF row
    <2>3. /\ requests'[r].op = "signup"
          /\ \A q \in Request \ {r} : requests'[q] = requests[q]
        BY <1>1, <2>2
    <2> QED
        BY <1>3, <2>3 DEF SignUpEmail
<1>4. CASE ReceiveAny(r) \/ ReceiveMakeAdmin(r)
    <2>1. Started(r)
        BY <1>4, ReceiveAnyStarts, MakeAdminStarts
    <2> QED
        BY <1>1, <2>1 DEF Started, Receive, tables
<1> QED
    BY <1>2, <1>3, <1>4

(***************************************************************************)
(* Slots are issued once, under the lock.                                  *)
(***************************************************************************)

\* Only an assignment and an update write the cards, and neither takes a row away.
LEMMA CardsStay ==
    ASSUME TypeOK, NEW r \in Request, Step(r)
    PROVE  /\ \A s \in DOMAIN cards : s \in DOMAIN cards' /\ cards'[s].cardNumber = cards[s].cardNumber
           /\ ~InsertCard(r) => DOMAIN cards' = DOMAIN cards
<1>1. CASE InsertCard(r) /\ cards' # cards
    BY <1>1 DEF InsertCard
<1>2. CASE UpdateCard(r)
    BY <1>2, UpdateCardTypes
<1>3. CASE cards' = cards
    BY <1>3
<1> QED
    BY <1>1, <1>2, <1>3
    DEF Step, CheckMemberExists, RecordAudit, CheckDuplicate, LockSlots, ChooseSlot, ReadCardBefore,
        CheckFields, CheckOwn, CheckNamed, RemoveMember, FindMember, ApplyPatch, FindForMakeAdmin,
        MakeAdmin, CheckHeld, GrantCertification, RevokeCertification, RecordPayment,
        RecordMemberAndWaiver, tables

\* A slot and its card number are never taken from a row that has them, however
\* removals, assignments and edits interleave (cards.ts:22-25).
THEOREM SlotsAreIssuedForGood == Spec => IssuedSlotsStay
<1>1. ASSUME TypeOK, [Next]_vars
      PROVE  [\A s \in DOMAIN cards :
                  s \in DOMAIN cards' /\ cards'[s].cardNumber = cards[s].cardNumber]_vars
    <2>1. CASE UNCHANGED vars
        BY <2>1
    <2>2. ASSUME NEW r \in Request, Step(r)
          PROVE  \A s \in DOMAIN cards :
                     s \in DOMAIN cards' /\ cards'[s].cardNumber = cards[s].cardNumber
        BY <1>1, <2>2, CardsStay
    <2>3. ASSUME NEW r \in Request,
                 ReceiveAny(r) \/ ReceiveMakeAdmin(r) \/ SignUpEmail(r) \/ RequestDies(r)
          PROVE  cards' = cards
        BY <1>1, <2>3, OtherMoves
    <2> QED
        BY <1>1, <2>1, <2>2, <2>3 DEF Next
<1> QED
    BY <1>1, MembersTypeCorrect, PTL DEF Spec, IssuedSlotsStay

\* One transaction at a time holds the lock, and what it chose is still the lowest
\* free slot when it inserts.
SlotInv ==
    /\ \A p, q \in Request : HoldsSlotLock(p) /\ HoldsSlotLock(q) => p = q
    /\ ChosenSlotStaysFree

LEMMA SlotInvStep ==
    ASSUME TypeOK, SlotInv, [Next]_vars
    PROVE  SlotInv'
<1>1. requests \in [Request -> RequestRow]
    BY DEF TypeOK
<1>2. CASE UNCHANGED vars
    BY <1>2 DEF vars, tables, SlotInv, ChosenSlotStaysFree, HoldsSlotLock, At, FreeSlots, LowestFreeSlot
<1>3. ASSUME NEW r \in Request,
             ReceiveAny(r) \/ ReceiveMakeAdmin(r) \/ SignUpEmail(r) \/ RequestDies(r)
      PROVE  SlotInv'
    BY <1>3, OtherMoves DEF SlotInv, ChosenSlotStaysFree, HoldsSlotLock, At, FreeSlots, LowestFreeSlot
<1>4. ASSUME NEW r \in Request, InsertCard(r)
      PROVE  SlotInv'
    <2>1. HoldsSlotLock(r) /\ Step(r)
        BY <1>4 DEF InsertCard, HoldsSlotLock, At, Step
    <2>2. ~HoldsSlotLock(r)'
        BY <1>1, <1>4, IdleIsARow DEF InsertCard, HoldsSlotLock, Answer, GoOn, At, RequestRow
    <2>3. \A q \in Request : HoldsSlotLock(q)' => HoldsSlotLock(q) /\ q # r
        BY <2>1, <2>2, StepMoves DEF HoldsSlotLock
    <2>4. \A q \in Request : ~HoldsSlotLock(q)'
        BY <2>1, <2>3 DEF SlotInv
    <2> QED
        BY <2>4 DEF SlotInv, ChosenSlotStaysFree, HoldsSlotLock, At
<1>5. ASSUME NEW r \in Request, Step(r), ~InsertCard(r)
      PROVE  SlotInv'
    <2>1. FreeSlots' = FreeSlots
        BY <1>5, CardsStay DEF FreeSlots
    <2>2. LowestFreeSlot' = LowestFreeSlot
        BY <2>1 DEF LowestFreeSlot
    <2>3. \A q \in Request \ {r} : (HoldsSlotLock(q)' <=> HoldsSlotLock(q)) /\ requests'[q] = requests[q]
        BY <1>5, StepMoves DEF HoldsSlotLock
    <2>4. HoldsSlotLock(r)' => HoldsSlotLock(r) \/ \A q \in Request : ~HoldsSlotLock(q)
        BY <1>5, StepMoves DEF HoldsSlotLock, LockSlots, ChooseSlot, At
    <2>5. At(r, "assign", "write")' => FreeSlots # {} /\ requests'[r].slot = LowestFreeSlot
        BY <1>5, StepMoves DEF At
    <2>6. ChosenSlotStaysFree'
        BY <2>1, <2>2, <2>3, <2>5, LowestFreeSlotIsFree DEF SlotInv, ChosenSlotStaysFree, At
    <2> QED
        BY <2>3, <2>4, <2>6 DEF SlotInv
<1> QED
    BY <1>2, <1>3, <1>4, <1>5 DEF Next

\* The slot an assignment chose is still the lowest free one when its row is
\* inserted, for any number of assignments at once (cards.ts:174-202).
THEOREM NoTwoTakeOneSlot == Spec => []ChosenSlotStaysFree
<1>1. Init => SlotInv
    BY IdleIsARow DEF Init, SlotInv, ChosenSlotStaysFree, HoldsSlotLock, At
<1>2. SlotInv => ChosenSlotStaysFree
    BY DEF SlotInv
<1> QED
    BY <1>1, <1>2, SlotInvStep, MembersTypeCorrect, PTL DEF Spec

(***************************************************************************)
(* Removals.                                                               *)
(***************************************************************************)

\* An id that was once given out is never given out again, so a removal on record
\* stays true.
RemovalInv ==
    /\ RemovalsAudit
    /\ credentials = DOMAIN users
    /\ \A e \in audit : e.action = "remove" => e.targetId \in signedUp \ DOMAIN users

\* What each step writes that a removal on record depends on.
LEMMA RemovalStep ==
    ASSUME TypeOK, RemovalInv, NEW r \in Request, Step(r)
    PROVE  RemovalInv'
<1>1. RemovalsAudit'
    BY StepMoves DEF RemovalInv, RemovalsAudit
<1>2. CASE RecordAudit(r)
    <2>1. /\ UNCHANGED <<users, credentials, signedUp>>
          /\ \A e \in audit' : e \in audit \/ e.action = requests[r].op
        BY <1>2 DEF RecordAudit, tables
    <2>2. requests[r].op # "remove"
        BY <1>2 DEF RecordAudit, RemovalInv, RemovalsAudit
    <2> QED
        BY <1>1, <2>1, <2>2 DEF RemovalInv
<1>3. CASE RemoveMember(r)
    <2> DEFINE m == requests[r].userId
    <2>1. m \in signedUp /\ signedUp' = signedUp
        BY <1>3 DEF RemoveMember, At, TypeOK, ArgumentsOK
    <2>2. CASE UNCHANGED <<users, credentials, audit>>
        BY <1>1, <2>1, <2>2 DEF RemovalInv
    <2>3. CASE DeleteMember(m) /\ audit' = audit \cup {RemovalRow(requests[r])}
        <3>1. /\ DOMAIN users' = DOMAIN users \ {m}
              /\ credentials' = credentials \ {m}
            BY <2>3 DEF DeleteMember
        <3>2. \A e \in audit' : e \in audit \/ e.targetId = m
            BY <2>3 DEF RemovalRow
        <3> QED
            BY <1>1, <2>1, <3>1, <3>2 DEF RemovalInv
    <2> QED
        BY <1>3, <2>2, <2>3 DEF RemoveMember
<1>4. CASE ApplyPatch(r) \/ MakeAdmin(r) \/ RecordMemberAndWaiver(r)
    <2>1. UNCHANGED <<credentials, signedUp, audit>> /\ DOMAIN users' = DOMAIN users
        BY <1>4 DEF ApplyPatch, MakeAdmin, RecordMemberAndWaiver
    <2> QED
        BY <1>1, <2>1 DEF RemovalInv
<1>5. CASE UNCHANGED <<users, credentials, signedUp, audit>>
    BY <1>1, <1>5 DEF RemovalInv
<1> QED
    BY <1>2, <1>3, <1>4, <1>5
    DEF Step, CheckMemberExists, CheckDuplicate, LockSlots, ChooseSlot, InsertCard, ReadCardBefore,
        UpdateCard, CheckFields, CheckOwn, CheckNamed, FindMember, FindForMakeAdmin, CheckHeld,
        GrantCertification, RevokeCertification, RecordPayment, tables

LEMMA RemovalInvStep ==
    ASSUME TypeOK, RemovalInv, [Next]_vars
    PROVE  RemovalInv'
<1>1. CASE UNCHANGED vars
    BY <1>1 DEF vars, tables, RemovalInv, RemovalsAudit
<1>2. ASSUME NEW r \in Request,
             ReceiveAny(r) \/ ReceiveMakeAdmin(r) \/ SignUpEmail(r) \/ RequestDies(r)
      PROVE  RemovalInv'
    <2>1. RemovalsAudit' /\ audit' = audit
        BY <1>2, OtherMoves DEF RemovalInv, RemovalsAudit
    <2>2. CASE SignUpEmail(r)
        BY <2>1, <2>2 DEF SignUpEmail, RemovalInv
    <2>3. CASE UNCHANGED <<users, credentials, signedUp>>
        BY <2>1, <2>3 DEF RemovalInv
    <2>4. CASE ReceiveAny(r) \/ ReceiveMakeAdmin(r)
        <3>1. Started(r)
            BY <2>4, ReceiveAnyStarts, MakeAdminStarts
        <3> QED
            BY <2>3, <3>1 DEF Started, Receive, tables
    <2> QED
        BY <1>2, <2>2, <2>3, <2>4 DEF RequestDies, tables
<1> QED
    BY <1>1, <1>2, RemovalStep DEF Next

\* A removal happens whole or not at all, and one that is on record did happen and
\* is never undone (members.ts:138-143).
THEOREM RemovalsAreWhole == Spec => []RemovalIsAllOrNothing
<1>1. Init => RemovalInv
    BY IdleIsARow DEF Init, RemovalInv, RemovalsAudit
<1>2. RemovalInv => RemovalIsAllOrNothing
    BY DEF RemovalInv, RemovalIsAllOrNothing, Exists
<1> QED
    BY <1>1, <1>2, RemovalInvStep, MembersTypeCorrect, PTL DEF Spec

(***************************************************************************)
(* Holders are on record.                                                  *)
(***************************************************************************)

\* Whoever a request acts for had a member row when it was received.
ActorsOK == \A r \in Request : requests[r].actor \in signedUp \cup {Nobody}

\* No request that was received died, and no member was removed.
Undisturbed == faults = 0 /\ signedUp = DOMAIN users

OnRecord(s) ==
    \E e \in audit : e.slot = s /\ e.targetId = cards[s].userId /\ e.action \in {"assign", "update"}

ToBeRecorded(r, s) ==
    /\ requests[r].step = "audit" /\ requests[r].op \in {"assign", "update"}
    /\ requests[r].slot = s /\ requests[r].userId = cards[s].userId

\* The property itself does not say which route is about to record the holder, nor that
\* the row it will write names an actor who is still there.
HolderInv ==
    /\ ActorsOK
    /\ Undisturbed => \A s \in DOMAIN cards :
           \/ s \in DOMAIN InitialCards /\ cards[s].userId = InitialCards[s].userId
           \/ OnRecord(s)
           \/ \E r \in Request : ToBeRecorded(r, s)

LEMMA StepKeepsActor ==
    ASSUME TypeOK, NEW r \in Request, Step(r)
    PROVE  requests'[r].actor \in {requests[r].actor, Nobody}
<1>1. requests[r] \in RequestRow /\ requests \in [Request -> RequestRow]
    BY DEF TypeOK
<1>2. CASE Answer(r)
    <2>1. Idle.actor = Nobody
        BY DEF Idle
    <2> QED
        BY <1>1, <1>2, <2>1 DEF Answer
<1>3. ASSUME NEW step, GoOn(r, step)
      PROVE  requests'[r].actor = requests[r].actor
    BY <1>1, <1>3 DEF GoOn, RequestRow
<1>4. CASE ChooseSlot(r) /\ ~Answer(r)
    BY <1>1, <1>4 DEF ChooseSlot, RequestRow
<1>5. CASE UpdateCard(r) /\ ~Answer(r)
    BY <1>1, <1>5 DEF UpdateCard, RequestRow
<1>6. CASE (CheckFields(r) \/ CheckOwn(r) \/ CheckNamed(r)) /\ ~Answer(r)
    BY <1>1, <1>6 DEF CheckFields, CheckOwn, CheckNamed, RequestRow
<1> QED
    BY <1>2, <1>3, <1>4, <1>5, <1>6
    DEF Step, CheckMemberExists, RecordAudit, CheckDuplicate, LockSlots, InsertCard, ReadCardBefore,
        RemoveMember, FindMember, ApplyPatch, FindForMakeAdmin, MakeAdmin, CheckHeld,
        GrantCertification, RevokeCertification, RecordPayment, RecordMemberAndWaiver

\* What the routes add to a request's row leaves its actor alone.
LEMMA RowEditsKeepActor ==
    ASSUME NEW row \in RequestRow
    PROVE  /\ \A n : [row EXCEPT !.cardNumber = n].actor = row.actor
           /\ \A s : [row EXCEPT !.slot = s].actor = row.actor
           /\ \A f, on : [row EXCEPT !.field = f, !.on = on].actor = row.actor
           /\ \A s : [row EXCEPT !.slot = s, !.userId = Nobody].actor = row.actor
BY DEF RequestRow

LEMMA ReceivedActor ==
    ASSUME TypeOK, NEW r \in Request, ReceiveAny(r)
    PROVE  requests'[r].actor \in DOMAIN users
<1>1. PICK actor \in Member, m \in Member :
          LET begin(op, step) == [Idle EXCEPT !.op = op, !.step = step, !.actor = actor, !.userId = m]
          IN  /\ Exists(actor)
              /\ \/ \E n \in CardNumber :
                         Receive(r, [begin("assign", "exists") EXCEPT !.cardNumber = n])
                 \/ \E s \in Slot : Receive(r, [begin("update", "exists") EXCEPT !.slot = s])
                 \/ \E s \in Slot :
                         Receive(r, [begin("update", "before") EXCEPT !.slot = s, !.userId = Nobody])
                 \/ Receive(r, begin("remove", "fields"))
                 \/ \E f \in Fields, on \in BOOLEAN :
                         Receive(r, [begin("patch", "find") EXCEPT !.field = f, !.on = on])
                 \/ Receive(r, begin("grant", "exists"))
                 \/ Receive(r, begin("revoke", "write"))
                 \/ Receive(r, begin("pay", "exists"))
    BY DEF ReceiveAny, Allowed
<1> DEFINE begin(op, step) == [Idle EXCEPT !.op = op, !.step = step, !.actor = actor, !.userId = m]
<1>2. \A op \in Ops, step \in Steps : begin(op, step) \in RequestRow /\ begin(op, step).actor = actor
    BY IdleIsARow DEF RequestRow
<1> HIDE DEF begin
<1>3. /\ {"assign", "update", "remove", "patch", "grant", "revoke", "pay"} \subseteq Ops
      /\ {"exists", "before", "fields", "find", "write"} \subseteq Steps
    BY DEF Ops, Steps
<1>4. ASSUME NEW row, Receive(r, row), row.actor = actor
      PROVE  requests'[r].actor = actor
    BY <1>4 DEF Receive, TypeOK
<1>5. PICK op \in Ops, step \in Steps :
          \/ \E n \in CardNumber : Receive(r, [begin(op, step) EXCEPT !.cardNumber = n])
          \/ \E s \in Slot : Receive(r, [begin(op, step) EXCEPT !.slot = s])
          \/ \E s \in Slot : Receive(r, [begin(op, step) EXCEPT !.slot = s, !.userId = Nobody])
          \/ \E f \in Fields, on \in BOOLEAN : Receive(r, [begin(op, step) EXCEPT !.field = f, !.on = on])
          \/ Receive(r, begin(op, step))
    BY <1>1, <1>3 DEF begin
<1>6. begin(op, step) \in RequestRow /\ begin(op, step).actor = actor
    BY <1>2
<1> DEFINE row == begin(op, step)
<1> HIDE DEF row
<1>7. row \in RequestRow /\ row.actor = actor
    BY <1>6 DEF row
<1>8. requests'[r].actor = actor
    <2>1. CASE \E n \in CardNumber : Receive(r, [row EXCEPT !.cardNumber = n])
        <3>1. PICK n \in CardNumber : Receive(r, [row EXCEPT !.cardNumber = n])
            BY <2>1
        <3>2. [row EXCEPT !.cardNumber = n].actor = actor
            BY <1>7, RowEditsKeepActor
        <3> QED
            BY <1>4, <3>1, <3>2
    <2>2. CASE \E s \in Slot : Receive(r, [row EXCEPT !.slot = s])
        <3>1. PICK s \in Slot : Receive(r, [row EXCEPT !.slot = s])
            BY <2>2
        <3>2. [row EXCEPT !.slot = s].actor = actor
            BY <1>7, RowEditsKeepActor
        <3> QED
            BY <1>4, <3>1, <3>2
    <2>3. CASE \E s \in Slot : Receive(r, [row EXCEPT !.slot = s, !.userId = Nobody])
        <3>1. PICK s \in Slot : Receive(r, [row EXCEPT !.slot = s, !.userId = Nobody])
            BY <2>3
        <3>2. [row EXCEPT !.slot = s, !.userId = Nobody].actor = actor
            BY <1>7, RowEditsKeepActor
        <3> QED
            BY <1>4, <3>1, <3>2
    <2>4. CASE \E f \in Fields, on \in BOOLEAN : Receive(r, [row EXCEPT !.field = f, !.on = on])
        <3>1. PICK f \in Fields, on \in BOOLEAN : Receive(r, [row EXCEPT !.field = f, !.on = on])
            BY <2>4
        <3>2. [row EXCEPT !.field = f, !.on = on].actor = actor
            BY <1>7, RowEditsKeepActor
        <3> QED
            BY <1>4, <3>1, <3>2
    <2>5. CASE Receive(r, row)
        BY <1>4, <1>7, <2>5
    <2> QED
        BY <1>5, <2>1, <2>2, <2>3, <2>4, <2>5 DEF row
<1> QED
    BY <1>1, <1>8 DEF Exists

\* Ids that were given out stay so, and a member who is gone stays gone.
LEMMA GoneStaysGone ==
    ASSUME TypeOK, [Next]_vars
    PROVE  signedUp \subseteq signedUp' /\ (DOMAIN users' \cap signedUp) \subseteq DOMAIN users
<1>1. CASE UNCHANGED vars
    BY <1>1 DEF vars, tables
<1>2. ASSUME NEW r \in Request, SignUpEmail(r)
      PROVE  signedUp \subseteq signedUp' /\ (DOMAIN users' \cap signedUp) \subseteq DOMAIN users
    BY <1>2 DEF SignUpEmail
<1>3. ASSUME NEW r \in Request, ReceiveAny(r) \/ ReceiveMakeAdmin(r)
      PROVE  UNCHANGED <<signedUp, users>>
    BY <1>3, ReceiveAnyStarts, MakeAdminStarts DEF Started, Receive, tables
<1>4. ASSUME NEW r \in Request, RequestDies(r)
      PROVE  UNCHANGED <<signedUp, users>>
    BY <1>4 DEF RequestDies, tables
<1>5. ASSUME NEW r \in Request, Step(r)
      PROVE  signedUp' = signedUp /\ DOMAIN users' \subseteq DOMAIN users
    <2>1. CASE ApplyPatch(r) \/ MakeAdmin(r) \/ RecordMemberAndWaiver(r)
        BY <2>1 DEF ApplyPatch, MakeAdmin, RecordMemberAndWaiver
    <2>2. CASE RemoveMember(r)
        BY <2>2 DEF RemoveMember, DeleteMember
    <2>3. CASE UNCHANGED <<users, signedUp>>
        BY <2>3
    <2> QED
        BY <1>5, <2>1, <2>2, <2>3
        DEF Step, CheckMemberExists, RecordAudit, CheckDuplicate, LockSlots, ChooseSlot, InsertCard,
            ReadCardBefore, UpdateCard, CheckFields, CheckOwn, CheckNamed, FindMember,
            FindForMakeAdmin, CheckHeld, GrantCertification, RevokeCertification, RecordPayment, tables
<1> QED
    BY <1>1, <1>2, <1>3, <1>4, <1>5 DEF Next

LEMMA ActorsStay ==
    ASSUME TypeOK, ActorsOK, [Next]_vars
    PROVE  ActorsOK'
<1>1. CASE UNCHANGED vars
    BY <1>1 DEF vars, tables, ActorsOK
<1>2. ASSUME NEW r \in Request,
             requests'[r].actor \in signedUp' \cup {Nobody},
             \A q \in Request \ {r} : requests'[q] = requests[q]
      PROVE  ActorsOK'
    BY <1>2, GoneStaysGone DEF ActorsOK
<1>3. ASSUME NEW r \in Request, Step(r)
      PROVE  ActorsOK'
    BY <1>2, <1>3, StepKeepsActor, StepMoves, GoneStaysGone DEF ActorsOK
<1>4. ASSUME NEW r \in Request, ReceiveAny(r)
      PROVE  ActorsOK'
    BY <1>2, <1>4, ReceivedActor, OtherMoves, GoneStaysGone DEF TypeOK, UsersOK
<1>5. ASSUME NEW r \in Request, ReceiveMakeAdmin(r) \/ SignUpEmail(r) \/ RequestDies(r)
      PROVE  ActorsOK'
    <2>1. requests'[r].actor = Nobody
        <3>1. Idle.actor = Nobody /\ Idle \in RequestRow /\ requests \in [Request -> RequestRow]
            BY IdleIsARow DEF Idle, TypeOK
        <3>2. \A m, op, step : [Idle EXCEPT !.op = op, !.step = step, !.userId = m].actor = Nobody
            BY <3>1 DEF RequestRow
        <3>3. CASE ReceiveMakeAdmin(r)
            <4>1. PICK m \in Member :
                      Receive(r, [Idle EXCEPT !.op = "make-admin", !.step = "find", !.userId = m])
                BY <3>3 DEF ReceiveMakeAdmin
            <4>2. requests'[r] = [Idle EXCEPT !.op = "make-admin", !.step = "find", !.userId = m]
                BY <3>1, <4>1 DEF Receive
            <4> QED
                BY <3>2, <4>2
        <3>4. CASE SignUpEmail(r)
            <4>1. PICK m \in Member \ signedUp :
                      requests' = [requests EXCEPT ![r] = [Idle EXCEPT !.op = "signup", !.step = "write",
                                                                       !.userId = m]]
                BY <3>4 DEF SignUpEmail
            <4>2. requests'[r] = [Idle EXCEPT !.op = "signup", !.step = "write", !.userId = m]
                BY <3>1, <4>1
            <4> QED
                BY <3>2, <4>2
        <3>5. CASE RequestDies(r)
            BY <3>1, <3>5 DEF RequestDies, Answer
        <3> QED
            BY <1>5, <3>3, <3>4, <3>5
    <2> QED
        BY <1>2, <1>5, <2>1, OtherMoves
<1> QED
    BY <1>1, <1>3, <1>4, <1>5 DEF Next

\* What a step that records no holder and changes none leaves as it was.
LEMMA HoldersStay ==
    ASSUME HolderInv, Undisturbed, NEW r \in Request,
           requests[r].step # "audit" \/ requests[r].op \notin {"assign", "update"},
           \A q \in Request \ {r} : requests'[q] = requests[q],
           audit \subseteq audit', NEW s \in DOMAIN cards, cards'[s] = cards[s]
    PROVE  \/ s \in DOMAIN InitialCards /\ cards'[s].userId = InitialCards[s].userId
           \/ OnRecord(s)'
           \/ \E q \in Request : ToBeRecorded(q, s)'
BY DEF HolderInv, OnRecord, ToBeRecorded

LEMMA HolderStep ==
    ASSUME TypeOK, HolderInv, Undisturbed, NEW r \in Request, Step(r), NEW s \in DOMAIN cards'
    PROVE  \/ s \in DOMAIN InitialCards /\ cards'[s].userId = InitialCards[s].userId
           \/ OnRecord(s)'
           \/ \E q \in Request : ToBeRecorded(q, s)'
<1> DEFINE q == requests[r]
<1>1. q \in RequestRow /\ requests \in [Request -> RequestRow]
    BY DEF TypeOK
<1>2. \A p \in Request \ {r} : requests'[p] = requests[p]
    BY StepMoves
<1>3. CASE InsertCard(r) /\ cards' # cards
    <2>1. /\ q.step = "write" /\ q.op = "assign" /\ audit' = audit /\ GoOn(r, "audit")
          /\ cards' = [t \in DOMAIN cards \cup {q.slot} |->
                           IF t = q.slot THEN [cardNumber |-> q.cardNumber, userId |-> q.userId]
                                         ELSE cards[t]]
        BY <1>3 DEF InsertCard, At
    <2>2. CASE s = q.slot
        <3>1. requests'[r].step = "audit" /\ requests'[r].op = "assign"
              /\ requests'[r].slot = q.slot /\ requests'[r].userId = q.userId
            BY <1>1, <2>1 DEF GoOn, RequestRow
        <3>2. cards'[s].userId = q.userId
            BY <2>1, <2>2
        <3> QED
            BY <2>2, <3>1, <3>2 DEF ToBeRecorded
    <2>3. CASE s # q.slot
        BY <1>2, <2>1, <2>3, HoldersStay
    <2> QED
        BY <2>2, <2>3
<1>4. CASE UpdateCard(r) /\ cards' # cards
    <2> DEFINE holder == IF q.userId = Nobody THEN cards[q.slot].userId ELSE q.userId
    <2>1. /\ q.step = "write" /\ q.op = "update" /\ audit' = audit
          /\ cards' = [cards EXCEPT ![q.slot].userId = holder]
          /\ requests' = [requests EXCEPT ![r].step = "audit", ![r].userId = holder]
        BY <1>4 DEF UpdateCard, At
    <2> HIDE DEF holder
    <2>2. s \in DOMAIN cards
        BY <2>1
    <2>3. CASE s = q.slot
        <3>1. requests'[r].step = "audit" /\ requests'[r].op = "update"
              /\ requests'[r].slot = q.slot /\ requests'[r].userId = holder
            BY <1>1, <2>1 DEF RequestRow
        <3>2. cards'[s].userId = holder
            BY <2>1, <2>2, <2>3 DEF TypeOK, CardsOK, CardRow
        <3> QED
            BY <2>3, <3>1, <3>2 DEF ToBeRecorded
    <2>4. CASE s # q.slot
        BY <1>2, <2>1, <2>2, <2>4, HoldersStay
    <2> QED
        BY <2>3, <2>4
<1>5. CASE RecordAudit(r)
    <2> DEFINE row == [actorId |-> q.actor, action |-> q.op, targetId |-> q.userId, slot |-> q.slot]
    <2>1. q.actor \in DOMAIN users \cup {Nobody}
        BY DEF HolderInv, ActorsOK, Undisturbed
    <2>2. audit' = audit \cup {row} /\ UNCHANGED <<cards, users>> /\ q.step = "audit"
        BY <1>5, <2>1 DEF RecordAudit, tables, Exists
    <2>3. CASE ToBeRecorded(r, s)
        <3>1. row \in audit' /\ row.slot = s /\ row.targetId = cards'[s].userId
              /\ row.action \in {"assign", "update"}
            BY <2>2, <2>3 DEF ToBeRecorded
        <3> QED
            BY <3>1 DEF OnRecord
    <2>4. CASE ~ToBeRecorded(r, s)
        BY <1>2, <2>2, <2>4 DEF HolderInv, OnRecord, ToBeRecorded
    <2> QED
        BY <2>3, <2>4
<1>6. CASE UNCHANGED cards /\ q.step # "audit" /\ audit \subseteq audit'
    BY <1>2, <1>6, HoldersStay
<1> QED
    BY <1>3, <1>4, <1>5, <1>6
    DEF Step, CheckMemberExists, CheckDuplicate, LockSlots, ChooseSlot, InsertCard, ReadCardBefore,
        UpdateCard, CheckFields, CheckOwn, CheckNamed, RemoveMember, FindMember, ApplyPatch,
        FindForMakeAdmin, MakeAdmin, CheckHeld, GrantCertification, RevokeCertification,
        RecordPayment, RecordMemberAndWaiver, tables, At

LEMMA HolderInvStep ==
    ASSUME TypeOK, HolderInv, [Next]_vars
    PROVE  HolderInv'
<1>1. ActorsOK'
    BY ActorsStay DEF HolderInv
<1>2. SUFFICES ASSUME Undisturbed', NEW s \in DOMAIN cards'
               PROVE  \/ s \in DOMAIN InitialCards /\ cards'[s].userId = InitialCards[s].userId
                      \/ OnRecord(s)'
                      \/ \E q \in Request : ToBeRecorded(q, s)'
    BY <1>1 DEF HolderInv
<1>3. signedUp = DOMAIN users
    BY <1>2, GoneStaysGone DEF Undisturbed, TypeOK, UsersOK
<1>4. CASE UNCHANGED vars
    BY <1>2, <1>4 DEF vars, tables, bounds, HolderInv, Undisturbed, OnRecord, ToBeRecorded
<1>5. ASSUME NEW r \in Request, RequestDies(r)
      PROVE  FALSE
    BY <1>2, <1>5 DEF RequestDies, Undisturbed, TypeOK
<1>6. ASSUME NEW r \in Request, ReceiveAny(r) \/ ReceiveMakeAdmin(r) \/ SignUpEmail(r)
      PROVE  requests[r] = Idle /\ faults' = faults
    <2>1. CASE SignUpEmail(r)
        BY <2>1 DEF SignUpEmail
    <2>2. CASE ReceiveAny(r) \/ ReceiveMakeAdmin(r)
        BY <2>2, ReceiveAnyStarts, MakeAdminStarts DEF Started, Receive
    <2> QED
        BY <1>6, <2>1, <2>2
<1>7. ASSUME NEW r \in Request, ReceiveAny(r) \/ ReceiveMakeAdmin(r) \/ SignUpEmail(r)
      PROVE  \/ s \in DOMAIN InitialCards /\ cards'[s].userId = InitialCards[s].userId
             \/ OnRecord(s)'
             \/ \E q \in Request : ToBeRecorded(q, s)'
    <2>1. requests[r].step # "audit" /\ Undisturbed
        BY <1>2, <1>3, <1>6, <1>7, IdleIsARow DEF Undisturbed
    <2> QED
        BY <1>2, <1>7, <2>1, OtherMoves, HoldersStay
<1>8. ASSUME NEW r \in Request, Step(r)
      PROVE  Undisturbed
    BY <1>2, <1>3, <1>8
    DEF Undisturbed, Step, CheckMemberExists, RecordAudit, CheckDuplicate, LockSlots, ChooseSlot,
        InsertCard, ReadCardBefore, UpdateCard, CheckFields, CheckOwn, CheckNamed, RemoveMember,
        FindMember, ApplyPatch, FindForMakeAdmin, MakeAdmin, CheckHeld, GrantCertification,
        RevokeCertification, RecordPayment, RecordMemberAndWaiver, bounds
<1> QED
    BY <1>2, <1>4, <1>5, <1>7, <1>8, HolderStep DEF Next

\* "The audit log stands in for a second admin" (cards.ts:143-145): for any number of
\* assignments and edits at once, the audit log names whoever holds a card that was
\* assigned or handed over, or the request that did it is about to write the row, as long
\* as no request died and no member was removed.
THEOREM HoldersAreNamed == Spec => []HoldersAreOnRecord
<1>1. Init => HolderInv
    BY IdleIsARow DEF Init, HolderInv, ActorsOK, Idle
<1>2. TypeOK /\ HolderInv => HoldersAreOnRecord
    <2>1. TypeOK /\ ~Undisturbed => faults > 0 \/ signedUp # DOMAIN users
        BY DEF Undisturbed, TypeOK
    <2> QED
        BY <2>1 DEF HolderInv, HoldersAreOnRecord, OnRecord, ToBeRecorded
<1> QED
    BY <1>1, <1>2, HolderInvStep, MembersTypeCorrect, PTL DEF Spec

(***************************************************************************)
(* The routes implement the card table.                                    *)
(***************************************************************************)

LEMMA PromisedInit == Init => Promised!Init
<1> SUFFICES ASSUME Init PROVE Promised!Init
    OBVIOUS
<1>1. DOMAIN users \subseteq Member
    BY InitTypes DEF TypeOK, UsersOK
<1>2. CardsOK
    BY InitTypes DEF TypeOK
<1> QED
    BY <1>1, <1>2 DEF Promised!Init, Promised!Sound, CardsOK, CardRow, Promised!Card, Slot,
                      Promised!Slots, Exists

\* The insert of an assignment is the table's Issue: the number is in no slot, the slot
\* the lowest free one, the holder a member.
LEMMA InsertIssues ==
    ASSUME TypeOK, SlotInv, NEW r \in Request, InsertCard(r), cards' # cards
    PROVE  Promised!Next
<1> DEFINE q == requests[r]
<1>1. q \in RequestRow
    BY DEF TypeOK
<1>2. /\ q.slot \notin DOMAIN cards /\ Exists(q.userId)
      /\ \A s \in DOMAIN cards : cards[s].cardNumber # q.cardNumber
      /\ cards' = [s \in DOMAIN cards \cup {q.slot} |->
                       IF s = q.slot THEN [cardNumber |-> q.cardNumber, userId |-> q.userId]
                                     ELSE cards[s]]
      /\ users' = users
    BY DEF InsertCard
<1>3. q.slot \in FreeSlots /\ q.slot = LowestFreeSlot
    BY DEF InsertCard, SlotInv, ChosenSlotStaysFree
<1>4. \A s \in FreeSlots : q.slot <= s
    BY <1>3, LowestFreeSlotIsFree
<1>5. Promised!Free = FreeSlots
    BY DEF Promised!Free, FreeSlots
<1>6. Promised!Issue(q.slot, q.cardNumber, q.userId)
    BY <1>2, <1>3, <1>4, <1>5 DEF Promised!Issue, Exists
<1>7. q.slot \in Promised!Slots /\ q.cardNumber \in CardNumber /\ q.userId \in Member
    BY <1>1, <1>2 DEF RequestRow, Slot, Promised!Slots, Exists, TypeOK, UsersOK
<1> QED
    BY <1>6, <1>7 DEF Promised!Next

LEMMA StepKeepsPromise ==
    ASSUME TypeOK, SlotInv, NEW r \in Request, Step(r)
    PROVE  Promised!Next \/ UNCHANGED <<DOMAIN users, cards>>
<1> DEFINE q == requests[r]
<1>1. q \in RequestRow
    BY DEF TypeOK
<1>2. CASE InsertCard(r)
    BY <1>2, InsertIssues DEF InsertCard
<1>3. CASE UpdateCard(r) /\ cards' # cards
    <2> DEFINE holder == IF q.userId = Nobody THEN cards[q.slot].userId ELSE q.userId
    <2>1. /\ Exists(holder) /\ cards' = [cards EXCEPT ![q.slot].userId = holder] /\ users' = users
        BY <1>3 DEF UpdateCard
    <2>2. q.slot \in DOMAIN cards /\ q.slot \in Promised!Slots /\ holder \in Member
        BY <1>1, <1>3, <2>1 DEF UpdateCard, TypeOK, ArgumentsOK, RequestRow, Slot, Promised!Slots,
                                Exists, UsersOK
    <2>3. Promised!HandOver(q.slot, holder)
        BY <2>1, <2>2 DEF Promised!HandOver, Exists
    <2> QED
        BY <2>2, <2>3 DEF Promised!Next
<1>4. CASE RemoveMember(r) /\ users' # users
    <2>1. /\ ~Referenced(q.userId) /\ DeleteMember(q.userId) /\ cards' = cards
        BY <1>4 DEF RemoveMember
    <2>2. Promised!Leave(q.userId)
        BY <2>1 DEF Referenced, DeleteMember, Promised!Leave
    <2>3. q.userId \in Member
        BY <1>4 DEF RemoveMember, At, TypeOK, ArgumentsOK
    <2> QED
        BY <2>2, <2>3 DEF Promised!Next
<1>5. CASE ApplyPatch(r) \/ MakeAdmin(r) \/ RecordMemberAndWaiver(r)
    BY <1>5 DEF ApplyPatch, MakeAdmin, RecordMemberAndWaiver
<1>6. CASE users' = users /\ cards' = cards
    BY <1>6
<1> QED
    BY <1>2, <1>3, <1>4, <1>5, <1>6
    DEF Step, CheckMemberExists, RecordAudit, CheckDuplicate, LockSlots, ChooseSlot, ReadCardBefore,
        UpdateCard, CheckFields, CheckOwn, CheckNamed, RemoveMember, FindMember, FindForMakeAdmin,
        CheckHeld, GrantCertification, RevokeCertification, RecordPayment, tables

LEMMA NextKeepsPromise ==
    ASSUME TypeOK, SlotInv, [Next]_vars
    PROVE  [Promised!Next]_<<DOMAIN users, cards>>
<1>1. CASE UNCHANGED vars
    BY <1>1 DEF vars, tables
<1>2. ASSUME NEW r \in Request, ReceiveAny(r) \/ ReceiveMakeAdmin(r)
      PROVE  UNCHANGED <<DOMAIN users, cards>>
    BY <1>2, ReceiveAnyStarts, MakeAdminStarts DEF Started, Receive, tables
<1>3. ASSUME NEW r \in Request, SignUpEmail(r)
      PROVE  Promised!Next
    BY <1>3 DEF SignUpEmail, Promised!Next, Promised!Join
<1>4. ASSUME NEW r \in Request, RequestDies(r)
      PROVE  UNCHANGED <<DOMAIN users, cards>>
    BY <1>4 DEF RequestDies, tables
<1> QED
    BY <1>1, <1>2, <1>3, <1>4, StepKeepsPromise DEF Next

\* The routes, their statements interleaved in any way, change the card table and the
\* members as SlotTable says: each assignment, edit, removal and sign-up at once or not at
\* all (cards.ts, members.ts, signup.ts).
THEOREM RoutesKeepTheTable == Spec => CardTableAsPromised
<1>1. Init => SlotInv
    BY IdleIsARow DEF Init, SlotInv, ChosenSlotStaysFree, HoldsSlotLock, At
<1> QED
    BY <1>1, PromisedInit, SlotInvStep, NextKeepsPromise, MembersTypeCorrect, PTL
    DEF Spec, CardTableAsPromised, Promised!Spec
=============================================================================
