------------------------------ MODULE Members ------------------------------
(***************************************************************************)
(* The members database behind the API's routes.  A handler is a sequence  *)
(* of statements with the event loop in between, so several requests are   *)
(* somewhere in the middle at once; a statement, and a transaction at its  *)
(* commit, is one step.  Members, cards, certifications, payments and      *)
(* signed releases are kept to what the routes' checks tell apart.         *)
(***************************************************************************)
EXTENDS Naturals

CONSTANTS
    Member,         \* ids of members, those who never signed up yet included
    Nobody,         \* null in a column that names a member
    Request,        \* requests the API works on at one time
    CardNumber,     \* card numbers
    SlotCount,      \* the reader scans slots 0..SlotCount - 1
    Fields,         \* the member fields admins edit, of Field
    InitialUsers,   \* the imported members, as a function to user rows
    InitialCards,   \* the imported cards, as a function from slots
    InitialGrants,  \* the imported certifications
    InitialReleases,\* the imported releases
    MaxRequests,    \* bound: requests
    MaxFaults       \* bound: requests that die

Role == {"admin", "instructor", "accountant"}
Field == Role \cup {"orientation", "memberLevel"}

\* storedCardSlot: the slots the reader scans, and the one beyond that a legacy card sits in.
Slot == 0..SlotCount

UserRow == [roles : SUBSET Role, orientation : BOOLEAN, memberLevel : BOOLEAN,
            orientedById : Member \cup {Nobody}]
CardRow == [cardNumber : CardNumber, userId : Member]
Grant == [userId : Member, grantedById : Member \cup {Nobody}]
Payment == [userId : Member, recordedById : Member]
Release == [userId : Member, recordedById : Member \cup {Nobody}]

ASSUME NobodyAssumption == Nobody \notin Member
ASSUME SlotCountAssumption == SlotCount \in Nat
ASSUME CardNumberAssumption == CardNumber # {}
ASSUME FieldsAssumption == Fields \subseteq Field
ASSUME BoundsAssumption == MaxRequests \in Nat /\ MaxFaults \in Nat
ASSUME InitialAssumption ==
    /\ \E M \in SUBSET Member : InitialUsers \in [M -> UserRow]
    /\ \E S \in SUBSET Slot : InitialCards \in [S -> CardRow]
    /\ \A s, t \in DOMAIN InitialCards :
           InitialCards[s].cardNumber = InitialCards[t].cardNumber => s = t
    /\ \A s \in DOMAIN InitialCards : InitialCards[s].userId \in DOMAIN InitialUsers
    /\ InitialGrants \subseteq Grant
    /\ InitialReleases \subseteq Release

VARIABLES
    users,        \* user
    credentials,  \* the members with rows in account and session
    cards,        \* cards, by slot
    grants,       \* user_certifications, for one tool
    payments,     \* payments
    releases,     \* waivers
    audit,        \* audit_log
    requests,     \* what the API is working on
    signedUp,     \* ids ever given out; read by no guard but the next id's
    received,     \* bound: requests so far
    faults        \* bound: requests that died

tables == <<users, credentials, cards, grants, payments, releases, signedUp>>
bounds == <<received, faults>>
vars == <<tables, audit, requests, bounds>>

Exists(m) == m \in DOMAIN users

\* The keys and foreign keys of tables.ts are kept by the statements below: a
\* statement that would break one fails, and its request answers 500.

(***************************************************************************)
(* Requests.                                                               *)
(***************************************************************************)

Idle == [op |-> "none", step |-> "none", actor |-> Nobody, userId |-> Nobody, slot |-> 0,
         cardNumber |-> CHOOSE n \in CardNumber : TRUE, field |-> "admin", on |-> FALSE, left |-> {}]

\* requireAdmin and its siblings, on the row read for this request.
Allowed(m, role) == Exists(m) /\ m \in credentials /\ users[m].roles \cap {"admin", role} # {}

\* A request that passed its check starts with its first statement.
Receive(r, request) ==
    /\ requests[r] = Idle
    /\ received < MaxRequests
    /\ requests' = [requests EXCEPT ![r] = request]
    /\ received' = received + 1
    /\ UNCHANGED <<tables, audit, faults>>

At(r, op, step) == requests[r].op = op /\ requests[r].step = step

GoOn(r, step) == requests' = [requests EXCEPT ![r].step = step]

\* The request is answered, with what it asked for or with a refusal.
Answer(r) == requests' = [requests EXCEPT ![r] = Idle]

\* The routes and the check each names.
ReceiveAny(r) ==
    \E actor \in Member, m \in Member :
        LET begin(op, step) == [Idle EXCEPT !.op = op, !.step = step, !.actor = actor, !.userId = m]
        IN  \/ /\ Allowed(actor, "admin")
               /\ \/ \E n \in CardNumber :
                         Receive(r, [begin("assign", "exists") EXCEPT !.cardNumber = n])
                  \/ \E s \in Slot : Receive(r, [begin("update", "exists") EXCEPT !.slot = s])
                  \/ \E s \in Slot :
                         Receive(r, [begin("update", "before") EXCEPT !.slot = s, !.userId = Nobody])
                  \/ Receive(r, begin("remove", "fields"))
                  \/ \E f \in Fields, on \in BOOLEAN :
                         Receive(r, [begin("patch", "find") EXCEPT !.field = f, !.on = on])
            \/ /\ Allowed(actor, "instructor")
               /\ \/ Receive(r, begin("grant", "exists"))
                  \/ Receive(r, begin("revoke", "write"))
            \/ Allowed(actor, "accountant") /\ Receive(r, begin("pay", "exists"))

\* What each route that names a member asks next.
AfterExists == [assign |-> "duplicate", update |-> "before", grant |-> "held", pay |-> "write"]

\* memberExists.
CheckMemberExists(r) ==
    LET q == requests[r]
    IN  /\ q.step = "exists" /\ q.op \in DOMAIN AfterExists
        /\ IF Exists(q.userId) THEN GoOn(r, AfterExists[q.op]) ELSE Answer(r)
        /\ UNCHANGED <<tables, audit, bounds>>

\* recordAudit, the last statement of a route that changed something.  Its row
\* names an actor who may be gone by now.
RecordAudit(r) ==
    LET q == requests[r]
    IN  /\ q.step = "audit"
        /\ audit' = IF q.actor = Nobody \/ Exists(q.actor)
                    THEN audit \cup {[actorId |-> q.actor, action |-> q.op, targetId |-> q.userId,
                                      slot |-> q.slot]}
                    ELSE audit
        /\ Answer(r)
        /\ UNCHANGED <<tables, bounds>>

(***************************************************************************)
(* Cards (routes/cards.ts).                                                *)
(***************************************************************************)

CheckDuplicate(r) ==
    /\ At(r, "assign", "duplicate")
    /\ IF \E s \in DOMAIN cards : cards[s].cardNumber = requests[r].cardNumber
       THEN Answer(r)
       ELSE GoOn(r, "lock")
    /\ UNCHANGED <<tables, audit, bounds>>

\* A transaction of assignLowestFreeSlot is open and holds the advisory lock.
HoldsSlotLock(r) == requests[r].op = "assign" /\ requests[r].step \in {"choose", "write"}

\* A plausible mistake: the transaction takes no lock.
LockSlotsOfNobody(r) ==
    /\ At(r, "assign", "lock")
    /\ GoOn(r, "choose")
    /\ UNCHANGED <<tables, audit, bounds>>

LockSlots(r) ==
    /\ At(r, "assign", "lock")
    /\ \A q \in Request : ~HoldsSlotLock(q)
    /\ GoOn(r, "choose")
    /\ UNCHANGED <<tables, audit, bounds>>

FreeSlots == 0..(SlotCount - 1) \ DOMAIN cards

LowestFreeSlot == CHOOSE s \in FreeSlots : \A t \in FreeSlots : s <= t

\* A plausible mistake: a full table leaves the transaction open.
ChooseSlotOrHang(r) ==
    /\ At(r, "assign", "choose")
    /\ FreeSlots # {}
    /\ requests' = [requests EXCEPT ![r].step = "write", ![r].slot = LowestFreeSlot]
    /\ UNCHANGED <<tables, audit, bounds>>

ChooseSlot(r) ==
    /\ At(r, "assign", "choose")
    /\ IF FreeSlots = {}
       THEN Answer(r)
       ELSE requests' = [requests EXCEPT ![r].step = "write", ![r].slot = LowestFreeSlot]
    /\ UNCHANGED <<tables, audit, bounds>>

\* A plausible mistake: nothing but the check before the lock keeps numbers unique.
InsertCardTwice(r) ==
    LET q == requests[r]
    IN  /\ At(r, "assign", "write")
        /\ cards' = [s \in DOMAIN cards \cup {q.slot} |->
                         IF s = q.slot THEN [cardNumber |-> q.cardNumber, userId |-> q.userId]
                                       ELSE cards[s]]
        /\ GoOn(r, "audit")
        /\ UNCHANGED <<users, credentials, grants, payments, releases, signedUp, audit, bounds>>

\* The insert, its constraints, and the commit that gives the lock back.
InsertCard(r) ==
    LET q == requests[r]
    IN  /\ At(r, "assign", "write")
        /\ IF \/ q.slot \in DOMAIN cards
              \/ \E s \in DOMAIN cards : cards[s].cardNumber = q.cardNumber
              \/ ~Exists(q.userId)
           THEN Answer(r) /\ UNCHANGED cards
           ELSE /\ cards' = [s \in DOMAIN cards \cup {q.slot} |->
                                 IF s = q.slot THEN [cardNumber |-> q.cardNumber, userId |-> q.userId]
                                               ELSE cards[s]]
                /\ GoOn(r, "audit")
        /\ UNCHANGED <<users, credentials, grants, payments, releases, signedUp, audit, bounds>>

\* The row as it was, for the audit detail and for a 404.
ReadCardBefore(r) ==
    /\ At(r, "update", "before")
    /\ IF requests[r].slot \in DOMAIN cards THEN GoOn(r, "write") ELSE Answer(r)
    /\ UNCHANGED <<tables, audit, bounds>>

\* A plausible mistake: the audit row is about the holder the row had before.
UpdateCardNamingLoser(r) ==
    LET q == requests[r]
        holder == IF q.userId = Nobody THEN cards[q.slot].userId ELSE q.userId
    IN  /\ At(r, "update", "write")
        /\ IF Exists(holder)
           THEN /\ cards' = [cards EXCEPT ![q.slot].userId = holder]
                /\ requests' = [requests EXCEPT ![r].step = "audit", ![r].userId = cards[q.slot].userId]
           ELSE Answer(r) /\ UNCHANGED cards
        /\ UNCHANGED <<users, credentials, grants, payments, releases, signedUp, audit, bounds>>

\* Reassigns the card, or changes its label or whether it is active, which no
\* check here reads.  The audit row is about the holder the row has afterwards.
UpdateCard(r) ==
    LET q == requests[r]
        holder == IF q.userId = Nobody THEN cards[q.slot].userId ELSE q.userId
    IN  /\ At(r, "update", "write")
        /\ IF Exists(holder)
           THEN /\ cards' = [cards EXCEPT ![q.slot].userId = holder]
                /\ requests' = [requests EXCEPT ![r].step = "audit", ![r].userId = holder]
           ELSE Answer(r) /\ UNCHANGED cards
        /\ UNCHANGED <<users, credentials, grants, payments, releases, signedUp, audit, bounds>>

(***************************************************************************)
(* Removing a member (routes/members.ts).                                  *)
(***************************************************************************)

\* The rows that belong to a member.
OwnRecord(m) == [
    card          |-> \E s \in DOMAIN cards : cards[s].userId = m,
    payment       |-> \E p \in payments : p.userId = m,
    certification |-> \E g \in grants : g.userId = m,
    release       |-> \E w \in releases : w.userId = m,
    history       |-> \E e \in audit : e.actorId = m]

\* The rows that name a member without being about them.
NamedByOthers(m) == [
    orientation   |-> \E o \in DOMAIN users : users[o].orientedById = m,
    certification |-> \E g \in grants : g.grantedById = m,
    payment       |-> \E p \in payments : p.recordedById = m,
    release       |-> \E w \in releases : w.recordedById = m]

Own == {"card", "payment", "certification", "release", "history"}
Named == {"orientation", "certification", "payment", "release"}

NoRoleOrDues(row) == ~row.orientation /\ row.roles = {} /\ ~row.memberLevel

\* The first statement of neverUsed; the rest are sent together, in two rounds.
CheckFields(r) ==
    LET m == requests[r].userId
    IN  /\ At(r, "remove", "fields")
        /\ IF Exists(m) /\ NoRoleOrDues(users[m])
           THEN requests' = [requests EXCEPT ![r].step = "own", ![r].left = Own]
           ELSE Answer(r)
        /\ UNCHANGED <<tables, audit, bounds>>

CheckOwn(r) ==
    /\ At(r, "remove", "own")
    /\ \E c \in requests[r].left :
           IF OwnRecord(requests[r].userId)[c] THEN Answer(r)
           ELSE IF requests[r].left = {c}
           THEN requests' = [requests EXCEPT ![r].step = "named", ![r].left = Named]
           ELSE requests' = [requests EXCEPT ![r].left = @ \ {c}]
    /\ UNCHANGED <<tables, audit, bounds>>

CheckNamed(r) ==
    /\ At(r, "remove", "named")
    /\ \E c \in requests[r].left :
           IF NamedByOthers(requests[r].userId)[c] THEN Answer(r)
           ELSE IF requests[r].left = {c}
           THEN requests' = [requests EXCEPT ![r].step = "write", ![r].left = {}]
           ELSE requests' = [requests EXCEPT ![r].left = @ \ {c}]
    /\ UNCHANGED <<tables, audit, bounds>>

\* A foreign key stops the delete.
Referenced(m) ==
    \/ \E s \in DOMAIN cards : cards[s].userId = m
    \/ \E p \in payments : m \in {p.userId, p.recordedById}
    \/ \E w \in releases : m \in {w.userId, w.recordedById}
    \/ \E g \in grants : g.grantedById = m /\ g.userId # m
    \/ \E e \in audit : e.actorId = m
    \/ \E o \in DOMAIN users \ {m} : users[o].orientedById = m

\* The rows of a member that go when the member's own row goes.
DeleteMember(m) ==
    /\ users' = [o \in DOMAIN users \ {m} |-> users[o]]
    /\ credentials' = credentials \ {m}
    /\ grants' = {g \in grants : g.userId # m}

RemovalRow(q) ==
    [actorId |-> q.actor, action |-> "remove", targetId |-> q.userId, slot |-> 0]

\* A plausible mistake, once made: the three deletes run one after another.
RemoveMemberInSteps(r) ==
    LET q == requests[r]
    IN  /\ At(r, "remove", "write")
        /\ audit' = IF Exists(q.actor) THEN audit \cup {RemovalRow(q)} ELSE audit
        /\ IF Referenced(q.userId)
           THEN credentials' = credentials \ {q.userId} /\ UNCHANGED <<users, grants>>
           ELSE DeleteMember(q.userId)
        /\ Answer(r)
        /\ UNCHANGED <<cards, payments, releases, signedUp, bounds>>

\* A plausible mistake: `cards` cascades from `user` like the other tables.
RemoveMemberWithCards(r) ==
    LET q == requests[r]
    IN  /\ At(r, "remove", "write")
        /\ audit' = audit \cup {RemovalRow(q)}
        /\ DeleteMember(q.userId)
        /\ cards' = [s \in {s \in DOMAIN cards : cards[s].userId # q.userId} |-> cards[s]]
        /\ Answer(r)
        /\ UNCHANGED <<payments, releases, signedUp, bounds>>

\* The transaction: the audit row and the deletes, all of them or none.
RemoveMember(r) ==
    LET q == requests[r]
    IN  /\ At(r, "remove", "write")
        /\ IF Exists(q.actor) /\ ~Referenced(q.userId) /\ q.actor # q.userId
           THEN DeleteMember(q.userId) /\ audit' = audit \cup {RemovalRow(q)}
           ELSE UNCHANGED <<users, credentials, grants, audit>>
        /\ Answer(r)
        /\ UNCHANGED <<cards, payments, releases, signedUp, bounds>>

(***************************************************************************)
(* Editing a member, certifications, payments.                             *)
(***************************************************************************)

FindMember(r) ==
    /\ At(r, "patch", "find")
    /\ IF Exists(requests[r].userId) THEN GoOn(r, "write") ELSE Answer(r)
    /\ UNCHANGED <<tables, audit, bounds>>

Edited(row, q) ==
    CASE q.field \in Role      -> [row EXCEPT !.roles = IF q.on THEN @ \cup {q.field} ELSE @ \ {q.field}]
      [] q.field = "memberLevel" -> [row EXCEPT !.memberLevel = q.on]
      [] q.field = "orientation" -> [row EXCEPT !.orientation = q.on,
                                                !.orientedById = IF q.on THEN q.actor ELSE Nobody]

ApplyPatch(r) ==
    LET q == requests[r]
    IN  /\ At(r, "patch", "write")
        /\ IF Exists(q.userId) /\ (q.field = "orientation" /\ q.on => Exists(q.actor))
           THEN /\ users' = [users EXCEPT ![q.userId] = Edited(@, q)]
                /\ GoOn(r, "audit")
           ELSE Answer(r) /\ UNCHANGED users
        /\ UNCHANGED <<credentials, cards, grants, payments, releases, signedUp, audit, bounds>>

\* Somebody with a shell on the host: no signed in member is behind this one.
ReceiveMakeAdmin(r) ==
    \E m \in Member :
        Receive(r, [Idle EXCEPT !.op = "make-admin", !.step = "find", !.userId = m])

FindForMakeAdmin(r) ==
    /\ At(r, "make-admin", "find")
    /\ IF Exists(requests[r].userId) /\ "admin" \notin users[requests[r].userId].roles
       THEN GoOn(r, "write")
       ELSE Answer(r)
    /\ UNCHANGED <<tables, audit, bounds>>

MakeAdmin(r) ==
    LET m == requests[r].userId
    IN  /\ At(r, "make-admin", "write")
        /\ users' = [o \in DOMAIN users |->
                        IF o = m THEN [users[m] EXCEPT !.roles = @ \cup {"admin"}] ELSE users[o]]
        /\ GoOn(r, "audit")
        /\ UNCHANGED <<credentials, cards, grants, payments, releases, signedUp, audit, bounds>>

CheckHeld(r) ==
    /\ At(r, "grant", "held")
    /\ IF \E g \in grants : g.userId = requests[r].userId THEN Answer(r) ELSE GoOn(r, "write")
    /\ UNCHANGED <<tables, audit, bounds>>

GrantCertification(r) ==
    LET q == requests[r]
    IN  /\ At(r, "grant", "write")
        /\ IF Exists(q.userId) /\ Exists(q.actor)
           THEN /\ grants' = grants \cup {[userId |-> q.userId, grantedById |-> q.actor]}
                /\ GoOn(r, "audit")
           ELSE Answer(r) /\ UNCHANGED grants
        /\ UNCHANGED <<users, credentials, cards, payments, releases, signedUp, audit, bounds>>

RevokeCertification(r) ==
    LET m == requests[r].userId
    IN  /\ At(r, "revoke", "write")
        /\ grants' = {g \in grants : g.userId # m}
        /\ IF grants' = grants THEN Answer(r) ELSE GoOn(r, "audit")
        /\ UNCHANGED <<users, credentials, cards, payments, releases, signedUp, audit, bounds>>

RecordPayment(r) ==
    LET q == requests[r]
    IN  /\ At(r, "pay", "write")
        /\ IF Exists(q.userId) /\ Exists(q.actor)
           THEN /\ payments' = payments \cup {[userId |-> q.userId, recordedById |-> q.actor]}
                /\ GoOn(r, "audit")
           ELSE Answer(r) /\ UNCHANGED payments
        /\ UNCHANGED <<users, credentials, cards, grants, releases, signedUp, audit, bounds>>

(***************************************************************************)
(* Signing up (routes/signup.ts), which nobody has to be signed in for.    *)
(***************************************************************************)

\* better-auth's own transaction: the member, the credential and a session.
SignUpEmail(r) ==
    \E m \in Member \ signedUp :
        /\ requests[r] = Idle
        /\ received < MaxRequests
        /\ users' = [o \in DOMAIN users \cup {m} |->
                         IF o = m THEN [roles |-> {}, orientation |-> FALSE, memberLevel |-> FALSE,
                                        orientedById |-> Nobody]
                                  ELSE users[o]]
        /\ credentials' = credentials \cup {m}
        /\ signedUp' = signedUp \cup {m}
        /\ requests' = [requests EXCEPT ![r] = [Idle EXCEPT !.op = "signup", !.step = "write",
                                                            !.userId = m]]
        /\ received' = received + 1
        /\ UNCHANGED <<cards, grants, payments, releases, audit, faults>>

\* The second transaction: the tier that was chosen and the release.
RecordMemberAndWaiver(r) ==
    LET m == requests[r].userId
    IN  /\ At(r, "signup", "write")
        /\ IF Exists(m)
           THEN /\ \E tier \in BOOLEAN : users' = [users EXCEPT ![m].memberLevel = tier]
                /\ releases' = releases \cup {[userId |-> m, recordedById |-> Nobody]}
           ELSE UNCHANGED <<users, releases>>
        /\ Answer(r)
        /\ UNCHANGED <<credentials, cards, grants, payments, signedUp, audit, bounds>>

\* The API restarts or loses the database in the middle of a request; what it
\* committed stays, an open transaction does not.
RequestDies(r) ==
    /\ requests[r] # Idle
    /\ faults < MaxFaults
    /\ faults' = faults + 1
    /\ Answer(r)
    /\ UNCHANGED <<tables, audit, received>>

(***************************************************************************)
(* The specification.                                                      *)
(***************************************************************************)

Init ==
    /\ users = InitialUsers
    /\ credentials = DOMAIN InitialUsers
    /\ cards = InitialCards
    /\ grants = InitialGrants
    /\ payments = {}
    /\ releases = InitialReleases
    /\ audit = {}
    /\ requests = [r \in Request |-> Idle]
    /\ signedUp = DOMAIN InitialUsers
    /\ received = 0
    /\ faults = 0

\* The next statement of a request.
Step(r) ==
    \/ CheckMemberExists(r) \/ RecordAudit(r)
    \/ CheckDuplicate(r) \/ LockSlots(r) \/ ChooseSlot(r) \/ InsertCard(r)
    \/ ReadCardBefore(r) \/ UpdateCard(r)
    \/ CheckFields(r) \/ CheckOwn(r) \/ CheckNamed(r) \/ RemoveMember(r)
    \/ FindMember(r) \/ ApplyPatch(r)
    \/ FindForMakeAdmin(r) \/ MakeAdmin(r)
    \/ CheckHeld(r) \/ GrantCertification(r) \/ RevokeCertification(r)
    \/ RecordPayment(r) \/ RecordMemberAndWaiver(r)

Next ==
    \E r \in Request :
        Step(r) \/ ReceiveAny(r) \/ ReceiveMakeAdmin(r) \/ SignUpEmail(r) \/ RequestDies(r)

Spec == Init /\ [][Next]_vars

(***************************************************************************)
(* Properties.                                                             *)
(***************************************************************************)

Ops == {"none", "assign", "update", "remove", "patch", "make-admin", "grant", "revoke", "pay", "signup"}
Steps == {"none", "exists", "duplicate", "lock", "choose", "before", "fields", "own", "named",
          "find", "held", "write", "audit"}

RequestRow == [op : Ops, step : Steps, actor : Member \cup {Nobody},
               userId : Member \cup {Nobody}, slot : Slot, cardNumber : CardNumber,
               field : Field, on : BOOLEAN, left : SUBSET (Own \cup Named)]

\* What a request works on: a slot that was found, a member that was found.
ArgumentsOK ==
    \A r \in Request :
        /\ requests[r].op \notin {"none", "update"} => requests[r].userId \in Member
        /\ At(r, "update", "exists") \/ requests[r].step = "audit" => requests[r].userId \in Member
        /\ At(r, "update", "write") => requests[r].slot \in DOMAIN cards
        /\ requests[r].op = "remove" /\ requests[r].step # "fields" => requests[r].userId \in signedUp

UsersOK ==
    /\ users \in [DOMAIN users -> UserRow]
    /\ DOMAIN users \subseteq signedUp /\ signedUp \subseteq Member

AuditRow == [actorId : Member \cup {Nobody}, action : Ops, targetId : Member, slot : Slot]

CardsOK ==
    /\ cards \in [DOMAIN cards -> CardRow]
    /\ DOMAIN cards \subseteq Slot
    /\ \A s, t \in DOMAIN cards : cards[s].cardNumber = cards[t].cardNumber => s = t
    /\ \A s \in DOMAIN cards : Exists(cards[s].userId)

\* The rows of every table and what the constraints of tables.ts promise of cards.
TypeOK ==
    /\ UsersOK
    /\ credentials \subseteq Member
    /\ CardsOK
    /\ grants \subseteq Grant /\ payments \subseteq Payment /\ releases \subseteq Release
    /\ audit \subseteq AuditRow
    /\ requests \in [Request -> RequestRow] /\ ArgumentsOK
    /\ received \in 0..MaxRequests /\ faults \in 0..MaxFaults

\* "Two admins assigning at once cannot both take the same slot" (cards.ts:174-177):
\* whatever else the API is doing, the slot an assignment chose is still free, and
\* still the lowest, when its row is inserted.
ChosenSlotStaysFree ==
    \A r \in Request : At(r, "assign", "write") =>
        requests[r].slot \in FreeSlots /\ requests[r].slot = LowestFreeSlot

\* "Assigned once and never renumbered" (cards.ts:22-25), with the removal of a
\* member racing the assignment of a card to them: a row that was issued a slot
\* keeps it and its number for good.  DoorSync rests on this: a slot whose row is
\* gone is one the door service no longer owns and never clears.
\* CardTableAsPromised implies it.
IssuedSlotsStay ==
    [][\A s \in DOMAIN cards :
           s \in DOMAIN cards' /\ cards'[s].cardNumber = cards[s].cardNumber]_vars

\* "The audit row and the three deletes are one transaction" (members.ts:138-143):
\* nobody who still has a member row loses their credential, no credential outlives
\* its member, and no removal is on record that did not happen.
RemovalIsAllOrNothing ==
    /\ credentials = DOMAIN users
    /\ \A e \in audit : e.action = "remove" => ~Exists(e.targetId)

\* The audit log stands in for a second admin (cards.ts:143-145), so it names
\* whoever a card has been given to: the latest holder is the imported one, is on
\* record, or is about to be.  A request that dies, or whose admin is removed under
\* it, leaves its change unrecorded.
HoldersAreOnRecord ==
    \A s \in DOMAIN cards :
        \/ s \in DOMAIN InitialCards /\ cards[s].userId = InitialCards[s].userId
        \/ \E e \in audit : e.slot = s /\ e.targetId = cards[s].userId /\ e.action \in {"assign", "update"}
        \/ \E r \in Request : /\ requests[r].step = "audit" /\ requests[r].slot = s
                              /\ requests[r].userId = cards[s].userId
        \/ faults > 0
        \/ signedUp # DOMAIN users

\* No request waits for ever: each can go on, or waits for the slot lock of one
\* that can, and that one gives it back however its assignment ends (cards.ts:187).
NoRequestIsStuck ==
    \A r \in Request : requests[r] # Idle =>
        ENABLED Step(r) \/ \E q \in Request : HoldsSlotLock(q) /\ ENABLED Step(q)

\* What the card table promises (SlotTable): whatever other requests, removals and deaths
\* come between the statements of a route, each route changes the table at once and as
\* promised, or not at all (cards.ts, members.ts, tables.ts).
Promised == INSTANCE SlotTable WITH members <- DOMAIN users, table <- cards

CardTableAsPromised == Promised!Spec
=============================================================================
