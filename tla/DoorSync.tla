------------------------------ MODULE DoorSync ------------------------------
(***************************************************************************)
(* The card table's way from the members database to the controller:       *)
(*                                                                         *)
(*   admins --> database --(API: two reads)--> door service --> board      *)
(*                                                                         *)
(* The door service runs one pass at a time on a timer.  A pass asks the   *)
(* API for the card table, which the API answers from two separate reads,  *)
(* reads the board, plans, and carries the plan out one request at a time. *)
(* Admins, the operator at the host, and whoever stands at the board act   *)
(* between any two of those steps; every request can fail, fail after it   *)
(* took effect, or find the service restarted with an empty memory.        *)
(***************************************************************************)
EXTENDS Reconcile, FiniteSets

CONSTANTS
    Member,
    InitialCards,   \* what `cards` may hold when the system starts
    InitialBoards,  \* what the board may hold when the system starts
    Recoveries,     \* how a lost database comes back, see RecoveryKinds
    MaxEdits,       \* bound: admins' edits, and writes made at the board by hand
    MaxOutages,     \* bound: times the database is lost or the API stopped
    MaxFaults       \* bound: failed requests and restarts of the door service

\* "runbook": restored with the API stopped (docs/runbooks/go-back.md, 2);
\* "serving": restored table by table while the API answers;
\* "import": imported in one transaction while the API answers.
RecoveryKinds == {"runbook", "serving", "import"}

CardRow == [slot : 0..CardSlotCount, cardNumber : CardNumber, permissions : Permission,
            userId : Member, active : BOOLEAN]
BoardRow == [slot : 0..(CardSlotCount - 1), cardNumber : CardNumber, permissions : Permission]

ASSUME BoundsAssumption ==
    /\ MaxEdits \in Nat
    /\ MaxOutages \in Nat
    /\ MaxFaults \in Nat
ASSUME RecoveriesAssumption == Recoveries \subseteq RecoveryKinds
ASSUME InitialAssumption ==
    /\ InitialCards \subseteq SUBSET CardRow
    /\ InitialBoards \subseteq SUBSET BoardRow
    /\ \A rows \in InitialCards \cup InitialBoards : \A a, b \in rows :
           a.slot = b.slot => a = b
    /\ \A rows \in InitialBoards : \A row \in rows : Upper[row.cardNumber] = row.cardNumber

VARIABLES
    \* the members database
    cards,         \* the `cards` table
    users,         \* the ids in the `user` table
    cardAccess,    \* those with user.card_access
    backup,        \* what a lost database held, to be put back
    dbPhase,       \* "live", "emptied", or "half": cards back, members not yet
    apiUp,
    \* the door service
    pass,          \* "idle", "cards read", "fetched", "applying"
    table,         \* the card table answer: .cards, then .ownedSlots
    ownedSlots,    \* LoopDependencies.ownedSlots, in memory
    writes, clears, \* what is left of the plan
    \* the controller
    board,
    \* history, read by the properties only
    everIssued,    \* slots the database has ever held a card row for
    meantAtRead,   \* at the running pass's first read: the cards meant to open a door
    handWritten,   \* slots programmed by hand since the running pass read the board
    \* bounds
    edits, outages, faults

dbVars == <<cards, users, cardAccess, backup, dbPhase, apiUp>>
passVars == <<pass, table, ownedSlots, writes, clears>>
passHistory == <<meantAtRead, handWritten>>
historyVars == <<everIssued, passHistory>>
vars == <<dbVars, passVars, board, historyVars, edits, outages, faults>>

NoTable == [cards |-> {}, ownedSlots |-> {}]
NoBackup == [cards |-> {}, users |-> {}, cardAccess |-> {}]

(***************************************************************************)
(* What the API reads.                                                     *)
(***************************************************************************)

\* The columns of a card row that go to the board.
ReconcileCard(c) ==
    [slot |-> c.slot, cardNumber |-> c.cardNumber, permissions |-> c.permissions]

\* A plausible mistake: the card at the unreadable slot is served too.
ReconcilableAtAnySlot(cardRows, memberIds, withAccess) ==
    {ReconcileCard(c) : c \in
        {c \in cardRows : c.active /\ c.userId \in memberIds \cap withAccess}}

\* A plausible mistake: nobody asks whether the member has card access.
ReconcilableOfAnyMember(cardRows, memberIds, withAccess) ==
    {ReconcileCard(c) : c \in
        {c \in cardRows : c.active /\ c.userId \in memberIds /\ c.slot < CardSlotCount}}

\* Active cards of members who have card access, in slots the reader scans.
\* The inner join drops a card whose member row is missing.
ReconcilableCards(cardRows, memberIds, withAccess) ==
    {ReconcileCard(c) : c \in
        {c \in cardRows : /\ c.active
                          /\ c.userId \in memberIds \cap withAccess
                          /\ c.slot < CardSlotCount}}

\* A plausible mistake: a revoked card's slot is not the service's any more.
ActiveSlots(cardRows) == SlotsOf({c \in cardRows : c.active})

\* Every slot a card row exists for, active or not.
IssuedSlots(cardRows) == SlotsOf(cardRows)

\* The cards the lab means to open a door: what the database says, or said
\* before it was lost.  Losing a database is nobody's decision about a card.
MeantCards ==
    LET source == IF dbPhase = "live" THEN [cards |-> cards, cardAccess |-> cardAccess]
                                      ELSE backup
    IN  {ReconcileCard(c) : c \in
            {c \in source.cards : /\ c.active
                                  /\ c.userId \in source.cardAccess
                                  /\ c.slot \in 0..(CardSlotCount - 1)}}

(***************************************************************************)
(* Admins, through the API.  Each needs a member row to be signed in as.   *)
(***************************************************************************)

AdminActs ==
    /\ apiUp
    /\ users # {}
    /\ edits < MaxEdits
    /\ edits' = edits + 1
    /\ UNCHANGED <<users, backup, dbPhase, apiUp, passVars, board, passHistory,
                   outages, faults>>

FreeSlots == {slot \in 0..(CardSlotCount - 1) : slot \notin SlotsOf(cards)}
LowestFreeSlot == CHOOSE slot \in FreeSlots : \A other \in FreeSlots : slot <= other

\* POST /api/cards.  The number must be new, the slot is the lowest free one,
\* picked and inserted under one lock.
AssignCard(member, number, mask) ==
    /\ AdminActs
    /\ member \in users
    /\ mask \in 0..255
    /\ \A c \in cards : c.cardNumber # number
    /\ FreeSlots # {}
    /\ cards' = cards \cup {[slot |-> LowestFreeSlot, cardNumber |-> number,
                             permissions |-> mask, userId |-> member, active |-> TRUE]}
    /\ everIssued' = everIssued \cup {LowestFreeSlot}
    /\ UNCHANGED cardAccess

\* PATCH /api/cards/:id.  Deactivates, reactivates or hands the card on; the
\* slot and the number are not in the request.
UpdateCard(card, member, active) ==
    /\ AdminActs
    /\ card \in cards
    /\ member \in users
    /\ cards' = (cards \ {card}) \cup {[card EXCEPT !.userId = member, !.active = active]}
    /\ UNCHANGED <<cardAccess, everIssued>>

\* PATCH /api/members/:id with cardAccess.
SetCardAccess(member, access) ==
    /\ AdminActs
    /\ member \in users
    /\ cardAccess' = IF access THEN cardAccess \cup {member} ELSE cardAccess \ {member}
    /\ UNCHANGED <<cards, everIssued>>

(***************************************************************************)
(* The operator at the host.                                               *)
(***************************************************************************)

\* The API process going away takes an unanswered request with it.
PassWithoutApi ==
    IF pass = "cards read"
    THEN /\ pass' = "idle"
         /\ table' = NoTable
         /\ meantAtRead' = {}
         /\ UNCHANGED <<ownedSlots, writes, clears, handWritten>>
    ELSE UNCHANGED <<passVars, passHistory>>

\* `make reset` against the wrong stack, or DATABASE_URL pointed somewhere new:
\* the API comes back over a database with no rows at all.
LoseDatabase ==
    /\ dbPhase = "live"
    /\ outages < MaxOutages
    /\ backup' = [cards |-> cards, users |-> users, cardAccess |-> cardAccess]
    /\ cards' = {}
    /\ users' = {}
    /\ cardAccess' = {}
    /\ dbPhase' = "emptied"
    /\ outages' = outages + 1
    /\ PassWithoutApi
    /\ UNCHANGED <<apiUp, board, everIssued, edits, faults>>

StopApi ==
    /\ apiUp
    /\ outages < MaxOutages
    /\ apiUp' = FALSE
    /\ outages' = outages + 1
    /\ PassWithoutApi
    /\ UNCHANGED <<cards, users, cardAccess, backup, dbPhase, board, everIssued, edits, faults>>

\* The runbook starts the API again only after both tables are back.
StartApi ==
    /\ ~apiUp
    /\ dbPhase = "half" => "serving" \in Recoveries
    /\ apiUp' = TRUE
    /\ UNCHANGED <<cards, users, cardAccess, backup, dbPhase, passVars, board, historyVars,
                   edits, outages, faults>>

MayRestore == \/ "runbook" \in Recoveries /\ ~apiUp
              \/ "serving" \in Recoveries

\* pg_restore loads one table per statement, in name order: `cards` is back
\* before `user` is.
RestoreCards ==
    /\ MayRestore
    /\ dbPhase = "emptied"
    /\ cards' = backup.cards
    /\ dbPhase' = "half"
    /\ UNCHANGED <<users, cardAccess, backup, apiUp, passVars, board, historyVars,
                   edits, outages, faults>>

RestoreUsers ==
    /\ MayRestore
    /\ dbPhase = "half"
    /\ users' = backup.users
    /\ cardAccess' = backup.cardAccess
    /\ backup' = NoBackup
    /\ dbPhase' = "live"
    /\ UNCHANGED <<cards, apiUp, passVars, board, historyVars, edits, outages, faults>>

\* tools/import writes every table in one transaction; the runbook leaves the
\* API and the door service running.
ImportDatabase ==
    /\ "import" \in Recoveries
    /\ dbPhase = "emptied"
    /\ cards' = backup.cards
    /\ users' = backup.users
    /\ cardAccess' = backup.cardAccess
    /\ backup' = NoBackup
    /\ dbPhase' = "live"
    /\ UNCHANGED <<apiUp, passVars, board, historyVars, edits, outages, faults>>

(***************************************************************************)
(* The door service's pass (services/door/src/main.ts).                    *)
(***************************************************************************)

UnchangedOutsidePass ==
    UNCHANGED <<dbVars, everIssued, edits, outages>>

\* The timer fires with no pass running, and the API takes its first reading.
FetchCards ==
    /\ pass = "idle"
    /\ apiUp
    /\ pass' = "cards read"
    /\ table' = [NoTable EXCEPT !.cards = ReconcilableCards(cards, users, cardAccess)]
    /\ meantAtRead' = MeantCards
    /\ UnchangedOutsidePass
    /\ UNCHANGED <<ownedSlots, writes, clears, board, handWritten, faults>>

\* The API takes its second reading and answers; the door service accounts for
\* every slot the answer names before it does anything else.
FetchOwnedSlots ==
    /\ pass = "cards read"
    /\ apiUp
    /\ pass' = "fetched"
    /\ table' = [table EXCEPT !.ownedSlots = IssuedSlots(cards)]
    /\ ownedSlots' = ownedSlots \cup {slot \in IssuedSlots(cards) \cup SlotsOf(table.cards) :
                                          IsUsableSlot(slot)}
    /\ UnchangedOutsidePass
    /\ UNCHANGED <<writes, clears, board, passHistory, faults>>

\* The board's table is read and the plan made.
ReadControllerTable ==
    LET plan == PlanReconcile(table.cards, DumpCardTable(board), ownedSlots, table.ownedSlots)
    IN  /\ pass = "fetched"
        /\ pass' = "applying"
        /\ writes' = plan.writes
        /\ clears' = plan.clears
        /\ UnchangedOutsidePass
        /\ UNCHANGED <<table, ownedSlots, board, passHistory, faults>>

LowestSlot(slots) == CHOOSE slot \in slots : \A other \in slots : slot <= other

NextWrite == CHOOSE card \in writes : card.slot = LowestSlot(SlotsOf(writes))

\* A mask that is not a byte is refused before anything is sent.
IsWritable(card) == card.permissions \in 0..255

WriteNextCard ==
    /\ pass = "applying"
    /\ writes # {}
    /\ IsWritable(NextWrite)
    /\ board' = WriteCard(board, NextWrite)
    /\ ownedSlots' = ownedSlots \cup {NextWrite.slot}
    /\ writes' = writes \ {NextWrite}
    /\ UnchangedOutsidePass
    /\ UNCHANGED <<pass, table, clears, passHistory, faults>>

ClearNextCard ==
    /\ pass = "applying"
    /\ writes = {}
    /\ clears # {}
    /\ board' = ClearSlot(board, LowestSlot(clears))
    /\ ownedSlots' = ownedSlots \ {LowestSlot(clears)}
    /\ clears' = clears \ {LowestSlot(clears)}
    /\ UnchangedOutsidePass
    /\ UNCHANGED <<pass, table, writes, passHistory, faults>>

\* What is left of the pass is dropped: nothing of a plan outlives its pass.
EndPass ==
    /\ pass' = "idle"
    /\ table' = NoTable
    /\ writes' = {}
    /\ clears' = {}
    /\ meantAtRead' = {}
    /\ handWritten' = {}
    /\ UnchangedOutsidePass

FinishPass ==
    /\ pass = "applying"
    /\ writes = {}
    /\ clears = {}
    /\ EndPass
    /\ UNCHANGED <<ownedSlots, board, faults>>

\* The adapter throws on a row it will not send, and the pass ends there.
RefuseWrite ==
    /\ pass = "applying"
    /\ writes # {}
    /\ ~IsWritable(NextWrite)
    /\ EndPass
    /\ UNCHANGED <<ownedSlots, board, faults>>

Fault == faults < MaxFaults /\ faults' = faults + 1

\* A request that did not go through: the API or the board did not answer.
RequestFails ==
    /\ Fault
    /\ pass # "idle"
    /\ EndPass
    /\ UNCHANGED <<ownedSlots, board>>

\* The board carried the request out and its answer was lost or came too late.
AnswerLost ==
    /\ Fault
    /\ pass = "applying"
    /\ \/ writes # {} /\ IsWritable(NextWrite) /\ board' = WriteCard(board, NextWrite)
       \/ writes = {} /\ clears # {} /\ board' = ClearSlot(board, LowestSlot(clears))
    /\ EndPass
    /\ UNCHANGED ownedSlots

\* The door service restarts: no pass, and a memory that starts empty.
RestartDoorService ==
    /\ Fault
    /\ EndPass
    /\ ownedSlots' = {}
    /\ UNCHANGED board

\* Somebody at the board, or the application this one replaces, writes a card.
ProgramByHand(row) ==
    /\ edits < MaxEdits
    /\ edits' = edits + 1
    /\ board' = WriteCard(board, row)
    /\ handWritten' = IF pass = "applying" THEN handWritten \cup {row.slot} ELSE handWritten
    /\ UNCHANGED <<dbVars, passVars, everIssued, meantAtRead, outages, faults>>

(***************************************************************************)
(* The specification.                                                      *)
(***************************************************************************)

Init ==
    /\ cards \in InitialCards
    /\ users = Member
    /\ cardAccess = Member
    /\ backup = NoBackup
    /\ dbPhase = "live"
    /\ apiUp = TRUE
    /\ pass = "idle"
    /\ table = NoTable
    /\ ownedSlots = {}
    /\ writes = {}
    /\ clears = {}
    /\ board \in InitialBoards
    /\ everIssued = SlotsOf(cards)
    /\ meantAtRead = {}
    /\ handWritten = {}
    /\ edits = 0
    /\ outages = 0
    /\ faults = 0

Admin ==
    \/ \E m \in Member, n \in CardNumber, p \in Permission : AssignCard(m, n, p)
    \/ \E c \in cards, m \in Member, a \in BOOLEAN : UpdateCard(c, m, a)
    \/ \E m \in Member, a \in BOOLEAN : SetCardAccess(m, a)

Operator ==
    \/ LoseDatabase \/ StopApi \/ StartApi
    \/ RestoreCards \/ RestoreUsers \/ ImportDatabase

DoorService ==
    \/ FetchCards \/ FetchOwnedSlots \/ ReadControllerTable
    \/ WriteNextCard \/ ClearNextCard \/ FinishPass \/ RefuseWrite

Faults == RequestFails \/ AnswerLost \/ RestartDoorService

Next ==
    \/ Admin
    \/ Operator
    \/ DoorService
    \/ Faults
    \/ \E row \in BoardRow : ProgramByHand(row)

Spec == Init /\ [][Next]_vars

\* The timer keeps starting passes and a pass keeps going (startLoop); nothing
\* is assumed of admins, of the operator or of faults.
FairSpec == Spec /\ WF_vars(DoorService)

(***************************************************************************)
(* Properties.                                                             *)
(***************************************************************************)

OnePerSlot(rows) == \A a, b \in rows : a.slot = b.slot => a = b

DatabaseOK ==
    /\ cards \subseteq CardRow
    /\ OnePerSlot(cards)
    /\ users \subseteq Member
    /\ cardAccess \subseteq users
    /\ backup \in [cards : SUBSET CardRow, users : SUBSET Member, cardAccess : SUBSET Member]
    /\ OnePerSlot(backup.cards)
    /\ backup.cardAccess \subseteq backup.users
    /\ dbPhase \in {"live", "emptied", "half"}
    /\ apiUp \in BOOLEAN
PassOK ==
    /\ pass \in {"idle", "cards read", "fetched", "applying"}
    /\ table \in [cards : SUBSET BoardRow, ownedSlots : SUBSET (0..CardSlotCount)]
    /\ OnePerSlot(table.cards)
    /\ ownedSlots \subseteq 0..(CardSlotCount - 1)
    /\ writes \subseteq table.cards
    /\ clears \subseteq 0..(CardSlotCount - 1)
    /\ pass # "applying" => writes = {} /\ clears = {}
BoardOK == board \subseteq BoardRow /\ OnePerSlot(board)
HistoryOK ==
    /\ everIssued \subseteq 0..CardSlotCount
    /\ meantAtRead \subseteq BoardRow
    /\ OnePerSlot(meantAtRead)
    /\ handWritten \subseteq 0..(CardSlotCount - 1)
BoundsOK == edits \in 0..MaxEdits /\ outages \in 0..MaxOutages /\ faults \in 0..MaxFaults

\* Every variable keeps its shape, and the slot stays the key of `cards`, of the
\* answer the door service plans from and of the board.
TypeOK == DatabaseOK /\ PassOK /\ BoardOK /\ HistoryOK /\ BoundsOK

\* The door service never writes to or clears a slot the members database has
\* not held a card row for at some time: somebody else's card survives every
\* restart, torn reading and lost answer ("Nothing clears a slot this service
\* has not accounted for", services/door/README.md).
TouchesOnlyIssuedSlots ==
    [][DoorService \/ Faults =>
           \A slot \in 0..(CardSlotCount - 1) :
               RowsAt(board', slot) # RowsAt(board, slot) => slot \in everIssued]_vars

\* A card comes off the board only if, when the pass asked, the lab did not mean
\* it to open a door: it was revoked, or its member lost access.  Losing the
\* database, restoring it by the runbook, restarting and retrying never take a
\* card away (reconcile.ts:67-79, "physical cards keep opening the door").
OnlyRevokedCardsAreCleared ==
    [][\A slot \in 0..(CardSlotCount - 1) :
           RowsAt(board, slot) # {} /\ RowsAt(board', slot) = {} => slot \notin SlotsOf(meantAtRead)]_vars

\* A pass that has carried out its whole plan has brought the board to what the
\* database says: every slot of which the database still says what it said when
\* the pass asked, and that nobody has programmed by hand meanwhile, shows just
\* the card it is meant to.  Not after an answer that issues no slot at all.
CompletePassAgrees ==
    pass = "applying" /\ writes = {} /\ clears = {} /\ table.ownedSlots # {} =>
        \A slot \in 0..(CardSlotCount - 1) \ handWritten :
            LET meant == RowsAt(MeantCards, slot)
            IN  meant = RowsAt(meantAtRead, slot) =>
                    IF meant # {}
                    THEN RowsAt(board, slot) = {Stored(card) : card \in meant}
                    ELSE slot \in table.ownedSlots => slot \notin SlotsOf(DumpCardTable(board))

\* What the lab is promised about the board (CardBoard): admins decide, a pass
\* asks, and until it ends only what was meant then goes on the board and only
\* issued slots are cleared, with the runbook none that was meant, whatever is
\* lost, restarted or torn in between.
Promised == INSTANCE CardBoard
    WITH meant <- MeantCards, issued <- everIssued, acts <- edits,
         asking <- pass # "idle", asked <- meantAtRead,
         AlwaysTold <- Recoveries \subseteq {"runbook"}

BoardAsPromised == Promised!Spec

\* The slots the database and the board agree on, judged one slot at a time.
InSyncAt(slot) ==
    LET meant == RowsAt(MeantCards, slot)
    IN  IF meant # {}
        THEN RowsAt(board, slot) = {Stored(card) : card \in meant}
        ELSE slot \in SlotsOf(cards) => RowsAt(board, slot) = {}

Settled == apiUp /\ dbPhase = "live" /\ cards # {}

\* Once people stop editing and requests stop failing, every issued slot ends up
\* holding exactly what the database says: a granted card opens the door and a
\* revoked one stops doing so, whatever was lost, restarted or half done before.
Converges ==
    \A slot \in 0..(CardSlotCount - 1) : <>[](Settled => InSyncAt(slot))
=============================================================================
