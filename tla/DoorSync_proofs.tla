-------------------------- MODULE DoorSync_proofs --------------------------
(***************************************************************************)
(* Type correctness and the two safety properties of the card table's way  *)
(* to the board, for every set of members, cards and slots, and for any    *)
(* number of edits, outages and faults.                                    *)
(***************************************************************************)
EXTENDS DoorSync, WellFoundedInduction, TLAPS

(***************************************************************************)
(* Facts about slots and rows.                                             *)
(***************************************************************************)

\* A set of slots has a lowest one, so the CHOOSE in the code's "lowest slot
\* first" always picks an element.
LEMMA LowestExists ==
    ASSUME NEW S \in SUBSET Nat, S # {}
    PROVE  \E x \in S : \A y \in S : x <= y
<1>1. PICK x \in S : \A y \in S : ~ (<<y, x>> \in OpToRel(<, Nat))
    BY NatLessThanWellFounded, WFMin
<1>2. \A y \in S : ~ (y < x)
    BY <1>1 DEF OpToRel
<1>3. QED
    BY <1>2

LEMMA LowestSlotIsOne ==
    ASSUME NEW S \in SUBSET Nat, S # {}
    PROVE  LowestSlot(S) \in S
BY LowestExists DEF LowestSlot

LEMMA NextWriteIsOne ==
    ASSUME writes \subseteq BoardRow, writes # {}
    PROVE  NextWrite \in writes
<1>1. SlotsOf(writes) \in SUBSET Nat /\ SlotsOf(writes) # {}
    BY SlotCountAssumption DEF BoardRow, SlotsOf
<1>2. LowestSlot(SlotsOf(writes)) \in SlotsOf(writes)
    BY <1>1, LowestSlotIsOne
<1>3. QED
    BY <1>2 DEF SlotsOf, NextWrite

LEMMA LowestFreeSlotIsFree ==
    ASSUME FreeSlots # {}
    PROVE  LowestFreeSlot \in FreeSlots
<1>1. FreeSlots \in SUBSET Nat
    BY SlotCountAssumption DEF FreeSlots
<1>2. QED
    BY <1>1, LowestExists DEF LowestFreeSlot

LEMMA StoredRow ==
    ASSUME NEW card \in BoardRow
    PROVE  Stored(card) \in BoardRow /\ Stored(card).slot = card.slot
BY UpperAssumption DEF Stored, BoardRow

\* One row per address stays one row per address, and only the slot written
\* or cleared changes.
LEMMA WriteCardRows ==
    ASSUME NEW rows \in SUBSET BoardRow, NEW card \in BoardRow,
           \A a, b \in rows : a.slot = b.slot => a = b
    PROVE  /\ WriteCard(rows, card) \subseteq BoardRow
           /\ \A a, b \in WriteCard(rows, card) : a.slot = b.slot => a = b
           /\ \A slot : slot # card.slot => RowsAt(WriteCard(rows, card), slot) = RowsAt(rows, slot)
           /\ RowsAt(WriteCard(rows, card), card.slot) # {}
BY StoredRow DEF WriteCard, RowsAt

LEMMA ClearSlotRows ==
    ASSUME NEW rows, NEW slot
    PROVE  /\ ClearSlot(rows, slot) \subseteq rows
           /\ \A other : other # slot => RowsAt(ClearSlot(rows, slot), other) = RowsAt(rows, other)
BY DEF ClearSlot, RowsAt

\* What the API serves: rows the board can hold, one per slot, each of a slot
\* that has a card row.
LEMMA ReconcilableCardsRows ==
    ASSUME NEW cardRows \in SUBSET CardRow, NEW ids, NEW access,
           \A a, b \in cardRows : a.slot = b.slot => a = b
    PROVE  /\ ReconcilableCards(cardRows, ids, access) \subseteq BoardRow
           /\ \A a, b \in ReconcilableCards(cardRows, ids, access) : a.slot = b.slot => a = b
           /\ SlotsOf(ReconcilableCards(cardRows, ids, access)) \subseteq SlotsOf(cardRows)
BY SlotCountAssumption DEF ReconcilableCards, ReconcileCard, CardRow, BoardRow, SlotsOf

\* The cards meant to open a door are rows the board can hold, one per slot, and
\* each was issued, in the database there is or in the one that was lost.
LEMMA MeantCardsRows ==
    ASSUME DatabaseOK
    PROVE  /\ MeantCards \subseteq BoardRow
           /\ OnePerSlot(MeantCards)
           /\ SlotsOf(MeantCards) \subseteq SlotsOf(cards) \cup SlotsOf(backup.cards)
<1> DEFINE source == IF dbPhase = "live" THEN [cards |-> cards, cardAccess |-> cardAccess]
                                         ELSE backup
<1>1. source.cards \subseteq CardRow /\ OnePerSlot(source.cards)
    BY DEF DatabaseOK
<1>2. source.cards = cards \/ source.cards = backup.cards
    OBVIOUS
<1>3. \A meant \in MeantCards : \E c \in source.cards :
          meant = ReconcileCard(c) /\ c.slot \in 0..(CardSlotCount - 1)
    BY DEF MeantCards
<1> HIDE DEF source
<1>4. MeantCards \subseteq BoardRow
    BY <1>1, <1>3 DEF ReconcileCard, CardRow, BoardRow
<1>5. OnePerSlot(MeantCards)
    BY <1>1, <1>3 DEF OnePerSlot, ReconcileCard
<1>6. SlotsOf(MeantCards) \subseteq SlotsOf(source.cards)
    BY <1>3 DEF SlotsOf, ReconcileCard
<1>7. QED
    BY <1>2, <1>4, <1>5, <1>6

\* What a plan may do, of what it is given.
LEMMA PlanRows ==
    ASSUME NEW databaseCards, NEW controllerCards, NEW owned, NEW issued
    PROVE  LET plan == PlanReconcile(databaseCards, controllerCards, owned, issued)
           IN  /\ plan.writes \subseteq databaseCards
               /\ plan.clears \subseteq owned
               /\ issued = {} => plan.clears = {}
               /\ plan.clears \cap SlotsOf(UsableBySlot(databaseCards)) = {}
BY DEF PlanReconcile, ClearsOf, Distrusted, UsableBySlot, SlotsOf

(***************************************************************************)
(* Type correctness.                                                       *)
(***************************************************************************)

LEMMA InitTypeOK == Init => TypeOK
<1> SUFFICES ASSUME Init
             PROVE  TypeOK
    OBVIOUS
<1>1. cards \subseteq CardRow /\ OnePerSlot(cards) /\ board \subseteq BoardRow /\ OnePerSlot(board)
    BY InitialAssumption DEF Init, OnePerSlot
<1>2. SlotsOf(cards) \subseteq 0..CardSlotCount
    BY <1>1 DEF SlotsOf, CardRow
<1>3. QED
    BY <1>1, <1>2, BoundsAssumption
       DEF Init, NoTable, NoBackup, TypeOK, DatabaseOK, PassOK, BoardOK, HistoryOK, BoundsOK,
           OnePerSlot

\* The parts of TypeOK that an action leaves alone with their variables.
LEMMA Frame ==
    ASSUME TypeOK
    PROVE  /\ UNCHANGED dbVars => DatabaseOK'
           /\ UNCHANGED passVars => PassOK'
           /\ UNCHANGED board => BoardOK'
           /\ UNCHANGED historyVars => HistoryOK'
           /\ UNCHANGED <<edits, outages, faults>> => BoundsOK'
<1>1. UNCHANGED dbVars => DatabaseOK'
    BY DEF TypeOK, DatabaseOK, OnePerSlot, dbVars
<1>2. UNCHANGED passVars => PassOK'
    BY DEF TypeOK, PassOK, OnePerSlot, passVars
<1>3. UNCHANGED board => BoardOK'
    BY DEF TypeOK, BoardOK, OnePerSlot
<1>4. UNCHANGED historyVars => HistoryOK'
    BY DEF TypeOK, HistoryOK, OnePerSlot, historyVars, passHistory
<1>5. UNCHANGED <<edits, outages, faults>> => BoundsOK'
    BY DEF TypeOK, BoundsOK
<1>6. QED
    BY <1>1, <1>2, <1>3, <1>4, <1>5

(***************************************************************************)
(* One lemma per group of actions.                                         *)
(***************************************************************************)

LEMMA AdminTypeOK == TypeOK /\ Admin => TypeOK'
<1> SUFFICES ASSUME TypeOK, Admin
             PROVE  TypeOK'
    OBVIOUS
<1>1. AdminActs
    BY DEF Admin, AssignCard, UpdateCard, SetCardAccess
<1>2. PassOK' /\ BoardOK' /\ BoundsOK'
    <2>1. UNCHANGED <<passVars, board>>
        BY <1>1 DEF AdminActs
    <2>2. edits' \in 0..MaxEdits /\ UNCHANGED <<outages, faults>>
        BY <1>1, BoundsAssumption DEF AdminActs, TypeOK, BoundsOK
    <2>3. QED
        BY <2>1, <2>2, Frame DEF BoundsOK, TypeOK
<1>3. /\ UNCHANGED <<users, backup, dbPhase, apiUp, meantAtRead, handWritten>>
    BY <1>1 DEF AdminActs, passHistory
<1>4. ASSUME NEW m \in Member, NEW n \in CardNumber, NEW p \in Permission, AssignCard(m, n, p)
      PROVE  DatabaseOK' /\ HistoryOK'
    <2> DEFINE row == [slot |-> LowestFreeSlot, cardNumber |-> n, permissions |-> p,
                       userId |-> m, active |-> TRUE]
    <2>1. LowestFreeSlot \in 0..(CardSlotCount - 1) /\ LowestFreeSlot \notin SlotsOf(cards)
        BY <1>4, LowestFreeSlotIsFree DEF AssignCard, FreeSlots
    <2>2. LowestFreeSlot \in 0..CardSlotCount
        BY <2>1, SlotCountAssumption
    <2>3. row \in CardRow /\ \A c \in cards : c.slot # row.slot
        BY <2>1, <2>2 DEF CardRow, SlotsOf
    <2>4. cards' = cards \cup {row} /\ everIssued' = everIssued \cup {LowestFreeSlot}
          /\ UNCHANGED cardAccess
        BY <1>4 DEF AssignCard
    <2> HIDE DEF row
    <2>5. DatabaseOK'
        BY <1>3, <2>3, <2>4 DEF TypeOK, DatabaseOK, OnePerSlot
    <2>6. HistoryOK'
        BY <1>3, <2>2, <2>4 DEF TypeOK, HistoryOK, OnePerSlot
    <2>7. QED
        BY <2>5, <2>6
<1>5. ASSUME NEW c \in cards, NEW m \in Member, NEW a \in BOOLEAN, UpdateCard(c, m, a)
      PROVE  DatabaseOK' /\ HistoryOK'
    <2> DEFINE row == [c EXCEPT !.userId = m, !.active = a]
    <2>1. c \in CardRow
        BY DEF TypeOK, DatabaseOK
    <2>2. row \in CardRow /\ row.slot = c.slot
        BY <2>1 DEF CardRow
    <2>3. cards' = (cards \ {c}) \cup {row} /\ UNCHANGED <<cardAccess, everIssued>>
        BY <1>5 DEF UpdateCard
    <2> HIDE DEF row
    <2>4. DatabaseOK'
        BY <1>3, <2>2, <2>3 DEF TypeOK, DatabaseOK, OnePerSlot
    <2>5. HistoryOK'
        BY <1>3, <2>3 DEF TypeOK, HistoryOK, OnePerSlot
    <2>6. QED
        BY <2>4, <2>5
<1>6. ASSUME NEW m \in Member, NEW a \in BOOLEAN, SetCardAccess(m, a)
      PROVE  DatabaseOK' /\ HistoryOK'
    <2>1. cardAccess' \subseteq users /\ UNCHANGED <<cards, everIssued>>
        BY <1>6 DEF SetCardAccess, TypeOK, DatabaseOK
    <2>2. QED
        BY <1>3, <2>1 DEF TypeOK, DatabaseOK, HistoryOK, OnePerSlot
<1>7. QED
    BY <1>2, <1>4, <1>5, <1>6 DEF Admin, TypeOK

\* An unanswered request ends the pass with nothing planned.
LEMMA PassWithoutApiOK ==
    ASSUME TypeOK, PassWithoutApi
    PROVE  PassOK' /\ (everIssued' = everIssued => HistoryOK')
<1>1. CASE pass = "cards read"
    <2>1. /\ pass' = "idle" /\ table' = [cards |-> {}, ownedSlots |-> {}]
          /\ meantAtRead' = {}
          /\ UNCHANGED <<ownedSlots, writes, clears, handWritten>>
        BY <1>1 DEF PassWithoutApi, NoTable
    <2>2. QED
        BY <1>1, <2>1 DEF TypeOK, PassOK, HistoryOK, OnePerSlot
<1>2. CASE pass # "cards read"
    <2>1. UNCHANGED <<passVars, passHistory>>
        BY <1>2 DEF PassWithoutApi
    <2>2. QED
        BY <2>1, Frame DEF historyVars
<1>3. QED
    BY <1>1, <1>2

LEMMA OperatorTypeOK == TypeOK /\ Operator => TypeOK'
<1> SUFFICES ASSUME TypeOK, Operator
             PROVE  TypeOK'
    OBVIOUS
<1>1. UNCHANGED <<board, everIssued, edits, faults>>
    BY DEF Operator, LoseDatabase, StopApi, StartApi, RestoreCards, RestoreUsers, ImportDatabase,
           historyVars
<1>2. BoardOK'
    BY <1>1, Frame
<1>3. BoundsOK'
    BY <1>1, BoundsAssumption
       DEF Operator, LoseDatabase, StopApi, StartApi, RestoreCards, RestoreUsers, ImportDatabase,
           TypeOK, BoundsOK
<1>4. PassOK' /\ HistoryOK'
    <2>1. CASE UNCHANGED <<passVars, historyVars>>
        BY <2>1, Frame
    <2>2. CASE PassWithoutApi
        BY <1>1, <2>2, PassWithoutApiOK
    <2>3. QED
        BY <2>1, <2>2
           DEF Operator, LoseDatabase, StopApi, StartApi, RestoreCards, RestoreUsers,
               ImportDatabase
<1>5. DatabaseOK'
    <2>1. CASE LoseDatabase
        BY <2>1 DEF LoseDatabase, TypeOK, DatabaseOK, OnePerSlot
    <2>2. CASE StopApi \/ StartApi
        BY <2>2 DEF StopApi, StartApi, TypeOK, DatabaseOK, OnePerSlot
    <2>3. CASE RestoreCards
        BY <2>3 DEF RestoreCards, TypeOK, DatabaseOK, OnePerSlot
    <2>4. CASE RestoreUsers
        BY <2>4 DEF RestoreUsers, NoBackup, TypeOK, DatabaseOK, OnePerSlot
    <2>5. CASE ImportDatabase
        BY <2>5 DEF ImportDatabase, NoBackup, TypeOK, DatabaseOK, OnePerSlot
    <2>6. QED
        BY <2>1, <2>2, <2>3, <2>4, <2>5 DEF Operator
<1>6. QED
    BY <1>2, <1>3, <1>4, <1>5 DEF TypeOK

LEMMA FetchTypeOK == TypeOK /\ (FetchCards \/ FetchOwnedSlots \/ ReadControllerTable) => TypeOK'
<1> SUFFICES ASSUME TypeOK, FetchCards \/ FetchOwnedSlots \/ ReadControllerTable
             PROVE  TypeOK'
    OBVIOUS
<1>1. DatabaseOK' /\ BoardOK' /\ BoundsOK'
    <2>1. UNCHANGED <<dbVars, board, edits, outages, faults>>
        BY DEF FetchCards, FetchOwnedSlots, ReadControllerTable, UnchangedOutsidePass
    <2>2. QED
        BY <2>1, Frame
<1>2. everIssued' = everIssued
    BY DEF FetchCards, FetchOwnedSlots, ReadControllerTable, UnchangedOutsidePass
<1>3. CASE FetchCards
    <2> DEFINE answer == ReconcilableCards(cards, users, cardAccess)
    <2>1. answer \subseteq BoardRow /\ OnePerSlot(answer)
        BY ReconcilableCardsRows DEF TypeOK, DatabaseOK, OnePerSlot
    <2>2. /\ table' = [cards |-> answer, ownedSlots |-> {}]
          /\ UNCHANGED <<ownedSlots, writes, clears>>
          /\ pass = "idle" /\ pass' = "cards read"
        BY <1>3 DEF FetchCards, NoTable
    <2> HIDE DEF answer
    <2>3. PassOK'
        BY <2>1, <2>2 DEF TypeOK, PassOK
    <2>4. meantAtRead' = MeantCards /\ handWritten' = handWritten
        BY <1>3 DEF FetchCards
    <2>5. HistoryOK'
        BY <1>2, <2>4, MeantCardsRows DEF TypeOK, HistoryOK, OnePerSlot
    <2>6. QED
        BY <1>1, <2>3, <2>5 DEF TypeOK
<1>4. CASE FetchOwnedSlots
    <2>1. IssuedSlots(cards) \subseteq 0..CardSlotCount
        BY DEF IssuedSlots, SlotsOf, CardRow, TypeOK, DatabaseOK
    <2>2. SlotsOf(table.cards) \subseteq 0..(CardSlotCount - 1)
        BY DEF SlotsOf, BoardRow, TypeOK, PassOK
    <2>3. \A slot \in IssuedSlots(cards) \cup SlotsOf(table.cards) :
              IsUsableSlot(slot) => slot \in 0..(CardSlotCount - 1)
        BY <2>1, <2>2, SlotCountAssumption DEF IsUsableSlot, SlotRefusal
    <2>4. ownedSlots' \subseteq 0..(CardSlotCount - 1)
        BY <1>4, <2>3 DEF FetchOwnedSlots, TypeOK, PassOK
    <2>5. /\ table' = [cards |-> table.cards, ownedSlots |-> IssuedSlots(cards)]
          /\ pass' = "fetched" /\ pass = "cards read"
          /\ UNCHANGED <<writes, clears, passHistory>>
        BY <1>4 DEF FetchOwnedSlots, TypeOK, PassOK
    <2>6. PassOK'
        BY <2>1, <2>4, <2>5 DEF TypeOK, PassOK
    <2>7. QED
        BY <1>1, <1>2, <2>5, <2>6, Frame DEF TypeOK, historyVars
<1>5. CASE ReadControllerTable
    <2> DEFINE plan == PlanReconcile(table.cards, DumpCardTable(board), ownedSlots, table.ownedSlots)
    <2>1. plan.writes \subseteq table.cards /\ plan.clears \subseteq ownedSlots
        BY PlanRows
    <2>2. /\ writes' = plan.writes /\ clears' = plan.clears /\ pass' = "applying"
          /\ UNCHANGED <<table, ownedSlots, passHistory>>
        BY <1>5 DEF ReadControllerTable
    <2> HIDE DEF plan
    <2>3. PassOK'
        BY <2>1, <2>2 DEF TypeOK, PassOK
    <2>4. QED
        BY <1>1, <1>2, <2>2, <2>3, Frame DEF TypeOK, historyVars
<1>6. QED
    BY <1>3, <1>4, <1>5

\* The end of a pass, however it ends, keeps the type whatever it leaves on the
\* board and in the memory.
LEMMA EndPassTypeOK ==
    ASSUME TypeOK, EndPass, ownedSlots' \in {ownedSlots, {}}, BoardOK', BoundsOK'
    PROVE  TypeOK'
<1>1. /\ pass' = "idle" /\ table' = [cards |-> {}, ownedSlots |-> {}]
      /\ writes' = {} /\ clears' = {} /\ meantAtRead' = {} /\ handWritten' = {}
      /\ UNCHANGED dbVars /\ everIssued' = everIssued
    BY DEF EndPass, NoTable, UnchangedOutsidePass
<1>2. DatabaseOK'
    BY <1>1, Frame
<1>3. PassOK'
    BY <1>1 DEF TypeOK, PassOK, OnePerSlot
<1>4. HistoryOK'
    BY <1>1 DEF TypeOK, HistoryOK, OnePerSlot
<1>5. QED
    BY <1>2, <1>3, <1>4 DEF TypeOK

\* A request to the board, whether its answer arrives or not.
LEMMA BoardRequestOK ==
    ASSUME TypeOK
    PROVE  /\ writes # {} => /\ NextWrite \in writes
                             /\ NextWrite \in BoardRow
                             /\ board' = WriteCard(board, NextWrite) => BoardOK'
           /\ board' = ClearSlot(board, LowestSlot(clears)) => BoardOK'
<1>1. writes \subseteq BoardRow /\ board \subseteq BoardRow /\ OnePerSlot(board)
    BY DEF TypeOK, PassOK, BoardOK
<1>2. writes # {} => NextWrite \in writes /\ NextWrite \in BoardRow
    BY <1>1, NextWriteIsOne
<1>3. writes # {} /\ board' = WriteCard(board, NextWrite) => BoardOK'
    BY <1>1, <1>2, WriteCardRows DEF BoardOK, OnePerSlot
<1>4. board' = ClearSlot(board, LowestSlot(clears)) => BoardOK'
    BY <1>1, ClearSlotRows DEF BoardOK, OnePerSlot
<1>5. QED
    BY <1>2, <1>3, <1>4

LEMMA ApplyTypeOK ==
    TypeOK /\ (WriteNextCard \/ ClearNextCard \/ FinishPass \/ RefuseWrite) => TypeOK'
<1> SUFFICES ASSUME TypeOK, WriteNextCard \/ ClearNextCard \/ FinishPass \/ RefuseWrite
             PROVE  TypeOK'
    OBVIOUS
<1>1. DatabaseOK' /\ BoundsOK'
    <2>1. UNCHANGED <<dbVars, edits, outages, faults>>
        BY DEF WriteNextCard, ClearNextCard, FinishPass, RefuseWrite, EndPass,
               UnchangedOutsidePass
    <2>2. QED
        BY <2>1, Frame
<1>2. CASE WriteNextCard
    <2>1. NextWrite \in BoardRow /\ BoardOK'
        BY <1>2, BoardRequestOK DEF WriteNextCard
    <2>2. NextWrite.slot \in 0..(CardSlotCount - 1)
        BY <2>1 DEF BoardRow
    <2>3. /\ pass = "applying" /\ UNCHANGED <<pass, table, clears, historyVars>>
          /\ ownedSlots' = ownedSlots \cup {NextWrite.slot} /\ writes' \subseteq writes
        BY <1>2 DEF WriteNextCard, UnchangedOutsidePass, historyVars
    <2>4. PassOK'
        BY <2>2, <2>3 DEF TypeOK, PassOK
    <2>5. QED
        BY <1>1, <2>1, <2>3, <2>4, Frame DEF TypeOK
<1>3. CASE ClearNextCard
    <2>1. BoardOK'
        BY <1>3, BoardRequestOK DEF ClearNextCard
    <2>2. /\ pass = "applying" /\ UNCHANGED <<pass, table, writes, historyVars>>
          /\ ownedSlots' \subseteq ownedSlots /\ clears' \subseteq clears
        BY <1>3 DEF ClearNextCard, UnchangedOutsidePass, historyVars
    <2>3. PassOK'
        BY <2>2 DEF TypeOK, PassOK
    <2>4. QED
        BY <1>1, <2>1, <2>2, <2>3, Frame DEF TypeOK
<1>4. CASE FinishPass \/ RefuseWrite
    <2>1. EndPass /\ UNCHANGED <<ownedSlots, board>>
        BY <1>4 DEF FinishPass, RefuseWrite
    <2>2. QED
        BY <1>1, <2>1, Frame, EndPassTypeOK
<1>5. QED
    BY <1>2, <1>3, <1>4

LEMMA FaultsTypeOK == TypeOK /\ Faults => TypeOK'
<1> SUFFICES ASSUME TypeOK, Faults
             PROVE  TypeOK'
    OBVIOUS
<1>1. EndPass /\ ownedSlots' \in {ownedSlots, {}} /\ Fault
    BY DEF Faults, RequestFails, AnswerLost, RestartDoorService
<1>2. BoundsOK'
    BY <1>1, BoundsAssumption DEF EndPass, UnchangedOutsidePass, Fault, TypeOK, BoundsOK
<1>3. BoardOK'
    <2>1. CASE UNCHANGED board
        BY <2>1, Frame
    <2>2. CASE AnswerLost
        BY <2>2, BoardRequestOK DEF AnswerLost
    <2>3. QED
        BY <2>1, <2>2 DEF Faults, RequestFails, RestartDoorService
<1>4. QED
    BY <1>1, <1>2, <1>3, EndPassTypeOK

LEMMA ByHandTypeOK == ASSUME TypeOK, NEW row \in BoardRow, ProgramByHand(row) PROVE TypeOK'
<1>1. DatabaseOK' /\ PassOK'
    BY Frame DEF ProgramByHand
<1>2. HistoryOK'
    BY DEF ProgramByHand, BoardRow, TypeOK, HistoryOK, OnePerSlot
<1>3. BoardOK'
    BY WriteCardRows DEF ProgramByHand, TypeOK, BoardOK, OnePerSlot
<1>4. BoundsOK'
    BY BoundsAssumption DEF ProgramByHand, TypeOK, BoundsOK
<1>5. QED
    BY <1>1, <1>2, <1>3, <1>4 DEF TypeOK

\* Every reachable state is well formed: one card row per slot, one board row
\* per address, a plan that stays inside the answer it was made from.
THEOREM TypeCorrect == Spec => []TypeOK
<1>1. TypeOK /\ [Next]_vars => TypeOK'
    <2>1. TypeOK /\ UNCHANGED vars => TypeOK'
        BY Frame DEF TypeOK, vars
    <2>2. QED
        BY <2>1, AdminTypeOK, OperatorTypeOK, FetchTypeOK, ApplyTypeOK, FaultsTypeOK, ByHandTypeOK
           DEF Next, DoorService
<1>2. QED
    BY <1>1, InitTypeOK, PTL DEF Spec

(***************************************************************************)
(* The service touches only slots the database issued.  Everything it      *)
(* takes a slot from -- the answer, its memory, its plan -- holds slots    *)
(* that had a card row once, and `everIssued` never shrinks.               *)
(***************************************************************************)

IssuedInv ==
    /\ SlotsOf(cards) \subseteq everIssued
    /\ SlotsOf(backup.cards) \subseteq everIssued
    /\ SlotsOf(table.cards) \subseteq everIssued
    /\ ownedSlots \subseteq everIssued
    /\ clears \subseteq everIssued

LEMMA InitIssued == Init => IssuedInv
BY DEF Init, IssuedInv, NoTable, NoBackup, SlotsOf

LEMMA NextIssued == TypeOK /\ IssuedInv /\ [Next]_vars => IssuedInv'
<1> SUFFICES ASSUME TypeOK, IssuedInv, [Next]_vars
             PROVE  IssuedInv'
    OBVIOUS
<1>1. ASSUME NEW m \in Member, NEW n \in CardNumber, NEW p \in Permission, AssignCard(m, n, p)
      PROVE  IssuedInv'
    <2> DEFINE row == [slot |-> LowestFreeSlot, cardNumber |-> n, permissions |-> p,
                       userId |-> m, active |-> TRUE]
    <2>0. /\ cards' = cards \cup {row} /\ row.slot = LowestFreeSlot
          /\ everIssued' = everIssued \cup {LowestFreeSlot}
        BY <1>1 DEF AssignCard
    <2> HIDE DEF row
    <2>1. /\ SlotsOf(cards') = SlotsOf(cards) \cup {LowestFreeSlot}
          /\ everIssued' = everIssued \cup {LowestFreeSlot}
        BY <2>0 DEF SlotsOf
    <2>2. UNCHANGED <<backup, table, ownedSlots, clears>>
        BY <1>1 DEF AssignCard, AdminActs, passVars
    <2>3. QED
        BY <2>1, <2>2 DEF IssuedInv
<1>2. ASSUME NEW c \in cards, NEW m \in Member, NEW a \in BOOLEAN, UpdateCard(c, m, a)
      PROVE  IssuedInv'
    <2>1. c \in CardRow
        BY DEF TypeOK, DatabaseOK
    <2>2. [c EXCEPT !.userId = m, !.active = a].slot = c.slot
        BY <2>1 DEF CardRow
    <2>3. SlotsOf(cards') \subseteq SlotsOf(cards)
        BY <1>2, <2>2 DEF UpdateCard, SlotsOf
    <2>4. UNCHANGED <<everIssued, backup, table, ownedSlots, clears>>
        BY <1>2 DEF UpdateCard, AdminActs, passVars
    <2>5. QED
        BY <2>3, <2>4 DEF IssuedInv
<1>3. ASSUME NEW m \in Member, NEW a \in BOOLEAN, SetCardAccess(m, a)
      PROVE  IssuedInv'
    BY <1>3 DEF SetCardAccess, AdminActs, passVars, IssuedInv
<1>4. CASE Operator
    <2>1. everIssued' = everIssued /\ UNCHANGED <<ownedSlots, clears>>
        BY <1>4 DEF Operator, LoseDatabase, StopApi, StartApi, RestoreCards, RestoreUsers,
                    ImportDatabase, PassWithoutApi, passVars, historyVars
    <2>2. SlotsOf(table'.cards) \subseteq everIssued
        <3>1. table' = table \/ table' = [cards |-> {}, ownedSlots |-> {}]
            BY <1>4 DEF Operator, LoseDatabase, StopApi, StartApi, RestoreCards, RestoreUsers,
                        ImportDatabase, PassWithoutApi, passVars, NoTable
        <3>2. QED
            BY <3>1 DEF SlotsOf, IssuedInv
    <2>3. SlotsOf(cards') \subseteq everIssued /\ SlotsOf(backup'.cards) \subseteq everIssued
        BY <1>4 DEF Operator, LoseDatabase, StopApi, StartApi, RestoreCards, RestoreUsers,
                    ImportDatabase, NoBackup, SlotsOf, IssuedInv
    <2>4. QED
        BY <2>1, <2>2, <2>3 DEF IssuedInv
<1>5. CASE FetchCards
    <2>1. SlotsOf(table'.cards) \subseteq SlotsOf(cards)
        BY <1>5, ReconcilableCardsRows DEF FetchCards, NoTable, TypeOK, DatabaseOK, OnePerSlot
    <2>2. UNCHANGED <<everIssued, cards, backup, ownedSlots, clears>>
        BY <1>5 DEF FetchCards, UnchangedOutsidePass, dbVars
    <2>3. QED
        BY <2>1, <2>2 DEF IssuedInv
<1>6. CASE FetchOwnedSlots
    <2>1. table'.cards = table.cards
        BY <1>6 DEF FetchOwnedSlots, TypeOK, PassOK
    <2>2. ownedSlots' \subseteq everIssued
        BY <1>6 DEF FetchOwnedSlots, IssuedSlots, IssuedInv
    <2>3. UNCHANGED <<everIssued, cards, backup, clears>>
        BY <1>6 DEF FetchOwnedSlots, UnchangedOutsidePass, dbVars
    <2>4. QED
        BY <2>1, <2>2, <2>3 DEF IssuedInv
<1>7. CASE ReadControllerTable
    <2>1. clears' \subseteq ownedSlots
        BY <1>7, PlanRows DEF ReadControllerTable
    <2>2. UNCHANGED <<everIssued, cards, backup, table, ownedSlots>>
        BY <1>7 DEF ReadControllerTable, UnchangedOutsidePass, dbVars
    <2>3. QED
        BY <2>1, <2>2 DEF IssuedInv
<1>8. CASE WriteNextCard
    <2>1. NextWrite \in table.cards
        BY <1>8, BoardRequestOK DEF WriteNextCard, TypeOK, PassOK
    <2>2. ownedSlots' \subseteq everIssued
        BY <1>8, <2>1 DEF WriteNextCard, IssuedInv, SlotsOf
    <2>3. UNCHANGED <<everIssued, cards, backup, table, clears>>
        BY <1>8 DEF WriteNextCard, UnchangedOutsidePass, dbVars
    <2>4. QED
        BY <2>2, <2>3 DEF IssuedInv
<1>9. CASE ClearNextCard
    BY <1>9 DEF ClearNextCard, UnchangedOutsidePass, dbVars, IssuedInv
<1>10. CASE FinishPass \/ RefuseWrite \/ Faults
    <2>1. EndPass /\ ownedSlots' \in {ownedSlots, {}}
        BY <1>10 DEF FinishPass, RefuseWrite, Faults, RequestFails, AnswerLost, RestartDoorService
    <2>2. QED
        BY <2>1 DEF EndPass, NoTable, UnchangedOutsidePass, dbVars, IssuedInv, SlotsOf
<1>11. ASSUME NEW row \in BoardRow, ProgramByHand(row) PROVE IssuedInv'
    BY <1>11 DEF ProgramByHand, dbVars, passVars, historyVars, IssuedInv
<1>12. CASE UNCHANGED vars
    BY <1>12 DEF vars, dbVars, passVars, historyVars, IssuedInv
<1>13. QED
    BY <1>1, <1>2, <1>3, <1>4, <1>5, <1>6, <1>7, <1>8, <1>9, <1>10, <1>11, <1>12
       DEF Next, Admin, DoorService

\* The service changes only board slots the database once held a card row for,
\* whatever the interleaving, the faults and the way a lost database came back.
THEOREM OnlyIssuedSlotsTouched == Spec => TouchesOnlyIssuedSlots
<1> DEFINE Touch == DoorService \/ Faults =>
                        \A slot \in 0..(CardSlotCount - 1) :
                            RowsAt(board', slot) # RowsAt(board, slot) => slot \in everIssued
<1>1. TypeOK /\ IssuedInv /\ [Next]_vars => [Touch]_vars
    <2> SUFFICES ASSUME TypeOK, IssuedInv, DoorService \/ Faults,
                        NEW slot \in 0..(CardSlotCount - 1),
                        RowsAt(board', slot) # RowsAt(board, slot)
                 PROVE  slot \in everIssued
        OBVIOUS
    <2>1. \/ writes # {} /\ board' = WriteCard(board, NextWrite)
          \/ clears # {} /\ board' = ClearSlot(board, LowestSlot(clears))
        BY DEF DoorService, Faults, FetchCards, FetchOwnedSlots, ReadControllerTable,
               WriteNextCard, ClearNextCard, FinishPass, RefuseWrite, RequestFails, AnswerLost,
               RestartDoorService
    <2>2. CASE writes # {} /\ board' = WriteCard(board, NextWrite)
        <3>1. NextWrite \in BoardRow /\ NextWrite \in table.cards
            BY <2>2, BoardRequestOK DEF TypeOK, PassOK
        <3>2. slot = NextWrite.slot
            BY <2>2, <3>1, WriteCardRows DEF TypeOK, BoardOK, OnePerSlot
        <3>3. QED
            BY <3>1, <3>2 DEF IssuedInv, SlotsOf
    <2>3. CASE clears # {} /\ board' = ClearSlot(board, LowestSlot(clears))
        <3>0. clears \subseteq 0..(CardSlotCount - 1)
            BY DEF TypeOK, PassOK
        <3>1. clears \in SUBSET Nat
            BY <3>0, SlotCountAssumption
        <3>2. LowestSlot(clears) \in clears
            BY <2>3, <3>1, LowestSlotIsOne
        <3>3. slot = LowestSlot(clears)
            BY <2>3, ClearSlotRows
        <3>4. QED
            BY <3>2, <3>3 DEF IssuedInv
    <2>4. QED
        BY <2>1, <2>2, <2>3
<1>2. Spec => [](TypeOK /\ IssuedInv)
    BY TypeCorrect, InitIssued, NextIssued, PTL DEF Spec
<1>3. QED
    BY <1>1, <1>2, PTL DEF Spec, TouchesOnlyIssuedSlots

(***************************************************************************)
(* What the service was told.  A lost database is nobody's decision: what  *)
(* is meant to open a door outlives it in `backup`, where nobody can edit  *)
(* it, so an answer never names a card that is not meant.                  *)
(***************************************************************************)

LossInv ==
    /\ dbPhase # "live" => users = {}
    /\ dbPhase = "emptied" => cards = {}
    /\ dbPhase = "half" => cards = backup.cards

ToldInv ==
    /\ table.cards \subseteq meantAtRead
    /\ pass = "idle" => meantAtRead = {}
    /\ pass = "fetched" =>
           \A slot \in table.ownedSlots : IsUsableSlot(slot) => slot \in ownedSlots
    /\ \A row \in board : Upper[row.cardNumber] = row.cardNumber

\* Whatever is served is meant, and all that is meant is served while the
\* database is live.
LEMMA ServedIsMeant ==
    ASSUME TypeOK, LossInv
    PROVE  /\ ReconcilableCards(cards, users, cardAccess) \subseteq MeantCards
           /\ dbPhase = "live" =>
                  MeantCards \subseteq ReconcilableCards(cards, users, cardAccess)
<1>1. CASE dbPhase # "live"
    BY <1>1 DEF LossInv, ReconcilableCards
<1>2. CASE dbPhase = "live"
    <2>1. \A c \in cards : c.slot \in 0..(CardSlotCount - 1) <=> c.slot < CardSlotCount
        BY SlotCountAssumption DEF CardRow, TypeOK, DatabaseOK
    <2>2. cardAccess \subseteq users
        BY DEF TypeOK, DatabaseOK
    <2>3. MeantCards = {ReconcileCard(c) : c \in
              {c \in cards : /\ c.active
                             /\ c.userId \in cardAccess
                             /\ c.slot \in 0..(CardSlotCount - 1)}}
        BY <1>2 DEF MeantCards
    <2>4. QED
        BY <1>2, <2>1, <2>2, <2>3 DEF ReconcilableCards
<1>3. QED
    BY <1>1, <1>2

\* Losing a database and getting it back changes nothing of what is meant.
LEMMA OperatorKeepsMeant ==
    ASSUME TypeOK, LossInv, Operator
    PROVE  MeantCards' = MeantCards /\ LossInv'
<1>1. CASE LoseDatabase
    BY <1>1 DEF LoseDatabase, MeantCards, LossInv
<1>2. CASE StopApi \/ StartApi
    BY <1>2 DEF StopApi, StartApi, MeantCards, LossInv
<1>3. CASE RestoreCards
    BY <1>3 DEF RestoreCards, MeantCards, LossInv
<1>4. CASE RestoreUsers
    BY <1>4 DEF RestoreUsers, MeantCards, LossInv
<1>5. CASE ImportDatabase
    BY <1>5 DEF ImportDatabase, MeantCards, LossInv
<1>6. QED
    BY <1>1, <1>2, <1>3, <1>4, <1>5 DEF Operator

LEMMA NextLoss == TypeOK /\ LossInv /\ [Next]_vars => LossInv'
<1> SUFFICES ASSUME TypeOK, LossInv, [Next]_vars
             PROVE  LossInv'
    OBVIOUS
<1>1. CASE Admin
    <2>1. users # {} /\ UNCHANGED <<users, dbPhase, backup>>
        BY <1>1 DEF Admin, AssignCard, UpdateCard, SetCardAccess, AdminActs
    <2>2. QED
        BY <2>1 DEF LossInv
<1>2. CASE Operator
    BY <1>2, OperatorKeepsMeant
<1>3. CASE UNCHANGED dbVars
    BY <1>3 DEF dbVars, LossInv
<1>4. UNCHANGED dbVars \/ Admin \/ Operator
    BY DEF Next, DoorService, FetchCards, FetchOwnedSlots, ReadControllerTable, WriteNextCard,
           ClearNextCard, FinishPass, RefuseWrite, Faults, RequestFails, AnswerLost,
           RestartDoorService, EndPass, UnchangedOutsidePass, ProgramByHand, vars
<1>5. QED
    BY <1>1, <1>2, <1>3, <1>4

\* The five ways the board can change.
LEMMA BoardSteps ==
    ASSUME TypeOK, [Next]_vars
    PROVE  \/ UNCHANGED board
           \/ \E row \in BoardRow : ProgramByHand(row)
           \/ /\ pass = "applying" /\ writes # {} /\ NextWrite \in writes /\ NextWrite \in BoardRow
              /\ board' = WriteCard(board, NextWrite)
              /\ WriteNextCard \/ EndPass
           \/ /\ pass = "applying" /\ writes = {} /\ clears # {} /\ LowestSlot(clears) \in clears
              /\ board' = ClearSlot(board, LowestSlot(clears))
              /\ ClearNextCard \/ EndPass
<1>1. writes # {} => NextWrite \in writes /\ NextWrite \in BoardRow
    BY BoardRequestOK
<1>2. clears # {} => LowestSlot(clears) \in clears
    <2>1. clears \subseteq 0..(CardSlotCount - 1)
        BY DEF TypeOK, PassOK
    <2>2. clears \in SUBSET Nat
        BY <2>1, SlotCountAssumption
    <2>3. QED
        BY <2>2, LowestSlotIsOne
<1>3. CASE Admin \/ Operator
    BY <1>3 DEF Admin, AssignCard, UpdateCard, SetCardAccess, AdminActs, Operator, LoseDatabase,
                StopApi, StartApi, RestoreCards, RestoreUsers, ImportDatabase
<1>4. CASE DoorService
    BY <1>1, <1>2, <1>4 DEF DoorService, FetchCards, FetchOwnedSlots, ReadControllerTable,
                WriteNextCard, ClearNextCard, FinishPass, RefuseWrite
<1>5. CASE Faults
    BY <1>1, <1>2, <1>5 DEF Faults, RequestFails, AnswerLost, RestartDoorService
<1>6. CASE UNCHANGED vars
    BY <1>6 DEF vars
<1>7. QED
    BY <1>3, <1>4, <1>5, <1>6 DEF Next

LEMMA InitTold == Init => LossInv /\ ToldInv
BY InitialAssumption DEF Init, LossInv, ToldInv, NoTable

\* The board keeps tags in its own spelling.
LEMMA BoardSpelling ==
    ASSUME TypeOK, ToldInv, [Next]_vars
    PROVE  \A row \in board' : Upper[row.cardNumber] = row.cardNumber
<1>1. ASSUME NEW card \in BoardRow, board' = WriteCard(board, card)
      PROVE  \A row \in board' : Upper[row.cardNumber] = row.cardNumber
    BY <1>1, UpperAssumption DEF WriteCard, Stored, BoardRow, ToldInv
<1>2. ASSUME NEW slot, board' = ClearSlot(board, slot)
      PROVE  \A row \in board' : Upper[row.cardNumber] = row.cardNumber
    BY <1>2 DEF ClearSlot, ToldInv
<1>3. UNCHANGED board => \A row \in board' : Upper[row.cardNumber] = row.cardNumber
    BY DEF ToldInv
<1>4. QED
    BY <1>1, <1>2, <1>3, BoardSteps DEF ProgramByHand

LEMMA NextTold == TypeOK /\ LossInv /\ ToldInv /\ [Next]_vars => ToldInv'
<1> SUFFICES ASSUME TypeOK, LossInv, ToldInv, [Next]_vars
             PROVE  ToldInv'
    OBVIOUS
<1>0. \A row \in board' : Upper[row.cardNumber] = row.cardNumber
    BY BoardSpelling
<1>1. CASE UNCHANGED <<passVars, meantAtRead>>
    BY <1>0, <1>1 DEF passVars, ToldInv
<1>2. CASE pass' = "idle" /\ table' = NoTable /\ meantAtRead' = {}
    BY <1>0, <1>2 DEF ToldInv, NoTable
<1>3. CASE FetchCards
    <2>1. /\ table'.cards = ReconcilableCards(cards, users, cardAccess)
          /\ meantAtRead' = MeantCards /\ pass' = "cards read"
        BY <1>3 DEF FetchCards, NoTable
    <2>2. QED
        BY <1>0, <2>1, ServedIsMeant DEF ToldInv
<1>4. CASE FetchOwnedSlots
    <2>1. /\ table'.cards = table.cards /\ table'.ownedSlots = IssuedSlots(cards)
          /\ pass' = "fetched" /\ meantAtRead' = meantAtRead
        BY <1>4 DEF FetchOwnedSlots, passHistory, TypeOK, PassOK
    <2>2. \A slot \in IssuedSlots(cards) : IsUsableSlot(slot) => slot \in ownedSlots'
        BY <1>4 DEF FetchOwnedSlots
    <2>3. QED
        BY <1>0, <2>1, <2>2 DEF ToldInv
<1>5. CASE ReadControllerTable \/ WriteNextCard \/ ClearNextCard
    <2>1. pass' = "applying" /\ UNCHANGED <<table, meantAtRead>>
        BY <1>5 DEF ReadControllerTable, WriteNextCard, ClearNextCard, passHistory
    <2>2. QED
        BY <1>0, <2>1 DEF ToldInv
<1>6. CASE Admin
    BY <1>1, <1>6 DEF Admin, AssignCard, UpdateCard, SetCardAccess, AdminActs, passHistory
<1>7. CASE Operator
    BY <1>1, <1>2, <1>7 DEF Operator, LoseDatabase, StopApi, StartApi, RestoreCards, RestoreUsers,
           ImportDatabase, PassWithoutApi, passHistory, historyVars
<1>8. CASE FinishPass \/ RefuseWrite \/ Faults
    BY <1>2, <1>8 DEF FinishPass, RefuseWrite, Faults, RequestFails, AnswerLost,
           RestartDoorService, EndPass
<1>9. ASSUME NEW row \in BoardRow, ProgramByHand(row) PROVE ToldInv'
    BY <1>1, <1>9 DEF ProgramByHand
<1>10. CASE UNCHANGED vars
    BY <1>1, <1>10 DEF vars, historyVars, passHistory
<1>11. QED
    BY <1>3, <1>4, <1>5, <1>6, <1>7, <1>8, <1>9, <1>10 DEF Next, DoorService

(***************************************************************************)
(* What is left of a plan.  While it is carried out, each slot the answer  *)
(* speaks of still has its request to come, or is as the answer says.      *)
(***************************************************************************)

WantedInv == \A card \in table.cards \ writes :
                 card.slot \notin handWritten => RowsAt(board, card.slot) = {Stored(card)}

UnwantedInv == \A slot \in table.ownedSlots :
                   slot \in SlotsOf(table.cards) \cup clears \cup handWritten
                       \/ slot \notin SlotsOf(DumpCardTable(board))

PlanInv ==
    /\ clears \cap SlotsOf(table.cards) = {}
    /\ table.ownedSlots = {} => clears = {}
    /\ pass = "applying" => WantedInv /\ UnwantedInv

\* Nothing the API answered and nothing the board shows is dropped from the
\* plan: each row is usable and the only claim on its slot.
LEMMA RowsAreUsable ==
    ASSUME NEW rows \in SUBSET BoardRow, OnePerSlot(rows)
    PROVE  UsableBySlot(rows) = rows
<1>1. \A row \in rows : IsUsableSlot(row.slot)
    BY SlotCountAssumption DEF BoardRow, IsUsableSlot, SlotRefusal
<1>2. QED
    BY <1>1 DEF UsableBySlot, RowsAt, OnePerSlot

\* The plan, just made.
LEMMA PlanIsWhole ==
    ASSUME TypeOK, ToldInv, ReadControllerTable
    PROVE  PlanInv'
<1> DEFINE held == DumpCardTable(board)
           unwanted == {row \in held : row.slot \notin SlotsOf(table.cards)}
           offTheBoard == ClearsOf(unwanted, ownedSlots)
<1>1. /\ pass = "fetched" /\ pass' = "applying"
      /\ UNCHANGED <<table, ownedSlots, board, passHistory>>
    BY DEF ReadControllerTable
<1>2. held \subseteq board /\ held \subseteq BoardRow /\ OnePerSlot(held)
    BY DEF DumpCardTable, TypeOK, BoardOK, OnePerSlot
<1>3. UsableBySlot(table.cards) = table.cards /\ UsableBySlot(held) = held
    BY <1>2, RowsAreUsable DEF TypeOK, PassOK
<1>4. /\ writes' = {card \in table.cards :
                        ~ \E present \in held :
                              present.slot = card.slot /\ SameCard(present, card)}
      /\ clears' = IF Distrusted(table.ownedSlots, offTheBoard) THEN {} ELSE offTheBoard
    BY <1>3 DEF ReadControllerTable, PlanReconcile
<1>5. clears' \cap SlotsOf(table.cards) = {}
    BY <1>4 DEF ClearsOf, SlotsOf
<1>6. table.ownedSlots = {} => clears' = {}
    BY <1>4 DEF Distrusted
<1>7. ASSUME NEW card \in table.cards, card \notin writes'
      PROVE  RowsAt(board, card.slot) = {Stored(card)}
    <2>1. PICK present \in held : present.slot = card.slot /\ SameCard(present, card)
        BY <1>4, <1>7
    <2>2. present \in BoardRow /\ card \in BoardRow /\ present \in board
        BY <1>2, <2>1 DEF TypeOK, PassOK
    <2>3. present.cardNumber = Upper[card.cardNumber] /\ present.permissions = card.permissions
        BY <2>1, <2>2 DEF ToldInv, SameCard
    <2>4. present = Stored(card)
        BY <2>1, <2>2, <2>3 DEF BoardRow, Stored
    <2>5. RowsAt(board, card.slot) = {present}
        BY <2>1, <2>2 DEF RowsAt, TypeOK, BoardOK, OnePerSlot
    <2>6. QED
        BY <2>4, <2>5
<1>8. ASSUME NEW slot \in table.ownedSlots, slot \in SlotsOf(held),
             slot \notin SlotsOf(table.cards)
      PROVE  slot \in clears'
    <2>1. PICK row \in held : row.slot = slot
        BY <1>8 DEF SlotsOf
    <2>2. IsUsableSlot(slot)
        BY <2>1 DEF DumpCardTable
    <2>3. slot \in ownedSlots
        BY <1>1, <2>2 DEF ToldInv
    <2>4. slot \in offTheBoard
        BY <1>8, <2>1, <2>3 DEF ClearsOf, SlotsOf
    <2>5. QED
        BY <1>4, <2>4 DEF Distrusted
<1> HIDE DEF held
<1>9. WantedInv' /\ UnwantedInv'
    BY <1>1, <1>7, <1>8 DEF WantedInv, UnwantedInv, held, passHistory
<1>10. QED
    BY <1>1, <1>5, <1>6, <1>9 DEF PlanInv

LEMMA NextPlan == TypeOK /\ ToldInv /\ PlanInv /\ [Next]_vars => PlanInv'
<1> SUFFICES ASSUME TypeOK, ToldInv, PlanInv, [Next]_vars
             PROVE  PlanInv'
    OBVIOUS
<1>1. CASE UNCHANGED <<passVars, board, handWritten>>
    BY <1>1 DEF passVars, PlanInv, WantedInv, UnwantedInv
<1>2. CASE pass' # "applying" /\ clears' = {}
    BY <1>2 DEF PlanInv
<1>3. CASE FetchCards \/ FetchOwnedSlots
    BY <1>2, <1>3 DEF FetchCards, FetchOwnedSlots, TypeOK, PassOK
<1>4. CASE ReadControllerTable
    BY <1>4, PlanIsWhole
<1>5. CASE WriteNextCard
    <2>1. NextWrite \in writes /\ NextWrite \in BoardRow /\ NextWrite \in table.cards
        BY <1>5, BoardRequestOK DEF WriteNextCard, TypeOK, PassOK
    <2>2. /\ board' = WriteCard(board, NextWrite) /\ writes' = writes \ {NextWrite}
          /\ pass = "applying" /\ UNCHANGED <<pass, table, clears, handWritten>>
        BY <1>5 DEF WriteNextCard, passHistory
    <2>3. /\ \A slot : slot # NextWrite.slot => RowsAt(board', slot) = RowsAt(board, slot)
          /\ RowsAt(board', NextWrite.slot) = {Stored(NextWrite)}
        BY <2>1, <2>2, WriteCardRows, StoredRow DEF TypeOK, BoardOK, OnePerSlot, WriteCard, RowsAt
    <2>4. WantedInv'
        BY <2>1, <2>2, <2>3 DEF PlanInv, WantedInv, TypeOK, PassOK, OnePerSlot
    <2>5. UnwantedInv'
        <3>1. \A row \in DumpCardTable(board') : row.slot # NextWrite.slot => row \in DumpCardTable(board)
            BY <2>3 DEF DumpCardTable, RowsAt
        <3>2. NextWrite.slot \in SlotsOf(table.cards)
            BY <2>1 DEF SlotsOf
        <3>3. QED
            BY <2>2, <3>1, <3>2 DEF PlanInv, UnwantedInv, SlotsOf
    <2>6. QED
        BY <2>2, <2>4, <2>5 DEF PlanInv
<1>6. CASE ClearNextCard
    <2> DEFINE slot == LowestSlot(clears)
    <2>1. slot \in clears
        BY <1>6, LowestSlotIsOne, SlotCountAssumption DEF ClearNextCard, TypeOK, PassOK
    <2>2. /\ board' = ClearSlot(board, slot) /\ clears' = clears \ {slot}
          /\ pass = "applying" /\ UNCHANGED <<pass, table, writes, handWritten>>
        BY <1>6 DEF ClearNextCard, passHistory
    <2> HIDE DEF slot
    <2>3. /\ \A other : other # slot => RowsAt(board', other) = RowsAt(board, other)
          /\ \A row \in board' : row \in board /\ row.slot # slot
        BY <2>2, ClearSlotRows DEF ClearSlot, RowsAt
    <2>4. WantedInv'
        <3>1. \A card \in table.cards : card.slot # slot
            BY <2>1 DEF PlanInv, SlotsOf
        <3>2. QED
            BY <2>2, <2>3, <3>1 DEF PlanInv, WantedInv
    <2>5. UnwantedInv'
        <3>1. DumpCardTable(board') \subseteq DumpCardTable(board) /\ slot \notin SlotsOf(DumpCardTable(board'))
            BY <2>3 DEF DumpCardTable, SlotsOf
        <3>2. QED
            BY <2>2, <3>1 DEF PlanInv, UnwantedInv, SlotsOf
    <2>6. QED
        BY <2>2, <2>4, <2>5 DEF PlanInv
<1>7. CASE FinishPass \/ RefuseWrite \/ Faults
    BY <1>2, <1>7 DEF FinishPass, RefuseWrite, Faults, RequestFails, AnswerLost,
           RestartDoorService, EndPass
<1>8. CASE Admin
    BY <1>1, <1>8 DEF Admin, AssignCard, UpdateCard, SetCardAccess, AdminActs, passHistory
<1>9. CASE Operator
    <2>1. CASE UNCHANGED <<passVars, board, handWritten>>
        BY <1>1, <2>1
    <2>2. CASE pass = "cards read" /\ PassWithoutApi
        BY <1>2, <2>2 DEF PassWithoutApi, TypeOK, PassOK
    <2>3. QED
        BY <1>9, <2>1, <2>2 DEF Operator, LoseDatabase, StopApi, StartApi, RestoreCards,
               RestoreUsers, ImportDatabase, PassWithoutApi, passHistory, historyVars
<1>10. ASSUME NEW row \in BoardRow, ProgramByHand(row) PROVE PlanInv'
    <2>1. UNCHANGED passVars /\ board' = WriteCard(board, row)
        BY <1>10 DEF ProgramByHand
    <2>2. \A slot : slot # row.slot => RowsAt(board', slot) = RowsAt(board, slot)
        BY <2>1, WriteCardRows DEF TypeOK, BoardOK, OnePerSlot
    <2>3. CASE pass # "applying"
        BY <1>2, <2>1, <2>3 DEF passVars, TypeOK, PassOK
    <2>4. CASE pass = "applying"
        <3>1. handWritten' = handWritten \cup {row.slot}
            BY <1>10, <2>4 DEF ProgramByHand
        <3>2. WantedInv'
            BY <2>1, <2>2, <2>4, <3>1 DEF passVars, PlanInv, WantedInv
        <3>3. \A seen \in DumpCardTable(board') : seen.slot # row.slot => seen \in DumpCardTable(board)
            BY <2>2 DEF DumpCardTable, RowsAt
        <3>4. UnwantedInv'
            BY <2>1, <2>4, <3>1, <3>3 DEF passVars, PlanInv, UnwantedInv, SlotsOf
        <3>5. QED
            BY <2>1, <3>2, <3>4 DEF passVars, PlanInv
    <2>5. QED
        BY <2>3, <2>4
<1>11. CASE UNCHANGED vars
    BY <1>1, <1>11 DEF vars, historyVars, passHistory
<1>12. QED
    BY <1>3, <1>4, <1>5, <1>6, <1>7, <1>8, <1>9, <1>10, <1>11 DEF Next, DoorService

(***************************************************************************)
(* What the service was told, if a lost database is put back the way the   *)
(* runbook says: with the API stopped.  A pass has read the table either   *)
(* from a live database, whose answer names every card meant to open a     *)
(* door, or from an emptied one, whose answer issues no slot and is not    *)
(* believed.  A half restored table is never read.                         *)
(***************************************************************************)

RunbookInv ==
    /\ dbPhase = "half" => ~apiUp
    /\ pass = "cards read" =>
           /\ apiUp
           /\ \/ dbPhase = "live" /\ meantAtRead = table.cards
              \/ dbPhase = "emptied"
    /\ pass \in {"fetched", "applying"} => table.ownedSlots = {} \/ meantAtRead = table.cards

LEMMA InitRunbook == Init => RunbookInv
BY DEF Init, RunbookInv

LEMMA NextRunbook ==
    ASSUME Recoveries \subseteq {"runbook"}, TypeOK, LossInv, ToldInv, RunbookInv, [Next]_vars
    PROVE  RunbookInv'
<1>1. CASE Admin
    <2>1. UNCHANGED <<dbPhase, apiUp, pass, table, meantAtRead>>
        BY <1>1 DEF Admin, AssignCard, UpdateCard, SetCardAccess, AdminActs, passVars, passHistory
    <2>2. QED
        BY <2>1 DEF RunbookInv
<1>2. CASE LoseDatabase \/ StopApi
    <2>1. \/ pass' = "idle"
          \/ pass # "cards read" /\ UNCHANGED <<pass, table, meantAtRead>>
        BY <1>2 DEF LoseDatabase, StopApi, PassWithoutApi, passVars, passHistory
    <2>2. dbPhase' = "half" => ~apiUp'
        BY <1>2 DEF LoseDatabase, StopApi, RunbookInv
    <2>3. QED
        BY <2>1, <2>2 DEF RunbookInv
<1>3. CASE StartApi
    BY <1>3 DEF StartApi, passVars, historyVars, passHistory, RunbookInv
<1>4. CASE RestoreCards \/ RestoreUsers
    <2>1. ~apiUp /\ UNCHANGED <<apiUp, pass, table, meantAtRead>>
        BY <1>4 DEF RestoreCards, RestoreUsers, MayRestore, passVars, historyVars, passHistory
    <2>2. QED
        BY <2>1 DEF RunbookInv
<1>5. CASE ImportDatabase
    BY <1>5 DEF ImportDatabase
<1>6. CASE FetchCards
    <2>1. /\ apiUp /\ pass' = "cards read" /\ UNCHANGED dbVars
          /\ table'.cards = ReconcilableCards(cards, users, cardAccess)
          /\ meantAtRead' = MeantCards
        BY <1>6 DEF FetchCards, NoTable, UnchangedOutsidePass
    <2>2. dbPhase \in {"live", "emptied"}
        BY <2>1 DEF RunbookInv, TypeOK, DatabaseOK
    <2>3. dbPhase = "live" => meantAtRead' = table'.cards
        BY <2>1, ServedIsMeant
    <2>4. QED
        BY <2>1, <2>2, <2>3 DEF RunbookInv, dbVars
<1>7. CASE FetchOwnedSlots
    <2>1. /\ pass = "cards read" /\ pass' = "fetched" /\ UNCHANGED <<dbVars, meantAtRead>>
          /\ table'.cards = table.cards /\ table'.ownedSlots = IssuedSlots(cards)
        BY <1>7 DEF FetchOwnedSlots, UnchangedOutsidePass, passHistory, TypeOK, PassOK
    <2>2. dbPhase = "emptied" => table'.ownedSlots = {}
        BY <2>1 DEF LossInv, IssuedSlots, SlotsOf
    <2>3. QED
        BY <2>1, <2>2 DEF RunbookInv, dbVars
<1>8. CASE ReadControllerTable \/ WriteNextCard \/ ClearNextCard
    <2>1. /\ pass \in {"fetched", "applying"} /\ pass' = "applying"
          /\ UNCHANGED <<dbVars, table, meantAtRead>>
        BY <1>8 DEF ReadControllerTable, WriteNextCard, ClearNextCard, UnchangedOutsidePass,
                    passHistory
    <2>2. QED
        BY <2>1 DEF RunbookInv, dbVars
<1>9. CASE FinishPass \/ RefuseWrite \/ Faults
    <2>1. pass' = "idle" /\ UNCHANGED dbVars
        BY <1>9 DEF FinishPass, RefuseWrite, Faults, RequestFails, AnswerLost, RestartDoorService,
                    EndPass, UnchangedOutsidePass
    <2>2. QED
        BY <2>1 DEF dbVars, RunbookInv
<1>10. ASSUME NEW row \in BoardRow, ProgramByHand(row) PROVE RunbookInv'
    BY <1>10 DEF ProgramByHand, dbVars, passVars, RunbookInv
<1>11. CASE UNCHANGED vars
    BY <1>11 DEF vars, dbVars, passVars, historyVars, passHistory, RunbookInv
<1>12. QED
    BY <1>1, <1>2, <1>3, <1>4, <1>5, <1>6, <1>7, <1>8, <1>9, <1>10, <1>11
       DEF Next, Operator, DoorService

\* Everything that holds of a pass, and what the runbook adds to it.
PassInv ==
    /\ IssuedInv /\ LossInv /\ ToldInv /\ PlanInv
    /\ Recoveries \subseteq {"runbook"} => RunbookInv

LEMMA PassInvariant == Spec => [](TypeOK /\ PassInv)
<1>1. Init => PassInv
    <2>1. Init => PlanInv
        BY DEF Init, PlanInv, NoTable
    <2>2. QED
        BY <2>1, InitIssued, InitTold, InitRunbook DEF PassInv
<1>2. TypeOK /\ PassInv /\ [Next]_vars => PassInv'
    BY NextIssued, NextLoss, NextTold, NextPlan, NextRunbook DEF PassInv
<1>3. QED
    BY <1>1, <1>2, TypeCorrect, PTL DEF Spec

\* A slot on the list of clears is none of those meant to open a door.
LEMMA ClearsAreRevoked ==
    ASSUME TypeOK, PassInv, Recoveries \subseteq {"runbook"}, pass = "applying"
    PROVE  clears \cap SlotsOf(meantAtRead) = {}
BY DEF PassInv, RunbookInv, PlanInv

\* If a lost database only ever comes back by the runbook, a card leaves the
\* board only when the lab had stopped meaning it to open a door: no interleaving
\* of edits, outages, restarts and lost answers takes a member's access away.
THEOREM RunbookClearsOnlyRevoked ==
    ASSUME Recoveries \subseteq {"runbook"}
    PROVE  Spec => OnlyRevokedCardsAreCleared
<1> DEFINE Cleared == \A slot \in 0..(CardSlotCount - 1) :
                          RowsAt(board, slot) # {} /\ RowsAt(board', slot) = {}
                              => slot \notin SlotsOf(meantAtRead)
<1>1. TypeOK /\ PassInv /\ [Next]_vars => [Cleared]_vars
    <2> SUFFICES ASSUME TypeOK, PassInv, [Next]_vars, NEW slot \in 0..(CardSlotCount - 1),
                        RowsAt(board, slot) # {}, RowsAt(board', slot) = {}
                 PROVE  slot \notin SlotsOf(meantAtRead)
        OBVIOUS
    <2>1. ~ \E card \in BoardRow : board' = WriteCard(board, card)
        BY WriteCardRows DEF TypeOK, BoardOK, OnePerSlot
    <2>2. /\ pass = "applying" /\ LowestSlot(clears) \in clears
          /\ board' = ClearSlot(board, LowestSlot(clears))
        BY <2>1, BoardSteps DEF ProgramByHand
    <2>3. slot = LowestSlot(clears)
        BY <2>2, ClearSlotRows
    <2>4. QED
        BY <2>2, <2>3, ClearsAreRevoked
<1>2. QED
    BY <1>1, PassInvariant, PTL DEF Spec, OnlyRevokedCardsAreCleared

\* If a lost database only ever comes back by the runbook, a pass that has
\* carried out its whole plan leaves each slot showing just what the database
\* says, if the database still says of it what it said when the pass asked and
\* nobody has programmed it by hand: whatever edits, outages and other people's
\* writes came between its requests.
THEOREM CompletePassesAgree ==
    ASSUME Recoveries \subseteq {"runbook"}
    PROVE  Spec => []CompletePassAgrees
<1>1. ASSUME TypeOK, PassInv, pass = "applying", writes = {}, clears = {},
             table.ownedSlots # {}, NEW slot \in 0..(CardSlotCount - 1), slot \notin handWritten,
             RowsAt(MeantCards, slot) = RowsAt(meantAtRead, slot)
      PROVE  IF RowsAt(MeantCards, slot) # {}
             THEN RowsAt(board, slot) = {Stored(card) : card \in RowsAt(MeantCards, slot)}
             ELSE slot \in table.ownedSlots => slot \notin SlotsOf(DumpCardTable(board))
    <2>1. RowsAt(MeantCards, slot) = RowsAt(table.cards, slot)
        BY <1>1 DEF PassInv, RunbookInv
    <2>2. ASSUME NEW card \in RowsAt(table.cards, slot)
          PROVE  /\ RowsAt(table.cards, slot) = {card}
                 /\ RowsAt(board, slot) = {Stored(card)}
        BY <1>1, <2>2 DEF PassInv, PlanInv, WantedInv, RowsAt, TypeOK, PassOK, OnePerSlot
    <2>3. CASE RowsAt(table.cards, slot) # {}
        BY <2>1, <2>2, <2>3
    <2>4. CASE RowsAt(table.cards, slot) = {}
        <3>1. slot \notin SlotsOf(table.cards)
            BY <2>4 DEF RowsAt, SlotsOf
        <3>2. QED
            BY <1>1, <2>1, <2>4, <3>1 DEF PassInv, PlanInv, UnwantedInv
    <2>5. QED
        BY <2>3, <2>4
<1>2. TypeOK /\ PassInv => CompletePassAgrees
    BY <1>1 DEF CompletePassAgrees
<1>3. QED
    BY <1>2, PassInvariant, PTL

(***************************************************************************)
(* The service and its board implement CardBoard.                          *)
(***************************************************************************)

LEMMA PromisedOperators ==
    /\ \A rows : SlotsOf(rows) = Promised!SlotsOf(rows)
    /\ \A rows, card : WriteCard(rows, card) = Promised!WriteCard(rows, card)
    /\ \A rows, slot : ClearSlot(rows, slot) = Promised!ClearSlot(rows, slot)
    /\ Promised!Card = BoardRow
    /\ \A rows \in SUBSET BoardRow : OnePerSlot(rows) => Promised!IsTable(rows)
BY DEF SlotsOf, Promised!SlotsOf, RowsAt, Promised!RowsAt, Stored, Promised!Stored,
       WriteCard, Promised!WriteCard, ClearSlot, Promised!ClearSlot,
       Promised!Card, Promised!Slots, BoardRow, OnePerSlot, Promised!IsTable

\* What is meant is a card table of issued slots.
LEMMA MeantIsIssued ==
    TypeOK /\ IssuedInv =>
        Promised!IsTable(MeantCards) /\ Promised!SlotsOf(MeantCards) \subseteq everIssued
BY MeantCardsRows, PromisedOperators DEF TypeOK, IssuedInv

LEMMA PromisedInit == Init => Promised!Init
<1> SUFFICES ASSUME Init
             PROVE  Promised!Init
    OBVIOUS
<1>1. TypeOK /\ IssuedInv
    BY InitTypeOK, InitIssued
<1>2. Promised!IsTable(board)
    BY <1>1, PromisedOperators DEF TypeOK, BoardOK
<1>3. QED
    BY <1>1, <1>2, MeantIsIssued, PromisedOperators DEF Init, Promised!Init

\* An edit in the live database is a decision.
LEMMA AdminDecides ==
    ASSUME TypeOK, TypeOK', IssuedInv, IssuedInv', Admin
    PROVE  Promised!Decide
<1>1. /\ edits' = edits + 1 /\ UNCHANGED <<pass, meantAtRead, board>>
      /\ everIssued \subseteq everIssued'
    BY DEF Admin, AssignCard, UpdateCard, SetCardAccess, AdminActs, passVars, passHistory
<1>2. (TypeOK /\ IssuedInv =>
           Promised!IsTable(MeantCards) /\ Promised!SlotsOf(MeantCards) \subseteq everIssued)'
    BY MeantIsIssued, PTL
<1>3. QED
    BY <1>1, <1>2 DEF Promised!Decide

\* The first reading of the card table is where the service asks.
LEMMA FetchAsks == FetchCards => Promised!Ask
BY DEF FetchCards, UnchangedOutsidePass, dbVars, MeantCards, Promised!Ask

\* However a pass ends, the service lets go of its answer.
LEMMA EndLetsGo ==
    ASSUME TypeOK, ToldInv, EndPass
    PROVE  /\ MeantCards' = MeantCards /\ UNCHANGED <<everIssued, edits>>
           /\ pass # "idle" => Promised!LetGo
           /\ pass = "idle" => pass' = "idle" /\ meantAtRead' = meantAtRead
BY DEF EndPass, UnchangedOutsidePass, dbVars, MeantCards, ToldInv, Promised!LetGo

\* A step that writes the board is the answer put on, or a row put there by hand.
LEMMA WritePutsOn ==
    ASSUME TypeOK, ToldInv, NextWrite \in writes, NextWrite \in BoardRow, pass = "applying",
           board' = WriteCard(board, NextWrite), WriteNextCard \/ EndPass
    PROVE  Promised!Next
<1>1. NextWrite \in meantAtRead
    BY DEF TypeOK, PassOK, ToldInv
<1>2. MeantCards' = MeantCards /\ UNCHANGED <<everIssued, edits>>
    BY EndLetsGo DEF WriteNextCard, UnchangedOutsidePass, dbVars, MeantCards
<1>3. Promised!WhileAsking
    BY EndLetsGo DEF WriteNextCard, passHistory, Promised!WhileAsking
<1>4. Promised!PutOn(NextWrite)
    BY <1>1, <1>2, <1>3, PromisedOperators DEF Promised!PutOn
<1>5. QED
    BY <1>4, PromisedOperators DEF Promised!Next

LEMMA ClearTakesOff ==
    ASSUME TypeOK, PassInv, LowestSlot(clears) \in clears, pass = "applying",
           board' = ClearSlot(board, LowestSlot(clears)), ClearNextCard \/ EndPass
    PROVE  Promised!Next
<1> DEFINE slot == LowestSlot(clears)
<1>1. slot \in everIssued /\ slot \in Promised!Slots
    BY DEF PassInv, IssuedInv, TypeOK, PassOK, Promised!Slots
<1>2. Recoveries \subseteq {"runbook"} => slot \notin Promised!SlotsOf(meantAtRead)
    BY ClearsAreRevoked, PromisedOperators
<1>3. MeantCards' = MeantCards /\ UNCHANGED <<everIssued, edits>>
    BY EndLetsGo DEF PassInv, ClearNextCard, UnchangedOutsidePass, dbVars, MeantCards
<1>4. Promised!WhileAsking
    BY EndLetsGo DEF PassInv, ClearNextCard, passHistory, Promised!WhileAsking
<1>5. board' = Promised!ClearSlot(board, slot)
    BY PromisedOperators
<1> HIDE DEF slot
<1>6. Promised!TakeOff(slot)
    BY <1>1, <1>2, <1>3, <1>4, <1>5 DEF Promised!TakeOff
<1>7. QED
    BY <1>1, <1>6 DEF Promised!Next

LEMMA HandWrites ==
    ASSUME NEW row \in BoardRow, ProgramByHand(row)
    PROVE  Promised!Next
<1>1. Promised!ByHand(row)
    BY PromisedOperators DEF ProgramByHand, dbVars, passVars, MeantCards, Promised!ByHand
<1>2. QED
    BY <1>1, PromisedOperators DEF Promised!Next

\* The variables of CardBoard, as DoorSync stands for them.
promisedVars == <<MeantCards, everIssued, edits, pass # "idle", meantAtRead, board>>

\* What happens at the host ends at most a pass.
LEMMA OperatorIsUnseen ==
    ASSUME TypeOK, LossInv, Operator
    PROVE  Promised!GiveUp \/ UNCHANGED promisedVars
<1>1. MeantCards' = MeantCards /\ UNCHANGED <<everIssued, edits, board>>
    BY OperatorKeepsMeant
       DEF Operator, LoseDatabase, StopApi, StartApi, RestoreCards, RestoreUsers, ImportDatabase,
           historyVars
<1>2. \/ UNCHANGED <<pass, meantAtRead>>
      \/ pass = "cards read" /\ pass' = "idle" /\ meantAtRead' = {}
    BY DEF Operator, LoseDatabase, StopApi, StartApi, RestoreCards, RestoreUsers, ImportDatabase,
           PassWithoutApi, passVars, historyVars, passHistory
<1>3. QED
    BY <1>1, <1>2 DEF promisedVars, Promised!GiveUp, Promised!LetGo

\* A step of the service that leaves the board alone asks, lets go, or is unseen.
LEMMA QuietStep ==
    ASSUME TypeOK, ToldInv, DoorService \/ Faults, UNCHANGED board
    PROVE  Promised!Next \/ UNCHANGED promisedVars
<1>1. CASE FetchCards
    BY <1>1, FetchAsks DEF Promised!Next
<1>2. CASE FetchOwnedSlots \/ ReadControllerTable \/ WriteNextCard \/ ClearNextCard
    <2>1. UNCHANGED <<dbVars, everIssued, edits, meantAtRead>> /\ pass # "idle" /\ pass' # "idle"
        BY <1>2 DEF FetchOwnedSlots, ReadControllerTable, WriteNextCard, ClearNextCard,
                    UnchangedOutsidePass, passHistory
    <2>2. QED
        BY <2>1 DEF promisedVars, dbVars, MeantCards
<1>3. CASE FinishPass \/ RefuseWrite \/ Faults
    <2>1. EndPass
        BY <1>3 DEF FinishPass, RefuseWrite, Faults, RequestFails, AnswerLost, RestartDoorService
    <2>2. QED
        BY <2>1, EndLetsGo DEF promisedVars, Promised!GiveUp, Promised!Next
<1>4. QED
    BY <1>1, <1>2, <1>3 DEF DoorService

LEMMA NextKeepsPromise ==
    ASSUME TypeOK, TypeOK', PassInv, PassInv', [Next]_vars
    PROVE  Promised!Next \/ UNCHANGED promisedVars
<1>1. CASE Admin
    BY <1>1, AdminDecides DEF PassInv, Promised!Next
<1>2. CASE Operator
    BY <1>2, OperatorIsUnseen DEF PassInv, Promised!Next
<1>3. CASE DoorService \/ Faults
    <2>1. CASE UNCHANGED board
        BY <1>3, <2>1, QuietStep DEF PassInv
    <2>2. CASE \E row \in BoardRow : ProgramByHand(row)
        BY <2>2, HandWrites
    <2>3. QED
        BY <2>1, <2>2, BoardSteps, WritePutsOn, ClearTakesOff DEF PassInv
<1>4. ASSUME NEW row \in BoardRow, ProgramByHand(row) PROVE Promised!Next
    BY <1>4, HandWrites
<1>5. CASE UNCHANGED vars
    BY <1>5 DEF vars, dbVars, passVars, historyVars, passHistory, promisedVars, MeantCards
<1>6. QED
    BY <1>1, <1>2, <1>3, <1>4, <1>5 DEF Next

\* The long way of a card to the board, with its two readings, its requests one
\* by one, its failures, restarts and lost databases, does what CardBoard says at
\* once: a card goes on the board only if it was meant when the pass asked, one
\* comes off only from a slot that was issued, and, if a lost database only ever
\* comes back by the runbook, only if it was not meant when the pass asked.
THEOREM BoardKeepsPromise == Spec => BoardAsPromised
<1>1. Spec => [](TypeOK /\ PassInv)
    BY PassInvariant
<1>2. (TypeOK /\ PassInv) /\ (TypeOK /\ PassInv)' /\ [Next]_vars =>
          [Promised!Next]_promisedVars
    BY NextKeepsPromise
<1>3. QED
    BY <1>1, <1>2, PromisedInit, PTL DEF Spec, BoardAsPromised, Promised!Spec, promisedVars
=============================================================================
