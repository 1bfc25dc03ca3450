-------------------------- MODULE Reconcile_proofs --------------------------
(***************************************************************************)
(* What a reconcile pass computes, for every pair of card tables; then     *)
(* what undisturbed passes leave at each slot, and that the next one has   *)
(* nothing to do.                                                          *)
(***************************************************************************)
EXTENDS ReconcilePass, TLAPS

\* A board keeps one row per address, all of them addresses it can read.
IsBoard(boardRows) ==
    /\ boardRows \subseteq Row
    /\ \A row \in boardRows : IsUsableSlot(row.slot)
    /\ \A p, q \in boardRows : p.slot = q.slot => p = q

LEMMA UsableBySlotOfBoard ==
    ASSUME NEW boardRows, IsBoard(boardRows)
    PROVE  UsableBySlot(boardRows) = boardRows
BY DEF IsBoard, UsableBySlot, RowsAt

LEMMA UsableBySlotOnePerSlot ==
    ASSUME NEW rows, NEW p \in UsableBySlot(rows), NEW q \in UsableBySlot(rows), p.slot = q.slot
    PROVE  p = q
BY DEF UsableBySlot, RowsAt

LEMMA StoredCard ==
    ASSUME NEW card \in Row
    PROVE  /\ Stored(card) \in Row
           /\ Stored(card).slot = card.slot
           /\ Stored(card).permissions = card.permissions
           /\ Stored(card).cardNumber = Upper[card.cardNumber]
           /\ SameCard(Stored(card), card)
BY UpperAssumption DEF Stored, Row, SameCard

\* The board's dump is a board.
LEMMA DumpIsBoard ==
    ASSUME NEW boardRows, IsBoard(boardRows)
    PROVE  IsBoard(DumpCardTable(boardRows))
BY DEF IsBoard, DumpCardTable

\* A whole plan leaves the board with one row per address.
LEMMA ApplyKeepsBoard ==
    ASSUME NEW boardRows, IsBoard(boardRows), NEW plan,
           plan.writes \subseteq Row,
           \A card \in plan.writes : IsUsableSlot(card.slot),
           \A p, q \in plan.writes : p.slot = q.slot => p = q
    PROVE  IsBoard(ApplyPlan(boardRows, plan))
<1>1. \A row \in ApplyPlan(boardRows, plan) : row \in Row /\ IsUsableSlot(row.slot)
    BY StoredCard DEF ApplyPlan, IsBoard
<1>2. ASSUME NEW p \in ApplyPlan(boardRows, plan), NEW q \in ApplyPlan(boardRows, plan), p.slot = q.slot
      PROVE  p = q
    <2>1. CASE p \in boardRows /\ q \in boardRows
        BY <1>2, <2>1 DEF IsBoard
    <2>2. CASE \E c, d \in plan.writes : p = Stored(c) /\ q = Stored(d)
        BY <1>2, <2>2, StoredCard
    <2>3. ASSUME NEW c \in plan.writes
          PROVE  /\ Stored(c).slot \in SlotsOf(plan.writes)
        BY StoredCard DEF SlotsOf
    <2>4. QED
        BY <1>2, <2>1, <2>2, <2>3 DEF ApplyPlan
<1>3. QED
    BY <1>1, <1>2 DEF IsBoard

\* A reconcile pass is idempotent ("Running it again against the same state
\* writes nothing", main.ts:38-40): after a pass carried out in full, a pass
\* against the same database answer writes nothing and clears nothing,
\* whichever of the slots the first pass owned it still owns.  The one
\* condition is on the tags: the board must be able to read back what is
\* written to it.
THEOREM SecondPassIsEmpty ==
    ASSUME NEW databaseRows \in SUBSET Row, NEW boardRows, IsBoard(boardRows),
           \A card \in databaseRows : Upper[card.cardNumber] \notin EmptyTag,
           NEW owned, NEW issued, NEW ownedLater \in SUBSET owned
    PROVE  LET first == PlanReconcile(databaseRows, DumpCardTable(boardRows), owned, issued)
               after == ApplyPlan(boardRows, first)
           IN  PlanIsEmpty(PlanReconcile(databaseRows, DumpCardTable(after), ownedLater, issued))
<1> DEFINE wanted == UsableBySlot(databaseRows)
           held   == DumpCardTable(boardRows)
           first  == PlanReconcile(databaseRows, held, owned, issued)
           after  == ApplyPlan(boardRows, first)
           later  == DumpCardTable(after)
           second == PlanReconcile(databaseRows, later, ownedLater, issued)
           unwanted(rows) == {card \in rows : card.slot \notin SlotsOf(wanted)}
           clears(rows, mine) == ClearsOf(unwanted(rows), mine)
<1>1. wanted \subseteq Row /\ \A card \in wanted : IsUsableSlot(card.slot)
    BY DEF UsableBySlot
<1>2. IsBoard(held) /\ UsableBySlot(held) = held
    BY DumpIsBoard, UsableBySlotOfBoard
<1>3. first.writes = {card \in wanted : ~ \E present \in held :
                          present.slot = card.slot /\ SameCard(present, card)}
    BY <1>2 DEF PlanReconcile
<1>4. first.clears = IF Distrusted(issued, clears(held, owned)) THEN {} ELSE clears(held, owned)
    BY <1>2 DEF PlanReconcile
<1>5. IsBoard(after)
    <2>1. \A p, q \in first.writes : p.slot = q.slot => p = q
        BY <1>3, UsableBySlotOnePerSlot
    <2>2. first.writes \subseteq Row /\ \A card \in first.writes : IsUsableSlot(card.slot)
        BY <1>1, <1>3
    <2> HIDE DEF first
    <2>3. QED
        BY <2>1, <2>2, ApplyKeepsBoard
<1>6. IsBoard(later) /\ UsableBySlot(later) = later
    BY <1>5, DumpIsBoard, UsableBySlotOfBoard
<1>7. second.writes = {card \in wanted : ~ \E present \in later :
                           present.slot = card.slot /\ SameCard(present, card)}
    BY <1>6 DEF PlanReconcile
<1>8. second.clears = IF Distrusted(issued, clears(later, ownedLater)) THEN {}
                      ELSE clears(later, ownedLater)
    BY <1>6 DEF PlanReconcile
<1> HIDE DEF first, second
<1>9. second.writes = {}
    <2>1. SUFFICES ASSUME NEW card \in wanted
                   PROVE  \E present \in later :
                              present.slot = card.slot /\ SameCard(present, card)
        BY <1>7
    <2>2. CASE card \in first.writes
        <3>1. Stored(card) \in later
            BY <1>1, <2>2, StoredCard DEF ApplyPlan, DumpCardTable, UsableBySlot
        <3>2. QED
            BY <1>1, <3>1, StoredCard
    <2>3. CASE card \notin first.writes
        <3>1. PICK present \in held : present.slot = card.slot /\ SameCard(present, card)
            BY <1>3, <2>3
        <3>2. present.slot \notin SlotsOf(first.writes)
            BY <1>3, <2>3, <3>1, UsableBySlotOnePerSlot DEF SlotsOf
        <3>3. present.slot \notin first.clears
            BY <1>4, <3>1 DEF ClearsOf, SlotsOf
        <3>4. present \in later
            BY <3>1, <3>2, <3>3 DEF ApplyPlan, DumpCardTable
        <3>5. QED
            BY <3>1, <3>4
    <2>4. QED
        BY <2>2, <2>3
<1>10. second.clears = {}
    <2>1. SUFFICES ASSUME ~Distrusted(issued, clears(later, ownedLater)),
                          NEW slot \in clears(later, ownedLater)
                   PROVE  FALSE
        BY <1>8
    <2>2. slot \in ownedLater /\ slot \in owned
        BY <2>1 DEF ClearsOf
    <2>3. PICK row \in later : row.slot = slot /\ slot \notin SlotsOf(wanted)
        BY <2>1 DEF ClearsOf, SlotsOf
    <2>4. \A card \in first.writes : Stored(card).slot \in SlotsOf(wanted)
        BY <1>1, <1>3, StoredCard DEF SlotsOf
    <2>5. row \in held /\ slot \notin first.clears
        BY <2>3, <2>4 DEF ApplyPlan, DumpCardTable
    <2>6. slot \in clears(held, owned)
        BY <2>2, <2>3, <2>5 DEF ClearsOf, SlotsOf
    <2>7. Distrusted(issued, clears(held, owned))
        BY <1>4, <2>5, <2>6
    <2>8. QED
        BY <2>1, <2>7 DEF Distrusted
<1>11. QED
    BY <1>9, <1>10 DEF PlanIsEmpty, first, second

\* No request of a pass is in vain and none undoes another: whatever the tables,
\* each write and each clear changes what the board holds - or the tag is one the
\* board cannot read back - and no slot gets two requests, so their order does not
\* matter.  Comparing tags as they are spelt "would rewrite every card on every
\* pass" (reconcile.ts:173-177).
THEOREM EveryRequestCounts ==
    ASSUME NEW databaseRows \in SUBSET Row, NEW boardRows, IsBoard(boardRows),
           NEW owned, NEW issued
    PROVE  LET plan == PlanReconcile(databaseRows, DumpCardTable(boardRows), owned, issued)
           IN  /\ \A card \in plan.writes :
                      WriteCard(boardRows, card) # boardRows \/ Upper[card.cardNumber] \in EmptyTag
               /\ \A slot \in plan.clears : ClearSlot(boardRows, slot) # boardRows
               /\ \A p, q \in plan.writes : p.slot = q.slot => p = q
               /\ SlotsOf(plan.writes) \cap plan.clears = {}
<1> DEFINE wanted == UsableBySlot(databaseRows)
           held   == DumpCardTable(boardRows)
           plan   == PlanReconcile(databaseRows, held, owned, issued)
<1>1. UsableBySlot(held) = held
    BY DumpIsBoard, UsableBySlotOfBoard
<1>2. plan.writes = {card \in wanted : ~ \E present \in held :
                                             present.slot = card.slot /\ SameCard(present, card)}
    BY <1>1 DEF PlanReconcile
<1>3. /\ plan.clears \subseteq SlotsOf(held)
      /\ plan.clears \cap SlotsOf(wanted) = {}
    BY <1>1 DEF PlanReconcile, ClearsOf, SlotsOf
<1>4. ASSUME NEW card \in plan.writes, WriteCard(boardRows, card) = boardRows,
             Upper[card.cardNumber] \notin EmptyTag
      PROVE  FALSE
    <2>1. card \in Row /\ IsUsableSlot(card.slot)
        BY <1>2, <1>4 DEF UsableBySlot
    <2>2. Stored(card) \in boardRows
        BY <1>4 DEF WriteCard
    <2>3. Stored(card) \in held
        BY <1>4, <2>1, <2>2, StoredCard DEF DumpCardTable
    <2>4. QED
        BY <1>2, <1>4, <2>1, <2>3, StoredCard
<1>5. ASSUME NEW slot \in plan.clears
      PROVE  ClearSlot(boardRows, slot) # boardRows
    <2>1. PICK row \in held : row.slot = slot
        BY <1>3, <1>5 DEF SlotsOf
    <2>2. row \in boardRows /\ row \notin ClearSlot(boardRows, slot)
        BY <2>1 DEF DumpCardTable, ClearSlot, RowsAt
    <2>3. QED
        BY <2>2
<1>6. \A p, q \in plan.writes : p.slot = q.slot => p = q
    BY <1>2, UsableBySlotOnePerSlot
<1>7. SlotsOf(plan.writes) \cap plan.clears = {}
    BY <1>2, <1>3 DEF SlotsOf
<1>8. QED
    BY <1>4, <1>5, <1>6, <1>7

(***************************************************************************)
(* Undisturbed passes.                                                     *)
(***************************************************************************)

\* What the passes start from and keep.
TablesInv ==
    /\ databaseCards \subseteq Row
    /\ IsBoard(board)
    /\ \A row \in board : Upper[row.cardNumber] = row.cardNumber
    /\ passes \in Nat

IInv == TablesInv /\ SecondPassWritesNothing

LEMMA InitTables == Init => IInv
<1> SUFFICES ASSUME Init
             PROVE  IInv
    OBVIOUS
<1>1. databaseCards \subseteq Row /\ passes = 0
    BY TablesAssumption DEF Init
<1>2. IsBoard(board) /\ \A row \in board : Upper[row.cardNumber] = row.cardNumber
    <2>1. board \in BoardTables
        BY DEF Init
    <2>2. \A p, q \in board : p.slot = q.slot => p = q
        <3>1. SUFFICES ASSUME NEW p \in board, NEW q \in board, p.slot = q.slot
                       PROVE  p = q
            OBVIOUS
        <3>2. RowsAt(board, p.slot) = {p} /\ q \in RowsAt(board, p.slot)
            BY <2>1, <3>1, TablesAssumption DEF RowsAt
        <3>3. QED
            BY <3>2
    <2>3. QED
        BY <2>1, <2>2, TablesAssumption DEF IsBoard
<1>3. QED
    BY <1>1, <1>2 DEF IInv, TablesInv, SecondPassWritesNothing

\* What a plan writes is the database's one claim on a slot the board can read.
LEMMA WritesAreWanted ==
    ASSUME TablesInv
    PROVE  /\ PlanNow.writes \subseteq UsableBySlot(databaseCards)
           /\ PlanNow.writes \subseteq Row
           /\ \A card \in PlanNow.writes : IsUsableSlot(card.slot)
           /\ \A p, q \in PlanNow.writes : p.slot = q.slot => p = q
<1>1. PlanNow.writes \subseteq UsableBySlot(databaseCards)
    BY DEF PlanNow, PlanReconcile
<1>2. QED
    BY <1>1, UsableBySlotOnePerSlot DEF UsableBySlot, TablesInv

\* A pass keeps the board a board, and leaves the next one nothing to do.
LEMMA PassKeepsTables ==
    ASSUME IInv, RunReconcilePass
    PROVE  IInv'
<1>1. TablesInv
    BY DEF IInv
<1>2. TablesInv'
    <2>1. IsBoard(board')
        <3>1. IsBoard(ApplyPlan(board, PlanNow))
            BY <1>1, WritesAreWanted, ApplyKeepsBoard DEF TablesInv
        <3>2. QED
            BY <3>1 DEF RunReconcilePass
    <2>2. \A row \in board' : Upper[row.cardNumber] = row.cardNumber
        <3>1. \A card \in PlanNow.writes : Upper[Stored(card).cardNumber] = Stored(card).cardNumber
            BY <1>1, WritesAreWanted, StoredCard, UpperAssumption DEF Row
        <3>2. QED
            BY <1>1, <3>1 DEF RunReconcilePass, ApplyPlan, TablesInv
    <2>3. QED
        BY <1>1, <2>1, <2>2 DEF TablesInv, RunReconcilePass
<1>3. SecondPassWritesNothing'
    <2>1. SUFFICES ASSUME \A card \in databaseCards : Upper[card.cardNumber] \notin EmptyTag
                   PROVE  PlanIsEmpty(PlanNow)'
        BY DEF SecondPassWritesNothing, RunReconcilePass
    <2>2. OwnedOnArrival' \subseteq OwnedOnArrival
        <3>1. SlotsOf(PlanNow.writes) \subseteq OwnedOnArrival
            BY <1>1, WritesAreWanted DEF SlotsOf, UsableBySlot, OwnedOnArrival
        <3>2. QED
            BY <3>1 DEF RunReconcilePass, OwnedOnArrival
    <2>3. databaseCards \in SUBSET Row /\ IsBoard(board)
        BY <1>1 DEF TablesInv
    <2>4. OwnedOnArrival' \in SUBSET OwnedOnArrival
        BY <2>2
    <2>5. PlanIsEmpty(PlanReconcile(databaseCards, DumpCardTable(ApplyPlan(board, PlanNow)),
                                    OwnedOnArrival', databaseIssuedSlots))
        BY <2>1, <2>3, <2>4, SecondPassIsEmpty DEF PlanNow
    <2>6. PlanNow' = PlanReconcile(databaseCards, DumpCardTable(ApplyPlan(board, PlanNow)),
                                   OwnedOnArrival', databaseIssuedSlots)
        BY DEF RunReconcilePass, PlanNow
    <2>7. QED
        BY <2>5, <2>6
<1>4. QED
    BY <1>2, <1>3 DEF IInv

LEMMA TablesStay ==
    ASSUME IInv, UNCHANGED vars
    PROVE  IInv'
BY DEF IInv, TablesInv, SecondPassWritesNothing, PlanNow, OwnedOnArrival, vars

\* "Running it again against the same state writes nothing" (main.ts:38-40): a
\* pass that follows another with the same database plans nothing, for every pair
\* of tables whose tags the board can read back, and every memory.
THEOREM SecondPassIsNothing == Spec => []SecondPassWritesNothing
<1>1. Init => IInv
    BY InitTables
<1>2. IInv /\ [Next]_vars => IInv'
    BY PassKeepsTables, TablesStay DEF Next
<1>3. IInv => SecondPassWritesNothing
    BY DEF IInv
<1>4. QED
    BY <1>1, <1>2, <1>3, PTL DEF Spec

\* One slot after a pass, by what the database claims of it.
LEMMA PassAtASlot ==
    ASSUME TablesInv, RunReconcilePass, NEW slot \in Int
    PROVE  RowsAt(board', slot) = Expected(slot)
<1> DEFINE wanted == UsableBySlot(databaseCards)
           held   == DumpCardTable(board)
           writes == PlanNow.writes
           clears == PlanNow.clears
           owned  == ClearsOf({card \in held : card.slot \notin SlotsOf(wanted)}, OwnedOnArrival)
           there  == RowsAt(board, slot)
           claims == RowsAt(databaseCards, slot)
<1>1. held \subseteq board /\ UsableBySlot(held) = held
    BY DumpIsBoard, UsableBySlotOfBoard DEF TablesInv, DumpCardTable
<1>2. writes = {card \in wanted : ~ \E present \in held :
                    present.slot = card.slot /\ SameCard(present, card)}
    BY <1>1 DEF PlanNow, PlanReconcile
<1>3. clears = IF Distrusted(databaseIssuedSlots, owned) THEN {} ELSE owned
    BY <1>1 DEF PlanNow, PlanReconcile
<1>4. board' = {row \in board : row.slot \notin SlotsOf(writes) \cup clears}
                   \cup {Stored(card) : card \in writes}
    BY DEF RunReconcilePass, ApplyPlan
<1>5. \A card \in writes : Stored(card).slot = card.slot
    BY WritesAreWanted, StoredCard
<1>6. IsUsableSlot(slot) <=> slot \in 0..(CardSlotCount - 1)
    BY SlotCountAssumption DEF IsUsableSlot, SlotRefusal
<1>7. \A row \in board : row.slot = slot => there = {row}
    BY DEF TablesInv, IsBoard, RowsAt
<1> HIDE DEF writes, clears
\* A slot nothing is written to keeps its rows, unless it is cleared.
<1>8. ASSUME slot \notin SlotsOf(writes)
      PROVE  RowsAt(board', slot) = IF slot \in clears THEN {} ELSE there
    BY <1>4, <1>5, <1>8 DEF RowsAt, SlotsOf
<1>9. CASE ~IsUsableSlot(slot)
    <2>1. there = {}
        BY <1>9 DEF TablesInv, IsBoard, RowsAt
    <2>2. slot \notin SlotsOf(writes)
        BY <1>2, <1>9 DEF SlotsOf, UsableBySlot
    <2>3. QED
        BY <1>6, <1>8, <1>9, <2>1, <2>2 DEF Expected
<1>10. CASE IsUsableSlot(slot) /\ \E card \in claims : claims = {card}
    <2>1. PICK card \in claims : claims = {card}
        BY <1>10
    <2>2. card \in wanted /\ card \in Row /\ card.slot = slot
        BY <1>10, <2>1 DEF UsableBySlot, RowsAt, TablesInv
    <2>3. Expected(slot) = {Stored(card)}
        BY <1>6, <1>10, <2>1 DEF Expected
    <2>4. CASE card \in writes
        <3>1. slot \in SlotsOf(writes) /\ \A other \in writes : other.slot = slot => other = card
            BY <2>2, <2>4, <1>2, UsableBySlotOnePerSlot DEF SlotsOf
        <3>2. RowsAt(board', slot) = {Stored(card)}
            BY <1>4, <1>5, <2>2, <2>4, <3>1 DEF RowsAt
        <3>3. QED
            BY <2>3, <3>2
    <2>5. CASE card \notin writes
        <3>1. PICK present \in held : present.slot = slot /\ SameCard(present, card)
            BY <1>2, <2>2, <2>5
        <3>2. present = Stored(card)
            BY <1>1, <2>2, <3>1 DEF Stored, SameCard, TablesInv, Row, IsBoard
        <3>3. there = {present}
            BY <1>1, <1>7, <3>1
        <3>4. slot \notin SlotsOf(writes)
            BY <1>2, <2>2, <2>5, UsableBySlotOnePerSlot DEF SlotsOf
        <3>5. slot \notin clears
            BY <1>3, <2>2 DEF ClearsOf, SlotsOf
        <3>6. QED
            BY <1>8, <2>3, <3>2, <3>3, <3>4, <3>5
    <2>6. QED
        BY <2>4, <2>5
<1>11. CASE IsUsableSlot(slot) /\ ~ \E card \in claims : claims = {card}
    <2>1. slot \notin SlotsOf(wanted)
        BY <1>11 DEF SlotsOf, UsableBySlot, RowsAt
    <2>2. slot \notin SlotsOf(writes)
        BY <1>2, <2>1 DEF SlotsOf
    <2>3. slot \in owned <=> slot \in OwnedOnArrival /\ \E row \in held : row.slot = slot
        BY <2>1 DEF ClearsOf, SlotsOf
    <2>4. CASE slot \in OwnedOnArrival /\ databaseIssuedSlots # {}
        <3>1. Expected(slot) = there \ DumpCardTable(there)
            BY <1>6, <1>11, <2>4 DEF Expected
        <3>2. slot \in clears <=> \E row \in held : row.slot = slot
            BY <1>3, <2>3, <2>4 DEF Distrusted
        <3>3. DumpCardTable(there) = {row \in held : row.slot = slot}
            BY DEF DumpCardTable, RowsAt
        <3>4. CASE \E row \in held : row.slot = slot
            <4>1. PICK row \in held : row.slot = slot
                BY <3>4
            <4>2. there = {row}
                BY <1>1, <1>7, <4>1
            <4>3. there \ DumpCardTable(there) = {}
                BY <3>3, <4>1, <4>2
            <4>4. QED
                BY <1>8, <2>2, <3>1, <3>2, <3>4, <4>3
        <3>5. CASE ~ \E row \in held : row.slot = slot
            BY <1>8, <2>2, <3>1, <3>2, <3>3, <3>5
        <3>6. QED
            BY <3>4, <3>5
    <2>5. CASE ~(slot \in OwnedOnArrival /\ databaseIssuedSlots # {})
        <3>1. Expected(slot) = there
            BY <1>6, <1>11, <2>5 DEF Expected
        <3>2. slot \notin clears
            BY <1>3, <2>3, <2>5 DEF Distrusted
        <3>3. QED
            BY <1>8, <2>2, <3>1, <3>2
    <2>6. QED
        BY <2>4, <2>5
<1>12. QED
    BY <1>9, <1>10, <1>11

\* Every slot is left as the slot-by-slot reading of the rules says ("The slot is
\* never renumbered", cards.ts; reconcile.ts:94-98), for every pair of tables: a
\* card lands at its own slot, a contested slot gets neither card, an unaccounted
\* card stays, an emptied database clears nothing.
THEOREM PassIsSlotBySlot == Spec => PassMatchesExpected
<1>1. Init => IInv
    BY InitTables
<1>2. IInv /\ [Next]_vars => IInv'
    BY PassKeepsTables, TablesStay DEF Next
<1>3. ASSUME IInv, Next,
             NEW slot \in SlotsOf(board) \cup SlotsOf(board') \cup SlotsOf(databaseCards)
      PROVE  RowsAt(board', slot) = Expected(slot)
    <2>1. TablesInv /\ TablesInv' /\ UNCHANGED databaseCards
        BY <1>2, <1>3 DEF IInv, Next, RunReconcilePass
    <2>2. slot \in Int
        BY <1>3, <2>1 DEF TablesInv, IsBoard, SlotsOf, Row
    <2>3. QED
        BY <1>3, <2>1, <2>2, PassAtASlot DEF Next
<1>4. IInv /\ [Next]_vars =>
          [\A slot \in SlotsOf(board) \cup SlotsOf(board') \cup SlotsOf(databaseCards) :
               RowsAt(board', slot) = Expected(slot)]_vars
    BY <1>3
<1>5. QED
    BY <1>1, <1>2, <1>4, PTL DEF Spec, PassMatchesExpected
=============================================================================
