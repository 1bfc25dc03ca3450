--------------------------- MODULE ReconcilePass ---------------------------
(***************************************************************************)
(* Undisturbed reconcile passes over every small pair of card tables: the  *)
(* reading of the board, the plan and the whole of applyPlan in one step   *)
(* (runReconcilePass in services/door/src/main.ts with nothing happening   *)
(* in between).  It checks PlanReconcile against a definition of what a    *)
(* pass has to leave at one slot, written slot by slot rather than as a    *)
(* difference of tables.  DoorSync interleaves the same pass with the rest *)
(* of the system.                                                          *)
(***************************************************************************)
EXTENDS Reconcile

CONSTANTS
    DatabaseTables,  \* card tables the API may answer
    BoardTables,     \* what the board may hold when the first pass begins
    SlotSets         \* sets of slots, for the database's list and the memory

\* A board prints each address it can read once, and tags in its own spelling.
ASSUME TablesAssumption ==
    /\ \A rows \in DatabaseTables : rows \subseteq Row
    /\ \A rows \in BoardTables :
           /\ rows \subseteq Row
           /\ \A row \in rows :
                  /\ IsUsableSlot(row.slot) /\ RowsAt(rows, row.slot) = {row}
                  /\ Upper[row.cardNumber] = row.cardNumber

VARIABLES
    databaseCards,       \* table.cards
    databaseIssuedSlots, \* table.ownedSlots
    ownedSlots,          \* this process's memory
    board,               \* the EEPROM card table
    passes               \* how many passes have run; 2 is all that matters

vars == <<databaseCards, databaseIssuedSlots, ownedSlots, board, passes>>

Init ==
    /\ databaseCards \in DatabaseTables
    /\ databaseIssuedSlots \in SlotSets
    /\ SlotsOf(databaseCards) \subseteq databaseIssuedSlots
    /\ ownedSlots \in {slots \in SlotSets : \A s \in slots : IsUsableSlot(s)}
    /\ board \in BoardTables
    /\ passes = 0

\* The memory once the table has arrived.
OwnedOnArrival ==
    ownedSlots \cup {s \in databaseIssuedSlots \cup SlotsOf(databaseCards) : IsUsableSlot(s)}

PlanNow ==
    PlanReconcile(databaseCards, DumpCardTable(board), OwnedOnArrival, databaseIssuedSlots)

RunReconcilePass ==
    /\ passes < 2
    /\ board' = ApplyPlan(board, PlanNow)
    /\ ownedSlots' = (OwnedOnArrival \cup SlotsOf(PlanNow.writes)) \ PlanNow.clears
    /\ passes' = passes + 1
    /\ UNCHANGED <<databaseCards, databaseIssuedSlots>>

Next == RunReconcilePass

Spec == Init /\ [][Next]_vars

(***************************************************************************)
(* Properties.                                                             *)
(***************************************************************************)

\* "Running it again against the same state writes nothing" (main.ts:38-40): a
\* pass that follows another with the same database has an empty plan.  It does
\* not hold of a card whose tag the read-back takes for an empty slot.
SecondPassWritesNothing ==
    passes > 0 /\ (\A card \in databaseCards : Upper[card.cardNumber] \notin EmptyTag)
        => PlanIsEmpty(PlanNow)

\* What one slot must hold after a pass, decided from that slot alone.
Expected(slot) ==
    LET claims == RowsAt(databaseCards, slot)
        there  == RowsAt(board, slot)
    IN  IF slot \notin 0..(CardSlotCount - 1)
        THEN there                                   \* not the service's to touch
        ELSE IF \E card \in claims : claims = {card}
        THEN {Stored(card) : card \in claims}        \* the one card the database gives it
        ELSE IF slot \in OwnedOnArrival /\ databaseIssuedSlots # {}
        THEN there \ DumpCardTable(there)            \* accounted for, and nobody's now
        ELSE there                                   \* somebody's decision, or an emptied database

\* A pass leaves every slot as the slot-by-slot reading of the rules says: a
\* card lands at its own slot and no other ("The slot is never renumbered"), a
\* contested slot gets neither card, slot CardSlotCount and beyond are never
\* touched, an unaccounted card stays, an emptied database clears nothing.
PassMatchesExpected ==
    [][\A slot \in SlotsOf(board) \cup SlotsOf(board') \cup SlotsOf(databaseCards) :
           RowsAt(board', slot) = Expected(slot)]_vars
=============================================================================
