-------------------------- MODULE MCReconcilePass --------------------------
(***************************************************************************)
(* A card table with two usable slots, 0 and 1, the unreadable slot 2, and *)
(* the addresses outside it.  "a" and "A" are one tag in two spellings;    *)
(* "0" is one the read-back takes for an empty slot.                       *)
(***************************************************************************)
EXTENDS ReconcilePass, FiniteSets

MCCardNumber == {"a", "A", "B", "0"}
MCUpper == [n \in MCCardNumber |-> IF n = "a" THEN "A" ELSE n]

MCRow == [slot : {-1, 0, 1, 2, 3}, cardNumber : {"a", "B", "0"}, permissions : {1}]
BoardRow == [slot : {0, 1}, cardNumber : {"A", "B", "0"}, permissions : {1, 255}]

MCDatabaseTables == {rows \in SUBSET MCRow : Cardinality(rows) <= 2}
MCBoardTables ==
    {rows \in SUBSET BoardRow : \A row \in rows : RowsAt(rows, row.slot) = {row}}
MCSlotSets == SUBSET {-1, 0, 1, 2, 3}
=============================================================================
