----------------------------- MODULE MCDoorSync -----------------------------
(***************************************************************************)
(* DoorSync with two usable slots, 0 and 1, and the unreadable slot 2.     *)
(***************************************************************************)
EXTENDS DoorSync, TLC

CONSTANTS m1, m2, a, b

MCUpper == [n \in CardNumber |-> n]

\* Cards the import carried, among them one with a mask that is not a byte, and
\* one at the unreadable slot.
Imported(slot, number, mask) ==
    [slot |-> slot, cardNumber |-> number, permissions |-> mask, userId |-> m1, active |-> TRUE]
OnBoard(slot, number) == [slot |-> slot, cardNumber |-> number, permissions |-> 1]

MCInitialCards == {{}, {Imported(0, a, 1)}, {Imported(0, a, 1), Imported(2, b, 1)}}
MCInitialBoards == {{}, {OnBoard(0, a)}, {OnBoard(0, a), OnBoard(1, b)}}

MCSafetyCards == MCInitialCards \cup {{Imported(1, a, 300)}}

MCImportedOnly == {{Imported(0, a, 1)}}
MCBoardAgrees == {{OnBoard(0, a)}}
=============================================================================
