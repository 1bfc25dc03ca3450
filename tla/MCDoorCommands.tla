--------------------------- MODULE MCDoorCommands ---------------------------
(***************************************************************************)
(* DoorCommands with two drains and two commands; a tick is one timeout,   *)
(* and the window is shorter than one.                                     *)
(***************************************************************************)
EXTENDS DoorCommands

CONSTANTS d1, d2
=============================================================================
