---------------------------- MODULE MCDoorStatus ----------------------------
(***************************************************************************)
(* DoorStatus with the door service's clock ahead of the API's, by as much *)
(* as is tolerated or by far more, and set from one to the other.          *)
(***************************************************************************)
EXTENDS DoorStatus

ClockOffsets == {1, 4}
=============================================================================
