----------------------------- MODULE MCDoorLog -----------------------------
(***************************************************************************)
(* DoorLog with a ring of a few slots and tags split by 3.                 *)
(***************************************************************************)
EXTENDS DoorLog
=============================================================================
