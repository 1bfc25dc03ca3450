------------------------------- MODULE MCWeb --------------------------------
(***************************************************************************)
(* Web with two members, one card, one email address to join with and one  *)
(* role; a request outlives a poll.                                        *)
(***************************************************************************)
EXTENDS Web

CONSTANTS ada, ben, email, card
=============================================================================
