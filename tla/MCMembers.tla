----------------------------- MODULE MCMembers -----------------------------
(* An admin, somebody who only ever granted a certification, and a free id. *)
EXTENDS Members, TLC

CONSTANTS ada, ben, new, null, n1, n2, n3

MCUsers ==
    ada :> [roles |-> {"admin"}, orientation |-> TRUE, memberLevel |-> FALSE, orientedById |-> null]
 @@ ben :> [roles |-> {"instructor"}, orientation |-> FALSE, memberLevel |-> FALSE, orientedById |-> null]
MCCards == 0 :> [cardNumber |-> n1, userId |-> ada]
MCGrants == {[userId |-> ada, grantedById |-> null]}
MCReleases == {[userId |-> ada, recordedById |-> null]}
=============================================================================
