----------------------------- MODULE SlotTable ------------------------------
(***************************************************************************)
(* What the card table promises the door service and the admins: one       *)
(* number per slot and one slot per number, a new card in the lowest slot  *)
(* that is free, a slot that is never given up, and a holder who is there. *)
(* Each operation happens at once.  Module Members implements it.          *)
(***************************************************************************)
EXTENDS Naturals

CONSTANTS
    Member,
    CardNumber,
    SlotCount   \* cards are put in slots 0..SlotCount - 1; a legacy card sits in the one after

VARIABLES
    members,    \* who is a member
    table       \* the cards, by slot: number and holder

Slots == 0..SlotCount
Card == [cardNumber : CardNumber, userId : Member]
Free == 0..(SlotCount - 1) \ DOMAIN table

\* Each card has one slot and a holder who is a member.
Sound ==
    /\ table \in [DOMAIN table -> Card] /\ DOMAIN table \subseteq Slots
    /\ \A s, t \in DOMAIN table : table[s].cardNumber = table[t].cardNumber => s = t
    /\ \A s \in DOMAIN table : table[s].userId \in members

Init == members \subseteq Member /\ Sound

\* A number no slot has goes to a member, in the lowest slot that is free.
Issue(s, n, m) ==
    /\ s \in Free /\ \A t \in Free : s <= t
    /\ n \notin {table[t].cardNumber : t \in DOMAIN table}
    /\ m \in members
    /\ table' = [t \in DOMAIN table \cup {s} |->
                    IF t = s THEN [cardNumber |-> n, userId |-> m] ELSE table[t]]
    /\ UNCHANGED members

\* A card goes to another member; its slot and its number stay.
HandOver(s, m) ==
    /\ s \in DOMAIN table /\ m \in members
    /\ table' = [table EXCEPT ![s].userId = m]
    /\ UNCHANGED members

Join(m) == members' = members \cup {m} /\ UNCHANGED table

\* Only who holds no card can go.
Leave(m) ==
    /\ \A s \in DOMAIN table : table[s].userId # m
    /\ members' = members \ {m}
    /\ UNCHANGED table

Next ==
    \/ \E s \in Slots, m \in Member : HandOver(s, m) \/ \E n \in CardNumber : Issue(s, n, m)
    \/ \E m \in Member : Join(m) \/ Leave(m)

Spec == Init /\ [][Next]_<<members, table>>
=============================================================================
