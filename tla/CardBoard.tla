----------------------------- MODULE CardBoard ------------------------------
(***************************************************************************)
(* What the door service promises about the controller's card table.       *)
(* Admins decide which cards are meant to open a door.  Now and then the   *)
(* service asks; until it lets go of the answer it may put on any card     *)
(* that was meant when it asked, and take the card off any slot that was   *)
(* ever issued - when it is always told everything, only where no card was *)
(* meant.  The board is not asked anything, nothing is lost and nothing    *)
(* fails: DoorSync implements this in many steps.                          *)
(***************************************************************************)
EXTENDS Reconcile

CONSTANT
    AlwaysTold  \* whether the answer always names every card that is meant

VARIABLES
    meant,   \* the cards meant to open a door
    issued,  \* the slots that have ever been given a card
    acts,    \* what people have done so far, counted
    asking,  \* whether the service holds an answer
    asked,   \* what was meant when it asked
    board    \* what the board holds

Slots == 0..(CardSlotCount - 1)
Card == [slot : Slots, cardNumber : CardNumber, permissions : Permission]
IsTable(rows) == rows \subseteq Card /\ \A a, b \in rows : a.slot = b.slot => a = b

Init ==
    /\ IsTable(meant) /\ SlotsOf(meant) \subseteq issued
    /\ ~asking /\ asked = {}
    /\ IsTable(board)

\* Admins change what is meant; a slot once issued stays so.
Decide ==
    /\ IsTable(meant') /\ SlotsOf(meant') \subseteq issued'
    /\ issued \subseteq issued'
    /\ acts' = acts + 1
    /\ UNCHANGED <<asking, asked, board>>

Ask ==
    /\ ~asking /\ asking' = TRUE
    /\ asked' = meant
    /\ UNCHANGED <<meant, issued, acts, board>>

LetGo == asking' = FALSE /\ asked' = {}

\* Done while the service holds an answer, or as the last thing before it lets go.
WhileAsking == asking /\ (LetGo \/ UNCHANGED <<asking, asked>>)

PutOn(card) ==
    /\ WhileAsking
    /\ card \in asked
    /\ board' = WriteCard(board, card)
    /\ UNCHANGED <<meant, issued, acts>>

TakeOff(slot) ==
    /\ WhileAsking
    /\ slot \in issued
    /\ AlwaysTold => slot \notin SlotsOf(asked)
    /\ board' = ClearSlot(board, slot)
    /\ UNCHANGED <<meant, issued, acts>>

GiveUp ==
    /\ asking /\ LetGo
    /\ UNCHANGED <<meant, issued, acts, board>>

\* Somebody writes a card at the board itself.
ByHand(card) ==
    /\ acts' = acts + 1
    /\ board' = WriteCard(board, card)
    /\ UNCHANGED <<meant, issued, asking, asked>>

Next ==
    \/ Decide \/ Ask \/ GiveUp
    \/ \E card \in Card : PutOn(card) \/ ByHand(card)
    \/ \E slot \in Slots : TakeOff(slot)

Spec == Init /\ [][Next]_<<meant, issued, acts, asking, asked, board>>
=============================================================================
