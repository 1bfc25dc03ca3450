----------------------------- MODULE Reconcile -----------------------------
(***************************************************************************)
(* The pure core of the door service: what one reconcile pass decides      *)
(* (services/door/src/domain/reconcile.ts, slots.ts) and what the board    *)
(* does with the decision (the `m`, `r` and `a` requests).                 *)
(*                                                                         *)
(* A card table is a set of rows [slot, cardNumber, permissions].  The     *)
(* code holds them in arrays; a repeated row cannot occur in either        *)
(* source, because the database keys cards by slot and the board prints    *)
(* each address once, so nothing but the order is lost.                    *)
(***************************************************************************)
EXTENDS Integers

CONSTANTS
    CardSlotCount,  \* CARD_SLOT_COUNT: the slot the board writes and never reads
    CardNumber,     \* tags, as the members database may spell them
    Permission,     \* permission masks
    Upper,          \* Upper[n]: the spelling the board stores and prints back
    EmptyTag        \* tags the read-back takes for an empty slot

ASSUME SlotCountAssumption == CardSlotCount \in Nat \ {0}
ASSUME UpperAssumption ==
    /\ Upper \in [CardNumber -> CardNumber]
    /\ \A n \in CardNumber : Upper[Upper[n]] = Upper[n]
ASSUME EmptyTagAssumption == EmptyTag \subseteq CardNumber

Row == [slot : Int, cardNumber : CardNumber, permissions : Permission]

(***************************************************************************)
(* Slots.                                                                  *)
(***************************************************************************)

\* Why a card cannot live at this slot, or "usable".
SlotRefusal(slot) ==
    CASE slot < 0             -> "not an EEPROM address"
      [] slot = CardSlotCount -> "written and never read"
      [] slot > CardSlotCount -> "past the end of the table"
      [] OTHER                -> "usable"

IsUsableSlot(slot) == SlotRefusal(slot) = "usable"

SlotsOf(rows) == {row.slot : row \in rows}

RowsAt(rows, slot) == {row \in rows : row.slot = slot}

(***************************************************************************)
(* The plan.                                                               *)
(***************************************************************************)

\* The rows a slot can be decided by: usable, and the only claim on the slot.
UsableBySlot(rows) ==
    {row \in rows : IsUsableSlot(row.slot) /\ RowsAt(rows, row.slot) = {row}}

\* A plausible mistake: tags compared as they are spelt.
SameCardAsSpelt(a, b) == a.cardNumber = b.cardNumber /\ a.permissions = b.permissions

\* A plausible mistake: a changed mask is not noticed.
SameTag(a, b) == Upper[a.cardNumber] = Upper[b.cardNumber]

SameCard(a, b) ==
    /\ Upper[a.cardNumber] = Upper[b.cardNumber]
    /\ a.permissions = b.permissions

\* A slot is cleared only if this service has accounted for it.
ClearsOf(unwanted, ownedSlots) == SlotsOf(unwanted) \cap ownedSlots

\* A plausible mistake: the answer of an emptied database is believed.
NeverDistrusted(databaseIssuedSlots, clears) == FALSE

\* A database with no card rows at all is not believed about clears.
Distrusted(databaseIssuedSlots, clears) == databaseIssuedSlots = {} /\ clears # {}

\* `databaseIssuedSlots` is what the API answered in this pass; `ownedSlots`
\* is everything this process has accumulated.
PlanReconcile(databaseCards, controllerCards, ownedSlots, databaseIssuedSlots) ==
    LET wanted     == UsableBySlot(databaseCards)
        held       == UsableBySlot(controllerCards)
        unwanted   == {card \in held : card.slot \notin SlotsOf(wanted)}
        clears     == ClearsOf(unwanted, ownedSlots)
        distrusted == Distrusted(databaseIssuedSlots, clears)
    IN  [writes |-> {card \in wanted :
                        ~ \E present \in held :
                              present.slot = card.slot /\ SameCard(present, card)},
         clears |-> IF distrusted THEN {} ELSE clears,
         unknownControllerCards |-> {card \in unwanted : card.slot \notin ownedSlots},
         refusedCards |-> (databaseCards \ wanted) \cup (controllerCards \ held),
         withheldClears |-> IF distrusted THEN clears ELSE {}]

PlanIsEmpty(plan) == plan.writes = {} /\ plan.clears = {}

(***************************************************************************)
(* The board.                                                              *)
(***************************************************************************)

\* What a write leaves at the slot: the tag as padTag spells it.
Stored(card) == [card EXCEPT !.cardNumber = Upper[card.cardNumber]]

WriteCard(board, card) == (board \ RowsAt(board, card.slot)) \cup {Stored(card)}

ClearSlot(board, slot) == board \ RowsAt(board, slot)

\* The `a` dump as parseCardTable returns it: the readable slots that hold a tag.
DumpCardTable(board) ==
    {row \in board : IsUsableSlot(row.slot) /\ row.cardNumber \notin EmptyTag}

\* Every write and every clear of a plan carried out, each at its own slot.
ApplyPlan(board, plan) ==
    {row \in board : row.slot \notin SlotsOf(plan.writes) \cup plan.clears}
        \cup {Stored(card) : card \in plan.writes}
=============================================================================
