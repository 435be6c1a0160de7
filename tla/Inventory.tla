------------------------------ MODULE Inventory ------------------------------
(***************************************************************************)
(* The slot inventory of game_core/src/inventory.rs and its conversions to *)
(* and from persistence rows.  An inventory is a sequence of slots, each   *)
(* holding a stack or nothing.                                             *)
(***************************************************************************)
EXTENDS Naturals, Sequences, FiniteSets, SequencesExt

CONSTANTS
  KindOrder,   \* the resource kinds, in the order SQL sorts their names
  NoKind,      \* the kind of an empty slot
  Slots,       \* INVENTORY_CAPACITY (24 in the code)
  MaxStack     \* MAX_STACK_SIZE (99 in the code)

ASSUME InventoryAssumption ==
  /\ KindOrder \in Seq(Range(KindOrder))
  /\ Slots \in Nat
  /\ MaxStack \in Nat \ {0}
  /\ NoKind \notin Range(KindOrder)

Kinds == Range(KindOrder)

Stack == [kind: Kinds, quantity: 1..MaxStack]

Empty == [kind |-> NoKind, quantity |-> 0]

Inventories == [1..Slots -> Stack \cup {Empty}]

EmptyInventory == [i \in 1..Slots |-> Empty]

IsFull(inv) == \A i \in 1..Slots : inv[i] # Empty

SlotsWith(inv, kind) == {i \in 1..Slots : inv[i].kind = kind}

\* first_slot_with: the lowest slot of that kind; 0 when there is none.
FirstSlotWith(inv, kind) ==
  IF SlotsWith(inv, kind) = {} THEN 0
  ELSE CHOOSE i \in SlotsWith(inv, kind) : \A j \in SlotsWith(inv, kind) : i <= j

Least(a, b) == IF a < b THEN a ELSE b

\* What the top-up of the first stack of that kind takes (later stacks of the
\* kind are never topped up).
TopUp(inv, kind, quantity) ==
  LET first == FirstSlotWith(inv, kind)
  IN  IF first = 0 THEN 0 ELSE Least(quantity, MaxStack - inv[first].quantity)

\* What the loop over empty slots puts into slot i: the slots are filled in
\* order, each with as much as a stack holds, while anything remains.
Fill(inv, i, rest) ==
  LET before == MaxStack * Cardinality({j \in 1..(i - 1) : inv[j] = Empty})
  IN  IF inv[i] # Empty \/ rest <= before THEN 0 ELSE Least(rest - before, MaxStack)

\* add(): also when it returns Err(Full), in which case what fitted stays.
Add(inv, kind, quantity) ==
  LET topUp == TopUp(inv, kind, quantity)
  IN  [i \in 1..Slots |->
         LET fill == Fill(inv, i, quantity - topUp)
         IN  CASE i = FirstSlotWith(inv, kind) ->
                    [inv[i] EXCEPT !.quantity = @ + topUp]
               [] fill > 0 -> [kind |-> kind, quantity |-> fill]
               [] OTHER -> inv[i]]

\* remove(index, quantity) where it succeeds: the slot holds that many.
TakeFrom(inv, index, quantity) ==
  LET stack == inv[index]
  IN  [inv EXCEPT ![index] = IF stack.quantity = quantity THEN Empty
                             ELSE [stack EXCEPT !.quantity = @ - quantity]]

\* The sum of a sequence of numbers.
SumOf(amounts) ==
  LET sum[i \in 0..Len(amounts)] == IF i = 0 THEN 0 ELSE sum[i - 1] + amounts[i]
  IN  sum[Len(amounts)]

\* count_item_kind: the quantities of all stacks of that kind.
CountKind(inv, kind) ==
  SumOf([i \in 1..Slots |-> IF inv[i].kind = kind THEN inv[i].quantity ELSE 0])

Row == [kind: Kinds, quantity: Nat \ {0}]

\* The n-th smallest of a set of numbers.
Nth(set, n) == CHOOSE i \in set : Cardinality({j \in set : j <= i}) = n

\* inventory_to_rows: one row per occupied slot, in slot order.
InventoryToRows(inv) ==
  LET taken == {i \in 1..Slots : inv[i] # Empty}
  IN  [n \in 1..Cardinality(taken) |-> inv[Nth(taken, n)]]

\* rows_to_inventory and inventory_from_rows: the rows added one by one to an
\* empty inventory.
RowsToInventory(rows) ==
  LET filled[n \in 0..Len(rows)] ==
        IF n = 0 THEN EmptyInventory
        ELSE Add(filled[n - 1], rows[n].kind, rows[n].quantity)
  IN  filled[Len(rows)]
=============================================================================
