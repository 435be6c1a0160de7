--------------------------- MODULE InventoryProofs ---------------------------
(***************************************************************************)
(* Facts about numbers, ranks and sums that the proofs about other modules *)
(* share, and what the operations of Inventory return: that they keep a    *)
(* slot inventory a slot inventory, and how they change what it counts.    *)
(***************************************************************************)
EXTENDS Inventory, FiniteSetTheorems, SequenceTheorems, TLAPS

-----------------------------------------------------------------------------
(* Numbers and ranks. *)

\* A set of numbers that is not empty has a least one.
LEMMA LeastNatural ==
  ASSUME NEW T, T \subseteq Nat, T # {}
  PROVE  \E m \in T : \A n \in T : m <= n
<1> DEFINE R == {ss \in Nat \X Nat : ss[1] < ss[2]}
<1>1. IsWellFoundedOn(R, Nat)
  BY NatLessThanWellFounded, Zenon DEF OpToRel
<1>2. \E x \in T : \A y \in T : ~ (<<y, x>> \in R)
  <2> HIDE DEF R
  <2> QED
    BY <1>1, WFMin
<1>3. PICK x \in T : \A y \in T : ~ (<<y, x>> \in R)
  BY <1>2
<1>4. ASSUME NEW y \in T PROVE x <= y
  <2>1. <<y, x>> \notin R
    BY <1>3
  <2> QED
    BY <2>1
<1> QED
  BY <1>4

\* A bounded one has a greatest.
LEMMA GreatestNatural ==
  ASSUME NEW n \in Nat, NEW T, T \subseteq 0..n, T # {}
  PROVE  \E m \in T : \A k \in T : k <= m
<1> DEFINE U == {k \in 0..n : n - k \in T}
<1>0. U \subseteq Nat
  OBVIOUS
<1>1. U # {}
  <2>1. PICK k \in T : TRUE
    OBVIOUS
  <2>2. n - k \in 0..n /\ n - (n - k) = k
    BY <2>1
  <2>3. n - k \in U
    BY <2>2
  <2> QED
    BY <2>3
<1>2. PICK m \in U : \A k \in U : m <= k
  <2> HIDE DEF U
  <2> QED
    BY <1>0, <1>1, LeastNatural
<1>3. ASSUME NEW k \in T PROVE k <= n - m
  <2>0. n - k \in 0..n /\ n - (n - k) = k
    OBVIOUS
  <2>1. n - k \in U
    BY <2>0
  <2>2. m <= n - k /\ m \in 0..n /\ k \in 0..n
    BY <1>2, <2>1
  <2> QED
    BY <2>2
<1> QED
  BY <1>2, <1>3

\* The members of a finite set of numbers, ranked by size.
Rank(held, i) == Cardinality({j \in held : j <= i})

\* Ranks run from 1 to the size of the set and tell its members apart.
LEMMA RanksAreAll ==
  ASSUME NEW n \in Nat, NEW held, held \subseteq 1..n
  PROVE  /\ Cardinality(held) \in Nat
         /\ \A i \in held : Rank(held, i) \in 1..Cardinality(held)
         /\ \A m \in 1..Cardinality(held) : \E i \in held : Rank(held, i) = m
         /\ \A i, k \in held : Rank(held, i) = Rank(held, k) => i = k
<1>0. \A i \in held : i \in Nat
  OBVIOUS
<1>1. IsFiniteSet(held) /\ Cardinality(held) \in Nat
  <2>1. IsFiniteSet(1..n)
    BY FS_Interval
  <2> QED
    BY <2>1, FS_Subset, FS_CardinalityType
<1>2. \A i \in held : /\ IsFiniteSet({j \in held : j <= i})
                      /\ Rank(held, i) \in Nat
                      /\ Rank(held, i) <= Cardinality(held)
  BY <1>1, FS_Subset, FS_CardinalityType DEF Rank
<1>3. \A i \in held : Rank(held, i) # 0
  <2> SUFFICES ASSUME NEW i \in held PROVE Rank(held, i) # 0
    OBVIOUS
  <2>1. i \in {j \in held : j <= i}
    OBVIOUS
  <2>2. {j \in held : j <= i} # {} /\ IsFiniteSet({j \in held : j <= i})
    BY <1>2, <2>1
  <2> QED
    BY <2>2, FS_EmptySet DEF Rank
<1>4. \A i, k \in held : i < k => Rank(held, i) # Rank(held, k)
  <2> SUFFICES ASSUME NEW i \in held, NEW k \in held, i < k
               PROVE  Rank(held, i) # Rank(held, k)
    OBVIOUS
  <2>1. {j \in held : j <= i} \subseteq {j \in held : j <= k}
    <3>1. ASSUME NEW j \in held, j <= i PROVE j <= k
      <4>1. i \in Nat /\ j \in Nat /\ k \in Nat
        BY <1>0
      <4> QED
        BY <3>1, <4>1
    <3> QED
      BY <3>1
  <2>2. k \in {j \in held : j <= k} /\ k \notin {j \in held : j <= i}
    BY <1>0
  <2>3. {j \in held : j <= i} # {j \in held : j <= k}
    BY <2>2
  <2> QED
    BY <1>2, <2>1, <2>3, FS_Subset, Zenon DEF Rank
<1>8. ASSUME NEW i \in held PROVE Rank(held, i) \in 1..Cardinality(held)
  <2>1. /\ Rank(held, i) \in Nat /\ Rank(held, i) <= Cardinality(held) /\ Rank(held, i) # 0
        /\ Cardinality(held) \in Nat
    BY <1>1, <1>2, <1>3
  <2> QED
    BY <2>1
<1>9. ASSUME NEW i \in held, NEW k \in held, Rank(held, i) = Rank(held, k)
      PROVE  i = k
  <2>1. ~ (i < k) /\ ~ (k < i)
    BY <1>4, <1>9
  <2> QED
    BY <1>0, <2>1
<1> DEFINE f == [i \in held |-> Rank(held, i)]
<1>5. f \in Injection(held, 1..Cardinality(held))
  <2>1. \A i \in held : Rank(held, i) \in 1..Cardinality(held)
    BY <1>8
  <2>2. f \in [held -> 1..Cardinality(held)]
    BY <2>1
  <2>3. \A i, k \in held : f[i] = f[k] => i = k
    BY <1>9
  <2> HIDE DEF f
  <2> QED
    BY <2>2, <2>3 DEF Injection, IsInjective
<1>6. f \in Surjection(held, 1..Cardinality(held))
  <2> HIDE DEF f
  <2>1. IsFiniteSet(1..Cardinality(held)) /\ Cardinality(1..Cardinality(held)) = Cardinality(held)
    BY <1>1, FS_Interval
  <2> QED
    BY <1>5, <2>1, FS_Injection
<1>7. \A m \in 1..Cardinality(held) : \E i \in held : Rank(held, i) = m
  BY <1>6 DEF Surjection
<1> QED
  BY <1>1, <1>7, <1>8, <1>9

\* The n-th smallest member is the one of rank n.
LEMMA NthIsRanked ==
  ASSUME NEW n \in Nat, NEW held, held \subseteq 1..n
  PROVE  /\ Cardinality(held) \in Nat
         /\ \A m \in 1..Cardinality(held) : Nth(held, m) \in held /\ Rank(held, Nth(held, m)) = m
         /\ \A i \in held : /\ Rank(held, i) \in 1..Cardinality(held)
                            /\ Nth(held, Rank(held, i)) = i
<1>1. /\ Cardinality(held) \in Nat
      /\ \A i \in held : Rank(held, i) \in 1..Cardinality(held)
      /\ \A m \in 1..Cardinality(held) : \E i \in held : Rank(held, i) = m
      /\ \A i, k \in held : Rank(held, i) = Rank(held, k) => i = k
  BY RanksAreAll
<1>2. \A m \in 1..Cardinality(held) : Nth(held, m) \in held /\ Rank(held, Nth(held, m)) = m
  BY <1>1 DEF Rank, Nth
<1>3. ASSUME NEW i \in held PROVE Nth(held, Rank(held, i)) = i
  BY <1>1, <1>2
<1> QED
  BY <1>1, <1>2, <1>3

\* Counting up: what holds of 0 and of every number after one it holds of.
LEMMA CountingUp ==
  ASSUME NEW n \in Nat, NEW T, 0 \in T, \A i \in 1..n : i - 1 \in T => i \in T
  PROVE  \A i \in 0..n : i \in T
<1> DEFINE U == {i \in 0..n : i \notin T}
<1>1. SUFFICES ASSUME U # {} PROVE FALSE
  OBVIOUS
<1>2. PICK m \in U : \A k \in U : m <= k
  <2>1. U \subseteq Nat
    OBVIOUS
  <2> HIDE DEF U
  <2> QED
    BY <1>1, <2>1, LeastNatural
<1>3. m # 0
  OBVIOUS
<1>4. m \in 1..n /\ m - 1 \in 0..n
  BY <1>3
<1>5. m - 1 \in T
  <2>1. m - 1 \notin U
    BY <1>2, <1>4
  <2> QED
    BY <1>4, <2>1
<1> QED
  BY <1>4, <1>5

\* g starts with base, and f[i] gives its i-th value from the one before.
Iterates(g, base, n, f) ==
  /\ g[0] = base
  /\ \A i \in 1..n : g[i] = f[i][g[i - 1]]

\* A function may be defined by giving its first value and each next one.
LEMMA PrimitiveRecursion ==
  ASSUME NEW S, NEW base \in S, NEW n \in Nat, NEW f \in [1..n -> [S -> S]]
  PROVE  \E g \in [0..n -> S] : Iterates(g, base, n, f)
<1> DEFINE Upto(g, m) == /\ g \in [0..m -> S]
                         /\ Iterates(g, base, m, f)
           T == {m \in 0..n : \E g : Upto(g, m)}
<1>1. 0 \in T
  <2>1. Upto([i \in 0..0 |-> base], 0)
    BY DEF Iterates
  <2>2. \E g : Upto(g, 0)
    BY <2>1
  <2> HIDE DEF Upto
  <2> QED
    BY <2>2
<1>2. ASSUME NEW m \in 1..n, m - 1 \in T PROVE m \in T
  <2>1. PICK g : Upto(g, m - 1)
    BY <1>2
  <2>2. \A i \in 0..(m - 1) : g[i] \in S
    BY <2>1
  <2>3. PICK last \in S : last = f[m][g[m - 1]]
    <3>1. m - 1 \in 0..(m - 1)
      OBVIOUS
    <3>2. g[m - 1] \in S /\ f[m] \in [S -> S]
      BY <2>2, <3>1
    <3> QED
      BY <3>2
  <2> DEFINE h == [i \in 0..m |-> IF i < m THEN g[i] ELSE last]
  <2>4. /\ \A i \in 0..(m - 1) : h[i] = g[i]
        /\ h[m] = last
        /\ h \in [0..m -> S]
    BY <2>2
  <2>5. h[0] = base
    BY <2>1, <2>4 DEF Iterates
  <2>6. ASSUME NEW i \in 1..m PROVE h[i] = f[i][h[i - 1]]
    <3>1. i - 1 \in 0..(m - 1) /\ h[i - 1] = g[i - 1]
      BY <2>4
    <3>2. CASE i = m
      BY <2>3, <2>4, <3>1, <3>2
    <3>3. CASE i # m
      <4>1. i \in 1..(m - 1)
        BY <3>3
      <4>2. g[i] = f[i][g[i - 1]]
        BY <2>1, <4>1 DEF Iterates
      <4>3. h[i] = g[i]
        BY <2>4, <4>1
      <4> QED
        BY <3>1, <4>2, <4>3
    <3> QED
      BY <3>2, <3>3
  <2> HIDE DEF h
  <2>7. Upto(h, m)
    BY <2>4, <2>5, <2>6 DEF Iterates
  <2> HIDE DEF Upto
  <2> QED
    BY <2>7
<1>3. n \in T
  <2> HIDE DEF T
  <2>1. \A i \in 0..n : i \in T
    BY <1>1, <1>2, CountingUp, Zenon
  <2> QED
    BY <2>1
<1> QED
  BY <1>3

-----------------------------------------------------------------------------
(* Slots. *)

\* What a slot of an inventory holds.
LEMMA SlotHolds ==
  ASSUME NEW inv \in Inventories, NEW i \in 1..Slots
  PROVE  /\ inv[i] = Empty \/ inv[i] \in Stack
         /\ inv[i] \in Stack => /\ inv[i].kind \in Kinds /\ inv[i].quantity \in 1..MaxStack
                                /\ inv[i] # Empty
         /\ inv[i] = Empty => inv[i].kind = NoKind /\ inv[i].quantity = 0
         /\ inv[i].quantity \in 0..MaxStack
         /\ inv[i].kind \in Kinds => inv[i] \in Stack
<1>1. MaxStack \in Nat /\ MaxStack # 0 /\ NoKind \notin Kinds
  BY InventoryAssumption DEF Kinds
<1>2. inv[i] \in Stack \cup {Empty}
  BY DEF Inventories
<1> QED
  BY <1>1, <1>2 DEF Stack, Empty

\* The empty inventory is one.
LEMMA EmptyIsInventory == EmptyInventory \in Inventories
BY DEF EmptyInventory, Inventories

\* first_slot_with finds a slot of the kind, if there is one.
LEMMA FirstSlot ==
  ASSUME NEW inv \in Inventories, NEW kind
  PROVE  \/ /\ FirstSlotWith(inv, kind) = 0
            /\ \A i \in 1..Slots : inv[i].kind # kind
         \/ /\ FirstSlotWith(inv, kind) \in 1..Slots
            /\ inv[FirstSlotWith(inv, kind)].kind = kind
<1>1. SlotsWith(inv, kind) \subseteq 1..Slots /\ SlotsWith(inv, kind) \subseteq Nat
  BY InventoryAssumption DEF SlotsWith
<1>2. CASE SlotsWith(inv, kind) = {}
  BY <1>2 DEF FirstSlotWith, SlotsWith
<1>3. CASE SlotsWith(inv, kind) # {}
  <2>1. \E m \in SlotsWith(inv, kind) : \A j \in SlotsWith(inv, kind) : m <= j
    BY <1>1, <1>3, LeastNatural
  <2>2. FirstSlotWith(inv, kind) \in SlotsWith(inv, kind)
    BY <1>3, <2>1 DEF FirstSlotWith
  <2> QED
    BY <1>1, <2>2 DEF SlotsWith
<1> QED
  BY <1>2, <1>3

\* The top-up takes no more than there is and than fits.
LEMMA TopUpFits ==
  ASSUME NEW inv \in Inventories, NEW kind \in Kinds, NEW quantity \in Nat
  PROVE  LET first == FirstSlotWith(inv, kind)
         IN  /\ TopUp(inv, kind, quantity) \in 0..quantity
             /\ first = 0 => TopUp(inv, kind, quantity) = 0
             /\ first # 0 => inv[first].quantity + TopUp(inv, kind, quantity) \in 1..MaxStack
             /\ first # 0 /\ inv[first].quantity < MaxStack /\ quantity > 0 =>
                  TopUp(inv, kind, quantity) > 0
<1>0. MaxStack \in Nat
  BY InventoryAssumption
<1>1. CASE FirstSlotWith(inv, kind) = 0
  BY <1>1 DEF TopUp
<1>2. CASE FirstSlotWith(inv, kind) # 0
  <2>1. PICK first : first = FirstSlotWith(inv, kind) /\ first \in 1..Slots
                     /\ inv[first].kind = kind
    BY <1>2, FirstSlot
  <2>2. inv[first].quantity \in 1..MaxStack
    BY <2>1, SlotHolds
  <2>3. TopUp(inv, kind, quantity) = Least(quantity, MaxStack - inv[first].quantity)
    BY <1>2, <2>1 DEF TopUp
  <2> QED
    BY <1>0, <1>2, <2>1, <2>2, <2>3 DEF Least
<1> QED
  BY <1>1, <1>2

\* Nothing is filled into a slot that is taken, and no more into another than a stack holds.
LEMMA FillFits ==
  ASSUME NEW inv \in Inventories, NEW i \in 1..Slots, NEW rest \in Nat
  PROVE  /\ Fill(inv, i, rest) \in 0..MaxStack
         /\ Fill(inv, i, rest) > 0 => inv[i] = Empty
<1> DEFINE earlier == {j \in 1..(i - 1) : inv[j] = Empty}
<1>0. MaxStack \in Nat /\ i \in Nat
  BY InventoryAssumption
<1>1. Cardinality(earlier) \in Nat
  <2>1. IsFiniteSet(1..(i - 1)) /\ earlier \subseteq 1..(i - 1)
    BY <1>0, FS_Interval
  <2> QED
    BY <2>1, FS_Subset, FS_CardinalityType
<1>2. PICK before \in Nat : before = MaxStack * Cardinality(earlier)
  <2> HIDE DEF earlier
  <2> QED
    BY <1>0, <1>1
<1>3. Fill(inv, i, rest) = IF inv[i] # Empty \/ rest <= before THEN 0
                           ELSE Least(rest - before, MaxStack)
  BY <1>2 DEF Fill
<1> QED
  BY <1>0, <1>3 DEF Least

\* add() slot by slot: what it leaves is again an inventory.
LEMMA AddKeepsInventory ==
  ASSUME NEW inv \in Inventories, NEW kind \in Kinds, NEW quantity \in Nat
  PROVE  Add(inv, kind, quantity) \in Inventories
<1>1. PICK first, topUp, rest \in Nat :
        /\ first = FirstSlotWith(inv, kind) /\ topUp = TopUp(inv, kind, quantity)
        /\ rest = quantity - topUp /\ topUp \in Nat
        /\ first # 0 => inv[first].quantity + topUp \in 1..MaxStack
        /\ first # 0 => inv[first].kind = kind
  BY TopUpFits, FirstSlot
<1> DEFINE slot(i) == CASE i = first -> [inv[i] EXCEPT !.quantity = @ + topUp]
                        [] Fill(inv, i, rest) > 0 -> [kind |-> kind, quantity |-> Fill(inv, i, rest)]
                        [] OTHER -> inv[i]
<1>2. ASSUME NEW i \in 1..Slots PROVE slot(i) \in Stack \cup {Empty}
  <2>0. PICK fill \in 0..MaxStack : fill = Fill(inv, i, rest) /\ (fill > 0 => inv[i] = Empty)
    BY FillFits
  <2>1. CASE i = first
    <3>1. first # 0 /\ inv[i].kind = kind /\ inv[i].quantity + topUp \in 1..MaxStack
      BY <1>1, <2>1, InventoryAssumption
    <3>2. inv[i] \in Stack /\ inv[i] # Empty
      BY <3>1, SlotHolds
    <3>3. slot(i) = [inv[i] EXCEPT !.quantity = @ + topUp]
      BY <2>0, <2>1, <3>2
    <3> HIDE DEF slot
    <3> QED
      BY <3>1, <3>2, <3>3 DEF Stack
  <2>2. CASE i # first /\ fill > 0
    <3>1. fill \in 1..MaxStack
      BY <2>2, InventoryAssumption
    <3>2. slot(i) = [kind |-> kind, quantity |-> fill]
      BY <2>0, <2>2
    <3> HIDE DEF slot
    <3> QED
      BY <3>1, <3>2 DEF Stack
  <2>3. CASE i # first /\ ~ (fill > 0)
    BY <2>0, <2>3 DEF Inventories
  <2> QED
    BY <2>1, <2>2, <2>3
<1>3. Add(inv, kind, quantity) = [i \in 1..Slots |-> slot(i)]
  BY <1>1 DEF Add
<1> HIDE DEF slot
<1> QED
  BY <1>2, <1>3 DEF Inventories

\* remove() of one from a slot that is taken.
LEMMA TakeKeepsInventory ==
  ASSUME NEW inv \in Inventories, NEW i \in 1..Slots, inv[i].kind \in Kinds
  PROVE  /\ TakeFrom(inv, i, 1) \in Inventories
         /\ \A j \in 1..Slots : j # i => TakeFrom(inv, i, 1)[j] = inv[j]
         /\ TakeFrom(inv, i, 1)[i].quantity <= inv[i].quantity
         /\ TakeFrom(inv, i, 1)[i].kind \in {inv[i].kind, NoKind}
<1>1. inv[i] \in Stack /\ inv[i].quantity \in 1..MaxStack /\ MaxStack \in Nat
  BY SlotHolds, InventoryAssumption
<1>2. PICK new : new = IF inv[i].quantity = 1 THEN Empty
                       ELSE [inv[i] EXCEPT !.quantity = @ - 1]
  OBVIOUS
<1>3. TakeFrom(inv, i, 1) = [inv EXCEPT ![i] = new]
  BY <1>2 DEF TakeFrom
<1>4. /\ new \in Stack \cup {Empty} /\ new.quantity <= inv[i].quantity
      /\ new.kind \in {inv[i].kind, NoKind}
  <2>1. CASE inv[i].quantity = 1
    BY <1>1, <1>2, <2>1 DEF Empty
  <2>2. CASE inv[i].quantity # 1
    <3>1. inv[i].quantity - 1 \in 1..MaxStack
      BY <1>1, <2>2
    <3>2. new = [inv[i] EXCEPT !.quantity = @ - 1]
      BY <1>2, <2>2
    <3>3. new.quantity = inv[i].quantity - 1 /\ new.kind = inv[i].kind /\ new \in Stack
      BY <1>1, <3>1, <3>2 DEF Stack
    <3> QED
      BY <1>1, <3>3
  <2> QED
    BY <2>1, <2>2
<1> QED
  BY <1>3, <1>4 DEF Inventories

-----------------------------------------------------------------------------
(* Sums. *)

\* g[i] is the sum of the first i entries of a, which has n.
SumsUp(g, a, n) ==
  /\ g \in [0..n -> Nat]
  /\ g[0] = 0
  /\ \A i \in 1..n : g[i] = g[i - 1] + a[i]

\* Every list of numbers has its sums.
LEMMA SumsExist ==
  ASSUME NEW n \in Nat, NEW a \in [1..n -> Nat]
  PROVE  \E g : SumsUp(g, a, n)
<1> DEFINE f == [i \in 1..n |-> [x \in Nat |-> x + a[i]]]
<1>1. f \in [1..n -> [Nat -> Nat]]
  OBVIOUS
<1>2. \A x \in Nat, i \in 1..n : f[i][x] = x + a[i]
  OBVIOUS
<1> HIDE DEF f
<1>3. PICK g \in [0..n -> Nat] : Iterates(g, 0, n, f)
  <2>1. 0 \in Nat
    OBVIOUS
  <2> QED
    BY <1>1, <2>1, PrimitiveRecursion, Zenon
<1>4. ASSUME NEW i \in 1..n PROVE g[i] = g[i - 1] + a[i]
  <2>1. g[i - 1] \in Nat
    OBVIOUS
  <2> QED
    BY <1>2, <1>3, <2>1 DEF Iterates
<1> QED
  BY <1>3, <1>4 DEF SumsUp, Iterates

\* SumOf is the last of them.
LEMMA SumIsLast ==
  ASSUME NEW n \in Nat, NEW a \in [1..n -> Nat], NEW g, SumsUp(g, a, n)
  PROVE  SumOf(a) = g[n]
<1>0. Len(a) = n
  <2>1. a \in Seq(Nat) /\ DOMAIN a = 1..n
    OBVIOUS
  <2> QED
    BY <2>1
<1> DEFINE sums(sum) == sum = [i \in 0..Len(a) |-> IF i = 0 THEN 0 ELSE sum[i - 1] + a[i]]
<1>1. sums(g)
  BY <1>0 DEF SumsUp
<1>2. PICK sum : sums(sum) /\ sum = CHOOSE s : sums(s)
  BY <1>1
<1>3. SumOf(a) = sum[n]
  BY <1>0, <1>2 DEF SumOf
<1>4. sum[0] = 0 /\ \A i \in 1..n : sum[i] = sum[i - 1] + a[i]
  BY <1>0, <1>2
<1> DEFINE T == {i \in 0..n : sum[i] = g[i]}
<1>5. 0 \in T
  BY <1>4 DEF SumsUp
<1>6. ASSUME NEW i \in 1..n, i - 1 \in T PROVE i \in T
  <2>1. sum[i] = sum[i - 1] + a[i] /\ g[i] = g[i - 1] + a[i] /\ sum[i - 1] = g[i - 1]
    BY <1>4, <1>6 DEF SumsUp
  <2>2. sum[i] = g[i]
    BY <2>1
  <2> QED
    BY <2>2
<1>7. n \in T
  <2> HIDE DEF T
  <2>1. \A i \in 0..n : i \in T
    BY <1>5, <1>6, CountingUp, Zenon
  <2> QED
    BY <2>1
<1> QED
  BY <1>3, <1>7

\* So it is a number.
LEMMA SumIsNumber ==
  ASSUME NEW n \in Nat, NEW a \in [1..n -> Nat]
  PROVE  SumOf(a) \in Nat
<1>1. PICK g : SumsUp(g, a, n)
  BY SumsExist
<1>2. SumOf(a) = g[n]
  BY <1>1, SumIsLast
<1> QED
  BY <1>1, <1>2 DEF SumsUp

\* One entry changes: so does the sum, by as much.
LEMMA SumWithChange ==
  ASSUME NEW n \in Nat, NEW a \in [1..n -> Nat], NEW b \in [1..n -> Nat], NEW s \in 1..n,
         \A i \in 1..n : i # s => b[i] = a[i]
  PROVE  SumOf(b) + a[s] = SumOf(a) + b[s]
<1>1. PICK g, h : SumsUp(g, a, n) /\ SumsUp(h, b, n)
  BY SumsExist
<1> DEFINE T == {i \in 0..n : IF i < s THEN h[i] = g[i] ELSE h[i] + a[s] = g[i] + b[s]}
<1>2. 0 \in T
  BY <1>1 DEF SumsUp
<1>3. ASSUME NEW i \in 1..n, i - 1 \in T PROVE i \in T
  <2>1. h[i] = h[i - 1] + b[i] /\ g[i] = g[i - 1] + a[i]
    BY <1>1 DEF SumsUp
  <2>2. /\ h[i - 1] \in Nat /\ g[i - 1] \in Nat /\ a[i] \in Nat /\ b[i] \in Nat
        /\ a[s] \in Nat /\ b[s] \in Nat
    BY <1>1 DEF SumsUp
  <2>3. IF i - 1 < s THEN h[i - 1] = g[i - 1] ELSE h[i - 1] + a[s] = g[i - 1] + b[s]
    BY <1>3
  <2>4. i # s => b[i] = a[i]
    OBVIOUS
  <2>5. IF i < s THEN h[i] = g[i] ELSE h[i] + a[s] = g[i] + b[s]
    <3>1. CASE i < s
      BY <2>1, <2>2, <2>3, <2>4, <3>1
    <3>2. CASE i = s
      <4>1. h[i - 1] = g[i - 1]
        BY <2>3, <3>2
      <4> QED
        BY <2>1, <2>2, <3>2, <4>1
    <3>3. CASE i > s
      <4>1. h[i - 1] + a[s] = g[i - 1] + b[s] /\ b[i] = a[i]
        BY <2>3, <2>4, <3>3
      <4>2. (h[i - 1] + a[i]) + a[s] = (g[i - 1] + a[i]) + b[s]
        <5>1. PICK p, q, r, t, u \in Nat :
                p = h[i - 1] /\ q = a[s] /\ r = g[i - 1] /\ t = b[s] /\ u = a[i]
          BY <2>2, Zenon
        <5>2. p + q = r + t
          BY <4>1, <5>1, Zenon
        <5>3. (p + u) + q = (r + u) + t
          BY <5>2
        <5> QED
          BY <5>1, <5>3, Zenon
      <4> QED
        BY <2>1, <3>3, <4>1, <4>2
    <3> QED
      BY <3>1, <3>2, <3>3
  <2> QED
    BY <2>5
<1>4. n \in T
  <2> HIDE DEF T
  <2>1. \A i \in 0..n : i \in T
    BY <1>2, <1>3, CountingUp, Zenon
  <2> QED
    BY <2>1
<1> QED
  BY <1>1, <1>4, SumIsLast

\* Every entry of b is as much more than that of a as d's is more than c's.
GrowAlike(a, b, c, d, n) == \A i \in 1..n : b[i] + c[i] = a[i] + d[i]

\* The same of their sums.
SumsAlike(a, b, c, d) == SumOf(b) + SumOf(c) = SumOf(a) + SumOf(d)

\* Every entry changes by as much as that of another list: so do the sums.
LEMMA SumsChangeAlike ==
  ASSUME NEW n \in Nat, NEW a \in [1..n -> Nat], NEW b \in [1..n -> Nat],
         NEW c \in [1..n -> Nat], NEW d \in [1..n -> Nat],
         GrowAlike(a, b, c, d, n)
  PROVE  SumsAlike(a, b, c, d)
<1>1. PICK g, h, k, m :
        SumsUp(g, a, n) /\ SumsUp(h, b, n) /\ SumsUp(k, c, n) /\ SumsUp(m, d, n)
  BY SumsExist
<1> DEFINE T == {i \in 0..n : h[i] + k[i] = g[i] + m[i]}
<1>2. 0 \in T
  BY <1>1 DEF SumsUp
<1>3. ASSUME NEW i \in 1..n, i - 1 \in T PROVE i \in T
  <2>1. /\ h[i] = h[i - 1] + b[i] /\ g[i] = g[i - 1] + a[i]
        /\ k[i] = k[i - 1] + c[i] /\ m[i] = m[i - 1] + d[i]
    BY <1>1 DEF SumsUp
  <2>2. i - 1 \in 0..n
    OBVIOUS
  <2>3. /\ h[i - 1] \in Nat /\ g[i - 1] \in Nat /\ k[i - 1] \in Nat /\ m[i - 1] \in Nat
    BY <1>1, <2>2 DEF SumsUp
  <2>4. a[i] \in Nat /\ b[i] \in Nat /\ c[i] \in Nat /\ d[i] \in Nat
    OBVIOUS
  <2>5. h[i - 1] + k[i - 1] = g[i - 1] + m[i - 1] /\ b[i] + c[i] = a[i] + d[i]
    BY <1>3 DEF GrowAlike
  <2>6. (h[i - 1] + b[i]) + (k[i - 1] + c[i]) = (g[i - 1] + a[i]) + (m[i - 1] + d[i])
    <3>1. PICK p, q, r, s, t, u, v, w \in Nat :
            /\ p = h[i - 1] /\ q = k[i - 1] /\ r = g[i - 1] /\ s = m[i - 1]
            /\ t = b[i] /\ u = c[i] /\ v = a[i] /\ w = d[i]
      BY <2>3, <2>4, Zenon
    <3>2. p + q = r + s /\ t + u = v + w
      BY <2>5, <3>1, Zenon
    <3>3. (p + t) + (q + u) = (r + v) + (s + w)
      BY <3>2
    <3> QED
      BY <3>1, <3>3, Zenon
  <2>7. h[i] + k[i] = g[i] + m[i]
    BY <2>1, <2>6
  <2> QED
    BY <2>7
<1>4. n \in T
  <2> HIDE DEF T
  <2>1. \A i \in 0..n : i \in T
    BY <1>2, <1>3, CountingUp, Zenon
  <2> QED
    BY <2>1
<1>5. SumOf(a) = g[n] /\ SumOf(b) = h[n] /\ SumOf(c) = k[n] /\ SumOf(d) = m[n]
  BY <1>1, SumIsLast
<1> QED
  BY <1>4, <1>5 DEF SumsAlike

\* No entry is larger: nor is the sum.
LEMMA SumOfNoMore ==
  ASSUME NEW n \in Nat, NEW a \in [1..n -> Nat], NEW b \in [1..n -> Nat],
         \A i \in 1..n : b[i] <= a[i]
  PROVE  SumOf(b) <= SumOf(a)
<1>1. PICK g, h : SumsUp(g, a, n) /\ SumsUp(h, b, n)
  BY SumsExist
<1> DEFINE T == {i \in 0..n : h[i] <= g[i]}
<1>2. 0 \in T
  BY <1>1 DEF SumsUp
<1>3. ASSUME NEW i \in 1..n, i - 1 \in T PROVE i \in T
  <2>1. h[i] = h[i - 1] + b[i] /\ g[i] = g[i - 1] + a[i] /\ b[i] <= a[i]
    BY <1>1 DEF SumsUp
  <2>2. /\ g[i - 1] \in Nat /\ h[i - 1] \in Nat /\ a[i] \in Nat /\ b[i] \in Nat
        /\ h[i - 1] <= g[i - 1]
    BY <1>1, <1>3 DEF SumsUp
  <2> QED
    BY <2>1, <2>2
<1>4. n \in T
  <2> HIDE DEF T
  <2>1. \A i \in 0..n : i \in T
    BY <1>2, <1>3, CountingUp, Zenon
  <2> QED
    BY <2>1
<1> QED
  BY <1>1, <1>4, SumIsLast

\* One entry more at the end.
LEMMA SumOfAppend ==
  ASSUME NEW n \in Nat, NEW a \in [1..n -> Nat], NEW b \in [1..(n + 1) -> Nat],
         \A i \in 1..n : b[i] = a[i]
  PROVE  SumOf(b) = SumOf(a) + b[n + 1]
<1>1. PICK h : SumsUp(h, b, n + 1)
  BY SumsExist
<1> DEFINE g == [i \in 0..n |-> h[i]]
<1>2. SumsUp(g, a, n)
  BY <1>1 DEF SumsUp
<1>3. g[n] = h[n] /\ h[n + 1] = h[n] + b[n + 1]
  BY <1>1 DEF SumsUp
<1> HIDE DEF g
<1>4. SumOf(a) = g[n] /\ SumOf(b) = h[n + 1]
  BY <1>1, <1>2, SumIsLast
<1> QED
  BY <1>3, <1>4

-----------------------------------------------------------------------------
(* Counting the items of a kind. *)

\* How many of them each slot holds.
Amounts(inv, kind) ==
  [i \in 1..Slots |-> IF inv[i].kind = kind THEN inv[i].quantity ELSE 0]

\* They are numbers.
LEMMA AmountsAreNumbers ==
  ASSUME NEW inv \in Inventories, NEW kind
  PROVE  Amounts(inv, kind) \in [1..Slots -> Nat] /\ Slots \in Nat
<1>1. \A i \in 1..Slots : inv[i].quantity \in Nat
  BY SlotHolds, InventoryAssumption
<1> QED
  BY <1>1, InventoryAssumption DEF Amounts

\* count_item_kind is their sum.
LEMMA CountIsSum ==
  ASSUME NEW inv, NEW kind
  PROVE  CountKind(inv, kind) = SumOf(Amounts(inv, kind))
BY DEF CountKind, Amounts

\* It is a number.
LEMMA CountIsNumber ==
  ASSUME NEW inv \in Inventories, NEW kind
  PROVE  CountKind(inv, kind) \in Nat
BY CountIsSum, AmountsAreNumbers, SumIsNumber

\* Slots that hold no more make no larger count.
LEMMA CountsNoMore ==
  ASSUME NEW inv \in Inventories, NEW new \in Inventories, NEW kind,
         \A i \in 1..Slots : Amounts(new, kind)[i] <= Amounts(inv, kind)[i]
  PROVE  CountKind(new, kind) <= CountKind(inv, kind)
BY CountIsSum, AmountsAreNumbers, SumOfNoMore

\* Taking one item away leaves no more of any kind.
LEMMA TakingCounts ==
  ASSUME NEW inv \in Inventories, NEW i \in 1..Slots, inv[i].kind \in Kinds, NEW kind \in Kinds
  PROVE  CountKind(TakeFrom(inv, i, 1), kind) <= CountKind(inv, kind)
<1>1. PICK new \in Inventories :
        /\ new = TakeFrom(inv, i, 1)
        /\ \A j \in 1..Slots : j # i => new[j] = inv[j]
        /\ new[i].quantity <= inv[i].quantity
        /\ new[i].kind \in {inv[i].kind, NoKind}
  BY TakeKeepsInventory
<1>2. kind # NoKind
  BY InventoryAssumption DEF Kinds
<1>3. ASSUME NEW j \in 1..Slots PROVE Amounts(new, kind)[j] <= Amounts(inv, kind)[j]
  <2>1. inv[j].quantity \in Nat /\ new[j].quantity \in Nat
    BY SlotHolds, InventoryAssumption
  <2> QED
    BY <1>1, <1>2, <2>1 DEF Amounts
<1> QED
  BY <1>1, <1>3, CountsNoMore

\* With a slot left, what is more than the top-up goes into the first empty slot.
LEMMA FillsFirstEmpty ==
  ASSUME NEW inv \in Inventories, ~ IsFull(inv)
  PROVE  \E e \in 1..Slots :
           /\ inv[e] = Empty
           /\ \A rest \in 0..MaxStack, i \in 1..Slots :
                Fill(inv, i, rest) = IF i = e THEN rest ELSE 0
<1>0. Slots \in Nat /\ MaxStack \in Nat /\ MaxStack > 0
  BY InventoryAssumption
<1> DEFINE free == {i \in 1..Slots : inv[i] = Empty}
<1>1. free # {} /\ free \subseteq Nat
  BY <1>0 DEF IsFull
<1>2. PICK e \in free : \A j \in free : e <= j
  <2> HIDE DEF free
  <2> QED
    BY <1>1, LeastNatural
<1>3. ASSUME NEW rest \in 0..MaxStack, NEW i \in 1..Slots
      PROVE  Fill(inv, i, rest) = IF i = e THEN rest ELSE 0
  <2> DEFINE earlier == {j \in 1..(i - 1) : inv[j] = Empty}
  <2>1. CASE i = e
    <3>1. earlier = {}
      BY <1>0, <1>2, <2>1
    <3>2. Cardinality(earlier) = 0
      <4> HIDE DEF earlier
      <4> QED
        BY <3>1, FS_EmptySet
    <3>3. MaxStack * Cardinality(earlier) = 0
      <4> HIDE DEF earlier
      <4> QED
        BY <1>0, <3>2
    <3>4. Fill(inv, i, rest) = IF inv[i] # Empty \/ rest <= 0 THEN 0 ELSE Least(rest - 0, MaxStack)
      BY <3>3 DEF Fill
    <3>5. inv[i] = Empty
      BY <1>2, <2>1
    <3> QED
      BY <1>0, <2>1, <3>4, <3>5 DEF Least
  <2>2. CASE i # e /\ inv[i] = Empty
    <3>1. e \in earlier
      BY <1>0, <1>2, <2>2
    <3>2. IsFiniteSet(earlier)
      <4>1. IsFiniteSet(1..(i - 1)) /\ earlier \subseteq 1..(i - 1)
        BY <1>0, FS_Interval
      <4> QED
        BY <4>1, FS_Subset
    <3>3. Cardinality(earlier) \in Nat /\ Cardinality(earlier) # 0
      <4> HIDE DEF earlier
      <4> QED
        BY <3>1, <3>2, FS_CardinalityType, FS_EmptySet
    <3>4. PICK before \in Nat : before = MaxStack * Cardinality(earlier) /\ MaxStack <= before
      <4> HIDE DEF earlier
      <4>1. PICK c \in Nat : Cardinality(earlier) = c + 1
        <5>1. Cardinality(earlier) - 1 \in Nat
          BY <3>3
        <5> QED
          BY <3>3, <5>1
      <4>2. MaxStack * (c + 1) = MaxStack * c + MaxStack /\ MaxStack * c \in Nat
        BY <1>0
      <4> QED
        BY <1>0, <4>1, <4>2
    <3>5. rest <= before
      BY <1>0, <3>4
    <3> QED
      BY <2>2, <3>4, <3>5 DEF Fill
  <2>3. CASE inv[i] # Empty
    BY <1>2, <2>3 DEF Fill
  <2> QED
    BY <2>1, <2>2, <2>3
<1> QED
  BY <1>2, <1>3

\* add() of at most a stack to an inventory that is not full loses nothing: it
\* counts that much more of the kind, and as much as before of the others.
LEMMA AddingCounts ==
  ASSUME NEW inv \in Inventories, ~ IsFull(inv), NEW kind \in Kinds,
         NEW quantity \in 1..MaxStack, NEW k \in Kinds
  PROVE  CountKind(Add(inv, kind, quantity), k) =
           CountKind(inv, k) + IF k = kind THEN quantity ELSE 0
<1>0. Slots \in Nat /\ MaxStack \in Nat /\ quantity \in Nat /\ NoKind \notin Kinds
  BY InventoryAssumption DEF Kinds
<1>1. PICK first \in 0..Slots, topUp \in Nat, rest \in 0..MaxStack :
        /\ first = FirstSlotWith(inv, kind) /\ topUp = TopUp(inv, kind, quantity)
        /\ rest = quantity - topUp
        /\ first = 0 => topUp = 0
        /\ first # 0 => inv[first].kind = kind
  <2>1. TopUp(inv, kind, quantity) \in 0..quantity
    BY <1>0, TopUpFits
  <2>2. quantity - TopUp(inv, kind, quantity) \in 0..MaxStack
    BY <1>0, <2>1
  <2>3. FirstSlotWith(inv, kind) \in 0..Slots
    BY <1>0, FirstSlot
  <2>4. FirstSlotWith(inv, kind) = 0 => TopUp(inv, kind, quantity) = 0
    BY <1>0, TopUpFits
  <2>5. FirstSlotWith(inv, kind) # 0 => inv[FirstSlotWith(inv, kind)].kind = kind
    BY FirstSlot
  <2> QED
    BY <1>0, <2>1, <2>2, <2>3, <2>4, <2>5
<1>2. PICK e \in 1..Slots :
        /\ inv[e] = Empty
        /\ \A i \in 1..Slots : Fill(inv, i, rest) = IF i = e THEN rest ELSE 0
  BY FillsFirstEmpty
<1>3. PICK new \in Inventories : new = Add(inv, kind, quantity)
  BY <1>0, AddKeepsInventory
<1>4. first # e
  <2>1. first # 0 => inv[first] # Empty
    BY <1>0, <1>1 DEF Empty
  <2> QED
    BY <1>0, <1>2, <2>1
<1> DEFINE more(i) == IF i = first THEN topUp ELSE IF i = e THEN rest ELSE 0
<1>5. ASSUME NEW i \in 1..Slots
      PROVE  Amounts(new, k)[i] = Amounts(inv, k)[i] + IF k = kind THEN more(i) ELSE 0
  <2>0. new[i] = CASE i = first -> [inv[i] EXCEPT !.quantity = @ + topUp]
                   [] Fill(inv, i, rest) > 0 -> [kind |-> kind, quantity |-> Fill(inv, i, rest)]
                   [] OTHER -> inv[i]
    BY <1>1, <1>3 DEF Add
  <2>1. Fill(inv, i, rest) = IF i = e THEN rest ELSE 0
    BY <1>2
  <2>2. inv[i].quantity \in Nat
    BY <1>0, SlotHolds
  <2>3. CASE i = first
    <3>1. inv[i].kind = kind /\ inv[i] \in Stack
      BY <1>0, <1>1, <2>3, SlotHolds
    <3>2. new[i] = [inv[i] EXCEPT !.quantity = @ + topUp]
      BY <1>4, <2>0, <2>1, <2>3
    <3>3. new[i].kind = kind /\ new[i].quantity = inv[i].quantity + topUp
      BY <3>1, <3>2 DEF Stack
    <3> QED
      BY <2>2, <2>3, <3>1, <3>3 DEF Amounts
  <2>4. CASE i = e /\ rest > 0
    <3>1. new[i] = [kind |-> kind, quantity |-> rest]
      BY <1>4, <2>0, <2>1, <2>4
    <3>2. inv[i].kind # k /\ inv[i].quantity = 0
      BY <1>0, <1>2, <2>4 DEF Empty
    <3> QED
      BY <1>4, <2>4, <3>1, <3>2 DEF Amounts
  <2>5. CASE i # first /\ ~ (i = e /\ rest > 0)
    <3>1. new[i] = inv[i]
      BY <2>0, <2>1, <2>5
    <3>2. more(i) = 0
      BY <2>5
    <3> QED
      BY <2>2, <3>1, <3>2 DEF Amounts
  <2> QED
    BY <2>3, <2>4, <2>5
<1>6. PICK a, c :
        /\ a \in [1..Slots -> Nat] /\ c \in [1..Slots -> Nat]
        /\ a = Amounts(inv, k) /\ c = Amounts(new, k)
        /\ CountKind(inv, k) = SumOf(a) /\ CountKind(new, k) = SumOf(c)
  BY CountIsSum, AmountsAreNumbers
<1>7. CASE k # kind
  <2>1. \A i \in 1..Slots : c[i] = a[i]
    BY <1>5, <1>6, <1>7
  <2>2. c = a
    <3>1. c = [i \in 1..Slots |-> c[i]] /\ a = [i \in 1..Slots |-> a[i]]
      BY <1>6
    <3> QED
      BY <2>1, <3>1, Zenon
  <2> QED
    BY <1>3, <1>6, <1>7, <2>2, CountIsNumber
<1>8. CASE k = kind
  <2> DEFINE b == [i \in 1..Slots |-> a[i] + IF i = first THEN topUp ELSE 0]
  <2>1. b \in [1..Slots -> Nat]
    BY <1>1, <1>6
  <2>2. SumOf(b) = SumOf(a) + topUp
    <3>1. CASE first = 0
      <4>1. b = a
        BY <1>6, <3>1
      <4> QED
        BY <1>0, <1>1, <1>6, <3>1, <4>1, SumIsNumber
    <3>2. CASE first # 0
      <4>1. first \in 1..Slots /\ b[first] = a[first] + topUp /\ a[first] \in Nat
        BY <1>1, <1>6, <3>2
      <4>2. \A i \in 1..Slots : i # first => b[i] = a[i]
        BY <1>6
      <4> HIDE DEF b
      <4>3. SumOf(b) + a[first] = SumOf(a) + b[first]
        BY <1>0, <1>6, <2>1, <4>1, <4>2, SumWithChange
      <4>4. SumOf(a) \in Nat /\ SumOf(b) \in Nat
        BY <1>0, <1>6, <2>1, SumIsNumber
      <4> QED
        BY <4>1, <4>3, <4>4
    <3> QED
      BY <3>1, <3>2
  <2>3. SumOf(c) = SumOf(b) + rest
    <3>1. ASSUME NEW i \in 1..Slots PROVE c[i] = b[i] + IF i = e THEN rest ELSE 0
      <4>1. c[i] = a[i] + more(i) /\ a[i] \in Nat
        BY <1>5, <1>6, <1>8
      <4> QED
        BY <1>4, <4>1
    <3> HIDE DEF b
    <3>2. c[e] = b[e] + rest /\ b[e] \in Nat
      BY <2>1, <3>1
    <3>3. \A i \in 1..Slots : i # e => c[i] = b[i]
      BY <2>1, <3>1
    <3>4. SumOf(c) + b[e] = SumOf(b) + c[e]
      BY <1>0, <1>6, <2>1, <3>3, SumWithChange
    <3>5. SumOf(b) \in Nat /\ SumOf(c) \in Nat
      BY <1>0, <1>6, <2>1, SumIsNumber
    <3> QED
      BY <3>2, <3>4, <3>5
  <2> HIDE DEF b
  <2>4. SumOf(a) \in Nat
    BY <1>0, <1>6, SumIsNumber
  <2> QED
    BY <1>0, <1>1, <1>3, <1>6, <1>8, <2>2, <2>3, <2>4
<1> QED
  BY <1>7, <1>8

-----------------------------------------------------------------------------
(* Rows. *)

\* The rows of an inventory are rows: one for each slot that is taken.
LEMMA RowsOfInventory ==
  ASSUME NEW inv \in Inventories
  PROVE  InventoryToRows(inv) \in Seq(Row)
<1> DEFINE taken == {i \in 1..Slots : inv[i] # Empty}
<1>1. taken \subseteq 1..Slots /\ Slots \in Nat /\ MaxStack \in Nat
  BY InventoryAssumption
<1>2. \A i \in taken : inv[i] \in Row
  BY <1>1, SlotHolds DEF Stack, Row
<1>3. InventoryToRows(inv) = [n \in 1..Cardinality(taken) |-> inv[Nth(taken, n)]]
  BY DEF InventoryToRows
<1> HIDE DEF taken
<1>4. Cardinality(taken) \in Nat /\ \A n \in 1..Cardinality(taken) : Nth(taken, n) \in taken
  BY <1>1, NthIsRanked
<1> QED
  BY <1>2, <1>3, <1>4

\* The inventory made from rows is one, and no rows make the empty one.
LEMMA InventoryOfRows ==
  ASSUME NEW rows \in Seq(Row)
  PROVE  /\ RowsToInventory(rows) \in Inventories
         /\ rows = <<>> => RowsToInventory(rows) = EmptyInventory
<1>0. Len(rows) \in Nat /\ \A n \in 1..Len(rows) : rows[n].kind \in Kinds /\ rows[n].quantity \in Nat
  <2>1. Len(rows) \in Nat /\ \A n \in 1..Len(rows) : rows[n] \in Row
    OBVIOUS
  <2> QED
    BY <2>1 DEF Row
<1> DEFINE fills(filled) ==
             filled = [n \in 0..Len(rows) |->
                         IF n = 0 THEN EmptyInventory
                         ELSE Add(filled[n - 1], rows[n].kind, rows[n].quantity)]
           f == [n \in 1..Len(rows) |->
                   [inv \in Inventories |-> Add(inv, rows[n].kind, rows[n].quantity)]]
<1>1. \A n \in 1..Len(rows), inv \in Inventories :
        Add(inv, rows[n].kind, rows[n].quantity) \in Inventories
  BY <1>0, AddKeepsInventory
<1>2. f \in [1..Len(rows) -> [Inventories -> Inventories]]
  BY <1>1
<1>3. \A n \in 1..Len(rows), inv \in Inventories :
        f[n][inv] = Add(inv, rows[n].kind, rows[n].quantity)
  OBVIOUS
<1> HIDE DEF f
<1>4. PICK g \in [0..Len(rows) -> Inventories] : Iterates(g, EmptyInventory, Len(rows), f)
  BY <1>0, <1>2, EmptyIsInventory, PrimitiveRecursion, Zenon
<1>5. fills(g)
  <2>1. ASSUME NEW n \in 0..Len(rows)
        PROVE  g[n] = IF n = 0 THEN EmptyInventory
                      ELSE Add(g[n - 1], rows[n].kind, rows[n].quantity)
    <3>1. CASE n = 0
      BY <1>4, <3>1 DEF Iterates
    <3>2. CASE n # 0
      <4>1. n \in 1..Len(rows) /\ g[n - 1] \in Inventories
        BY <1>0, <3>2
      <4>2. g[n] = f[n][g[n - 1]]
        BY <1>4, <4>1 DEF Iterates
      <4> QED
        BY <1>3, <3>2, <4>1, <4>2
    <3> QED
      BY <3>1, <3>2
  <2> QED
    BY <2>1
<1>6. PICK filled : fills(filled) /\ filled = CHOOSE c : fills(c)
  BY <1>5
<1>7. RowsToInventory(rows) = filled[Len(rows)]
  BY <1>6 DEF RowsToInventory
<1>8. /\ filled[0] = EmptyInventory
      /\ \A n \in 1..Len(rows) : filled[n] = Add(filled[n - 1], rows[n].kind, rows[n].quantity)
  <2>1. fills(filled)
    BY <1>6
  <2> QED
    BY <1>0, <2>1
<1> HIDE DEF fills
<1> DEFINE T == {n \in 0..Len(rows) : filled[n] \in Inventories}
<1>9. Len(rows) \in T
  <2>1. 0 \in T
    BY <1>0, <1>8, EmptyIsInventory
  <2>2. ASSUME NEW n \in 1..Len(rows), n - 1 \in T PROVE n \in T
    BY <1>0, <1>1, <1>8, <2>2
  <2> HIDE DEF T
  <2>3. \A n \in 0..Len(rows) : n \in T
    BY <1>0, <2>1, <2>2, CountingUp, Zenon
  <2> QED
    BY <1>0, <2>3
<1> QED
  BY <1>7, <1>8, <1>9
=============================================================================
