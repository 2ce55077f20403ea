---------------------------- MODULE DequeProofs ----------------------------
(***************************************************************************)
(* What TLAPS proves of the Chase-Lev deque, for every set of thieves,     *)
(* every capacity that divides the range of the indices, every width of    *)
(* the indices, every place where they may start and every number of       *)
(* pushes that does not go round the index space (MaxPushes < 2 * Half).   *)
(*                                                                         *)
(* Four parts: arithmetic of indices that wrap; the inductive invariant    *)
(* DequeInv; the steps of the code, each shown to have one of five effects *)
(* on the items (Effect); and what follows from the invariant and from the *)
(* effects: the three invariants of the run and the refinement of WorkBag. *)
(***************************************************************************)
EXTENDS Deque, SequenceTheorems, TLAPS

-----------------------------------------------------------------------------
(* Indices that wrap. *)

\* How many increments lead from index y to index x.
Off(x, y) == IF y <= x THEN x - y ELSE x - y + 2 * Half

\* The assumption, in the form the provers use it.
LEMMA HalfFacts ==
    /\ Half \in Nat /\ Capacity \in Nat /\ 2 <= Capacity /\ Capacity < Half
    /\ MaxPushes \in Nat /\ MaxPushes < 2 * Half
    /\ \E q \in Int : Half = Capacity * q
BY CapacityAssumption

\* The remainder of a number that is at most one turn out of range.
LEMMA ModOneTurn ==
    ASSUME NEW m \in Nat \ {0}, NEW x \in -m .. 2 * m - 1
    PROVE  x % m = IF x < 0 THEN x + m ELSE IF x < m THEN x ELSE x - m
OBVIOUS

\* Quotient and remainder, and the facts about products they rest on: the
\* provers know them one at a time only.
LEMMA ModBasics ==
    ASSUME NEW c \in Nat \ {0}, NEW x \in Int
    PROVE  /\ x % c \in 0 .. c - 1
           /\ \E d \in Int : x = c * d + (x % c)
<1>1. x % c \in 0 .. c - 1
  OBVIOUS
<1>2. x = c * (x \div c) + (x % c) /\ x \div c \in Int
  OBVIOUS
<1> QED BY <1>1, <1>2

\* A product with a positive number is no smaller than the other factor.
LEMMA ProdGrows ==
    ASSUME NEW c \in Nat \ {0}, NEW k \in Int, k >= 1
    PROVE  c * k >= c
OBVIOUS

\* Distributivity.
LEMMA Dist ==
    ASSUME NEW c \in Int, NEW k \in Int, NEW l \in Int
    PROVE  c * (k - l) = c * k - c * l /\ c * (k + l) = c * k + c * l
           /\ c * k \in Int
OBVIOUS

\* A number has one remainder only.
LEMMA QuotientUnique ==
    ASSUME NEW c \in Nat \ {0}, NEW k \in Int, NEW l \in Int,
           NEW r \in 0 .. c - 1, NEW s \in 0 .. c - 1,
           c * k + r = c * l + s
    PROVE  r = s
<1>1. CASE k - l >= 1
  <2>1. c * (k - l) >= c  BY <1>1, ProdGrows
  <2> QED BY <2>1, Dist
<1>2. CASE l - k >= 1
  <2>1. c * (l - k) >= c  BY <1>2, ProdGrows
  <2> QED BY <2>1, Dist
<1>3. CASE k = l
  <2>1. c * k \in Int OBVIOUS
  <2> QED BY <2>1, <1>3
<1> QED BY <1>1, <1>2, <1>3

\* A whole number of turns leaves the slot alone.
LEMMA ModShift ==
    ASSUME NEW c \in Nat \ {0}, NEW x \in Int, NEW q \in Int
    PROVE  (x + c * q) % c = x % c
<1>1. c * q \in Int /\ x + c * q \in Int  OBVIOUS
<1>2. PICK d \in Int : x = c * d + (x % c)  BY ModBasics
<1>3. PICK e \in Int : x + c * q = c * e + ((x + c * q) % c)  BY <1>1, ModBasics
<1>4. c * (d + q) + (x % c) = c * e + ((x + c * q) % c)
  <2>1. c * (d + q) = c * d + c * q  BY Dist
  <2>2. x % c \in Int /\ c * d \in Int /\ c * e \in Int BY ModBasics, Dist
  <2> QED BY <2>1, <2>2, <1>2, <1>3, <1>1
<1>5. x % c \in 0 .. c - 1 /\ (x + c * q) % c \in 0 .. c - 1  BY <1>1, ModBasics
<1>6. d + q \in Int  OBVIOUS
<1> QED BY <1>4, <1>5, <1>6, QuotientUnique

\* Two numbers less than a turn apart are in different slots.
LEMMA ModApart ==
    ASSUME NEW c \in Nat \ {0}, NEW x \in Int, NEW d \in 1 .. c - 1
    PROVE  (x + d) % c # x % c
<1> SUFFICES ASSUME (x + d) % c = x % c PROVE FALSE  OBVIOUS
<1>2. PICK k \in Int : x = c * k + (x % c)  BY ModBasics
<1>1. x + d \in Int  OBVIOUS
<1>3. PICK l \in Int : x + d = c * l + ((x + d) % c)  BY <1>1, ModBasics
<1>4. d = c * (l - k)
  <2>1. c * (l - k) = c * l - c * k /\ c * l \in Int /\ c * k \in Int  BY Dist
  <2>2. x % c \in Int BY ModBasics
  <2> QED BY <2>1, <2>2, <1>2, <1>3
<1>5. CASE l - k >= 1
  BY <1>4, <1>5, ProdGrows
<1>6. CASE l - k <= 0
  <2>1. c * (l - k) <= 0  BY <1>6
  <2> QED BY <1>4, <2>1
<1> QED BY <1>5, <1>6

\* wrapping_add and wrapping_sub of numbers that are one turn out of range.
LEMMA WrapOneTurn ==
    ASSUME NEW i \in -3 * Half .. 3 * Half - 1
    PROVE  Wrap(i) = IF i < -Half THEN i + 2 * Half ELSE IF i < Half THEN i ELSE i - 2 * Half
<1>1. 2 * Half \in Nat \ {0} /\ i + Half \in -(2 * Half) .. 2 * (2 * Half) - 1
  BY HalfFacts
<1>2. (i + Half) % (2 * Half) = IF i + Half < 0 THEN i + Half + 2 * Half
                                ELSE IF i + Half < 2 * Half THEN i + Half ELSE i + Half - 2 * Half
  <2>1. \A m \in Nat \ {0} : \A x \in -m .. 2 * m - 1 :
            x % m = IF x < 0 THEN x + m ELSE IF x < m THEN x ELSE x - m
    BY ModOneTurn
  <2>2. PICK m \in Nat \ {0} : m = 2 * Half  BY <1>1
  <2>3. PICK x \in Int : x = i + Half  BY <1>1
  <2>4. x \in -m .. 2 * m - 1  BY <1>1, <2>2, <2>3
  <2>5. x % m = IF x < 0 THEN x + m ELSE IF x < m THEN x ELSE x - m  BY <2>1, <2>4
  <2>6. (i + Half) % (2 * Half) = x % m  BY <2>2, <2>3
  <2> QED BY <2>5, <2>6, <2>2, <2>3, HalfFacts
<1> QED BY <1>1, <1>2, HalfFacts DEF Wrap

\* Wrapping does not change the slot: the capacity divides the range.
LEMMA WrapSlot ==
    ASSUME NEW i \in -3 * Half .. 3 * Half - 1
    PROVE  Slot(Wrap(i)) = i % Capacity
<1> PICK q \in Int : Half = Capacity * q  BY HalfFacts
<1>1. i - 2 * Half = i + Capacity * (-2 * q) /\ i + 2 * Half = i + Capacity * (2 * q)
  BY HalfFacts
<1>2. i \in Int /\ -2 * q \in Int /\ 2 * q \in Int /\ Capacity \in Nat \ {0}
  BY HalfFacts
<1>3. (i + Capacity * (-2 * q)) % Capacity = i % Capacity
  BY <1>2, ModShift
<1>4. (i + Capacity * (2 * q)) % Capacity = i % Capacity
  BY <1>2, ModShift
<1>5. (i - 2 * Half) % Capacity = i % Capacity /\ (i + 2 * Half) % Capacity = i % Capacity
  BY <1>1, <1>3, <1>4
<1> QED BY <1>5, WrapOneTurn, HalfFacts DEF Slot

\* The wrapping difference of the code is the number of increments between
\* the two indices, as long as that is less than half the range.
LEMMA MinusIsOff ==
    ASSUME NEW x \in Index, NEW y \in Index
    PROVE  /\ Off(x, y) \in 0 .. 2 * Half - 1
           /\ Minus(x, y) = IF Off(x, y) < Half THEN Off(x, y) ELSE Off(x, y) - 2 * Half
           /\ (Off(x, y) = 0) <=> (x = y)
           /\ Wrap(y + Off(x, y)) = x
BY HalfFacts, WrapOneTurn DEF Minus, Off, Index

\* wrapping_add(1) and wrapping_sub(1) undo each other.
LEMMA Neighbours ==
    ASSUME NEW x \in Index
    PROVE  /\ Plus1(x) \in Index /\ Minus(x, 1) \in Index
           /\ Plus1(Minus(x, 1)) = x /\ Minus(Plus1(x), 1) = x
           /\ Plus1(x) # x
<1>1. Plus1(x) = IF x = Half - 1 THEN -Half ELSE x + 1
  BY HalfFacts, WrapOneTurn DEF Plus1, Index
<1>2. Minus(x, 1) = IF x = -Half THEN Half - 1 ELSE x - 1
  BY HalfFacts, WrapOneTurn DEF Minus, Index
<1>3. ASSUME NEW y \in Index PROVE Plus1(y) = IF y = Half - 1 THEN -Half ELSE y + 1
  BY HalfFacts, WrapOneTurn DEF Plus1, Index
<1>4. ASSUME NEW y \in Index PROVE Minus(y, 1) = IF y = -Half THEN Half - 1 ELSE y - 1
  BY HalfFacts, WrapOneTurn DEF Minus, Index
<1> QED BY <1>1, <1>2, <1>3, <1>4, HalfFacts DEF Index

\* How the number of increments changes when either index is incremented.
LEMMA OffSteps ==
    ASSUME NEW x \in Index, NEW y \in Index
    PROVE  /\ Off(x, y) < 2 * Half - 1 => Off(Plus1(x), y) = Off(x, y) + 1
           /\ x # y => Off(x, Plus1(y)) = Off(x, y) - 1
           /\ Off(Plus1(x), x) = 1
           /\ Off(x, x) = 0
<1>1. ASSUME NEW z \in Index PROVE Plus1(z) = IF z = Half - 1 THEN -Half ELSE z + 1
  BY HalfFacts, WrapOneTurn DEF Plus1, Index
<1> QED BY <1>1, HalfFacts DEF Off, Index

\* The slot of the k-th index from t.
Pos(t, k) == Slot(Wrap(t + k))

\* The slots of the indices from t on: all different for one turn of the buffer.
LEMMA Positions ==
    ASSUME NEW t \in Index
    PROVE  /\ \A k \in 0 .. Capacity : Pos(t, k) \in 0 .. Capacity - 1
           /\ \A j, k \in 0 .. Capacity - 1 : j # k => Pos(t, j) # Pos(t, k)
           /\ \A k \in 0 .. Capacity - 1 : Pos(Plus1(t), k) = Pos(t, k + 1)
           /\ \A b \in Index : Pos(t, Off(b, t)) = Slot(b)
           /\ Pos(t, 0) = Slot(t)
<1>1. ASSUME NEW k \in 0 .. Capacity PROVE Pos(t, k) = (t + k) % Capacity
  BY WrapSlot, HalfFacts DEF Pos, Index
<1>2. ASSUME NEW k \in 0 .. Capacity PROVE Pos(t, k) \in 0 .. Capacity - 1
  BY <1>1, HalfFacts DEF Index
<1>3. ASSUME NEW j \in 0 .. Capacity - 1, NEW k \in 0 .. Capacity - 1, j < k
      PROVE  Pos(t, j) # Pos(t, k)
  <2>1. k - j \in 1 .. Capacity - 1 /\ t + j \in Int /\ t + k = (t + j) + (k - j)
    BY <1>3, HalfFacts DEF Index
  <2>2. PICK x \in Int, d \in 1 .. Capacity - 1 : x = t + j /\ d = k - j
    BY <2>1
  <2>3. Capacity \in Nat \ {0}
    BY HalfFacts
  <2>4. (x + d) % Capacity # x % Capacity
    BY <2>3, ModApart
  <2>5. ((t + j) + (k - j)) % Capacity # (t + j) % Capacity
    BY <2>2, <2>4
  <2> QED BY <2>1, <2>5, <1>1, HalfFacts
<1>4. ASSUME NEW k \in 0 .. Capacity - 1 PROVE Pos(Plus1(t), k) = Pos(t, k + 1)
  <2>1. Plus1(t) = IF t = Half - 1 THEN -Half ELSE t + 1
    BY HalfFacts, WrapOneTurn DEF Plus1, Index
  <2>2. Wrap(Plus1(t) + k) = Wrap(t + (k + 1))
    BY <2>1, HalfFacts, WrapOneTurn DEF Index
  <2> QED BY <2>2 DEF Pos
<1>5. ASSUME NEW b \in Index PROVE Pos(t, Off(b, t)) = Slot(b)
  BY MinusIsOff DEF Pos
<1>6. Pos(t, 0) = Slot(t)
  BY WrapOneTurn, HalfFacts DEF Pos, Index
<1>7. ASSUME NEW j \in 0 .. Capacity - 1, NEW k \in 0 .. Capacity - 1, j # k
      PROVE  Pos(t, j) # Pos(t, k)
  BY <1>3, <1>7, HalfFacts
<1> QED BY <1>2, <1>4, <1>5, <1>6, <1>7

-----------------------------------------------------------------------------
(* The inductive invariant. *)

\* How many items there are between top and the logical bottom, and which.
Size == Off(LogicalBottom, top)
Item(k) == buf[Pos(top, k)]

LiveItem(i) == owner # "dropped" /\ \E k \in 0 .. Size - 1 : Item(k) = i

\* The shape of the state: TypeOK without the bound on `taken`.
Shape ==
    /\ top \in Index /\ bottom \in Index
    /\ buf \in [0 .. Capacity - 1 -> Items \cup {Uninit, Torn}]
    /\ pushed \in 0 .. MaxPushes
    /\ taken \in [Items -> Nat]
    /\ owner \in {"idle", "push_publish", "pop_load", "pop_cas", "pop_restore", "dropped"}
    /\ ot \in Index /\ won \in BOOLEAN
    /\ thief \in [Thieves -> {"idle", "bottom", "read", "cas"}]
    /\ tt \in [Thieves -> Index]
    /\ tv \in [Thieves -> Items \cup {Uninit, Torn}]

\* The indices never run so far ahead of each other that a difference wraps:
\* top has passed a thief's t by at most the items that have left.
Reach == \A h \in Thieves : thief[h] # "idle" => Off(top, tt[h]) + Size <= pushed

OwnerInv ==
    /\ owner = "push_publish" => Size < Capacity /\ pushed < MaxPushes
    /\ owner = "pop_cas" => ot = bottom /\ Size <= 1
    /\ owner = "pop_restore" => Size = 0
    /\ won => owner = "pop_restore" /\ buf[Slot(bottom)] \in 1 .. pushed
    /\ owner = "dropped" => \A h \in Thieves : thief[h] = "idle"

\* A thief whose CAS could still succeed has an item in front of it, and once
\* it has read, it has read that item.
ThiefInv ==
    \A h \in Thieves : thief[h] \in {"read", "cas"} /\ tt[h] = top =>
        /\ Size >= 1
        /\ thief[h] = "cas" => tv[h] = Item(0)

ItemsInv ==
    /\ owner # "dropped" =>
        /\ \A k \in 0 .. Size - 1 : Item(k) \in 1 .. pushed
        /\ \A j, k \in 0 .. Size - 1 : Item(j) = Item(k) => j = k
    /\ \A i \in Items : HandedOut[i] = IF i <= pushed /\ ~LiveItem(i) THEN 1 ELSE 0

Bounded == Size <= Capacity /\ Size <= pushed

DequeInv == Shape /\ Bounded /\ Reach /\ OwnerInv /\ ThiefInv /\ ItemsInv

PopStates == {"pop_load", "pop_cas", "pop_restore"}

\* What the code's comparison of the two indices tells it, in pop and outside.
LEMMA Gap ==
    ASSUME Shape, Size <= Capacity
    PROVE  /\ LogicalBottom \in Index
           /\ Size \in 0 .. Capacity
           /\ Minus(LogicalBottom, top) = Size
           /\ owner \notin PopStates =>
                /\ LogicalBottom = bottom
                /\ Minus(bottom, top) = Size
                /\ Slot(bottom) = Pos(top, Size)
           /\ owner \in PopStates =>
                /\ LogicalBottom = Plus1(bottom)
                /\ Minus(bottom, top) = Size - 1
                /\ (bottom = top) <=> (Size = 1)
                /\ Size >= 1 => Slot(bottom) = Pos(top, Size - 1)
<1>1. top \in Index /\ bottom \in Index  BY DEF Shape
<1>2. LogicalBottom = IF owner \in PopStates THEN Plus1(bottom) ELSE bottom
  BY DEF LogicalBottom, PopStates
<1>3. LogicalBottom \in Index  BY <1>1, <1>2, Neighbours
<1>4. Size \in 0 .. Capacity /\ Minus(LogicalBottom, top) = Size
  BY <1>1, <1>3, MinusIsOff, HalfFacts DEF Size
<1>5. Pos(top, Size) = Slot(LogicalBottom)
  BY <1>1, <1>3, Positions DEF Size
<1>6. ASSUME owner \in PopStates
      PROVE  /\ Minus(bottom, top) = Size - 1
             /\ (bottom = top) <=> (Size = 1)
             /\ Size >= 1 => Slot(bottom) = Pos(top, Size - 1)
  <2>1. Size = Off(Plus1(bottom), top)  BY <1>2, <1>6 DEF Size
  <2>2. CASE Size = 0
    <3>1. Plus1(bottom) = top
      <4>1. Plus1(bottom) \in Index  BY <1>1, Neighbours
      <4>2. (Off(Plus1(bottom), top) = 0) <=> (Plus1(bottom) = top)
        BY <4>1, <1>1, MinusIsOff
      <4> QED BY <4>2, <2>1, <2>2
    <3>2. Minus(top, 1) = bottom /\ bottom # top  BY <3>1, <1>1, Neighbours
    <3>3. Off(bottom, top) = 2 * Half - 1
      <4>1. Off(bottom, top) \in 0 .. 2 * Half - 1  BY <1>1, MinusIsOff
      <4>2. Off(bottom, top) < 2 * Half - 1 => Off(Plus1(bottom), top) = Off(bottom, top) + 1
        BY <1>1, OffSteps
      <4> QED BY <4>1, <4>2, <2>1, <2>2, HalfFacts
    <3>4. Minus(bottom, top) = -1  BY <3>3, <1>1, MinusIsOff, HalfFacts
    <3> QED BY <3>2, <3>4, <2>2
  <2>3. CASE Size >= 1
    <3>1. Off(bottom, top) \in 0 .. 2 * Half - 1  BY <1>1, MinusIsOff
    <3>2. Off(bottom, top) = Size - 1
      <4>1. CASE Off(bottom, top) < 2 * Half - 1
        BY <4>1, <1>1, <2>1, OffSteps, <3>1, HalfFacts
      <4>2. CASE Off(bottom, top) = 2 * Half - 1
        <5>1. Minus(top, 1) = bottom
          BY <4>2, <1>1, HalfFacts, WrapOneTurn DEF Off, Index, Minus
        <5>2. Plus1(bottom) = top  BY <5>1, <1>1, Neighbours
        <5> QED BY <5>2, <2>1, <2>3, <1>1, OffSteps
      <4> QED BY <4>1, <4>2, <3>1, HalfFacts
    <3>3. Minus(bottom, top) = Size - 1
      BY <3>2, <1>1, <1>4, MinusIsOff, HalfFacts
    <3>4. (bottom = top) <=> (Size = 1)
      BY <3>2, <1>1, <1>4, MinusIsOff, HalfFacts
    <3>5. Slot(bottom) = Pos(top, Size - 1)
      BY <3>2, <1>1, Positions
    <3> QED BY <3>3, <3>4, <3>5
  <2> QED BY <2>2, <2>3, <1>4, HalfFacts
<1> QED BY <1>2, <1>3, <1>4, <1>5, <1>6, MinusIsOff

-----------------------------------------------------------------------------
(* What a step does to the items, whatever it does to the indices. *)

Keep ==
    /\ (owner' = "dropped") <=> (owner = "dropped")
    /\ pushed' = pushed
    /\ Size' = Size
    /\ \A k \in 0 .. Size - 1 : Item(k)' = Item(k)
    /\ \A i \in Items : HandedOut'[i] = HandedOut[i]

\* One item more at the bottom, the next number.
Grow ==
    /\ owner # "dropped" /\ owner' # "dropped"
    /\ Size < Capacity /\ pushed < MaxPushes
    /\ pushed' = pushed + 1
    /\ Size' = Size + 1
    /\ \A k \in 0 .. Size : Item(k)' = IF k < Size THEN Item(k) ELSE pushed + 1
    /\ \A i \in Items : HandedOut'[i] = HandedOut[i]

\* The items of the positions S are handed out.
Hand(S) ==
    \A i \in Items : HandedOut'[i] = IF \E k \in S : Item(k) = i
                                     THEN HandedOut[i] + 1 ELSE HandedOut[i]

\* The item at the bottom goes.
TakeBottom ==
    /\ owner # "dropped" /\ owner' # "dropped"
    /\ Size >= 1
    /\ pushed' = pushed
    /\ Size' = Size - 1
    /\ \A k \in 0 .. Size - 2 : Item(k)' = Item(k)
    /\ Hand({Size - 1})

\* The item at the top goes.
TakeTop ==
    /\ owner # "dropped" /\ owner' # "dropped"
    /\ Size >= 1
    /\ pushed' = pushed
    /\ Size' = Size - 1
    /\ \A k \in 0 .. Size - 2 : Item(k)' = Item(k + 1)
    /\ Hand({0})

\* All of them go, and the deque with them.
TakeAll ==
    /\ owner # "dropped" /\ owner' = "dropped"
    /\ pushed' = pushed
    /\ Size' = Size
    /\ Hand(0 .. Size - 1)

Effect == Keep \/ Grow \/ TakeBottom \/ TakeTop \/ TakeAll

\* The items and the hand-outs stay right under each of the five effects.
LEMMA EffectItems ==
    ASSUME Shape, Bounded, ItemsInv, Effect
    PROVE  ItemsInv' /\ Bounded'
<1>0. Size \in 0 .. Capacity /\ pushed \in 0 .. MaxPushes
  BY Gap DEF Bounded, Shape
<1> USE <1>0, HalfFacts DEF Bounded, Items
<1>1. CASE Keep
  BY <1>1 DEF Keep, ItemsInv, LiveItem
<1>2. CASE Grow
  <2>1. \A k \in 0 .. Size - 1 : Item(k) \in 1 .. pushed
    BY <1>2 DEF Grow, ItemsInv
  <2>2. \A k \in 0 .. Size' - 1 : k # Size => k \in 0 .. Size - 1
    BY <1>2 DEF Grow
  <2>3. \A k \in 0 .. Size' - 1 : Item(k)' \in 1 .. pushed'
    BY <1>2, <2>1, <2>2 DEF Grow
  <2>4. \A j, k \in 0 .. Size' - 1 : Item(j)' = Item(k)' => j = k
    BY <1>2, <2>1, <2>2 DEF Grow, ItemsInv
  <2>5. \A i \in Items : LiveItem(i)' <=> (LiveItem(i) \/ i = pushed + 1)
    BY <1>2, <2>2 DEF Grow, LiveItem
  <2>6. \A i \in Items : HandedOut'[i] = IF i <= pushed' /\ ~LiveItem(i)' THEN 1 ELSE 0
    BY <1>2, <2>5, <2>1 DEF Grow, ItemsInv, LiveItem
  <2> QED BY <1>2, <2>3, <2>4, <2>6 DEF Grow, ItemsInv
<1>3. CASE TakeBottom
  BY <1>3 DEF TakeBottom, Hand, ItemsInv, LiveItem
<1>4. CASE TakeTop
  <2>1. \A k \in 0 .. Size' - 1 : k + 1 \in 0 .. Size - 1 /\ Item(k)' = Item(k + 1)
    BY <1>4 DEF TakeTop
  <2>2. \A k \in 0 .. Size' - 1 : Item(k)' \in 1 .. pushed'
    BY <1>4, <2>1 DEF TakeTop, ItemsInv
  <2>3. \A j, k \in 0 .. Size' - 1 : Item(j)' = Item(k)' => j = k
    BY <1>4, <2>1 DEF TakeTop, ItemsInv
  <2>4. \A i \in Items : LiveItem(i)' <=> (LiveItem(i) /\ i # Item(0))
    <3>1. \A k \in 1 .. Size - 1 : k - 1 \in 0 .. Size' - 1 /\ Item(k - 1)' = Item(k)
      BY <1>4 DEF TakeTop
    <3> QED BY <1>4, <2>1, <3>1 DEF TakeTop, ItemsInv, LiveItem
  <2>5. \A i \in Items : HandedOut'[i] = IF i <= pushed' /\ ~LiveItem(i)' THEN 1 ELSE 0
    BY <1>4, <2>4 DEF TakeTop, Hand, ItemsInv, LiveItem
  <2> QED BY <1>4, <2>2, <2>3, <2>5 DEF TakeTop, ItemsInv
<1>5. CASE TakeAll
  BY <1>5 DEF TakeAll, Hand, ItemsInv, LiveItem
<1> QED BY <1>1, <1>2, <1>3, <1>4, <1>5 DEF Effect

-----------------------------------------------------------------------------
(* The steps. *)

\* Every step leaves values of the right shape.
LEMMA ShapeStep == ASSUME DequeInv, [Next]_vars PROVE Shape'
<1> USE DEF DequeInv, Shape
<1>1. \A s \in {bottom} : Slot(s) \in 0 .. Capacity - 1
  BY HalfFacts DEF Slot, Index
<1>2. \A S : Take(S) => taken' \in [Items -> Nat]
  BY DEF Take
<1>3. Uninit \in Items \cup {Uninit, Torn} /\ Torn \in Items \cup {Uninit, Torn} /\ 0 \in Index
  BY HalfFacts DEF Index
<1>4. CASE UNCHANGED vars
  BY <1>4 DEF vars, ownerVars, thiefVars
<1>5. CASE PushFull
  BY <1>5 DEF PushFull, vars, ownerVars, thiefVars
<1>6. CASE PushWrite
  BY <1>6, <1>1, <1>3 DEF PushWrite, thiefVars
<1>7. CASE PushPublish
  <2>1. pushed + 1 \in Items /\ pushed' \in 0 .. MaxPushes
    BY <1>7, HalfFacts DEF PushPublish, OwnerInv, Items
  <2>2. buf' \in [0 .. Capacity - 1 -> Items \cup {Uninit, Torn}]
    BY <1>7, <1>1, <2>1 DEF PushPublish
  <2>3. bottom' \in Index  BY <1>7, Neighbours DEF PushPublish
  <2> QED BY <1>7, <2>1, <2>2, <2>3 DEF PushPublish, thiefVars
<1>8. CASE PopClaim
  BY <1>8, Neighbours DEF PopClaim, thiefVars
<1>9. CASE PopLoad
  BY <1>9, <1>2 DEF PopLoad, thiefVars
<1>10. CASE PopCas
  BY <1>10, <1>3, Neighbours DEF PopCas, thiefVars
<1>11. CASE PopRestore
  BY <1>11, <1>2, Neighbours DEF PopRestore, thiefVars
<1>12. CASE Drop
  BY <1>12, <1>2 DEF Drop, thiefVars
<1>13. ASSUME NEW h \in Thieves, StealTop(h) PROVE Shape'
  BY <1>13 DEF StealTop, ownerVars
<1>14. ASSUME NEW h \in Thieves, StealBottom(h) PROVE Shape'
  BY <1>14, <1>3 DEF StealBottom, ownerVars
<1>15. ASSUME NEW h \in Thieves, StealRead(h) PROVE Shape'
  <2>1. Slot(tt[h]) \in 0 .. Capacity - 1  BY HalfFacts DEF Slot, Index
  <2> QED BY <1>15, <2>1 DEF StealRead, ownerVars
<1>16. ASSUME NEW h \in Thieves, StealCas(h) PROVE Shape'
  BY <1>16, <1>2, <1>3, Neighbours DEF StealCas, ownerVars
<1> QED BY <1>4, <1>5, <1>6, <1>7, <1>8, <1>9, <1>10, <1>11, <1>12, <1>13, <1>14,
           <1>15, <1>16 DEF Next, OwnerStep, ThiefStep

StepOK == Effect /\ Reach' /\ OwnerInv' /\ ThiefInv'

\* What every step starts from.
LEMMA Before ==
    ASSUME DequeInv
    PROVE  /\ top \in Index /\ bottom \in Index
           /\ Size \in 0 .. Capacity /\ Size <= pushed /\ pushed \in 0 .. MaxPushes
           /\ Off(LogicalBottom, top) = Size
           /\ Capacity \in Nat /\ Half \in Nat /\ Capacity < Half
           /\ MaxPushes \in Nat /\ MaxPushes < 2 * Half
           /\ \A j, k \in 0 .. Capacity - 1 : j # k => Pos(top, j) # Pos(top, k)
           /\ \A k \in 0 .. Capacity : Pos(top, k) \in 0 .. Capacity - 1
           /\ \A s \in 0 .. Capacity - 1 : buf[s] \in Items \cup {Uninit, Torn}
           /\ \A h \in Thieves : Off(top, tt[h]) \in 0 .. 2 * Half - 1
BY Gap, MinusIsOff, Positions, HalfFacts DEF DequeInv, Shape, Bounded, Size

\* Whatever leaves the slots of the items, top and the thieves alone leaves
\* what the thieves know true.
LEMMA ThievesUndisturbed ==
    ASSUME DequeInv, top' = top, UNCHANGED thiefVars, Size' = Size, pushed' = pushed,
           \A k \in 0 .. Size - 1 : Item(k)' = Item(k)
    PROVE  Reach' /\ ThiefInv'
<1>1. Size \in Nat  BY Before
<1>2. Reach'  BY DEF DequeInv, Reach, thiefVars
<1>3. ThiefInv'
  <2> SUFFICES ASSUME NEW h \in Thieves, thief[h] \in {"read", "cas"}, tt[h] = top
               PROVE  Size >= 1 /\ (thief[h] = "cas" => tv[h] = Item(0)')
    BY DEF ThiefInv, thiefVars
  <2>1. Size >= 1 /\ (thief[h] = "cas" => tv[h] = Item(0))
    BY DEF DequeInv, ThiefInv
  <2> QED BY <2>1, <1>1
<1> QED BY <1>2, <1>3

\* push writes a slot that no item is in: there is room.
LEMMA PushWriteOK == ASSUME DequeInv, PushWrite PROVE StepOK
<1> USE Before
<1>1. Size < Capacity /\ Slot(bottom) = Pos(top, Size)
  BY Gap DEF PushWrite, DequeInv, Shape, Bounded, PopStates
<1>2. top' = top /\ Size' = Size
  BY DEF PushWrite, Size, LogicalBottom
<1>3. \A k \in 0 .. Size - 1 : Item(k)' = Item(k)
  <2>1. \A k \in 0 .. Size - 1 : Pos(top, k) \in 0 .. Capacity - 1 /\ Pos(top, k) # Slot(bottom)
    BY <1>1
  <2> QED BY <2>1, <1>2 DEF PushWrite, Item, DequeInv, Shape
<1>4. Keep
  BY <1>2, <1>3 DEF Keep, HandedOut, PushWrite
<1>5. OwnerInv'
  BY <1>1, <1>2 DEF PushWrite, OwnerInv, DequeInv
<1> QED BY <1>2, <1>3, <1>4, <1>5, ThievesUndisturbed DEF StepOK, Effect, PushWrite

\* push publishes the item it wrote, at the bottom.
LEMMA PushPublishOK == ASSUME DequeInv, PushPublish PROVE StepOK
<1> USE Before
<1>1. Size < Capacity /\ pushed < MaxPushes
  BY DEF PushPublish, DequeInv, OwnerInv
<1>2. Slot(bottom) = Pos(top, Size) /\ LogicalBottom = bottom
  BY Gap DEF PushPublish, DequeInv, Shape, Bounded, PopStates
<1>3. top' = top /\ Size' = Size + 1
  BY <1>1, <1>2, OffSteps DEF PushPublish, Size, LogicalBottom
<1>4. \A k \in 0 .. Size : Item(k)' = IF k < Size THEN Item(k) ELSE pushed + 1
  <2>1. \A k \in 0 .. Size - 1 : Pos(top, k) \in 0 .. Capacity - 1 /\ Pos(top, k) # Slot(bottom)
    BY <1>1, <1>2
  <2>2. \A k \in 0 .. Size : k >= Size => Pos(top, k) = Slot(bottom)
    BY <1>2
  <2>3. Slot(bottom) \in 0 .. Capacity - 1
    BY <1>2
  <2> QED BY <2>1, <2>2, <2>3, <1>3 DEF PushPublish, Item, DequeInv, Shape
<1>5. Grow
  BY <1>1, <1>3, <1>4 DEF Grow, HandedOut, PushPublish
<1>6. OwnerInv'
  BY DEF PushPublish, OwnerInv, DequeInv
<1>7. Reach'
  BY <1>3 DEF PushPublish, Reach, DequeInv, thiefVars
<1>8. ThiefInv'
  <2> SUFFICES ASSUME NEW h \in Thieves, thief[h] \in {"read", "cas"}, tt[h] = top
               PROVE  Size' >= 1 /\ (thief[h] = "cas" => tv[h] = Item(0)')
    BY <1>3 DEF ThiefInv, thiefVars, PushPublish
  <2>1. Size >= 1 /\ (thief[h] = "cas" => tv[h] = Item(0))
    BY DEF DequeInv, ThiefInv
  <2> QED BY <2>1, <1>3, <1>4
<1> QED BY <1>5, <1>6, <1>7, <1>8 DEF StepOK, Effect

\* pop claims the bottom slot and the item is still there.
LEMMA PopClaimOK == ASSUME DequeInv, PopClaim PROVE StepOK
<1> USE Before
<1>1. LogicalBottom = bottom /\ LogicalBottom' = bottom
  BY Neighbours DEF PopClaim, LogicalBottom
<1>2. top' = top /\ Size' = Size /\ \A k \in 0 .. Size - 1 : Item(k)' = Item(k)
  BY <1>1 DEF PopClaim, Size, Item
<1>3. Keep
  BY <1>2 DEF Keep, HandedOut, PopClaim
<1>4. OwnerInv'
  BY DEF PopClaim, OwnerInv, DequeInv
<1> QED BY <1>2, <1>3, <1>4, ThievesUndisturbed DEF StepOK, Effect, PopClaim

\* pop sees more than one item and takes the bottom one, or leaves it for later.
LEMMA PopLoadOK == ASSUME DequeInv, PopLoad PROVE StepOK
<1> USE Before
<1>1. /\ Minus(bottom, top) = Size - 1 /\ LogicalBottom = Plus1(bottom)
      /\ (bottom = top) <=> (Size = 1)
      /\ Size >= 1 => Slot(bottom) = Pos(top, Size - 1)
  BY Gap DEF PopLoad, DequeInv, Shape, Bounded, PopStates
<1>2. won = FALSE
  BY DEF PopLoad, OwnerInv, DequeInv, Shape
<1>3. top' = top /\ bottom' = bottom /\ buf' = buf /\ pushed' = pushed /\ UNCHANGED thiefVars
  BY DEF PopLoad
<1>4. \A k : Item(k)' = Item(k)
  BY <1>3 DEF Item
<1>5. CASE Minus(bottom, top) <= 0
  <2>1. owner' \in {"pop_restore", "pop_cas"} /\ taken' = taken /\ owner = "pop_load" /\ won' = won
    <3>1. CASE Minus(bottom, top) < 0  
      <4>1. ~(Minus(bottom, top) = 0) /\ ~(Minus(bottom, top) > 0)  BY <3>1, <1>1
      <4> QED BY <4>1, <1>2 DEF PopLoad
    <3>2. CASE Minus(bottom, top) = 0  BY <3>2 DEF PopLoad
    <3> QED BY <3>1, <3>2, <1>1, <1>5
  <2>2. Size' = Size
    BY <2>1, <1>3 DEF Size, LogicalBottom
  <2>3. Keep
    BY <2>1, <2>2, <1>2, <1>3, <1>4 DEF Keep, HandedOut
  <2>4. OwnerInv'
    BY <1>5, <1>1, <1>2, <2>1, <2>2 DEF PopLoad, OwnerInv, DequeInv
  <2> QED BY <2>2, <2>3, <2>4, <1>3, <1>4, ThievesUndisturbed DEF StepOK, Effect
<1>6. CASE Minus(bottom, top) > 0
  <2>1. owner' = "idle" /\ Take({buf[Slot(bottom)]}) /\ owner = "pop_load" /\ won' = won
    BY <1>6, <1>1 DEF PopLoad
  <2>2. Size >= 2  BY <1>6, <1>1
  <2>3. Size' = Size - 1
    <3>1. Size' = Off(bottom, top)
      BY <2>1, <1>3 DEF Size, LogicalBottom
    <3> QED BY <3>1, <1>1, <2>2, MinusIsOff
  <2>4. Hand({Size - 1})
    BY <2>1, <2>2, <1>1, <1>2 DEF Hand, HandedOut, Take, Item
  <2>5. TakeBottom
    BY <2>1, <2>2, <2>3, <2>4, <1>3, <1>4 DEF TakeBottom
  <2>6. OwnerInv'
    BY <1>2, <2>1 DEF OwnerInv, DequeInv
  <2>7. Reach'
    BY <2>3, <1>3 DEF Reach, DequeInv, thiefVars
  <2>8. ThiefInv'
    BY <2>2, <2>3, <1>3, <1>4 DEF ThiefInv, DequeInv, thiefVars
  <2> QED BY <2>5, <2>6, <2>7, <2>8 DEF StepOK, Effect
<1> QED BY <1>1, <1>5, <1>6

\* pop puts bottom back; what it won was counted when it won it.
LEMMA PopRestoreOK == ASSUME DequeInv, PopRestore PROVE StepOK
<1> USE Before
<1>1. Size = 0 /\ LogicalBottom = Plus1(bottom)
  BY DEF PopRestore, OwnerInv, DequeInv, LogicalBottom
<1>2. top' = top /\ Size' = Size /\ \A k \in 0 .. Size - 1 : Item(k)' = Item(k)
  BY <1>1 DEF PopRestore, Size, Item, LogicalBottom
<1>3. Keep
  BY <1>2 DEF Keep, HandedOut, PopRestore, Take
<1>4. OwnerInv'
  BY DEF PopRestore, OwnerInv, DequeInv
<1> QED BY <1>2, <1>3, <1>4, ThievesUndisturbed DEF StepOK, Effect, PopRestore

\* Moving top past the item in front of it: what the winner of a CAS does.
LEMMA TopMoves ==
    ASSUME DequeInv, Size >= 1, top' = Plus1(top), LogicalBottom' = LogicalBottom,
           pushed' = pushed, buf' = buf
    PROVE  /\ Size' = Size - 1
           /\ \A k \in 0 .. Size - 2 : Item(k)' = Item(k + 1)
           /\ top' # top
           /\ \A h \in Thieves : thief[h] # "idle" =>
                /\ Off(top', tt[h]) + Size' <= pushed
                /\ tt[h] # top'
<1> USE Before
<1>1. LogicalBottom \in Index /\ LogicalBottom # top
  <2>1. LogicalBottom \in Index  BY Gap DEF DequeInv, Shape, Bounded
  <2> QED BY <2>1, OffSteps
<1>2. Size' = Size - 1
  BY <1>1, OffSteps DEF Size
<1>3. \A k \in 0 .. Size - 2 : Item(k)' = Item(k + 1)
  BY Positions DEF Item
<1>4. top' # top
  BY Neighbours
<1>5. ASSUME NEW h \in Thieves, thief[h] # "idle"
      PROVE  Off(top', tt[h]) + Size' <= pushed /\ tt[h] # top'
  <2>1. Off(top, tt[h]) + Size <= pushed  BY <1>5 DEF DequeInv, Reach
  <2>2. tt[h] \in Index /\ Off(top, tt[h]) \in 0 .. 2 * Half - 1
    BY DEF DequeInv, Shape
  <2>3. Off(top', tt[h]) = Off(top, tt[h]) + 1
    <3>1. Off(top, tt[h]) < 2 * Half - 1  BY <2>1, <2>2
    <3> QED BY <3>1, <2>2, OffSteps
  <2>4. top' \in Index  BY Neighbours
  <2>5. tt[h] # top'  BY <2>2, <2>3, <2>4, OffSteps
  <2> QED BY <2>1, <2>2, <2>3, <2>5, <1>2
<1> QED BY <1>2, <1>3, <1>4, <1>5

\* pop wins the last item, or finds that a thief has it.
LEMMA PopCasOK == ASSUME DequeInv, PopCas PROVE StepOK
<1> USE Before
<1>1. /\ Minus(bottom, top) = Size - 1 /\ LogicalBottom = Plus1(bottom)
      /\ (bottom = top) <=> (Size = 1)
      /\ Size >= 1 => Slot(bottom) = Pos(top, Size - 1)
  BY Gap DEF PopCas, DequeInv, Shape, Bounded, PopStates
<1>2. ot = bottom /\ Size <= 1 /\ won = FALSE
  BY DEF PopCas, OwnerInv, DequeInv, Shape
<1>3. /\ bottom' = bottom /\ buf' = buf /\ pushed' = pushed /\ taken' = taken
      /\ UNCHANGED thiefVars /\ owner = "pop_cas" /\ owner' = "pop_restore"
  BY DEF PopCas
<1>4. LogicalBottom' = LogicalBottom
  BY <1>3 DEF LogicalBottom
<1>5. CASE top = ot
  <2>1. Size = 1 /\ won' = TRUE /\ top' = Plus1(top)
    BY <1>1, <1>2, <1>5 DEF PopCas
  <2>2. /\ Size' = 0 /\ top' # top
        /\ \A h \in Thieves : thief[h] # "idle" =>
             /\ Off(top', tt[h]) + Size' <= pushed
             /\ tt[h] # top'
    BY <2>1, <1>3, <1>4, TopMoves
  <2>3. Item(0) = buf[Slot(bottom)] /\ Item(0) \in 1 .. pushed
    BY <2>1, <1>1, <1>3 DEF Item, ItemsInv, DequeInv
  <2>4. Hand({Size - 1})
    BY <2>1, <2>3, <1>2, <1>3 DEF Hand, HandedOut
  <2>5. TakeBottom
    BY <2>1, <2>2, <2>4, <1>3 DEF TakeBottom
  <2>6. OwnerInv'
    BY <2>2, <2>3, <1>3 DEF OwnerInv, DequeInv
  <2>7. Reach' /\ ThiefInv'
    BY <2>2, <1>3 DEF Reach, ThiefInv, thiefVars
  <2> QED BY <2>5, <2>6, <2>7 DEF StepOK, Effect
<1>6. CASE top # ot
  <2>1. Size = 0 /\ won' = FALSE /\ top' = top
    <3>1. Size = 0  BY <1>1, <1>2, <1>6
    <3>2. won' = FALSE /\ top' = top  BY <1>6 DEF PopCas
    <3> QED BY <3>1, <3>2
  <2>2. Size' = Size /\ \A k \in 0 .. Size - 1 : Item(k)' = Item(k)
    BY <2>1, <1>3, <1>4 DEF Size, Item
  <2>3. Keep
    BY <2>1, <2>2, <1>2, <1>3 DEF Keep, HandedOut
  <2>4. OwnerInv'
    BY <2>1, <2>2, <1>3 DEF OwnerInv, DequeInv
  <2> QED BY <2>1, <2>2, <2>3, <2>4, <1>3, ThievesUndisturbed DEF StepOK, Effect
<1> QED BY <1>5, <1>6

\* drop releases exactly the items that are there.
LEMMA DropOK == ASSUME DequeInv, Drop PROVE StepOK
<1> USE Before
<1>1. /\ Minus(bottom, top) = Size /\ LogicalBottom = bottom
      /\ owner = "idle" /\ owner' = "dropped"
      /\ UNCHANGED <<top, bottom, buf, pushed, ot, won, thiefVars>>
  BY Gap DEF Drop, DequeInv, Shape, Bounded, PopStates
<1>2. Size' = Size
  BY <1>1 DEF Size, LogicalBottom
<1>3. Take({Item(k) : k \in 0 .. Size - 1})
  <2>1. Take({buf[Slot(Wrap(top + k))] :
               k \in 0 .. (IF Minus(bottom, top) < 0 THEN 0 ELSE Minus(bottom, top)) - 1})
    BY DEF Drop
  <2>2. (IF Minus(bottom, top) < 0 THEN 0 ELSE Minus(bottom, top)) = Size
    BY <1>1
  <2> QED BY <2>1, <2>2 DEF Item, Pos
<1>4. Hand(0 .. Size - 1)
  BY <1>1, <1>3 DEF Hand, HandedOut, Take
<1>5. TakeAll
  BY <1>1, <1>2, <1>4 DEF TakeAll
<1>6. OwnerInv' /\ Reach' /\ ThiefInv'
  BY <1>1 DEF Drop, OwnerInv, Reach, ThiefInv, DequeInv, thiefVars
<1> QED BY <1>5, <1>6 DEF StepOK, Effect

\* The steps of a thief that leave everything but its own locals alone.
LEMMA ThiefLooks ==
    ASSUME DequeInv, UNCHANGED <<top, bottom, buf, pushed, taken, ownerVars>>,
           owner # "dropped" \/ UNCHANGED thief
    PROVE  Keep /\ OwnerInv' /\ Size' = Size
<1>1. Size' = Size /\ \A k : Item(k)' = Item(k)
  BY DEF Size, LogicalBottom, Item, ownerVars
<1>2. Keep
  BY <1>1 DEF Keep, HandedOut, ownerVars
<1>3. OwnerInv'
  BY <1>1 DEF OwnerInv, DequeInv, ownerVars
<1> QED BY <1>1, <1>2, <1>3

\* While a thief is inside steal the deque is not dropped.
LEMMA NotDropped ==
    ASSUME DequeInv, NEW h \in Thieves, thief[h] # "idle"
    PROVE  owner # "dropped"
BY DEF DequeInv, OwnerInv

\* A thief that loads top is not behind it.
LEMMA StealTopOK == ASSUME DequeInv, NEW h \in Thieves, StealTop(h) PROVE StepOK
<1> USE Before
<1>1. Keep /\ OwnerInv' /\ Size' = Size
  BY ThiefLooks DEF StealTop
<1>2. Off(top, top) = 0
  BY OffSteps
<1>3. Reach'
  BY <1>1, <1>2 DEF StealTop, Reach, DequeInv, Shape
<1>4. ThiefInv'
  BY <1>1 DEF StealTop, ThiefInv, DequeInv, Shape, Item
<1> QED BY <1>1, <1>3, <1>4 DEF StepOK, Effect

\* A thief that sees bottom ahead of the current top sees an item there, even
\* if the owner is in the middle of pop.
LEMMA StealBottomOK == ASSUME DequeInv, NEW h \in Thieves, StealBottom(h) PROVE StepOK
<1> USE Before
<1>1. Keep /\ OwnerInv' /\ Size' = Size
  BY ThiefLooks, NotDropped DEF StealBottom
<1>2. Minus(bottom, top) > 0 => Size >= 1
  BY Gap DEF DequeInv, Shape, Bounded
<1>3. Reach'
  BY <1>1 DEF StealBottom, Reach, DequeInv, Shape
<1>4. ThiefInv'
  <2> SUFFICES ASSUME NEW g \in Thieves, thief'[g] \in {"read", "cas"}, tt'[g] = top
               PROVE  Size >= 1 /\ (thief'[g] = "cas" => tv[g] = Item(0))
    BY <1>1 DEF ThiefInv, StealBottom, Item
  <2>1. CASE g # h
    BY <2>1 DEF StealBottom, ThiefInv, DequeInv, Shape
  <2>2. CASE g = h
    <3>1. thief'[h] = "read" /\ ~(Minus(bottom, tt[h]) <= 0) /\ tt[h] = top
      BY <2>2 DEF StealBottom, DequeInv, Shape
    <3>2. Minus(bottom, tt[h]) \in Int  BY <3>1, MinusIsOff
    <3> QED BY <2>2, <3>1, <3>2, <1>2
  <2> QED BY <2>1, <2>2
<1> QED BY <1>1, <1>3, <1>4 DEF StepOK, Effect

\* A thief that reads the slot of the current top reads the item at the top.
LEMMA StealReadOK == ASSUME DequeInv, NEW h \in Thieves, StealRead(h) PROVE StepOK
<1> USE Before
<1>1. Keep /\ OwnerInv' /\ Size' = Size
  BY ThiefLooks, NotDropped DEF StealRead
<1>2. Reach'
  BY <1>1 DEF StealRead, Reach, DequeInv, Shape
<1>3. tt[h] = top => buf[Slot(tt[h])] = Item(0)
  BY Positions DEF Item
<1>4. ThiefInv'
  BY <1>1, <1>3 DEF StealRead, ThiefInv, DequeInv, Shape, Item
<1> QED BY <1>1, <1>2, <1>4 DEF StepOK, Effect

\* A thief whose CAS succeeds takes the item at the top.
LEMMA StealCasOK == ASSUME DequeInv, NEW h \in Thieves, StealCas(h) PROVE StepOK
<1> USE Before
<1>1. /\ thief[h] = "cas" /\ owner # "dropped"
      /\ UNCHANGED <<bottom, buf, pushed, owner, ot, won>>
      /\ thief' = [thief EXCEPT ![h] = "idle"]
      /\ tt' = [tt EXCEPT ![h] = 0] /\ tv' = [tv EXCEPT ![h] = Uninit]
      /\ LogicalBottom' = LogicalBottom
  BY NotDropped DEF StealCas, ownerVars, LogicalBottom
<1>2. CASE tt[h] = top
  <2>1. Size >= 1 /\ tv[h] = Item(0)
    BY <1>1, <1>2 DEF DequeInv, ThiefInv
  <2>2. top' = Plus1(top) /\ Take({Item(0)})
    BY <1>2, <2>1 DEF StealCas
  <2>3. /\ Size' = Size - 1
        /\ \A k \in 0 .. Size - 2 : Item(k)' = Item(k + 1)
        /\ top' # top
        /\ \A g \in Thieves : thief[g] # "idle" =>
             /\ Off(top', tt[g]) + Size' <= pushed
             /\ tt[g] # top'
    BY <1>1, <2>1, <2>2, TopMoves
  <2>4. \A i \in Items : owner = "pop_restore" => Size = 0
    BY DEF OwnerInv, DequeInv
  <2>5. Hand({0})
    BY <1>1, <2>1, <2>2, <2>4 DEF Hand, HandedOut, Take
  <2>6. TakeTop
    BY <1>1, <2>1, <2>3, <2>5 DEF TakeTop
  <2>7. OwnerInv'
    BY <1>1, <2>1, <2>3 DEF OwnerInv, DequeInv
  <2>8. Reach'
    BY <1>1, <2>3 DEF Reach, DequeInv, Shape
  <2>9. ThiefInv'
    BY <1>1, <2>3 DEF ThiefInv, DequeInv, Shape
  <2> QED BY <2>6, <2>7, <2>8, <2>9 DEF StepOK, Effect
<1>3. CASE tt[h] # top
  <2>1. UNCHANGED <<top, bottom, buf, pushed, taken, ownerVars>>
    BY <1>1, <1>3 DEF StealCas, ownerVars
  <2>2. Keep /\ OwnerInv' /\ Size' = Size
    BY <1>1, <2>1, ThiefLooks
  <2>3. Reach'
    BY <1>1, <2>1, <2>2 DEF Reach, DequeInv, Shape
  <2>4. ThiefInv'
    BY <1>1, <2>1, <2>2 DEF ThiefInv, DequeInv, Shape, Item
  <2> QED BY <2>2, <2>3, <2>4 DEF StepOK, Effect
<1> QED BY <1>2, <1>3

\* Every step, or stutter, is one of the five effects and keeps the invariant.
\* A step that changes nothing, push on a full deque among them.
LEMMA StutterOK == ASSUME DequeInv, UNCHANGED vars PROVE StepOK
<1>1. Keep
  BY DEF Keep, HandedOut, Size, LogicalBottom, Item, vars, ownerVars, thiefVars
<1>2. OwnerInv'
  BY <1>1 DEF Keep, OwnerInv, DequeInv, vars, ownerVars, thiefVars
<1>3. top' = top /\ UNCHANGED thiefVars
  BY DEF vars
<1> QED BY <1>1, <1>2, <1>3, ThievesUndisturbed DEF StepOK, Effect, Keep

\* Every step of push, pop, steal and drop, and every stutter, has one of the
\* five effects and keeps the invariant.
LEMMA EveryStep == ASSUME DequeInv, [Next]_vars PROVE DequeInv' /\ Effect
<1>1. CASE UNCHANGED vars \/ PushFull
  BY <1>1, StutterOK, ShapeStep, EffectItems DEF StepOK, PushFull, DequeInv
<1>2. CASE OwnerStep /\ ~PushFull
  <2>1. StepOK
    BY <1>2, PushWriteOK, PushPublishOK, PopClaimOK, PopLoadOK, PopCasOK, PopRestoreOK,
       DropOK DEF OwnerStep
  <2> QED BY <2>1, ShapeStep, EffectItems DEF StepOK, DequeInv
<1>3. ASSUME NEW h \in Thieves, ThiefStep(h) PROVE DequeInv' /\ Effect
  <2>1. StepOK
    BY <1>3, StealTopOK, StealBottomOK, StealReadOK, StealCasOK DEF ThiefStep
  <2> QED BY <2>1, ShapeStep, EffectItems DEF StepOK, DequeInv
<1> QED BY <1>1, <1>2, <1>3 DEF Next

\* An empty deque, wherever its indices are.
LEMMA InvInit == ASSUME Init PROVE DequeInv
<1> USE DEF Init
<1>1. top \in Index /\ 0 \in Index
  BY HalfFacts, CapacityAssumption DEF Index
<1>2. Size = 0
  BY <1>1, OffSteps DEF Size, LogicalBottom
<1>3. Shape
  <2>1. buf \in [0 .. Capacity - 1 -> Items \cup {Uninit, Torn}]
    OBVIOUS
  <2>2. pushed \in 0 .. MaxPushes /\ taken \in [Items -> Nat]
    BY HalfFacts
  <2>3. thief \in [Thieves -> {"idle", "bottom", "read", "cas"}] /\ tt \in [Thieves -> Index]
        /\ tv \in [Thieves -> Items \cup {Uninit, Torn}]
    BY <1>1
  <2> QED BY <1>1, <2>1, <2>2, <2>3 DEF Shape
<1>4. Bounded /\ Reach /\ OwnerInv /\ ThiefInv
  BY <1>2, HalfFacts DEF Bounded, Reach, OwnerInv, ThiefInv
<1>5. ItemsInv
  BY <1>2 DEF ItemsInv, HandedOut, Items, LiveItem
<1> QED BY <1>3, <1>4, <1>5 DEF DequeInv

\* The invariant holds in every state of the deque.
LEMMA AlwaysDequeInv == Spec => []DequeInv
<1>1. DequeInv /\ [Next]_vars => DequeInv'  BY EveryStep
<1> QED BY <1>1, InvInit, PTL DEF Spec

-----------------------------------------------------------------------------
(* What the invariant says of the deque. *)

\* An item that was handed out more often than once would be in HandedOut too.
LEMMA InvType == ASSUME DequeInv PROVE TypeOK
<1>1. \A i \in Items : HandedOut[i] \in {0, 1}
  BY DEF DequeInv, ItemsInv
<1>2. \A i \in Items : taken[i] \in Nat /\ (HandedOut[i] = taken[i] \/ HandedOut[i] = taken[i] + 1)
  BY DEF HandedOut, DequeInv, Shape
<1>3. \A i \in Items : taken[i] \in 0 .. 1
  BY <1>1, <1>2
<1> QED BY <1>3 DEF TypeOK, DequeInv, Shape

\* Every state has the types of the code, and no item is ever handed out twice.
THEOREM TypeCorrect == Spec => []TypeOK
BY AlwaysDequeInv, InvType, PTL

\* The item in front of the thief is an item, and the slot holds it.
LEMMA InvHoldsTop == ASSUME DequeInv PROVE ThiefHoldsTop
<1> SUFFICES ASSUME NEW h \in Thieves, thief[h] = "cas", tt[h] = top
             PROVE  tv[h] \in Items /\ tv[h] = buf[Slot(top)]
  BY DEF ThiefHoldsTop
<1>1. Size >= 1 /\ tv[h] = Item(0)
  BY DEF DequeInv, ThiefInv
<1>2. Item(0) = buf[Slot(top)]
  BY Before, Positions DEF Item
<1>3. Item(0) \in 1 .. pushed
  <2>1. owner # "dropped"  BY NotDropped
  <2> QED BY <1>1, <2>1, Before DEF DequeInv, ItemsInv
<1> QED BY <1>1, <1>2, <1>3, Before DEF Items

\* The read before the CAS of steal: whenever the CAS would succeed, the value
\* that was read is the item of that slot, whole, even if the owner reused the
\* slots and the indices wrapped while the thief slept between the two.  It sleeps
\* through fewer than 2 * Half pushes: CapacityAssumption rules out that `top` comes
\* round to the value it loaded, which takes 2^32 pushes where a usize has 32 bits.
THEOREM ThiefCorrect == Spec => []ThiefHoldsTop
BY AlwaysDequeInv, InvHoldsTop, PTL

\* The sequence Live of the model is what the positions hold.
LEMMA LiveIsItems ==
    ASSUME DequeInv
    PROVE  /\ Live = [k \in 1 .. Size |-> Item(k - 1)]
           /\ \A i : (\E k \in DOMAIN Live : Live[k] = i) <=> (\E k \in 0 .. Size - 1 : Item(k) = i)
<1>1. Minus(LogicalBottom, top) = Size /\ Size \in Nat
  BY Gap, HalfFacts DEF DequeInv, Bounded
<1>2. \A k \in 1 .. Size : top + k - 1 = top + (k - 1)
  BY <1>1, Before DEF Index
<1>3. Live = [k \in 1 .. Size |-> Item(k - 1)]
  BY <1>1, <1>2 DEF Live, Item, Pos
<1>4. ASSUME NEW i
      PROVE  (\E k \in DOMAIN Live : Live[k] = i) <=> (\E k \in 0 .. Size - 1 : Item(k) = i)
  <2>1. \A k \in 0 .. Size - 1 : k + 1 \in 1 .. Size /\ Live[k + 1] = Item(k)
    BY <1>1, <1>3
  <2>2. \A k \in 1 .. Size : k - 1 \in 0 .. Size - 1 /\ Live[k] = Item(k - 1)
    BY <1>1, <1>3
  <2>3. DOMAIN Live = 1 .. Size  BY <1>3
  <2>4. ASSUME NEW k \in 0 .. Size - 1, Item(k) = i PROVE \E j \in DOMAIN Live : Live[j] = i
    BY <2>1, <2>3, <2>4
  <2>5. ASSUME NEW j \in DOMAIN Live, Live[j] = i PROVE \E k \in 0 .. Size - 1 : Item(k) = i
    BY <2>2, <2>3, <2>5
  <2> QED BY <2>4, <2>5
<1> QED BY <1>3, <1>4

\* Live items and hand-outs add up to the items pushed.
LEMMA InvExactlyOnce == ASSUME DequeInv PROVE ExactlyOnce
<1> SUFFICES ASSUME NEW i \in Items
             PROVE  HandedOut[i] + (IF LiveItem(i) THEN 1 ELSE 0) = IF i <= pushed THEN 1 ELSE 0
  BY LiveIsItems DEF ExactlyOnce, LiveItem
<1>1. HandedOut[i] = IF i <= pushed /\ ~LiveItem(i) THEN 1 ELSE 0
  BY DEF DequeInv, ItemsInv
<1>2. LiveItem(i) => i <= pushed
  BY Before DEF DequeInv, ItemsInv, LiveItem
<1> QED BY <1>1, <1>2

\* push, pop, steal and drop neither lose nor repeat an item, in any
\* interleaving, across the wrap of the indices.
THEOREM OnceCorrect == Spec => []ExactlyOnce
BY AlwaysDequeInv, InvExactlyOnce, PTL

-----------------------------------------------------------------------------
(* The deque implements the atomic one. *)

\* What a slot may hold, and the refinement mapping of `items`.
Vals == Items \cup {Uninit, Torn}
AbsItems == IF owner = "dropped" THEN << >> ELSE Live

\* Live, as a sequence.
LiveIsSeq ==
    /\ Live \in Seq(Vals)
    /\ Len(Live) = Size /\ Size \in Nat
    /\ \A k \in 1 .. Size : Live[k] = Item(k - 1)

\* In this state.
LEMMA LiveSeq == DequeInv => LiveIsSeq
<1> SUFFICES ASSUME DequeInv PROVE LiveIsSeq
  OBVIOUS
<1>1. Size \in Nat /\ Live = [k \in 1 .. Size |-> Item(k - 1)]
  BY Before, LiveIsItems
<1>2. \A k \in 1 .. Size : Item(k - 1) \in Vals
  BY Before DEF Item, Vals
<1>3. Live \in [1 .. Size -> Vals]
  BY <1>1, <1>2
<1>4. Live \in Seq(Vals)
  BY <1>1, <1>3, SeqDef
<1>5. DOMAIN Live = 1 .. Size /\ DOMAIN Live = 1 .. Len(Live) /\ Len(Live) \in Nat
  BY <1>3, <1>4, LenProperties
<1>6. Len(Live) = Size
  BY <1>1, <1>5
<1> QED BY <1>1, <1>4, <1>6 DEF LiveIsSeq

\* And in the next state.
LEMMA LiveSeqNext == DequeInv' => LiveIsSeq'
BY LiveSeq, PTL

\* Hand-outs are a function of the items, before a step and after it.
LEMMA HandedOutIsFunction ==
    /\ HandedOut = [i \in Items |-> HandedOut[i]]
    /\ HandedOut' = [i \in Items |-> HandedOut'[i]]
BY DEF HandedOut

\* Each of the five effects is a step of the atomic deque, or none: to drop an
\* empty deque is to do nothing.
LEMMA Refines ==
    ASSUME DequeInv, DequeInv', Effect
    PROVE  Abstract!Next \/ UNCHANGED <<AbsItems, pushed, HandedOut>>
<1>a. /\ Live \in Seq(Vals) /\ Len(Live) = Size /\ Size \in Nat
      /\ \A k \in 1 .. Size : Live[k] = Item(k - 1)
  BY LiveSeq DEF LiveIsSeq
<1>b. /\ Live' \in Seq(Vals) /\ Len(Live') = Size' /\ Size' \in Nat
       /\ \A k \in 1 .. Size' : Live'[k] = Item(k - 1)'
  BY LiveSeqNext DEF LiveIsSeq, Vals
<1>c. DOMAIN HandedOut = Items
  BY DEF HandedOut
<1>1. CASE Keep
  <2>1. Live' = Live
    <3>1. \A k \in 1 .. Size : Live'[k] = Live[k]
      <4>1. \A k \in 1 .. Size : k - 1 \in 0 .. Size - 1  BY <1>a
      <4> QED BY <1>1, <1>a, <1>b, <4>1 DEF Keep
    <3> QED BY <3>1, <1>1, <1>a, <1>b, SeqEqual DEF Keep
  <2>2. HandedOut' = HandedOut
    BY <1>1, HandedOutIsFunction DEF Keep
  <2> QED BY <1>1, <2>1, <2>2 DEF Keep, AbsItems
<1>2. CASE Grow
  <2>1. pushed + 1 \in Vals
    BY <1>2, Before DEF Grow, Vals, Items
  <2>2. Live' = Append(Live, pushed + 1)
    <3> DEFINE s == Append(Live, pushed + 1)
    <3>1. s \in Seq(Vals) /\ Len(s) = Size + 1 /\ s[Size + 1] = pushed + 1
          /\ \A k \in 1 .. Size : s[k] = Live[k]
      BY <1>a, <2>1, AppendProperties
    <3>2. \A k \in 1 .. Size' : Live'[k] = s[k]
      <4>1. \A k \in 1 .. Size' : k - 1 \in 0 .. Size /\ (k # Size + 1 => k \in 1 .. Size /\ k - 1 < Size)
        BY <1>a, <1>2 DEF Grow
      <4> HIDE DEF s
      <4> QED BY <4>1, <3>1, <1>a, <1>b, <1>2 DEF Grow
    <3>3. Len(Live') = Len(s)  BY <3>1, <1>b, <1>2 DEF Grow
    <3> HIDE DEF s
    <3>4. Live' = s  BY <3>1, <3>2, <3>3, <1>b, SeqEqual
    <3> QED BY <3>4 DEF s
  <2>3. HandedOut' = HandedOut
    BY <1>2, HandedOutIsFunction DEF Grow
  <2>4. Abstract!Push
    BY <1>2, <2>2, <2>3, <1>a DEF Grow, Abstract!Push
  <2> QED BY <2>4 DEF Abstract!Next
<1>3. CASE TakeBottom
  <2>1. Live' = SubSeq(Live, 1, Len(Live) - 1)
    <3> DEFINE s == SubSeq(Live, 1, Size - 1)
    <3>1. \A k \in 1 .. Size - 1 : Live[k] \in Vals
      BY <1>a, ElementOfSeq
    <3>2. s \in Seq(Vals) /\ Len(s) = Size - 1 /\ \A k \in 1 .. Size - 1 : s[k] = Live[k]
      BY <1>a, <1>3, <3>1, SubSeqProperties DEF TakeBottom
    <3> HIDE DEF s
    <3>3. \A k \in 1 .. Size' : Live'[k] = s[k]
      <4>1. \A k \in 1 .. Size' : k - 1 \in 0 .. Size - 2 /\ k \in 1 .. Size /\ k \in 1 .. Size - 1
        BY <1>a, <1>3 DEF TakeBottom
      <4> QED BY <4>1, <3>2, <1>a, <1>b, <1>3 DEF TakeBottom
    <3>4. Live' = s  BY <3>2, <3>3, <1>b, <1>3, SeqEqual DEF TakeBottom
    <3> QED BY <3>4, <1>a DEF s
  <2>2. Live # << >> /\ Live[Len(Live)] = Item(Size - 1)
    BY <1>a, <1>3, EmptySeq DEF TakeBottom
  <2>3. HandedOut' = [i \in Items |-> IF i \in {Item(Size - 1)} THEN HandedOut[i] + 1 ELSE HandedOut[i]]
    BY <1>3, HandedOutIsFunction DEF TakeBottom, Hand
  <2>4. Abstract!Pop
    BY <1>3, <2>1, <2>2, <2>3, <1>c DEF TakeBottom, Abstract!Pop, Abstract!Take
  <2> QED BY <2>4 DEF Abstract!Next
<1>4. CASE TakeTop
  <2>1. Live # << >> /\ Head(Live) = Item(0)
    <3>1. Live # << >> BY <1>a, <1>4, EmptySeq DEF TakeTop
    <3>2. Live[1] = Item(0)  BY <1>a, <1>4 DEF TakeTop
    <3> QED BY <3>1, <3>2
  <2>2. Live' = Tail(Live)
    <3> DEFINE s == Tail(Live)
    <3>1. s \in Seq(Vals) /\ Len(s) = Size - 1 /\ \A k \in 1 .. Size - 1 : s[k] = Live[k + 1]
      BY <1>a, <2>1, HeadTailProperties
    <3> HIDE DEF s
    <3>2. \A k \in 1 .. Size' : Live'[k] = s[k]
      <4>1. \A k \in 1 .. Size' : k - 1 \in 0 .. Size - 2 /\ k + 1 \in 1 .. Size /\ k \in 1 .. Size - 1
                                  /\ (k - 1) + 1 = k /\ (k + 1) - 1 = k
        BY <1>a, <1>4 DEF TakeTop
      <4>2. \A k \in 1 .. Size' : Live'[k] = Item(k)
        BY <4>1, <1>b, <1>4 DEF TakeTop
      <4>3. \A k \in 1 .. Size' : s[k] = Item(k)
        BY <4>1, <3>1, <1>a
      <4> QED BY <4>2, <4>3
    <3>3. Live' = s  BY <3>1, <3>2, <1>b, <1>4, SeqEqual DEF TakeTop
    <3> QED BY <3>3 DEF s
  <2>3. HandedOut' = [i \in Items |-> IF i \in {Item(0)} THEN HandedOut[i] + 1 ELSE HandedOut[i]]
    BY <1>4, HandedOutIsFunction DEF TakeTop, Hand
  <2>4. Abstract!Steal
    BY <1>4, <2>1, <2>2, <2>3, <1>c DEF TakeTop, Abstract!Steal, Abstract!Take
  <2> QED BY <2>4 DEF Abstract!Next
<1>5. CASE TakeAll
  <2>1. HandedOut' = [i \in Items |->
           IF i \in {Live[k] : k \in DOMAIN Live} THEN HandedOut[i] + 1 ELSE HandedOut[i]]
    <3>1. \A i : (\E k \in 0 .. Size - 1 : Item(k) = i) <=> i \in {Live[k] : k \in DOMAIN Live}
      BY LiveIsItems
    <3> QED BY <3>1, <1>5, HandedOutIsFunction DEF TakeAll, Hand
  <2>2. CASE Live = << >>
    <3>1. HandedOut' = HandedOut
      BY <2>1, <2>2, HandedOutIsFunction
    <3> QED BY <3>1, <1>5, <2>2 DEF TakeAll, AbsItems
  <2>3. CASE Live # << >>
    <3>1. Abstract!DropAll
      BY <1>5, <2>1, <2>3, <1>c DEF TakeAll, Abstract!DropAll, Abstract!Take
    <3> QED BY <3>1 DEF Abstract!Next
  <2> QED BY <2>2, <2>3
<1> QED BY <1>1, <1>2, <1>3, <1>4, <1>5 DEF Effect

\* The deque of deque.rs implements the atomic one: push takes effect when it
\* publishes the index, steal at its CAS, pop when it has seen top or at its CAS.
THEOREM DequeRefines == Spec => Linearizable
<1>1. Init => Abstract!Init
  <2> SUFFICES ASSUME Init PROVE Abstract!Init  OBVIOUS
  <2>1. DequeInv  BY InvInit
  <2>2. Size = 0
    <3>1. top \in Index  BY Before, <2>1
    <3> QED BY <3>1, OffSteps DEF Size, LogicalBottom, Init
  <2>3. Live = << >>
    BY <2>1, <2>2, LiveSeq, EmptySeq DEF LiveIsSeq
  <2>4. HandedOut = [i \in 1 .. MaxPushes |-> 0]
    BY DEF HandedOut, Init, Items
  <2> QED BY <2>3, <2>4 DEF Abstract!Init, Init
<1>2. DequeInv /\ [Next]_vars => [Abstract!Next]_<<AbsItems, pushed, HandedOut>>
  BY EveryStep, Refines
<1> QED BY <1>1, <1>2, AlwaysDequeInv, PTL DEF Spec, Linearizable, Abstract!Spec, AbsItems
=============================================================================
