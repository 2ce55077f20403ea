-------------------------- MODULE ExecutorProofs ---------------------------
(***************************************************************************)
(* The executors: type correctness, the safety invariants and the two      *)
(* action properties of Executor.tla, for every number of coroutines,      *)
(* every region that the contract allows, all priorities and every         *)
(* strategy.                                                               *)
(*                                                                         *)
(* The inductive invariant is that some role of every block makes the code *)
(* machines of the bodies (SurgeryProofs), that a running machine is where *)
(* its block's role says (RunRole), that a coroutine between two polls has *)
(* run what its state says (Resting), and what the scan knows of those it  *)
(* has passed (Scanning, Quiet).                                           *)
(***************************************************************************)
EXTENDS SurgeryProofs

-----------------------------------------------------------------------------
(* The bands.                                                               *)

\* In a strict order of a finite set, the number of smaller elements is a rank.
LEMMA Ranks ==
    ASSUME NEW S, IsFiniteSet(S), NEW R,
           \A a \in S : <<a, a>> \notin R,
           \A a, b \in S : a # b => <<a, b>> \in R \/ <<b, a>> \in R,
           \A a, b, c \in S : <<a, b>> \in R /\ <<b, c>> \in R => <<a, c>> \in R
    PROVE  /\ Cardinality(S) \in Nat
           /\ \A a \in S : Cardinality({x \in S : <<x, a>> \in R}) \in 0 .. Cardinality(S) - 1
           /\ \A a, b \in S :
                <<a, b>> \in R <=> Cardinality({x \in S : <<x, a>> \in R})
                                     < Cardinality({x \in S : <<x, b>> \in R})
           /\ \A n \in 1 .. Cardinality(S) :
                \E a \in S : Cardinality({x \in S : <<x, a>> \in R}) = n - 1
<1> DEFINE below(a) == {x \in S : <<x, a>> \in R}
           rank == [a \in S |-> Cardinality(below(a))]
           size == Cardinality(S)
<1>0. size \in Nat
  BY FS_CardinalityType
<1>1. \A a \in S : IsFiniteSet(below(a)) /\ Cardinality(below(a)) \in Nat
  <2> SUFFICES ASSUME NEW a \in S PROVE IsFiniteSet(below(a)) /\ Cardinality(below(a)) \in Nat
    OBVIOUS
  <2>1. below(a) \in SUBSET S
    OBVIOUS
  <2> HIDE DEF below
  <2> QED BY <2>1, FS_Subset, FS_CardinalityType
<1>2. ASSUME NEW a \in S PROVE Cardinality(below(a)) \in 0 .. size - 1
  <2>1. below(a) \in SUBSET S /\ below(a) # S
    OBVIOUS
  <2> HIDE DEF below
  <2> QED BY <1>0, <1>1, <2>1, FS_Subset
<1>3. ASSUME NEW a \in S, NEW b \in S, <<a, b>> \in R
      PROVE  Cardinality(below(a)) < Cardinality(below(b))
  <2>1. below(a) \in SUBSET below(b) /\ below(a) # below(b)
    BY <1>3
  <2> HIDE DEF below
  <2> QED BY <1>1, <2>1, FS_Subset
<1>4. \A a, b \in S : <<a, b>> \in R <=> Cardinality(below(a)) < Cardinality(below(b))
  <2> SUFFICES ASSUME NEW a \in S, NEW b \in S
               PROVE  <<a, b>> \in R <=> Cardinality(below(a)) < Cardinality(below(b))
    OBVIOUS
  <2>1. CASE a = b
    BY <2>1, <1>2
  <2>2. CASE <<a, b>> \in R
    BY <2>2, <1>3
  <2>3. CASE <<b, a>> \in R
    <3>1. Cardinality(below(b)) < Cardinality(below(a)) /\ <<a, b>> \notin R
      BY <2>3, <1>3
    <3> QED BY <3>1, <1>2
  <2> QED BY <2>1, <2>2, <2>3
<1>5. rank \in Injection(S, 0 .. size - 1)
  <2>1. rank \in [S -> 0 .. size - 1]
    BY <1>2
  <2>2. ASSUME NEW a \in S, NEW b \in S, rank[a] = rank[b] PROVE a = b
    <3> SUFFICES ASSUME a # b PROVE FALSE
      OBVIOUS
    <3>1. <<a, b>> \in R \/ <<b, a>> \in R
      OBVIOUS
    <3>2. Cardinality(below(a)) = Cardinality(below(b)) /\ Cardinality(below(a)) \in Int
      BY <2>2, <1>2
    <3> HIDE DEF below, rank
    <3> QED BY <3>1, <3>2, <1>4
  <2> HIDE DEF rank
  <2> QED BY <2>1, <2>2 DEF Injection, IsInjective
<1>6. IsFiniteSet(0 .. size - 1) /\ Cardinality(0 .. size - 1) = size
  <2>1. 0 \in Int /\ size - 1 \in Int
    BY <1>0
  <2> HIDE DEF size
  <2> QED BY <1>0, <2>1, FS_Interval
<1>7. rank \in Surjection(S, 0 .. size - 1)
  BY <1>5, <1>6, FS_Injection
<1>8. ASSUME NEW n \in 1 .. size PROVE \E a \in S : Cardinality(below(a)) = n - 1
  <2>1. n - 1 \in 0 .. size - 1
    BY <1>0
  <2>2. PICK a \in S : rank[a] = n - 1
    BY <1>7, <2>1 DEF Surjection
  <2> QED BY <2>2
<1> QED BY <1>0, <1>2, <1>4, <1>8

\* What is known of the constants.
LEMMA ConstantsType ==
    /\ N \in Nat /\ N > 0 /\ MaxPriority \in Nat
    /\ \A p \in Priorities : p \in [Coros -> 0 .. NoPriority]
BY RegionAssumption

\* There are N coroutines.
LEMMA CorosFinite == IsFiniteSet(Coros) /\ Cardinality(Coros) = N
<1>1. N \in Int /\ 1 \in Int /\ N > 0
  BY ConstantsType
<1>2. IsFiniteSet(1 .. N) /\ Cardinality(1 .. N) = IF 1 > N THEN 0 ELSE N - 1 + 1
  BY <1>1, FS_Interval
<1> QED BY <1>1, <1>2 DEF Coros

\* Order sorts the coroutines.
LEMMA OrderSorts ==
    ASSUME prio \in [Coros -> 0 .. NoPriority]
    PROVE  /\ \A n \in Coros : Order[n] \in Coros
           /\ \A c \in Coros : \E n \in Coros : Order[n] = c
           /\ \A m, n \in Coros : m < n => Before(Order[m], Order[n])
           /\ DOMAIN Order = 1 .. N
<1> USE ConstantsType
<1> DEFINE R == {x \in Coros \X Coros : Before(x[1], x[2])}
           rank(c) == Cardinality({d \in Coros : <<d, c>> \in R})
<1>k. \A c \in Coros : Key(c) \in Nat /\ c \in Nat
  BY DEF Key, NoPriority, Coros
<1>r. \A a, b \in Coros : <<a, b>> \in R <=> Before(a, b)
  OBVIOUS
<1>1. /\ \A a \in Coros : <<a, a>> \notin R
      /\ \A a, b \in Coros : a # b => <<a, b>> \in R \/ <<b, a>> \in R
      /\ \A a, b, c \in Coros : <<a, b>> \in R /\ <<b, c>> \in R => <<a, c>> \in R
  <2> HIDE DEF R
  <2> QED BY <1>k, <1>r DEF Before
<1>2. /\ \A a \in Coros : rank(a) \in 0 .. N - 1
      /\ \A a, b \in Coros : <<a, b>> \in R <=> rank(a) < rank(b)
      /\ \A n \in 1 .. N : \E a \in Coros : rank(a) = n - 1
  <2> HIDE DEF R
  <2>1. IsFiniteSet(Coros) /\ Cardinality(Coros) = N
    BY CorosFinite
  <2>2. \A a \in Coros : rank(a) \in 0 .. Cardinality(Coros) - 1
    BY <1>1, <2>1, Ranks
  <2>3. \A a, b \in Coros : <<a, b>> \in R <=> rank(a) < rank(b)
    BY <1>1, <2>1, Ranks
  <2>4. \A n \in 1 .. Cardinality(Coros) : \E a \in Coros : rank(a) = n - 1
    BY <1>1, <2>1, Ranks
  <2> HIDE DEF rank
  <2> QED BY <2>1, <2>2, <2>3, <2>4
<1>3. ASSUME NEW c \in Coros PROVE Cardinality({d \in Coros : Before(d, c)}) = rank(c)
  <2>1. {d \in Coros : Before(d, c)} = {d \in Coros : <<d, c>> \in R}
    BY <1>r
  <2> QED BY <2>1
<1> HIDE DEF rank
<1>4. ASSUME NEW n \in Coros PROVE Order[n] \in Coros /\ rank(Order[n]) = n - 1
  <2>1. \E c \in Coros : Cardinality({d \in Coros : Before(d, c)}) = n - 1
    BY <1>2, <1>3 DEF Coros
  <2>2. Order[n] = CHOOSE c \in Coros : Cardinality({d \in Coros : Before(d, c)}) = n - 1
    BY DEF Order
  <2>3. Order[n] \in Coros /\ Cardinality({d \in Coros : Before(d, Order[n])}) = n - 1
    BY <2>1, <2>2, Zenon
  <2> QED BY <2>3, <1>3
<1>5. ASSUME NEW c \in Coros PROVE \E n \in Coros : Order[n] = c
  <2>1. rank(c) + 1 \in Coros
    BY <1>2 DEF Coros
  <2>2. Order[rank(c) + 1] \in Coros /\ rank(Order[rank(c) + 1]) = rank(c)
    BY <2>1, <1>4, <1>2
  <2>3. Order[rank(c) + 1] = c
    <3>1. PICK o : o = Order[rank(c) + 1]
      OBVIOUS
    <3>2. o \in Coros /\ rank(o) = rank(c) /\ rank(c) \in 0 .. N - 1
      BY <2>2, <3>1, <1>2
    <3> HIDE DEF R
    <3>3. ~(<<o, c>> \in R) /\ ~(<<c, o>> \in R)
      BY <3>2, <1>2
    <3> QED BY <3>1, <3>2, <3>3, <1>1
  <2> QED BY <2>1, <2>3
<1>6. ASSUME NEW m \in Coros, NEW n \in Coros, m < n PROVE Before(Order[m], Order[n])
  <2>1. rank(Order[m]) < rank(Order[n]) /\ Order[m] \in Coros /\ Order[n] \in Coros
    BY <1>4, <1>6 DEF Coros
  <2> HIDE DEF R
  <2> QED BY <2>1, <1>2, <1>r
<1>7. DOMAIN Order = 1 .. N
  BY DEF Order, Coros
<1> QED BY <1>4, <1>5, <1>6, <1>7

\* The places where bands start cut 1 .. N.
LEMMA StartsCut ==
    ASSUME prio \in [Coros -> 0 .. NoPriority]
    PROVE  /\ Cardinality(Starts) \in 1 .. N
           /\ \A b \in 1 .. Cardinality(Starts) + 1 :
                Start(b) \in 1 .. N + 1 /\ (Start(b) \in Starts \/ Start(b) = N + 1)
           /\ \A b \in 1 .. Cardinality(Starts) :
                Start(b) < Start(b + 1) /\ \A m \in Starts : ~(Start(b) < m /\ m < Start(b + 1))
           /\ \A n \in Coros : \E b \in 1 .. Cardinality(Starts) : Start(b) <= n /\ n < Start(b + 1)
           /\ \A a, b \in 1 .. Cardinality(Starts) + 1 : a < b => Start(a) < Start(b)
<1> USE ConstantsType
<1> DEFINE S == Starts \cup {N + 1}
           R == {x \in S \X S : x[1] < x[2]}
           rank(n) == Cardinality({m \in S : <<m, n>> \in R})
           size == Cardinality(Starts)
<1>0. Starts \subseteq 1 .. N /\ 1 \in Starts
  BY DEF Starts, Coros
<1>n. \A s : s \in Starts \/ s = N + 1 => s \in 1 .. N + 1
  <2> SUFFICES ASSUME NEW s, s \in Starts \/ s = N + 1 PROVE s \in 1 .. N + 1
    OBVIOUS
  <2>1. CASE s \in Starts
    <3>1. s \in 1 .. N
      BY <2>1, <1>0
    <3> QED BY <3>1
  <2>2. CASE s = N + 1
    BY <2>2
  <2> QED BY <2>1, <2>2
<1>1. S \subseteq Int /\ N + 1 \notin Starts
  BY <1>0
<1>2. IsFiniteSet(Starts) /\ size \in 1 .. N /\ IsFiniteSet(S) /\ Cardinality(S) = size + 1
  <2>1. IsFiniteSet(Starts) /\ size <= N
    <3>1. Starts \in SUBSET Coros
      BY <1>0 DEF Coros
    <3>2. IsFiniteSet(Starts) /\ Cardinality(Starts) <= Cardinality(Coros)
      BY <3>1, CorosFinite, FS_Subset
    <3> QED BY <3>2, CorosFinite
  <2>2. size \in Nat /\ size # 0
    BY <2>1, <1>0, FS_CardinalityType, FS_EmptySet
  <2>3. IsFiniteSet(S) /\ Cardinality(S) = size + 1
    <3>1. IsFiniteSet(Starts \cup {N + 1}) /\ Cardinality(Starts \cup {N + 1}) = Cardinality(Starts) + 1
      BY <2>1, <1>1, FS_AddElement, Zenon
    <3> QED BY <3>1
  <2> QED BY <2>1, <2>2, <2>3
<1>r. \A a, b \in S : <<a, b>> \in R <=> a < b
  OBVIOUS
<1>3. /\ \A a \in S : <<a, a>> \notin R
      /\ \A a, b \in S : a # b => <<a, b>> \in R \/ <<b, a>> \in R
      /\ \A a, b, c \in S : <<a, b>> \in R /\ <<b, c>> \in R => <<a, c>> \in R
  <2> HIDE DEF R, S
  <2> QED BY <1>1, <1>r
<1>4. /\ \A a \in S : rank(a) \in 0 .. size
      /\ \A a, b \in S : <<a, b>> \in R <=> rank(a) < rank(b)
      /\ \A n \in 1 .. size + 1 : \E a \in S : rank(a) = n - 1
  <2>1. /\ \A a \in S : rank(a) \in 0 .. Cardinality(S) - 1
        /\ \A a, b \in S : <<a, b>> \in R <=> rank(a) < rank(b)
        /\ \A n \in 1 .. Cardinality(S) : \E a \in S : rank(a) = n - 1
    <3> HIDE DEF R, S
    <3> QED BY <1>2, <1>3, Ranks
  <2> HIDE DEF R, S, rank
  <2> QED BY <2>1, <1>2
<1>5. ASSUME NEW n \in S PROVE Cardinality({m \in Starts : m < n}) = rank(n)
  <2>1. {m \in Starts : m < n} = {m \in S : <<m, n>> \in R}
    BY <1>0
  <2> QED BY <2>1
<1> HIDE DEF rank
<1>6. ASSUME NEW b \in 1 .. size + 1 PROVE Start(b) \in S /\ rank(Start(b)) = b - 1
  <2>1. \E n \in S : Cardinality({m \in Starts : m < n}) = b - 1
    BY <1>4, <1>5
  <2>2. Start(b) = CHOOSE n \in S : Cardinality({m \in Starts : m < n}) = b - 1
    BY DEF Start
  <2>3. Start(b) \in S /\ Cardinality({m \in Starts : m < Start(b)}) = b - 1
    BY <2>1, <2>2, Zenon
  <2> QED BY <2>3, <1>5
<1>7. \A a, b \in 1 .. size + 1 : a < b => Start(a) < Start(b)
  <2> SUFFICES ASSUME NEW a \in 1 .. size + 1, NEW b \in 1 .. size + 1, a < b
               PROVE  Start(a) < Start(b)
    OBVIOUS
  <2>1. Start(a) \in S /\ Start(b) \in S /\ rank(Start(a)) < rank(Start(b))
    BY <1>2, <1>6
  <2> HIDE DEF S, R
  <2> QED BY <2>1, <1>4, <1>r
<1>8. ASSUME NEW b \in 1 .. size, NEW m \in Starts, Start(b) < m, m < Start(b + 1) PROVE FALSE
  <2>1. b + 1 \in 1 .. size + 1 /\ b \in 1 .. size + 1 /\ m \in S
    BY <1>2
  <2>2. rank(Start(b)) = b - 1 /\ rank(Start(b + 1)) = b /\ Start(b) \in S /\ Start(b + 1) \in S
    BY <2>1, <1>6, <1>2
  <2> HIDE DEF S, R
  <2>3. rank(Start(b)) < rank(m) /\ rank(m) < rank(Start(b + 1)) /\ rank(m) \in 0 .. size
    BY <1>8, <2>1, <2>2, <1>4, <1>r
  <2> QED BY <2>2, <2>3, <1>2
<1>9. ASSUME NEW n \in Coros PROVE \E b \in 1 .. size : Start(b) <= n /\ n < Start(b + 1)
  <2> DEFINE T == {b \in 1 .. size + 1 : n < Start(b)}
  <2>1. Start(size + 1) = N + 1
    <3>1. Start(size + 1) \in S /\ rank(Start(size + 1)) = size
      BY <1>2, <1>6
    <3> SUFFICES ASSUME Start(size + 1) # N + 1 PROVE FALSE
      OBVIOUS
    <3>p. PICK s : s = Start(size + 1)
      OBVIOUS
    <3>q. s \in Starts
      BY <3>1, <3>p
    <3>2. Start(size + 1) < N + 1 /\ N + 1 \in S
      BY <3>p, <3>q, <1>0
    <3>3. rank(N + 1) \in 0 .. size /\ rank(Start(size + 1)) < rank(N + 1)
      <4> HIDE DEF S, R
      <4> QED BY <3>1, <3>2, <1>4, <1>r
    <3> QED BY <3>1, <3>3, <1>2
  <2>2. Start(1) = 1
    <3>1. Start(1) \in S /\ rank(Start(1)) = 0
      BY <1>2, <1>6
    <3> SUFFICES ASSUME Start(1) # 1 PROVE FALSE
      OBVIOUS
    <3>p. PICK s : s = Start(1)
      OBVIOUS
    <3>q. s \in Starts \/ s = N + 1
      BY <3>1, <3>p
    <3>r. s \in 1 .. N + 1
      BY <3>q, <1>n
    <3>2. 1 < Start(1) /\ 1 \in S
      BY <3>p, <3>r, <1>0
    <3>3. rank(1) \in 0 .. size /\ rank(1) < rank(Start(1))
      <4> HIDE DEF S, R
      <4> QED BY <3>1, <3>2, <1>4, <1>r
    <3> QED BY <3>1, <3>3, <1>2
  <2>3. T \in SUBSET Nat /\ T # {}
    BY <2>1, <1>2 DEF Coros
  <2>4. PICK b \in T : \A a \in T : b <= a
    <3> HIDE DEF T
    <3> QED BY <2>3, LeastNat
  <2>5. b # 1
    BY <2>2, <2>4 DEF Coros
  <2>6. b - 1 \in 1 .. size /\ b - 1 \notin T
    BY <2>4, <2>5, <1>2
  <2>7. b - 1 \in 1 .. size + 1 /\ Start(b - 1) \in Int
    BY <2>6, <1>2, <1>6, <1>1
  <2>8. Start(b - 1) <= n /\ n < Start(b - 1 + 1)
    BY <2>4, <2>6, <2>7, <1>2 DEF Coros
  <2> QED BY <2>6, <2>8
<1>10. \A b \in 1 .. size + 1 : Start(b) \in 1 .. N + 1 /\ (Start(b) \in Starts \/ Start(b) = N + 1)
  <2> SUFFICES ASSUME NEW b \in 1 .. size + 1
               PROVE  Start(b) \in 1 .. N + 1 /\ (Start(b) \in Starts \/ Start(b) = N + 1)
    OBVIOUS
  <2>1. PICK s : s = Start(b)
    OBVIOUS
  <2>2. s \in Starts \/ s = N + 1
    BY <2>1, <1>6
  <2>3. s \in 1 .. N + 1
    BY <2>2, <1>n
  <2> QED BY <2>1, <2>2, <2>3
<1>11. \A b \in 1 .. size : b \in 1 .. size + 1 /\ b + 1 \in 1 .. size + 1 /\ b < b + 1
  BY <1>2
<1> HIDE DEF size
<1>12. \A b \in 1 .. size :
         Start(b) < Start(b + 1) /\ \A m \in Starts : ~(Start(b) < m /\ m < Start(b + 1))
  BY <1>7, <1>8, <1>11
<1> QED BY <1>2, <1>7, <1>9, <1>10, <1>12 DEF size

\* The bands hold every coroutine, equals together and the lowest first.
Sorted ==
    /\ Len(bands) \in 1 .. N
    /\ \A b \in 1 .. Len(bands) :
          Size(b) \in 1 .. N /\ \A i \in 1 .. Size(b) : Member(b, i) \in Coros
    /\ \A c \in Coros : \E b \in 1 .. Len(bands) : \E i \in 1 .. Size(b) : Member(b, i) = c
    /\ \A b \in 1 .. Len(bands) : \A i, j \in 1 .. Size(b) : Key(Member(b, i)) = Key(Member(b, j))
    /\ \A a, b \in 1 .. Len(bands) : \A i \in 1 .. Size(a), j \in 1 .. Size(b) :
          a < b => Key(Member(a, i)) <= Key(Member(b, j))
    /\ MaxIsUnused =>
          \A a, b \in 1 .. Len(bands) : \A i \in 1 .. Size(a), j \in 1 .. Size(b) :
             a < b => prio[Member(a, i)] # prio[Member(b, j)]

\* The sort key tells priorities apart, unless both u32::MAX and None are there.
LEMMA KeyOrders ==
    ASSUME prio \in [Coros -> 0 .. NoPriority], MaxIsUnused, NEW c \in Coros, NEW d \in Coros
    PROVE  (prio[d] < prio[c] => Key(d) < Key(c)) /\ (Key(d) = Key(c) => prio[d] = prio[c])
<1>1. MaxPriority \in Nat
  BY ConstantsType
<1>2. prio[c] \in 0 .. MaxPriority + 1 /\ prio[d] \in 0 .. MaxPriority + 1
  BY DEF NoPriority
<1>3. /\ ~(prio[c] = MaxPriority /\ prio[d] = MaxPriority + 1)
      /\ ~(prio[d] = MaxPriority /\ prio[c] = MaxPriority + 1)
  BY DEF MaxIsUnused, NoPriority
<1> QED BY <1>1, <1>2, <1>3 DEF Key, NoPriority

\* build_priority_loop's bands are sorted.
LEMMA BandsSorted ==
    ASSUME prio \in [Coros -> 0 .. NoPriority], bands = BandsOf
    PROVE  Sorted
<1> USE ConstantsType
<1> DEFINE size == Cardinality(Starts)
<1>1. /\ size \in 1 .. N
      /\ \A b \in 1 .. size + 1 :
           Start(b) \in 1 .. N + 1 /\ (Start(b) \in Starts \/ Start(b) = N + 1)
      /\ \A b \in 1 .. size :
           Start(b) < Start(b + 1) /\ \A m \in Starts : ~(Start(b) < m /\ m < Start(b + 1))
      /\ \A n \in Coros : \E b \in 1 .. size : Start(b) <= n /\ n < Start(b + 1)
      /\ \A a, b \in 1 .. size + 1 : a < b => Start(a) < Start(b)
  BY StartsCut
<1>2. /\ \A n \in Coros : Order[n] \in Coros
      /\ \A c \in Coros : \E n \in Coros : Order[n] = c
      /\ \A m, n \in Coros : m < n => Before(Order[m], Order[n])
  BY OrderSorts
<1>3. Len(bands) = size /\ \A b \in 1 .. size : bands[b] = SubSeq(Order, Start(b), Start(b + 1) - 1)
  <2>1. bands = [b \in 1 .. size |-> SubSeq(Order, Start(b), Start(b + 1) - 1)]
    BY DEF BandsOf
  <2>2. size \in Nat
    BY <1>1
  <2> HIDE DEF size
  <2>3. DOMAIN bands = 1 .. size /\ \A b \in 1 .. size : bands[b] = SubSeq(Order, Start(b), Start(b + 1) - 1)
    BY <2>1, Zenon
  <2>4. bands = [b \in 1 .. size |-> bands[b]]
    BY <2>1, Zenon
  <2>5. Len(bands) = size
    BY <2>2, <2>4, FunLen
  <2> QED BY <2>3, <2>5
<1> HIDE DEF size
<1>4. ASSUME NEW b \in 1 .. size
      PROVE  /\ Start(b) \in 1 .. N /\ Start(b + 1) \in 1 .. N + 1 /\ Start(b) < Start(b + 1)
             /\ Size(b) = Start(b + 1) - Start(b)
             /\ \A i \in 1 .. Size(b) : /\ Start(b) + i - 1 \in Coros /\ Start(b) + i - 1 < Start(b + 1)
                                        /\ Member(b, i) = Order[Start(b) + i - 1]
  <2>1. b \in 1 .. size + 1 /\ b + 1 \in 1 .. size + 1
    BY <1>1
  <2>2. PICK s : s = Start(b)
    OBVIOUS
  <2>3. PICK e : e = Start(b + 1)
    OBVIOUS
  <2>4. s \in 1 .. N + 1 /\ e \in 1 .. N + 1 /\ s < e
    BY <1>1, <2>1, <2>2, <2>3
  <2>o. \A i \in s .. e - 1 : i \in Coros
    BY <2>4 DEF Coros
  <2>5. \A i \in s .. e - 1 : Order[i] \in Coros
    BY <2>o, <1>2
  <2>6. s \in Int /\ e - 1 \in Int
    BY <2>4
  <2>7. /\ Len(SubSeq(Order, s, e - 1)) = IF s <= e - 1 THEN e - 1 - s + 1 ELSE 0
        /\ \A i \in 1 .. e - 1 - s + 1 : SubSeq(Order, s, e - 1)[i] = Order[s + i - 1]
    BY <2>5, <2>6, SubSeqProperties
  <2>8. bands[b] = SubSeq(Order, s, e - 1)
    BY <1>3, <2>2, <2>3
  <2>9. Size(b) = e - s /\ \A i \in 1 .. e - s : Member(b, i) = Order[s + i - 1]
    BY <2>4, <2>7, <2>8 DEF Size, Member
  <2>10. \A i \in 1 .. e - s : s + i - 1 \in Coros /\ s + i - 1 < e
    BY <2>4 DEF Coros
  <2>11. Size(b) = e - s /\ \A i \in 1 .. Size(b) : s + i - 1 \in Coros /\ s + i - 1 < e
                                                     /\ Member(b, i) = Order[s + i - 1]
    BY <2>9, <2>10
  <2>12. s \in 1 .. N
    BY <2>4
  <2> QED BY <2>2, <2>3, <2>4, <2>11, <2>12
<1>5. ASSUME NEW c \in Coros
      PROVE  \E b \in 1 .. Len(bands) : \E i \in 1 .. Size(b) : Member(b, i) = c
  <2>1. PICK n \in Coros : Order[n] = c
    BY <1>2
  <2>2. PICK b \in 1 .. size : Start(b) <= n /\ n < Start(b + 1)
    BY <1>1
  <2>3. PICK s : s = Start(b)
    OBVIOUS
  <2>4. PICK e : e = Start(b + 1)
    OBVIOUS
  <2>5. s \in 1 .. N /\ e \in 1 .. N + 1 /\ s <= n /\ n < e /\ Size(b) = e - s
    BY <1>4, <2>2, <2>3, <2>4
  <2>6. PICK i \in Int : i = n - s + 1
    BY <2>5 DEF Coros
  <2>7. i \in 1 .. Size(b) /\ s + i - 1 = n
    BY <2>5, <2>6 DEF Coros
  <2>8. Member(b, i) = Order[n]
    BY <1>4, <2>3, <2>7
  <2> QED BY <1>3, <2>1, <2>7, <2>8
<1>6. ASSUME NEW b \in 1 .. size, NEW i \in 1 .. Size(b)
      PROVE  Key(Member(b, i)) = Key(Member(b, 1))
  <2>1. PICK s : s = Start(b)
    OBVIOUS
  <2>2. PICK e : e = Start(b + 1)
    OBVIOUS
  <2>3. PICK n : n = Size(b)
    OBVIOUS
  <2>4. /\ s \in 1 .. N /\ e \in 1 .. N + 1 /\ s < e /\ n = e - s
        /\ \A j \in 1 .. n : s + j - 1 \in Coros /\ s + j - 1 < e /\ Member(b, j) = Order[s + j - 1]
    BY <1>4, <2>1, <2>2, <2>3
  <2> DEFINE T == {j \in 0 .. n - 1 : prio[Order[s + j]] = prio[Order[s]]}
  <2>5. 0 \in T
    BY <2>4
  <2>6. ASSUME NEW j \in 0 .. n - 1 - 1, j \in T PROVE j + 1 \in T
    <3>1. PICK m : m = s + j + 1
      OBVIOUS
    <3>2. j + 1 + 1 \in 1 .. n /\ s + (j + 1 + 1) - 1 = m /\ j + 1 \in 0 .. n - 1
      BY <2>4, <3>1
    <3>3. m \in Coros /\ s < m /\ m < e
      <4>1. e \in Int /\ s \in Int /\ j \in Int /\ n \in Int
        BY <2>4
      <4>2. s < m /\ m < e
        BY <4>1, <2>4, <3>1
      <4> QED BY <2>4, <3>2, <4>2
    <3>4. m \notin Starts
      BY <1>1, <2>1, <2>2, <3>3
    <3>5. prio[Order[m]] = prio[Order[m - 1]]
      BY <3>3, <3>4 DEF Starts
    <3>6. m - 1 = s + j /\ m = s + (j + 1)
      BY <2>4, <3>1
    <3>7. prio[Order[s + (j + 1)]] = prio[Order[s]]
      BY <2>6, <3>5, <3>6
    <3> QED BY <3>2, <3>7
  <2>7. n - 1 \in Nat
    BY <2>4
  <2>8. \A j \in 0 .. n - 1 : j \in T
    <3> HIDE DEF T
    <3> QED BY <2>5, <2>6, <2>7, Upwards
  <2>9. i - 1 \in 0 .. n - 1 /\ s + (i - 1) = s + i - 1 /\ 1 \in 1 .. n /\ i \in 1 .. n /\ s + 1 - 1 = s
    BY <2>3, <2>4
  <2>10. prio[Order[s + i - 1]] = prio[Order[s]]
    BY <2>8, <2>9
  <2>11. Member(b, i) = Order[s + i - 1] /\ Member(b, 1) = Order[s]
    BY <2>4, <2>9
  <2> QED BY <2>10, <2>11 DEF Key
<1>7. ASSUME NEW a \in 1 .. size, NEW b \in 1 .. size, NEW i \in 1 .. Size(a), NEW j \in 1 .. Size(b), a < b
      PROVE  Key(Member(a, i)) <= Key(Member(b, j))
  <2>1. PICK m : m = Start(a) + i - 1
    OBVIOUS
  <2>2. PICK n : n = Start(b) + j - 1
    OBVIOUS
  <2>3. /\ m \in Coros /\ m < Start(a + 1) /\ Member(a, i) = Order[m]
        /\ n \in Coros /\ Start(b) <= n /\ Member(b, j) = Order[n]
        /\ Start(b) \in Int /\ Start(a + 1) \in Int
    BY <1>4, <2>1, <2>2
  <2>4. a + 1 = b \/ a + 1 < b
    BY <1>1, <1>7
  <2>5. Start(a + 1) <= Start(b)
    <3>1. a + 1 \in 1 .. size + 1 /\ b \in 1 .. size + 1
      BY <1>1
    <3> QED BY <1>1, <2>3, <2>4, <3>1
  <2>6. m < n
    BY <2>3, <2>5 DEF Coros
  <2>7. Before(Order[m], Order[n]) /\ Order[m] \in Coros /\ Order[n] \in Coros
    BY <1>2, <2>3, <2>6
  <2>8. Key(Order[m]) \in Nat /\ Key(Order[n]) \in Nat
    BY <2>7 DEF Key, NoPriority
  <2> QED BY <2>3, <2>7, <2>8 DEF Before
<1>8. \A b \in 1 .. size : Size(b) \in 1 .. N /\ \A i \in 1 .. Size(b) : Member(b, i) \in Coros
  <2> SUFFICES ASSUME NEW b \in 1 .. size
               PROVE  Size(b) \in 1 .. N /\ \A i \in 1 .. Size(b) : Member(b, i) \in Coros
    OBVIOUS
  <2>1. Size(b) \in 1 .. N
    BY <1>4
  <2>2. \A i \in 1 .. Size(b) : Member(b, i) \in Coros
    BY <1>2, <1>4
  <2> QED BY <2>1, <2>2
<1>9. \A b \in 1 .. size : \A i, j \in 1 .. Size(b) : Key(Member(b, i)) = Key(Member(b, j))
  BY <1>6
<1>10. Len(bands) \in 1 .. N
  BY <1>1, <1>3
<1>11. ASSUME MaxIsUnused, NEW a \in 1 .. size, NEW b \in 1 .. size,
              NEW i \in 1 .. Size(a), NEW j \in 1 .. Size(b), a < b
       PROVE  prio[Member(a, i)] # prio[Member(b, j)]
  <2>1. PICK m : m = Start(a) + i - 1
    OBVIOUS
  <2>2. PICK n : n = Start(b) + j - 1
    OBVIOUS
  <2>3. PICK s : s = Start(b)
    OBVIOUS
  <2>4. /\ m \in Coros /\ m < Start(a + 1) /\ Member(a, i) = Order[m]
        /\ n \in Coros /\ s <= n /\ Member(b, j) = Order[n]
        /\ s \in 1 .. N /\ Start(a + 1) \in Int
    BY <1>4, <2>1, <2>2, <2>3
  <2>5. a + 1 = b \/ a + 1 < b
    BY <1>1, <1>11
  <2>6. Start(a + 1) <= s
    <3>1. a + 1 \in 1 .. size + 1 /\ b \in 1 .. size + 1
      BY <1>1
    <3> QED BY <1>1, <2>3, <2>4, <2>5, <3>1
  <2>7. m < s /\ s # 1 /\ s - 1 \in Coros /\ s \in Coros /\ m <= s - 1 /\ s - 1 < s
    BY <2>4, <2>6 DEF Coros
  <2>8. s \in Starts
    <3>1. b \in 1 .. size + 1 /\ s # N + 1
      BY <1>1, <2>4
    <3> QED BY <1>1, <2>3, <3>1
  <2>9. prio[Order[s]] # prio[Order[s - 1]]
    BY <2>7, <2>8 DEF Starts
  <2>10. \A x, y \in Coros : x <= y => Key(Order[x]) <= Key(Order[y])
    <3> SUFFICES ASSUME NEW x \in Coros, NEW y \in Coros, x <= y PROVE Key(Order[x]) <= Key(Order[y])
      OBVIOUS
    <3>1. Key(Order[x]) \in Nat /\ Key(Order[y]) \in Nat
      BY <1>2 DEF Key, NoPriority
    <3>2. CASE x = y
      BY <3>1, <3>2
    <3>3. CASE x < y
      BY <1>2, <3>1, <3>3 DEF Before
    <3> QED BY <3>2, <3>3 DEF Coros
  <2>11. /\ Key(Order[m]) <= Key(Order[s - 1]) /\ Key(Order[s - 1]) <= Key(Order[s])
         /\ Key(Order[s]) <= Key(Order[n])
    BY <2>4, <2>7, <2>10 DEF Coros
  <2>12. \A x \in Coros : Key(Order[x]) \in Nat
    BY <1>2 DEF Key, NoPriority
  <2>13. Key(Order[m]) # Key(Order[n])
    <3>1. Key(Order[s - 1]) # Key(Order[s])
      BY <1>2, <1>11, <2>7, <2>9, KeyOrders
    <3> QED BY <2>4, <2>7, <2>11, <2>12, <3>1
  <2>14. prio[Order[m]] = prio[Order[n]] => Key(Order[m]) = Key(Order[n])
    BY DEF Key
  <2> QED BY <2>4, <2>13, <2>14
<1> QED BY <1>3, <1>5, <1>7, <1>8, <1>9, <1>10, <1>11 DEF Sorted

-----------------------------------------------------------------------------
(* A machine runs.                                                          *)

\* The locals after some statements.
After(m, stmts) == FoldLeft(Execute, m, stmts)

\* The fold of RunBlock, unfolded.
LEMMA ExecuteSteps ==
    ASSUME NEW base, NEW seq, NEW n \in Nat, DOMAIN seq = 1 .. n
    PROVE  \E h : /\ h[0] = base
                  /\ \A i \in 1 .. n : h[i] = Execute(h[i - 1], seq[i])
                  /\ After(base, seq) = h[n]
<1> DEFINE Solves(g, u) ==
              g = [s \in SUBSET (1 .. u) |->
                     IF s = {} THEN base ELSE Execute(g[s \ {Max(s)}], seq[Max(s)])]
           good == {u \in 0 .. n : \E g : Solves(g, u)}
<1>1. 0 \in good
  <2>1. Solves([s \in SUBSET (1 .. 0) |-> base], 0)
    OBVIOUS
  <2>2. 0 \in 0 .. n
    OBVIOUS
  <2> HIDE DEF Solves
  <2> QED BY <2>1, <2>2
<1>2. ASSUME NEW i \in 0 .. n - 1, i \in good PROVE i + 1 \in good
  <2>1. PICK g : Solves(g, i)
    BY <1>2
  <2>2. PICK h : h = [s \in SUBSET (1 .. i + 1) |->
                      IF i + 1 \in s THEN Execute(g[s \ {i + 1}], seq[i + 1]) ELSE g[s]]
    OBVIOUS
  <2>3. ASSUME NEW s \in SUBSET (1 .. i + 1)
        PROVE  h[s] = IF s = {} THEN base ELSE Execute(h[s \ {Max(s)}], seq[Max(s)])
    <3>1. CASE i + 1 \in s
      <4>1. Max(s) = i + 1 /\ s \ {i + 1} \in SUBSET (1 .. i)
        BY <3>1, MaxOfUpTo
      <4> QED BY <2>2, <3>1, <4>1
    <3>2. CASE i + 1 \notin s
      <4>0. PICK x : x = Max(s)
        OBVIOUS
      <4>a. \A y \in s : y \in 1 .. i
        BY <3>2
      <4>1. s \in SUBSET (1 .. i) /\ s \ {x} \in SUBSET (1 .. i) /\ i + 1 \notin s \ {x}
        <5> HIDE DEF Solves, good
        <5> QED BY <4>a, <3>2
      <4>2. h[s] = g[s] /\ h[s \ {x}] = g[s \ {x}]
        BY <2>2, <3>2, <4>1
      <4>3. g[s] = IF s = {} THEN base ELSE Execute(g[s \ {Max(s)}], seq[Max(s)])
        BY <2>1, <4>1
      <4> QED BY <4>0, <4>2, <4>3
    <3> QED BY <3>1, <3>2
  <2>4. h = [s \in SUBSET (1 .. i + 1) |->
               IF s = {} THEN base ELSE Execute(h[s \ {Max(s)}], seq[Max(s)])]
    BY <2>2, <2>3
  <2>5. Solves(h, i + 1)
    BY <2>4, Zenon
  <2> HIDE DEF Solves
  <2> QED BY <2>5
<1>3. n \in good
  <2> HIDE DEF good
  <2>1. \A i \in 0 .. n : i \in good
    BY <1>1, <1>2, Upwards
  <2> QED BY <2>1
<1>4. PICK f : Solves(f, n) /\ After(base, seq) = f[1 .. n]
  BY <1>3 DEF After, FoldLeft, MapThenFoldSet
<1>5. ASSUME NEW i \in 1 .. n PROVE f[1 .. i] = Execute(f[1 .. i - 1], seq[i])
  <2>1. Max(1 .. i) = i /\ 1 .. i # {} /\ (1 .. i) \ {i} = 1 .. i - 1 /\ 1 .. i \in SUBSET (1 .. n)
    BY UpTo
  <2> QED BY <1>4, <2>1
<1>6. f[1 .. 0] = base
  <2>1. 1 .. 0 = {} /\ 1 .. 0 \in SUBSET (1 .. n)
    OBVIOUS
  <2> QED BY <1>4, <2>1
<1>7. PICK h : h = [i \in 0 .. n |-> f[1 .. i]]
  OBVIOUS
<1>8. h[0] = base /\ h[n] = f[1 .. n] /\ \A i \in 1 .. n : h[i] = f[1 .. i] /\ h[i - 1] = f[1 .. i - 1]
  BY <1>6, <1>7
<1> QED BY <1>4, <1>5, <1>8

\* The locals of a machine and what it sees.
Locals == [state : Nat, poll : {"unset", "READY", "PENDING", "BLOCKED"}, progress : {0, 1},
           chan : [Channels -> Nat], ran : Seq(Nat)]

\* A coroutine that ran r has executed the first i statements of its source, each once and in
\* order; a yield leaves no trace.
Ran(src, r, i) ==
    /\ r \in Seq(DOMAIN src)
    /\ Range(r) = {n \in 1 .. i : src[n][1] # "Yield"}
    /\ \A m, n \in DOMAIN r : m < n => r[m] < r[n]

\* Its type.
LEMMA RanType ==
    ASSUME NEW src \in Seq(Statements), NEW i \in 0 .. Len(src), NEW r, Ran(src, r, i)
    PROVE  r \in Seq(Nat) /\ IsList(r) /\ IsList(src)
<1>1. IsList(src)
  BY LenProperties DEF IsList
<1>2. r \in Seq(DOMAIN src) /\ DOMAIN src \subseteq Nat
  BY <1>1 DEF Ran, IsList
<1>3. r \in Seq(Nat)
  BY <1>2, SeqMonotonic
<1>4. IsList(r)
  BY <1>3, LenProperties DEF IsList
<1> QED BY <1>1, <1>3, <1>4

\* The next statement is executed.
LEMMA RanAppend ==
    ASSUME NEW src \in Seq(Statements), NEW i \in 0 .. Len(src), NEW r, Ran(src, r, i),
           i + 1 \in DOMAIN src, src[i + 1][1] # "Yield"
    PROVE  Ran(src, Append(r, i + 1), i + 1)
<1>1. r \in Seq(Nat) /\ IsList(r) /\ IsList(src)
  BY RanType
<1>2. r \in Seq(DOMAIN src)
  BY DEF Ran
<1>3. PICK t : t = Append(r, i + 1)
  OBVIOUS
<1>4. /\ t \in Seq(DOMAIN src) /\ Len(t) = Len(r) + 1
      /\ \A n \in 1 .. Len(r) : t[n] = r[n]
      /\ t[Len(r) + 1] = i + 1 /\ DOMAIN t = 1 .. Len(r) + 1
  <2>1. /\ t \in Seq(DOMAIN src) /\ Len(t) = Len(r) + 1
        /\ \A n \in 1 .. Len(r) : t[n] = r[n]
        /\ t[Len(r) + 1] = i + 1
    BY <1>2, <1>3, AppendProperties
  <2>2. DOMAIN t = 1 .. Len(t)
    BY <2>1, LenProperties
  <2> QED BY <2>1, <2>2
<1>5. \A n \in DOMAIN r : r[n] \in 1 .. i
  BY DEF Ran, Range
<1>6. Len(r) \in Nat /\ DOMAIN r = 1 .. Len(r)
  BY <1>1 DEF IsList
<1>7. ASSUME NEW m \in DOMAIN t, NEW n \in DOMAIN t, m < n PROVE t[m] < t[n]
  <2>1. m \in 1 .. Len(r) /\ t[m] = r[m]
    BY <1>4, <1>6, <1>7
  <2>2. CASE n = Len(r) + 1
    BY <1>4, <1>5, <1>6, <2>1, <2>2
  <2>3. CASE n \in 1 .. Len(r)
    BY <1>4, <1>6, <1>7, <2>1, <2>3 DEF Ran
  <2> QED BY <1>4, <1>6, <2>2, <2>3
<1>8. Range(t) = Range(r) \cup {i + 1}
  <2>1. \A x : x \in Range(t) => x \in Range(r) \cup {i + 1}
    BY <1>4, <1>6 DEF Range
  <2>2. \A n \in DOMAIN r : n \in DOMAIN t /\ t[n] = r[n]
    BY <1>4, <1>6
  <2>3. Len(r) + 1 \in DOMAIN t /\ t[Len(r) + 1] = i + 1
    BY <1>4, <1>6
  <2>4. \A x : x \in Range(r) \cup {i + 1} => x \in Range(t)
    BY <2>2, <2>3 DEF Range
  <2> QED BY <2>1, <2>4
<1>9. Range(t) = {n \in 1 .. i + 1 : src[n][1] # "Yield"}
  <2>1. Range(r) = {n \in 1 .. i : src[n][1] # "Yield"}
    BY DEF Ran
  <2> QED BY <1>8, <2>1
<1> QED BY <1>3, <1>4, <1>7, <1>9 DEF Ran

\* What a statement of a block does to the locals.
LEMMA StepRuns ==
    ASSUME NEW src \in Seq(Statements), NEW i \in 0 .. Len(src), NEW j, NEW s, Step(src, i, s, j),
           NEW m \in Locals, Ran(src, m.ran, i)
    PROVE  LET e == Execute(m, s) IN
           /\ e \in Locals /\ Ran(src, e.ran, j) /\ j \in 0 .. Len(src) /\ i <= j
           /\ e.state = m.state /\ e.poll = m.poll /\ e.progress = m.progress
           /\ i = j => e = m
<1> DEFINE e == Execute(m, s)
<1>l. IsList(src)
  BY RanType
<1>1. CASE /\ s.op \in {"Nop", "RegionBegin", "RegionEnd", "CoroutineBegin", "CoroutineEnd"}
           /\ j = i \/ (j = i + 1 /\ j \in DOMAIN src /\ src[j][1] = "Yield")
  <2>1. e = m
    BY <1>1 DEF Execute
  <2>2. j \in 0 .. Len(src)
    BY <1>1, <1>l DEF IsList
  <2>3. Ran(src, m.ran, j)
    <3>1. CASE j = i
      BY <3>1
    <3>2. CASE j = i + 1 /\ j \in DOMAIN src /\ src[j][1] = "Yield"
      <4>1. {n \in 1 .. i : src[n][1] # "Yield"} = {n \in 1 .. j : src[n][1] # "Yield"}
        BY <3>2
      <4> QED BY <4>1 DEF Ran
    <3> QED BY <1>1, <3>1, <3>2
  <2> QED BY <2>1, <2>2, <2>3, <1>1
<1>2. CASE /\ j = i + 1 /\ j \in DOMAIN src /\ src[j][1] \in {"Put", "ProducingSend"}
           /\ s = Operation(src[j][1], src[j][2], j)
  <2>1. src[j] \in Statements
    BY <1>2
  <2>2. s.op \in {"Put", "ProducingSend"} /\ s.arg \in Channels /\ s.src = j
    BY <1>2, <2>1 DEF Operation, Statements
  <2>3. e = [m EXCEPT !.chan[s.arg] = @ + 1, !.ran = Append(@, s.src)]
    BY <2>2 DEF Execute
  <2>4. Ran(src, Append(m.ran, j), j)
    BY <1>2, RanAppend
  <2>5. j \in 0 .. Len(src)
    BY <1>2, <1>l DEF IsList
  <2>6. Append(m.ran, j) \in Seq(Nat)
    BY <2>4, <2>5, RanType
  <2>7. e \in Locals /\ e.ran = Append(m.ran, j) /\ e.state = m.state /\ e.poll = m.poll /\ e.progress = m.progress
    <3>1. PICK q : q = s.arg
      OBVIOUS
    <3>2. PICK ch : ch = [m.chan EXCEPT ![q] = @ + 1]
      OBVIOUS
    <3>3. q \in Channels /\ m.chan \in [Channels -> Nat]
      BY <2>2, <3>1 DEF Locals
    <3>4. ch \in [Channels -> Nat]
      BY <3>2, <3>3
    <3>5. e = [m EXCEPT !.chan = ch, !.ran = Append(m.ran, j)]
      BY <2>2, <2>3, <3>1, <3>2 DEF Locals
    <3> HIDE DEF e
    <3> QED BY <2>6, <3>4, <3>5 DEF Locals
  <2>8. i <= j /\ i # j
    BY <1>2
  <2>9. /\ e \in Locals /\ Ran(src, e.ran, j) /\ j \in 0 .. Len(src) /\ i <= j
        /\ e.state = m.state /\ e.poll = m.poll /\ e.progress = m.progress
        /\ i = j => e = m
    <3> HIDE DEF e
    <3> QED BY <2>4, <2>5, <2>7, <2>8
  <2> QED BY <2>9
<1>3. (LET x == Execute(m, s) IN
           /\ x \in Locals /\ Ran(src, x.ran, j) /\ j \in 0 .. Len(src) /\ i <= j
           /\ x.state = m.state /\ x.poll = m.poll /\ x.progress = m.progress
           /\ i = j => x = m)
  BY <1>1, <1>2 DEF Step
<1> QED BY <1>3

\* What a block of statements does.
LEMMA BlockRuns ==
    ASSUME NEW src \in Seq(Statements), NEW stmts, IsList(stmts), NEW from \in 0 .. Len(stmts),
           NEW i \in 0 .. Len(src), NEW j, Reads(src, stmts, from, i, j),
           NEW h, h[from] \in Locals, Ran(src, h[from].ran, i),
           \A n \in from + 1 .. Len(stmts) : h[n] = Execute(h[n - 1], stmts[n])
    PROVE  LET e == h[Len(stmts)] IN
           /\ e \in Locals /\ Ran(src, e.ran, j) /\ j \in 0 .. Len(src) /\ i <= j
           /\ e.state = h[from].state /\ e.poll = h[from].poll /\ e.progress = h[from].progress
           /\ i = j => e = h[from]
<1>1. PICK f \in [from .. Len(stmts) -> 0 .. Len(src)] :
        /\ f[from] = i /\ f[Len(stmts)] = j
        /\ \A n \in from + 1 .. Len(stmts) : Step(src, f[n - 1], stmts[n], f[n])
  BY DEF Reads
<1> DEFINE good == {d \in 0 .. Len(stmts) - from :
                      /\ h[from + d] \in Locals /\ Ran(src, h[from + d].ran, f[from + d])
                      /\ i <= f[from + d]
                      /\ h[from + d].state = h[from].state /\ h[from + d].poll = h[from].poll
                      /\ h[from + d].progress = h[from].progress
                      /\ i = f[from + d] => h[from + d] = h[from]}
<1>l. Len(stmts) \in Nat /\ Len(stmts) - from \in Nat /\ from + 0 = from
  BY DEF IsList
<1>2. 0 \in good
  BY <1>1, <1>l
<1>3. ASSUME NEW d \in 0 .. Len(stmts) - from - 1, d \in good PROVE d + 1 \in good
  <2>1. PICK n : n = from + (d + 1)
    OBVIOUS
  <2>2. n \in from + 1 .. Len(stmts) /\ n - 1 = from + d /\ n - 1 \in from .. Len(stmts) /\ n \in from .. Len(stmts)
    BY <2>1, <1>l
  <2>3. /\ h[n - 1] \in Locals /\ Ran(src, h[n - 1].ran, f[n - 1])
        /\ i <= f[n - 1]
        /\ h[n - 1].state = h[from].state /\ h[n - 1].poll = h[from].poll
        /\ h[n - 1].progress = h[from].progress
        /\ i = f[n - 1] => h[n - 1] = h[from]
    BY <1>3, <2>2
  <2>4. h[n] = Execute(h[n - 1], stmts[n]) /\ Step(src, f[n - 1], stmts[n], f[n])
    BY <1>1, <2>2
  <2>5. f[n - 1] \in 0 .. Len(src) /\ f[n] \in 0 .. Len(src) /\ Len(src) \in Nat
    BY <1>1, <2>2, RanType DEF IsList
  <2>6. LET e == Execute(h[n - 1], stmts[n]) IN
        /\ e \in Locals /\ Ran(src, e.ran, f[n]) /\ f[n - 1] <= f[n]
        /\ e.state = h[n - 1].state /\ e.poll = h[n - 1].poll /\ e.progress = h[n - 1].progress
        /\ f[n - 1] = f[n] => e = h[n - 1]
    BY <2>3, <2>4, <2>5, StepRuns
  <2>7. /\ h[n] \in Locals /\ Ran(src, h[n].ran, f[n]) /\ i <= f[n]
        /\ h[n].state = h[from].state /\ h[n].poll = h[from].poll
        /\ h[n].progress = h[from].progress
        /\ i = f[n] => h[n] = h[from]
    BY <2>3, <2>4, <2>5, <2>6
  <2>8. d + 1 \in 0 .. Len(stmts) - from
    BY <1>l
  <2> QED BY <2>1, <2>7, <2>8
<1>4. \A d \in 0 .. Len(stmts) - from : d \in good
  <2> HIDE DEF good
  <2> QED BY <1>2, <1>3, <1>l, Upwards
<1>5. Len(stmts) - from \in good /\ from + (Len(stmts) - from) = Len(stmts)
  <2> HIDE DEF good
  <2> QED BY <1>4, <1>l
<1>6. f[Len(stmts)] \in 0 .. Len(src)
  BY <1>1, <1>l
<1> QED BY <1>1, <1>5, <1>6

-----------------------------------------------------------------------------
(* What is behind a coroutine, and the role its machine is in.              *)

\* How many statements a coroutine in state s has behind it, whether its next one is a guard
\* that is shut, and whether it would not run at all.
BehindOf(src, pts, s) == IF s = DONE_STATE THEN Len(src) ELSE ResumesAt(src, pts, s)
ShutAt(src, i, ch) == i < Len(src) /\ src[i + 1][1] = "GuardedRecv" /\ ch[src[i + 1][2]] = 0
IdleAt(src, pts, s, ch) == s = DONE_STATE \/ ShutAt(src, BehindOf(src, pts, s), ch)

\* The same of coroutine c as it is.
Behind(c) == BehindOf(body[c], code.points[c], state[c])
Waits(c) == IdleAt(body[c], code.points[c], state[c], chan)

\* Types of the variables, in the form that the induction needs.
Types ==
    /\ body \in [Coros -> Seq(Statements)] /\ prio \in Priorities /\ strategy \in Strategies
    /\ Sorted
    /\ state \in [Coros -> Nat]
    /\ \A c \in Coros : state[c] \in 0 .. Len(code.points[c]) \cup {DONE_STATE}
    /\ poll \in [Coros -> {"unset", "READY", "PENDING", "BLOCKED"}]
    /\ progress \in {0, 1} /\ allDone \in BOOLEAN
    /\ pc \in {"top", "check", "run", "after", "end", "exit", "pending", "deadlock"}
    /\ cur \in Coros /\ (pc = "run") = (blk # 0) /\ (blk # 0 => blk \in DOMAIN code.blocks)
    /\ band \in 1 .. N /\ k \in 1 .. N /\ sweep \in {0, 1}
    /\ last \in [1 .. N -> 0 .. N]
    /\ chan \in [Channels -> Nat]
    /\ ran \in [Coros -> Seq(Nat)]

\* Between two polls a coroutine has run what its state says, and READY is DONE.
Resting ==
    \A c \in Coros : ~(pc = "run" /\ cur = c) =>
        Ran(body[c], ran[c], Behind(c)) /\ (poll[c] = "READY") = Done(c)

\* What holds of coroutine c, with source src, points pts and locals m, while it comes
\* to a block in role x; b is its place when it was dispatched.
InRole(c, src, pts, m, x) ==
    LET b == BehindOf(src, pts, m.state)
        since(i) == b <= i /\ (m.progress = 0 => Puts(src, b, i))
    IN  \/ x = Enters(c) /\ m.state # DONE_STATE /\ Ran(src, m.ran, b)
        \/ \E i \in 0 .. Len(src) :
             x = At(c, i) /\ m.state # DONE_STATE /\ Ran(src, m.ran, i) /\ since(i)
        \/ \E i \in 0 .. Len(src) - 1 :
             /\ x = Let(c, i) /\ m.state # DONE_STATE /\ Ran(src, m.ran, i) /\ b <= i
             /\ src[i + 1][1] = "GuardedRecv" /\ m.chan[src[i + 1][2]] > 0
        \/ \E n \in 1 .. Len(pts) :
             x = Out(c, n, "PENDING") /\ m.state # DONE_STATE /\ Ran(src, m.ran, ResumesAt(src, pts, n))
        \/ \E n \in 1 .. Len(pts) :
             /\ x = Out(c, n, "BLOCKED") /\ m.state # DONE_STATE /\ Ran(src, m.ran, ResumesAt(src, pts, n))
             /\ ShutAt(src, ResumesAt(src, pts, n), m.chan) /\ since(ResumesAt(src, pts, n))
        \/ x = Out(c, DONE_STATE, "READY") /\ m.state # DONE_STATE /\ Ran(src, m.ran, Len(src))
        \/ /\ x = Exits(c) /\ Ran(src, m.ran, b) /\ (m.poll = "READY") = (m.state = DONE_STATE)
           /\ m.poll = "BLOCKED" => IdleAt(src, pts, m.state, m.chan)

\* Coroutine c has executed nothing since it was dispatched.
Unmoved(c, src, pts, m, x) ==
    LET b == BehindOf(src, pts, m.state)
    IN  \/ x = Enters(c) \/ x = At(c, b)
        \/ \E n \in 1 .. Len(pts) : x = Out(c, n, "BLOCKED") /\ ResumesAt(src, pts, n) = b
        \/ x = Exits(c) /\ m.poll = "BLOCKED"

\* The locals of coroutine c.
LocalsOf(c) == [state |-> state[c], poll |-> poll[c], progress |-> progress,
                chan |-> chan, ran |-> ran[c]]

\* The machine's step from locals m at block b to locals e and block t (0: out).
Runs(g, b, m, e, t) ==
    e = After(m, g[b].stmts) /\ t = Target(g[b].term, e)

\* A machine that ran no statement that counts and then found a guard shut is where
\* its poll began.
LEMMA SeenStays ==
    ASSUME NEW src \in Seq(Statements), NEW pts, Seen(src),
           \A n \in 1 .. Len(pts) :
              pts[n][3].src \in DOMAIN src /\ src[pts[n][3].src][1] \in Suspensions,
           NEW s \in 0 .. Len(pts), NEW i \in 0 .. Len(src),
           i < Len(src), src[i + 1][1] = "GuardedRecv",
           ResumesAt(src, pts, s) <= i, Puts(src, ResumesAt(src, pts, s), i)
    PROVE  ResumesAt(src, pts, s) = i
<1> DEFINE b == ResumesAt(src, pts, s)
<1>l. Len(src) \in Nat /\ DOMAIN src = 1 .. Len(src)
  BY LenProperties
<1>1. CASE s = 0
  <2>1. b = 0
    BY <1>1 DEF ResumesAt
  <2> SUFFICES ASSUME b < i PROVE FALSE
    BY <2>1, <1>l
  <2>2. i + 1 \in DOMAIN src /\ 0 \in 0 .. Len(src) /\ 0 < i + 1 - 1
    BY <1>l, <2>1
  <2>3. \A n \in 0 + 1 .. i + 1 - 1 : src[n][1] = "Put"
    BY <2>1 DEF Puts
  <2>4. (\A n \in 0 + 1 .. i + 1 - 1 : src[n][1] = "Put") => 0 # 0
    BY SMTT(30), <2>2 DEF Seen
  <2> QED BY <2>3, <2>4
<1>2. CASE s # 0
  <2>1. PICK p : p = pts[s][3].src
    OBVIOUS
  <2>2. p \in 1 .. Len(src) /\ src[p][1] \in Suspensions
    BY <1>2, <1>l, <2>1
  <2>3. b = IF src[p][1] = "GuardedRecv" THEN p - 1 ELSE p
    BY <1>2, <2>1 DEF ResumesAt
  <2> SUFFICES ASSUME b < i PROVE FALSE
    BY <2>2, <2>3, <1>l
  <2>4. \A n \in b + 1 .. i : src[n][1] = "Put"
    BY DEF Puts
  <2> HIDE DEF b
  <2>5. CASE src[p][1] = "GuardedRecv"
    <3>1. p \in b + 1 .. i
      BY <2>2, <2>3, <2>5
    <3> QED BY <2>4, <2>5, <3>1
  <2>6. CASE src[p][1] # "GuardedRecv"
    <3>1. b = p /\ i + 1 \in DOMAIN src /\ b \in 0 .. Len(src) /\ b < i + 1 - 1 /\ b # 0
      BY <2>2, <2>3, <2>6, <1>l
    <3>2. \A n \in b + 1 .. i + 1 - 1 : src[n][1] = "Put"
      BY <2>4, <1>l
    <3>3. src[b][1] \in {"Put", "GuardedRecv"}
      BY <3>1, <3>2 DEF Seen
    <3> QED BY <2>2, <2>6, <3>1, <3>3 DEF Suspensions
  <2> QED BY <2>5, <2>6
<1> QED BY <1>1, <1>2

\* The statements of a block, one after the other.
LEMMA RunSteps ==
    ASSUME NEW m, NEW stmts, IsList(stmts), NEW e, e = After(m, stmts)
    PROVE  \E h : /\ h[0] = m
                  /\ \A n \in 1 .. Len(stmts) : h[n] = Execute(h[n - 1], stmts[n])
                  /\ e = h[Len(stmts)]
<1>1. PICK n \in Nat : n = Len(stmts) /\ DOMAIN stmts = 1 .. n
  BY DEF IsList
<1>2. PICK h : /\ h[0] = m
               /\ \A i \in 1 .. n : h[i] = Execute(h[i - 1], stmts[i])
               /\ After(m, stmts) = h[n]
  BY <1>1, ExecuteSteps
<1>3. \A i \in 1 .. Len(stmts) : h[i] = Execute(h[i - 1], stmts[i])
  BY <1>1, <1>2
<1>4. h[0] = m /\ e = h[Len(stmts)]
  BY <1>1, <1>2
<1> QED BY <1>3, <1>4

\* What the locals are where a coroutine goes through an open guard,
LEMMA LetIs ==
    ASSUME NEW c, NEW src, NEW pts, NEW m, NEW i, InRole(c, src, pts, m, Let(c, i))
    PROVE  /\ m.state # DONE_STATE /\ Ran(src, m.ran, i)
           /\ BehindOf(src, pts, m.state) <= i /\ m.chan[src[i + 1][2]] > 0
<1>1. /\ Enters(c).kind = "enters" /\ Exits(c).kind = "exits" /\ \A n : At(c, n).kind = "at"
      /\ \A n, p : Out(c, n, p).kind = "out"
      /\ \A n : Let(c, n).kind = "let" /\ Let(c, n).at = n
  BY DEF Enters, At, Let, Out, Exits, Role
<1>2. \E n \in 0 .. Len(src) - 1 :
        /\ Let(c, i) = Let(c, n) /\ m.state # DONE_STATE /\ Ran(src, m.ran, n)
        /\ BehindOf(src, pts, m.state) <= n /\ m.chan[src[n + 1][2]] > 0
  BY <1>1 DEF InRole
<1> QED BY <1>1, <1>2

\* ... and where it leaves.
LEMMA OutIs ==
    ASSUME NEW c, NEW src, NEW pts, NEW m, NEW n, NEW p, InRole(c, src, pts, m, Out(c, n, p))
    PROVE  /\ m.state # DONE_STATE
           /\ p = "READY" => Ran(src, m.ran, Len(src))
           /\ p # "READY" => Ran(src, m.ran, ResumesAt(src, pts, n))
           /\ p = "BLOCKED" =>
                /\ ShutAt(src, ResumesAt(src, pts, n), m.chan)
                /\ BehindOf(src, pts, m.state) <= ResumesAt(src, pts, n)
                /\ m.progress = 0 => Puts(src, BehindOf(src, pts, m.state), ResumesAt(src, pts, n))
<1>1. /\ Enters(c).kind = "enters" /\ Exits(c).kind = "exits" /\ \A i : At(c, i).kind = "at"
      /\ \A i : Let(c, i).kind = "let"
      /\ \A j, q : Out(c, j, q).kind = "out" /\ Out(c, j, q).at = j /\ Out(c, j, q).poll = q
  BY DEF Enters, At, Let, Out, Exits, Role
<1>2. \/ \E j \in 1 .. Len(pts) :
            Out(c, n, p) = Out(c, j, "PENDING") /\ m.state # DONE_STATE /\ Ran(src, m.ran, ResumesAt(src, pts, j))
      \/ \E j \in 1 .. Len(pts) :
            /\ Out(c, n, p) = Out(c, j, "BLOCKED") /\ m.state # DONE_STATE
            /\ Ran(src, m.ran, ResumesAt(src, pts, j)) /\ ShutAt(src, ResumesAt(src, pts, j), m.chan)
            /\ BehindOf(src, pts, m.state) <= ResumesAt(src, pts, j)
            /\ m.progress = 0 => Puts(src, BehindOf(src, pts, m.state), ResumesAt(src, pts, j))
      \/ Out(c, n, p) = Out(c, DONE_STATE, "READY") /\ m.state # DONE_STATE /\ Ran(src, m.ran, Len(src))
  BY <1>1 DEF InRole
<1> QED BY <1>1, <1>2

\* What one block does.
LEMMA BlockKeeps ==
    ASSUME NEW c, NEW src \in Seq(Statements), NEW pts, NEW g, NEW d, NEW role,
           IsMachine(c, src, pts, g, d, role),
           NEW b \in DOMAIN g, NEW m \in Locals, InRole(c, src, pts, m, role[b]),
           m.state \in 0 .. Len(pts) \cup {DONE_STATE},
           NEW e, NEW t, Runs(g, b, m, e, t)
    PROVE  /\ e \in Locals /\ e.state \in 0 .. Len(pts) \cup {DONE_STATE}
           /\ t = 0 => /\ Ran(src, e.ran, BehindOf(src, pts, e.state))
                       /\ (e.poll = "READY") = (e.state = DONE_STATE)
                       /\ e.poll = "BLOCKED" => IdleAt(src, pts, e.state, e.chan)
           /\ t # 0 => t \in DOMAIN g /\ InRole(c, src, pts, e, role[t])
           /\ Seen(src) /\ e.progress = 0 /\ ((t = 0 /\ e.poll = "BLOCKED") \/ (t # 0 /\ Unmoved(c, src, pts, e, role[t])))
                => m.progress = 0 /\ e.chan = m.chan /\ Unmoved(c, src, pts, m, role[b])
<1> DEFINE stmts == g[b].stmts
           term == g[b].term
           x == role[b]
           Keeps ==
             /\ e \in Locals /\ e.state \in 0 .. Len(pts) \cup {DONE_STATE}
             /\ t = 0 => /\ Ran(src, e.ran, BehindOf(src, pts, e.state))
                         /\ (e.poll = "READY") = (e.state = DONE_STATE)
                         /\ e.poll = "BLOCKED" => IdleAt(src, pts, e.state, e.chan)
             /\ t # 0 => t \in DOMAIN g /\ InRole(c, src, pts, e, role[t])
             /\ Seen(src) /\ e.progress = 0 /\ ((t = 0 /\ e.poll = "BLOCKED") \/ (t # 0 /\ Unmoved(c, src, pts, e, role[t])))
                  => m.progress = 0 /\ e.chan = m.chan /\ Unmoved(c, src, pts, m, x)
<1>f. /\ Enters(c).kind = "enters" /\ Enters(c).who = c /\ Exits(c).kind = "exits" /\ Exits(c).who = c
      /\ \A i : At(c, i).kind = "at" /\ At(c, i).at = i /\ At(c, i).who = c
      /\ \A i : Let(c, i).kind = "let" /\ Let(c, i).at = i /\ Let(c, i).who = c
      /\ \A n, p : Out(c, n, p).kind = "out" /\ Out(c, n, p).at = n /\ Out(c, n, p).poll = p /\ Out(c, n, p).who = c
  BY DEF Enters, At, Let, Out, Exits, Role
<1> USE <1>f
<1>1. x.who = c
  BY DEF InRole
<1>2. IsList(stmts) /\ Piece(c, src, pts, g, role, b)
  BY <1>1 DEF IsMachine
<1>3. /\ Len(pts) \in Nat /\ Len(pts) < DONE_STATE
      /\ \A n \in 1 .. Len(pts) :
           pts[n][3].src \in DOMAIN src /\ src[pts[n][3].src][1] \in Suspensions
  BY DEF IsMachine
<1>4. Len(src) \in Nat /\ DOMAIN src = 1 .. Len(src)
  BY LenProperties
<1>5. \A n \in 0 .. Len(pts) : ResumesAt(src, pts, n) \in 0 .. Len(src) /\ n # DONE_STATE
  BY <1>3, <1>4 DEF ResumesAt
<1>5a. m.state # DONE_STATE => m.state \in 0 .. Len(pts)
  OBVIOUS
<1>6. PICK h : /\ h[0] = m
               /\ \A n \in 1 .. Len(stmts) : h[n] = Execute(h[n - 1], stmts[n])
               /\ e = h[Len(stmts)]
  BY <1>2, RunSteps DEF Runs
<1>7. t = Target(term, e)
  BY DEF Runs
<1>e. ASSUME NEW i \in 0 .. Len(src), NEW n \in 0 .. Len(pts), m.state = n
      PROVE  BehindOf(src, pts, m.state) = ResumesAt(src, pts, n) /\ BehindOf(src, pts, m.state) \in 0 .. Len(src)
  BY <1>e, <1>5 DEF BehindOf
<1>g. 0 \notin DOMAIN g
  BY DEF IsMachine, IsList
<1> HIDE DEF stmts, term
<1>10. ASSUME x = Enters(c), stmts = << >>, term.kind = "switch",
              \A n \in 0 .. Len(pts) : Is(g, role, SwitchTo(term, n), At(c, ResumesAt(src, pts, n)))
       PROVE  Keeps
  <2>1. e = m
    BY <1>6, <1>10
  <2>2. m.state \in 0 .. Len(pts) /\ Ran(src, m.ran, BehindOf(src, pts, m.state))
    BY <1>10 DEF InRole
  <2>3. t = SwitchTo(term, m.state)
    BY <1>7, <1>10, <2>1 DEF Target, SwitchTo
  <2>4. BehindOf(src, pts, m.state) = ResumesAt(src, pts, m.state)
    BY <2>2, <1>5 DEF BehindOf
  <2>5. t \in DOMAIN g /\ role[t] = At(c, BehindOf(src, pts, m.state))
    BY <1>10, <2>2, <2>3, <2>4 DEF Is
  <2>6. InRole(c, src, pts, e, role[t])
    <3>1. BehindOf(src, pts, m.state) \in 0 .. Len(src)
      BY <2>2, <2>4, <1>5
    <3>2. Puts(src, BehindOf(src, pts, m.state), BehindOf(src, pts, m.state))
      BY <3>1 DEF Puts
    <3> QED BY <2>1, <2>2, <2>5, <3>1, <3>2, <1>5 DEF InRole
  <2>7. Unmoved(c, src, pts, m, x)
    BY <1>10 DEF Unmoved
  <2>8. t # 0
    BY <2>5, <1>g
  <2>9. e \in Locals /\ e.state \in 0 .. Len(pts) \cup {DONE_STATE} /\ e.chan = m.chan /\ e.progress = m.progress
    BY <2>1
  <2> QED BY <2>5, <2>6, <2>7, <2>8, <2>9
\* Where the last statement of a piece leads.
<1>l. ASSUME NEW i \in 0 .. Len(src), NEW j \in 0 .. Len(src), i <= j,
             Leads(c, src, pts, g, role, i, j, term), Ran(src, e.ran, j),
             e.state = m.state, m.state # DONE_STATE, e \in Locals,
             BehindOf(src, pts, m.state) <= j,
             e.progress = 0 => m.progress = 0 /\ Puts(src, BehindOf(src, pts, m.state), i)
      PROVE  /\ t # 0 /\ t \in DOMAIN g /\ InRole(c, src, pts, e, role[t])
             /\ Unmoved(c, src, pts, e, role[t]) => j = BehindOf(src, pts, m.state)
  <2>1. t = term.to
    BY <1>7, <1>l DEF Leads, Target
  <2>2. CASE Is(g, role, term.to, At(c, j)) /\ Puts(src, i, j)
    <3>1. role[t] = At(c, j) /\ t \in DOMAIN g
      BY <2>1, <2>2 DEF Is
    <3>2. e.progress = 0 => Puts(src, BehindOf(src, pts, e.state), j)
      <4>1. m.state \in 0 .. Len(pts)
        BY <1>l
      <4>2. BehindOf(src, pts, m.state) \in Int
        BY <4>1, <1>e
      <4> QED BY <1>l, <2>2, <4>2 DEF Puts
    <3>3. InRole(c, src, pts, e, role[t])
      BY <3>1, <3>2, <1>l DEF InRole
    <3>4. Unmoved(c, src, pts, e, role[t]) => j = BehindOf(src, pts, m.state)
      BY <3>1, <1>l DEF Unmoved
    <3> QED BY <3>1, <3>3, <3>4, <1>g
  <2>3. ASSUME NEW n \in 1 .. Len(pts), Is(g, role, term.to, Out(c, n, "PENDING")), ResumesAt(src, pts, n) = j
        PROVE  /\ t # 0 /\ t \in DOMAIN g /\ InRole(c, src, pts, e, role[t])
               /\ ~Unmoved(c, src, pts, e, role[t])
    <3>1. role[t] = Out(c, n, "PENDING") /\ t \in DOMAIN g
      BY <2>1, <2>3 DEF Is
    <3>2. InRole(c, src, pts, e, role[t])
      BY <3>1, <2>3, <1>l DEF InRole
    <3>3. ~Unmoved(c, src, pts, e, role[t])
      BY <3>1 DEF Unmoved
    <3> QED BY <3>1, <3>2, <3>3, <1>g
  <2>4. CASE Is(g, role, term.to, Out(c, DONE_STATE, "READY")) /\ j = Len(src)
    <3>1. role[t] = Out(c, DONE_STATE, "READY") /\ t \in DOMAIN g
      BY <2>1, <2>4 DEF Is
    <3>2. InRole(c, src, pts, e, role[t])
      BY <3>1, <2>4, <1>l DEF InRole
    <3>3. ~Unmoved(c, src, pts, e, role[t])
      BY <3>1 DEF Unmoved
    <3> QED BY <3>1, <3>2, <3>3, <1>g
  <2> QED BY <2>2, <2>3, <2>4, <1>l DEF Leads
<1>11. ASSUME NEW i \in 0 .. Len(src), NEW j \in 0 .. Len(src),
              x = At(c, i), Reads(src, stmts, 0, i, j), Leads(c, src, pts, g, role, i, j, term)
       PROVE  Keeps
  <2>1. /\ m.state # DONE_STATE /\ Ran(src, m.ran, i) /\ BehindOf(src, pts, m.state) <= i
        /\ m.progress = 0 => Puts(src, BehindOf(src, pts, m.state), i)
    BY <1>11 DEF InRole
  <2>2. /\ e \in Locals /\ Ran(src, e.ran, j) /\ i <= j
        /\ e.state = m.state /\ e.poll = m.poll /\ e.progress = m.progress
        /\ i = j => e = m
    <3>1. 0 \in 0 .. Len(stmts) /\ \A n \in 0 + 1 .. Len(stmts) : h[n] = Execute(h[n - 1], stmts[n])
      BY <1>2, <1>6 DEF IsList
    <3>2. h[0] \in Locals /\ Ran(src, h[0].ran, i) /\ h[0] = m
      BY <1>6, <2>1
    <3>3. /\ h[Len(stmts)] \in Locals /\ Ran(src, h[Len(stmts)].ran, j) /\ i <= j
          /\ h[Len(stmts)].state = h[0].state /\ h[Len(stmts)].poll = h[0].poll
          /\ h[Len(stmts)].progress = h[0].progress
          /\ i = j => h[Len(stmts)] = h[0]
      BY <1>2, <1>11, <3>1, <3>2, BlockRuns
    <3> QED BY <1>6, <3>2, <3>3
  <2>3. BehindOf(src, pts, m.state) \in 0 .. Len(src)
    BY <2>1, <1>e
  <2>4. BehindOf(src, pts, m.state) <= j
    BY <2>1, <2>2, <2>3
  <2>5. /\ t # 0 /\ t \in DOMAIN g /\ InRole(c, src, pts, e, role[t])
        /\ Unmoved(c, src, pts, e, role[t]) => j = BehindOf(src, pts, m.state)
    BY <1>11, <2>1, <2>2, <2>4, <1>l
  <2>6. ASSUME j = BehindOf(src, pts, m.state) PROVE e = m /\ Unmoved(c, src, pts, m, x)
    <3>1. i = j
      BY <2>1, <2>2, <2>6
    <3> QED BY <1>11, <2>2, <2>6, <3>1 DEF Unmoved
  <2> QED BY <2>2, <2>5, <2>6
<1>12. ASSUME NEW i \in 0 .. Len(src) - 1,
              x = At(c, i), stmts = << >>, src[i + 1][1] = "GuardedRecv",
              term.kind = "branch", term.on = src[i + 1][2], Is(g, role, term.yes, Let(c, i)),
              NEW n \in 1 .. Len(pts), Is(g, role, term.no, Out(c, n, "BLOCKED")), ResumesAt(src, pts, n) = i
       PROVE  Keeps
  <2>1. /\ m.state # DONE_STATE /\ Ran(src, m.ran, i) /\ BehindOf(src, pts, m.state) <= i
        /\ m.progress = 0 => Puts(src, BehindOf(src, pts, m.state), i)
    BY <1>12 DEF InRole
  <2>2. e = m
    BY <1>6, <1>12
  <2>3. t = IF m.chan[src[i + 1][2]] > 0 THEN term.yes ELSE term.no
    BY <1>7, <1>12, <2>2 DEF Target
  <2>4. src[i + 1] \in Statements
    BY <1>4
  <2>5. m.chan[src[i + 1][2]] \in Nat
    BY <2>4 DEF Statements, Locals
  <2>6. CASE m.chan[src[i + 1][2]] > 0
    <3>1. t \in DOMAIN g /\ role[t] = Let(c, i)
      BY <2>3, <2>6, <1>12 DEF Is
    <3>2. InRole(c, src, pts, e, role[t])
      BY <3>1, <2>1, <2>2, <2>6, <1>12 DEF InRole
    <3>3. ~Unmoved(c, src, pts, e, role[t])
      BY <3>1 DEF Unmoved
    <3> QED BY <2>2, <3>1, <3>2, <3>3, <1>g
  <2>7. CASE ~(m.chan[src[i + 1][2]] > 0)
    <3>1. t \in DOMAIN g /\ role[t] = Out(c, n, "BLOCKED")
      BY <2>3, <2>7, <1>12 DEF Is
    <3>2. ShutAt(src, i, m.chan)
      BY <2>5, <2>7, <1>12 DEF ShutAt
    <3>3. InRole(c, src, pts, e, role[t])
      BY <3>1, <3>2, <2>1, <2>2, <1>12 DEF InRole
    <3>4. Unmoved(c, src, pts, e, role[t]) => i = BehindOf(src, pts, m.state)
      <4>1. ASSUME NEW nn \in 1 .. Len(pts), role[t] = Out(c, nn, "BLOCKED"), ResumesAt(src, pts, nn) = BehindOf(src, pts, e.state)
            PROVE  i = BehindOf(src, pts, m.state)
        <5>1. nn = n
          BY <3>1, <4>1 DEF Out, Role
        <5> QED BY <4>1, <5>1, <2>2, <1>12
      <4> QED BY <3>1, <4>1 DEF Unmoved
    <3>5. i = BehindOf(src, pts, m.state) => Unmoved(c, src, pts, m, x)
      BY <1>12 DEF Unmoved
    <3> QED BY <2>2, <3>1, <3>3, <3>4, <3>5, <1>g
  <2> QED BY <2>6, <2>7
<1>13. ASSUME NEW i \in 0 .. Len(src) - 1, NEW j \in 0 .. Len(src),
              x = Let(c, i), src[i + 1][1] = "GuardedRecv", Len(stmts) > 1,
              stmts[1] = Assign("progress", 1), stmts[2] = Operation("Recv", src[i + 1][2], i + 1),
              Reads(src, stmts, 2, i + 1, j), Leads(c, src, pts, g, role, i + 1, j, term)
       PROVE  Keeps
  <2>1. /\ m.state # DONE_STATE /\ Ran(src, m.ran, i) /\ m.chan[src[i + 1][2]] > 0
        /\ BehindOf(src, pts, m.state) <= i
    BY <1>13, LetIs
  <2>2. PICK q : q = src[i + 1][2]
    OBVIOUS
  <2>3. q \in Channels /\ i + 1 \in DOMAIN src /\ i + 1 \in 0 .. Len(src)
    BY <2>2, <1>4 DEF Statements
  <2>4. h[1] = [m EXCEPT !.progress = 1]
    <3>1. h[1] = Execute(h[0], stmts[1])
      BY <1>2, <1>6, <1>13 DEF IsList
    <3>2. stmts[1].op = "progress" /\ stmts[1].arg = 1
      BY <1>13 DEF Assign
    <3> QED BY <3>1, <3>2, <1>6 DEF Execute
  <2>5. h[2] = [h[1] EXCEPT !.chan[q] = @ - 1, !.ran = Append(@, i + 1)]
    <3>1. h[2] = Execute(h[1], stmts[2])
      BY <1>2, <1>6, <1>13 DEF IsList
    <3> QED BY <3>1, <2>2, <1>13 DEF Execute, Operation
  <2>6. PICK ch : ch = [m.chan EXCEPT ![q] = @ - 1]
    OBVIOUS
  <2>7. ch \in [Channels -> Nat]
    BY <2>1, <2>2, <2>3, <2>6 DEF Locals
  <2>8. h[2] = [m EXCEPT !.progress = 1, !.chan = ch, !.ran = Append(m.ran, i + 1)]
    BY <2>4, <2>5, <2>6 DEF Locals
  <2>9. Ran(src, Append(m.ran, i + 1), i + 1)
    BY <2>1, <2>3, <1>13, RanAppend
  <2>10. Append(m.ran, i + 1) \in Seq(Nat)
    BY <2>3, <2>9, RanType
  <2>11. /\ h[2] \in Locals /\ h[2].ran = Append(m.ran, i + 1) /\ h[2].state = m.state
         /\ h[2].poll = m.poll /\ h[2].progress = 1
    BY <2>7, <2>8, <2>10 DEF Locals
  <2>12. /\ e \in Locals /\ Ran(src, e.ran, j) /\ i + 1 <= j
         /\ e.state = m.state /\ e.poll = m.poll /\ e.progress = 1
    <3>1. 2 \in 0 .. Len(stmts) /\ \A n \in 2 + 1 .. Len(stmts) : h[n] = Execute(h[n - 1], stmts[n])
      BY <1>2, <1>6, <1>13 DEF IsList
    <3>2. h[2] \in Locals /\ Ran(src, h[2].ran, i + 1)
      BY <2>9, <2>11
    <3>3. /\ h[Len(stmts)] \in Locals /\ Ran(src, h[Len(stmts)].ran, j) /\ i + 1 <= j
          /\ h[Len(stmts)].state = h[2].state /\ h[Len(stmts)].poll = h[2].poll
          /\ h[Len(stmts)].progress = h[2].progress
      BY <1>2, <1>13, <2>3, <3>1, <3>2, BlockRuns
    <3> QED BY <1>6, <2>11, <3>3
  <2>13. BehindOf(src, pts, m.state) \in 0 .. Len(src)
    BY <2>1, <1>e
  <2>14. BehindOf(src, pts, m.state) <= j
    BY <2>1, <2>12, <2>13
  <2>15. /\ t # 0 /\ t \in DOMAIN g /\ InRole(c, src, pts, e, role[t])
    BY <1>13, <2>1, <2>3, <2>12, <2>14, <1>l
  <2> QED BY <2>12, <2>15
<1>14. ASSUME NEW n \in 1 .. Len(pts) \cup {DONE_STATE}, NEW p \in {"PENDING", "BLOCKED", "READY"},
              (p = "READY") = (n = DONE_STATE), x = Out(c, n, p), g[b] = LeaveBlock(n, p, term.to),
              Is(g, role, term.to, Exits(c))
       PROVE  Keeps
  <2>1. stmts = <<Assign("state", n), Assign("poll", p)>> /\ term.kind = "goto"
    BY <1>14 DEF stmts, term, LeaveBlock, Block, Goto
  <2>2. h[1] = [m EXCEPT !.state = n]
    <3>1. h[1] = Execute(h[0], Assign("state", n))
      BY <2>1, <1>6
    <3> QED BY <3>1, <1>6 DEF Execute, Assign
  <2>3. h[2] = [h[1] EXCEPT !.poll = p] /\ e = h[2]
    <3>1. h[2] = Execute(h[1], Assign("poll", p)) /\ e = h[2]
      BY <2>1, <1>6
    <3> QED BY <3>1 DEF Execute, Assign
  <2>4. n \in Nat
    BY <1>3 DEF DONE_STATE
  <2>5. /\ e \in Locals /\ e.state = n /\ e.poll = p /\ e.progress = m.progress
        /\ e.chan = m.chan /\ e.ran = m.ran
    <3>1. e = [m EXCEPT !.state = n, !.poll = p]
      BY <2>2, <2>3 DEF Locals
    <3> QED BY <3>1, <2>4 DEF Locals
  <2>6. t = term.to /\ t # 0 /\ t \in DOMAIN g /\ role[t] = Exits(c)
    BY <1>7, <1>14, <2>1, <1>g DEF Target, Is
  <2>7. e.state \in 0 .. Len(pts) \cup {DONE_STATE} /\ m.state \in 0 .. Len(pts)
    <3>1. m.state # DONE_STATE
      BY <1>14, OutIs
    <3> QED BY <2>5, <3>1
  <2>8. n # DONE_STATE => n \in 1 .. Len(pts) /\ BehindOf(src, pts, n) = ResumesAt(src, pts, n)
    BY DEF BehindOf
  <2>9. Ran(src, m.ran, BehindOf(src, pts, n))
    <3>1. CASE n = DONE_STATE
      <4>1. Ran(src, m.ran, Len(src))
        BY <3>1, <1>14, OutIs
      <4> QED BY <3>1, <4>1 DEF BehindOf
    <3>2. CASE n # DONE_STATE
      <4>1. Ran(src, m.ran, ResumesAt(src, pts, n))
        BY <3>2, <1>14, OutIs
      <4> QED BY <3>2, <4>1, <2>8
    <3> QED BY <3>1, <3>2
  <2>10. ASSUME p = "BLOCKED"
         PROVE  /\ ShutAt(src, ResumesAt(src, pts, n), m.chan) /\ n \in 1 .. Len(pts)
                /\ BehindOf(src, pts, m.state) <= ResumesAt(src, pts, n)
                /\ m.progress = 0 => Puts(src, BehindOf(src, pts, m.state), ResumesAt(src, pts, n))
    <3>1. n \in 1 .. Len(pts)
      BY <1>14, <2>10
    <3> QED BY <3>1, <1>14, <2>10, OutIs
  <2>11. InRole(c, src, pts, e, role[t])
    <3>1. e.poll = "BLOCKED" => IdleAt(src, pts, n, e.chan)
      BY <2>5, <2>8, <2>10, <1>14 DEF IdleAt
    <3> QED BY <3>1, <2>5, <2>6, <2>9, <1>14 DEF InRole
  <2>12. ASSUME Seen(src), e.progress = 0, Unmoved(c, src, pts, e, role[t])
         PROVE  Unmoved(c, src, pts, m, x)
    <3>1. p = "BLOCKED"
      BY <2>5, <2>6, <2>12 DEF Unmoved
    <3>2. BehindOf(src, pts, m.state) = ResumesAt(src, pts, m.state)
      BY <2>7, <1>e, <1>4
    <3>3. /\ ResumesAt(src, pts, n) \in 0 .. Len(src) /\ ResumesAt(src, pts, n) < Len(src)
          /\ src[ResumesAt(src, pts, n) + 1][1] = "GuardedRecv"
      BY <2>10, <3>1, <1>5 DEF ShutAt
    <3>4. ResumesAt(src, pts, m.state) = ResumesAt(src, pts, n)
      <4>1. /\ ResumesAt(src, pts, m.state) <= ResumesAt(src, pts, n)
            /\ Puts(src, ResumesAt(src, pts, m.state), ResumesAt(src, pts, n))
        BY <2>5, <2>10, <2>12, <3>1, <3>2
      <4> QED BY <2>7, <2>12, <3>3, <4>1, <1>3, SeenStays, SMTT(30)
    <3>5. /\ n \in 1 .. Len(pts) /\ x = Out(c, n, "BLOCKED")
          /\ ResumesAt(src, pts, n) = BehindOf(src, pts, m.state)
      BY <2>10, <3>1, <3>2, <3>4, <1>14
    <3> QED BY <3>5 DEF Unmoved
  <2> QED BY <2>5, <2>6, <2>7, <2>11, <2>12
<1>15. ASSUME x = Exits(c), stmts = << >>, term = Leave PROVE Keeps
  <2>1. e = m /\ t = 0
    BY <1>6, <1>7, <1>15 DEF Target, Leave
  <2>2. /\ Ran(src, m.ran, BehindOf(src, pts, m.state)) /\ (m.poll = "READY") = (m.state = DONE_STATE)
        /\ m.poll = "BLOCKED" => IdleAt(src, pts, m.state, m.chan)
    BY <1>15 DEF InRole
  <2>3. m.poll = "BLOCKED" => Unmoved(c, src, pts, m, x)
    BY <1>15 DEF Unmoved
  <2> QED BY <2>1, <2>2, <2>3
<1>16. Keeps
  <2> HIDE DEF Keeps, x
  <2> QED BY <1>2, <1>10, <1>11, <1>12, <1>13, <1>14, <1>15 DEF Piece, stmts, term, x
<1> QED BY <1>16

-----------------------------------------------------------------------------
(* The inductive invariant.                                                 *)

\* The block that runs is reached as its role says.
RunRole(role) ==
    pc = "run" => InRole(cur, body[cur], code.points[cur], LocalsOf(cur), role[blk])

\* Where the scan is: all_done tells whether everyone before was done.
Scanning ==
    /\ ~Prioritised =>
          /\ pc \in {"check", "run", "after"} => allDone = (\A d \in Coros : d < cur => Done(d))
          /\ pc = "end" => allDone = (\A d \in Coros : Done(d))
    /\ Prioritised =>
          /\ pc \in {"check", "run", "after"} => band \in 1 .. Len(bands) /\ k \in 1 .. Size(band)
          /\ pc \in {"run", "after"} => cur = Member(band, k)

\* The scan has looked at coroutine d, and did not run it to a suspension point.
Passed(d) ==
    IF Prioritised
    THEN \E b \in 1 .. Len(bands) : \E i \in 1 .. Size(b) :
            /\ Member(b, i) = d
            /\ \/ b < band
               \/ b = band /\ sweep = 0 /\ last[band] < i /\ i < k
               \/ b = band /\ sweep = 1 /\ (last[band] < i \/ i < k)
    ELSE d < cur

\* Everyone the scan has passed waits.
Rested == \A d \in Coros : Passed(d) => Waits(d)

\* While a scan has made no progress, everyone it has passed waits: this is what a report of a
\* deadlock and the priority loop's choice rest on.
Quiet(role) ==
    ~OneShot /\ AllSeen /\ progress = 0 =>
        /\ pc = "check" => Rested
        /\ pc = "run" /\ Unmoved(cur, body[cur], code.points[cur], LocalsOf(cur), role[blk]) =>
              \A d \in Coros : Passed(d) /\ d # cur => Waits(d)
        /\ pc = "after" /\ poll[cur] = "BLOCKED" => Rested /\ Waits(cur)
        /\ pc = "end" => \A d \in Coros : Waits(d)

\* What the ways out mean.
Verdict ==
    /\ pc = "exit" => \A d \in Coros : Done(d)
    /\ pc = "deadlock" => (\E d \in Coros : ~Done(d)) /\ (AllSeen => \A d \in Coros : Waits(d))

\* The inductive invariant, for one assignment of roles to the blocks.
Inv(role) ==
    /\ Types /\ Machines(code, body, role) /\ Resting /\ RunRole(role)
    /\ Scanning /\ Quiet(role) /\ Verdict

\* Waits is what the properties call Idle.
LEMMA WaitsIsIdle ==
    ASSUME NEW role, Types, Machines(code, body, role), NEW c \in Coros
    PROVE  /\ Waits(c) <=> Idle(c)
           /\ Entry(c) = Behind(c) + 1 /\ Behind(c) \in 0 .. Len(body[c])
<1>1. PICK src, pts, s : src = body[c] /\ pts = code.points[c] /\ s = state[c]
  OBVIOUS
<1>2. /\ src \in Seq(Statements) /\ s \in 0 .. Len(pts) \cup {DONE_STATE}
      /\ Len(src) \in Nat /\ DOMAIN src = 1 .. Len(src)
  BY <1>1, LenProperties DEF Types
<1>3. /\ Len(pts) \in Nat /\ Len(pts) < DONE_STATE
      /\ \A n \in 1 .. Len(pts) :
           pts[n][3].src \in DOMAIN src /\ src[pts[n][3].src][1] \in Suspensions
  <2>1. IsMachine(c, src, pts, code.blocks, code.dispatch[c], role)
    BY <1>1 DEF Machines
  <2> QED BY <2>1 DEF IsMachine
<1>4. Entry(c) = BehindOf(src, pts, s) + 1 /\ BehindOf(src, pts, s) \in 0 .. Len(src)
  <2>1. CASE s = DONE_STATE
    BY <2>1, <1>1, <1>2 DEF Entry, Done, BehindOf
  <2>2. CASE s = 0
    <3>1. state[c] = 0 /\ 0 # DONE_STATE
      BY <2>2, <1>1 DEF DONE_STATE
    <3>2. BehindOf(src, pts, s) = 0
      BY <2>2, <3>1 DEF BehindOf, ResumesAt
    <3>3. Entry(c) = 1
      BY <3>1 DEF Entry, Done
    <3> QED BY <3>2, <3>3, <1>2
  <2>3. CASE s \in 1 .. Len(pts)
    <3>1. PICK i : i = pts[s][3].src
      OBVIOUS
    <3>2. i \in 1 .. Len(src)
      BY <3>1, <2>3, <1>2, <1>3
    <3>3. s # DONE_STATE /\ s # 0
      BY <2>3, <1>3
    <3>4. BehindOf(src, pts, s) = IF src[i][1] = "GuardedRecv" THEN i - 1 ELSE i
      BY <3>1, <3>3 DEF BehindOf, ResumesAt
    <3>5. Entry(c) = IF src[i][1] = "GuardedRecv" THEN i ELSE i + 1
      BY <3>1, <3>3, <1>1 DEF Entry, Done
    <3> QED BY <3>2, <3>4, <3>5
  <2> QED BY <1>2, <2>1, <2>2, <2>3
<1>5. Waits(c) <=> Idle(c)
  <2>1. PICK i \in Int : i = BehindOf(src, pts, s) /\ Entry(c) = i + 1
    BY <1>4
  <2>2. Waits(c) <=> s = DONE_STATE \/ ShutAt(src, i, chan)
    BY <1>1, <2>1 DEF Waits, IdleAt
  <2>3. Idle(c) <=> s = DONE_STATE \/ (i + 1 <= Len(src) /\ src[i + 1][1] = "GuardedRecv" /\ chan[src[i + 1][2]] = 0)
    BY <1>1, <2>1 DEF Idle, Shut, Done
  <2> QED BY <1>2, <2>2, <2>3 DEF ShutAt
<1> QED BY <1>1, <1>4, <1>5 DEF Behind

\* What depends on the region alone does not change.
LEMMA RegionFixed ==
    ASSUME UNCHANGED region
    PROVE  /\ (Sorted)' <=> Sorted
           /\ (OneShot)' <=> OneShot
           /\ (Prioritised)' <=> Prioritised
           /\ (AllSeen)' <=> AllSeen
           /\ \A b : (Size(b))' = Size(b) /\ \A i : (Member(b, i))' = Member(b, i)
           /\ \A c : (Key(c))' = Key(c)
           /\ code' = code /\ body' = body
<1>1. body' = body /\ prio' = prio /\ strategy' = strategy /\ code' = code /\ bands' = bands
  BY DEF region
<1>2. /\ \A b : (Size(b))' = Size(b) /\ \A i : (Member(b, i))' = Member(b, i)
      /\ \A c : (Key(c))' = Key(c)
  BY <1>1 DEF Size, Member, Key
<1>3. (Sorted)' <=> Sorted
  BY <1>1 DEF Sorted, Size, Member, Key, MaxIsUnused
<1>4. (OneShot)' <=> OneShot
  BY <1>1 DEF OneShot
<1>5. (Prioritised)' <=> Prioritised
  BY <1>1, <1>4 DEF Prioritised
<1>6. (AllSeen)' <=> AllSeen
  BY <1>1 DEF AllSeen
<1> QED BY <1>1, <1>2, <1>3, <1>4, <1>5, <1>6

\* Nor does what the scan has passed.
LEMMA PassedFixed ==
    ASSUME UNCHANGED <<region, cur, scan>>
    PROVE  \A d \in Coros : (Passed(d))' <=> Passed(d)
<1>1. /\ prio' = prio /\ strategy' = strategy /\ bands' = bands
      /\ cur' = cur /\ band' = band /\ k' = k /\ sweep' = sweep /\ last' = last
  BY DEF region, scan
<1> QED BY <1>1 DEF Passed, Prioritised, OneShot, Size, Member

\* A block of a machine keeps the invariant.
LEMMA RunBlockKeeps ==
    ASSUME NEW role, Inv(role), RunBlock
    PROVE  (Inv(role))'
<1>1. PICK c, src, pts, g, m, b :
        /\ c = cur /\ src = body[cur] /\ pts = code.points[cur] /\ g = code.blocks
        /\ m = LocalsOf(cur) /\ b = blk
  OBVIOUS
<1>2. PICK e : e = After(m, g[b].stmts)
  OBVIOUS
<1>3. PICK t : t = blk'
  OBVIOUS
<1>t. Types /\ c \in Coros /\ pc = "run"
  BY <1>1 DEF Inv, Types, RunBlock
<1>4. /\ state' = [state EXCEPT ![c] = e.state] /\ poll' = [poll EXCEPT ![c] = e.poll]
      /\ progress' = e.progress /\ chan' = e.chan /\ ran' = [ran EXCEPT ![c] = e.ran]
      /\ t = Target(g[b].term, e)
      /\ pc' = IF t = 0 THEN "after" ELSE "run"
      /\ UNCHANGED region /\ allDone' = allDone /\ cur' = cur /\ UNCHANGED scan
  BY <1>1, <1>2, <1>3 DEF RunBlock, After, LocalsOf
<1>5. m \in Locals /\ m.state \in 0 .. Len(pts) \cup {DONE_STATE} /\ b \in DOMAIN g /\ src \in Seq(Statements)
  BY <1>t, <1>1 DEF Types, LocalsOf, Locals
<1>6. Runs(g, b, m, e, t)
  BY <1>2, <1>4 DEF Runs
<1>7. IsMachine(c, src, pts, g, code.dispatch[c], role) /\ InRole(c, src, pts, m, role[b])
  BY <1>t, <1>1 DEF Inv, Machines, RunRole
<1>8. /\ e \in Locals /\ e.state \in 0 .. Len(pts) \cup {DONE_STATE}
      /\ t = 0 => /\ Ran(src, e.ran, BehindOf(src, pts, e.state))
                  /\ (e.poll = "READY") = (e.state = DONE_STATE)
                  /\ e.poll = "BLOCKED" => IdleAt(src, pts, e.state, e.chan)
      /\ t # 0 => t \in DOMAIN g /\ InRole(c, src, pts, e, role[t])
      /\ Seen(src) /\ e.progress = 0
           /\ ((t = 0 /\ e.poll = "BLOCKED") \/ (t # 0 /\ Unmoved(c, src, pts, e, role[t])))
           => m.progress = 0 /\ e.chan = m.chan /\ Unmoved(c, src, pts, m, role[b])
  BY <1>5, <1>6, <1>7, BlockKeeps
<1>9. /\ code' = code /\ body' = body /\ prio' = prio /\ strategy' = strategy /\ bands' = bands
      /\ band' = band /\ k' = k /\ sweep' = sweep /\ last' = last
  BY <1>4 DEF region, scan
<1>e. e = [state |-> e.state, poll |-> e.poll, progress |-> e.progress, chan |-> e.chan, ran |-> e.ran]
      /\ e.state \in Nat /\ e.poll \in {"unset", "READY", "PENDING", "BLOCKED"} /\ e.progress \in {0, 1}
      /\ e.chan \in [Channels -> Nat] /\ e.ran \in Seq(Nat)
  BY <1>8 DEF Locals
<1>10. state'[c] = e.state /\ poll'[c] = e.poll /\ ran'[c] = e.ran
  BY <1>t, <1>4 DEF Types
<1>11. \A d \in Coros : d # c => state'[d] = state[d] /\ poll'[d] = poll[d] /\ ran'[d] = ran[d]
  BY <1>t, <1>4 DEF Types
<1>12. (LocalsOf(cur))' = e
  BY <1>1, <1>4, <1>10, <1>e DEF LocalsOf
<1>13. (Types)'
  <2>1. (Sorted)'
    BY <1>t, <1>4, RegionFixed DEF Types
  <2>2. \A d \in Coros : state'[d] \in 0 .. Len(code.points[d]) \cup {DONE_STATE}
    BY <1>t, <1>1, <1>8, <1>10, <1>11 DEF Types
  <2>3. state' \in [Coros -> Nat] /\ poll' \in [Coros -> {"unset", "READY", "PENDING", "BLOCKED"}] /\ ran' \in [Coros -> Seq(Nat)]
    BY <1>t, <1>4, <1>e DEF Types
  <2>4. (pc' = "run") = (t # 0) /\ (t # 0 => t \in DOMAIN code.blocks)
        /\ pc' \in {"top", "check", "run", "after", "end", "exit", "pending", "deadlock"}
    BY <1>1, <1>4, <1>8
  <2> QED BY <1>t, <1>3, <1>4, <1>9, <1>e, <2>1, <2>2, <2>3, <2>4 DEF Types
<1>14. (Machines(code, body, role))'
  BY <1>9 DEF Inv
<1>15. (Resting)'
  <2> SUFFICES ASSUME NEW d \in Coros, ~(pc' = "run" /\ cur' = d)
               PROVE  /\ Ran(body[d], ran'[d], BehindOf(body[d], code.points[d], state'[d]))
                      /\ (poll'[d] = "READY") = (state'[d] = DONE_STATE)
    BY <1>9 DEF Resting, Behind, Done
  <2>1. CASE d = c
    <3>1. t = 0
      BY <2>1, <1>1, <1>4
    <3> QED BY <2>1, <3>1, <1>1, <1>8, <1>10
  <2>2. CASE d # c
    <3>1. Ran(body[d], ran[d], Behind(d)) /\ (poll[d] = "READY") = Done(d)
      BY <2>2, <1>1 DEF Inv, Resting
    <3> QED BY <2>2, <3>1, <1>11 DEF Behind, Done
  <2> QED BY <2>1, <2>2
<1>16. (RunRole(role))'
  <2> SUFFICES ASSUME pc' = "run"
               PROVE  InRole(cur', body'[cur'], code'.points[cur'], (LocalsOf(cur))', role[blk'])
    BY DEF RunRole
  <2>1. t # 0
    BY <1>4
  <2> QED BY <2>1, <1>1, <1>3, <1>4, <1>8, <1>9, <1>12
<1>17. (Scanning)'
  <2>1. \A d \in Coros : d # c => ((Done(d))' <=> Done(d))
    BY <1>11 DEF Done
  <2>2. \A d \in Coros : d < c => d # c
    BY <1>t DEF Coros
  <2>3. ~Prioritised => allDone = (\A d \in Coros : d < c => Done(d))
    BY <1>t, <1>1 DEF Inv, Scanning
  <2>4. ~Prioritised => allDone' = (\A d \in Coros : d < c => (Done(d))')
    BY <2>1, <2>2, <2>3, <1>4
  <2>5. Prioritised => band \in 1 .. Len(bands) /\ k \in 1 .. Size(band) /\ cur = Member(band, k)
    BY <1>t DEF Inv, Scanning
  <2>6. ((Prioritised)' <=> Prioritised) /\ pc' \in {"run", "after"}
    BY <1>4, RegionFixed
  <2> QED BY <2>4, <2>5, <2>6, <1>1, <1>4, <1>9 DEF Scanning, Size, Member
<1>18. (Quiet(role))'
  <2> SUFFICES ASSUME ~(OneShot)', (AllSeen)', progress' = 0
               PROVE  /\ pc' = "run" /\ (Unmoved(cur, body[cur], code.points[cur], LocalsOf(cur), role[blk]))' =>
                           \A d \in Coros : (Passed(d))' /\ d # cur' => (Waits(d))'
                      /\ pc' = "after" /\ poll'[cur'] = "BLOCKED" => (Rested)' /\ (Waits(cur))'
    BY <1>4 DEF Quiet
  <2>1. ~OneShot /\ AllSeen /\ Seen(src)
    BY <1>t, <1>1, <1>4, RegionFixed DEF AllSeen
  <2>2. ASSUME (t = 0 /\ e.poll = "BLOCKED") \/ (t # 0 /\ Unmoved(c, src, pts, e, role[t]))
        PROVE  \A d \in Coros : (Passed(d))' /\ d # c => (Waits(d))'
    <3>1. m.progress = 0 /\ e.chan = m.chan /\ Unmoved(c, src, pts, m, role[b])
      BY <2>1, <2>2, <1>4, <1>8
    <3>2. progress = 0 /\ chan' = chan
      BY <3>1, <1>1, <1>4 DEF LocalsOf
    <3>3. \A d \in Coros : Passed(d) /\ d # c => Waits(d)
      BY <2>1, <3>1, <3>2, <1>t, <1>1 DEF Inv, Quiet
    <3>4. \A d \in Coros : (Passed(d))' <=> Passed(d)
      BY <1>4, PassedFixed
    <3>5. \A d \in Coros : d # c => ((Waits(d))' <=> Waits(d))
      BY <3>2, <1>9, <1>11 DEF Waits
    <3> QED BY <3>3, <3>4, <3>5
  <2>3. ASSUME pc' = "run", (Unmoved(cur, body[cur], code.points[cur], LocalsOf(cur), role[blk]))'
        PROVE  \A d \in Coros : (Passed(d))' /\ d # cur' => (Waits(d))'
    <3>1. t # 0 /\ Unmoved(c, src, pts, e, role[t])
      BY <2>3, <1>1, <1>3, <1>4, <1>9, <1>12
    <3> QED BY <2>2, <3>1, <1>1, <1>4
  <2>4. ASSUME pc' = "after", poll'[cur'] = "BLOCKED"
        PROVE  (Rested)' /\ (Waits(cur))'
    <3>1. t = 0 /\ e.poll = "BLOCKED"
      BY <2>4, <1>1, <1>4, <1>10
    <3>2. (Waits(cur))'
      BY <3>1, <1>1, <1>4, <1>8, <1>9, <1>10 DEF Waits
    <3>3. \A d \in Coros : (Passed(d))' /\ d # cur' => (Waits(d))'
      BY <2>2, <3>1, <1>1, <1>4
    <3> QED BY <3>2, <3>3 DEF Rested
  <2> QED BY <2>3, <2>4
<1>19. (Verdict)'
  BY <1>4 DEF Verdict
<1> QED BY <1>13, <1>14, <1>15, <1>16, <1>17, <1>18, <1>19 DEF Inv

-----------------------------------------------------------------------------
(* The executors' steps.                                                    *)

\* What the executors' own steps leave alone.
LEMMA MachinesRest ==
    ASSUME NEW role, Inv(role), pc # "run", UNCHANGED <<region, state, poll, user>>
    PROVE  /\ (Machines(code, body, role))' /\ (Resting)'
           /\ \A d \in Coros : ((Done(d))' <=> Done(d)) /\ ((Waits(d))' <=> Waits(d))
           /\ Types /\ Resting /\ Scanning /\ Quiet(role)
           /\ body' = body /\ code' = code /\ prio' = prio /\ strategy' = strategy /\ bands' = bands
           /\ state' = state /\ poll' = poll /\ chan' = chan /\ ran' = ran /\ (Sorted)'
           /\ ((Prioritised)' <=> Prioritised) /\ ((OneShot)' <=> OneShot) /\ ((AllSeen)' <=> AllSeen)
<1>1. /\ body' = body /\ code' = code /\ prio' = prio /\ strategy' = strategy /\ bands' = bands
      /\ state' = state /\ poll' = poll /\ chan' = chan /\ ran' = ran
  BY DEF region, user
<1>2. Types /\ Resting /\ Scanning /\ Quiet(role) /\ Machines(code, body, role)
  BY DEF Inv
<1>3. \A d \in Coros : ((Done(d))' <=> Done(d)) /\ ((Waits(d))' <=> Waits(d))
  BY <1>1 DEF Done, Waits
<1>4. (Machines(code, body, role))'
  BY <1>1, <1>2
<1>5. (Resting)'
  BY <1>1, <1>2 DEF Resting, Behind, Done
<1>6. (Sorted)' /\ ((Prioritised)' <=> Prioritised) /\ ((OneShot)' <=> OneShot) /\ ((AllSeen)' <=> AllSeen)
  BY <1>2, RegionFixed DEF Types
<1> QED BY <1>1, <1>2, <1>3, <1>4, <1>5, <1>6

\* The steps of the executors do: the top of the round-robin scan,
LEMMA LoopTopKeeps ==
    ASSUME NEW role, Inv(role), LoopTop
    PROVE  (Inv(role))'
<1>1. /\ pc = "top" /\ ~Prioritised /\ allDone' = TRUE /\ progress' = (IF OneShot THEN progress ELSE 0)
      /\ cur' = 1 /\ pc' = "check" /\ UNCHANGED <<region, state, poll, blk, scan, user>>
  BY DEF LoopTop
<1>2. /\ (Machines(code, body, role))' /\ (Resting)'
      /\ Types /\ body' = body /\ code' = code /\ prio' = prio /\ strategy' = strategy
      /\ state' = state /\ poll' = poll /\ chan' = chan /\ ran' = ran /\ (Sorted)'
      /\ ((Prioritised)' <=> Prioritised)
  BY <1>1, MachinesRest
<1>3. blk' = blk /\ band' = band /\ k' = k /\ sweep' = sweep /\ last' = last
  BY <1>1 DEF scan
<1>4. 1 \in Coros
  BY ConstantsType DEF Coros
<1>5. (Types)'
  BY <1>1, <1>2, <1>3, <1>4 DEF Types
<1>6. \A d \in Coros : ~(d < 1)
  BY DEF Coros
<1>7. (Scanning)'
  BY <1>1, <1>2, <1>6 DEF Scanning
<1>8. (Quiet(role))'
  <2>1. \A d \in Coros : ~(Passed(d))'
    BY <1>1, <1>2, <1>6 DEF Passed
  <2> QED BY <1>1, <2>1 DEF Quiet, Rested
<1>9. (RunRole(role))' /\ (Verdict)'
  BY <1>1 DEF RunRole, Verdict
<1> QED BY <1>2, <1>5, <1>7, <1>8, <1>9 DEF Inv

\* ... the dispatch of a coroutine,
LEMMA CheckKeeps ==
    ASSUME NEW role, Inv(role), Check
    PROVE  (Inv(role))'
<1>1. /\ pc = "check" /\ ~Prioritised
      /\ IF Done(cur) THEN pc' = "after" /\ UNCHANGED <<cur, blk>>
         ELSE pc' = "run" /\ cur' = cur /\ blk' = code.dispatch[cur]
      /\ UNCHANGED <<region, state, poll, progress, allDone, scan, user>>
  BY DEF Check, Dispatch
<1>2. /\ (Machines(code, body, role))' /\ (Resting)' /\ Resting /\ Scanning /\ Quiet(role)
      /\ \A d \in Coros : ((Done(d))' <=> Done(d)) /\ ((Waits(d))' <=> Waits(d))
      /\ Types /\ body' = body /\ code' = code /\ prio' = prio /\ strategy' = strategy
      /\ state' = state /\ poll' = poll /\ chan' = chan /\ ran' = ran /\ (Sorted)'
      /\ ((Prioritised)' <=> Prioritised) /\ ((OneShot)' <=> OneShot) /\ ((AllSeen)' <=> AllSeen)
  BY <1>1, MachinesRest
<1>3. progress' = progress /\ allDone' = allDone /\ cur' = cur /\ UNCHANGED <<region, cur, scan>>
      /\ band' = band /\ k' = k /\ sweep' = sweep /\ last' = last
  BY <1>1 DEF scan
<1>4. cur \in Coros /\ blk = 0
  BY <1>1, <1>2 DEF Types
<1>5. Is(code.blocks, role, code.dispatch[cur], Enters(cur)) /\ IsList(code.blocks)
  BY <1>4 DEF Inv, Machines, IsMachine
<1>6. code.dispatch[cur] # 0 /\ code.dispatch[cur] \in DOMAIN code.blocks /\ role[code.dispatch[cur]] = Enters(cur)
  BY <1>5 DEF IsList, Is
<1>7. (Types)'
  BY <1>1, <1>2, <1>3, <1>4, <1>6 DEF Types
<1>8. (RunRole(role))'
  <2> SUFFICES ASSUME pc' = "run"
               PROVE  InRole(cur', body'[cur'], code'.points[cur'], (LocalsOf(cur))', role[blk'])
    BY DEF RunRole
  <2>1. ~Done(cur) /\ blk' = code.dispatch[cur] /\ (LocalsOf(cur))' = LocalsOf(cur)
    BY <1>1, <1>2, <1>3 DEF LocalsOf
  <2>2. Ran(body[cur], ran[cur], Behind(cur))
    BY <1>1, <1>2, <1>4 DEF Resting
  <2>3. InRole(cur, body[cur], code.points[cur], LocalsOf(cur), Enters(cur))
    BY <2>1, <2>2 DEF InRole, LocalsOf, Behind, Done
  <2> QED BY <2>1, <2>3, <1>2, <1>3, <1>6
<1>9. (Scanning)'
  BY <1>1, <1>2, <1>3 DEF Scanning
<1>10. (Quiet(role))'
  <2>1. \A d \in Coros : (Passed(d))' <=> Passed(d)
    BY <1>3, PassedFixed
  <2>2. ~OneShot /\ AllSeen /\ progress = 0 => (Rested)'
    BY <1>1, <1>2, <2>1 DEF Quiet, Rested
  <2>3. pc' = "after" => Waits(cur)
    BY <1>1 DEF Waits, IdleAt, Done
  <2>4. pc' = "after" => (Waits(cur))'
    BY <2>3, <1>2, <1>3, <1>4 DEF Waits
  <2>5. (Rested)' => \A d \in Coros : (Passed(d))' => (Waits(d))'
    BY DEF Rested
  <2> QED BY <1>1, <1>2, <1>3, <2>2, <2>4, <2>5 DEF Quiet
<1>11. (Verdict)'
  BY <1>1 DEF Verdict
<1> QED BY <1>2, <1>7, <1>8, <1>9, <1>10, <1>11 DEF Inv

\* ... the latched poll result,
LEMMA AfterPollKeeps ==
    ASSUME NEW role, Inv(role), AfterPoll
    PROVE  (Inv(role))'
<1>1. /\ pc = "after" /\ ~Prioritised
      /\ state' = (IF poll[cur] = "READY" THEN [state EXCEPT ![cur] = DONE_STATE] ELSE state)
      /\ allDone' = (allDone /\ poll[cur] = "READY")
      /\ progress' = (IF ~OneShot /\ poll[cur] # "BLOCKED" THEN 1 ELSE progress)
      /\ IF cur < N THEN cur' = cur + 1 /\ pc' = "check" ELSE pc' = "end" /\ UNCHANGED cur
      /\ UNCHANGED <<region, poll, blk, scan, user>>
  BY DEF AfterPoll
<1>2. Types /\ Resting /\ cur \in Coros /\ blk = 0
  BY <1>1 DEF Inv, Types
<1>3. (poll[cur] = "READY") = Done(cur)
  BY <1>1, <1>2 DEF Resting
<1>4. state' = state
  BY <1>1, <1>2, <1>3 DEF Done, Types
<1>5. /\ (Machines(code, body, role))' /\ (Resting)' /\ Resting /\ Scanning /\ Quiet(role)
      /\ \A d \in Coros : ((Done(d))' <=> Done(d)) /\ ((Waits(d))' <=> Waits(d))
      /\ Types /\ body' = body /\ code' = code /\ prio' = prio /\ strategy' = strategy
      /\ state' = state /\ poll' = poll /\ chan' = chan /\ ran' = ran /\ (Sorted)'
      /\ ((Prioritised)' <=> Prioritised) /\ ((OneShot)' <=> OneShot) /\ ((AllSeen)' <=> AllSeen)
  BY <1>1, <1>4, MachinesRest
<1>6. band' = band /\ k' = k /\ sweep' = sweep /\ last' = last
  BY <1>1 DEF scan
<1>n. N \in Nat /\ N > 0
  BY ConstantsType
<1>7. cur' \in Coros
  BY <1>1, <1>2, <1>n DEF Coros
<1>8. (Types)'
  BY <1>1, <1>2, <1>5, <1>6, <1>7 DEF Types
<1>9. (Scanning)'
  <2>1. allDone = (\A d \in Coros : d < cur => Done(d)) /\ allDone' = (allDone /\ Done(cur))
    BY <1>1, <1>3, <1>5 DEF Scanning
  <2>2. CASE cur < N
    <3>1. \A d \in Coros : d < cur + 1 <=> d < cur \/ d = cur
      BY <1>2 DEF Coros
    <3>2. allDone' = (\A d \in Coros : d < cur' => Done(d))
      BY <2>1, <2>2, <3>1, <1>1, <1>2
    <3>3. allDone' = (\A d \in Coros : d < cur' => (Done(d))')
      BY <3>2, <1>5
    <3> QED BY <2>2, <3>3, <1>1, <1>5 DEF Scanning
  <2>3. CASE ~(cur < N)
    <3>1. \A d \in Coros : d < cur \/ d = cur
      BY <2>3, <1>2, <1>n DEF Coros
    <3>2. allDone' = (\A d \in Coros : Done(d))
      BY <2>1, <3>1, <1>2
    <3>3. allDone' = (\A d \in Coros : (Done(d))')
      BY <3>2, <1>5
    <3> QED BY <2>3, <3>3, <1>1, <1>5 DEF Scanning
  <2> QED BY <2>2, <2>3
<1>10. (Quiet(role))'
  <2> SUFFICES ASSUME ~OneShot, AllSeen, progress' = 0
               PROVE  /\ pc' = "check" => (Rested)'
                      /\ pc' = "end" => \A d \in Coros : (Waits(d))'
    BY <1>1, <1>5 DEF Quiet
  <2>1. progress = 0 /\ poll[cur] = "BLOCKED"
    BY <1>1
  <2>2. (\A d \in Coros : Passed(d) => Waits(d)) /\ Waits(cur)
    BY <2>1, <1>1, <1>5 DEF Quiet, Rested
  <2>3. \A d \in Coros : d < cur => Waits(d)
    BY <2>2, <1>1 DEF Passed
  <2>4. CASE cur < N
    <3>1. \A d \in Coros : d < cur + 1 => d < cur \/ d = cur
      BY <1>2 DEF Coros
    <3>2. \A d \in Coros : (Passed(d))' => d < cur + 1
      BY <2>4, <1>1, <1>5 DEF Passed
    <3>3. \A d \in Coros : (Passed(d))' => (Waits(d))'
      BY <2>2, <2>3, <3>1, <3>2, <1>5
    <3> QED BY <2>4, <3>3, <1>1 DEF Rested
  <2>5. CASE ~(cur < N)
    <3>1. \A d \in Coros : d < cur \/ d = cur
      BY <2>5, <1>2, <1>n DEF Coros
    <3> QED BY <2>2, <2>3, <2>5, <3>1, <1>1, <1>5
  <2> QED BY <2>4, <2>5
<1>11. (RunRole(role))' /\ (Verdict)'
  BY <1>1 DEF RunRole, Verdict
<1> QED BY <1>5, <1>8, <1>9, <1>10, <1>11 DEF Inv

\* ... the ends of both scans, the host's return, the top of the priority scan,
LEMMA EndKeeps ==
    ASSUME NEW role, Inv(role), LoopEnd \/ Reenter \/ PriorityEnd \/ PriorityTop
    PROVE  (Inv(role))'
<1>1. /\ pc \in {"end", "pending", "top"} /\ pc' \in {"top", "check", "exit", "pending", "deadlock"}
      /\ allDone' = allDone /\ cur' = cur /\ blk' = blk /\ last' = last
      /\ UNCHANGED <<region, state, poll, user>>
      /\ progress' \in {progress, 0}
  BY DEF LoopEnd, Reenter, PriorityEnd, PriorityTop, Stuck, scan
<1>2. \/ pc' # "check" /\ band' = band /\ k' = k /\ sweep' = sweep
      \/ pc' = "check" /\ band' = 1 /\ k' = 1 /\ sweep' = 0 /\ Prioritised
  BY DEF LoopEnd, Reenter, PriorityEnd, PriorityTop, Stuck, scan
<1>3. /\ (Machines(code, body, role))' /\ (Resting)' /\ Resting /\ Scanning /\ Quiet(role)
      /\ \A d \in Coros : ((Done(d))' <=> Done(d)) /\ ((Waits(d))' <=> Waits(d))
      /\ Types /\ body' = body /\ code' = code /\ prio' = prio /\ strategy' = strategy /\ bands' = bands
      /\ state' = state /\ poll' = poll /\ chan' = chan /\ ran' = ran /\ (Sorted)'
      /\ ((Prioritised)' <=> Prioritised) /\ ((OneShot)' <=> OneShot) /\ ((AllSeen)' <=> AllSeen)
  BY <1>1, MachinesRest
<1>n. N \in Nat /\ N > 0
  BY ConstantsType
<1>4. (Types)'
  <2>1. band' \in 1 .. N /\ k' \in 1 .. N /\ sweep' \in {0, 1} /\ progress' \in {0, 1}
    BY <1>1, <1>2, <1>3, <1>n DEF Types
  <2>2. pc # "run" /\ pc' # "run" /\ pc' \in {"top", "check", "run", "after", "end", "exit", "pending", "deadlock"}
    BY <1>1
  <2>3. blk = 0
    BY <2>2, <1>3 DEF Types
  <2> QED BY <1>1, <1>3, <2>1, <2>2, <2>3 DEF Types
<1>s. Sorted
  BY <1>3 DEF Types
<1>5. (Scanning)'
  <2>1. 1 \in 1 .. Len(bands) /\ 1 \in 1 .. Size(1)
    BY <1>s, <1>n DEF Sorted
  <2>2. Size(1)' = Size(1)
    BY <1>3 DEF Size
  <2>3. pc' = "check" => Prioritised /\ band' \in 1 .. Len(bands') /\ k' \in 1 .. (Size(band))'
    BY <1>2, <1>3, <2>1, <2>2 DEF Size
  <2> QED BY <1>1, <1>3, <2>3 DEF Scanning
<1>6. (Quiet(role))'
  <2> SUFFICES ASSUME pc' = "check" PROVE \A d \in Coros : ~(Passed(d))'
    BY <1>1 DEF Quiet, Rested
  <2>1. band' = 1 /\ k' = 1 /\ sweep' = 0 /\ (Prioritised)'
    BY <1>2, <1>3
  <2>2. last \in [1 .. N -> 0 .. N] /\ 1 \in 1 .. N
    BY <1>3, <1>n DEF Types
  <2>3. last[1] \in Nat
    BY <2>2
  <2>4. \A b \in 1 .. Len(bands') : ~(b < 1)
    OBVIOUS
  <2>5. \A i : i \in Int => ~(last[1] < i /\ i < 1)
    BY <2>3
  <2>6. \A b, i : i \in 1 .. (Size(b))' => i \in Int
    OBVIOUS
  <2> QED BY <1>1, <2>1, <2>4, <2>5, <2>6 DEF Passed
<1>7. (Verdict)'
  <2>1. ASSUME pc' = "exit" PROVE \A d \in Coros : Done(d)
    <3>1. pc = "end"
      BY <2>1 DEF LoopEnd, Reenter, PriorityEnd, PriorityTop, Stuck
    <3>2. CASE LoopEnd
      <4>1. allDone /\ ~Prioritised
        BY <2>1, <3>2 DEF LoopEnd, Stuck
      <4> QED BY <3>1, <4>1, <1>3 DEF Scanning
    <3>3. CASE PriorityEnd
      BY <2>1, <3>3 DEF PriorityEnd, Stuck
    <3> QED BY <2>1, <3>2, <3>3 DEF Reenter, PriorityTop
  <2>2. ASSUME pc' = "deadlock"
        PROVE  (\E d \in Coros : ~Done(d)) /\ (AllSeen => \A d \in Coros : Waits(d))
    <3>1. pc = "end" /\ (LoopEnd \/ PriorityEnd)
      BY <2>2 DEF LoopEnd, Reenter, PriorityEnd, PriorityTop, Stuck
    <3>2. progress = 0 /\ ~OneShot
      <4>1. progress # 1 /\ ~OneShot
        BY <2>2, <3>1 DEF LoopEnd, PriorityEnd, Stuck, Prioritised
      <4> QED BY <4>1, <1>3 DEF Types
    <3>3. AllSeen => \A d \in Coros : Waits(d)
      BY <3>1, <3>2, <1>3 DEF Quiet
    <3>4. \E d \in Coros : ~Done(d)
      <4>1. CASE LoopEnd
        <5>1. ~allDone /\ ~Prioritised
          BY <2>2, <4>1 DEF LoopEnd, Stuck
        <5> QED BY <3>1, <5>1, <1>3 DEF Scanning
      <4>2. CASE PriorityEnd
        BY <2>2, <4>2 DEF PriorityEnd, Stuck
      <4> QED BY <3>1, <4>1, <4>2
    <3> QED BY <3>3, <3>4
  <2> QED BY <2>1, <2>2, <1>3 DEF Verdict
<1>8. (RunRole(role))'
  BY <1>1 DEF RunRole
<1> QED BY <1>3, <1>4, <1>5, <1>6, <1>7, <1>8 DEF Inv

\* Where Advance goes, and what the scan has passed then.
LEMMA AdvancePasses ==
    ASSUME Types, Prioritised, band \in 1 .. Len(bands), k \in 1 .. Size(band),
           Advance, last' = last, UNCHANGED region
    PROVE  /\ band' \in 1 .. Len(bands) /\ k' \in 1 .. Size(band') /\ sweep' \in {0, 1}
           /\ pc' \in {"check", "end"}
           /\ pc' = "check" => \A d \in Coros : (Passed(d))' => Passed(d) \/ (Polls /\ d = Member(band, k))
           /\ pc' = "end" => \A d \in Coros : Passed(d) \/ (Polls /\ d = Member(band, k))
<1>1. Sorted /\ sweep \in {0, 1} /\ last \in [1 .. N -> 0 .. N] /\ Len(bands) \in 1 .. N /\ N \in Nat
  BY ConstantsType DEF Types, Sorted
<1>2. band \in Int /\ k \in Int /\ Len(bands) \in Int /\ band \in 1 .. N /\ last[band] \in Int
  BY <1>1
<1>3. \A b \in 1 .. Len(bands) : Size(b) \in 1 .. N
  BY <1>1 DEF Sorted
<1>4. ((Prioritised)' <=> Prioritised) /\ bands' = bands
      /\ \A b : (Size(b))' = Size(b) /\ \A i : (Member(b, i))' = Member(b, i)
  BY RegionFixed DEF region
<1> DEFINE at(b, i, d) == b \in 1 .. Len(bands) /\ i \in 1 .. Size(b) /\ Member(b, i) = d
           past(b, i) == \/ b < band
                         \/ b = band /\ sweep = 0 /\ last[band] < i /\ i < k
                         \/ b = band /\ sweep = 1 /\ (last[band] < i \/ i < k)
           past2(b, i) == \/ b < band'
                          \/ b = band' /\ sweep' = 0 /\ last[band'] < i /\ i < k'
                          \/ b = band' /\ sweep' = 1 /\ (last[band'] < i \/ i < k')
<1>5. \A d : Passed(d) <=> \E b, i : at(b, i, d) /\ past(b, i)
  BY DEF Passed
<1>6. \A d : (Passed(d))' <=> \E b, i : at(b, i, d) /\ past2(b, i)
  <2>1. \A d : (Passed(d))' <=> \E b \in 1 .. Len(bands') : \E i \in 1 .. (Size(b))' :
            /\ (Member(b, i))' = d
            /\ \/ b < band'
               \/ b = band' /\ sweep' = 0 /\ last'[band'] < i /\ i < k'
               \/ b = band' /\ sweep' = 1 /\ (last'[band'] < i \/ i < k')
    BY <1>4 DEF Passed, Size, Member
  <2> QED BY <2>1, <1>4
<1>7. ASSUME NEW b \in 1 .. Len(bands), NEW i \in 1 .. Size(b), pc' = "check", past2(b, i)
      PROVE  past(b, i) \/ (Polls /\ b = band /\ i = k)
  <2>0. b \in Int /\ i \in Int /\ 1 <= i
    OBVIOUS
  <2>1. CASE k < Size(band) /\ k' = k + 1 /\ band' = band /\ sweep' = sweep
    BY <2>0, <2>1, <1>1, <1>2, <1>7 DEF Polls
  <2>2. CASE k = Size(band) /\ sweep = 0 /\ k' = 1 /\ sweep' = 1 /\ band' = band
    BY <2>0, <2>2, <1>1, <1>2, <1>7 DEF Polls
  <2>3. CASE k = Size(band) /\ sweep = 1 /\ band < Len(bands) /\ band' = band + 1 /\ k' = 1 /\ sweep' = 0
    <3>1. last[band + 1] \in Nat
      BY <2>3, <1>1, <1>2
    <3>2. b < band \/ b = band
      BY <2>0, <2>3, <3>1, <1>2, <1>7
    <3>3. b = band => i \in 1 .. k
      BY <2>3
    <3> QED BY <2>0, <2>3, <3>2, <3>3, <1>1, <1>2 DEF Polls
  <2> QED BY <2>1, <2>2, <2>3, <1>7 DEF Advance
<1>8. ASSUME NEW b \in 1 .. Len(bands), NEW i \in 1 .. Size(b), pc' = "end"
      PROVE  past(b, i) \/ (Polls /\ b = band /\ i = k)
  <2>1. k = Size(band) /\ sweep = 1 /\ band = Len(bands)
    BY <1>8 DEF Advance
  <2>2. b < band \/ b = band
    BY <2>1, <1>2
  <2>3. b = band => i \in 1 .. k
    BY <2>1
  <2> QED BY <2>1, <2>2, <2>3, <1>1, <1>2 DEF Polls
<1>9. band' \in 1 .. Len(bands) /\ k' \in 1 .. Size(band') /\ sweep' \in {0, 1} /\ pc' \in {"check", "end"}
  <2>1. band + 1 \in 1 .. Len(bands) => 1 \in 1 .. Size(band + 1)
    BY <1>3, <1>1
  <2>2. Size(band) \in 1 .. N
    BY <1>3
  <2>3. CASE k < Size(band) /\ k' = k + 1 /\ pc' = "check" /\ band' = band /\ sweep' = sweep
    BY <2>2, <2>3, <1>1, <1>2
  <2>4. CASE k = Size(band) /\ sweep = 0 /\ k' = 1 /\ sweep' = 1 /\ pc' = "check" /\ band' = band
    BY <2>2, <2>4, <1>1, <1>2
  <2>5. CASE k = Size(band) /\ sweep = 1 /\ band < Len(bands) /\ band' = band + 1 /\ k' = 1 /\ sweep' = 0 /\ pc' = "check"
    BY <2>1, <2>5, <1>1, <1>2
  <2>6. CASE k = Size(band) /\ sweep = 1 /\ band = Len(bands) /\ pc' = "end" /\ band' = band /\ k' = k /\ sweep' = sweep
    BY <2>6, <1>1, <1>2
  <2> QED BY <2>3, <2>4, <2>5, <2>6 DEF Advance
<1>10. ASSUME NEW d \in Coros, pc' = "check", (Passed(d))'
       PROVE  Passed(d) \/ (Polls /\ d = Member(band, k))
  <2>1. PICK b, i : at(b, i, d) /\ past2(b, i)
    BY <1>6, <1>10
  <2>2. past(b, i) \/ (Polls /\ b = band /\ i = k)
    BY <2>1, <1>7, <1>10
  <2> HIDE DEF past
  <2> QED BY <2>1, <2>2, <1>5
<1>11. ASSUME NEW d \in Coros, pc' = "end"
       PROVE  Passed(d) \/ (Polls /\ d = Member(band, k))
  <2>1. PICK b, i : at(b, i, d)
    BY <1>1 DEF Sorted
  <2>2. past(b, i) \/ (Polls /\ b = band /\ i = k)
    BY <2>1, <1>8, <1>11
  <2> HIDE DEF past
  <2> QED BY <2>1, <2>2, <1>5
<1> QED BY <1>9, <1>10, <1>11

\* ... the priority scan's way past a coroutine,
LEMMA AdvanceKeeps ==
    ASSUME NEW role, Inv(role), Prioritised, pc \in {"check", "after"}, Advance,
           UNCHANGED <<region, state, poll, progress, allDone, cur, blk, last, user>>,
           ~OneShot /\ AllSeen /\ progress = 0 => Rested /\ (Polls => Waits(Member(band, k)))
    PROVE  (Inv(role))'
<1>1. /\ (Machines(code, body, role))' /\ (Resting)' /\ Resting /\ Scanning /\ Quiet(role)
      /\ \A d \in Coros : ((Done(d))' <=> Done(d)) /\ ((Waits(d))' <=> Waits(d))
      /\ Types /\ body' = body /\ code' = code /\ prio' = prio /\ strategy' = strategy /\ bands' = bands
      /\ state' = state /\ poll' = poll /\ chan' = chan /\ ran' = ran /\ (Sorted)'
      /\ ((Prioritised)' <=> Prioritised) /\ ((OneShot)' <=> OneShot) /\ ((AllSeen)' <=> AllSeen)
  BY MachinesRest
<1>2. /\ progress' = progress /\ allDone' = allDone /\ cur' = cur /\ blk' = blk /\ last' = last /\ UNCHANGED region
  OBVIOUS
<1>3. band \in 1 .. Len(bands) /\ k \in 1 .. Size(band)
  BY <1>1 DEF Scanning
<1>4. /\ band' \in 1 .. Len(bands) /\ k' \in 1 .. Size(band') /\ sweep' \in {0, 1}
      /\ pc' \in {"check", "end"}
      /\ pc' = "check" => \A d \in Coros : (Passed(d))' => Passed(d) \/ (Polls /\ d = Member(band, k))
      /\ pc' = "end" => \A d \in Coros : Passed(d) \/ (Polls /\ d = Member(band, k))
  BY <1>1, <1>2, <1>3, AdvancePasses
<1>s. Sorted /\ N \in Nat
  BY <1>1, ConstantsType DEF Types
<1>5. (Types)'
  <2>1. Len(bands) \in 1 .. N /\ Size(band') \in 1 .. N
    BY <1>s, <1>4 DEF Sorted
  <2>2. band' \in 1 .. N /\ k' \in 1 .. N
    BY <2>1, <1>s, <1>4
  <2>3. blk = 0
    BY <1>1 DEF Types
  <2> QED BY <2>2, <2>3, <1>1, <1>2, <1>4 DEF Types
<1>6. (Scanning)'
  <2>1. (Size(band))' = Size(band')
    BY <1>1 DEF Size
  <2> QED BY <2>1, <1>1, <1>4 DEF Scanning
<1>7. (Quiet(role))'
  <2> SUFFICES ASSUME ~OneShot, AllSeen, progress = 0
               PROVE  /\ pc' = "check" => (Rested)'
                      /\ pc' = "end" => \A d \in Coros : (Waits(d))'
    BY <1>1, <1>2, <1>4 DEF Quiet
  <2>1. \A d \in Coros : Passed(d) \/ (Polls /\ d = Member(band, k)) => (Waits(d))'
    BY <1>1 DEF Rested
  <2>2. pc' = "check" => (Rested)'
    BY <2>1, <1>4 DEF Rested
  <2> QED BY <2>1, <2>2, <1>4
<1>8. (RunRole(role))' /\ (Verdict)'
  BY <1>4 DEF RunRole, Verdict
<1> QED BY <1>1, <1>5, <1>6, <1>7, <1>8 DEF Inv

\* ... its dispatch,
LEMMA ScanKeeps ==
    ASSUME NEW role, Inv(role), Scan
    PROVE  (Inv(role))'
<1>1. /\ pc = "check" /\ Prioritised
      /\ UNCHANGED <<region, state, poll, progress, allDone, last, user>>
  BY DEF Scan
<1>2. /\ (Machines(code, body, role))' /\ (Resting)' /\ Resting /\ Scanning /\ Quiet(role)
      /\ \A d \in Coros : ((Done(d))' <=> Done(d)) /\ ((Waits(d))' <=> Waits(d))
      /\ Types /\ body' = body /\ code' = code /\ prio' = prio /\ strategy' = strategy /\ bands' = bands
      /\ state' = state /\ poll' = poll /\ chan' = chan /\ ran' = ran /\ (Sorted)'
      /\ ((Prioritised)' <=> Prioritised) /\ ((OneShot)' <=> OneShot) /\ ((AllSeen)' <=> AllSeen)
  BY <1>1, MachinesRest
<1>3. band \in 1 .. Len(bands) /\ k \in 1 .. Size(band) /\ Member(band, k) \in Coros
  BY <1>1, <1>2 DEF Scanning, Types, Sorted
<1>r. ~OneShot /\ AllSeen /\ progress = 0 => Rested
  BY <1>1, <1>2 DEF Quiet
<1>4. CASE Polls /\ ~Done(Member(band, k))
  <2>1. PICK c \in Coros : c = Member(band, k)
    BY <1>3
  <2>2. /\ pc' = "run" /\ cur' = c /\ blk' = code.dispatch[c] /\ ~Done(c)
        /\ band' = band /\ k' = k /\ sweep' = sweep /\ last' = last /\ progress' = progress /\ allDone' = allDone
    BY <1>1, <1>4, <2>1 DEF Scan, Dispatch
  <2>3. Is(code.blocks, role, code.dispatch[c], Enters(c)) /\ IsList(code.blocks)
    BY DEF Inv, Machines, IsMachine
  <2>4. code.dispatch[c] # 0 /\ code.dispatch[c] \in DOMAIN code.blocks /\ role[code.dispatch[c]] = Enters(c)
    BY <2>3 DEF IsList, Is
  <2>5. (Types)'
    BY <1>2, <2>2, <2>4 DEF Types
  <2>6. (RunRole(role))'
    <3>1. (LocalsOf(cur))' = [state |-> state[c], poll |-> poll[c], progress |-> progress, chan |-> chan, ran |-> ran[c]]
      BY <1>2, <2>2 DEF LocalsOf
    <3>2. PICK m : m = [state |-> state[c], poll |-> poll[c], progress |-> progress, chan |-> chan, ran |-> ran[c]]
      OBVIOUS
    <3>3. Ran(body[c], ran[c], Behind(c))
      BY <1>1, <1>2 DEF Resting
    <3>4. InRole(c, body[c], code.points[c], m, Enters(c))
      BY <2>2, <3>2, <3>3 DEF InRole, Behind, Done
    <3> QED BY <1>2, <2>2, <2>4, <3>1, <3>2, <3>4 DEF RunRole
  <2>7. (Scanning)'
    BY <1>2, <1>3, <2>1, <2>2, <1>1 DEF Scanning, Size, Member
  <2>8. (Quiet(role))'
    <3>1. \A d \in Coros : (Passed(d))' <=> Passed(d)
      BY <1>1, <1>2, <2>2 DEF Passed, Size, Member
    <3>2. ~OneShot /\ AllSeen /\ progress = 0 => \A d \in Coros : (Passed(d))' => (Waits(d))'
      BY <3>1, <1>r, <1>2 DEF Rested
    <3> QED BY <1>2, <2>2, <3>2 DEF Quiet
  <2>9. (Verdict)'
    BY <2>2 DEF Verdict
  <2> QED BY <1>2, <2>5, <2>6, <2>7, <2>8, <2>9 DEF Inv
<1>5. CASE ~(Polls /\ ~Done(Member(band, k)))
  <2>1. Advance /\ UNCHANGED <<cur, blk>>
    BY <1>5 DEF Scan
  <2>2. Polls => Waits(Member(band, k))
    BY <1>5 DEF Waits, IdleAt, Done
  <2> QED BY <2>1, <2>2, <1>1, <1>r, AdvanceKeeps
<1> QED BY <1>4, <1>5

\* ... and what it does with the poll result.
LEMMA AfterPriorityPollKeeps ==
    ASSUME NEW role, Inv(role), AfterPriorityPoll
    PROVE  (Inv(role))'
<1>1. /\ pc = "after" /\ Prioritised
      /\ UNCHANGED <<region, state, poll, progress, allDone, cur, blk, user>>
  BY DEF AfterPriorityPoll
<1>2. /\ (Machines(code, body, role))' /\ (Resting)' /\ Resting /\ Scanning /\ Quiet(role)
      /\ Types /\ body' = body /\ code' = code /\ prio' = prio /\ strategy' = strategy /\ bands' = bands
      /\ state' = state /\ poll' = poll /\ chan' = chan /\ ran' = ran /\ (Sorted)'
      /\ ((Prioritised)' <=> Prioritised)
  BY <1>1, MachinesRest
<1>3. CASE poll[cur] = "BLOCKED"
  <2>1. Advance /\ last' = last
    BY <1>3 DEF AfterPriorityPoll
  <2>2. cur = Member(band, k)
    BY <1>1, <1>2 DEF Scanning
  <2>3. ~OneShot /\ AllSeen /\ progress = 0 => Rested /\ Waits(Member(band, k))
    BY <1>1, <1>2, <1>3, <2>2 DEF Quiet
  <2> QED BY <2>1, <2>3, <1>1, AdvanceKeeps
<1>4. CASE poll[cur] # "BLOCKED"
  <2>1. last' = [last EXCEPT ![band] = k] /\ pc' = "top" /\ band' = band /\ k' = k /\ sweep' = sweep
    BY <1>4 DEF AfterPriorityPoll
  <2>2. blk = 0 /\ k \in 1 .. N /\ last \in [1 .. N -> 0 .. N]
    BY <1>1, <1>2 DEF Types
  <2>3. last' \in [1 .. N -> 0 .. N]
    <3>1. k \in 0 .. N
      BY <2>2, ConstantsType
    <3> QED BY <2>1, <2>2, <3>1
  <2>4. (Types)'
    BY <1>1, <1>2, <2>1, <2>2, <2>3 DEF Types
  <2>5. (RunRole(role))' /\ (Verdict)' /\ (Quiet(role))' /\ (Scanning)'
    BY <2>1 DEF RunRole, Verdict, Quiet, Scanning
  <2> QED BY <1>2, <2>4, <2>5 DEF Inv
<1> QED BY <1>3, <1>4

\* Nothing changes.
LEMMA StutterKeeps ==
    ASSUME NEW role, Inv(role), UNCHANGED vars
    PROVE  (Inv(role))'
<1>1. /\ body' = body /\ code' = code /\ prio' = prio /\ strategy' = strategy /\ bands' = bands
      /\ state' = state /\ poll' = poll /\ chan' = chan /\ ran' = ran
      /\ progress' = progress /\ allDone' = allDone /\ pc' = pc /\ cur' = cur /\ blk' = blk
      /\ band' = band /\ k' = k /\ sweep' = sweep /\ last' = last
      /\ UNCHANGED region /\ UNCHANGED <<region, cur, scan>>
  BY DEF vars, region, scan, user
<1>2. ((Sorted)' <=> Sorted) /\ ((Prioritised)' <=> Prioritised) /\ ((OneShot)' <=> OneShot) /\ ((AllSeen)' <=> AllSeen)
  BY <1>1, RegionFixed
<1>3. \A d \in Coros : ((Done(d))' <=> Done(d)) /\ ((Waits(d))' <=> Waits(d)) /\ (Behind(d))' = Behind(d)
  BY <1>1 DEF Done, Waits, Behind
<1>4. \A d \in Coros : (Passed(d))' <=> Passed(d)
  BY <1>1, PassedFixed
<1>5. (LocalsOf(cur))' = LocalsOf(cur)
  BY <1>1 DEF LocalsOf
<1>6. (Types)'
  BY <1>1, <1>2 DEF Types, Inv
<1>7. (Machines(code, body, role))'
  BY <1>1 DEF Inv
<1>8. (Resting)'
  BY <1>1 DEF Resting, Inv, Behind, Done
<1>9. (RunRole(role))'
  BY <1>1, <1>5 DEF RunRole, Inv
<1>10. (Scanning)'
  BY <1>1, <1>2, <1>3 DEF Scanning, Size, Member, Inv
<1>11. (Quiet(role))'
  BY <1>1, <1>2, <1>3, <1>4, <1>5 DEF Quiet, Rested, Inv, Waits
<1>12. (Verdict)'
  BY <1>1, <1>2, <1>3 DEF Verdict, Inv
<1> QED BY <1>6, <1>7, <1>8, <1>9, <1>10, <1>11, <1>12 DEF Inv

\* The invariant is inductive.
LEMMA InvKeeps ==
    ASSUME NEW role, Inv(role), [Next]_vars
    PROVE  (Inv(role))'
BY RunBlockKeeps, LoopTopKeeps, CheckKeeps, AfterPollKeeps, EndKeeps, ScanKeeps,
   AfterPriorityPollKeeps, StutterKeeps DEF Next, RoundRobin, Priority

-----------------------------------------------------------------------------
(* What the invariant implies.                                              *)

\* Some role of every block makes the machines those of the bodies.
IInv == \E role : Inv(role)

\* The invariant holds of the initial state if the code is machines.
LEMMA Initially ==
    ASSUME Init, NEW role, Machines(code, body, role)
    PROVE  Inv(role)
<1>1. /\ prio \in Priorities /\ strategy \in Strategies /\ bands = BandsOf
      /\ state = [c \in Coros |-> 0]
      /\ poll = [c \in Coros |-> "unset"]
      /\ progress = 0 /\ allDone = FALSE
      /\ pc = "top" /\ cur = 1 /\ blk = 0
      /\ band = 1 /\ k = 1 /\ sweep = 0 /\ last = [b \in 1 .. N |-> 0]
      /\ chan = [q \in Channels |-> 0]
      /\ ran = [c \in Coros |-> << >>]
  BY DEF Init
<1>2. body \in [Coros -> Seq(Statements)]
  BY RegionAssumption DEF Init
<1>3. prio \in [Coros -> 0 .. NoPriority]
  BY <1>1, ConstantsType
<1>4. Sorted
  BY <1>1, <1>3, BandsSorted
<1>5. N \in Nat /\ N > 0 /\ 1 \in Coros
  BY ConstantsType DEF Coros
<1>6. \A c \in Coros : Len(code.points[c]) \in Nat
  BY DEF Machines, IsMachine
<1>7. Types
  <2>1. \A c \in Coros : state[c] \in 0 .. Len(code.points[c]) \cup {DONE_STATE}
    BY <1>1, <1>6
  <2>2. ran \in [Coros -> Seq(Nat)]
    BY <1>1
  <2>3. state \in [Coros -> Nat] /\ poll \in [Coros -> {"unset", "READY", "PENDING", "BLOCKED"}]
    BY <1>1
  <2>4. last \in [1 .. N -> 0 .. N] /\ chan \in [Channels -> Nat] /\ band \in 1 .. N /\ k \in 1 .. N
    BY <1>1, <1>5
  <2> QED BY <1>1, <1>2, <1>4, <1>5, <2>1, <2>2, <2>3, <2>4 DEF Types
<1>8. Resting
  <2> SUFFICES ASSUME NEW c \in Coros
               PROVE  Ran(body[c], ran[c], Behind(c)) /\ (poll[c] = "READY") = Done(c)
    BY DEF Resting
  <2>1. state[c] = 0 /\ ran[c] = << >> /\ poll[c] = "unset"
    BY <1>1
  <2>2. Behind(c) = 0 /\ ~Done(c)
    BY <2>1 DEF Behind, BehindOf, ResumesAt, Done, DONE_STATE
  <2>3. /\ << >> \in Seq(DOMAIN body[c]) /\ DOMAIN << >> = {} /\ Range(<< >>) = {}
    BY DEF Range
  <2>4. {n \in 1 .. 0 : body[c][n][1] # "Yield"} = {}
    OBVIOUS
  <2>5. Ran(body[c], << >>, 0)
    BY <2>3, <2>4 DEF Ran
  <2>6. Ran(body[c], ran[c], Behind(c))
    BY <2>1, <2>2, <2>5
  <2>7. (poll[c] = "READY") = Done(c)
    BY <2>1, <2>2 DEF Done
  <2> QED BY <2>6, <2>7
<1>9. RunRole(role) /\ Scanning /\ Quiet(role) /\ Verdict
  BY <1>1 DEF RunRole, Scanning, Quiet, Verdict
<1> QED BY <1>7, <1>8, <1>9 DEF Inv

\* The invariants that the run checks.
LEMMA TypeOKHolds == ASSUME NEW role, Inv(role) PROVE TypeOK
<1>1. Types /\ Resting /\ RunRole(role) /\ Machines(code, body, role)
  BY DEF Inv
<1>2. blk \in 0 .. Len(code.blocks)
  <2>1. IsList(code.blocks)
    BY <1>1, ConstantsType DEF Machines, IsMachine, Coros
  <2> QED BY <1>1, <2>1 DEF Types, IsList
<1>3. ASSUME NEW c \in Coros PROVE ran[c] \in Seq(DOMAIN body[c])
  <2>1. CASE ~(pc = "run" /\ cur = c)
    BY <2>1, <1>1 DEF Resting, Ran
  <2>2. CASE pc = "run" /\ cur = c
    <3>1. InRole(c, body[c], code.points[c], LocalsOf(c), role[blk])
      BY <2>2, <1>1 DEF RunRole
    <3>2. \E i : Ran(body[c], LocalsOf(c).ran, i)
      BY <3>1 DEF InRole
    <3> QED BY <3>2 DEF Ran, LocalsOf
  <2> QED BY <2>1, <2>2
<1> QED BY <1>1, <1>2, <1>3 DEF TypeOK, Types

\* What the invariant implies.
LEMMA EachStatementOnceHolds == ASSUME NEW role, Inv(role) PROVE EachStatementOnce
<1>1. Types /\ Resting /\ Machines(code, body, role)
  BY DEF Inv
<1> SUFFICES ASSUME NEW c \in Coros, ~(pc = "run" /\ cur = c)
             PROVE  /\ Range(ran[c]) = {i \in 1 .. Entry(c) - 1 : body[c][i][1] # "Yield"}
                    /\ \A m, n \in DOMAIN ran[c] : m < n => ran[c][m] < ran[c][n]
  BY DEF EachStatementOnce
<1>2. Ran(body[c], ran[c], Behind(c))
  BY <1>1 DEF Resting
<1>3. Behind(c) = Entry(c) - 1
  BY <1>1, WaitsIsIdle
<1>4. PICK e : e = Entry(c) - 1
  OBVIOUS
<1> QED BY <1>2, <1>3, <1>4 DEF Ran

\* ... of the ways out.
LEMMA VerdictHolds == ASSUME NEW role, Inv(role) PROVE ExitMeansDone /\ DeadlockIsReal
<1>1. Types /\ Machines(code, body, role) /\ Verdict
  BY DEF Inv
<1>2. \A c \in Coros : Waits(c) <=> Idle(c)
  BY <1>1, WaitsIsIdle
<1> QED BY <1>1, <1>2 DEF Verdict, ExitMeansDone, DeadlockIsReal

\* A turn is given at the place of the scan.
LEMMA TurnIsScan ==
    ASSUME NEW role, Inv(role), [Next]_vars, NEW c \in Coros, GetsTurn(c)
    PROVE  /\ Polls /\ c = Member(band, k) /\ Prioritised
           /\ band \in 1 .. Len(bands) /\ k \in 1 .. Size(band)
           /\ progress = 0 /\ AllSeen => \A d \in Coros : Passed(d) => Idle(d)
<1>1. Prioritised /\ pc = "check" /\ pc' = "run" /\ cur' = c
  BY DEF GetsTurn, Dispatch
<1>2. Scan
  BY <1>1 DEF Next, RunBlock, RoundRobin, LoopTop, Check, AfterPoll, LoopEnd, Reenter, Priority,
              PriorityTop, AfterPriorityPoll, PriorityEnd, vars
<1>3. Polls /\ c = Member(band, k)
  <2>1. ~Advance
    BY <1>1 DEF Advance
  <2> QED BY <1>1, <1>2, <2>1 DEF Scan, Dispatch
<1>4. Types /\ Machines(code, body, role) /\ Scanning /\ Quiet(role)
  BY DEF Inv
<1>5. band \in 1 .. Len(bands) /\ k \in 1 .. Size(band)
  BY <1>1, <1>4 DEF Scanning
<1>6. ASSUME progress = 0, AllSeen PROVE \A d \in Coros : Passed(d) => Idle(d)
  <2>1. Rested
    BY <1>1, <1>4, <1>6 DEF Quiet, Prioritised
  <2> QED BY <2>1, <1>4, WaitsIsIdle DEF Rested
<1> QED BY <1>1, <1>3, <1>5, <1>6

\* A coroutine gets its turn in a scan without progress: no lower band waits for one, nor does
\* another coroutine of its priority if it had the last one.
LEMMA TurnsAreFair ==
    ASSUME NEW role, Inv(role), [Next]_vars, NEW c \in Coros, GetsFreshTurn(c), MaxIsUnused
    PROVE  /\ \A d \in Coros : prio[d] < prio[c] => Idle(d)
           /\ k = last[band] => \A d \in Coros \ {c} : prio[d] = prio[c] => Idle(d)
<1>0. GetsTurn(c) /\ progress = 0 /\ AllSeen
  BY DEF GetsFreshTurn
<1>1. /\ Polls /\ c = Member(band, k) /\ Prioritised
      /\ band \in 1 .. Len(bands) /\ k \in 1 .. Size(band)
      /\ \A d \in Coros : Passed(d) => Idle(d)
  BY <1>0, TurnIsScan
<1>2. Sorted /\ sweep \in {0, 1} /\ last \in [1 .. N -> 0 .. N] /\ prio \in Priorities
  BY DEF Inv, Types
<1>n. N \in Nat /\ MaxPriority \in Nat /\ prio \in [Coros -> 0 .. NoPriority]
  BY <1>2, ConstantsType
<1>k. \A d \in Coros : Key(d) \in Nat
  BY <1>n DEF Key, NoPriority
<1>3. ASSUME NEW d \in Coros, prio[d] < prio[c] PROVE Idle(d)
  <2>0. Key(d) < Key(c)
    BY <1>3, <1>n, KeyOrders
  <2>1. PICK b \in 1 .. Len(bands) : \E i \in 1 .. Size(b) : Member(b, i) = d
    BY <1>2 DEF Sorted
  <2>2. PICK i \in 1 .. Size(b) : Member(b, i) = d
    BY <2>1
  <2>3. b # band
    <3>1. b = band => Key(Member(b, i)) = Key(Member(band, k))
      BY <1>1, <1>2 DEF Sorted
    <3> QED BY <3>1, <2>2, <1>1, <2>0, <1>k
  <2>4. ~(band < b)
    <3>1. band < b => Key(Member(band, k)) <= Key(Member(b, i))
      BY <1>1, <1>2 DEF Sorted
    <3> QED BY <3>1, <2>2, <1>1, <2>0, <1>k
  <2>5. b < band
    BY <2>3, <2>4, <1>1
  <2>6. Passed(d)
    BY <1>1, <2>2, <2>5 DEF Passed
  <2> QED BY <2>6, <1>1
<1>4. ASSUME k = last[band], NEW d \in Coros \ {c}, prio[d] = prio[c] PROVE Idle(d)
  <2>1. sweep = 1
    <3>1. last[band] \in Int /\ ~(last[band] < k)
      BY <1>1, <1>4
    <3> QED BY <3>1, <1>1, <1>2 DEF Polls
  <2>2. PICK b \in 1 .. Len(bands) : \E i \in 1 .. Size(b) : Member(b, i) = d
    BY <1>2 DEF Sorted
  <2>3. PICK i \in 1 .. Size(b) : Member(b, i) = d
    BY <2>2
  <2>4. b = band
    <3>0. /\ prio[Member(b, i)] = prio[Member(band, k)]
          /\ \A x, y \in 1 .. Len(bands) : \A m \in 1 .. Size(x), n \in 1 .. Size(y) :
                x < y => prio[Member(x, m)] # prio[Member(y, n)]
      BY <1>1, <1>2, <1>4, <2>3 DEF Sorted
    <3>1. ~(b < band)
      BY <3>0, <1>1
    <3>2. ~(band < b)
      BY <3>0, <1>1
    <3>3. b \in Int /\ band \in Int
      BY <1>1, <1>2 DEF Sorted
    <3> QED BY <3>1, <3>2, <3>3
  <2>5. i # k
    BY <1>1, <1>4, <2>3, <2>4
  <2>6. last[band] < i \/ i < k
    <3>1. i \in Int /\ k \in Int
      BY <2>3, <1>1
    <3> QED BY <3>1, <2>5, <1>4
  <2>7. Passed(d)
    BY <1>1, <2>1, <2>3, <2>4, <2>6 DEF Passed
  <2> QED BY <2>7, <1>1
<1> QED BY <1>3, <1>4

-----------------------------------------------------------------------------
(* The theorems.                                                            *)

\* The initial states have the invariant, by TransformMakes.
LEMMA InitIInv == Init => IInv
<1> SUFFICES ASSUME Init PROVE IInv
  OBVIOUS
<1>1. PICK r \in Regions : body = r.body /\ code = Transform(r.cfg)
  BY DEF Init
<1>2. Regioned(r)
  BY RegionAssumption DEF Regioned
<1>3. PICK role : Machines(Transform(r.cfg), r.body, role)
  BY <1>2, TransformMakes
<1>4. Machines(code, body, role)
  BY <1>1, <1>3
<1>5. Inv(role)
  BY <1>4, Initially
<1> QED BY <1>5 DEF IInv

\* Every step keeps it.
LEMMA StepIInv == IInv /\ [Next]_vars => IInv'
<1> SUFFICES ASSUME IInv, [Next]_vars PROVE IInv'
  OBVIOUS
<1>1. PICK role : Inv(role)
  BY DEF IInv
<1>2. (Inv(role))'
  BY <1>1, InvKeeps
<1> QED BY <1>2 DEF IInv

\* IInv is an invariant of the executors, for every region that the contract allows.
THEOREM Inductive == Spec => []IInv
BY InitIInv, StepIInv, PTL DEF Spec

\* Type correctness; a state that lib.rs sets is the number of a point or DONE.
THEOREM TypeCorrect == Spec => []TypeOK
<1>1. IInv => TypeOK
  BY TypeOKHolds DEF IInv
<1> QED BY <1>1, Inductive, PTL

\* The machines of lib.rs run their coroutines' statements, each once and in order, wherever the
\* transform moved them.
THEOREM SourceIsRun == Spec => []EachStatementOnce
<1>1. IInv => EachStatementOnce
  BY EachStatementOnceHolds DEF IInv
<1> QED BY <1>1, Inductive, PTL

\* finalize_region's exits are reached only when every coroutine is done.
THEOREM NobodyIsLeft == Spec => []ExitMeansDone
<1>1. IInv => ExitMeansDone
  BY VerdictHolds DEF IInv
<1> QED BY <1>1, Inductive, PTL

\* emit_deadlock is reached only when no coroutine that is left can ever run (for bodies that
\* AllSeen admits).
THEOREM ReportsAreTrue == Spec => []DeadlockIsReal
<1>1. IInv => DeadlockIsReal
  BY VerdictHolds DEF IInv
<1> QED BY <1>1, Inductive, PTL

\* build_priority_loop: lower priorities run first and none at all last, as long as u32::MAX
\* and None do not meet in a region whose bodies AllSeen admits.
THEOREM LowestBandFirst == Spec => StrictPriority
<1> DEFINE A == \A c \in Coros : GetsFreshTurn(c) /\ MaxIsUnused =>
                    \A d \in Coros : prio[d] < prio[c] => Idle(d)
<1>1. IInv /\ [Next]_vars => A
  <2> SUFFICES ASSUME IInv, [Next]_vars, NEW c \in Coros, GetsFreshTurn(c), MaxIsUnused
               PROVE  \A d \in Coros : prio[d] < prio[c] => Idle(d)
    OBVIOUS
  <2>1. PICK role : Inv(role)
    BY DEF IInv
  <2> QED BY <2>1, TurnsAreFair
<1>2. IInv /\ [Next]_vars => [A]_vars
  BY <1>1
<1> HIDE DEF A
<1>3. Spec => [][A]_vars
  BY <1>2, Inductive, PTL DEF Spec
<1> QED BY <1>3 DEF A, StrictPriority

\* build_priority_loop: equal priorities take turns, as long as u32::MAX and None do not meet
\* in a region whose bodies AllSeen admits.
THEOREM EqualsTakeTurns == Spec => TakesTurns
<1> DEFINE A == \A c \in Coros : GetsFreshTurn(c) /\ MaxIsUnused /\ k = last[band] =>
                    \A d \in Coros \ {c} : prio[d] = prio[c] => Idle(d)
<1>1. IInv /\ [Next]_vars => A
  <2> SUFFICES ASSUME IInv, [Next]_vars, NEW c \in Coros, GetsFreshTurn(c), MaxIsUnused, k = last[band]
               PROVE  \A d \in Coros \ {c} : prio[d] = prio[c] => Idle(d)
    OBVIOUS
  <2>1. PICK role : Inv(role)
    BY DEF IInv
  <2> QED BY <2>1, TurnsAreFair
<1>2. IInv /\ [Next]_vars => [A]_vars
  BY <1>1
<1> HIDE DEF A
<1>3. Spec => [][A]_vars
  BY <1>2, Inductive, PTL DEF Spec
<1> QED BY <1>3 DEF A, TakesTurns
=============================================================================
