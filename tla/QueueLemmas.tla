---------------------------- MODULE QueueLemmas ----------------------------
(***************************************************************************)
(* Facts about sequences, sets and their largest members that the proofs   *)
(* about the queues of krio-parallel, the Vecs of krio-fiber and           *)
(* krio-preempt and the CFGs of krio-stackless share, and induction over   *)
(* numbers, stated of sets: what the folds of Surgery are unfolded with.   *)
(***************************************************************************)
EXTENDS Integers, SequencesExt, FiniteSetsExt, SequenceTheorems, FiniteSetTheorems,
        WellFoundedInduction, TLAPS

-----------------------------------------------------------------------------
(* Queues. *)

\* What is in a sequence; VecDeque::is_empty in terms of it.
LEMMA SeqSet ==
    ASSUME NEW S, NEW s \in Seq(S)
    PROVE  /\ Len(s) \in Nat /\ DOMAIN s = 1 .. Len(s)
           /\ ToSet(s) \in SUBSET S
           /\ (ToSet(s) = {}) <=> (s = << >>)
           /\ (s # << >>) <=> (Len(s) > 0)
<1>1. Len(s) \in Nat /\ DOMAIN s = 1 .. Len(s) /\ s \in [1 .. Len(s) -> S]
  BY LenProperties
<1>2. ToSet(s) \in SUBSET S
  BY <1>1 DEF ToSet
<1>3. (s # << >>) <=> (Len(s) > 0)
  BY <1>1, EmptySeq
<1>4. (ToSet(s) = {}) <=> (s = << >>)
  <2>1. CASE s = << >>
    BY <2>1, <1>1, EmptySeq DEF ToSet
  <2>2. CASE s # << >>
    <3>1. 1 \in DOMAIN s  BY <2>2, <1>1, <1>3
    <3> QED BY <3>1, <2>2 DEF ToSet
  <2> QED BY <2>1, <2>2
<1> QED BY <1>1, <1>2, <1>3, <1>4

\* push_back of a job that is not in the queue: one more job, and still none twice.
LEMMA AppendSet ==
    ASSUME NEW S, NEW s \in Seq(S), NEW e \in S
    PROVE  /\ Append(s, e) \in Seq(S) /\ Len(Append(s, e)) = Len(s) + 1
           /\ ToSet(Append(s, e)) = ToSet(s) \cup {e}
           /\ IsInjective(s) /\ e \notin ToSet(s) => IsInjective(Append(s, e))
<1> DEFINE t == Append(s, e)
<1>1. Len(s) \in Nat /\ DOMAIN s = 1 .. Len(s)
  BY LenProperties
<1>2. /\ t \in Seq(S) /\ Len(t) = Len(s) + 1
      /\ \A i \in 1 .. Len(s) : t[i] = s[i]
      /\ t[Len(s) + 1] = e
  BY AppendProperties
<1>3. DOMAIN t = 1 .. Len(s) + 1
  BY <1>2, LenProperties
<1> HIDE DEF t
<1>4. \A i \in DOMAIN t : (i \in DOMAIN s /\ t[i] = s[i]) \/ (i = Len(s) + 1 /\ t[i] = e)
  BY <1>1, <1>2, <1>3
<1>5. DOMAIN s \subseteq DOMAIN t /\ Len(s) + 1 \in DOMAIN t
  BY <1>1, <1>3
<1>6. ToSet(t) = ToSet(s) \cup {e}
  BY <1>1, <1>2, <1>4, <1>5 DEF ToSet
<1>7. IsInjective(s) /\ e \notin ToSet(s) => IsInjective(t)
  BY <1>1, <1>2, <1>4, <1>5 DEF IsInjective, ToSet
<1> QED BY <1>2, <1>6, <1>7 DEF t

\* pop_front, and a steal: the oldest job leaves the queue, and nothing else.
LEMMA TailSet ==
    ASSUME NEW S, NEW s \in Seq(S), s # << >>
    PROVE  /\ Tail(s) \in Seq(S) /\ Len(Tail(s)) = Len(s) - 1
           /\ Head(s) \in S /\ Head(s) \in ToSet(s)
           /\ IsInjective(s) => /\ IsInjective(Tail(s))
                                /\ ToSet(Tail(s)) = ToSet(s) \ {Head(s)}
<1> DEFINE t == Tail(s)
<1>1. Len(s) \in Nat /\ Len(s) > 0 /\ DOMAIN s = 1 .. Len(s)
  BY SeqSet
<1>2. /\ t \in Seq(S) /\ Len(t) = Len(s) - 1
      /\ Head(s) \in S /\ Head(s) = s[1]
      /\ \A i \in 1 .. Len(t) : t[i] = s[i + 1]
  BY HeadTailProperties
<1>3. DOMAIN t = 1 .. Len(s) - 1
  BY <1>2, LenProperties
<1> HIDE DEF t
<1>4. Head(s) \in ToSet(s)
  BY <1>1, <1>2 DEF ToSet
<1>5. \A i \in DOMAIN t : i + 1 \in DOMAIN s /\ i + 1 # 1 /\ t[i] = s[i + 1]
  BY <1>1, <1>2, <1>3
<1>6. \A i \in DOMAIN s : i # 1 => i - 1 \in DOMAIN t /\ t[i - 1] = s[i]
  BY <1>1, <1>2, <1>3
<1>7. ASSUME IsInjective(s) PROVE IsInjective(t)
  <2> SUFFICES ASSUME NEW i \in DOMAIN t, NEW j \in DOMAIN t, t[i] = t[j] PROVE i = j
    BY DEF IsInjective
  <2>1. i + 1 = j + 1  BY <1>5, <1>7 DEF IsInjective
  <2> QED BY <2>1, <1>3, <1>1
<1>8. ASSUME IsInjective(s) PROVE ToSet(t) = ToSet(s) \ {Head(s)}
  <2>1. ASSUME NEW x \in ToSet(t) PROVE x \in ToSet(s) \ {Head(s)}
    <3>1. PICK i \in DOMAIN t : x = t[i]  BY DEF ToSet
    <3> QED BY <3>1, <1>1, <1>2, <1>5, <1>8 DEF ToSet, IsInjective
  <2>2. ASSUME NEW x \in ToSet(s) \ {Head(s)} PROVE x \in ToSet(t)
    <3>1. PICK i \in DOMAIN s : x = s[i]  BY DEF ToSet
    <3>2. i - 1 \in DOMAIN t /\ t[i - 1] = x  BY <3>1, <1>2, <1>6
    <3> QED BY <3>2 DEF ToSet
  <2> QED BY <2>1, <2>2
<1> QED BY <1>2, <1>4, <1>7, <1>8 DEF t

\* The owner's pop: the newest job leaves the queue, and nothing else.
LEMMA FrontSet ==
    ASSUME NEW S, NEW s \in Seq(S), s # << >>
    PROVE  /\ Front(s) \in Seq(S) /\ Len(Front(s)) = Len(s) - 1
           /\ Last(s) \in S /\ Last(s) \in ToSet(s)
           /\ IsInjective(s) => /\ IsInjective(Front(s))
                                /\ ToSet(Front(s)) = ToSet(s) \ {Last(s)}
<1> DEFINE t == SubSeq(s, 1, Len(s) - 1)
<1>1. Len(s) \in Nat /\ Len(s) > 0 /\ DOMAIN s = 1 .. Len(s) /\ \A i \in DOMAIN s : s[i] \in S
  BY SeqSet, ElementOfSeq
<1>2. /\ t \in Seq(S) /\ Len(t) = Len(s) - 1
      /\ \A i \in 1 .. Len(s) - 1 : t[i] = s[i]
  BY <1>1, SubSeqProperties
<1>3. DOMAIN t = 1 .. Len(s) - 1
  BY <1>2, LenProperties
<1> HIDE DEF t
<1>4. Last(s) \in S /\ Last(s) \in ToSet(s) /\ Last(s) = s[Len(s)] /\ Len(s) \in DOMAIN s
  BY <1>1 DEF ToSet, Last
<1>5. \A i \in DOMAIN t : i \in DOMAIN s /\ i # Len(s) /\ t[i] = s[i]
  BY <1>1, <1>2, <1>3
<1>6. \A i \in DOMAIN s : i # Len(s) => i \in DOMAIN t
  BY <1>1, <1>3
<1>7. IsInjective(s) => IsInjective(t)
  BY <1>5 DEF IsInjective
<1>8. ASSUME IsInjective(s) PROVE ToSet(t) = ToSet(s) \ {Last(s)}
  BY <1>4, <1>5, <1>6, <1>8 DEF ToSet, IsInjective
<1> QED BY <1>2, <1>4, <1>7, <1>8 DEF t, Front

-----------------------------------------------------------------------------
(* Sets. *)

\* A set without two different members.
LEMMA AtMostOne ==
    ASSUME NEW S, \A x, y \in S : x = y
    PROVE  Cardinality(S) = IF S = {} THEN 0 ELSE 1
<1>1. CASE S = {}
  BY <1>1, FS_EmptySet
<1>2. CASE S # {}
  <2>1. PICK x : x \in S  BY <1>2
  <2>2. S = {x}  BY <2>1
  <2> QED BY <2>2, <1>2, FS_Singleton
<1> QED BY <1>1, <1>2

\* A set of indices has a largest member: n minus the least of the n - x.
LEMMA HasMax ==
    ASSUME NEW n \in Nat, NEW T \in SUBSET (1 .. n), T # {}
    PROVE  \E x \in T : \A y \in T : x >= y
<1> DEFINE R == {p \in Nat \X Nat : p[1] < p[2]}
           U == {n - x : x \in T}
<1>t. \A x \in T : x \in Nat /\ n - x \in Nat /\ n - x \in U
  OBVIOUS
<1>u. \A z \in U : \E x \in T : z = n - x
  OBVIOUS
<1>1. IsWellFoundedOn(R, Nat)
  BY NatLessThanWellFounded DEF OpToRel
<1>r. \A x, y \in Nat : x < y => <<x, y>> \in R
  OBVIOUS
<1> HIDE DEF R, U
<1>2. U \subseteq Nat /\ U # {}
  BY <1>t, <1>u
<1>3. PICK z \in U : \A y \in U : <<y, z>> \notin R
  BY <1>1, <1>2, WFMin
<1>4. PICK x \in T : z = n - x
  BY <1>u
<1>5. \A y \in T : ~(n - y < z)
  BY <1>t, <1>r, <1>2, <1>3
<1> QED BY <1>t, <1>4, <1>5

\* Max finds it.
LEMMA MaxIs ==
    ASSUME NEW n \in Nat, NEW T \in SUBSET (1 .. n), T # {}
    PROVE  Max(T) \in T /\ \A y \in T : Max(T) >= y
BY HasMax DEF Max

\* A non-empty set of naturals has a least element: what proofs by induction over
\* positions and counters stand on, as < is well-founded on Nat.
LEMMA LeastNat ==
    ASSUME NEW T \in SUBSET Nat, T # {}
    PROVE  \E n \in T : \A m \in T : n <= m
<1>1. \E x \in T : \A y \in T : <<y, x>> \notin OpToRel(<, Nat)
  <2>1. IsWellFoundedOn(OpToRel(<, Nat), Nat)
    BY NatLessThanWellFounded, Zenon
  <2>2. PICK R : R = OpToRel(<, Nat)
    BY Zenon
  <2> QED BY <2>1, <2>2, WFMin, Zenon
<1>2. PICK x \in T : \A y \in T : <<y, x>> \notin OpToRel(<, Nat)
  BY <1>1, Zenon
<1>3. \A y \in T : ~(y < x)
  BY <1>2, Zenon DEF OpToRel
<1> QED BY <1>3

\* Induction over 0 .. n, for a property given as the set of numbers that have it.
LEMMA Upwards ==
    ASSUME NEW n \in Nat, NEW S, 0 \in S, \A i \in 0 .. n - 1 : i \in S => i + 1 \in S
    PROVE  \A i \in 0 .. n : i \in S
<1> SUFFICES ASSUME NEW j \in 0 .. n, j \notin S PROVE FALSE
  OBVIOUS
<1> DEFINE T == {i \in 0 .. n : i \notin S}
<1>1. T \in SUBSET Nat /\ T # {}
  OBVIOUS
<1>2. PICK m \in T : \A i \in T : m <= i
  BY <1>1, LeastNat
<1>3. m # 0 /\ m \in 0 .. n /\ m \notin S
  BY <1>2
<1>4. m - 1 \in 0 .. n - 1 /\ m - 1 \notin T
  BY <1>2, <1>3
<1> QED BY <1>3, <1>4

\* The order in which FoldLeft comes to the places of a sequence.
LEMMA MaxOfUpTo ==
    ASSUME NEW k \in Nat, NEW s \in SUBSET (1 .. k), k \in s PROVE Max(s) = k
<1>1. PICK x : x = Max(s)
  OBVIOUS
<1>2. \A y \in s : k >= y
  OBVIOUS
<1>3. x \in s /\ \A y \in s : x >= y
  BY <1>1, <1>2, Zenon DEF Max
<1>4. x = k
  BY <1>2, <1>3
<1> QED BY <1>1, <1>4

\* ... from the first i of them to one fewer.
LEMMA UpTo ==
    ASSUME NEW n \in Nat, NEW i \in 1 .. n
    PROVE  /\ 1 .. i # {} /\ (1 .. i) \ {i} = 1 .. i - 1 /\ 1 .. i \in SUBSET (1 .. n)
           /\ Max(1 .. i) = i
<1>1. i \in Nat /\ 1 .. i \in SUBSET (1 .. i) /\ i \in 1 .. i
  OBVIOUS
<1>2. Max(1 .. i) = i
  BY <1>1, MaxOfUpTo
<1>3. 1 .. i # {} /\ (1 .. i) \ {i} = 1 .. i - 1
  OBVIOUS
<1>4. 1 .. i \in SUBSET (1 .. n)
  OBVIOUS
<1> QED BY <1>2, <1>3, <1>4
=============================================================================
