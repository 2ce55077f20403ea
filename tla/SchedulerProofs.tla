--------------------------- MODULE SchedulerProofs --------------------------
(***************************************************************************)
(* Theorems about a thread that runs fibers, by hand and through a         *)
(* scheduler, for every number of fibers, places, mappings and sizes.      *)
(*                                                                         *)
(* First Stack and Fiber: an inductive invariant of the stacks, one of the *)
(* fibers and the calls of resume, and that every operation keeps them.    *)
(* Who owns a fiber between two resumes is known only one level up, so the *)
(* theorems are stated of the whole thread. Its inductive invariant adds   *)
(* whose fibers are in a call, which slots tick has marked, and who        *)
(* carries a slice.                                                        *)
(***************************************************************************)
EXTENDS Scheduler, QueueLemmas

-----------------------------------------------------------------------------
(* Stacks. *)

\* Every stack has one owner: a fiber, the pool, or nobody, and nobody's are unmapped.
StackInv ==
    /\ StackTypeOK
    /\ IsInjective(pool) /\ Len(pool) <= MaxParked
    /\ \A f, g \in Fibers : stack[f] # None /\ stack[f] = stack[g] => f = g
    /\ \A f \in Fibers : stack[f] \notin ToSet(pool)
    /\ \A m \in Maps : len[m] # 0 <=> m \in ToSet(pool) \/ \E f \in Fibers : stack[f] = m

\* The assumptions on the constants, in the form the provers use them.
LEMMA StackConstants ==
    /\ MinStack \in Nat /\ MinStack > 0 /\ Align \in Nat /\ Align > 0 /\ Page \in Nat /\ Page > 0
    /\ Requests \subseteq Nat /\ MaxParked \in Nat /\ None \notin Maps
BY StackAssumption

\* Rounding up loses nothing.
LEMMA RoundsUp ==
    ASSUME NEW n \in Nat, NEW unit \in Nat, unit > 0
    PROVE  RoundUp(n, unit) \in Nat /\ RoundUp(n, unit) >= n
<1> DEFINE x == n + unit - 1
           q == x \div unit
           r == x % unit
<1>1. x \in Nat /\ q \in Nat /\ r \in 0 .. unit - 1 /\ x = unit * q + r
  OBVIOUS
<1> HIDE DEF q, r
<1>2. unit * q >= n /\ unit * q \in Nat /\ q * unit = unit * q
  BY <1>1
<1> QED BY <1>2 DEF RoundUp, q

\* with_stack_size and usable_size: at least what was asked for, and never nothing.
LEMMA UsableIsEnough ==
    ASSUME NEW n \in Requests
    PROVE  UsableSize(n) \in Nat /\ UsableSize(n) >= n /\ UsableSize(n) > 0
<1> DEFINE m == Max({n, MinStack})
<1>1. m \in Nat /\ m >= n /\ m >= MinStack
  <2>1. n \in Nat  BY StackConstants
  <2>2. \E x \in {n, MinStack} : \A y \in {n, MinStack} : x >= y
    BY <2>1, StackConstants
  <2>3. m \in {n, MinStack} /\ \A y \in {n, MinStack} : m >= y
    BY <2>2 DEF Max
  <2> QED BY <2>1, <2>3, StackConstants
<1> HIDE DEF m
<1>2. RoundUp(m, Align) \in Nat /\ RoundUp(m, Align) >= m
  BY <1>1, RoundsUp, StackConstants
<1>3. RoundUp(RoundUp(m, Align), Page) \in Nat /\ RoundUp(RoundUp(m, Align), Page) >= RoundUp(m, Align)
  BY <1>2, RoundsUp, StackConstants
<1>4. n \in Nat  BY StackConstants
<1> QED BY <1>1, <1>2, <1>3, <1>4, StackConstants DEF UsableSize, m

\* Vec::swap_remove: the element in slot i leaves, and nothing else.
LEMMA SwapRemoves ==
    ASSUME NEW S, NEW s \in Seq(S), NEW i \in DOMAIN s
    PROVE  /\ SwapRemove(s, i) \in Seq(S) /\ Len(SwapRemove(s, i)) = Len(s) - 1
           /\ \A j \in DOMAIN s : /\ j \in DOMAIN SwapRemove(s, i) <=> j # Len(s)
                                  /\ j # Len(s) => SwapRemove(s, i)[j] = IF j = i THEN Last(s) ELSE s[j]
           /\ IsInjective(s) => /\ IsInjective(SwapRemove(s, i))
                                /\ ToSet(SwapRemove(s, i)) = ToSet(s) \ {s[i]}
<1> DEFINE l == Len(s)
           e == [s EXCEPT ![i] = Last(s)]
           t == SwapRemove(s, i)
<1>1. l \in Nat /\ DOMAIN s = 1 .. l /\ l > 0 /\ l \in DOMAIN s
  BY SeqSet
<1>2. e \in Seq(S) /\ Len(e) = l /\ \A j \in DOMAIN s : e[j] = IF j = i THEN s[l] ELSE s[j]
  <2>1. s[l] \in S  BY <1>1, ElementOfSeq
  <2> QED BY <2>1, <1>1, ExceptSeq DEF Last
<1>3. t = SubSeq(e, 1, l - 1)
  BY <1>2 DEF SwapRemove, Front
<1>4. t \in Seq(S) /\ Len(t) = l - 1 /\ DOMAIN t = 1 .. l - 1
      /\ \A j \in 1 .. l - 1 : t[j] = IF j = i THEN s[l] ELSE s[j]
  <2> HIDE DEF e, t, l
  <2>1. t \in Seq(S) /\ Len(t) = l - 1 /\ \A j \in 1 .. l - 1 : t[j] = e[j]
    BY <1>1, <1>2, <1>3, SubSeqProperties
  <2>2. DOMAIN t = 1 .. l - 1  BY <2>1, LenProperties
  <2> QED BY <2>1, <2>2, <1>1, <1>2
<1>5. Last(s) = s[l]
  BY DEF Last
<1> HIDE DEF e, t, l
<1>6. ASSUME IsInjective(s) PROVE IsInjective(t) /\ ToSet(t) = ToSet(s) \ {s[i]}
  <2>1. \A j \in DOMAIN t : (j = i /\ t[j] = s[l]) \/ (j # i /\ t[j] = s[j])
    BY <1>4
  <2>2. \A j \in DOMAIN t : j \in DOMAIN s /\ j # l
    BY <1>1, <1>4
  <2>3. \A j \in DOMAIN s : j # l => j \in DOMAIN t
    BY <1>1, <1>4
  <2>4. IsInjective(t)
    BY <1>6, <2>1, <2>2, <1>1 DEF IsInjective
  <2>5. \A j \in DOMAIN t : t[j] \in ToSet(s) /\ t[j] # s[i]
    BY <1>6, <2>1, <2>2, <1>1 DEF IsInjective, ToSet
  <2>6. ASSUME NEW j \in DOMAIN s, s[j] # s[i] PROVE s[j] \in ToSet(t)
    <3>1. CASE j # l
      <4>1. t[j] = s[j]  BY <3>1, <2>1, <2>3, <2>6
      <4> QED BY <4>1, <3>1, <2>3 DEF ToSet
    <3>2. CASE j = l
      <4>1. i # l  BY <3>2, <2>6
      <4>2. t[i] = s[j]  BY <3>2, <4>1, <2>1, <2>3
      <4> QED BY <4>1, <4>2, <2>3 DEF ToSet
    <3> QED BY <3>1, <3>2
  <2> QED BY <2>4, <2>5, <2>6 DEF ToSet
<1> QED BY <1>1, <1>4, <1>5, <1>6 DEF t, l

\* Stack::new takes a kept stack out of the pool or maps a new one; either is the
\* fiber's alone, and at least as big as it asked for.
LEMMA StackNewStep ==
    ASSUME StackInv, NEW f \in Fibers, stack[f] = None, NEW n \in Requests, StackNew(f, n)
    PROVE  /\ StackInv'
           /\ stack'[f] \in Maps /\ len'[stack'[f]] >= n
           /\ \A g \in Fibers : g # f => stack'[g] = stack[g]
<1> USE DEF StackInv, StackTypeOK
<1>c. None \notin Maps /\ MaxParked \in Nat
  BY StackConstants
<1>p. Len(pool) \in Nat /\ DOMAIN pool = 1 .. Len(pool)
  BY SeqSet
<1>u. UsableSize(n) \in Nat /\ UsableSize(n) >= n /\ UsableSize(n) > 0
  BY UsableIsEnough
<1>1. CASE Kept(n) # {}
  <2> DEFINE i == Max(Kept(n))
  <2>1. i \in DOMAIN pool /\ len[pool[i]] = UsableSize(n)
    <3>1. Kept(n) \subseteq 1 .. Len(pool)  BY <1>p DEF Kept
    <3>2. i \in Kept(n)  BY <3>1, <1>p, <1>1, MaxIs
    <3> QED BY <3>2 DEF Kept
  <2>2. /\ stack' = [stack EXCEPT ![f] = pool[i]] /\ pool' = SwapRemove(pool, i)
        /\ UNCHANGED <<len, alive>>
    BY <1>1 DEF StackNew
  <2> HIDE DEF i
  <2>3. /\ pool' \in Seq(Maps) /\ Len(pool') = Len(pool) - 1 /\ IsInjective(pool')
        /\ ToSet(pool') = ToSet(pool) \ {pool[i]}
    BY <2>1, <2>2, SwapRemoves
  <2>4. pool[i] \in Maps /\ pool[i] \in ToSet(pool)
    BY <2>1, <1>p, ElementOfSeq DEF ToSet
  <2>5. stack'[f] = pool[i] /\ \A g \in Fibers : g # f => stack'[g] = stack[g]
    BY <2>2
  <2>6. \A m \in Maps : len'[m] # 0 <=> m \in ToSet(pool') \/ \E g \in Fibers : stack'[g] = m
    <3> SUFFICES ASSUME NEW m \in Maps
                 PROVE  len'[m] # 0 <=> m \in ToSet(pool') \/ \E g \in Fibers : stack'[g] = m
      OBVIOUS
    <3>1. CASE m = pool[i]  BY <3>1, <2>1, <2>2, <2>5, <1>u
    <3>2. CASE m # pool[i]  BY <3>2, <2>2, <2>3, <2>5, <1>c
    <3> QED BY <3>1, <3>2
  <2>7. StackTypeOK'
    BY <2>2, <2>3, <2>4
  <2>0. \A g \in Fibers : stack[g] # pool[i]
    BY <2>4
  <2>8. /\ \A g, h \in Fibers : stack'[g] # None /\ stack'[g] = stack'[h] => g = h
        /\ \A g \in Fibers : stack'[g] \notin ToSet(pool')
    BY <2>0, <2>3, <2>5
  <2>9. Len(pool') <= MaxParked
    BY <2>3, <1>p, <1>c
  <2> QED BY <2>1, <2>2, <2>3, <2>4, <2>5, <2>6, <2>7, <2>8, <2>9, <1>u
<1>2. CASE Kept(n) = {}
  <2>1. PICK m \in Maps :
          /\ len[m] = 0 /\ stack' = [stack EXCEPT ![f] = m]
          /\ len' = [len EXCEPT ![m] = UsableSize(n)] /\ UNCHANGED <<pool, alive>>
    BY <1>2 DEF StackNew
  <2>2. m \notin ToSet(pool) /\ \A g \in Fibers : stack[g] # m
    BY <2>1
  <2>3. stack'[f] = m /\ \A g \in Fibers : g # f => stack'[g] = stack[g]
    BY <2>1
  <2>4. StackTypeOK'
    BY <2>1, <1>u
  <2>5. \A x \in Maps : len'[x] # 0 <=> x \in ToSet(pool') \/ \E g \in Fibers : stack'[g] = x
    <3> SUFFICES ASSUME NEW x \in Maps
                 PROVE  len'[x] # 0 <=> x \in ToSet(pool') \/ \E g \in Fibers : stack'[g] = x
      OBVIOUS
    <3>1. CASE x = m  BY <3>1, <2>1, <2>3, <1>u
    <3>2. CASE x # m  BY <3>2, <2>1, <2>3, <1>c
    <3> QED BY <3>1, <3>2
  <2>6. /\ \A g, h \in Fibers : stack'[g] # None /\ stack'[g] = stack'[h] => g = h
        /\ \A g \in Fibers : stack'[g] \notin ToSet(pool')
    BY <2>1, <2>2, <2>3
  <2> QED BY <2>1, <2>2, <2>3, <2>4, <2>5, <2>6, <1>u
<1> QED BY <1>1, <1>2

\* Drop keeps the stack or unmaps it; either way it is the fiber's no more.
LEMMA StackDropStep ==
    ASSUME StackInv, NEW f \in Fibers, stack[f] # None, StackDrop(f)
    PROVE  /\ StackInv'
           /\ stack'[f] = None
           /\ \A g \in Fibers : g # f => stack'[g] = stack[g]
<1> USE DEF StackInv, StackTypeOK
<1>c. None \notin Maps /\ MaxParked \in Nat
  BY StackConstants
<1>p. Len(pool) \in Nat
  BY SeqSet
<1>s. stack[f] \in Maps /\ stack[f] \notin ToSet(pool)
  OBVIOUS
<1>t. ToSet(pool) \subseteq Maps
  BY SeqSet
<1>1. stack' = [stack EXCEPT ![f] = None] /\ alive' = alive
  BY DEF StackDrop
<1>2. stack'[f] = None /\ \A g \in Fibers : g # f => stack'[g] = stack[g] /\ stack[g] # stack[f]
  BY <1>1, <1>s
<1>3. CASE alive /\ Len(pool) < MaxParked
  <2>1. pool' = Append(pool, stack[f]) /\ len' = len
    BY <1>3 DEF StackDrop
  <2>2. /\ pool' \in Seq(Maps) /\ Len(pool') = Len(pool) + 1 /\ IsInjective(pool')
        /\ ToSet(pool') = ToSet(pool) \cup {stack[f]}
    BY <2>1, <1>s, AppendSet
  <2>3. Len(pool') <= MaxParked
    BY <2>2, <1>3, <1>p, <1>c
  <2>4. ASSUME NEW m \in Maps
        PROVE  len'[m] # 0 <=> m \in ToSet(pool') \/ \E g \in Fibers : stack'[g] = m
    <3>1. CASE m = stack[f]  BY <3>1, <2>1, <2>2, <1>s
    <3>2. CASE m # stack[f]
      <4>1. len'[m] = len[m] /\ (m \in ToSet(pool') <=> m \in ToSet(pool))
        BY <3>2, <2>1, <2>2
      <4>2. \A g \in Fibers : stack'[g] = m <=> stack[g] = m
        BY <3>2, <1>2, <1>c
      <4> QED BY <4>1, <4>2
    <3> QED BY <3>1, <3>2
  <2>5. \A g \in Fibers : stack'[g] \notin ToSet(pool')
    BY <2>2, <1>2, <1>s, <1>t, <1>c
  <2> QED BY <1>1, <1>2, <2>1, <2>2, <2>3, <2>4, <2>5
<1>4. CASE ~(alive /\ Len(pool) < MaxParked)
  <2>1. len' = [len EXCEPT ![stack[f]] = 0] /\ pool' = pool
    BY <1>4 DEF StackDrop
  <2>2. ASSUME NEW m \in Maps
        PROVE  len'[m] # 0 <=> m \in ToSet(pool') \/ \E g \in Fibers : stack'[g] = m
    <3>1. CASE m = stack[f]
      <4>1. len'[m] = 0  BY <3>1, <2>1, <1>s
      <4>2. m \notin ToSet(pool')  BY <3>1, <2>1, <1>s
      <4>3. \A g \in Fibers : stack'[g] # m  BY <3>1, <1>2, <1>s, <1>c
      <4> QED BY <4>1, <4>2, <4>3
    <3>2. CASE m # stack[f]
      <4>1. len'[m] = len[m] /\ pool' = pool
        BY <3>2, <2>1
      <4>2. \A g \in Fibers : stack'[g] = m <=> stack[g] = m
        BY <3>2, <1>2, <1>c
      <4> QED BY <4>1, <4>2
    <3> QED BY <3>1, <3>2
  <2>3. ASSUME NEW g \in Fibers PROVE stack'[g] \notin ToSet(pool')
    <3>1. stack'[g] = None \/ stack'[g] = stack[g]  BY <1>2
    <3>2. None \notin ToSet(pool) /\ stack[g] \notin ToSet(pool)  BY <1>t, <1>c
    <3> QED BY <2>1, <3>1, <3>2
  <2> QED BY <1>1, <1>2, <2>1, <2>2, <2>3
<1> QED BY <1>3, <1>4

\* The destructor of POOL unmaps what the pool kept, and no fiber's stack.
LEMMA PoolDropStep ==
    ASSUME StackInv, PoolDrop
    PROVE  StackInv' /\ stack' = stack
<1> USE DEF StackInv, StackTypeOK
<1>1. /\ alive' = FALSE /\ pool' = << >> /\ stack' = stack
      /\ len' = [m \in Maps |-> IF Contains(pool, m) THEN 0 ELSE len[m]]
  BY DEF PoolDrop
<1>2. << >> \in Seq(Maps) /\ ToSet(<< >>) = {} /\ IsInjective(<< >>) /\ Len(<< >>) = 0
  <2>1. << >> \in Seq(Maps) /\ Len(<< >>) = 0  BY EmptySeq
  <2>2. ToSet(<< >>) = {}  BY <2>1, SeqSet
  <2>3. DOMAIN << >> = {}  BY <2>1, SeqSet
  <2> QED BY <2>1, <2>2, <2>3 DEF IsInjective
<1>3. \A m \in Maps : Contains(pool, m) <=> m \in ToSet(pool)
  <2>1. DOMAIN pool = 1 .. Len(pool)  BY SeqSet
  <2> QED BY <2>1 DEF Contains, ToSet
<1>4. \A m \in Maps : len'[m] # 0 <=> \E g \in Fibers : stack'[g] = m
  BY <1>1, <1>3
<1>5. StackTypeOK'
  BY <1>1, <1>2
<1>6. /\ IsInjective(pool') /\ Len(pool') <= MaxParked
      /\ \A f \in Fibers : stack'[f] \notin ToSet(pool')
      /\ \A m \in Maps : len'[m] # 0 <=> m \in ToSet(pool') \/ \E g \in Fibers : stack'[g] = m
  BY <1>1, <1>2, <1>4, StackConstants
<1> QED BY <1>1, <1>5, <1>6

\* MappedOnce counts the owners of a mapping: one if it is mapped, none if not.
LEMMA InvMapped == ASSUME StackInv PROVE MappedOnce
<1> USE DEF StackInv, StackTypeOK
<1> SUFFICES ASSUME NEW m \in Maps PROVE Holders(m) = IF len[m] = 0 THEN 0 ELSE 1
  BY DEF MappedOnce
<1> DEFINE F == {f \in Fibers : stack[f] = m}
           I == {i \in DOMAIN pool : pool[i] = m}
<1>1. /\ Cardinality(F) = IF F = {} THEN 0 ELSE 1
      /\ Cardinality(I) = IF I = {} THEN 0 ELSE 1
  <2>1. \A f, g \in F : f = g  BY StackConstants
  <2>2. \A i, j \in I : i = j  BY DEF IsInjective
  <2> HIDE DEF F, I
  <2> QED BY <2>1, <2>2, AtMostOne
<1>2. I # {} <=> m \in ToSet(pool)
  BY DEF ToSet
<1>3. F # {} <=> \E f \in Fibers : stack[f] = m
  OBVIOUS
<1>4. F = {} \/ I = {}
  BY <1>2
<1>5. Holders(m) = Cardinality(F) + Cardinality(I)
  BY DEF Holders
<1> HIDE DEF F, I
<1> QED BY <1>1, <1>2, <1>3, <1>4, <1>5

-----------------------------------------------------------------------------
(* The inductive invariant of the fibers. *)

\* The fiber of a call of resume, and the one that made the call.
Fib(i) == frames[i].fiber
Under(i) == IF i = 1 THEN Host ELSE Fib(i - 1)
PlaceOf(f) == IF f = Host THEN None ELSE place[f]

\* A fiber has a place of its own as long as it has a stack.
Homes ==
    /\ \A f \in Fibers : place[f] = None <=> stack[f] = None
    /\ \A f, g \in Fibers : place[f] # None /\ place[f] = place[g] => f = g
    /\ \A f \in Fibers : place[f] = None => at[f] = "new" /\ given[f] = None

\* A call of resume has rewired its fiber, which does not move before the call
\* returns; it has saved the thread-locals of the call below it; and no fiber is
\* resumed twice.
Calls ==
    /\ \A i \in DOMAIN frames :
        /\ place[Fib(i)] # None /\ wired[Fib(i)] = place[Fib(i)]
        /\ at[Fib(i)] = "body" \/ (i = Len(frames) /\ at[Fib(i)] = "yield_value")
        /\ frames[i].prevT = Under(i) /\ frames[i].prevF = PlaceOf(Under(i))
    /\ \A i, j \in DOMAIN frames : Fib(i) = Fib(j) => i = j

\* What was passed in for a yield_value waits in the fiber that runs.
GivenInv ==
    \A f \in Fibers : given[f] # None =>
        Running = f /\ at[f] = "yield_value" /\ mem[place[f]].input = given[f]

FiberInv == /\ FiberTypeOK /\ StackInv /\ Homes /\ Calls
            /\ ActiveIsRunning /\ FateIsRecorded /\ GivenInv

\* The assumptions on the constants, in the form the provers use them.
LEMMA FiberConstants ==
    /\ None \notin Values /\ None \notin Fibers /\ None \notin Places
    /\ MaxYields \in Nat
BY FiberAssumption

\* Who runs, and what the thread-locals and the back pointers say of it.
LEMMA RunningFacts ==
    ASSUME FiberInv
    PROVE  /\ Len(frames) \in Nat /\ DOMAIN frames = 1 .. Len(frames)
           /\ \A i \in DOMAIN frames : Fib(i) \in Fibers
           /\ frames = << >> <=> Running = Host
           /\ Running # Host =>
                /\ Len(frames) \in DOMAIN frames /\ Running = Fib(Len(frames))
                /\ Running \in Fibers /\ InCall(Running)
                /\ place[Running] \in Places /\ wired[Running] = place[Running]
                /\ activeT = Running /\ activeF = place[Running]
                /\ at[Running] \in {"body", "yield_value"}
           /\ \A f \in Fibers : InCall(f) =>
                place[f] \in Places /\ (f # Running => at[f] = "body")
           /\ \A f \in Fibers : given[f] # None => InCall(f)
<1>1. /\ frames \in Seq([fiber : Fibers, prevT : Fibers \cup {None}, prevF : Places \cup {None}])
      /\ place \in [Fibers -> Places \cup {None}]
  BY DEF FiberInv, FiberTypeOK
<1>2. /\ Len(frames) \in Nat /\ DOMAIN frames = 1 .. Len(frames)
      /\ (frames # << >>) <=> (Len(frames) > 0)
  BY <1>1, SeqSet
<1>3. \A i \in DOMAIN frames : Fib(i) \in Fibers
  <2> DEFINE R == [fiber : Fibers, prevT : Fibers \cup {None}, prevF : Places \cup {None}]
  <2>1. \A i \in DOMAIN frames : frames[i] \in R
    <3> HIDE DEF R
    <3>1. frames \in Seq(R)  BY <1>1 DEF R
    <3> QED BY <3>1, <1>2, ElementOfSeq
  <2> QED BY <2>1 DEF Fib
<1>4. frames # << >> => /\ Len(frames) \in DOMAIN frames /\ Running = Fib(Len(frames))
                        /\ Running \in Fibers /\ InCall(Running)
  BY <1>2, <1>3 DEF Running, Last, Fib, InCall
<1>5. frames = << >> <=> Running = Host
  BY <1>4, FiberConstants DEF Running, Host
<1>6. \A f \in Fibers : InCall(f) =>
        /\ place[f] \in Places /\ wired[f] = place[f]
        /\ at[f] \in {"body", "yield_value"}
        /\ (f # Running => at[f] = "body")
  <2> SUFFICES ASSUME NEW f \in Fibers, NEW i \in DOMAIN frames, Fib(i) = f
               PROVE  /\ place[f] \in Places /\ wired[f] = place[f]
                      /\ at[f] \in {"body", "yield_value"}
                      /\ (f # Running => at[f] = "body")
    BY DEF InCall, Fib
  <2>1. frames # << >>  BY <1>2
  <2> QED BY <2>1, <1>1, <1>4 DEF FiberInv, Calls
<1>7. \A f \in Fibers : given[f] # None => InCall(f)
  BY <1>4, <1>5, FiberConstants DEF FiberInv, GivenInv, Host
<1>8. Running # Host => activeT = Running /\ activeF = place[Running]
  BY DEF FiberInv, ActiveIsRunning
<1> QED BY <1>2, <1>3, <1>4, <1>5, <1>6, <1>7, <1>8

\* A step that makes no call and ends none, and leaves the fibers in a call alone.
LEMMA Undisturbed ==
    ASSUME FiberInv, FiberTypeOK', StackInv', Homes', FateIsRecorded',
           UNCHANGED <<activeT, activeF, frames>>,
           \A f \in Fibers :
               IF InCall(f) THEN /\ place'[f] = place[f] /\ wired'[f] = wired[f]
                                 /\ at'[f] = at[f] /\ given'[f] = given[f]
                                 /\ mem'[place[f]].input = mem[place[f]].input
               ELSE given'[f] = None
    PROVE  FiberInv'
<1>1. \A i \in DOMAIN frames : Fib(i) \in Fibers /\ InCall(Fib(i)) /\ Fib(i)' = Fib(i)
  BY RunningFacts DEF InCall, Fib
<1>2. DOMAIN frames = 1 .. Len(frames) /\ Len(frames) \in Nat
  BY RunningFacts
<1>3. \A i \in DOMAIN frames : /\ Under(i)' = Under(i)
                               /\ PlaceOf(Under(i))' = PlaceOf(Under(i))
  <2> SUFFICES ASSUME NEW i \in DOMAIN frames
               PROVE  Under(i)' = Under(i) /\ PlaceOf(Under(i))' = PlaceOf(Under(i))
    OBVIOUS
  <2>1. CASE i = 1  BY <2>1 DEF Under, PlaceOf, Host
  <2>2. CASE i # 1
    <3>1. i - 1 \in DOMAIN frames  BY <2>2, <1>2
    <3> QED BY <3>1, <2>2, <1>1 DEF Under, PlaceOf, Host
  <2> QED BY <2>1, <2>2
<1>4. Calls'
  BY <1>1, <1>3 DEF FiberInv, Calls
<1>5. Running' = Running
  BY DEF Running, Host
<1>6. ActiveIsRunning'
  BY <1>5, RunningFacts DEF FiberInv, ActiveIsRunning, Host
<1>7. GivenInv'
  <2> SUFFICES ASSUME NEW f \in Fibers, given'[f] # None
               PROVE  Running' = f /\ at'[f] = "yield_value" /\ mem'[place'[f]].input = given'[f]
    BY DEF GivenInv
  <2>1. InCall(f)  OBVIOUS
  <2> QED BY <2>1, <1>5 DEF FiberInv, GivenInv
<1> QED BY <1>4, <1>6, <1>7 DEF FiberInv

-----------------------------------------------------------------------------
(* What is done to fibers that are not in a call: they are made, dropped, moved *)
(* and looked at.                                                               *)

\* The type invariant, one conjunct less: the stacks have an invariant of their own.
LEMMA TypeFacts ==
    ASSUME FiberInv
    PROVE  /\ mem \in [Places -> Fields]
           /\ place \in [Fibers -> Places \cup {None}]
           /\ wired \in [Fibers -> Places \cup {None}]
           /\ at \in [Fibers -> {"new", "body", "yield_now", "yield_value", "returned", "panicked"}]
           /\ ptr \in [Fibers -> Places \cup {None}]
           /\ \A f \in Fibers : at[f] = "yield_value" => ptr[f] \in Places
           /\ given \in [Fibers -> Values \cup {None}]
           /\ yields \in 0 .. MaxYields
           /\ stack \in [Fibers -> Maps \cup {None}]
BY DEF FiberInv, FiberTypeOK, StackTypeOK

\* What is left behind at a place is a Fiber's fields.
LEMMA LeftBehindType ==
    ASSUME mem \in [Places -> Fields], NEW p \in Places
    PROVE  LeftBehind(p) \in Fields
BY DEF LeftBehind, Fresh, Fields

\* Fiber::new.
LEMMA NewStep ==
    ASSUME FiberInv, NEW f \in Fibers, NEW p \in Places, NEW n \in Requests, New(f, p, n)
    PROVE  /\ FiberInv'
           /\ place[f] = None /\ stack[f] = None /\ place'[f] = p /\ mem'[p] = Fresh
           /\ \A g \in Fibers : /\ g # f => place'[g] = place[g]
                                /\ g # f /\ place[g] # None => mem'[place[g]] = mem[place[g]]
           /\ len'[stack'[f]] >= n
           /\ frames' = frames
<1>1. /\ place[f] = None /\ Vacant(p) /\ StackNew(f, n)
      /\ mem' = [mem EXCEPT ![p] = Fresh] /\ place' = [place EXCEPT ![f] = p]
      /\ UNCHANGED <<wired, activeT, activeF, frames, at, ptr, given, yields>>
  BY DEF New
<1>2. stack[f] = None /\ at[f] = "new" /\ given[f] = None /\ ~InCall(f)
  BY <1>1, RunningFacts, FiberConstants DEF FiberInv, Homes
<1>3. /\ StackInv' /\ stack'[f] \in Maps /\ len'[stack'[f]] >= n
      /\ \A g \in Fibers : g # f => stack'[g] = stack[g]
  BY <1>1, <1>2, StackNewStep DEF FiberInv
<1>4. Fresh \in Fields
  BY DEF Fresh, Fields
<1>5. place'[f] = p /\ mem'[p] = Fresh
      /\ \A g \in Fibers : /\ g # f => place'[g] = place[g]
                           /\ place[g] # p
                           /\ g # f /\ place[g] # None => mem'[place[g]] = mem[place[g]]
  BY <1>1, TypeFacts DEF Vacant
<1>6. FiberTypeOK'
  BY <1>1, <1>3, <1>4, TypeFacts DEF FiberInv, FiberTypeOK, StackInv
<1>7. Homes'
  BY <1>1, <1>2, <1>3, <1>5, FiberConstants, StackConstants DEF FiberInv, Homes
<1>8. FateIsRecorded'
  <2> SUFFICES ASSUME NEW g \in Fibers, place'[g] # None
               PROVE  /\ mem'[place'[g]].done = (at'[g] \in {"returned", "panicked"})
                      /\ mem'[place'[g]].errored = (at'[g] = "panicked")
    BY DEF FateIsRecorded
  <2>1. CASE g = f
    <3>1. mem'[place'[g]] = Fresh /\ at'[g] = "new"  BY <2>1, <1>1, <1>2, <1>5
    <3>2. Fresh.done = FALSE /\ Fresh.errored = FALSE  BY DEF Fresh
    <3>3. (at'[g] \in {"returned", "panicked"}) = FALSE /\ (at'[g] = "panicked") = FALSE
      BY <3>1
    <3> QED BY <3>1, <3>2, <3>3
  <2>2. CASE g # f  BY <2>2, <1>1, <1>5 DEF FiberInv, FateIsRecorded
  <2> QED BY <2>1, <2>2
<1>9. \A g \in Fibers : /\ given'[g] = given[g] /\ at'[g] = at[g] /\ wired'[g] = wired[g]
                        /\ ~InCall(g) => given[g] = None
                        /\ InCall(g) => g # f /\ place[g] # None
  BY <1>1, <1>2, RunningFacts, FiberConstants
<1>10. FiberInv'
  BY <1>1, <1>3, <1>5, <1>6, <1>7, <1>8, <1>9, Undisturbed
<1> QED BY <1>1, <1>2, <1>3, <1>5, <1>10

\* Every fiber but those of D keeps its place or moves to one of its own, those in a
\* call stay where they are, and each takes its fields along.
Carried(D) ==
    /\ place' \in [Fibers -> Places \cup {None}]
    /\ mem' \in [Places -> Fields]
    /\ \A g \in Fibers \ D : /\ place'[g] = None <=> place[g] = None
                             /\ InCall(g) => place'[g] = place[g]
                             /\ place[g] # None => mem'[place'[g]] = mem[place[g]]
    /\ \A g, h \in Fibers \ D : place'[g] # None /\ place'[g] = place'[h] => g = h

\* A fiber is forgotten, and the others are where they were or have moved.
LEMMA ForgetStep ==
    ASSUME FiberInv, NEW f \in Fibers, place[f] # None, ~InCall(f), Forget(f),
           Carried({f}), place'[f] = None,
           UNCHANGED <<activeT, activeF, frames, yields>>
    PROVE  FiberInv'
<1>1. /\ StackDrop(f) /\ wired' = [wired EXCEPT ![f] = None] /\ at' = [at EXCEPT ![f] = "new"]
      /\ ptr' = [ptr EXCEPT ![f] = None] /\ given' = [given EXCEPT ![f] = None]
  BY DEF Forget
<1>2. /\ StackInv' /\ stack'[f] = None
      /\ \A g \in Fibers : g # f => stack'[g] = stack[g]
  <2>1. stack[f] # None  BY DEF FiberInv, Homes
  <2> QED BY <1>1, <2>1, StackDropStep DEF FiberInv
<1>3. /\ wired'[f] = None /\ at'[f] = "new" /\ given'[f] = None
      /\ \A g \in Fibers : g # f => wired'[g] = wired[g] /\ at'[g] = at[g] /\ given'[g] = given[g]
  BY <1>1, TypeFacts
<1>4. FiberTypeOK'
  <2>1. StackTypeOK'  BY <1>2 DEF StackInv
  <2>2. \A g \in Fibers : at'[g] = "yield_value" => ptr'[g] \in Places
    BY <1>1, <1>3, TypeFacts
  <2>3. /\ wired' \in [Fibers -> Places \cup {None}]
        /\ at' \in [Fibers -> {"new", "body", "yield_now", "yield_value", "returned", "panicked"}]
        /\ ptr' \in [Fibers -> Places \cup {None}]
        /\ given' \in [Fibers -> Values \cup {None}]
    BY <1>1, TypeFacts
  <2> QED BY <2>1, <2>2, <2>3 DEF FiberInv, FiberTypeOK, Carried
<1>5. Homes'
  BY <1>2, <1>3 DEF FiberInv, Homes, Carried
<1>6. FateIsRecorded'
  BY <1>3 DEF FiberInv, FateIsRecorded, Carried
<1>7. \A g \in Fibers : /\ InCall(g) => g # f /\ place[g] # None
                        /\ ~InCall(g) => given[g] = None
  BY RunningFacts, FiberConstants
<1> QED BY <1>2, <1>3, <1>4, <1>5, <1>6, <1>7, Undisturbed DEF Carried

\* Fibers move, and nothing else happens.
LEMMA MoveStep ==
    ASSUME FiberInv, Carried({}),
           UNCHANGED <<wired, activeT, activeF, frames, at, ptr, given, yields, stackVars>>
    PROVE  FiberInv'
<1>1. StackInv' /\ stack' = stack
  BY DEF FiberInv, StackInv, StackTypeOK, stackVars
<1>2. FiberTypeOK'
  BY <1>1 DEF FiberInv, FiberTypeOK, StackInv, Carried
<1>3. Homes'
  BY <1>1 DEF FiberInv, Homes, Carried
<1>4. FateIsRecorded'
  BY DEF FiberInv, FateIsRecorded, Carried
<1>5. \A g \in Fibers : /\ InCall(g) => place[g] # None
                        /\ ~InCall(g) => given[g] = None
  BY RunningFacts, FiberConstants
<1> QED BY <1>1, <1>2, <1>3, <1>4, <1>5, Undisturbed DEF Carried

\* Drop: the bits that are left behind are nobody's.
LEMMA DropStep ==
    ASSUME FiberInv, NEW f \in Fibers, place[f] # None, ~InCall(f), Drop(f)
    PROVE  /\ FiberInv' /\ place'[f] = None
           /\ \A g \in Fibers : /\ g # f => place'[g] = place[g]
                                /\ g # f /\ place[g] # None => mem'[place[g]] = mem[place[g]]
           /\ frames' = frames
<1>1. /\ Forget(f) /\ place' = [place EXCEPT ![f] = None]
      /\ mem' = [mem EXCEPT ![place[f]] = LeftBehind(place[f])]
      /\ UNCHANGED <<activeT, activeF, frames, yields>>
  BY DEF Drop
<1>2. /\ place'[f] = None
      /\ \A g \in Fibers : /\ g # f => place'[g] = place[g]
                           /\ g # f /\ place[g] # None => mem'[place[g]] = mem[place[g]]
  BY <1>1, TypeFacts DEF FiberInv, Homes
<1>3. mem' \in [Places -> Fields] /\ place' \in [Fibers -> Places \cup {None}]
  BY <1>1, TypeFacts, LeftBehindType
<1>4. \A g, h \in Fibers : place[g] # None /\ place[g] = place[h] => g = h
  BY DEF FiberInv, Homes
<1>5. Carried({f})
  BY <1>2, <1>3, <1>4 DEF Carried
<1> QED BY <1>1, <1>2, <1>5, ForgetStep

\* A Rust move.
LEMMA MovesOn ==
    ASSUME FiberInv, NEW f \in Fibers, NEW p \in Places, place[f] # None, ~InCall(f), Move(f, p)
    PROVE  /\ FiberInv' /\ place'[f] = p /\ mem'[p] = mem[place[f]]
           /\ \A g \in Fibers : /\ g # f => place'[g] = place[g]
                                /\ g # f /\ place[g] # None => mem'[place[g]] = mem[place[g]]
           /\ frames' = frames
<1>1. /\ Vacant(p)
      /\ UNCHANGED <<wired, activeT, activeF, frames, at, ptr, given, yields, stackVars>>
      /\ mem' = [mem EXCEPT ![p] = mem[place[f]], ![place[f]] = LeftBehind(place[f])]
      /\ place' = [place EXCEPT ![f] = p]
  BY DEF Move
<1>2. p # place[f] /\ place[f] \in Places /\ p # None /\ \A g \in Fibers : place[g] # p
  BY <1>1, TypeFacts, FiberConstants DEF Vacant
<1>3. \A q \in Places : mem'[q] = IF q = place[f] THEN LeftBehind(q) ELSE IF q = p THEN mem[place[f]] ELSE mem[q]
  BY <1>1, <1>2, TypeFacts
<1>4. /\ place'[f] = p /\ mem'[p] = mem[place[f]]
      /\ \A g \in Fibers : /\ g # f => place'[g] = place[g]
                           /\ g # f /\ place[g] # None => mem'[place[g]] = mem[place[g]]
  BY <1>1, <1>2, <1>3, TypeFacts DEF FiberInv, Homes
<1>5. mem' \in [Places -> Fields] /\ place' \in [Fibers -> Places \cup {None}]
  BY <1>1, <1>2, TypeFacts, LeftBehindType
<1>6. \A g, h \in Fibers : place[g] # None /\ place[g] = place[h] => g = h
  BY DEF FiberInv, Homes
<1>7. Carried({})
  BY <1>2, <1>4, <1>5, <1>6 DEF Carried
<1> QED BY <1>1, <1>4, <1>7, MoveStep

\* One field that says nothing of the closure's fate is assigned between two resumes.
LEMMA AssignStep ==
    ASSUME FiberInv, NEW f \in Fibers, place[f] # None, ~InCall(f), NEW new \in Fields,
           Assign(f, new), new.done = mem[place[f]].done, new.errored = mem[place[f]].errored
    PROVE  /\ FiberInv' /\ place' = place /\ frames' = frames
           /\ mem'[place[f]] = new
           /\ \A g \in Fibers : g # f /\ place[g] # None => mem'[place[g]] = mem[place[g]]
<1>1. /\ mem' = [mem EXCEPT ![place[f]] = new]
      /\ UNCHANGED <<place, wired, activeT, activeF, frames, at, ptr, given, yields, stackVars>>
  BY DEF Assign
<1>2. /\ mem'[place[f]] = new
      /\ \A g \in Fibers : g # f /\ place[g] # None => mem'[place[g]] = mem[place[g]]
  BY <1>1, TypeFacts DEF FiberInv, Homes
<1>3. StackInv' /\ stack' = stack
  BY <1>1 DEF FiberInv, StackInv, StackTypeOK, stackVars
<1>4. FiberTypeOK'
  <2>1. mem' \in [Places -> Fields]  BY <1>1, TypeFacts
  <2> QED BY <2>1, <1>1, <1>3 DEF FiberInv, FiberTypeOK, StackInv
<1>5. Homes'
  BY <1>1, <1>3 DEF FiberInv, Homes
<1>6. FateIsRecorded'
  <2>1. \A g \in Fibers : place[g] # None => /\ mem'[place[g]].done = mem[place[g]].done
                                             /\ mem'[place[g]].errored = mem[place[g]].errored
    BY <1>2
  <2> QED BY <2>1, <1>1 DEF FiberInv, FateIsRecorded
<1>7. \A g \in Fibers : /\ InCall(g) => g # f /\ place[g] # None
                        /\ ~InCall(g) => given[g] = None
  BY RunningFacts, FiberConstants
<1> QED BY <1>1, <1>2, <1>3, <1>4, <1>5, <1>6, <1>7, Undisturbed

\* Thread exit: the pool goes, the fibers and the calls stay.
LEMMA ExitStep ==
    ASSUME FiberInv, PoolDrop,
           UNCHANGED <<mem, place, wired, activeT, activeF, frames, at, ptr, given, yields>>
    PROVE  FiberInv'
<1>1. StackInv' /\ stack' = stack
  BY PoolDropStep DEF FiberInv
<1>2. FiberTypeOK'
  BY <1>1 DEF FiberInv, FiberTypeOK, StackInv
<1>3. Homes' /\ FateIsRecorded'
  BY <1>1 DEF FiberInv, Homes, FateIsRecorded
<1>4. \A g \in Fibers : ~InCall(g) => given[g] = None
  BY RunningFacts
<1> QED BY <1>1, <1>2, <1>3, <1>4, Undisturbed

-----------------------------------------------------------------------------
(* resume, and the switch back into it. *)

\* A fiber is resumed from the code that runs: it runs, and the others are as before.
LEMMA ResumeStep ==
    ASSUME FiberInv, NEW f \in Fibers, place[f] # None, ~InCall(f), InBody,
           NEW v \in Values \cup {None}, NEW sliced \in BOOLEAN, Resume(f, v, sliced)
    PROVE  /\ FiberInv' /\ place' = place
           /\ ~mem[place[f]].done /\ ~mem'[place[f]].done /\ mem'[place[f]].slice = sliced
           /\ \A g \in Fibers : g # f /\ place[g] # None => mem'[place[g]] = mem[place[g]]
           /\ Len(frames') = Len(frames) + 1
           /\ \A i \in DOMAIN frames : Fib(i)' = Fib(i)
           /\ frames'[Len(frames) + 1].fiber = f
           /\ Running' = f
<1> DEFINE new == [fiber |-> f, prevT |-> activeT, prevF |-> activeF]
           R == [fiber : Fibers, prevT : Fibers \cup {None}, prevF : Places \cup {None}]
<1>l. PICK l \in Nat : l = Len(frames)
  BY RunningFacts
<1>1. /\ ~mem[place[f]].done
      /\ mem' = [mem EXCEPT ![place[f]].input = IF v = None THEN @ ELSE v,
                            ![place[f]].slice = sliced]
      /\ given' = [given EXCEPT ![f] = IF at[f] = "yield_value" THEN v ELSE None]
      /\ wired' = [wired EXCEPT ![f] = place[f]]
      /\ frames' = Append(frames, new)
      /\ activeT' = f /\ activeF' = place[f]
      /\ at' = [at EXCEPT ![f] = IF @ = "yield_value" THEN @ ELSE "body"]
      /\ UNCHANGED <<place, ptr, yields, stackVars>>
  BY DEF Resume, Rewire
<1>2. /\ activeT \in Fibers \cup {None} /\ activeF \in Places \cup {None} /\ frames \in Seq(R)
      /\ place[f] \in Places
  BY TypeFacts DEF FiberInv, FiberTypeOK
<1>3. new \in R /\ new.fiber = f /\ new.prevT = activeT /\ new.prevF = activeF
  BY <1>2
<1>4. /\ frames' \in Seq(R) /\ Len(frames') = l + 1
      /\ \A i \in 1 .. l : frames'[i] = frames[i]
      /\ frames'[l + 1] = new
      /\ DOMAIN frames' = 1 .. l + 1 /\ l \in Nat /\ DOMAIN frames = 1 .. l
  <2> HIDE DEF new, R
  <2>1. /\ frames' \in Seq(R) /\ Len(frames') = l + 1
        /\ \A i \in 1 .. l : frames'[i] = frames[i]
        /\ frames'[l + 1] = new
    BY <1>1, <1>2, <1>3, <1>l, AppendProperties
  <2>2. DOMAIN frames' = 1 .. l + 1 /\ l \in Nat /\ DOMAIN frames = 1 .. l
    BY <2>1, <1>l, LenProperties, RunningFacts
  <2> QED BY <2>1, <2>2
<1>5. /\ \A i \in DOMAIN frames : Fib(i)' = Fib(i) /\ Fib(i) # f /\ Fib(i) \in Fibers
      /\ Fib(l + 1)' = f
  <2>1. \A i \in DOMAIN frames : Fib(i)' = Fib(i)
    BY <1>4 DEF Fib
  <2>2. \A i \in DOMAIN frames : Fib(i) # f /\ Fib(i) \in Fibers
    BY RunningFacts DEF InCall, Fib
  <2>3. Fib(l + 1)' = f
    BY <1>3, <1>4 DEF Fib
  <2> QED BY <2>1, <2>2, <2>3
<1>6. Running' = f
  <2>1. frames' # << >>
    BY <1>4, EmptySeq
  <2>2. Last(frames') = new
    BY <1>4 DEF Last
  <2> QED BY <2>1, <2>2, <1>3 DEF Running
<1> HIDE DEF new
<1>7. /\ \A g \in Fibers : /\ g # f => wired'[g] = wired[g] /\ at'[g] = at[g] /\ given'[g] = given[g]
                           /\ g # f /\ place[g] # None => mem'[place[g]] = mem[place[g]]
      /\ wired'[f] = place[f]
      /\ at'[f] = IF at[f] = "yield_value" THEN at[f] ELSE "body"
      /\ given'[f] = IF at[f] = "yield_value" THEN v ELSE None
  BY <1>1, TypeFacts DEF FiberInv, Homes
<1>8. /\ mem' \in [Places -> Fields]
      /\ mem'[place[f]].done = mem[place[f]].done
      /\ mem'[place[f]].errored = mem[place[f]].errored
      /\ mem'[place[f]].slice = sliced
      /\ v # None => mem'[place[f]].input = v
  <2>1. mem[place[f]] \in Fields
    BY <1>2, TypeFacts
  <2>2. mem' = [mem EXCEPT ![place[f]] = [mem[place[f]] EXCEPT !.input = IF v = None THEN @ ELSE v,
                                                               !.slice = sliced]]
    BY <1>1, <1>2, <2>1, TypeFacts
  <2> DEFINE r == [mem[place[f]] EXCEPT !.input = IF v = None THEN @ ELSE v, !.slice = sliced]
  <2>3. /\ r \in Fields /\ r.done = mem[place[f]].done /\ r.errored = mem[place[f]].errored
        /\ r.slice = sliced /\ (v # None => r.input = v)
    BY <2>1 DEF Fields
  <2>4. mem' = [mem EXCEPT ![place[f]] = r]
    BY <2>2
  <2> HIDE DEF r
  <2>5. mem'[place[f]] = r /\ mem' \in [Places -> Fields]
    BY <2>3, <2>4, <1>2, TypeFacts
  <2> QED BY <2>3, <2>5
<1>9. StackInv' /\ stack' = stack
  BY <1>1 DEF FiberInv, StackInv, StackTypeOK, stackVars
<1>10. FiberTypeOK'
  <2>1. /\ wired' \in [Fibers -> Places \cup {None}]
        /\ at' \in [Fibers -> {"new", "body", "yield_now", "yield_value", "returned", "panicked"}]
        /\ given' \in [Fibers -> Values \cup {None}]
    BY <1>1, <1>2, TypeFacts
  <2>2. \A g \in Fibers : at'[g] = "yield_value" => ptr'[g] \in Places
    BY <1>1, <1>7, TypeFacts
  <2> QED BY <2>1, <2>2, <1>1, <1>2, <1>4, <1>8, <1>9 DEF FiberInv, FiberTypeOK, StackInv
<1>11. Homes'
  BY <1>1, <1>7, <1>9 DEF FiberInv, Homes
<1>12. Calls'
  <2>1. \A i \in DOMAIN frames : i \in 1 .. l /\ frames'[i] = frames[i] /\ i # Len(frames')
    BY <1>4
  <2>2. \A i \in DOMAIN frames : at[Fib(i)] = "body"
    <3>1. \A i \in DOMAIN frames : at[Fib(i)] # "body" => Running # Host /\ Fib(i) = Running
      BY RunningFacts DEF FiberInv, Calls
    <3> QED BY <3>1 DEF InBody
  <2>3. ASSUME NEW i \in DOMAIN frames
        PROVE  Under(i)' = Under(i) /\ PlaceOf(Under(i))' = PlaceOf(Under(i))
    <3>1. CASE i = 1  BY <3>1 DEF Under, PlaceOf, Host
    <3>2. CASE i # 1
      <4>1. i - 1 \in DOMAIN frames  BY <3>2, <1>4
      <4> QED BY <4>1, <3>2, <1>1, <1>5 DEF Under, PlaceOf, Host
    <3> QED BY <3>1, <3>2
  <2>4. \A i \in DOMAIN frames :
          /\ place'[Fib(i)'] # None /\ wired'[Fib(i)'] = place'[Fib(i)']
          /\ at'[Fib(i)'] = "body"
          /\ frames'[i].prevT = Under(i)' /\ frames'[i].prevF = PlaceOf(Under(i))'
    BY <1>1, <1>5, <1>7, <2>1, <2>2, <2>3 DEF FiberInv, Calls
  <2>5. /\ Under(l + 1)' = Running
        /\ PlaceOf(Under(l + 1))' = IF Running = Host THEN None ELSE place[Running]
    <3>1. l = 0 <=> Running = Host
      BY <1>4, <1>l, RunningFacts, EmptySeq
    <3>2. l # 0 => Running = Fib(l) /\ l \in DOMAIN frames /\ l + 1 # 1 /\ (l + 1) - 1 = l
      BY <3>1, <1>4, <1>l, RunningFacts
    <3>3. CASE l = 0  BY <3>1, <3>3 DEF Under, PlaceOf, Host
    <3>4. CASE l # 0  BY <3>1, <3>2, <3>4, <1>1, <1>5 DEF Under, PlaceOf, Host
    <3> QED BY <3>3, <3>4
  <2>6. activeT = Running /\ activeF = IF Running = Host THEN None ELSE place[Running]
    BY DEF FiberInv, ActiveIsRunning
  <2>7. LET i == l + 1 IN
          /\ place'[Fib(i)'] # None /\ wired'[Fib(i)'] = place'[Fib(i)']
          /\ at'[Fib(i)'] = "body" \/ (i = Len(frames') /\ at'[Fib(i)'] = "yield_value")
          /\ frames'[i].prevT = Under(i)' /\ frames'[i].prevF = PlaceOf(Under(i))'
    BY <1>1, <1>3, <1>4, <1>5, <1>7, <2>5, <2>6
  <2>8. \A i \in DOMAIN frames' : i \in DOMAIN frames \/ i = l + 1
    BY <1>4
  <2>9. \A i, j \in DOMAIN frames' : Fib(i)' = Fib(j)' => i = j
    <3>1. \A i, j \in DOMAIN frames : Fib(i) = Fib(j) => i = j
      BY DEF FiberInv, Calls
    <3> QED BY <3>1, <1>5, <2>8
  <2>10. \A i \in DOMAIN frames' :
          /\ place'[Fib(i)'] # None /\ wired'[Fib(i)'] = place'[Fib(i)']
          /\ at'[Fib(i)'] = "body" \/ (i = Len(frames') /\ at'[Fib(i)'] = "yield_value")
          /\ frames'[i].prevT = Under(i)' /\ frames'[i].prevF = PlaceOf(Under(i))'
    BY <2>4, <2>7, <2>8
  <2> QED BY <2>9, <2>10 DEF Calls
<1>13. ActiveIsRunning'
  BY <1>1, <1>6, FiberConstants DEF ActiveIsRunning, Host
<1>14. FateIsRecorded'
  <2> SUFFICES ASSUME NEW g \in Fibers, place'[g] # None
               PROVE  /\ mem'[place'[g]].done = (at'[g] \in {"returned", "panicked"})
                      /\ mem'[place'[g]].errored = (at'[g] = "panicked")
    BY DEF FateIsRecorded
  <2>1. /\ mem[place[g]].done = (at[g] \in {"returned", "panicked"})
        /\ mem[place[g]].errored = (at[g] = "panicked")
    BY <1>1 DEF FiberInv, FateIsRecorded
  <2>2. CASE g = f
    <3>0. ~(at[f] \in {"returned", "panicked"})
      BY <1>1, <2>1, <2>2
    <3>1. at'[f] \notin {"returned", "panicked"} /\ at[f] \notin {"returned", "panicked"}
      BY <3>0, <1>7
    <3>2. (at'[f] \in {"returned", "panicked"}) = (at[f] \in {"returned", "panicked"})
          /\ (at'[f] = "panicked") = (at[f] = "panicked")
      BY <3>1
    <3> QED BY <3>2, <2>1, <2>2, <1>1, <1>8
  <2>3. CASE g # f  BY <2>1, <2>3, <1>1, <1>7
  <2> QED BY <2>2, <2>3
<1>15. GivenInv'
  <2>1. \A g \in Fibers : given[g] = None
    <3>1. ASSUME NEW g \in Fibers, given[g] # None PROVE FALSE
      <4>1. Running = g /\ at[g] = "yield_value" /\ g # Host
        BY <3>1, FiberConstants DEF FiberInv, GivenInv, Host
      <4> QED BY <4>1 DEF InBody
    <3> QED BY <3>1
  <2> SUFFICES ASSUME NEW g \in Fibers, given'[g] # None
               PROVE  Running' = g /\ at'[g] = "yield_value" /\ mem'[place'[g]].input = given'[g]
    BY DEF GivenInv
  <2>2. g = f /\ at[f] = "yield_value" /\ given'[f] = v /\ v # None
    BY <2>1, <1>7
  <2> QED BY <2>2, <1>1, <1>6, <1>7, <1>8
<1>16. FiberInv'
  BY <1>9, <1>10, <1>11, <1>12, <1>13, <1>14, <1>15 DEF FiberInv
<1> QED BY <1>1, <1>3, <1>4, <1>5, <1>6, <1>7, <1>8, <1>16, <1>l

\* The switch back restores the thread-locals of the call below.
LEMMA BackStep ==
    ASSUME FiberInv, Running # Host, SwitchBack, UNCHANGED <<place, wired>>,
           \A f \in Fibers : f # Running => at'[f] = at[f]
    PROVE  /\ Calls' /\ ActiveIsRunning'
           /\ frames' \in Seq([fiber : Fibers, prevT : Fibers \cup {None}, prevF : Places \cup {None}])
           /\ activeT' \in Fibers \cup {None} /\ activeF' \in Places \cup {None}
           /\ Len(frames') = Len(frames) - 1
           /\ \A i \in DOMAIN frames' : i \in DOMAIN frames /\ Fib(i)' = Fib(i)
<1> DEFINE R == [fiber : Fibers, prevT : Fibers \cup {None}, prevF : Places \cup {None}]
<1>l. PICK l \in Nat : l = Len(frames)
  BY RunningFacts
<1>1. /\ frames' = Front(frames)
      /\ activeT' = Last(frames).prevT /\ activeF' = Last(frames).prevF
  BY DEF SwitchBack
<1>2. /\ frames \in Seq(R) /\ frames # << >> /\ DOMAIN frames = 1 .. l /\ l \in DOMAIN frames
      /\ Running = Fib(l) /\ \A i \in DOMAIN frames : Fib(i) \in Fibers
  BY <1>l, RunningFacts DEF FiberInv, FiberTypeOK
<1>3. /\ frames' \in Seq(R) /\ Len(frames') = l - 1 /\ DOMAIN frames' = 1 .. l - 1
      /\ \A i \in 1 .. l - 1 : frames'[i] = frames[i]
  <2> HIDE DEF R
  <2>1. l > 0  BY <1>2
  <2>2. frames' = SubSeq(frames, 1, l - 1)
    BY <1>1, <1>l DEF Front
  <2>3. /\ frames' \in Seq(R) /\ Len(frames') = l - 1
        /\ \A i \in 1 .. l - 1 : frames'[i] = frames[i]
    BY <1>2, <1>l, <2>1, <2>2, SubSeqProperties
  <2> QED BY <2>3, LenProperties
<1>4. Last(frames) = frames[l] /\ Last(frames) \in R
  <2> HIDE DEF R
  <2> QED BY <1>2, <1>l, FrontSet DEF Last
<1>5. activeT' = Under(l) /\ activeF' = PlaceOf(Under(l))
  BY <1>1, <1>2, <1>4 DEF FiberInv, Calls
<1>6. activeT' \in Fibers \cup {None} /\ activeF' \in Places \cup {None}
  BY <1>1, <1>4
<1>7. \A i \in DOMAIN frames' : i \in DOMAIN frames /\ Fib(i)' = Fib(i)
  BY <1>2, <1>3 DEF Fib
<1>8. Running' = Under(l)
  <2>1. CASE l = 1
    <3>1. frames' = << >>  BY <2>1, <1>3, EmptySeq
    <3> QED BY <3>1, <2>1 DEF Running, Under
  <2>2. CASE l # 1
    <3>1. frames' # << >> /\ l - 1 \in DOMAIN frames'
      BY <2>2, <1>2, <1>3, EmptySeq
    <3>2. Last(frames') = frames[l - 1]
      BY <3>1, <1>3 DEF Last
    <3> QED BY <3>1, <3>2, <2>2 DEF Running, Under, Fib
  <2> QED BY <2>1, <2>2
<1>9. ActiveIsRunning'
  BY <1>5, <1>8 DEF ActiveIsRunning, PlaceOf, Host
<1>10. Calls'
  <2>1. \A i \in DOMAIN frames' : i # l /\ Fib(i) # Running /\ frames'[i] = frames[i]
    BY <1>2, <1>3 DEF FiberInv, Calls
  <2>2. ASSUME NEW i \in DOMAIN frames'
        PROVE  Under(i)' = Under(i) /\ PlaceOf(Under(i))' = PlaceOf(Under(i))
    <3>1. CASE i = 1  BY <3>1 DEF Under, PlaceOf, Host
    <3>2. CASE i # 1
      <4>1. i - 1 \in DOMAIN frames'  BY <3>2, <1>3
      <4> QED BY <4>1, <3>2, <1>7 DEF Under, PlaceOf, Host
    <3> QED BY <3>1, <3>2
  <2>3. \A i \in DOMAIN frames' : at'[Fib(i)] = "body"
    BY <2>1, <1>2, <1>7, <1>l DEF FiberInv, Calls
  <2>4. \A i \in DOMAIN frames' :
          /\ place'[Fib(i)'] # None /\ wired'[Fib(i)'] = place'[Fib(i)']
          /\ at'[Fib(i)'] = "body"
          /\ frames'[i].prevT = Under(i)' /\ frames'[i].prevF = PlaceOf(Under(i))'
    BY <1>7, <2>1, <2>2, <2>3 DEF FiberInv, Calls
  <2>5. \A i, j \in DOMAIN frames' : Fib(i)' = Fib(j)' => i = j
    <3>1. \A i, j \in DOMAIN frames : Fib(i) = Fib(j) => i = j
      BY DEF FiberInv, Calls
    <3> QED BY <3>1, <1>7
  <2> QED BY <2>4, <2>5 DEF Calls
<1> QED BY <1>3, <1>6, <1>7, <1>9, <1>10, <1>l

\* A fiber in its body gets nothing from resume_with any more.
LEMMA NothingGiven ==
    ASSUME FiberInv, InBody
    PROVE  \A g \in Fibers : given[g] = None
<1> SUFFICES ASSUME NEW g \in Fibers, given[g] # None PROVE FALSE
  OBVIOUS
<1>1. Running = g /\ at[g] = "yield_value" /\ g # Host
  BY FiberConstants DEF FiberInv, GivenInv, Host
<1> QED BY <1>1 DEF InBody

-----------------------------------------------------------------------------
(* What a fiber does. *)

\* The code of a fiber touches no slice, no outcome but its own, and no place; the
\* calls are as before, or the last of them has returned.
OwnDoing ==
    /\ place' = place
    /\ \A g \in Fibers : place[g] # None =>
         /\ mem'[place[g]].slice = mem[place[g]].slice
         /\ g # Running => mem'[place[g]].done = mem[place[g]].done
    /\ \/ frames' = frames
       \/ /\ Len(frames') = Len(frames) - 1
          /\ \A i \in DOMAIN frames' : i \in DOMAIN frames /\ Fib(i)' = Fib(i)

\* A step of the running fiber that switches back keeps the invariant, when what it
\* writes is its own fields and its fate is recorded there.
LEMMA LeavingStep ==
    ASSUME FiberInv, Running # Host, InBody, SwitchBack,
           UNCHANGED <<place, wired, given, stackVars>>,
           NEW new \in Fields, mem' = [mem EXCEPT ![place[Running]] = new],
           new.slice = mem[place[Running]].slice,
           NEW x \in {"yield_now", "yield_value", "returned", "panicked"},
           at' = [at EXCEPT ![Running] = x],
           new.done = (x \in {"returned", "panicked"}), new.errored = (x = "panicked"),
           ptr' \in [Fibers -> Places \cup {None}],
           \A g \in Fibers : at'[g] = "yield_value" => ptr'[g] \in Places,
           yields' \in 0 .. MaxYields
    PROVE  FiberInv' /\ OwnDoing
<1> DEFINE r == Running
<1>1. r \in Fibers /\ place[r] \in Places /\ place[r] # None
  BY RunningFacts, FiberConstants
<1>2. /\ at'[r] = x /\ \A g \in Fibers : g # r => at'[g] = at[g]
      /\ at' \in [Fibers -> {"new", "body", "yield_now", "yield_value", "returned", "panicked"}]
  BY <1>1, TypeFacts
<1>3. /\ mem' \in [Places -> Fields] /\ mem'[place[r]] = new
      /\ \A g \in Fibers : g # r /\ place[g] # None => mem'[place[g]] = mem[place[g]]
  BY <1>1, TypeFacts DEF FiberInv, Homes
<1>4. /\ Calls' /\ ActiveIsRunning'
      /\ frames' \in Seq([fiber : Fibers, prevT : Fibers \cup {None}, prevF : Places \cup {None}])
      /\ activeT' \in Fibers \cup {None} /\ activeF' \in Places \cup {None}
      /\ Len(frames') = Len(frames) - 1
      /\ \A i \in DOMAIN frames' : i \in DOMAIN frames /\ Fib(i)' = Fib(i)
  BY <1>2, BackStep
<1>5. StackInv' /\ stack' = stack
  BY DEF FiberInv, StackInv, StackTypeOK, stackVars
<1>6. FiberTypeOK'
  BY <1>2, <1>3, <1>4, <1>5, TypeFacts DEF FiberTypeOK, StackInv
<1>7. Homes'
  BY <1>1, <1>2, <1>5 DEF FiberInv, Homes
<1>8. FateIsRecorded'
  <2> SUFFICES ASSUME NEW g \in Fibers, place'[g] # None
               PROVE  /\ mem'[place'[g]].done = (at'[g] \in {"returned", "panicked"})
                      /\ mem'[place'[g]].errored = (at'[g] = "panicked")
    BY DEF FateIsRecorded
  <2>1. CASE g = r  BY <2>1, <1>2, <1>3
  <2>2. CASE g # r  BY <2>2, <1>2, <1>3 DEF FiberInv, FateIsRecorded
  <2> QED BY <2>1, <2>2
<1>9. GivenInv'
  BY NothingGiven DEF GivenInv
<1>10. OwnDoing
  BY <1>3, <1>4 DEF OwnDoing
<1> QED BY <1>4, <1>5, <1>6, <1>7, <1>8, <1>9, <1>10 DEF FiberInv

\* One field of the running fiber is written, as an update of the whole record.
LEMMA WriteField ==
    ASSUME NEW m \in [Places -> Fields], NEW p \in Places, NEW b \in BOOLEAN
    PROVE  /\ [m EXCEPT ![p].output = TRUE] = [m EXCEPT ![p] = [m[p] EXCEPT !.output = TRUE]]
           /\ [m EXCEPT ![p].input = None] = [m EXCEPT ![p] = [m[p] EXCEPT !.input = None]]
           /\ [m EXCEPT ![p].done = TRUE] = [m EXCEPT ![p] = [m[p] EXCEPT !.done = TRUE]]
           /\ [m EXCEPT ![p].done = TRUE, ![p].errored = TRUE, ![p].payload = TRUE]
              = [m EXCEPT ![p] = [m[p] EXCEPT !.done = TRUE, !.errored = TRUE, !.payload = TRUE]]
OBVIOUS

\* yield_now, yield_value, fiber_run's return and its panic.
LEMMA LeaveStep ==
    ASSUME FiberInv, YieldNow \/ YieldValue \/ Returns \/ Panics
    PROVE  FiberInv' /\ OwnDoing
<1> DEFINE r == Running
           m == mem[place[r]]
<1>1. /\ Running # Host /\ InBody /\ SwitchBack /\ UNCHANGED <<place, wired, given, stackVars>>
  BY DEF YieldNow, YieldValue, Returns, Panics
<1>2. /\ r \in Fibers /\ place[r] \in Places /\ activeT = r /\ activeF = place[r]
      /\ wired[r] = place[r] /\ at[r] = "body" /\ m \in Fields
  BY <1>1, RunningFacts, TypeFacts DEF InBody
<1>3. m.done = FALSE /\ m.errored = FALSE
  <2>1. m.done = (at[r] \in {"returned", "panicked"}) /\ m.errored = (at[r] = "panicked")
    BY <1>2, FiberConstants DEF FiberInv, FateIsRecorded
  <2>2. (at[r] \in {"returned", "panicked"}) = FALSE /\ (at[r] = "panicked") = FALSE
    BY <1>2
  <2> QED BY <2>1, <2>2
<1>4. mem = [mem EXCEPT ![place[r]] = m]
  BY TypeFacts
<1> HIDE DEF r, m
<1>5. /\ [m EXCEPT !.output = TRUE] \in Fields /\ [m EXCEPT !.done = TRUE] \in Fields
      /\ [m EXCEPT !.done = TRUE, !.errored = TRUE, !.payload = TRUE] \in Fields
  BY <1>2 DEF Fields
<1>6. CASE YieldNow
  <2>1. /\ mem' = [mem EXCEPT ![place[r]] = m] /\ at' = [at EXCEPT ![r] = "yield_now"]
        /\ ptr' = ptr /\ yields' \in 0 .. MaxYields
    BY <1>6, <1>2, <1>4, TypeFacts, FiberConstants DEF YieldNow
  <2>2. \A g \in Fibers : at'[g] = "yield_value" => ptr'[g] \in Places
    BY <2>1, <1>2, TypeFacts
  <2>3. FALSE = ("yield_now" \in {"returned", "panicked"}) /\ FALSE = ("yield_now" = "panicked")
    OBVIOUS
  <2> QED BY <1>1, <1>2, <1>3, <2>1, <2>2, <2>3, TypeFacts, LeavingStep DEF r, m
<1>7. CASE YieldValue
  <2> DEFINE new == [m EXCEPT !.output = TRUE]
  <2>1. /\ at' = [at EXCEPT ![r] = "yield_value"]
        /\ ptr' = [ptr EXCEPT ![r] = place[r]] /\ yields' \in 0 .. MaxYields
        /\ mem' = [mem EXCEPT ![place[r]].output = TRUE]
    BY <1>7, <1>2, TypeFacts, FiberConstants DEF YieldValue
  <2>2. mem' = [mem EXCEPT ![place[r]] = new]
    BY <2>1, <1>2, TypeFacts, WriteField DEF m
  <2>3. ptr' \in [Fibers -> Places \cup {None}]
        /\ \A g \in Fibers : at'[g] = "yield_value" => ptr'[g] \in Places
    BY <2>1, <1>2, TypeFacts
  <2>4. new \in Fields /\ new.slice = m.slice /\ new.done = FALSE /\ new.errored = FALSE
    BY <1>2, <1>3, <1>5 DEF Fields
  <2>5. FALSE = ("yield_value" \in {"returned", "panicked"}) /\ FALSE = ("yield_value" = "panicked")
    OBVIOUS
  <2> HIDE DEF new
  <2> QED BY <1>1, <1>2, <2>1, <2>2, <2>3, <2>4, <2>5, LeavingStep DEF r, m
<1>8. CASE Returns
  <2> DEFINE new == [m EXCEPT !.done = TRUE]
  <2>1. /\ at' = [at EXCEPT ![r] = "returned"] /\ UNCHANGED <<ptr, yields>>
        /\ mem' = [mem EXCEPT ![place[r]].done = TRUE]
    BY <1>8, <1>2 DEF Returns
  <2>2. mem' = [mem EXCEPT ![place[r]] = new]
    BY <2>1, <1>2, TypeFacts, WriteField DEF m
  <2>3. \A g \in Fibers : at'[g] = "yield_value" => ptr'[g] \in Places
    BY <2>1, <1>2, TypeFacts
  <2>4. new \in Fields /\ new.slice = m.slice /\ new.done = TRUE /\ new.errored = FALSE
    BY <1>2, <1>3, <1>5 DEF Fields
  <2>5. TRUE = ("returned" \in {"returned", "panicked"}) /\ FALSE = ("returned" = "panicked")
    OBVIOUS
  <2> HIDE DEF new
  <2> QED BY <1>1, <1>2, <2>1, <2>2, <2>3, <2>4, <2>5, TypeFacts, LeavingStep DEF r, m
<1>9. CASE Panics
  <2> DEFINE new == [m EXCEPT !.done = TRUE, !.errored = TRUE, !.payload = TRUE]
  <2>1. /\ at' = [at EXCEPT ![r] = "panicked"] /\ UNCHANGED <<ptr, yields>>
        /\ mem' = [mem EXCEPT ![place[r]].done = TRUE, ![place[r]].errored = TRUE,
                              ![place[r]].payload = TRUE]
    BY <1>9, <1>2 DEF Panics
  <2>2. mem' = [mem EXCEPT ![place[r]] = new]
    BY <2>1, <1>2, TypeFacts, WriteField DEF m
  <2>3. \A g \in Fibers : at'[g] = "yield_value" => ptr'[g] \in Places
    BY <2>1, <1>2, TypeFacts
  <2>4. new \in Fields /\ new.slice = m.slice /\ new.done = TRUE /\ new.errored = TRUE
    BY <1>2, <1>3, <1>5 DEF Fields
  <2>5. TRUE = ("panicked" \in {"returned", "panicked"}) /\ TRUE = ("panicked" = "panicked")
    OBVIOUS
  <2> HIDE DEF new
  <2> QED BY <1>1, <1>2, <2>1, <2>2, <2>3, <2>4, <2>5, TypeFacts, LeavingStep DEF r, m
<1> QED BY <1>6, <1>7, <1>8, <1>9

\* Taking an input, from one's own place or from the one a suspended yield_value
\* kept, changes no other field, wherever it points by now.
LEMMA InputStep ==
    ASSUME FiberInv, NEW p \in Places, mem' = [mem EXCEPT ![p].input = None],
           UNCHANGED <<place, wired, activeT, activeF, frames, yields, stackVars>>,
           at' \in [Fibers -> {"new", "body", "yield_now", "yield_value", "returned", "panicked"}],
           ptr' \in [Fibers -> Places \cup {None}],
           given' = [g \in Fibers |-> None],
           \A g \in Fibers : at'[g] = "yield_value" => ptr'[g] \in Places,
           \A g \in Fibers : g # Running => at'[g] = at[g],
           Running # Host => at[Running] \in {"body", "yield_value"} /\ at'[Running] = "body"
    PROVE  FiberInv' /\ OwnDoing
<1> DEFINE new == [mem[p] EXCEPT !.input = None]
<1>1. mem' = [mem EXCEPT ![p] = new]
  BY TypeFacts, WriteField
<1>2. new \in Fields /\ new.done = mem[p].done /\ new.errored = mem[p].errored /\ new.slice = mem[p].slice
  <2>1. mem[p] \in Fields  BY TypeFacts
  <2> QED BY <2>1 DEF Fields
<1> HIDE DEF new
<1>3. /\ mem' \in [Places -> Fields]
      /\ \A q \in Places : /\ mem'[q].done = mem[q].done /\ mem'[q].errored = mem[q].errored
                           /\ mem'[q].slice = mem[q].slice
  BY <1>1, <1>2, TypeFacts
<1>4. \A g \in Fibers : place[g] # None => place[g] \in Places
  BY TypeFacts
<1>5. StackInv' /\ stack' = stack
  BY DEF FiberInv, StackInv, StackTypeOK, stackVars
<1>6. FiberTypeOK'
  <2>1. given' \in [Fibers -> Values \cup {None}]  OBVIOUS
  <2> QED BY <2>1, <1>3, <1>5 DEF FiberInv, FiberTypeOK, StackInv
<1>7. Running = Host \/ (Running \in Fibers /\ place[Running] # None)
  BY RunningFacts, FiberConstants
<1>8. Homes'
  BY <1>5, <1>7, FiberConstants DEF FiberInv, Homes, Host
<1>9. Running' = Running
  BY DEF Running, Host
<1>10. ActiveIsRunning'
  BY <1>9 DEF FiberInv, ActiveIsRunning
<1>11. FateIsRecorded'
  <2> SUFFICES ASSUME NEW g \in Fibers, place'[g] # None
               PROVE  /\ mem'[place'[g]].done = (at'[g] \in {"returned", "panicked"})
                      /\ mem'[place'[g]].errored = (at'[g] = "panicked")
    BY DEF FateIsRecorded
  <2>1. (at'[g] \in {"returned", "panicked"}) = (at[g] \in {"returned", "panicked"})
        /\ (at'[g] = "panicked") = (at[g] = "panicked")
    <3>1. CASE g = Running
      <4>1. Running # Host  BY <3>1, FiberConstants DEF Host
      <4> QED BY <3>1, <4>1
    <3>2. CASE g # Running  BY <3>2
    <3> QED BY <3>1, <3>2
  <2> QED BY <2>1, <1>3, <1>4 DEF FiberInv, FateIsRecorded
<1>12. GivenInv'
  BY DEF GivenInv
<1>13. Calls'
  <2>1. \A i \in DOMAIN frames : Fib(i) \in Fibers /\ Fib(i)' = Fib(i)
    BY RunningFacts DEF Fib
  <2>2. \A i : Under(i)' = Under(i) /\ PlaceOf(Under(i))' = PlaceOf(Under(i))
    BY DEF Under, PlaceOf, Fib, Host
  <2>3. \A i \in DOMAIN frames : at'[Fib(i)] = "body" \/ at'[Fib(i)] = at[Fib(i)]
    BY <2>1, FiberConstants DEF Host
  <2> QED BY <2>1, <2>2, <2>3 DEF FiberInv, Calls
<1>14. OwnDoing
  BY <1>3, <1>4 DEF OwnDoing
<1> QED BY <1>5, <1>6, <1>8, <1>10, <1>11, <1>12, <1>13, <1>14 DEF FiberInv

\* yield_value after its switch, and take_input.
LEMMA TakeStep ==
    ASSUME FiberInv, YieldValueReturns \/ TakeInput
    PROVE  FiberInv' /\ OwnDoing
<1> DEFINE r == Running
<1>1. /\ r # Host /\ UNCHANGED <<place, wired, activeT, activeF, frames, yields, stackVars>>
  BY DEF YieldValueReturns, TakeInput
<1>2. /\ r \in Fibers /\ place[r] \in Places /\ activeT = r /\ activeF = place[r]
      /\ at[r] \in {"body", "yield_value"}
  BY <1>1, RunningFacts
<1>3. CASE YieldValueReturns
  <2>1. /\ at[r] = "yield_value" /\ ptr[r] \in Places
        /\ mem' = [mem EXCEPT ![ptr[r]].input = None]
        /\ at' = [at EXCEPT ![r] = "body"] /\ ptr' = [ptr EXCEPT ![r] = None]
        /\ given' = [given EXCEPT ![r] = None]
    BY <1>2, <1>3, TypeFacts DEF YieldValueReturns
  <2>2. given' = [g \in Fibers |-> None]
    <3>1. \A g \in Fibers : given[g] # None => g = r  BY DEF FiberInv, GivenInv
    <3>2. \A g \in Fibers : given'[g] = None  BY <3>1, <2>1, TypeFacts
    <3>3. given' = [g \in Fibers |-> given'[g]]  BY <2>1, TypeFacts
    <3> QED BY <3>2, <3>3
  <2>3. /\ at' \in [Fibers -> {"new", "body", "yield_now", "yield_value", "returned", "panicked"}]
        /\ ptr' \in [Fibers -> Places \cup {None}]
        /\ \A g \in Fibers : g # r => at'[g] = at[g] /\ ptr'[g] = ptr[g]
        /\ at'[r] = "body"
    BY <2>1, <1>2, TypeFacts
  <2>4. \A g \in Fibers : at'[g] = "yield_value" => ptr'[g] \in Places
    BY <2>3, TypeFacts
  <2> QED BY <1>1, <1>2, <2>1, <2>2, <2>3, <2>4, InputStep
<1>4. CASE TakeInput
  <2>1. /\ InBody /\ mem' = [mem EXCEPT ![place[r]].input = None] /\ UNCHANGED <<at, ptr, given>>
    BY <1>2, <1>4 DEF TakeInput
  <2>2. given' = [g \in Fibers |-> None]
    <3>1. \A g \in Fibers : given[g] = None  BY <2>1, NothingGiven
    <3>2. given = [g \in Fibers |-> given[g]]  BY TypeFacts
    <3> QED BY <3>1, <3>2, <2>1
  <2>3. at[r] = "body"
    BY <1>1, <2>1 DEF InBody
  <2> QED BY <1>1, <1>2, <2>1, <2>2, <2>3, TypeFacts, InputStep
<1> QED BY <1>3, <1>4

\* Whatever a fiber does.
LEMMA InsideStep ==
    ASSUME FiberInv, InFiber
    PROVE  FiberInv' /\ OwnDoing
BY LeaveStep, TakeStep DEF InFiber

-----------------------------------------------------------------------------
(* The invariant at the start, and what it says of single steps. *)

\* A thread starts with no fiber, no stack and null thread-locals.
LEMMA FiberInitInv == ASSUME FiberInit PROVE FiberInv
<1> USE DEF FiberInit, StackInit
<1>1. /\ Len(<< >>) = 0 /\ DOMAIN << >> = {} /\ ToSet(<< >>) = {} /\ IsInjective(<< >>)
      /\ \A S : << >> \in Seq(S)
  <2>1. \A S : << >> \in Seq(S)  BY EmptySeq
  <2>2. Len(<< >>) = 0 /\ << >> \in Seq(Maps)  BY EmptySeq
  <2>3. ToSet(<< >>) = {}  BY <2>2, SeqSet
  <2>4. DOMAIN << >> = {}  BY <2>2, SeqSet
  <2> QED BY <2>1, <2>2, <2>3, <2>4 DEF IsInjective
<1>2. StackTypeOK
  BY <1>1 DEF StackTypeOK
<1>3. StackInv
  BY <1>1, <1>2, StackConstants DEF StackInv
<1>4. FiberTypeOK
  <2>1. Fresh \in Fields  BY DEF Fresh, Fields
  <2> QED BY <2>1, <1>1, <1>2, FiberConstants DEF FiberTypeOK
<1>5. Homes
  BY DEF Homes
<1>6. Calls
  BY <1>1 DEF Calls
<1>7. ActiveIsRunning
  BY DEF ActiveIsRunning, Running, Host
<1>8. FateIsRecorded
  BY DEF FateIsRecorded
<1>9. GivenInv
  BY DEF GivenInv
<1> QED BY <1>3, <1>4, <1>5, <1>6, <1>7, <1>8, <1>9 DEF FiberInv

\* What yield_value returns is what the resume of its fiber passed in, unless the
\* Fiber has moved.
LEMMA InputArrives ==
    ASSUME FiberInv
    PROVE  \A f \in Fibers : given[f] # None /\ ptr[f] = place[f] =>
               \A v \in Values \cup {None} : YieldReturns(f, v) => v = given[f]
BY DEF FiberInv, GivenInv, YieldReturns

\* A new fiber's stack is as big as it asked for.
LEMMA StackIsEnough ==
    ASSUME FiberInv
    PROVE  \A f \in Fibers : \A p \in Places, n \in Requests :
               New(f, p, n) => len'[stack'[f]] >= n
BY NewStep

-----------------------------------------------------------------------------
(* The inductive invariant. *)

Done(f) == mem[place[f]].done
Slice(f) == mem[place[f]].slice
Increasing(s) == \A i, j \in DOMAIN s : i < j => s[i] < s[j]

\* The scheduler owns living fibers, each once.
Owned ==
    /\ IsInjective(sched)
    /\ kind = "none" => sched = << >>
    /\ \A f \in ToSet(sched) : place[f] # None

\* Calls are made outside tick, or by the step of the fiber whose turn it is; no
\* other fiber of the scheduler is in a call.
Turns ==
    /\ turn = 0 => ~stepping /\ toRemove = << >>
    /\ turn # 0 /\ ~stepping => frames = << >>
    /\ stepping => turn \in DOMAIN sched /\ (frames # << >> => Fib(1) = sched[turn])
    /\ \A i \in DOMAIN frames : Fib(i) \in ToSet(sched) => i = 1 /\ stepping

\* tick has marked, in order, the finished fibers of the slots it has been to.
Marked ==
    /\ Increasing(toRemove)
    /\ turn # 0 => ToSet(toRemove) = {i \in DOMAIN sched : i < turn /\ Done(sched[i])}

\* Only fibers of a TimeSliceScheduler carry a slice, and those as SliceIsOfThisTurn says.
Slices ==
    /\ \A f \in Fibers : place[f] # None /\ (f \in ToSet(sched) => kind # "slice") => ~Slice(f)
    /\ SliceIsOfThisTurn

SchedInv == TypeOK /\ FiberInv /\ Owned /\ Turns /\ Marked /\ Slices

\* The types of the scheduler's own variables.
SchedTypeOK ==
    /\ kind \in {"none", "slice", "robin"}
    /\ sched \in Seq(Fibers)
    /\ turn \in 0 .. Cardinality(Fibers) + 1 /\ stepping \in BOOLEAN
    /\ toRemove \in Seq(1 .. Cardinality(Fibers))

LEMMA TypeParts == TypeOK <=> FiberTypeOK /\ SchedTypeOK
BY DEF TypeOK, SchedTypeOK

\* A Vec that owns each of its fibers once is no longer than there are fibers.
LEMMA VecFits ==
    ASSUME NEW s \in Seq(Fibers), IsInjective(s)
    PROVE  Len(s) \in Nat /\ Cardinality(Fibers) \in Nat /\ Len(s) <= Cardinality(Fibers)
<1>1. Len(s) \in Nat /\ DOMAIN s = 1 .. Len(s) /\ \A i \in DOMAIN s : s[i] \in Fibers
  BY SeqSet, ElementOfSeq
<1>2. IsFiniteSet(Fibers) /\ Cardinality(Fibers) \in Nat
  BY FiberAssumption, FS_CardinalityType
<1>3. IsFiniteSet(1 .. Len(s)) /\ Cardinality(1 .. Len(s)) = Len(s)
  BY <1>1, FS_Interval
<1>4. Cardinality(1 .. Len(s)) <= Cardinality(Fibers)
  <2>1. s \in [1 .. Len(s) -> Fibers]  BY LenProperties
  <2>2. s \in Injection(1 .. Len(s), Fibers)  BY <2>1 DEF Injection, IsInjective
  <2> QED BY <2>2, <1>2, FS_Injection
<1> QED BY <1>1, <1>2, <1>3, <1>4

\* A fiber of the scheduler that runs is the one whose turn it is.
LEMMA TurnRuns ==
    ASSUME SchedInv, Running \in ToSet(sched)
    PROVE  stepping /\ turn \in DOMAIN sched /\ Running = sched[turn]
<1>1. Running # Host
  <2>1. ToSet(sched) \subseteq Fibers  BY SeqSet DEF SchedInv, TypeOK
  <2> QED BY <2>1, FiberConstants DEF Host
<1>2. Len(frames) \in DOMAIN frames /\ Running = Fib(Len(frames)) /\ frames # << >>
  BY <1>1, RunningFacts DEF SchedInv
<1> QED BY <1>2 DEF SchedInv, Turns

\* A step that leaves the scheduler alone keeps its invariant, if its fibers keep their
\* slices, those whose turn it is not their state, the others have no slice, and the
\* calls end in the same fiber of the scheduler.
LEMMA KeptStep ==
    ASSUME SchedInv, FiberInv', UNCHANGED schedVars,
           \A g \in ToSet(sched) : /\ place'[g] # None /\ Slice(g)' = Slice(g)
                                   /\ g # Running => Done(g)' = Done(g),
           \A g \in Fibers \ ToSet(sched) : place'[g] # None => ~Slice(g)',
           \A i \in DOMAIN frames' : Fib(i)' \in ToSet(sched) => i \in DOMAIN frames /\ Fib(i)' = Fib(i),
           frames' # << >> /\ stepping => frames # << >> /\ Fib(1)' = Fib(1),
           turn # 0 /\ ~stepping => frames' = << >>
    PROVE  SchedInv'
<1>t. sched \in Seq(Fibers) /\ \A i \in DOMAIN sched : sched[i] \in ToSet(sched) /\ sched[i] \in Fibers
  <2>1. sched \in Seq(Fibers)  BY DEF SchedInv, TypeOK
  <2> QED BY <2>1, SeqSet DEF ToSet
<1>u. UNCHANGED <<kind, sched, turn, stepping, toRemove>>
  BY DEF schedVars
<1>1. TypeOK'
  <2>1. FiberTypeOK'  BY DEF FiberInv
  <2> QED BY <2>1, <1>u DEF SchedInv, TypeOK
<1>2. Owned'
  BY <1>u DEF SchedInv, Owned
<1>3. Turns'
  BY <1>u DEF SchedInv, Turns
<1>4. \A i \in DOMAIN sched :
        ~(stepping /\ i = turn) => mem'[place'[sched[i]]].done = mem[place[sched[i]]].done
  <2> SUFFICES ASSUME NEW i \in DOMAIN sched, ~(stepping /\ i = turn)
               PROVE  sched[i] # Running
    BY <1>t DEF Done
  <2>1. \A a, b \in DOMAIN sched : sched[a] = sched[b] => a = b
    BY DEF SchedInv, Owned, IsInjective
  <2> QED BY <2>1, <1>t, TurnRuns
<1>5. Marked'
  <2>1. turn \in Nat /\ DOMAIN sched \subseteq Nat
    <3>1. Cardinality(Fibers) \in Nat  BY FiberAssumption, FS_CardinalityType
    <3>2. DOMAIN sched = 1 .. Len(sched)  BY <1>t, SeqSet
    <3> QED BY <3>1, <3>2 DEF SchedInv, TypeOK
  <2>2. \A i \in DOMAIN sched : i < turn => mem'[place'[sched[i]]].done = mem[place[sched[i]]].done
    BY <1>4, <2>1
  <2> QED BY <1>u, <2>2 DEF SchedInv, Marked, Increasing, Done
<1>6. Slices'
  <2>1. \A g \in Fibers : place'[g] # None /\ (g \in ToSet(sched) => kind # "slice") => ~Slice(g)'
    BY DEF SchedInv, Slices, Owned
  <2>2. SliceIsOfThisTurn'
    BY <1>t, <1>u, <1>4 DEF SchedInv, Slices, SliceIsOfThisTurn, Slice, Done
  <2> QED BY <1>u, <2>1, <2>2 DEF Slices
<1> QED BY <1>1, <1>2, <1>3, <1>5, <1>6 DEF SchedInv

-----------------------------------------------------------------------------
(* Steps that leave the scheduler alone. *)

\* Its fibers, and the ones it does not own.
LEMMA SchedFacts ==
    ASSUME SchedInv
    PROVE  /\ sched \in Seq(Fibers) /\ Len(sched) \in Nat /\ DOMAIN sched = 1 .. Len(sched)
           /\ \A i \in DOMAIN sched : sched[i] \in Fibers /\ sched[i] \in ToSet(sched)
           /\ ToSet(sched) \subseteq Fibers
           /\ \A i, j \in DOMAIN sched : sched[i] = sched[j] => i = j
           /\ \A f : Contains(sched, f) <=> f \in ToSet(sched)
           /\ \A f \in ToSet(sched) : place[f] # None
           /\ \A g \in Fibers \ ToSet(sched) : place[g] # None => ~mem[place[g]].slice
           /\ Cardinality(Fibers) \in Nat /\ Len(sched) <= Cardinality(Fibers)
           /\ turn \in 0 .. Cardinality(Fibers) + 1 /\ turn \in Nat
           /\ FiberInv
<1>1. sched \in Seq(Fibers) /\ IsInjective(sched) /\ turn \in 0 .. Cardinality(Fibers) + 1
  BY DEF SchedInv, TypeOK, Owned
<1>2. Len(sched) \in Nat /\ DOMAIN sched = 1 .. Len(sched) /\ ToSet(sched) \subseteq Fibers
  BY <1>1, SeqSet
<1>3. Cardinality(Fibers) \in Nat /\ Len(sched) <= Cardinality(Fibers)
  BY <1>1, VecFits
<1>4. \A i \in DOMAIN sched : sched[i] \in Fibers /\ sched[i] \in ToSet(sched)
  BY <1>2 DEF ToSet
<1>5. \A f : Contains(sched, f) <=> f \in ToSet(sched)
  BY <1>2 DEF Contains, ToSet
<1>6. \A g \in Fibers \ ToSet(sched) : place[g] # None => ~mem[place[g]].slice
  BY DEF SchedInv, Slices, Slice
<1>7. /\ \A f \in ToSet(sched) : place[f] # None
      /\ FiberInv
  BY DEF SchedInv, Owned
<1>8. turn \in Nat
  BY <1>1, <1>3
<1>9. \A i, j \in DOMAIN sched : sched[i] = sched[j] => i = j
  BY <1>1 DEF IsInjective
<1> QED BY <1>1, <1>2, <1>3, <1>4, <1>5, <1>6, <1>7, <1>8, <1>9

\* What whoever runs does by hand is done to fibers the scheduler does not own.
LEMMA ByHandStep == ASSUME SchedInv, ByHand PROVE SchedInv'
<1> USE SchedFacts
<1>1. UserCode /\ UNCHANGED schedVars
  BY DEF ByHand
<1>2. InBody /\ (frames = << >> => turn = 0)
  BY <1>1, RunningFacts DEF UserCode
<1>3. \A f : Mine(f) => place[f] # None /\ ~InCall(f) /\ f \notin ToSet(sched)
  BY DEF Mine
<1>4. turn # 0 /\ ~stepping => frames = << >>
  BY DEF SchedInv, Turns
<1>k. ASSUME NEW f \in Fibers \ ToSet(sched), FiberInv',
             \A g \in Fibers : g # f /\ place[g] # None =>
                 place'[g] = place[g] /\ mem'[place[g]] = mem[place[g]],
             \A g \in Fibers : g # f => (place'[g] = None <=> place[g] = None),
             place'[f] # None => ~mem'[place'[f]].slice,
             \A i \in DOMAIN frames' : Fib(i)' = f \/ (i \in DOMAIN frames /\ Fib(i)' = Fib(i)),
             frames' # << >> /\ frames # << >> => Fib(1)' = Fib(1),
             frames' = frames \/ turn = 0 \/ frames # << >>
      PROVE  SchedInv'
  <2>1. \A g \in ToSet(sched) : /\ place'[g] # None /\ Slice(g)' = Slice(g)
                                /\ g # Running => Done(g)' = Done(g)
    BY <1>k DEF Slice, Done
  <2>2. \A g \in Fibers \ ToSet(sched) : place'[g] # None => ~Slice(g)'
    BY <1>k DEF Slice
  <2>3. turn = 0 => ~stepping
    BY DEF SchedInv, Turns
  <2>4. frames' # << >> /\ stepping => frames # << >> /\ Fib(1)' = Fib(1)
    BY <1>k, <2>3, <1>2
  <2>5. turn # 0 /\ ~stepping => frames' = << >>
    BY <1>k, <1>2, <1>4
  <2>6. \A i \in DOMAIN frames' : Fib(i)' \in ToSet(sched) => i \in DOMAIN frames /\ Fib(i)' = Fib(i)
    BY <1>k
  <2> QED BY <1>1, <1>k, <2>1, <2>2, <2>4, <2>5, <2>6, KeptStep
<1>f. ASSUME frames' = frames
      PROVE  /\ \A i \in DOMAIN frames' : i \in DOMAIN frames /\ Fib(i)' = Fib(i)
             /\ Fib(1)' = Fib(1)
  BY <1>f DEF Fib
<1>5. ASSUME NEW f \in Fibers, NEW p \in Places, NEW n \in Requests, New(f, p, n) PROVE SchedInv'
  <2>1. /\ FiberInv' /\ place[f] = None /\ place'[f] = p /\ mem'[p] = Fresh /\ frames' = frames
        /\ \A g \in Fibers : /\ g # f => place'[g] = place[g]
                             /\ g # f /\ place[g] # None => mem'[place[g]] = mem[place[g]]
    BY <1>5, NewStep
  <2>2. f \in Fibers \ ToSet(sched)
    BY <2>1
  <2>3. ~mem'[place'[f]].slice
    BY <2>1 DEF Fresh
  <2> QED BY <1>k, <1>f, <2>1, <2>2, <2>3
<1>6. ASSUME NEW f \in Fibers, Mine(f), Drop(f) PROVE SchedInv'
  <2>1. /\ FiberInv' /\ place'[f] = None /\ frames' = frames
        /\ \A g \in Fibers : /\ g # f => place'[g] = place[g]
                             /\ g # f /\ place[g] # None => mem'[place[g]] = mem[place[g]]
    BY <1>3, <1>6, DropStep
  <2>2. f \in Fibers \ ToSet(sched)
    BY <1>3, <1>6
  <2> QED BY <1>k, <1>f, <2>1, <2>2
<1>7. ASSUME NEW f \in Fibers, Mine(f), NEW v \in Values \cup {None}, Resume(f, v, FALSE)
      PROVE  SchedInv'
  <2>1. /\ FiberInv' /\ place' = place /\ mem'[place[f]].slice = FALSE
        /\ \A g \in Fibers : g # f /\ place[g] # None => mem'[place[g]] = mem[place[g]]
        /\ Len(frames') = Len(frames) + 1
        /\ \A i \in DOMAIN frames : Fib(i)' = Fib(i)
        /\ frames'[Len(frames) + 1].fiber = f
    <3>1. FALSE \in BOOLEAN  OBVIOUS
    <3> QED BY <3>1, <1>2, <1>3, <1>7, ResumeStep
  <2>2. f \in Fibers \ ToSet(sched)
    BY <1>3, <1>7
  <2>3. /\ DOMAIN frames' = 1 .. Len(frames) + 1 /\ Len(frames) \in Nat
        /\ DOMAIN frames = 1 .. Len(frames)
        /\ frames # << >> => Len(frames) \in DOMAIN frames
    <3>1. DOMAIN frames' = 1 .. Len(frames')
      <4>1. frames' \in Seq([fiber : Fibers, prevT : Fibers \cup {None}, prevF : Places \cup {None}])
        BY <2>1 DEF FiberInv, FiberTypeOK
      <4> QED BY <4>1, LenProperties
    <3>2. frames # << >> => Len(frames) \in DOMAIN frames
      BY RunningFacts
    <3> QED BY <3>1, <3>2, <2>1, RunningFacts
  <2>4. \A i \in DOMAIN frames' : i \in DOMAIN frames \/ i = Len(frames) + 1
    BY <2>3
  <2>5. \A i \in DOMAIN frames' : Fib(i)' = f \/ (i \in DOMAIN frames /\ Fib(i)' = Fib(i))
    BY <2>1, <2>4 DEF Fib
  <2>6. frames # << >> => Fib(1)' = Fib(1)
    BY <2>1, <2>3
  <2> QED BY <1>2, <1>k, <2>1, <2>2, <2>5, <2>6
<1>8. ASSUME NEW f \in Fibers, Mine(f), TakeYield(f) \/ TakeError(f) PROVE SchedInv'
  <2>0. /\ mem[place[f]] \in Fields
        /\ Mine(f) /\ place[f] # None /\ ~InCall(f) /\ f \notin ToSet(sched)
    BY <1>3, <1>8, TypeFacts
  <2>1. PICK new \in Fields : /\ Assign(f, new)
                              /\ new.done = mem[place[f]].done
                              /\ new.errored = mem[place[f]].errored
                              /\ new.slice = mem[place[f]].slice
    <3>1. CASE TakeYield(f)
      <4> DEFINE new == [mem[place[f]] EXCEPT !.output = FALSE]
      <4>1. Assign(f, new)  BY <3>1 DEF TakeYield
      <4>2. /\ new \in Fields /\ new.done = mem[place[f]].done
            /\ new.errored = mem[place[f]].errored /\ new.slice = mem[place[f]].slice
        BY <2>0 DEF Fields
      <4> HIDE DEF new
      <4> QED BY <4>1, <4>2
    <3>2. CASE TakeError(f)
      <4> DEFINE new == [mem[place[f]] EXCEPT !.payload = FALSE]
      <4>1. Assign(f, new)  BY <3>2 DEF TakeError
      <4>2. /\ new \in Fields /\ new.done = mem[place[f]].done
            /\ new.errored = mem[place[f]].errored /\ new.slice = mem[place[f]].slice
        BY <2>0 DEF Fields
      <4> HIDE DEF new
      <4> QED BY <4>1, <4>2
    <3> QED BY <1>8, <3>1, <3>2
  <2>2. /\ FiberInv' /\ place' = place /\ frames' = frames /\ mem'[place[f]] = new
        /\ \A g \in Fibers : g # f /\ place[g] # None => mem'[place[g]] = mem[place[g]]
    BY <2>0, <2>1, AssignStep
  <2>3. f \in Fibers \ ToSet(sched) /\ ~mem'[place'[f]].slice
    BY <2>0, <2>1, <2>2
  <2> QED BY <1>k, <1>f, <2>2, <2>3
<1>9. ASSUME NEW f \in Fibers, Mine(f), NEW p \in Places, Move(f, p) PROVE SchedInv'
  <2>1. /\ FiberInv' /\ place'[f] = p /\ mem'[p] = mem[place[f]] /\ frames' = frames
        /\ \A g \in Fibers : /\ g # f => place'[g] = place[g]
                             /\ g # f /\ place[g] # None => mem'[place[g]] = mem[place[g]]
    BY <1>3, <1>9, MovesOn
  <2>2. f \in Fibers \ ToSet(sched) /\ ~mem'[place'[f]].slice
    BY <1>3, <1>9, <2>1
  <2> QED BY <1>k, <1>f, <2>1, <2>2
<1> QED BY <1>5, <1>6, <1>7, <1>8, <1>9 DEF ByHand

\* The running fiber does not reach the scheduler.
LEMMA InsideKept == ASSUME SchedInv, InFiber, UNCHANGED schedVars PROVE SchedInv'
<1> USE SchedFacts
<1>1. FiberInv' /\ OwnDoing
  BY InsideStep
<1>2. \A g \in ToSet(sched) : /\ place'[g] # None /\ Slice(g)' = Slice(g)
                              /\ g # Running => Done(g)' = Done(g)
  BY <1>1 DEF OwnDoing, Slice, Done
<1>3. \A g \in Fibers \ ToSet(sched) : place'[g] # None => ~Slice(g)'
  BY <1>1 DEF OwnDoing, Slice
<1>4. \A i \in DOMAIN frames' : i \in DOMAIN frames /\ Fib(i)' = Fib(i)
  BY <1>1 DEF OwnDoing, Fib
<1>5. frames' # << >> => frames # << >> /\ Fib(1)' = Fib(1)
  <2>1. Running # Host
    BY DEF InFiber, YieldNow, YieldValue, YieldValueReturns, TakeInput, Returns, Panics
  <2>2. frames' # << >> => 1 \in DOMAIN frames'
    <3>1. frames' \in Seq([fiber : Fibers, prevT : Fibers \cup {None}, prevF : Places \cup {None}])
      BY <1>1 DEF FiberInv, FiberTypeOK
    <3>2. Len(frames') \in Nat /\ DOMAIN frames' = 1 .. Len(frames')
          /\ (frames' # << >> => Len(frames') > 0)
      BY <3>1, SeqSet
    <3> QED BY <3>2
  <2> QED BY <1>4, <2>1, <2>2, RunningFacts
<1>6. turn # 0 /\ ~stepping => frames' = << >>
  BY <1>5 DEF SchedInv, Turns
<1> QED BY <1>1, <1>2, <1>3, <1>4, <1>5, <1>6, KeptStep

\* Thread exit, and steps of nobody.
LEMMA QuietKept ==
    ASSUME SchedInv, ThreadExits \/ UNCHANGED vars
    PROVE  SchedInv'
<1> USE SchedFacts
<1>1. /\ UNCHANGED <<mem, place, wired, activeT, activeF, frames, at, ptr, given, yields, schedVars>>
      /\ PoolDrop \/ UNCHANGED stackVars
  BY DEF ThreadExits, vars, fiberVars
<1>2. FiberInv'
  <2>1. CASE PoolDrop  BY <1>1, <2>1, ExitStep
  <2>2. CASE UNCHANGED stackVars
    <3>1. Carried({})
      BY <1>1, TypeFacts DEF FiberInv, Homes, Carried
    <3> QED BY <1>1, <2>2, <3>1, MoveStep
  <2> QED BY <1>1, <2>1, <2>2
<1>3. /\ \A g \in Fibers : Slice(g)' = Slice(g) /\ Done(g)' = Done(g) /\ place'[g] = place[g]
      /\ frames' = frames /\ \A i : Fib(i)' = Fib(i)
  BY <1>1 DEF Slice, Done, Fib
<1>4. turn # 0 /\ ~stepping => frames = << >>
  BY DEF SchedInv, Turns
<1>5. \A g \in Fibers \ ToSet(sched) : place'[g] # None => ~Slice(g)'
  BY <1>3 DEF Slice
<1>6. schedVars' = schedVars
  BY <1>1
<1> QED BY <1>2, <1>3, <1>4, <1>5, <1>6, KeptStep

-----------------------------------------------------------------------------
(* A fiber is given to the scheduler. *)

\* Nothing happens to the fibers.
LEMMA SameFibers == ASSUME FiberInv, UNCHANGED fiberVars PROVE FiberInv'
<1>1. UNCHANGED <<wired, activeT, activeF, frames, at, ptr, given, yields, stackVars>>
      /\ mem' = mem /\ place' = place
  BY DEF fiberVars
<1>2. Carried({})
  BY <1>1, TypeFacts DEF FiberInv, Homes, Carried
<1> QED BY <1>1, <1>2, MoveStep

\* Fibers that nobody resumes go to places of their own: each takes its fields along.
LEMMA RelocateStep ==
    ASSUME FiberInv, frames = << >>, NEW S \in SUBSET Fibers, \A g \in S : place[g] # None,
           NEW to \in [S -> Places], Relocate(S, to)
    PROVE  Carried({})
<1>1. /\ \A g, h \in S : to[g] = to[h] => g = h
      /\ \A g \in S, h \in Fibers \ S : to[g] # place[h]
      /\ place' = [g \in Fibers |-> IF g \in S THEN to[g] ELSE place[g]]
      /\ mem' = [p \in Places |->
                   IF \E g \in S : to[g] = p THEN mem[place[CHOOSE g \in S : to[g] = p]]
                   ELSE IF \E g \in S : place[g] = p THEN LeftBehind(p) ELSE mem[p]]
  BY DEF Relocate
<1>2. \A g, h \in Fibers : place[g] # None /\ place[g] = place[h] => g = h
  BY DEF FiberInv, Homes
<1>3. \A g \in S : /\ place'[g] = to[g] /\ to[g] \in Places /\ to[g] # None
                   /\ place[g] \in Places
  BY <1>1, TypeFacts, FiberConstants
<1>4. \A g \in Fibers \ S : place'[g] = place[g]
  BY <1>1
<1>5. ASSUME NEW g \in S PROVE mem'[place'[g]] = mem[place[g]]
  <2>1. (CHOOSE h \in S : to[h] = to[g]) = g
    BY <1>1
  <2>2. mem'[to[g]] = mem[place[CHOOSE h \in S : to[h] = to[g]]]
    BY <1>1, <1>3
  <2> QED BY <2>1, <2>2, <1>3
<1>6. ASSUME NEW g \in Fibers \ S, place[g] # None PROVE mem'[place'[g]] = mem[place[g]]
  <2>1. /\ place[g] \in Places
        /\ \A h \in S : to[h] # place[g] /\ place[h] # place[g]
    BY <1>1, <1>2, <1>6, TypeFacts
  <2> QED BY <2>1, <1>1, <1>4
<1>7. place' \in [Fibers -> Places \cup {None}]
  BY <1>1, TypeFacts
<1>8. mem' \in [Places -> Fields]
  <2>1. \A p \in Places : LeftBehind(p) \in Fields /\ mem[p] \in Fields
    BY TypeFacts, LeftBehindType
  <2>2. ASSUME NEW p \in Places, \E g \in S : to[g] = p
        PROVE  mem[place[CHOOSE g \in S : to[g] = p]] \in Fields
    <3>1. (CHOOSE g \in S : to[g] = p) \in S  BY <2>2
    <3> QED BY <3>1, <1>3, <2>1
  <2> QED BY <1>1, <2>1, <2>2
<1>9. \A g : ~InCall(g)
  <2>1. DOMAIN frames = {}  BY RunningFacts, EmptySeq
  <2> QED BY <2>1 DEF InCall
<1>10. \A g, h \in Fibers : place'[g] # None /\ place'[g] = place'[h] => g = h
  BY <1>1, <1>2, <1>3, <1>4
<1>11. \A g \in Fibers : /\ place'[g] = None <=> place[g] = None
                         /\ place[g] # None => mem'[place'[g]] = mem[place[g]]
  BY <1>3, <1>4, <1>5, <1>6
<1> QED BY <1>7, <1>8, <1>9, <1>10, <1>11 DEF Carried

\* The scheduler takes a fiber over, with or without a move.
LEMMA SpawnStep ==
    ASSUME SchedInv, Running = Host, turn = 0, NEW f \in Fibers, Mine(f), FiberInv',
           frames' = frames, Carried({}), sched' = Append(sched, f),
           kind' \in {"slice", "robin"}, kind = kind' \/ kind = "none",
           UNCHANGED <<turn, stepping, toRemove>>
    PROVE  SchedInv'
<1>1. /\ frames = << >> /\ ~stepping /\ toRemove = << >>
      /\ place[f] # None /\ f \notin ToSet(sched)
  BY RunningFacts, SchedFacts DEF SchedInv, Turns, Mine
<1>2. /\ sched' \in Seq(Fibers) /\ IsInjective(sched')
      /\ ToSet(sched') = ToSet(sched) \cup {f}
  BY <1>1, SchedFacts, AppendSet DEF SchedInv, Owned
<1>3. \A g \in Fibers : /\ place'[g] = None <=> place[g] = None
                        /\ place[g] # None => Slice(g)' = Slice(g) /\ Done(g)' = Done(g)
  BY DEF Carried, Slice, Done
<1>4. TypeOK'
  <2>1. FiberTypeOK'  BY DEF FiberInv
  <2> QED BY <2>1, <1>2, TypeParts DEF SchedInv, TypeOK
<1>5. Owned'
  BY <1>1, <1>2, <1>3, SchedFacts DEF Owned
<1>6. Turns'
  <2>1. DOMAIN frames' = {}  BY <1>1, RunningFacts, EmptySeq
  <2> QED BY <2>1, <1>1 DEF Turns
<1>7. Marked'
  BY DEF SchedInv, Marked, Increasing
<1>8. Slices'
  <2>1. \A g \in Fibers : place'[g] # None /\ (g \in ToSet(sched') => kind' # "slice") => ~Slice(g)'
    <3> SUFFICES ASSUME NEW g \in Fibers, place'[g] # None, g \in ToSet(sched') => kind' # "slice"
                 PROVE  ~Slice(g)'
      OBVIOUS
    <3>1. g \in ToSet(sched) => kind # "slice"
      BY <1>2
    <3>2. ~Slice(g)
      BY <3>1, <1>3 DEF SchedInv, Slices
    <3> QED BY <3>2, <1>3
  <2>2. SliceIsOfThisTurn'
    <3>1. ASSUME kind' = "slice", NEW g \in ToSet(sched) \cup {f}
          PROVE  mem'[place'[g]].slice => mem'[place'[g]].done
      <4>0. g \in Fibers /\ place[g] # None
        BY <1>1, SchedFacts
      <4>1. CASE g = f
        <5>1. ~mem[place[f]].slice  BY <1>1, SchedFacts
        <5> QED BY <5>1, <4>1, <1>1, <1>3 DEF Slice
      <4>2. CASE g \in ToSet(sched)
        <5>1. kind = "slice"
          BY <3>1, <4>2, SchedFacts, SeqSet DEF SchedInv, Owned
        <5>2. mem[place[g]].slice => mem[place[g]].done
          BY <5>1, <4>2, <1>1 DEF SchedInv, Slices, SliceIsOfThisTurn, ToSet
        <5> QED BY <5>2, <4>0, <1>3 DEF Slice, Done
      <4> QED BY <4>1, <4>2
    <3>2. \A i \in DOMAIN sched' : sched'[i] \in ToSet(sched) \cup {f}
      <4>1. \A i \in DOMAIN sched' : sched'[i] \in ToSet(sched')  BY DEF ToSet
      <4> QED BY <4>1, <1>2
    <3> QED BY <1>1, <3>1, <3>2 DEF SliceIsOfThisTurn
  <2> QED BY <2>1, <2>2 DEF Slices
<1> QED BY <1>4, <1>5, <1>6, <1>7, <1>8 DEF SchedInv

\* TimeSliceScheduler::spawn and RoundRobin::spawn.
LEMMA SpawnKept ==
    ASSUME SchedInv, NEW f \in Fibers, SpawnSlice(f) \/ SpawnRobin(f)
    PROVE  SchedInv'
<1>0. FiberInv
  BY SchedFacts
<1>1. CASE SpawnSlice(f)
  <2>1. /\ Running = Host /\ turn = 0 /\ Mine(f) /\ kind \in {"none", "slice"}
        /\ UNCHANGED <<wired, activeT, activeF, frames, at, ptr, given, yields, stackVars, turn, stepping, toRemove>>
        /\ sched' = Append(sched, f) /\ kind' = "slice"
    BY <1>1 DEF SpawnSlice
  <2>2. PICK to \in [ToSet(sched) \cup {f} -> Places] : Relocate(ToSet(sched) \cup {f}, to)
    BY <1>1 DEF SpawnSlice
  <2>3. Carried({})
    <3>1. ToSet(sched) \cup {f} \in SUBSET Fibers
          /\ \A g \in ToSet(sched) \cup {f} : place[g] # None
      BY <2>1, SchedFacts DEF Mine
    <3> QED BY <3>1, <1>0, <2>1, <2>2, RelocateStep, RunningFacts
  <2> QED BY <2>1, <2>3, <1>0, MoveStep, SpawnStep
<1>2. CASE SpawnRobin(f)
  <2>1. /\ Running = Host /\ turn = 0 /\ Mine(f) /\ kind \in {"none", "robin"}
        /\ UNCHANGED <<fiberVars, turn, stepping, toRemove>>
        /\ sched' = Append(sched, f) /\ kind' = "robin"
    BY <1>2 DEF SpawnRobin
  <2>2. Carried({}) /\ frames' = frames
    BY <1>0, <2>1, TypeFacts DEF FiberInv, Homes, Carried, fiberVars
  <2> QED BY <1>0, <2>1, <2>2, SameFibers, SpawnStep
<1> QED BY <1>1, <1>2

-----------------------------------------------------------------------------
(* tick. *)

\* Between two steps of tick, nobody but the host is in a call.
LEMMA TickFacts ==
    ASSUME SchedInv, Running = Host
    PROVE  /\ frames = << >> /\ DOMAIN frames = {} /\ \A g : ~InCall(g)
           /\ InBody
           /\ ~stepping /\ kind = "slice" => \A g \in ToSet(sched) : Slice(g) => Done(g)
<1>1. frames = << >> /\ DOMAIN frames = {}
  BY RunningFacts, EmptySeq, SchedFacts
<1>2. ~stepping /\ kind = "slice" => \A g \in ToSet(sched) : Slice(g) => Done(g)
  BY DEF SchedInv, Slices, SliceIsOfThisTurn, Slice, Done, ToSet
<1> QED BY <1>1, <1>2 DEF InCall, InBody

\* The slots tick has marked come before the one it is at.
LEMMA MarkedFacts ==
    ASSUME SchedInv, turn # 0
    PROVE  /\ toRemove \in Seq(1 .. Cardinality(Fibers)) /\ Increasing(toRemove)
           /\ ToSet(toRemove) = {i \in DOMAIN sched : i < turn /\ Done(sched[i])}
           /\ \A j \in DOMAIN toRemove : /\ toRemove[j] \in ToSet(toRemove)
                                         /\ toRemove[j] < turn /\ toRemove[j] \in Nat
<1>1. /\ toRemove \in Seq(1 .. Cardinality(Fibers)) /\ Increasing(toRemove)
      /\ ToSet(toRemove) = {i \in DOMAIN sched : i < turn /\ Done(sched[i])}
  BY DEF SchedInv, TypeOK, Marked
<1>2. \A j \in DOMAIN toRemove : toRemove[j] \in ToSet(toRemove)
  BY DEF ToSet
<1>3. \A i \in DOMAIN sched : i \in Nat
  BY SchedFacts
<1> QED BY <1>1, <1>2, <1>3

\* Going on to the next slot keeps the marks right, if it is marked when done.
LEMMA MarkStep ==
    ASSUME SchedInv, turn \in DOMAIN sched, turn' = turn + 1, sched' = sched,
           \A g \in ToSet(sched) : Done(g)' = Done(g),
           toRemove' = IF Done(sched[turn]) THEN Append(toRemove, turn) ELSE toRemove
    PROVE  Marked' /\ toRemove' \in Seq(1 .. Cardinality(Fibers))
                   /\ turn' \in 0 .. Cardinality(Fibers) + 1 /\ turn' # 0
<1> DEFINE S == 1 .. Cardinality(Fibers)
<1>1. /\ turn \in Nat /\ turn # 0 /\ turn \in S /\ turn' \in 0 .. Cardinality(Fibers) + 1 /\ turn' # 0
      /\ Len(sched) \in Nat /\ DOMAIN sched = 1 .. Len(sched)
  BY SchedFacts
<1>2. \A i \in DOMAIN sched : mem'[place'[sched[i]]].done = mem[place[sched[i]]].done
  BY SchedFacts DEF Done
<1>3. {i \in DOMAIN sched : i < turn + 1 /\ mem'[place'[sched[i]]].done}
      = {i \in DOMAIN sched : i < turn /\ Done(sched[i])}
        \cup IF Done(sched[turn]) THEN {turn} ELSE {}
  <2>1. \A i \in DOMAIN sched : i < turn + 1 <=> i < turn \/ i = turn
    BY <1>1
  <2> QED BY <2>1, <1>2 DEF Done
<1>m. /\ toRemove \in Seq(S) /\ Increasing(toRemove)
      /\ ToSet(toRemove) = {i \in DOMAIN sched : i < turn /\ Done(sched[i])}
      /\ \A j \in DOMAIN toRemove : toRemove[j] < turn /\ toRemove[j] \in Nat
  BY <1>1, MarkedFacts
<1> HIDE DEF S
<1>4. /\ toRemove' \in Seq(S) /\ Increasing(toRemove')
      /\ ToSet(toRemove') = ToSet(toRemove) \cup IF Done(sched[turn]) THEN {turn} ELSE {}
  <2>1. CASE ~Done(sched[turn])
    BY <2>1, <1>m
  <2>2. CASE Done(sched[turn])
    <3>1. toRemove' = Append(toRemove, turn)  BY <2>2
    <3>2. toRemove' \in Seq(S) /\ ToSet(toRemove') = ToSet(toRemove) \cup {turn}
      BY <3>1, <1>1, <1>m, AppendSet
    <3>3. PICK l \in Nat : l = Len(toRemove)
      BY <1>m, SeqSet
    <3>4. /\ DOMAIN toRemove = 1 .. l /\ DOMAIN toRemove' = 1 .. l + 1
          /\ \A j \in 1 .. l : toRemove'[j] = toRemove[j]
          /\ toRemove'[l + 1] = turn
      BY <3>1, <3>2, <3>3, <1>1, <1>m, AppendProperties, LenProperties
    <3>5. Increasing(toRemove')
      <4> SUFFICES ASSUME NEW i \in 1 .. l + 1, NEW j \in 1 .. l + 1, i < j
                   PROVE  toRemove'[i] < toRemove'[j]
        BY <3>4 DEF Increasing
      <4>1. i \in 1 .. l  BY <3>3
      <4>2. CASE j \in 1 .. l  BY <4>1, <4>2, <3>4, <1>m DEF Increasing
      <4>3. CASE j = l + 1  BY <4>1, <4>3, <3>4, <1>m
      <4> QED BY <3>3, <4>2, <4>3
    <3> QED BY <3>2, <3>5, <2>2
  <2> QED BY <2>1, <2>2
<1>5. Marked'
  <2>1. ToSet(toRemove') = {i \in DOMAIN sched' : i < turn' /\ mem'[place'[sched'[i]]].done}
    BY <1>3, <1>4, <1>m
  <2> QED BY <2>1, <1>4 DEF Marked, Increasing, Done
<1> QED BY <1>1, <1>4, <1>5 DEF S

\* tick is called, it passes over a fiber that is done, a task that is done panics, and
\* tick returns: the fibers are left alone.
LEMMA TickGoesOn ==
    ASSUME SchedInv, TickBegins \/ TickSkips \/ TickPanics \/ TickEnds
    PROVE  SchedInv'
<1>1. /\ Running = Host /\ ~stepping
      /\ UNCHANGED <<fiberVars, sched, stepping>>
      /\ kind' = kind \/ (kind' = "none" /\ sched = << >>)
  BY SchedFacts DEF TickBegins, TickSkips, TickPanics, TickEnds, Ticking, SchedInv, Turns
<1>2. /\ FiberInv' /\ place' = place /\ mem' = mem /\ frames' = frames
      /\ frames = << >> /\ DOMAIN frames = {}
  BY <1>1, SchedFacts, SameFibers, TickFacts DEF fiberVars
<1>3. Owned'
  BY <1>1, <1>2 DEF SchedInv, Owned
<1>4. Slices'
  <2>1. \A g \in Fibers : place[g] # None /\ (g \in ToSet(sched) => kind' # "slice") => ~Slice(g)
    <3>1. CASE kind' = kind  BY <3>1 DEF SchedInv, Slices
    <3>2. CASE sched = << >>
      <4>1. ToSet(sched) = {}  BY <3>2, SchedFacts, SeqSet
      <4> QED BY <4>1, SchedFacts DEF Slice
    <3> QED BY <1>1, <3>1, <3>2
  <2>2. kind' = "slice" => \A i \in DOMAIN sched : mem[place[sched[i]]].slice => mem[place[sched[i]]].done
    BY <1>1 DEF SchedInv, Slices, SliceIsOfThisTurn
  <2>3. SliceIsOfThisTurn'
    BY <1>1, <1>2, <2>2 DEF SliceIsOfThisTurn
  <2> QED BY <1>1, <1>2, <2>1, <2>3 DEF Slices, Slice
<1>5. ASSUME Marked', toRemove' \in Seq(1 .. Cardinality(Fibers)),
             turn' \in 0 .. Cardinality(Fibers) + 1, turn' = 0 => toRemove' = << >>
      PROVE  SchedInv'
  <2>1. TypeOK'
    BY <1>1, <1>2, <1>5 DEF SchedInv, TypeOK, FiberInv
  <2>2. Turns'
    BY <1>1, <1>2, <1>5 DEF Turns
  <2> QED BY <1>2, <1>3, <1>4, <1>5, <2>1, <2>2 DEF SchedInv
<1>e. /\ << >> \in Seq(1 .. Cardinality(Fibers)) /\ ToSet(<< >>) = {} /\ DOMAIN << >> = {}
  <2>1. << >> \in Seq(1 .. Cardinality(Fibers)) /\ Len(<< >>) = 0  BY EmptySeq
  <2>2. ToSet(<< >>) = {} /\ DOMAIN << >> = 1 .. 0  BY <2>1, SeqSet
  <2> QED BY <2>1, <2>2
<1>6. CASE TickBegins
  <2>1. turn' = 1 /\ toRemove' = << >>
    BY <1>6 DEF TickBegins, SchedInv, Turns
  <2>2. Marked'
    <3>1. \A i \in DOMAIN sched : ~(i < 1)  BY SchedFacts
    <3> QED BY <1>1, <1>e, <2>1, <3>1 DEF Marked, Increasing
  <2>3. 1 \in 0 .. Cardinality(Fibers) + 1
    BY SchedFacts
  <2> QED BY <1>5, <1>e, <2>1, <2>2, <2>3
<1>7. CASE TickSkips
  <2>1. /\ turn \in DOMAIN sched /\ Done(sched[turn]) /\ turn' = turn + 1
        /\ toRemove' = Append(toRemove, turn)
    BY <1>7 DEF TickSkips, Ticking, SlotDone, Slot, Done
  <2>2. \A g \in ToSet(sched) : Done(g)' = Done(g)
    BY <1>2 DEF Done
  <2> QED BY <1>1, <1>5, <2>1, <2>2, MarkStep
<1>8. CASE TickPanics \/ TickEnds
  <2>1. turn' = 0 /\ toRemove' = << >>
    BY <1>8 DEF TickPanics, TickEnds
  <2>2. Marked'
    BY <1>e, <2>1 DEF Marked, Increasing
  <2>3. 0 \in 0 .. Cardinality(Fibers) + 1
    BY SchedFacts
  <2> QED BY <1>5, <1>e, <2>1, <2>2, <2>3
<1> QED BY <1>6, <1>7, <1>8

\* tick resumes the fiber whose turn it is; a TimeSliceScheduler's has its slice then.
LEMMA TickStepsKept == ASSUME SchedInv, TickSteps PROVE SchedInv'
<1> DEFINE f == sched[turn]
<1>1. /\ Running = Host /\ turn \in DOMAIN sched /\ ~stepping
      /\ Resume(f, None, kind = "slice")
      /\ stepping' = TRUE /\ UNCHANGED <<kind, sched, turn, toRemove>>
  BY DEF TickSteps, Ticking, Slot
<1>2. /\ frames = << >> /\ DOMAIN frames = {} /\ ~InCall(f) /\ InBody
      /\ f \in Fibers /\ f \in ToSet(sched) /\ place[f] # None /\ FiberInv
      /\ turn \in Nat /\ turn # 0
  BY <1>1, TickFacts, SchedFacts
<1>3. /\ FiberInv' /\ place' = place
      /\ ~mem[place[f]].done /\ ~mem'[place[f]].done
      /\ mem'[place[f]].slice = (kind = "slice")
      /\ \A g \in Fibers : g # f /\ place[g] # None => mem'[place[g]] = mem[place[g]]
      /\ Len(frames') = Len(frames) + 1 /\ frames'[Len(frames) + 1].fiber = f
  <2>1. (kind = "slice") \in BOOLEAN /\ None \in Values \cup {None}  OBVIOUS
  <2> HIDE DEF f
  <2> QED BY <2>1, <1>1, <1>2, ResumeStep
<1> HIDE DEF f
<1>4. DOMAIN frames' = {1} /\ Fib(1)' = f
  <2>1. Len(frames) = 0  BY <1>2, EmptySeq
  <2>2. frames' \in Seq([fiber : Fibers, prevT : Fibers \cup {None}, prevF : Places \cup {None}])
    BY <1>3 DEF FiberInv, FiberTypeOK
  <2>3. DOMAIN frames' = 1 .. Len(frames')  BY <2>2, LenProperties
  <2> QED BY <2>1, <2>3, <1>3 DEF Fib
<1>5. TypeOK'
  BY <1>1, <1>3 DEF SchedInv, TypeOK, FiberInv
<1>6. Owned'
  BY <1>1, <1>3 DEF SchedInv, Owned
<1>7. Turns'
  <2>1. f = sched[turn]  BY DEF f
  <2> QED BY <1>1, <1>2, <1>4, <2>1 DEF Turns
<1>8. Marked'
  <2>1. \A i \in DOMAIN sched : mem'[place[sched[i]]].done = mem[place[sched[i]]].done
    <3> SUFFICES ASSUME NEW g \in ToSet(sched) PROVE mem'[place[g]].done = mem[place[g]].done
      BY SchedFacts
    <3>1. CASE g = f
      <4>1. mem[place[f]] \in Fields /\ mem'[place[f]] \in Fields
        <5>1. place[f] \in Places /\ mem' \in [Places -> Fields]
          BY <1>2, <1>3, TypeFacts DEF FiberInv, FiberTypeOK
        <5> QED BY <5>1, <1>2, TypeFacts
      <4>2. mem[place[f]].done \in BOOLEAN /\ mem'[place[f]].done \in BOOLEAN
        BY <4>1 DEF Fields
      <4> QED BY <4>2, <3>1, <1>3
    <3>2. CASE g # f  BY <3>2, <1>3, SchedFacts
    <3> QED BY <3>1, <3>2
  <2> QED BY <1>1, <1>3, <2>1 DEF SchedInv, Marked, Increasing, Done
<1>9. Slices'
  <2>1. \A g \in Fibers : place[g] # None /\ (g \in ToSet(sched) => kind # "slice") => ~mem'[place[g]].slice
    <3> SUFFICES ASSUME NEW g \in Fibers, place[g] # None, g \in ToSet(sched) => kind # "slice"
                 PROVE  ~mem'[place[g]].slice
      OBVIOUS
    <3>1. CASE g = f  BY <3>1, <1>2, <1>3
    <3>2. CASE g # f  BY <3>2, <1>3 DEF SchedInv, Slices, Slice
    <3> QED BY <3>1, <3>2
  <2>2. ASSUME kind = "slice", NEW i \in DOMAIN sched
        PROVE  IF i = turn THEN mem'[place[sched[i]]].slice
               ELSE mem'[place[sched[i]]].slice => mem'[place[sched[i]]].done
    <3>1. CASE i = turn  BY <3>1, <2>2, <1>3 DEF f
    <3>2. CASE i # turn
      <4>1. sched[i] # f /\ sched[i] \in Fibers /\ sched[i] \in ToSet(sched) /\ place[sched[i]] # None
        BY <3>2, <1>1, SchedFacts DEF f
      <4>2. mem'[place[sched[i]]] = mem[place[sched[i]]]  BY <4>1, <1>3
      <4>3. mem[place[sched[i]]].slice => mem[place[sched[i]]].done
        BY <2>2, <4>1, <1>1, TickFacts DEF Slice, Done
      <4> QED BY <4>2, <4>3, <3>2
    <3> QED BY <3>1, <3>2
  <2>3. SliceIsOfThisTurn'
    BY <1>1, <1>3, <2>2 DEF SliceIsOfThisTurn
  <2> QED BY <1>1, <1>3, <2>1, <2>3 DEF Slices, Slice
<1> QED BY <1>3, <1>5, <1>6, <1>7, <1>8, <1>9 DEF SchedInv

\* The step returns: a fiber that is done is marked, and one that yielded loses its slice.
LEMMA TickSteppedKept == ASSUME SchedInv, TickStepped PROVE SchedInv'
<1> DEFINE f == sched[turn]
<1>1. /\ Running = Host /\ stepping
      /\ IF Done(f) \/ kind = "robin" THEN UNCHANGED fiberVars ELSE ClearDeadline(f)
      /\ toRemove' = IF Done(f) THEN Append(toRemove, turn) ELSE toRemove
      /\ turn' = turn + 1 /\ stepping' = FALSE
      /\ UNCHANGED <<kind, sched>>
  BY DEF TickStepped, SlotDone, Slot, Done
<1>2. turn \in DOMAIN sched
  BY <1>1 DEF SchedInv, Turns
<1>3. /\ frames = << >> /\ DOMAIN frames = {} /\ ~InCall(f)
      /\ f \in Fibers /\ f \in ToSet(sched) /\ place[f] # None /\ FiberInv
      /\ place[f] \in Places /\ mem[place[f]] \in Fields
  BY <1>1, <1>2, TickFacts, SchedFacts, TypeFacts
<1>k. kind # "none"
  <2>1. sched # << >>  BY <1>3, SchedFacts, SeqSet
  <2> QED BY <2>1 DEF SchedInv, Owned
<1>4. /\ FiberInv' /\ place' = place /\ frames' = frames
      /\ \A g \in Fibers : g # f /\ place[g] # None => mem'[place[g]] = mem[place[g]]
      /\ mem'[place[f]].done = mem[place[f]].done
      /\ mem'[place[f]].slice => mem[place[f]].slice
      /\ mem'[place[f]].slice => Done(f) \/ kind = "robin"
  <2>1. CASE Done(f) \/ kind = "robin"
    <3>1. UNCHANGED fiberVars  BY <1>1, <2>1
    <3> QED BY <2>1, <3>1, <1>3, SameFibers DEF fiberVars
  <2>2. CASE ~(Done(f) \/ kind = "robin")
    <3> DEFINE new == [mem[place[f]] EXCEPT !.slice = FALSE]
    <3>1. Assign(f, new)  BY <1>1, <2>2 DEF ClearDeadline
    <3>2. /\ new \in Fields /\ new.done = mem[place[f]].done
          /\ new.errored = mem[place[f]].errored /\ new.slice = FALSE
      BY <1>3 DEF Fields
    <3> HIDE DEF new, f
    <3>3. /\ FiberInv' /\ place' = place /\ frames' = frames /\ mem'[place[f]] = new
          /\ \A g \in Fibers : g # f /\ place[g] # None => mem'[place[g]] = mem[place[g]]
      BY <3>1, <3>2, <1>3, AssignStep
    <3> QED BY <3>2, <3>3
  <2> QED BY <2>1, <2>2
<1> HIDE DEF f
<1>5. \A g \in ToSet(sched) : Done(g)' = Done(g)
  BY <1>4, SchedFacts DEF Done
<1>6. /\ Marked' /\ toRemove' \in Seq(1 .. Cardinality(Fibers))
      /\ turn' \in 0 .. Cardinality(Fibers) + 1 /\ turn' # 0
  BY <1>1, <1>2, <1>5, MarkStep DEF f
<1>7. TypeOK'
  BY <1>1, <1>4, <1>6 DEF SchedInv, TypeOK, FiberInv
<1>8. Owned' /\ Turns'
  BY <1>1, <1>3, <1>4, <1>6 DEF SchedInv, Owned, Turns
<1>9. Slices'
  <2>1. \A g \in Fibers : place[g] # None /\ (g \in ToSet(sched) => kind # "slice") => ~mem'[place[g]].slice
    <3> SUFFICES ASSUME NEW g \in Fibers, place[g] # None, g \in ToSet(sched) => kind # "slice"
                 PROVE  ~mem'[place[g]].slice
      OBVIOUS
    <3>1. ~mem[place[g]].slice  BY DEF SchedInv, Slices, Slice
    <3> QED BY <3>1, <1>4
  <2>2. ASSUME kind = "slice", NEW i \in DOMAIN sched
        PROVE  mem'[place[sched[i]]].slice => mem'[place[sched[i]]].done
    <3>1. CASE i = turn  BY <3>1, <2>2, <1>4 DEF f, Done
    <3>2. CASE i # turn
      <4>1. sched[i] # f /\ sched[i] \in Fibers /\ place[sched[i]] # None
        BY <3>2, <1>2, SchedFacts DEF f
      <4>2. mem'[place[sched[i]]] = mem[place[sched[i]]]  BY <4>1, <1>4
      <4>3. mem[place[sched[i]]].slice => mem[place[sched[i]]].done
        BY <2>2, <3>2 DEF SchedInv, Slices, SliceIsOfThisTurn
      <4> QED BY <4>2, <4>3
    <3> QED BY <3>1, <3>2
  <2>3. SliceIsOfThisTurn'
    BY <1>1, <1>4, <2>2 DEF SliceIsOfThisTurn
  <2> QED BY <1>1, <1>4, <2>1, <2>3 DEF Slices, Slice
<1> QED BY <1>4, <1>6, <1>7, <1>8, <1>9 DEF SchedInv

\* The slot marked last comes after the others, and its fiber is done.
LEMMA LastMarked ==
    ASSUME SchedInv, turn > Len(sched), toRemove # << >>
    PROVE  /\ Last(toRemove) \in DOMAIN sched /\ Done(sched[Last(toRemove)])
           /\ \A i \in DOMAIN sched : Done(sched[i]) => i <= Last(toRemove)
           /\ Front(toRemove) \in Seq(1 .. Cardinality(Fibers)) /\ Increasing(Front(toRemove))
           /\ ToSet(Front(toRemove)) = {i \in DOMAIN sched : Done(sched[i])} \ {Last(toRemove)}
<1> DEFINE S == 1 .. Cardinality(Fibers)
<1>0. turn \in Nat /\ turn # 0 /\ Len(sched) \in Nat /\ DOMAIN sched = 1 .. Len(sched)
  BY SchedFacts
<1>1. /\ toRemove \in Seq(S) /\ Increasing(toRemove)
      /\ ToSet(toRemove) = {i \in DOMAIN sched : Done(sched[i])}
  <2>1. \A i \in DOMAIN sched : i < turn
    BY <1>0
  <2>2. ToSet(toRemove) = {i \in DOMAIN sched : i < turn /\ Done(sched[i])}
        /\ toRemove \in Seq(S) /\ Increasing(toRemove)
    BY <1>0, MarkedFacts
  <2> HIDE DEF S
  <2> QED BY <2>1, <2>2
<1> HIDE DEF S
<1>2. PICK l \in Nat : l = Len(toRemove)
  BY <1>1, SeqSet
<1>3. /\ DOMAIN toRemove = 1 .. l /\ l > 0 /\ Last(toRemove) = toRemove[l]
      /\ \A j \in 1 .. l : toRemove[j] \in ToSet(toRemove) /\ toRemove[j] \in Nat
  <2>1. DOMAIN toRemove = 1 .. l /\ l > 0
    BY <1>1, <1>2, SeqSet
  <2>2. \A j \in 1 .. l : toRemove[j] \in ToSet(toRemove)
    BY <2>1 DEF ToSet
  <2>3. \A x \in ToSet(toRemove) : x \in Nat
    BY <1>0, <1>1
  <2> QED BY <1>2, <2>1, <2>2, <2>3 DEF Last
<1>4. \A i, j \in 1 .. l : i < j => toRemove[i] < toRemove[j]
  BY <1>1, <1>3 DEF Increasing
<1>5. \A x \in ToSet(toRemove) : x <= toRemove[l]
  <2> SUFFICES ASSUME NEW j \in 1 .. l PROVE toRemove[j] <= toRemove[l]
    BY <1>3 DEF ToSet
  <2>1. CASE j = l  BY <2>1, <1>3
  <2>2. CASE j # l  BY <2>2, <1>2, <1>3, <1>4
  <2> QED BY <2>1, <2>2
<1>6. IsInjective(toRemove)
  <2>1. \A i, j \in 1 .. l : i # j => toRemove[i] # toRemove[j]
    <3> SUFFICES ASSUME NEW i \in 1 .. l, NEW j \in 1 .. l, i # j PROVE toRemove[i] # toRemove[j]
      OBVIOUS
    <3>1. i < j \/ j < i  BY <1>2
    <3> QED BY <3>1, <1>3, <1>4
  <2> QED BY <2>1, <1>3 DEF IsInjective
<1>7. /\ Front(toRemove) \in Seq(S) /\ Len(Front(toRemove)) = l - 1
      /\ ToSet(Front(toRemove)) = ToSet(toRemove) \ {Last(toRemove)}
  BY <1>1, <1>2, <1>6, FrontSet
<1>8. Increasing(Front(toRemove))
  <2>1. DOMAIN Front(toRemove) = 1 .. l - 1
    BY <1>7, LenProperties
  <2>2. \A j \in 1 .. l - 1 : Front(toRemove)[j] = toRemove[j]
    BY <1>1, <1>2, <1>3, SubSeqProperties DEF Front
  <2> QED BY <2>1, <2>2, <1>2, <1>4 DEF Increasing
<1> QED BY <1>1, <1>3, <1>5, <1>7, <1>8 DEF S

\* swap_remove, back to front: a fiber that is done is dropped, and the one that takes
\* its slot, and in a TimeSliceScheduler its place, is not done.
LEMMA TickRemovesKept ==
    ASSUME SchedInv, TickRemoves
    PROVE  /\ SchedInv'
           /\ ToSet(sched) \ ToSet(sched') \subseteq {sched[Last(toRemove)]}
           /\ Done(sched[Last(toRemove)])
<1>l. PICK k : k = Last(toRemove)
  OBVIOUS
<1>f. PICK f : f = sched[k]
  OBVIOUS
<1>g. PICK last : last = Last(sched)
  OBVIOUS
<1>1. /\ Running = Host /\ turn > Len(sched) /\ toRemove # << >>
      /\ toRemove' = Front(toRemove) /\ UNCHANGED <<kind, turn, stepping>>
      /\ UNCHANGED <<activeT, activeF, frames, yields>>
      /\ sched' = SwapRemove(sched, k) /\ Forget(f)
  BY <1>l, <1>f DEF TickRemoves, SwapRemoveSlot
<1>2. /\ k \in DOMAIN sched /\ Done(f)
      /\ \A i \in DOMAIN sched : Done(sched[i]) => i <= k
      /\ toRemove' \in Seq(1 .. Cardinality(Fibers)) /\ Increasing(toRemove')
      /\ ToSet(toRemove') = {i \in DOMAIN sched : Done(sched[i])} \ {k}
  BY <1>1, <1>l, <1>f, LastMarked
<1>3. PICK n \in Nat : n = Len(sched)
  BY SchedFacts
<1>4. /\ DOMAIN sched = 1 .. n /\ last = sched[n] /\ n \in DOMAIN sched
      /\ f \in ToSet(sched) /\ f \in Fibers /\ last \in ToSet(sched) /\ last \in Fibers
      /\ k = n <=> f = last
  <2>1. DOMAIN sched = 1 .. n /\ last = sched[n]
    BY <1>3, <1>g, SchedFacts DEF Last
  <2>2. n \in DOMAIN sched
    BY <2>1, <1>2
  <2> QED BY <2>1, <2>2, <1>2, <1>f, SchedFacts
<1>5. /\ sched' \in Seq(Fibers) /\ IsInjective(sched')
      /\ DOMAIN sched' = 1 .. n - 1
      /\ ToSet(sched') = ToSet(sched) \ {f}
      /\ \A i \in 1 .. n - 1 : sched'[i] = IF i = k THEN last ELSE sched[i]
  <2>1. IsInjective(sched) /\ sched \in Seq(Fibers)
    BY SchedFacts DEF SchedInv, Owned
  <2>2. /\ sched' \in Seq(Fibers) /\ Len(sched') = n - 1 /\ IsInjective(sched')
        /\ ToSet(sched') = ToSet(sched) \ {f}
        /\ \A i \in DOMAIN sched : i # n => sched'[i] = IF i = k THEN last ELSE sched[i]
    <3>1. k \in DOMAIN sched  BY <1>2
    <3>2. /\ SwapRemove(sched, k) \in Seq(Fibers) /\ Len(SwapRemove(sched, k)) = Len(sched) - 1
          /\ \A j \in DOMAIN sched :
                j # Len(sched) => SwapRemove(sched, k)[j] = IF j = k THEN Last(sched) ELSE sched[j]
          /\ IsInjective(SwapRemove(sched, k))
          /\ ToSet(SwapRemove(sched, k)) = ToSet(sched) \ {sched[k]}
      BY <2>1, <3>1, SwapRemoves
    <3> QED BY <3>2, <1>1, <1>3, <1>f, <1>g
  <2>3. DOMAIN sched' = 1 .. n - 1
    BY <2>2, LenProperties
  <2> QED BY <2>2, <2>3, <1>4
<1>6. /\ frames = << >> /\ DOMAIN frames = {} /\ \A g : ~InCall(g)
      /\ turn # 0 /\ ~stepping /\ FiberInv /\ place[f] # None /\ place[last] # None
      /\ turn \in Nat /\ turn > n
  BY <1>1, <1>3, <1>4, TickFacts, SchedFacts DEF SchedInv, Turns
<1>7. \A g, h \in Fibers : place[g] # None /\ place[g] = place[h] => g = h
  BY <1>6 DEF FiberInv, Homes
<1>8. /\ place' \in [Fibers -> Places \cup {None}] /\ mem' \in [Places -> Fields]
      /\ place'[f] = None
      /\ \A g \in Fibers : g # f => /\ place'[g] = None <=> place[g] = None
                                    /\ place[g] # None => mem'[place'[g]] = mem[place[g]]
      /\ \A g, h \in Fibers \ {f} : place'[g] # None /\ place'[g] = place'[h] => g = h
  <2>0. /\ place[f] \in Places /\ place[last] \in Places
        /\ LeftBehind(place[f]) \in Fields /\ LeftBehind(place[last]) \in Fields
        /\ mem[place[last]] \in Fields
    BY <1>4, <1>6, TypeFacts, LeftBehindType
  <2>1. CASE f = last \/ kind = "robin"
    <3>1. /\ place' = [[place EXCEPT ![last] = place[last]] EXCEPT ![f] = None]
          /\ mem' = [mem EXCEPT ![place[f]] = LeftBehind(place[f])]
      <4>1. mem' = [mem EXCEPT ![place[f]] = LeftBehind(place[f])]
        BY <2>1, <1>1, <1>l, <1>f, <1>g DEF TickRemoves, SwapRemoveSlot
      <4>2. CASE kind = "robin"
        BY <4>1, <4>2, <1>l, <1>f, <1>g DEF TickRemoves, SwapRemoveSlot
      <4>3. CASE f = last
        BY <4>1, <4>3, <1>l, <1>f, <1>g DEF TickRemoves, SwapRemoveSlot
      <4> QED BY <2>1, <4>2, <4>3
    <3>2. place'[f] = None /\ \A g \in Fibers : g # f => place'[g] = place[g]
      BY <3>1, <1>4, TypeFacts, <1>6
    <3>3. \A g \in Fibers : g # f /\ place[g] # None => mem'[place[g]] = mem[place[g]]
      BY <3>1, <1>4, <1>6, <1>7, TypeFacts
    <3>4. place' \in [Fibers -> Places \cup {None}] /\ mem' \in [Places -> Fields]
      BY <3>1, <2>0, <1>6, TypeFacts
    <3> QED BY <3>2, <3>3, <3>4, <1>7
  <2>2. CASE f # last /\ kind # "robin"
    <3>1. /\ kind = "slice"
          /\ place' = [[place EXCEPT ![last] = place[f]] EXCEPT ![f] = None]
          /\ mem' = [mem EXCEPT ![place[f]] = mem[place[last]], ![place[last]] = LeftBehind(place[last])]
      <4>1. kind = "slice"
        <5>1. sched # << >>  BY <1>4, SchedFacts, SeqSet
        <5> QED BY <5>1, <2>2 DEF SchedInv, Owned, TypeOK
      <4> QED BY <4>1, <2>2, <1>l, <1>f, <1>g DEF TickRemoves, SwapRemoveSlot
    <3>2. /\ place'[f] = None /\ place'[last] = place[f]
          /\ \A g \in Fibers : g # f /\ g # last => place'[g] = place[g]
      BY <3>1, <2>2, <1>4, TypeFacts, <1>6
    <3>3. place[f] # place[last]
      BY <2>2, <1>4, <1>6, <1>7
    <3>4. /\ mem'[place[f]] = mem[place[last]]
          /\ \A q \in Places : q # place[f] /\ q # place[last] => mem'[q] = mem[q]
      BY <3>1, <3>3, <2>0, <1>6, TypeFacts
    <3>5. \A g \in Fibers : g # f /\ place[g] # None => mem'[place'[g]] = mem[place[g]]
      <4> SUFFICES ASSUME NEW g \in Fibers, g # f, place[g] # None
                   PROVE  mem'[place'[g]] = mem[place[g]]
        OBVIOUS
      <4>1. CASE g = last  BY <4>1, <3>2, <3>4
      <4>2. CASE g # last
        <5>1. place[g] \in Places /\ place[g] # place[f] /\ place[g] # place[last]
          BY <4>2, <1>4, <1>6, <1>7, TypeFacts
        <5> QED BY <5>1, <4>2, <3>2, <3>4
      <4> QED BY <4>1, <4>2
    <3>6. place' \in [Fibers -> Places \cup {None}] /\ mem' \in [Places -> Fields]
      BY <3>1, <2>0, <1>6, TypeFacts
    <3>7. \A g, h \in Fibers \ {f} : place'[g] # None /\ place'[g] = place'[h] => g = h
      BY <3>2, <1>4, <1>6, <1>7
    <3>8. \A g \in Fibers : g # f => (place'[g] = None <=> place[g] = None)
      BY <3>2, <1>4, <1>6
    <3> QED BY <3>2, <3>5, <3>6, <3>7, <3>8
  <2> QED BY <2>1, <2>2
<1>9. FiberInv'
  <2>1. Carried({f})  BY <1>6, <1>8 DEF Carried
  <2> QED BY <2>1, <1>1, <1>4, <1>6, <1>8, ForgetStep
<1>10. \A g \in Fibers : g # f /\ place[g] # None =>
         /\ mem'[place'[g]].done = mem[place[g]].done
         /\ mem'[place'[g]].slice = mem[place[g]].slice
  BY <1>8
<1>11. TypeOK'
  BY <1>1, <1>2, <1>5, <1>9 DEF SchedInv, TypeOK, FiberInv
<1>12. Owned'
  <2>1. kind # "none"
    <3>1. sched # << >>  BY <1>4, SchedFacts, SeqSet
    <3> QED BY <3>1 DEF SchedInv, Owned
  <2> QED BY <2>1, <1>1, <1>5, <1>8, SchedFacts DEF Owned
<1>13. Turns'
  BY <1>1, <1>6 DEF Turns
<1>14. Marked'
  <2>1. \A i \in 1 .. n - 1 : /\ i \in DOMAIN sched /\ i < turn /\ i # n
                              /\ i # k => sched'[i] = sched[i] /\ sched[i] \in Fibers
                                          /\ sched[i] # f /\ place[sched[i]] # None
                              /\ i = k => sched'[i] = last
    BY <1>2, <1>3, <1>4, <1>5, <1>6, <1>f, SchedFacts
  <2>2. \A i \in 1 .. n - 1 : i # k =>
           mem'[place'[sched'[i]]].done = mem[place[sched[i]]].done
    BY <2>1, <1>10
  <2>3. k # n => ~Done(sched[n]) /\ ~mem'[place'[last]].done
    <3>1. k # n => ~Done(sched[n])
      BY <1>2, <1>3, <1>4
    <3> QED BY <3>1, <1>4, <1>6, <1>10 DEF Done
  <2>4. ASSUME NEW i \in 1 .. n - 1
        PROVE  mem'[place'[sched'[i]]].done <=> Done(sched[i]) /\ i # k
    <3>1. CASE i = k
      <4>1. k # n /\ sched'[i] = last  BY <3>1, <2>1
      <4> QED BY <4>1, <3>1, <2>3
    <3>2. CASE i # k  BY <3>2, <2>2 DEF Done
    <3> QED BY <3>1, <3>2
  <2>5. \A i \in DOMAIN sched : i = n \/ i \in 1 .. n - 1
    BY <1>3, <1>4
  <2>6. {i \in 1 .. n - 1 : i < turn /\ mem'[place'[sched'[i]]].done}
        = {i \in DOMAIN sched : Done(sched[i])} \ {k}
    BY <2>1, <2>3, <2>4, <2>5
  <2>7. ToSet(toRemove') = {i \in DOMAIN sched' : i < turn' /\ mem'[place'[sched'[i]]].done}
    BY <2>6, <1>1, <1>2, <1>5
  <2> QED BY <2>7, <1>2 DEF Marked, Increasing, Done
<1>15. Slices'
  <2>1. \A g \in Fibers : place'[g] # None /\ (g \in ToSet(sched') => kind # "slice") => ~mem'[place'[g]].slice
    <3> SUFFICES ASSUME NEW g \in Fibers, place'[g] # None, g \in ToSet(sched') => kind # "slice"
                 PROVE  ~mem'[place'[g]].slice
      OBVIOUS
    <3>1. g # f /\ place[g] # None  BY <1>8
    <3>2. g \in ToSet(sched) => kind # "slice"  BY <3>1, <1>5
    <3>3. ~mem[place[g]].slice  BY <3>1, <3>2 DEF SchedInv, Slices, Slice
    <3> QED BY <3>1, <3>3, <1>10
  <2>2. ASSUME kind = "slice", NEW g \in ToSet(sched')
        PROVE  mem'[place'[g]].slice => mem'[place'[g]].done
    <3>1. g \in ToSet(sched) /\ g # f /\ g \in Fibers /\ place[g] # None
      BY <1>5, SchedFacts
    <3>2. mem[place[g]].slice => mem[place[g]].done
      BY <2>2, <3>1, <1>1, <1>6, TickFacts DEF Slice, Done
    <3> QED BY <3>1, <3>2, <1>10
  <2>3. SliceIsOfThisTurn'
    BY <1>1, <1>6, <2>2 DEF SliceIsOfThisTurn, ToSet
  <2> QED BY <1>1, <2>1, <2>3 DEF Slices, Slice
<1> QED BY <1>2, <1>5, <1>9, <1>11, <1>12, <1>13, <1>14, <1>15, <1>l, <1>f DEF SchedInv

-----------------------------------------------------------------------------
(* The theorems. *)

\* At first there is no fiber, and no scheduler that holds one.
LEMMA SchedInitInv == ASSUME Init PROVE SchedInv
<1>0. /\ FiberInv /\ kind = "none" /\ sched = << >> /\ turn = 0 /\ stepping = FALSE
      /\ toRemove = << >> /\ frames = << >> /\ \A f \in Fibers : place[f] = None
  BY FiberInitInv DEF Init, FiberInit
<1>1. /\ ToSet(<< >>) = {} /\ DOMAIN << >> = {} /\ IsInjective(<< >>)
      /\ << >> \in Seq(Fibers) /\ << >> \in Seq(1 .. Cardinality(Fibers))
  <2>1. << >> \in Seq(Fibers) /\ << >> \in Seq(1 .. Cardinality(Fibers)) /\ Len(<< >>) = 0
    BY EmptySeq
  <2>2. ToSet(<< >>) = {} /\ DOMAIN << >> = 1 .. 0  BY <2>1, SeqSet
  <2> QED BY <2>1, <2>2 DEF IsInjective
<1>2. TypeOK
  <2>1. Cardinality(Fibers) \in Nat  BY FiberAssumption, FS_CardinalityType
  <2>2. 0 \in 0 .. Cardinality(Fibers) + 1  BY <2>1
  <2> QED BY <1>0, <1>1, <2>2 DEF TypeOK, FiberInv
<1>3. Owned /\ Turns /\ Marked
  BY <1>0, <1>1 DEF Owned, Turns, Marked, Increasing
<1>4. Slices
  BY <1>0, <1>1 DEF Slices, SliceIsOfThisTurn
<1> QED BY <1>0, <1>2, <1>3, <1>4 DEF SchedInv

\* Every step keeps the invariant.
LEMMA SchedStep == ASSUME SchedInv, [Next]_vars PROVE SchedInv'
<1>1. CASE ByHand  BY <1>1, ByHandStep
<1>2. CASE Inside  BY <1>2, InsideKept DEF Inside
<1>3. CASE ThreadExits \/ UNCHANGED vars  BY <1>3, QuietKept
<1>4. CASE Tick
  BY <1>4, TickGoesOn, TickStepsKept, TickSteppedKept, TickRemovesKept DEF Tick
<1>5. ASSUME NEW f \in Fibers, SpawnSlice(f) \/ SpawnRobin(f) PROVE SchedInv'
  BY <1>5, SpawnKept
<1> QED BY <1>1, <1>2, <1>3, <1>4, <1>5 DEF Next

LEMMA AlwaysSchedInv == Spec => []SchedInv
<1>1. Init => SchedInv  BY SchedInitInv
<1>2. SchedInv /\ [Next]_vars => SchedInv'  BY SchedStep
<1> QED BY <1>1, <1>2, PTL DEF Spec

\* The fields of every Fiber, the stacks, the pool, the calls of resume and the locals of
\* tick stay of their types: a position tick marks is one of a slot.
THEOREM TypeCorrect == Spec => []TypeOK
<1>1. SchedInv => TypeOK  BY DEF SchedInv
<1> QED BY <1>1, AlwaysSchedInv, PTL

\* Stack::new and Drop: whatever is reused, kept or unmapped, a mapping has one owner, a
\* fiber or the pool, and what has none is unmapped.
THEOREM StacksAreOwnedOnce == Spec => []MappedOnce
<1>1. SchedInv => MappedOnce  BY InvMapped DEF SchedInv, FiberInv
<1> QED BY <1>1, AlwaysSchedInv, PTL

\* resume and the switch back into it: the thread-locals name the fiber that runs, at the
\* place it is at, through nested resumes, yields, panics, moves and ticks.
THEOREM ThreadLocalsAreRight == Spec => []ActiveIsRunning
<1>1. SchedInv => ActiveIsRunning  BY DEF SchedInv, FiberInv
<1> QED BY <1>1, AlwaysSchedInv, PTL

\* fiber_run writes through the back pointers that resume set again: a Fiber says of its
\* closure what happened to it, wherever it has moved meanwhile.
THEOREM FatesAreRight == Spec => []FateIsRecorded
<1>1. SchedInv => FateIsRecorded  BY DEF SchedInv, FiberInv
<1> QED BY <1>1, AlwaysSchedInv, PTL

\* TimeSliceScheduler::tick: no fiber waits with a deadline of an earlier round, and the
\* one whose turn it is has its slice.
THEOREM SlicesAreOfTheTurn == Spec => []SliceIsOfThisTurn
<1>1. SchedInv => SliceIsOfThisTurn  BY DEF SchedInv, Slices
<1> QED BY <1>1, AlwaysSchedInv, PTL

\* yield_value, woken by a resume_with, returns what that was given, if the Fiber has not
\* moved since it yielded.  What it returns after a plain resume is left open.
THEOREM InputsArrive == Spec => InputReachesYield
<1>1. SchedInv => [\A f \in Fibers : given[f] # None /\ ptr[f] = place[f] =>
                      \A v \in Values \cup {None} : YieldReturns(f, v) => v = given[f]]_fiberVars
  BY InputArrives DEF SchedInv
<1> QED BY <1>1, AlwaysSchedInv, PTL DEF InputReachesYield

\* with_stack_size: a fiber's stack, new or reused, has the bytes it asked for.
THEOREM StacksFit == Spec => StackFits
<1>1. SchedInv => [\A f \in Fibers : stack[f] = None /\ stack'[f] # None =>
                      \A p \in Places, n \in Requests : New(f, p, n) => len'[stack'[f]] >= n]_fiberVars
  BY StackIsEnough DEF SchedInv
<1> QED BY <1>1, AlwaysSchedInv, PTL DEF StackFits

\* tick drops fibers that are done and no others, and returns with none left.
THEOREM TickRemovesTheFinished == Spec => RemovesTheFinished
<1> DEFINE Removes == /\ \A f \in ToSet(sched) \ ToSet(sched') : mem[place[f]].done
                      /\ TickEnds => \A f \in ToSet(sched) : ~mem[place[f]].done
<1>1. ASSUME SchedInv, [Next]_vars PROVE [Removes]_vars
  <2>1. ASSUME TickEnds, NEW f \in ToSet(sched) PROVE ~mem[place[f]].done
    <3>1. turn > Len(sched) /\ toRemove = << >>  BY <2>1 DEF TickEnds
    <3>2. turn \in Nat /\ turn # 0 /\ \A i \in DOMAIN sched : i < turn
      BY <1>1, <3>1, SchedFacts
    <3>3. ToSet(toRemove) = {}
      BY <1>1, <3>1, <3>2, MarkedFacts, SeqSet
    <3>4. \A i \in DOMAIN sched : ~Done(sched[i])
      BY <1>1, <3>2, <3>3, MarkedFacts
    <3> QED BY <3>4 DEF ToSet, Done
  <2>2. CASE TickRemoves
    <3>1. \A f \in ToSet(sched) \ ToSet(sched') : mem[place[f]].done
      BY <1>1, <2>2, TickRemovesKept DEF Done
    <3> QED BY <2>1, <3>1
  <2>3. CASE ~TickRemoves
    <3>1. sched' = sched \/ \E f \in Fibers : sched' = Append(sched, f)
      BY <1>1, <2>3 DEF Next, ByHand, Inside, ThreadExits, Tick, TickBegins, TickSkips, TickSteps,
         TickPanics, TickStepped, TickEnds, SpawnSlice, SpawnRobin, schedVars, vars
    <3>2. ToSet(sched) \subseteq ToSet(sched')
      BY <1>1, <3>1, SchedFacts, AppendSet
    <3> QED BY <2>1, <3>2
  <2> QED BY <2>2, <2>3
<1> QED BY <1>1, AlwaysSchedInv, PTL DEF Spec, RemovesTheFinished
=============================================================================
