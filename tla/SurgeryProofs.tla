--------------------------- MODULE SurgeryProofs ---------------------------
(***************************************************************************)
(* The transform of Surgery.tla makes state machines, for every region     *)
(* that the IR builder lays out as the contract says (LaidOut,             *)
(* Surgery.tla): there is a role for every block of what Transform leaves, *)
(* such that every block does what its role says and leads to blocks whose *)
(* roles go on from there (Machines). This is what ExecutorProofs needs to *)
(* know of the transform.                                                  *)
(*                                                                         *)
(* The argument follows the code. Discovery lists every statement once, so *)
(* that the points of a coroutine are its suspensions, one to a block.     *)
(* Each cut leaves fragments of a machine (CutPlainKeeps, CutFirstKeeps,   *)
(* CutBehindKeeps), build_state_machine adds the switch and the way out    *)
(* (BuildMakes), a machine is added for one coroutine after the other      *)
(* (OneMore), the markers are erased wherever they are by then             *)
(* (EraseKeeps), and the head of the region is split off (FinishMakes).    *)
(***************************************************************************)
EXTENDS Executor, QueueLemmas

-----------------------------------------------------------------------------
(* What a transformed coroutine is: the role of every block. *)

\* What is used of a sequence of whatever elements.
IsList(s) == Len(s) \in Nat /\ DOMAIN s = 1 .. Len(s)

\* How many statements of its source src a coroutine has behind it where point n resumes
\* it: those before a guard, which it looks at again, and those up to a yield or a send.
ResumesAt(src, pts, n) ==
    IF n = 0 THEN 0
    ELSE IF src[pts[n][3].src][1] = "GuardedRecv" THEN pts[n][3].src - 1 ELSE pts[n][3].src

\* The role of a block: whose machine it belongs to, and what has happened when the machine
\* comes to it.
Role(kind, c, i, p) == [kind |-> kind, who |-> c, at |-> i, poll |-> p]

\* The switch of coroutine c.
Enters(c) == Role("enters", c, 0, "")

\* Coroutine c has i statements behind it.
At(c, i) == Role("at", c, i, "")

\* Coroutine c has found its guard, statement i + 1, open.
Let(c, i) == Role("let", c, i, "")

\* Coroutine c leaves in state n with poll result p.
Out(c, n, p) == Role("out", c, n, p)

\* Coroutine c has set both.
Exits(c) == Role("exits", c, 0, "")

\* Block b is there, in role x.
Is(g, role, b, x) == b \in DOMAIN g /\ role[b] = x

\* The statements i + 1 .. j of src are Puts.
Puts(src, i, j) == \A n \in i + 1 .. j : src[n][1] = "Put"

\* Statement s of a block takes a coroutine from i statements behind it to j: a marker or what
\* is left of a yield, or a statement of the source itself.
Step(src, i, s, j) ==
    \/ /\ s.op \in {"Nop", "RegionBegin", "RegionEnd", "CoroutineBegin", "CoroutineEnd"}
       /\ j = i \/ (j = i + 1 /\ j \in DOMAIN src /\ src[j][1] = "Yield")
    \/ /\ j = i + 1 /\ j \in DOMAIN src /\ src[j][1] \in {"Put", "ProducingSend"}
       /\ s = Operation(src[j][1], src[j][2], j)

\* The statements of a block behind `from` take a coroutine from i to j.
Reads(src, stmts, from, i, j) ==
    \E f \in [from .. Len(stmts) -> 0 .. Len(src)] :
        /\ f[from] = i /\ f[Len(stmts)] = j
        /\ \A n \in from + 1 .. Len(stmts) : Step(src, f[n - 1], stmts[n], f[n])

\* A goto behind such a block leads to one that goes on from there; only Puts may then have
\* been read on the way, or the coroutine leaves: at a suspension point, or done.
Leads(c, src, pts, g, role, i, j, t) ==
    /\ t.kind = "goto"
    /\ \/ Is(g, role, t.to, At(c, j)) /\ Puts(src, i, j)
       \/ \E n \in 1 .. Len(pts) :
             Is(g, role, t.to, Out(c, n, "PENDING")) /\ ResumesAt(src, pts, n) = j
       \/ Is(g, role, t.to, Out(c, DONE_STATE, "READY")) /\ j = Len(src)

\* Where switch t goes in state s.
SwitchTo(t, s) ==
    IF \E a \in t.arms : a[1] = s THEN (CHOOSE a \in t.arms : a[1] = s)[2] ELSE t.other

\* Block b does what its role says: it is the switch, it reads on, it looks at a guard, it goes
\* through an open guard, it leaves in a state with the poll result that belongs to it, or it
\* is the exit.
Piece(c, src, pts, g, role, b) ==
    LET x == role[b]
        s == g[b].stmts
        t == g[b].term
    IN  \/ /\ x = Enters(c) /\ s = << >> /\ t.kind = "switch"
           /\ \A n \in 0 .. Len(pts) : Is(g, role, SwitchTo(t, n), At(c, ResumesAt(src, pts, n)))
        \/ \E i, j \in 0 .. Len(src) :
              x = At(c, i) /\ Reads(src, s, 0, i, j) /\ Leads(c, src, pts, g, role, i, j, t)
        \/ \E i \in 0 .. Len(src) - 1 :
              /\ x = At(c, i) /\ s = << >> /\ src[i + 1][1] = "GuardedRecv"
              /\ t.kind = "branch" /\ t.on = src[i + 1][2]
              /\ Is(g, role, t.yes, Let(c, i))
              /\ \E n \in 1 .. Len(pts) :
                    Is(g, role, t.no, Out(c, n, "BLOCKED")) /\ ResumesAt(src, pts, n) = i
        \/ \E i \in 0 .. Len(src) - 1, j \in 0 .. Len(src) :
              /\ x = Let(c, i) /\ src[i + 1][1] = "GuardedRecv" /\ Len(s) > 1
              /\ s[1] = Assign("progress", 1) /\ s[2] = Operation("Recv", src[i + 1][2], i + 1)
              /\ Reads(src, s, 2, i + 1, j) /\ Leads(c, src, pts, g, role, i + 1, j, t)
        \/ \E n \in 1 .. Len(pts) \cup {DONE_STATE}, p \in {"PENDING", "BLOCKED", "READY"} :
              /\ (p = "READY") = (n = DONE_STATE)
              /\ x = Out(c, n, p) /\ g[b] = LeaveBlock(n, p, t.to) /\ Is(g, role, t.to, Exits(c))
        \/ x = Exits(c) /\ s = << >> /\ t = Leave

\* The blocks of coroutine c are a machine for source src with points pts, entered at d.
IsMachine(c, src, pts, g, d, role) ==
    /\ IsList(g) /\ Len(pts) \in Nat /\ Len(pts) < DONE_STATE
    /\ \A n \in 1 .. Len(pts) :
          pts[n][3].src \in DOMAIN src /\ src[pts[n][3].src][1] \in Suspensions
    /\ Is(g, role, d, Enters(c))
    /\ \A b \in DOMAIN g : role[b].who = c =>
          IsList(g[b].stmts) /\ Piece(c, src, pts, g, role, b)

\* Every coroutine of the code co has a machine for its body in bo.
Machines(co, bo, role) ==
    \A c \in Coros : IsMachine(c, bo[c], co.points[c], co.blocks, co.dispatch[c], role)

-----------------------------------------------------------------------------
(* Sequences whatever their elements are. *)

\* A sequence, whatever its elements are.
IsSeq(s) == Len(s) \in Nat /\ s = [i \in 1 .. Len(s) |-> s[i]]

\* A function on 1 .. n is a sequence of n elements.
LEMMA FunLen ==
    ASSUME NEW n \in Nat, NEW f, f = [i \in 1 .. n |-> f[i]]
    PROVE  Len(f) = n /\ f \in Seq({f[i] : i \in 1 .. n})
<1> DEFINE T == {f[i] : i \in 1 .. n}
<1>1. f \in [1 .. n -> T]
  OBVIOUS
<1>2. f \in Seq(T)
  BY <1>1, SeqDef
<1> HIDE DEF T
<1>3. DOMAIN f = 1 .. Len(f) /\ Len(f) \in Nat
  BY <1>2, LenProperties
<1>4. DOMAIN f = 1 .. n
  BY <1>1
<1>5. Len(f) = n
  BY <1>3, <1>4
<1> QED BY <1>2, <1>5 DEF T

\* A sequence is one over some set.
LEMMA SeqIs ==
    ASSUME NEW s, IsSeq(s)
    PROVE  IsList(s) /\ \E S : s \in Seq(S)
<1>1. PICK n \in Nat : n = Len(s)
  BY DEF IsSeq
<1>2. s = [i \in 1 .. n |-> s[i]]
  BY <1>1 DEF IsSeq
<1>3. s \in Seq({s[i] : i \in 1 .. n})
  BY <1>2, FunLen
<1>4. DOMAIN s = 1 .. n
  BY <1>2
<1> QED BY <1>1, <1>3, <1>4 DEF IsList

\* What makes a sequence.
LEMMA SeqMade ==
    ASSUME NEW n \in Nat, NEW s, s = [i \in 1 .. n |-> s[i]]
    PROVE  IsSeq(s) /\ Len(s) = n
<1>1. Len(s) = n
  BY FunLen
<1> QED BY <1>1 DEF IsSeq

\* A sequence over a set.
LEMMA SeqTyped ==
    ASSUME NEW S, NEW s \in Seq(S)
    PROVE  IsSeq(s) /\ \A i \in 1 .. Len(s) : s[i] \in S
<1>1. Len(s) \in Nat /\ s \in [1 .. Len(s) -> S]
  BY LenProperties
<1> QED BY <1>1 DEF IsSeq

\* Append, for elements of any kind.
LEMMA SeqAppend ==
    ASSUME NEW s, IsSeq(s), NEW x
    PROVE  /\ IsSeq(Append(s, x)) /\ Len(Append(s, x)) = Len(s) + 1
           /\ \A i \in 1 .. Len(s) : Append(s, x)[i] = s[i]
           /\ Append(s, x)[Len(s) + 1] = x
<1>1. PICK S : s \in Seq(S)
  BY SeqIs
<1>2. s \in Seq(S \cup {x}) /\ x \in S \cup {x}
  BY <1>1, SeqMonotonic
<1>3. PICK T : T = S \cup {x}
  OBVIOUS
<1>4. s \in Seq(T) /\ x \in T
  BY <1>2, <1>3
<1>5. PICK t : t = Append(s, x)
  OBVIOUS
<1>6. t \in Seq(T) /\ Len(t) = Len(s) + 1 /\ t[Len(s) + 1] = x
      /\ \A i \in 1 .. Len(s) : t[i] = s[i]
  BY <1>4, <1>5, AppendProperties
<1>7. IsSeq(t)
  BY <1>6, SeqTyped
<1> QED BY <1>5, <1>6, <1>7

\* SubSeq, for elements of any kind.
LEMMA SeqSub ==
    ASSUME NEW s, IsSeq(s), NEW lo \in Int, NEW hi \in Int, lo >= 1, lo <= hi + 1, hi <= Len(s)
    PROVE  /\ IsSeq(SubSeq(s, lo, hi)) /\ Len(SubSeq(s, lo, hi)) = hi - lo + 1
           /\ \A i \in 1 .. hi - lo + 1 : SubSeq(s, lo, hi)[i] = s[lo + i - 1]
<1>1. PICK t : t = SubSeq(s, lo, hi)
  OBVIOUS
<1>2. t = [i \in 1 .. 1 + hi - lo |-> s[i + lo - 1]]
  BY <1>1
<1>3. PICK n \in Nat : n = 1 + hi - lo
  OBVIOUS
<1>4. t = [i \in 1 .. n |-> t[i]]
  BY <1>2, <1>3
<1>5. IsSeq(t) /\ Len(t) = n
  BY <1>4, SeqMade, Zenon
<1>6. \A i \in 1 .. n : t[i] = s[i + lo - 1] /\ i + lo - 1 = lo + i - 1
  BY <1>2, <1>3
<1> QED BY <1>1, <1>3, <1>5, <1>6

\* Concatenation, for elements of any kind.
LEMMA SeqCat ==
    ASSUME NEW s, IsSeq(s), NEW u, IsSeq(u)
    PROVE  /\ IsSeq(s \o u) /\ Len(s \o u) = Len(s) + Len(u)
           /\ \A i \in 1 .. Len(s) : (s \o u)[i] = s[i]
           /\ \A i \in 1 .. Len(u) : (s \o u)[Len(s) + i] = u[i]
<1>1. PICK S : s \in Seq(S)
  BY SeqIs
<1>2. PICK U : u \in Seq(U)
  BY SeqIs
<1>3. PICK T : T = S \cup U
  OBVIOUS
<1>4. s \in Seq(T) /\ u \in Seq(T)
  BY <1>1, <1>2, <1>3, SeqMonotonic
<1>5. PICK t : t = s \o u
  OBVIOUS
<1>n. Len(s) \in Nat /\ Len(u) \in Nat
  BY DEF IsSeq
<1>6. t \in Seq(T) /\ Len(t) = Len(s) + Len(u)
      /\ \A i \in 1 .. Len(s) + Len(u) : t[i] = IF i <= Len(s) THEN s[i] ELSE u[i - Len(s)]
  BY <1>4, <1>5, ConcatProperties
<1>7. IsSeq(t)
  BY <1>6, SeqTyped
<1>8. ASSUME NEW i \in 1 .. Len(u) PROVE t[Len(s) + i] = u[i]
  <2>1. Len(s) + i \in 1 .. Len(s) + Len(u) /\ ~(Len(s) + i <= Len(s)) /\ (Len(s) + i) - Len(s) = i
    BY <1>n
  <2> QED BY <2>1, <1>6
<1>9. \A i \in 1 .. Len(s) : t[i] = s[i]
  BY <1>n, <1>6
<1> QED BY <1>5, <1>6, <1>7, <1>8, <1>9

-----------------------------------------------------------------------------
(* Folds.                                                                   *)

\* One step of find_suspension_points.
Found(g, coro, ps, x) == IF Inside(BodyBlocks(g, coro), coro, x) THEN Append(ps, x) ELSE ps

\* The folds of the transform, unfolded.  An operator cannot be a parameter of a lemma, so
\* each fold has its own, with the same proof: a function on the subsets 1 .. i exists that
\* solves the fold's recursion, by induction on i.  First Coordinates.
LEMMA WalkSteps ==
    ASSUME NEW g, NEW seq, seq = Indices(g), NEW n \in Nat, DOMAIN seq = 1 .. n
    PROVE  \E h : /\ h[0] = << >>
                  /\ \A i \in 1 .. n : h[i] = Walk(g, h[i - 1], seq[i])
                  /\ Coordinates(g) = h[n]
<1> DEFINE
           first == << >>
           Solves(fn, u) ==
              fn = [s \in SUBSET (1 .. u) |->
                     IF s = {} THEN first ELSE Walk(g, fn[s \ {Max(s)}], seq[Max(s)])]
           good == {u \in 0 .. n : \E fn : Solves(fn, u)}
<1> HIDE DEF first
<1>1. 0 \in good
  <2>1. Solves([s \in SUBSET (1 .. 0) |-> first], 0)
    OBVIOUS
  <2> HIDE DEF Solves
  <2> QED BY <2>1
<1>2. ASSUME NEW i \in 0 .. n - 1, i \in good PROVE i + 1 \in good
  <2>1. PICK fn : Solves(fn, i)
    BY <1>2
  <2>2. PICK h : h = [s \in SUBSET (1 .. i + 1) |->
                      IF i + 1 \in s THEN Walk(g, fn[s \ {i + 1}], seq[(i + 1)]) ELSE fn[s]]
    OBVIOUS
  <2>3. ASSUME NEW s \in SUBSET (1 .. i + 1)
        PROVE  h[s] = IF s = {} THEN first ELSE Walk(g, h[s \ {Max(s)}], seq[Max(s)])
    <3>1. CASE i + 1 \in s
      <4>1. Max(s) = i + 1 /\ s \ {i + 1} \in SUBSET (1 .. i)
        BY <3>1, MaxOfUpTo
      <4>2. h[s] = Walk(g, fn[s \ {i + 1}], seq[(i + 1)]) /\ h[s \ {i + 1}] = fn[s \ {i + 1}] /\ s # {}
        BY <2>2, <3>1, <4>1
      <4> QED BY <4>1, <4>2
    <3>2. CASE i + 1 \notin s
      <4>0. PICK x : x = Max(s)
        OBVIOUS
      <4>a. \A y \in s : y \in 1 .. i
        BY <3>2
      <4>1. s \in SUBSET (1 .. i) /\ s \ {x} \in SUBSET (1 .. i) /\ i + 1 \notin s \ {x}
        <5> HIDE DEF Solves, good
        <5> QED BY <4>a, <3>2
      <4>2. h[s] = fn[s] /\ h[s \ {x}] = fn[s \ {x}]
        BY <2>2, <3>2, <4>1
      <4>3. fn[s] = IF s = {} THEN first ELSE Walk(g, fn[s \ {Max(s)}], seq[Max(s)])
        BY <2>1, <4>1
      <4> QED BY <4>0, <4>2, <4>3
    <3> QED BY <3>1, <3>2
  <2>4. h = [s \in SUBSET (1 .. i + 1) |->
               IF s = {} THEN first ELSE Walk(g, h[s \ {Max(s)}], seq[Max(s)])]
    BY <2>2, <2>3
  <2>5. Solves(h, i + 1)
    BY <2>4, Zenon
  <2> HIDE DEF Solves
  <2> QED BY <2>5
<1>3. n \in good
  <2> HIDE DEF good
  <2>1. \A i \in 0 .. n : i \in good
    BY <1>1, <1>2, Upwards
  <2> QED BY <2>1
<1>4. PICK f : Solves(f, n) /\ Coordinates(g) = f[1 .. n]
  BY <1>3 DEF Coordinates, FoldLeft, MapThenFoldSet, first
<1>5. ASSUME NEW i \in 1 .. n PROVE f[1 .. i] = Walk(g, f[1 .. i - 1], seq[i])
  <2>1. Max(1 .. i) = i /\ 1 .. i # {} /\ (1 .. i) \ {i} = 1 .. i - 1 /\ 1 .. i \in SUBSET (1 .. n)
    BY UpTo
  <2>2. f[1 .. i] = Walk(g, f[1 .. i - 1], seq[i])
    BY <1>4, <2>1
  <2> QED BY <2>2
<1>6. f[1 .. 0] = first
  <2>1. 1 .. 0 = {} /\ 1 .. 0 \in SUBSET (1 .. n)
    OBVIOUS
  <2> QED BY <1>4, <2>1
<1>7. PICK h : h = [i \in 0 .. n |-> f[1 .. i]]
  OBVIOUS
<1>8. h[0] = first /\ h[n] = f[1 .. n] /\ \A i \in 1 .. n : h[i] = f[1 .. i] /\ h[i - 1] = f[1 .. i - 1]
  BY <1>6, <1>7
<1> QED BY <1>4, <1>5, <1>8 DEF first

\* FindSuspensionPoints, unfolded.
LEMMA PointSteps ==
    ASSUME NEW g, NEW coro, NEW seq, seq = Coordinates(g), NEW n \in Nat, DOMAIN seq = 1 .. n
    PROVE  \E h : /\ h[0] = << >>
                  /\ \A i \in 1 .. n : h[i] = Found(g, coro, h[i - 1], seq[i])
                  /\ FindSuspensionPoints(g, coro) = h[n]
<1> DEFINE
           first == << >>
           Solves(fn, u) ==
              fn = [s \in SUBSET (1 .. u) |->
                     IF s = {} THEN first ELSE Found(g, coro, fn[s \ {Max(s)}], seq[Max(s)])]
           good == {u \in 0 .. n : \E fn : Solves(fn, u)}
<1> HIDE DEF first
<1>1. 0 \in good
  <2>1. Solves([s \in SUBSET (1 .. 0) |-> first], 0)
    OBVIOUS
  <2> HIDE DEF Solves
  <2> QED BY <2>1
<1>2. ASSUME NEW i \in 0 .. n - 1, i \in good PROVE i + 1 \in good
  <2>1. PICK fn : Solves(fn, i)
    BY <1>2
  <2>2. PICK h : h = [s \in SUBSET (1 .. i + 1) |->
                      IF i + 1 \in s THEN Found(g, coro, fn[s \ {i + 1}], seq[(i + 1)]) ELSE fn[s]]
    OBVIOUS
  <2>3. ASSUME NEW s \in SUBSET (1 .. i + 1)
        PROVE  h[s] = IF s = {} THEN first ELSE Found(g, coro, h[s \ {Max(s)}], seq[Max(s)])
    <3>1. CASE i + 1 \in s
      <4>1. Max(s) = i + 1 /\ s \ {i + 1} \in SUBSET (1 .. i)
        BY <3>1, MaxOfUpTo
      <4>2. h[s] = Found(g, coro, fn[s \ {i + 1}], seq[(i + 1)]) /\ h[s \ {i + 1}] = fn[s \ {i + 1}] /\ s # {}
        BY <2>2, <3>1, <4>1
      <4> QED BY <4>1, <4>2
    <3>2. CASE i + 1 \notin s
      <4>0. PICK x : x = Max(s)
        OBVIOUS
      <4>a. \A y \in s : y \in 1 .. i
        BY <3>2
      <4>1. s \in SUBSET (1 .. i) /\ s \ {x} \in SUBSET (1 .. i) /\ i + 1 \notin s \ {x}
        <5> HIDE DEF Solves, good
        <5> QED BY <4>a, <3>2
      <4>2. h[s] = fn[s] /\ h[s \ {x}] = fn[s \ {x}]
        BY <2>2, <3>2, <4>1
      <4>3. fn[s] = IF s = {} THEN first ELSE Found(g, coro, fn[s \ {Max(s)}], seq[Max(s)])
        BY <2>1, <4>1
      <4> QED BY <4>0, <4>2, <4>3
    <3> QED BY <3>1, <3>2
  <2>4. h = [s \in SUBSET (1 .. i + 1) |->
               IF s = {} THEN first ELSE Found(g, coro, h[s \ {Max(s)}], seq[Max(s)])]
    BY <2>2, <2>3
  <2>5. Solves(h, i + 1)
    BY <2>4, Zenon
  <2> HIDE DEF Solves
  <2> QED BY <2>5
<1>3. n \in good
  <2> HIDE DEF good
  <2>1. \A i \in 0 .. n : i \in good
    BY <1>1, <1>2, Upwards
  <2> QED BY <2>1
<1>4. PICK f : Solves(f, n) /\ FindSuspensionPoints(g, coro) = f[1 .. n]
  BY ZenonT(40), <1>3 DEF FindSuspensionPoints, FoldLeft, MapThenFoldSet, Found, first
<1>5. ASSUME NEW i \in 1 .. n PROVE f[1 .. i] = Found(g, coro, f[1 .. i - 1], seq[i])
  <2>1. Max(1 .. i) = i /\ 1 .. i # {} /\ (1 .. i) \ {i} = 1 .. i - 1 /\ 1 .. i \in SUBSET (1 .. n)
    BY UpTo
  <2>2. f[1 .. i] = Found(g, coro, f[1 .. i - 1], seq[i])
    BY <1>4, <2>1
  <2> QED BY <2>2
<1>6. f[1 .. 0] = first
  <2>1. 1 .. 0 = {} /\ 1 .. 0 \in SUBSET (1 .. n)
    OBVIOUS
  <2> QED BY <1>4, <2>1
<1>7. PICK h : h = [i \in 0 .. n |-> f[1 .. i]]
  OBVIOUS
<1>8. h[0] = first /\ h[n] = f[1 .. n] /\ \A i \in 1 .. n : h[i] = f[1 .. i] /\ h[i - 1] = f[1 .. i - 1]
  BY <1>6, <1>7
<1> QED BY <1>4, <1>5, <1>8 DEF first

\* h is what CutAll has made after each point.
CutFold(h, g, coro, points, n) ==
    /\ h[0] = Scaffold(g, coro)
    /\ \A i \in 1 .. n : h[i] = Cut(h[i - 1], points, i, Len(g) + 2)
    /\ CutAll(g, coro, points) = h[n]

\* CutAll, unfolded.
LEMMA CutSteps ==
    ASSUME NEW g, NEW coro, NEW points, NEW n \in Nat, DOMAIN points = 1 .. n
    PROVE  \E h : CutFold(h, g, coro, points, n)
<1> PICK seq : seq = Indices(points)
  OBVIOUS
<1>a. DOMAIN seq = 1 .. n
  BY DEF Indices
<1>b. \A i \in 1 .. n : seq[i] = i
  BY DEF Indices
<1> DEFINE
           first == Scaffold(g, coro)
           Solves(fn, u) ==
              fn = [s \in SUBSET (1 .. u) |->
                     IF s = {} THEN first ELSE Cut(fn[s \ {Max(s)}], points, seq[Max(s)], Len(g) + 2)]
           good == {u \in 0 .. n : \E fn : Solves(fn, u)}
<1> HIDE DEF first
<1>1. 0 \in good
  <2>1. Solves([s \in SUBSET (1 .. 0) |-> first], 0)
    OBVIOUS
  <2> HIDE DEF Solves
  <2> QED BY <2>1
<1>2. ASSUME NEW i \in 0 .. n - 1, i \in good PROVE i + 1 \in good
  <2>1. PICK fn : Solves(fn, i)
    BY <1>2
  <2>2. PICK h : h = [s \in SUBSET (1 .. i + 1) |->
                      IF i + 1 \in s THEN Cut(fn[s \ {i + 1}], points, seq[(i + 1)], Len(g) + 2) ELSE fn[s]]
    OBVIOUS
  <2>3. ASSUME NEW s \in SUBSET (1 .. i + 1)
        PROVE  h[s] = IF s = {} THEN first ELSE Cut(h[s \ {Max(s)}], points, seq[Max(s)], Len(g) + 2)
    <3>1. CASE i + 1 \in s
      <4>1. Max(s) = i + 1 /\ s \ {i + 1} \in SUBSET (1 .. i)
        BY <3>1, MaxOfUpTo
      <4>2. h[s] = Cut(fn[s \ {i + 1}], points, seq[(i + 1)], Len(g) + 2) /\ h[s \ {i + 1}] = fn[s \ {i + 1}] /\ s # {}
        BY <2>2, <3>1, <4>1
      <4> QED BY <4>1, <4>2
    <3>2. CASE i + 1 \notin s
      <4>0. PICK x : x = Max(s)
        OBVIOUS
      <4>a. \A y \in s : y \in 1 .. i
        BY <3>2
      <4>1. s \in SUBSET (1 .. i) /\ s \ {x} \in SUBSET (1 .. i) /\ i + 1 \notin s \ {x}
        <5> HIDE DEF Solves, good
        <5> QED BY <4>a, <3>2
      <4>2. h[s] = fn[s] /\ h[s \ {x}] = fn[s \ {x}]
        BY <2>2, <3>2, <4>1
      <4>3. fn[s] = IF s = {} THEN first ELSE Cut(fn[s \ {Max(s)}], points, seq[Max(s)], Len(g) + 2)
        BY <2>1, <4>1
      <4> QED BY <4>0, <4>2, <4>3
    <3> QED BY <3>1, <3>2
  <2>4. h = [s \in SUBSET (1 .. i + 1) |->
               IF s = {} THEN first ELSE Cut(h[s \ {Max(s)}], points, seq[Max(s)], Len(g) + 2)]
    BY <2>2, <2>3
  <2>5. Solves(h, i + 1)
    BY <2>4, Zenon
  <2> HIDE DEF Solves
  <2> QED BY <2>5
<1>3. n \in good
  <2> HIDE DEF good
  <2>1. \A i \in 0 .. n : i \in good
    BY <1>1, <1>2, Upwards
  <2> QED BY <2>1
<1>4. PICK f : Solves(f, n) /\ CutAll(g, coro, points) = f[1 .. n]
  BY ZenonT(40), <1>3, <1>a DEF CutAll, FoldLeft, MapThenFoldSet, first
<1>5. ASSUME NEW i \in 1 .. n PROVE f[1 .. i] = Cut(f[1 .. i - 1], points, seq[i], Len(g) + 2)
  <2>1. Max(1 .. i) = i /\ 1 .. i # {} /\ (1 .. i) \ {i} = 1 .. i - 1 /\ 1 .. i \in SUBSET (1 .. n)
    BY UpTo
  <2>2. f[1 .. i] = Cut(f[1 .. i - 1], points, seq[i], Len(g) + 2)
    BY <1>4, <2>1
  <2> QED BY <2>2
<1>6. f[1 .. 0] = first
  <2>1. 1 .. 0 = {} /\ 1 .. 0 \in SUBSET (1 .. n)
    OBVIOUS
  <2> QED BY <1>4, <2>1
<1>7. PICK h : h = [i \in 0 .. n |-> f[1 .. i]]
  OBVIOUS
<1>8. h[0] = first /\ h[n] = f[1 .. n] /\ \A i \in 1 .. n : h[i] = f[1 .. i] /\ h[i - 1] = f[1 .. i - 1]
  BY <1>6, <1>7
<1>9. h[0] = Scaffold(g, coro) /\ CutAll(g, coro, points) = h[n]
  BY <1>4, <1>8 DEF first
<1>10. ASSUME NEW i \in 1 .. n PROVE h[i] = Cut(h[i - 1], points, i, Len(g) + 2)
  BY <1>5, <1>8, <1>b
<1> QED BY <1>9, <1>10 DEF CutFold

\* h is what AddMachines has made after each coroutine.
MachineFold(h, g, coros, n) ==
    /\ h[0] = [blocks |-> g, dispatch |-> << >>, points |-> << >>]
    /\ \A i \in 1 .. n : h[i] = AddMachine(h[i - 1], g, coros[i])
    /\ AddMachines(g, coros) = h[n]

\* AddMachines, unfolded.
LEMMA MachineSteps ==
    ASSUME NEW g, NEW coros, NEW n \in Nat, DOMAIN coros = 1 .. n
    PROVE  \E h : MachineFold(h, g, coros, n)
<1> DEFINE
           first == [blocks |-> g, dispatch |-> << >>, points |-> << >>]
           Solves(fn, u) ==
              fn = [s \in SUBSET (1 .. u) |->
                     IF s = {} THEN first ELSE AddMachine(fn[s \ {Max(s)}], g, coros[Max(s)])]
           good == {u \in 0 .. n : \E fn : Solves(fn, u)}
<1> HIDE DEF first
<1>1. 0 \in good
  <2>1. Solves([s \in SUBSET (1 .. 0) |-> first], 0)
    OBVIOUS
  <2> HIDE DEF Solves
  <2> QED BY <2>1
<1>2. ASSUME NEW i \in 0 .. n - 1, i \in good PROVE i + 1 \in good
  <2>1. PICK fn : Solves(fn, i)
    BY <1>2
  <2>2. PICK h : h = [s \in SUBSET (1 .. i + 1) |->
                      IF i + 1 \in s THEN AddMachine(fn[s \ {i + 1}], g, coros[(i + 1)]) ELSE fn[s]]
    OBVIOUS
  <2>3. ASSUME NEW s \in SUBSET (1 .. i + 1)
        PROVE  h[s] = IF s = {} THEN first ELSE AddMachine(h[s \ {Max(s)}], g, coros[Max(s)])
    <3>1. CASE i + 1 \in s
      <4>1. Max(s) = i + 1 /\ s \ {i + 1} \in SUBSET (1 .. i)
        BY <3>1, MaxOfUpTo
      <4>2. h[s] = AddMachine(fn[s \ {i + 1}], g, coros[(i + 1)]) /\ h[s \ {i + 1}] = fn[s \ {i + 1}] /\ s # {}
        BY <2>2, <3>1, <4>1
      <4> QED BY <4>1, <4>2
    <3>2. CASE i + 1 \notin s
      <4>0. PICK x : x = Max(s)
        OBVIOUS
      <4>a. \A y \in s : y \in 1 .. i
        BY <3>2
      <4>1. s \in SUBSET (1 .. i) /\ s \ {x} \in SUBSET (1 .. i) /\ i + 1 \notin s \ {x}
        <5> HIDE DEF Solves, good
        <5> QED BY <4>a, <3>2
      <4>2. h[s] = fn[s] /\ h[s \ {x}] = fn[s \ {x}]
        BY <2>2, <3>2, <4>1
      <4>3. fn[s] = IF s = {} THEN first ELSE AddMachine(fn[s \ {Max(s)}], g, coros[Max(s)])
        BY <2>1, <4>1
      <4> QED BY <4>0, <4>2, <4>3
    <3> QED BY <3>1, <3>2
  <2>4. h = [s \in SUBSET (1 .. i + 1) |->
               IF s = {} THEN first ELSE AddMachine(h[s \ {Max(s)}], g, coros[Max(s)])]
    BY <2>2, <2>3
  <2>5. Solves(h, i + 1)
    BY <2>4, Zenon
  <2> HIDE DEF Solves
  <2> QED BY <2>5
<1>3. n \in good
  <2> HIDE DEF good
  <2>1. \A i \in 0 .. n : i \in good
    BY <1>1, <1>2, Upwards
  <2> QED BY <2>1
<1>4. PICK f : Solves(f, n) /\ AddMachines(g, coros) = f[1 .. n]
  BY <1>3 DEF AddMachines, FoldLeft, MapThenFoldSet, first
<1>5. ASSUME NEW i \in 1 .. n PROVE f[1 .. i] = AddMachine(f[1 .. i - 1], g, coros[i])
  <2>1. Max(1 .. i) = i /\ 1 .. i # {} /\ (1 .. i) \ {i} = 1 .. i - 1 /\ 1 .. i \in SUBSET (1 .. n)
    BY UpTo
  <2>2. f[1 .. i] = AddMachine(f[1 .. i - 1], g, coros[i])
    BY <1>4, <2>1
  <2> QED BY <2>2
<1>6. f[1 .. 0] = first
  <2>1. 1 .. 0 = {} /\ 1 .. 0 \in SUBSET (1 .. n)
    OBVIOUS
  <2> QED BY <1>4, <2>1
<1>7. PICK h : h = [i \in 0 .. n |-> f[1 .. i]]
  OBVIOUS
<1>8. h[0] = first /\ h[n] = f[1 .. n] /\ \A i \in 1 .. n : h[i] = f[1 .. i] /\ h[i - 1] = f[1 .. i - 1]
  BY <1>6, <1>7
<1> QED BY <1>4, <1>5, <1>8 DEF first, MachineFold

\* h is what EraseAll has left after each coroutine.
EraseFold(h, g, coros, n) ==
    /\ h[0] = g
    /\ \A i \in 1 .. n : h[i] = Erase(h[i - 1], coros[i])
    /\ EraseAll(g, coros) = h[n]

\* EraseAll, unfolded.
LEMMA EraseSteps ==
    ASSUME NEW g, NEW coros, NEW n \in Nat, DOMAIN coros = 1 .. n
    PROVE  \E h : EraseFold(h, g, coros, n)
<1> DEFINE
           first == g
           Solves(fn, u) ==
              fn = [s \in SUBSET (1 .. u) |->
                     IF s = {} THEN first ELSE Erase(fn[s \ {Max(s)}], coros[Max(s)])]
           good == {u \in 0 .. n : \E fn : Solves(fn, u)}
<1> HIDE DEF first
<1>1. 0 \in good
  <2>1. Solves([s \in SUBSET (1 .. 0) |-> first], 0)
    OBVIOUS
  <2> HIDE DEF Solves
  <2> QED BY <2>1
<1>2. ASSUME NEW i \in 0 .. n - 1, i \in good PROVE i + 1 \in good
  <2>1. PICK fn : Solves(fn, i)
    BY <1>2
  <2>2. PICK h : h = [s \in SUBSET (1 .. i + 1) |->
                      IF i + 1 \in s THEN Erase(fn[s \ {i + 1}], coros[(i + 1)]) ELSE fn[s]]
    OBVIOUS
  <2>3. ASSUME NEW s \in SUBSET (1 .. i + 1)
        PROVE  h[s] = IF s = {} THEN first ELSE Erase(h[s \ {Max(s)}], coros[Max(s)])
    <3>1. CASE i + 1 \in s
      <4>1. Max(s) = i + 1 /\ s \ {i + 1} \in SUBSET (1 .. i)
        BY <3>1, MaxOfUpTo
      <4>2. h[s] = Erase(fn[s \ {i + 1}], coros[(i + 1)]) /\ h[s \ {i + 1}] = fn[s \ {i + 1}] /\ s # {}
        BY <2>2, <3>1, <4>1
      <4> QED BY <4>1, <4>2
    <3>2. CASE i + 1 \notin s
      <4>0. PICK x : x = Max(s)
        OBVIOUS
      <4>a. \A y \in s : y \in 1 .. i
        BY <3>2
      <4>1. s \in SUBSET (1 .. i) /\ s \ {x} \in SUBSET (1 .. i) /\ i + 1 \notin s \ {x}
        <5> HIDE DEF Solves, good
        <5> QED BY <4>a, <3>2
      <4>2. h[s] = fn[s] /\ h[s \ {x}] = fn[s \ {x}]
        BY <2>2, <3>2, <4>1
      <4>3. fn[s] = IF s = {} THEN first ELSE Erase(fn[s \ {Max(s)}], coros[Max(s)])
        BY <2>1, <4>1
      <4> QED BY <4>0, <4>2, <4>3
    <3> QED BY <3>1, <3>2
  <2>4. h = [s \in SUBSET (1 .. i + 1) |->
               IF s = {} THEN first ELSE Erase(h[s \ {Max(s)}], coros[Max(s)])]
    BY <2>2, <2>3
  <2>5. Solves(h, i + 1)
    BY <2>4, Zenon
  <2> HIDE DEF Solves
  <2> QED BY <2>5
<1>3. n \in good
  <2> HIDE DEF good
  <2>1. \A i \in 0 .. n : i \in good
    BY <1>1, <1>2, Upwards
  <2> QED BY <2>1
<1>4. PICK f : Solves(f, n) /\ EraseAll(g, coros) = f[1 .. n]
  BY <1>3 DEF EraseAll, FoldLeft, MapThenFoldSet, first
<1>5. ASSUME NEW i \in 1 .. n PROVE f[1 .. i] = Erase(f[1 .. i - 1], coros[i])
  <2>1. Max(1 .. i) = i /\ 1 .. i # {} /\ (1 .. i) \ {i} = 1 .. i - 1 /\ 1 .. i \in SUBSET (1 .. n)
    BY UpTo
  <2>2. f[1 .. i] = Erase(f[1 .. i - 1], coros[i])
    BY <1>4, <2>1
  <2> QED BY <2>2
<1>6. f[1 .. 0] = first
  <2>1. 1 .. 0 = {} /\ 1 .. 0 \in SUBSET (1 .. n)
    OBVIOUS
  <2> QED BY <1>4, <2>1
<1>7. PICK h : h = [i \in 0 .. n |-> f[1 .. i]]
  OBVIOUS
<1>8. h[0] = first /\ h[n] = f[1 .. n] /\ \A i \in 1 .. n : h[i] = f[1 .. i] /\ h[i - 1] = f[1 .. i - 1]
  BY <1>6, <1>7
<1> QED BY <1>4, <1>5, <1>8 DEF first, EraseFold

-----------------------------------------------------------------------------
(* The suspension points of a coroutine. *)

\* A CFG, its blocks' terminators aside.
IsCfg(g) == IsSeq(g) /\ \A b \in 1 .. Len(g) : IsSeq(g[b].stmts)

\* A statement with its coordinates.
Place(g, b, i) == <<b, i, g[b].stmts[i]>>

\* xs lists every statement of the first u blocks, once.
Lists(g, xs, u) ==
    /\ IsSeq(xs)
    /\ \A m \in 1 .. Len(xs) : \E b \in 1 .. u : \E i \in 1 .. Len(g[b].stmts) : xs[m] = Place(g, b, i)
    /\ \A b \in 1 .. u : \A i \in 1 .. Len(g[b].stmts) : \E m \in 1 .. Len(xs) : xs[m] = Place(g, b, i)
    /\ \A m, n \in 1 .. Len(xs) : xs[m] = xs[n] => m = n

\* The empty sequence is one.
LEMMA SeqEmpty == IsSeq(<< >>) /\ Len(<< >>) = 0
BY SeqTyped, EmptySeq

\* The domain of a sequence.
LEMMA Bounds == ASSUME NEW s, IsSeq(s) PROVE Len(s) \in Nat /\ DOMAIN s = 1 .. Len(s)
BY SeqIs DEF IsList

\* StatementsOf, element by element.
LEMMA StatementsAre ==
    ASSUME NEW g, IsCfg(g), NEW b \in 1 .. Len(g)
    PROVE  /\ IsSeq(StatementsOf(g, b)) /\ Len(StatementsOf(g, b)) = Len(g[b].stmts)
           /\ \A i \in 1 .. Len(g[b].stmts) : StatementsOf(g, b)[i] = Place(g, b, i)
<1>1. PICK n \in Nat : n = Len(g[b].stmts)
  BY DEF IsCfg, IsSeq
<1>2. DOMAIN g[b].stmts = 1 .. n
  BY <1>1, Bounds DEF IsCfg
<1>3. PICK t : t = StatementsOf(g, b)
  OBVIOUS
<1>4. t = [i \in 1 .. n |-> Place(g, b, i)]
  BY <1>2, <1>3 DEF StatementsOf, Place
<1>5. \A i \in 1 .. n : t[i] = Place(g, b, i)
  BY <1>4
<1>6. t = [i \in 1 .. n |-> t[i]]
  BY <1>4
<1>7. IsSeq(t) /\ Len(t) = n
  BY <1>6, SeqMade, Zenon
<1> QED BY <1>1, <1>3, <1>5, <1>7

\* One more block is listed.
LEMMA WalkLists ==
    ASSUME NEW g, IsCfg(g), NEW u \in Nat, u + 1 \in 1 .. Len(g), NEW xs, Lists(g, xs, u)
    PROVE  Lists(g, Walk(g, xs, u + 1), u + 1)
<1>1. PICK st : st = StatementsOf(g, u + 1)
  OBVIOUS
<1>2. PICK n \in Nat : n = Len(g[u + 1].stmts)
  BY DEF IsCfg, IsSeq
<1>3. IsSeq(st) /\ Len(st) = n /\ \A i \in 1 .. n : st[i] = Place(g, u + 1, i)
  BY <1>1, <1>2, StatementsAre
<1>4. PICK m \in Nat : m = Len(xs)
  BY DEF Lists, IsSeq
<1>5. PICK ys : ys = Walk(g, xs, u + 1)
  OBVIOUS
<1>6. IsSeq(xs)
  BY DEF Lists
<1>7. /\ IsSeq(ys) /\ Len(ys) = m + n
      /\ \A i \in 1 .. m : ys[i] = xs[i]
      /\ \A i \in 1 .. n : ys[m + i] = Place(g, u + 1, i)
  <2>1. ys = xs \o st
    BY <1>1, <1>5 DEF Walk
  <2>2. /\ IsSeq(ys) /\ Len(ys) = m + n
        /\ \A i \in 1 .. m : ys[i] = xs[i]
        /\ \A i \in 1 .. n : ys[m + i] = st[i]
    <3>1. /\ IsSeq(xs \o st) /\ Len(xs \o st) = Len(xs) + Len(st)
          /\ \A i \in 1 .. Len(xs) : (xs \o st)[i] = xs[i]
          /\ \A i \in 1 .. Len(st) : (xs \o st)[Len(xs) + i] = st[i]
      <4>1. IsSeq(xs) /\ IsSeq(st)
        BY <1>3, <1>6
      <4> QED BY <4>1, SeqCat
    <3>2. /\ IsSeq(ys) /\ Len(ys) = Len(xs) + Len(st)
          /\ \A i \in 1 .. Len(xs) : ys[i] = xs[i]
          /\ \A i \in 1 .. Len(st) : ys[Len(xs) + i] = st[i]
      BY <2>1, <3>1, Zenon
    <3> QED BY <3>2, <1>3, <1>4
  <2> QED BY <2>2, <1>3
<1>8. \A i \in m + 1 .. m + n : ys[i] = Place(g, u + 1, i - m) /\ i - m \in 1 .. n
  <2> TAKE i \in m + 1 .. m + n
  <2>1. i - m \in 1 .. n /\ m + (i - m) = i
    OBVIOUS
  <2> QED BY <2>1, <1>7
<1>9. \A i \in 1 .. m : \E b \in 1 .. u : \E j \in 1 .. Len(g[b].stmts) : ys[i] = Place(g, b, j)
  BY <1>4, <1>7 DEF Lists
<1>10. \A i \in 1 .. m + n : i \in 1 .. m \/ i \in m + 1 .. m + n
  OBVIOUS
<1>11. ASSUME NEW i \in 1 .. m + n
       PROVE  \E b \in 1 .. u + 1 : \E j \in 1 .. Len(g[b].stmts) : ys[i] = Place(g, b, j)
  <2>1. CASE i \in 1 .. m
    <3>1. PICK b \in 1 .. u : \E j \in 1 .. Len(g[b].stmts) : ys[i] = Place(g, b, j)
      BY <2>1, <1>9
    <3>2. b \in 1 .. u + 1
      OBVIOUS
    <3> QED BY <3>1, <3>2
  <2>2. CASE i \in m + 1 .. m + n
    <3>1. u + 1 \in 1 .. u + 1
      OBVIOUS
    <3> QED BY <2>2, <1>2, <1>8, <3>1
  <2> QED BY <2>1, <2>2, <1>10
<1>12. ASSUME NEW b \in 1 .. u + 1, NEW i \in 1 .. Len(g[b].stmts)
       PROVE  \E j \in 1 .. m + n : ys[j] = Place(g, b, i)
  <2>1. CASE b \in 1 .. u
    <3>1. PICK j \in 1 .. m : xs[j] = Place(g, b, i)
      BY <2>1, <1>4 DEF Lists
    <3>2. j \in 1 .. m + n
      OBVIOUS
    <3> QED BY <3>1, <3>2, <1>7
  <2>2. CASE b = u + 1
    <3>1. m + i \in 1 .. m + n
      BY <2>2, <1>2
    <3> QED BY <2>2, <3>1, <1>2, <1>7
  <2> QED BY <2>1, <2>2
<1>13. ASSUME NEW i \in 1 .. m + n, NEW j \in 1 .. m + n, ys[i] = ys[j] PROVE i = j
  <2>1. CASE i \in 1 .. m /\ j \in 1 .. m
    BY <2>1, <1>4, <1>7, <1>13 DEF Lists
  <2>2. CASE i \in m + 1 .. m + n /\ j \in m + 1 .. m + n
    <3>1. i - m = j - m
      BY <2>2, <1>8, <1>13 DEF Place
    <3> QED BY <3>1
  <2>3. ASSUME NEW v \in 1 .. m, NEW w \in m + 1 .. m + n, ys[v] = ys[w] PROVE FALSE
    <3>1. PICK b \in 1 .. u : \E l \in 1 .. Len(g[b].stmts) : ys[v] = Place(g, b, l)
      BY <1>9
    <3>2. b = u + 1
      BY <3>1, <2>3, <1>8 DEF Place
    <3> QED BY <3>2
  <2> QED BY <2>1, <2>2, <2>3, <1>10, <1>13
<1> QED BY <1>5, <1>7, <1>11, <1>12, <1>13 DEF Lists

\* The lookup sees every statement of the CFG once.
LEMMA CoordinatesList ==
    ASSUME NEW g, IsCfg(g)
    PROVE  Lists(g, Coordinates(g), Len(g))
<1>1. PICK n \in Nat : n = Len(g)
  BY DEF IsCfg, IsSeq
<1>2. DOMAIN g = 1 .. n
  BY <1>1, Bounds DEF IsCfg
<1>3. PICK seq : seq = Indices(g)
  OBVIOUS
<1>4. DOMAIN seq = 1 .. n
  BY <1>2, <1>3 DEF Indices
<1>i. \A i \in 1 .. n : seq[i] = i
  BY <1>2, <1>3 DEF Indices
<1>5. PICK h : /\ h[0] = << >>
               /\ \A i \in 1 .. n : h[i] = Walk(g, h[i - 1], seq[i])
               /\ Coordinates(g) = h[n]
  BY <1>3, <1>4, WalkSteps
<1> DEFINE S == {u \in 0 .. n : Lists(g, h[u], u)}
<1>6. 0 \in S
  <2>1. Lists(g, << >>, 0)
    BY SeqEmpty DEF Lists
  <2> QED BY <2>1, <1>5
<1>7. ASSUME NEW u \in 0 .. n - 1, u \in S PROVE u + 1 \in S
  <2>1. u + 1 \in 1 .. n /\ (u + 1) - 1 = u /\ u \in Nat
    OBVIOUS
  <2>2. h[u + 1] = Walk(g, h[u], u + 1)
    BY <2>1, <1>i, <1>5
  <2>3. Lists(g, h[u + 1], u + 1)
    BY <1>7, <2>1, <2>2, <1>1, WalkLists
  <2> QED BY <2>1, <2>3
<1>8. \A u \in 0 .. n : u \in S
  <2> HIDE DEF S
  <2> QED BY <1>6, <1>7, Upwards
<1>9. n \in 0 .. n
  OBVIOUS
<1> QED BY <1>8, <1>9, <1>1, <1>5

\* ps are those of the first u of xs that are suspension points.
Picks(blocks, coro, xs, ps, u) ==
    /\ IsSeq(ps)
    /\ \A m \in 1 .. Len(ps) : \E v \in 1 .. u : ps[m] = xs[v] /\ Inside(blocks, coro, xs[v])
    /\ \A v \in 1 .. u : Inside(blocks, coro, xs[v]) => \E m \in 1 .. Len(ps) : ps[m] = xs[v]
    /\ \A m, n \in 1 .. Len(ps) : ps[m] = ps[n] => m = n

\* One more statement is looked at.
LEMMA FoundPicks ==
    ASSUME NEW g, NEW coro, NEW xs, NEW u \in Nat,
           \A m, n \in 1 .. u + 1 : xs[m] = xs[n] => m = n,
           NEW ps, Picks(BodyBlocks(g, coro), coro, xs, ps, u)
    PROVE  Picks(BodyBlocks(g, coro), coro, xs, Found(g, coro, ps, xs[u + 1]), u + 1)
<1>1. PICK B : B = BodyBlocks(g, coro)
  OBVIOUS
<1>2. PICK x : x = xs[u + 1]
  OBVIOUS
<1>3. CASE ~Inside(B, coro, x)
  <2>1. Found(g, coro, ps, x) = ps
    BY <1>1, <1>3 DEF Found
  <2>2. \A v \in 1 .. u : v \in 1 .. u + 1
    OBVIOUS
  <2>3. \A v \in 1 .. u + 1 : v \in 1 .. u \/ v = u + 1
    OBVIOUS
  <2> HIDE DEF Inside
  <2>4. \A m \in 1 .. Len(ps) : \E v \in 1 .. u + 1 : ps[m] = xs[v] /\ Inside(B, coro, xs[v])
    BY <1>1, <2>2 DEF Picks
  <2>5. \A v \in 1 .. u + 1 : Inside(B, coro, xs[v]) => \E m \in 1 .. Len(ps) : ps[m] = xs[v]
    BY <1>1, <1>2, <1>3, <2>3 DEF Picks
  <2> QED BY <1>1, <1>2, <2>1, <2>4, <2>5 DEF Picks
<1>4. CASE Inside(B, coro, x)
  <2>1. PICK qs : qs = Append(ps, x)
    OBVIOUS
  <2>2. Found(g, coro, ps, x) = qs
    BY <1>1, <1>4, <2>1 DEF Found
  <2>3. PICK n \in Nat : n = Len(ps)
    BY DEF Picks, IsSeq
  <2>4. /\ IsSeq(qs) /\ Len(qs) = n + 1 /\ qs[n + 1] = x
        /\ \A i \in 1 .. n : qs[i] = ps[i]
    BY <2>1, <2>3, SeqAppend DEF Picks
  <2>5. \A i \in 1 .. n + 1 : i \in 1 .. n \/ i = n + 1
    OBVIOUS
  <2>6. /\ \A v \in 1 .. u : v \in 1 .. u + 1 /\ v # u + 1
        /\ u + 1 \in 1 .. u + 1
        /\ \A v \in 1 .. u + 1 : v \in 1 .. u \/ v = u + 1
        /\ \A i \in 1 .. n : i \in 1 .. n + 1
        /\ n + 1 \in 1 .. n + 1
    OBVIOUS
  <2> HIDE DEF Inside
  <2>7. ASSUME NEW m \in 1 .. n + 1
        PROVE  \E v \in 1 .. u + 1 : qs[m] = xs[v] /\ Inside(B, coro, xs[v])
    <3>1. CASE m \in 1 .. n
      <4>1. PICK v \in 1 .. u : ps[m] = xs[v] /\ Inside(B, coro, xs[v])
        BY <3>1, <1>1, <2>3 DEF Picks
      <4> QED BY <4>1, <3>1, <2>4, <2>6
    <3>2. CASE m = n + 1
      BY <3>2, <2>4, <1>2, <1>4, <2>6
    <3> QED BY <3>1, <3>2, <2>5
  <2>8. ASSUME NEW v \in 1 .. u + 1, Inside(B, coro, xs[v])
        PROVE  \E m \in 1 .. n + 1 : qs[m] = xs[v]
    <3>1. CASE v \in 1 .. u
      <4>1. PICK m \in 1 .. n : ps[m] = xs[v]
        BY <3>1, <2>8, <1>1, <2>3 DEF Picks
      <4> QED BY <4>1, <2>4, <2>6
    <3>2. CASE v = u + 1
      BY <3>2, <2>4, <1>2, <2>6
    <3> QED BY <3>1, <3>2, <2>6
  <2>9. \A m \in 1 .. n : qs[m] # x
    <3> SUFFICES ASSUME NEW m \in 1 .. n PROVE qs[m] # x
      OBVIOUS
    <3>1. PICK v \in 1 .. u : ps[m] = xs[v]
      BY <1>1, <2>3 DEF Picks
    <3>2. xs[v] # xs[u + 1]
      BY <2>6
    <3> QED BY <3>1, <3>2, <2>4, <1>2
  <2>10. ASSUME NEW i \in 1 .. n + 1, NEW j \in 1 .. n + 1, qs[i] = qs[j] PROVE i = j
    <3>1. CASE i \in 1 .. n /\ j \in 1 .. n
      BY <3>1, <2>3, <2>4, <2>10 DEF Picks
    <3>2. CASE i = n + 1 \/ j = n + 1
      BY <3>2, <2>4, <2>5, <2>9, <2>10
    <3> QED BY <3>1, <3>2, <2>5
  <2> QED BY <1>1, <1>2, <2>2, <2>4, <2>7, <2>8, <2>10 DEF Picks
<1> QED BY <1>3, <1>4, <1>2

\* ps are the statements of g that suspend between the markers of a coroutine.
Pointed(g, blocks, coro, ps) ==
    /\ IsSeq(ps)
    /\ \A m \in 1 .. Len(ps) :
          /\ Inside(blocks, coro, ps[m])
          /\ \E b \in 1 .. Len(g) : \E i \in 1 .. Len(g[b].stmts) : ps[m] = Place(g, b, i)
    /\ \A b \in 1 .. Len(g) : \A i \in 1 .. Len(g[b].stmts) :
          Inside(blocks, coro, Place(g, b, i)) => \E m \in 1 .. Len(ps) : ps[m] = Place(g, b, i)
    /\ \A m, n \in 1 .. Len(ps) : ps[m] = ps[n] => m = n

\* find_suspension_points: every statement that suspends between a coroutine's
\* markers, once.
LEMMA PointsAre ==
    ASSUME NEW g, IsCfg(g), NEW coro, NEW B, B = BodyBlocks(g, coro),
           NEW ps, ps = FindSuspensionPoints(g, coro)
    PROVE  Pointed(g, B, coro, ps)
<1>1. PICK xs : xs = Coordinates(g)
  OBVIOUS
<1>2. Lists(g, xs, Len(g))
  BY <1>1, CoordinatesList
<1>3. PICK n \in Nat : n = Len(xs)
  BY <1>2 DEF Lists, IsSeq
<1>4. DOMAIN xs = 1 .. n
  BY <1>2, <1>3, Bounds DEF Lists
<1>5. PICK h : /\ h[0] = << >>
               /\ \A i \in 1 .. n : h[i] = Found(g, coro, h[i - 1], xs[i])
               /\ ps = h[n]
  BY <1>1, <1>4, PointSteps
<1> DEFINE S == {u \in 0 .. n : Picks(B, coro, xs, h[u], u)}
<1>6. 0 \in S
  <2>1. Picks(B, coro, xs, << >>, 0)
    BY SeqEmpty DEF Picks
  <2> QED BY <2>1, <1>5
<1>7. ASSUME NEW u \in 0 .. n - 1, u \in S PROVE u + 1 \in S
  <2>1. u + 1 \in 1 .. n /\ (u + 1) - 1 = u /\ u \in Nat /\ \A i \in 1 .. u + 1 : i \in 1 .. n
    OBVIOUS
  <2>2. h[u + 1] = Found(g, coro, h[u], xs[u + 1])
    BY <2>1, <1>5
  <2>3. \A v, w \in 1 .. u + 1 : xs[v] = xs[w] => v = w
    BY <2>1, <1>2, <1>3 DEF Lists
  <2>4. Picks(B, coro, xs, h[u], u)
    BY <1>7
  <2>5. Picks(B, coro, xs, h[u + 1], u + 1)
    BY <2>1, <2>2, <2>3, <2>4, FoundPicks
  <2> QED BY <2>1, <2>5
<1>8. Picks(B, coro, xs, ps, n)
  <2>1. \A u \in 0 .. n : u \in S
    <3> HIDE DEF S
    <3> QED BY <1>6, <1>7, Upwards
  <2>2. n \in 0 .. n
    OBVIOUS
  <2> QED BY <2>1, <2>2, <1>5
<1> HIDE DEF Inside
<1>9. ASSUME NEW m \in 1 .. Len(ps)
      PROVE  /\ Inside(B, coro, ps[m])
             /\ \E b \in 1 .. Len(g) : \E i \in 1 .. Len(g[b].stmts) : ps[m] = Place(g, b, i)
  <2>1. PICK v \in 1 .. n : ps[m] = xs[v] /\ Inside(B, coro, xs[v])
    BY <1>8 DEF Picks
  <2>2. \E b \in 1 .. Len(g) : \E i \in 1 .. Len(g[b].stmts) : xs[v] = Place(g, b, i)
    BY <1>2, <1>3 DEF Lists
  <2> QED BY <2>1, <2>2
<1>10. ASSUME NEW b \in 1 .. Len(g), NEW i \in 1 .. Len(g[b].stmts), Inside(B, coro, Place(g, b, i))
       PROVE  \E m \in 1 .. Len(ps) : ps[m] = Place(g, b, i)
  <2>1. PICK v \in 1 .. n : xs[v] = Place(g, b, i)
    BY <1>2, <1>3 DEF Lists
  <2> QED BY <2>1, <1>8, <1>10 DEF Picks
<1>11. IsSeq(ps) /\ \A m, v \in 1 .. Len(ps) : ps[m] = ps[v] => m = v
  BY <1>8 DEF Picks
<1> QED BY <1>9, <1>10, <1>11 DEF Pointed

-----------------------------------------------------------------------------
(* The contract of the IR builder, one coroutine at a time. *)

\* What RegionAssumption says of a region.
Regioned(r) == r.body \in [Coros -> Seq(Statements)] /\ r.cfg \in Seq(Blocks) /\ LaidOut(r)

\* The region that is transformed, its coroutines, their blocks and suspension points.
RegionOf(r) == NextRegion(r.cfg)
CoroOf(r, c) == RegionOf(r).coroutines[c]
BlocksOf(r, c) == BodyBlocks(r.cfg, CoroOf(r, c))
PointsOf(r, c) == FindSuspensionPoints(r.cfg, CoroOf(r, c))

\* The statements of block b that finish_region leaves in front of the executor.
Skips(r, b) == IF b = RegionOf(r).begin[1] THEN RegionOf(r).begin[2] ELSE 0

\* How many statements a coroutine has behind it where its block b begins, and ends.
StartOf(r, b) == r.at[b][Skips(r, b) + 1]
EndOf(r, b) == r.at[b][Len(r.cfg[b].stmts) + 1]

\* There is a marker at coordinate x.
Marks(r, x) ==
    /\ x[1] \in 1 .. Len(r.cfg) /\ x[2] \in 1 .. Len(r.cfg[x[1]].stmts)
    /\ r.cfg[x[1]].stmts[x[2]] \in Markers

\* The CFG of a region is one, of blocks.
LEMMA CfgIs ==
    ASSUME NEW r, Regioned(r)
    PROVE  /\ IsCfg(r.cfg)
           /\ \A b \in 1 .. Len(r.cfg) : r.cfg[b] = Block(r.cfg[b].stmts, r.cfg[b].term)
<1>1. PICK g : g = r.cfg
  OBVIOUS
<1>2. g \in Seq(Blocks)
  BY <1>1 DEF Regioned
<1>3. IsSeq(g) /\ \A b \in 1 .. Len(g) : g[b] \in Blocks
  BY <1>2, SeqTyped
<1>4. ASSUME NEW x \in Blocks PROVE IsSeq(x.stmts) /\ x = Block(x.stmts, x.term)
  <2>1. PICK S : x.stmts \in Seq(S)
    BY DEF Blocks
  <2>2. IsSeq(x.stmts)
    BY <2>1, SeqTyped
  <2>3. x = Block(x.stmts, x.term)
    BY DEF Blocks, Block
  <2> QED BY <2>2, <2>3
<1> QED BY <1>1, <1>3, <1>4 DEF IsCfg

\* What LaidOut says of coroutine c, of block b of it.
LEMMA Contract ==
    ASSUME NEW r, Regioned(r)
    PROVE  /\ DOMAIN RegionOf(r).coroutines = Coros
           /\ Marks(r, RegionOf(r).begin) /\ Marks(r, RegionOf(r).end)
           /\ \A c \in Coros :
                 /\ Marks(r, CoroOf(r, c).begin) /\ Marks(r, CoroOf(r, c).end)
                 /\ r.at[CoroOf(r, c).begin[1]][CoroOf(r, c).begin[2] + 1] = 0
                 /\ r.at[CoroOf(r, c).end[1]][CoroOf(r, c).end[2] + 1] = Len(r.body[c])
                 /\ CoroOf(r, c).begin[1] \in BlocksOf(r, c) /\ CoroOf(r, c).end[1] \in BlocksOf(r, c)
                 /\ BlocksOf(r, c) \subseteq 1 .. Len(r.cfg)
                 /\ \A d \in Coros : d # c => BlocksOf(r, c) \cap BlocksOf(r, d) = {}
                 /\ RegionOf(r).end[1] \notin BlocksOf(r, c)
                 /\ RegionOf(r).begin[1] \in BlocksOf(r, c) =>
                       /\ c = 1 /\ RegionOf(r).begin[1] = CoroOf(r, c).begin[1]
                       /\ r.at[RegionOf(r).begin[1]][RegionOf(r).begin[2] + 1] = 0
                 /\ Len(PointsOf(r, c)) < DONE_STATE
<1>1. PICK g : g = r.cfg
  OBVIOUS
<1>2. IsCfg(g)
  BY <1>1, CfgIs
<1>3. DOMAIN g = 1 .. Len(g) /\ \A b \in 1 .. Len(g) : DOMAIN g[b].stmts = 1 .. Len(g[b].stmts)
  BY <1>2, Bounds DEF IsCfg
<1>4. DOMAIN r.body = Coros
  BY DEF Regioned
<1>5. LaidOut(r)
  BY DEF Regioned
<1>6. PICK coros : coros = RegionOf(r).coroutines
  OBVIOUS
<1>7. DOMAIN coros = Coros
  BY <1>4, <1>5, <1>6 DEF LaidOut, RegionOf
<1> DEFINE Mark(x) == /\ x[1] \in DOMAIN r.cfg /\ x[2] \in DOMAIN r.cfg[x[1]].stmts
                      /\ r.cfg[x[1]].stmts[x[2]] \in Markers
<1>m. ASSUME NEW x, Mark(x) PROVE Marks(r, x)
  <2>1. x[1] \in 1 .. Len(g)
    BY <1>m, <1>1, <1>3
  <2>2. x[2] \in 1 .. Len(g[x[1]].stmts)
    BY <2>1, <1>m, <1>1, <1>3
  <2> QED BY <2>1, <2>2, <1>1, <1>m DEF Marks
<1>8. Marks(r, RegionOf(r).begin) /\ Marks(r, RegionOf(r).end)
  <2>1. Mark(NextRegion(r.cfg).begin) /\ Mark(NextRegion(r.cfg).end)
    BY <1>5 DEF LaidOut
  <2> HIDE DEF Mark
  <2> QED BY <2>1, <1>m DEF RegionOf
<1>9. ASSUME NEW c \in Coros
      PROVE  /\ Marks(r, CoroOf(r, c).begin) /\ Marks(r, CoroOf(r, c).end)
             /\ r.at[CoroOf(r, c).begin[1]][CoroOf(r, c).begin[2] + 1] = 0
             /\ r.at[CoroOf(r, c).end[1]][CoroOf(r, c).end[2] + 1] = Len(r.body[c])
  <2>1. /\ Mark(NextRegion(r.cfg).coroutines[c].begin)
        /\ Mark(NextRegion(r.cfg).coroutines[c].end)
    BY <1>5, <1>6, <1>7 DEF LaidOut, RegionOf
  <2>2. /\ r.at[CoroOf(r, c).begin[1]][CoroOf(r, c).begin[2] + 1] = 0
        /\ r.at[CoroOf(r, c).end[1]][CoroOf(r, c).end[2] + 1] = Len(r.body[c])
    BY <1>5, <1>6, <1>7 DEF LaidOut, RegionOf, CoroOf
  <2> HIDE DEF Mark
  <2>3. Marks(r, CoroOf(r, c).begin) /\ Marks(r, CoroOf(r, c).end)
    BY <2>1, <1>m DEF RegionOf, CoroOf
  <2> QED BY <2>2, <2>3
<1>10. ASSUME NEW c \in Coros
      PROVE  /\ CoroOf(r, c).begin[1] \in BlocksOf(r, c) /\ CoroOf(r, c).end[1] \in BlocksOf(r, c)
             /\ BlocksOf(r, c) \subseteq 1 .. Len(r.cfg)
             /\ RegionOf(r).end[1] \notin BlocksOf(r, c)
             /\ RegionOf(r).begin[1] \in BlocksOf(r, c) =>
                   /\ c = 1 /\ RegionOf(r).begin[1] = CoroOf(r, c).begin[1]
                   /\ r.at[RegionOf(r).begin[1]][RegionOf(r).begin[2] + 1] = 0
             /\ Len(PointsOf(r, c)) < DONE_STATE
  BY <1>1, <1>3, <1>5, <1>6, <1>7 DEF LaidOut, RegionOf, CoroOf, BlocksOf, PointsOf
<1>11. ASSUME NEW c \in Coros, NEW d \in Coros, d # c
       PROVE  BlocksOf(r, c) \cap BlocksOf(r, d) = {}
  BY <1>1, <1>5, <1>6, <1>7, <1>11 DEF LaidOut, RegionOf, CoroOf, BlocksOf
<1> QED BY <1>6, <1>7, <1>8, <1>9, <1>10, <1>11

\* What the contract says of one block of a coroutine.
LEMMA ContractBlock ==
    ASSUME NEW r, Regioned(r), NEW c \in Coros, NEW b \in BlocksOf(r, c)
    PROVE  /\ ReadsOn(r, c, b)
           /\ b # CoroOf(r, c).end[1] =>
                 \E t \in BlocksOf(r, c) :
                    /\ t # RegionOf(r).begin[1] /\ r.cfg[b].term = Goto(t)
                    /\ StartOf(r, t) = EndOf(r, b)
           /\ b = CoroOf(r, c).end[1] => EndOf(r, b) = Len(r.body[c])
<1>1. LaidOut(r) /\ c \in DOMAIN RegionOf(r).coroutines
  BY Contract DEF Regioned
<1>2. b \in 1 .. Len(r.cfg)
  BY Contract
<1>3. ReadsOn(r, c, b)
  BY <1>1 DEF LaidOut, RegionOf, CoroOf, BlocksOf
<1>4. PICK n \in Nat : n = Len(r.cfg[b].stmts)
  BY <1>2, CfgIs DEF IsCfg, IsSeq
<1>5. Len(r.at[b]) = n + 1
  BY <1>3, <1>4 DEF ReadsOn
<1>6. ASSUME b # CoroOf(r, c).end[1]
      PROVE  \E t \in BlocksOf(r, c) :
                    /\ t # RegionOf(r).begin[1] /\ r.cfg[b].term = Goto(t)
                    /\ StartOf(r, t) = EndOf(r, b)
  <2>1. PICK t \in BlocksOf(r, c) \ {RegionOf(r).begin[1]} :
           r.cfg[b].term = Goto(t) /\ r.at[t][1] = r.at[b][Len(r.at[b])]
    BY <1>1, <1>6 DEF LaidOut, RegionOf, CoroOf, BlocksOf
  <2>2. Skips(r, t) = 0
    BY <2>1 DEF Skips
  <2> QED BY <2>1, <2>2, <1>4, <1>5 DEF StartOf, EndOf
<1>7. ASSUME b = CoroOf(r, c).end[1] PROVE EndOf(r, b) = Len(r.body[c])
  <2>1. r.at[b][Len(r.at[b])] = r.at[b][CoroOf(r, c).end[2] + 1]
    BY <1>1, <1>7 DEF LaidOut, RegionOf, CoroOf
  <2>2. r.at[b][CoroOf(r, c).end[2] + 1] = Len(r.body[c])
    BY <1>7, Contract
  <2> QED BY <2>1, <2>2, <1>4, <1>5 DEF EndOf
<1> QED BY <1>3, <1>6, <1>7

-----------------------------------------------------------------------------
(* The text of a block.                                                     *)

\* s is markers and statements of src; at[i] of them are behind its statement i.
Text(src, s, at) ==
    /\ IsSeq(src) /\ \A j \in 1 .. Len(src) : src[j][1] \in Suspensions \cup {"Put"}
    /\ IsSeq(s) /\ at \in [1 .. Len(s) + 1 -> 0 .. Len(src)]
    /\ \A i \in 1 .. Len(s) :
          \/ s[i] \in Markers /\ at[i + 1] = at[i]
          \/ /\ at[i + 1] = at[i] + 1 /\ at[i + 1] \in 1 .. Len(src)
             /\ s[i] = Operation(src[at[i + 1]][1], src[at[i + 1]][2], at[i + 1])
    /\ \A i, j \in 1 .. Len(s) :
          i < j /\ s[i].op \in Suspensions => s[j].op \notin Suspensions /\ s[j] \notin Markers

\* A block of a coroutine is a text of its body.
LEMMA BlockText ==
    ASSUME NEW r, Regioned(r), NEW c \in Coros, NEW b \in BlocksOf(r, c)
    PROVE  Text(r.body[c], r.cfg[b].stmts, r.at[b])
<1>1. ReadsOn(r, c, b)
  BY ContractBlock
<1>2. PICK src : src = r.body[c]
  OBVIOUS
<1>3. src \in Seq(Statements)
  BY <1>2 DEF Regioned
<1>4. IsSeq(src) /\ \A j \in 1 .. Len(src) : src[j] \in Statements
  BY <1>3, SeqTyped
<1>5. \A j \in 1 .. Len(src) : src[j][1] \in Suspensions \cup {"Put"}
  BY <1>4 DEF Statements
<1>6. PICK s : s = r.cfg[b].stmts
  OBVIOUS
<1>7. IsSeq(s)
  BY <1>6, CfgIs, Contract DEF IsCfg
<1>8. DOMAIN s = 1 .. Len(s) /\ DOMAIN src = 1 .. Len(src)
  BY <1>4, <1>7, Bounds
<1>9. PICK at : at = r.at[b]
  OBVIOUS
<1>10. /\ at \in [1 .. Len(s) + 1 -> 0 .. Len(src)]
       /\ \A i \in DOMAIN s :
              \/ s[i] \in Markers /\ at[i + 1] = at[i]
              \/ /\ at[i + 1] = at[i] + 1 /\ at[i + 1] \in DOMAIN src
                 /\ s[i] = Operation(src[at[i + 1]][1], src[at[i + 1]][2], at[i + 1])
       /\ \A i, j \in DOMAIN s :
              i < j /\ s[i].op \in Suspensions => s[j].op \notin Suspensions /\ s[j] \notin Markers
  BY <1>1, <1>2, <1>6, <1>9 DEF ReadsOn
<1> QED BY <1>2, <1>4, <1>5, <1>6, <1>7, <1>8, <1>9, <1>10 DEF Text

\* What is behind a statement only grows.
LEMMA TextGrows ==
    ASSUME NEW src, NEW s, NEW at, Text(src, s, at),
           NEW lo \in 1 .. Len(s) + 1, NEW hi \in 1 .. Len(s) + 1, lo <= hi
    PROVE  at[lo] <= at[hi]
<1>1. PICK n \in Nat : n = Len(s)
  BY DEF Text, IsSeq
<1>m. PICK m \in Nat : m = Len(src)
  BY DEF Text, IsSeq
<1>2. at \in [1 .. n + 1 -> 0 .. m]
  BY <1>1, <1>m DEF Text
<1>3. \A i \in 1 .. n : at[i + 1] = at[i] \/ at[i + 1] = at[i] + 1
  BY <1>1 DEF Text
<1> DEFINE S == {u \in 0 .. hi - lo : at[lo] <= at[lo + u]}
<1>4. lo \in 1 .. n + 1 /\ hi \in 1 .. n + 1 /\ hi - lo \in Nat
  BY <1>1
<1>5. 0 \in S
  BY <1>2, <1>4
<1>6. ASSUME NEW u \in 0 .. hi - lo - 1, u \in S PROVE u + 1 \in S
  <2>1. lo + u \in 1 .. n /\ lo + (u + 1) = (lo + u) + 1 /\ u + 1 \in 0 .. hi - lo
    BY <1>4
  <2>2. lo + u \in 1 .. n + 1 /\ (lo + u) + 1 \in 1 .. n + 1
    BY <2>1
  <2>3. at[lo + u] \in Int /\ at[(lo + u) + 1] \in Int /\ at[lo] \in Int
    BY <2>2, <1>2, <1>4
  <2>4. at[lo] <= at[lo + u]
    BY <1>6
  <2>5. at[lo] <= at[(lo + u) + 1]
    BY <2>1, <2>3, <2>4, <1>3
  <2> QED BY <2>1, <2>5
<1>7. \A u \in 0 .. hi - lo : u \in S
  <2> HIDE DEF S
  <2> QED BY <1>4, <1>5, <1>6, Upwards
<1>8. hi - lo \in 0 .. hi - lo /\ lo + (hi - lo) = hi
  BY <1>4
<1> QED BY <1>7, <1>8

\* Between two suspension points there are only Puts.
LEMMA TextPuts ==
    ASSUME NEW src, NEW s, NEW at, Text(src, s, at),
           NEW lo \in 1 .. Len(s) + 1, NEW hi \in 1 .. Len(s) + 1, lo <= hi,
           \A i \in lo .. hi - 1 : s[i].op \notin Suspensions
    PROVE  Puts(src, at[lo], at[hi])
<1>1. PICK n \in Nat : n = Len(s)
  BY DEF Text, IsSeq
<1>m. PICK m \in Nat : m = Len(src)
  BY DEF Text, IsSeq
<1>2. at \in [1 .. n + 1 -> 0 .. m]
  BY <1>1, <1>m DEF Text
<1> DEFINE S == {u \in 0 .. hi - lo : Puts(src, at[lo], at[lo + u])}
<1>4. lo \in 1 .. n + 1 /\ hi \in 1 .. n + 1 /\ hi - lo \in Nat
  BY <1>1
<1>5. 0 \in S
  BY <1>2, <1>4 DEF Puts
<1>6. ASSUME NEW u \in 0 .. hi - lo - 1, u \in S PROVE u + 1 \in S
  <2>1. lo + u \in 1 .. n /\ lo + (u + 1) = (lo + u) + 1 /\ u + 1 \in 0 .. hi - lo /\ lo + u \in lo .. hi - 1
    BY <1>4
  <2>2. lo + u \in 1 .. n + 1 /\ (lo + u) + 1 \in 1 .. n + 1
    BY <2>1
  <2>3. at[lo + u] \in Int /\ at[(lo + u) + 1] \in Int /\ at[lo] \in Int
    BY <2>2, <1>2, <1>4
  <2>4. Puts(src, at[lo], at[lo + u])
    BY <1>6
  <2>x. PICK x : x = lo + u
    OBVIOUS
  <2>5. \/ at[x + 1] = at[x]
        \/ at[x + 1] = at[x] + 1 /\ at[x + 1] \in 1 .. m /\ s[x].op = src[at[x + 1]][1]
    <3>1. x \in 1 .. Len(s)
      BY <2>1, <2>x, <1>1
    <3>2. \/ at[x + 1] = at[x]
          \/ /\ at[x + 1] = at[x] + 1 /\ at[x + 1] \in 1 .. Len(src)
             /\ s[x] = Operation(src[at[x + 1]][1], src[at[x + 1]][2], at[x + 1])
      BY <3>1 DEF Text
    <3> QED BY <3>2, <1>m DEF Operation
  <2>6. s[x].op \notin Suspensions
    BY <2>1, <2>x
  <2>7. \/ at[x + 1] = at[x]
        \/ at[x + 1] = at[x] + 1 /\ src[at[x + 1]][1] = "Put"
    BY <2>5, <2>6, <1>m DEF Text
  <2>8. Puts(src, at[lo], at[x + 1])
    <3>1. PICK v : v = at[lo]
      OBVIOUS
    <3>2. PICK w : w = at[x]
      OBVIOUS
    <3>3. PICK y : y = at[x + 1]
      OBVIOUS
    <3>4. v \in Int /\ w \in Int /\ y \in Int /\ Puts(src, v, w)
          /\ (y = w \/ (y = w + 1 /\ src[y][1] = "Put"))
      BY <2>3, <2>4, <2>7, <2>x, <3>1, <3>2, <3>3
    <3>5. Puts(src, v, y)
      BY <3>4 DEF Puts
    <3> QED BY <3>1, <3>3, <3>5
  <2> QED BY <2>1, <2>8, <2>x
<1>7. \A u \in 0 .. hi - lo : u \in S
  <2> HIDE DEF S
  <2> QED BY <1>4, <1>5, <1>6, Upwards
<1>8. hi - lo \in 0 .. hi - lo /\ lo + (hi - lo) = hi
  BY <1>4
<1> QED BY <1>7, <1>8

\* What a statement does to what is behind; a yield does it once it is erased.
LEMMA TextSteps ==
    ASSUME NEW src, NEW s, NEW at, Text(src, s, at), NEW i \in 1 .. Len(s)
    PROVE  /\ s[i].op \notin Suspensions \/ s[i].op = "ProducingSend" => Step(src, at[i], s[i], at[i + 1])
           /\ s[i].op = "Yield" => Step(src, at[i], Nop, at[i + 1])
           /\ s[i].op \in Suspensions =>
                 /\ at[i + 1] = at[i] + 1 /\ at[i + 1] \in 1 .. Len(src)
                 /\ src[at[i + 1]][1] = s[i].op /\ s[i].src = at[i + 1]
                 /\ s[i] = Operation(s[i].op, src[at[i + 1]][2], at[i + 1])
           /\ s[i] \in Markers => s[i].op \in {"RegionBegin", "RegionEnd", "CoroutineBegin", "CoroutineEnd"}
<1>1. PICK n \in Nat : n = Len(s)
  BY DEF Text, IsSeq
<1>m. PICK m \in Nat : m = Len(src)
  BY DEF Text, IsSeq
<1>2. at \in [1 .. n + 1 -> 0 .. m]
  BY <1>1, <1>m DEF Text
<1>3. i \in 1 .. n /\ i \in 1 .. n + 1 /\ i + 1 \in 1 .. n + 1
  BY <1>1
<1>4. at[i] \in Int /\ at[i + 1] \in Int
  BY <1>2, <1>3
<1>5. DOMAIN src = 1 .. m
  BY <1>m, Bounds DEF Text
<1>6. CASE s[i] \in Markers /\ at[i + 1] = at[i]
  <2>1. s[i].op \in {"RegionBegin", "RegionEnd", "CoroutineBegin", "CoroutineEnd"}
    BY <1>6 DEF Markers, Marker
  <2> QED BY <1>6, <2>1 DEF Step, Suspensions
<1>7. CASE /\ at[i + 1] = at[i] + 1 /\ at[i + 1] \in 1 .. m
           /\ s[i] = Operation(src[at[i + 1]][1], src[at[i + 1]][2], at[i + 1])
  <2>1. PICK j : j = at[i + 1]
    OBVIOUS
  <2>2. j = at[i] + 1 /\ j \in 1 .. m /\ s[i] = Operation(src[j][1], src[j][2], j)
    BY <1>7, <2>1
  <2>3. s[i].op = src[j][1] /\ s[i].src = j
    BY <2>2 DEF Operation
  <2>4. src[j][1] \in Suspensions \cup {"Put"}
    BY <2>2, <1>m DEF Text
  <2>5. s[i].op \notin Suspensions \/ s[i].op = "ProducingSend" => Step(src, at[i], s[i], j)
    BY <2>2, <2>3, <2>4, <1>5 DEF Step
  <2>6. s[i].op = "Yield" => Step(src, at[i], Nop, j)
    <3>1. Nop.op = "Nop"
      BY DEF Nop, Marker
    <3> QED BY <2>2, <2>3, <1>5, <3>1 DEF Step
  <2>7. s[i] \in Markers => s[i].op \in {"RegionBegin", "RegionEnd", "CoroutineBegin", "CoroutineEnd"}
    BY DEF Markers, Marker
  <2> QED BY <2>1, <2>2, <2>3, <2>5, <2>6, <2>7, <1>m
<1>8. (s[i] \in Markers /\ at[i + 1] = at[i])
      \/ /\ at[i + 1] = at[i] + 1 /\ at[i + 1] \in 1 .. m
         /\ s[i] = Operation(src[at[i + 1]][1], src[at[i + 1]][2], at[i + 1])
  BY <1>1, <1>m DEF Text
<1> QED BY <1>6, <1>7, <1>8

\* A run of statements, read.
LEMMA ReadsBy ==
    ASSUME NEW src, IsSeq(src), NEW u, IsSeq(u), NEW from \in 0 .. Len(u), NEW d \in Int, NEW at,
           \A n \in from .. Len(u) : at[d + n + 1] \in 0 .. Len(src),
           \A n \in from + 1 .. Len(u) : Step(src, at[d + n], u[n], at[d + n + 1])
    PROVE  Reads(src, u, from, at[d + from + 1], at[d + Len(u) + 1])
<1>1. PICK z \in Nat : z = Len(u)
  BY DEF IsSeq
<1>2. PICK f : f = [n \in from .. z |-> at[d + n + 1]]
  OBVIOUS
<1>3. f \in [from .. z -> 0 .. Len(src)]
  BY <1>1, <1>2
<1>4. \A n \in from .. z : f[n] = at[d + n + 1]
  BY <1>2
<1>5. from \in from .. z /\ z \in from .. z
  BY <1>1
<1>6. ASSUME NEW n \in from + 1 .. z PROVE Step(src, f[n - 1], u[n], f[n])
  <2>1. n \in from .. z /\ n - 1 \in from .. z /\ d + (n - 1) + 1 = d + n
    BY <1>1
  <2>2. f[n] = at[d + n + 1] /\ f[n - 1] = at[d + n]
    <3>1. f[n - 1] = at[d + (n - 1) + 1]
      BY <2>1, <1>4
    <3> QED BY <3>1, <2>1, <1>4
  <2> QED BY <2>2, <1>1
<1>7. f[from] = at[d + from + 1] /\ f[z] = at[d + z + 1]
  BY <1>4, <1>5
<1> HIDE DEF Step
<1> QED BY <1>1, <1>3, <1>6, <1>7 DEF Reads

-----------------------------------------------------------------------------
(* Where the suspension points are.                                         *)

\* Statement i of block b of coroutine c suspends.
Suspends(r, c, b, i) ==
    /\ b \in BlocksOf(r, c) /\ i \in 1 .. Len(r.cfg[b].stmts)
    /\ r.cfg[b].stmts[i].op \in Suspensions

\* Every marker of a block comes before its suspension point.
LEMMA MarkerBefore ==
    ASSUME NEW r, Regioned(r), NEW c \in Coros, NEW b, NEW i, Suspends(r, c, b, i),
           NEW p \in 1 .. Len(r.cfg[b].stmts), r.cfg[b].stmts[p] \in Markers
    PROVE  p < i
<1>1. PICK s : s = r.cfg[b].stmts
  OBVIOUS
<1>2. Text(r.body[c], s, r.at[b])
  BY <1>1, BlockText DEF Suspends
<1>3. PICK n \in Nat : n = Len(s)
  BY <1>2 DEF Text, IsSeq
<1>4. i \in 1 .. n /\ p \in 1 .. n /\ s[i].op \in Suspensions /\ s[p] \in Markers
  BY <1>1, <1>3 DEF Suspends
<1>5. s[p].op \in {"RegionBegin", "RegionEnd", "CoroutineBegin", "CoroutineEnd"}
  BY <1>2, <1>3, <1>4, TextSteps
<1>6. i # p
  BY <1>4, <1>5 DEF Suspensions
<1>7. ~(i < p)
  BY <1>2, <1>3, <1>4 DEF Text
<1> QED BY <1>4, <1>6, <1>7

\* A suspension point is in front of nothing that the transform looks for, and the
\* block of the end has none.
LEMMA SuspendsInside ==
    ASSUME NEW r, Regioned(r), NEW c \in Coros, NEW b, NEW i, Suspends(r, c, b, i)
    PROVE  /\ Inside(BlocksOf(r, c), CoroOf(r, c), Place(r.cfg, b, i))
           /\ b # CoroOf(r, c).end[1] /\ i > Skips(r, b)
<1>1. PICK co : co = CoroOf(r, c)
  OBVIOUS
<1>2. Marks(r, co.begin) /\ Marks(r, co.end) /\ Marks(r, RegionOf(r).begin)
  BY <1>1, Contract
<1>3. b = co.begin[1] => i > co.begin[2]
  <2>1. ASSUME b = co.begin[1] PROVE co.begin[2] < i
    BY <2>1, <1>2, MarkerBefore DEF Marks
  <2>2. b = co.begin[1] => co.begin[2] \in Int /\ i \in Int
    BY <1>2 DEF Marks, Suspends
  <2> QED BY <2>1, <2>2
<1>4. i > Skips(r, b)
  <2>1. CASE b = RegionOf(r).begin[1]
    <3>1. RegionOf(r).begin[2] < i
      BY <2>1, <1>2, MarkerBefore DEF Marks
    <3>2. RegionOf(r).begin[2] \in Int /\ i \in Int
      BY <2>1, <1>2 DEF Marks, Suspends
    <3> QED BY <3>1, <3>2, <2>1 DEF Skips
  <2>2. CASE b # RegionOf(r).begin[1]
    BY <2>2 DEF Skips, Suspends
  <2> QED BY <2>1, <2>2
<1>5. b # co.end[1]
  <2> SUFFICES ASSUME b = co.end[1] PROVE FALSE
    OBVIOUS
  <2>1. PICK p : p = co.end[2]
    OBVIOUS
  <2>2. PICK s : s = r.cfg[b].stmts
    OBVIOUS
  <2>3. PICK at : at = r.at[b]
    OBVIOUS
  <2>4. PICK src : src = r.body[c]
    OBVIOUS
  <2>5. Text(src, s, at)
    BY <2>2, <2>3, <2>4, BlockText DEF Suspends
  <2>6. p \in 1 .. Len(s) /\ s[p] \in Markers
    BY <2>1, <2>2, <1>2 DEF Marks
  <2>7. i \in 1 .. Len(s) /\ p < i
    BY <2>2, <2>6, MarkerBefore DEF Suspends
  <2>8. PICK n \in Nat : n = Len(s)
    BY <2>5 DEF Text, IsSeq
  <2>9. p + 1 \in 1 .. n + 1 /\ i \in 1 .. n + 1 /\ p + 1 <= i
    BY <2>6, <2>7, <2>8
  <2>10. at[p + 1] <= at[i]
    BY <2>5, <2>8, <2>9, TextGrows
  <2>11. at[i + 1] = at[i] + 1 /\ at[i + 1] \in 1 .. Len(src)
    BY <2>2, <2>5, <2>7, TextSteps DEF Suspends
  <2>12. at[p + 1] = Len(src)
    BY <2>1, <2>3, <2>4, <1>1, Contract
  <2>13. Len(src) \in Nat /\ at[i] \in Int
    BY <2>5, <2>8, <2>9 DEF Text, IsSeq
  <2> QED BY <2>10, <2>11, <2>12, <2>13
<1>6. PICK x : x = Place(r.cfg, b, i)
  OBVIOUS
<1>7. x[1] = b /\ x[2] = i /\ x[3] = r.cfg[b].stmts[i]
  BY <1>6 DEF Place
<1>8. Inside(BlocksOf(r, c), co, x)
  BY <1>1, <1>3, <1>5, <1>7 DEF Inside, Suspends
<1> QED BY <1>1, <1>4, <1>5, <1>6, <1>8

\* The suspension points of a coroutine: one in each of some of its blocks.
LEMMA PointFacts ==
    ASSUME NEW r, Regioned(r), NEW c \in Coros, NEW P, P = PointsOf(r, c)
    PROVE  /\ IsSeq(P)
           /\ \A m \in 1 .. Len(P) : \E b, i : P[m] = Place(r.cfg, b, i) /\ Suspends(r, c, b, i)
           /\ \A m, n \in 1 .. Len(P) : P[m][1] = P[n][1] => m = n
           /\ \A b \in BlocksOf(r, c) :
                 (\A m \in 1 .. Len(P) : P[m][1] # b) =>
                 \A i \in 1 .. Len(r.cfg[b].stmts) : r.cfg[b].stmts[i].op \notin Suspensions
<1>1. PICK g : g = r.cfg
  OBVIOUS
<1>2. IsCfg(g)
  BY <1>1, CfgIs
<1>3. PICK co : co = CoroOf(r, c)
  OBVIOUS
<1>4. PICK B : B = BlocksOf(r, c)
  OBVIOUS
<1>5. B = BodyBlocks(g, co) /\ P = FindSuspensionPoints(g, co)
  BY <1>1, <1>3, <1>4 DEF BlocksOf, PointsOf
<1> HIDE DEF Inside
<1>6. Pointed(g, B, co, P)
  BY <1>2, <1>5, PointsAre
<1>7. ASSUME NEW m \in 1 .. Len(P)
      PROVE  \E b, i : P[m] = Place(g, b, i) /\ Suspends(r, c, b, i)
  <2>1. PICK b \in 1 .. Len(g) : \E i \in 1 .. Len(g[b].stmts) : P[m] = Place(g, b, i)
    BY <1>6 DEF Pointed
  <2>2. PICK i \in 1 .. Len(g[b].stmts) : P[m] = Place(g, b, i)
    BY <2>1
  <2>3. Inside(B, co, Place(g, b, i))
    BY <2>2, <1>6 DEF Pointed
  <2>4. b \in B /\ g[b].stmts[i].op \in Suspensions
    BY <2>3 DEF Inside, Place
  <2>5. Suspends(r, c, b, i)
    BY <2>4, <1>1, <1>4 DEF Suspends
  <2> QED BY <2>2, <2>5
<1>8. ASSUME NEW m \in 1 .. Len(P), NEW n \in 1 .. Len(P), P[m][1] = P[n][1] PROVE m = n
  <2>1. PICK b, i : P[m] = Place(g, b, i) /\ Suspends(r, c, b, i)
    BY <1>7
  <2>2. PICK d, j : P[n] = Place(g, d, j) /\ Suspends(r, c, d, j)
    BY <1>7
  <2>3. d = b
    BY <2>1, <2>2, <1>8 DEF Place
  <2>4. Text(r.body[c], g[b].stmts, r.at[b])
    BY <2>1, <1>1, BlockText DEF Suspends
  <2>5. PICK z \in Nat : z = Len(g[b].stmts)
    BY <2>4 DEF Text, IsSeq
  <2>6. /\ i \in 1 .. z /\ j \in 1 .. z
        /\ g[b].stmts[i].op \in Suspensions /\ g[b].stmts[j].op \in Suspensions
    BY <2>1, <2>2, <2>3, <2>5, <1>1 DEF Suspends
  <2>7. ~(i < j) /\ ~(j < i)
    BY <2>4, <2>5, <2>6 DEF Text
  <2>8. i = j
    BY <2>6, <2>7
  <2> QED BY <2>1, <2>2, <2>3, <2>8, <1>6 DEF Pointed
<1>9. ASSUME NEW b \in B, \A m \in 1 .. Len(P) : P[m][1] # b,
             NEW i \in 1 .. Len(g[b].stmts), g[b].stmts[i].op \in Suspensions
      PROVE  FALSE
  <2>1. Suspends(r, c, b, i)
    BY <1>1, <1>4, <1>9 DEF Suspends
  <2>2. Inside(B, co, Place(g, b, i))
    BY <2>1, <1>1, <1>3, <1>4, SuspendsInside
  <2>3. b \in 1 .. Len(g)
    BY <1>1, <1>4, Contract
  <2>4. PICK m \in 1 .. Len(P) : P[m] = Place(g, b, i)
    BY <2>2, <2>3, <1>6 DEF Pointed
  <2> QED BY <2>4, <1>9 DEF Place
<1>10. IsSeq(P)
  BY <1>6 DEF Pointed
<1> QED BY <1>1, <1>4, <1>10, <1>7, <1>8, <1>9

-----------------------------------------------------------------------------
(* What the editing operations of the CFG do. *)

\* h is g but for block b, which is x.
Edited(g, h, b, x) ==
    /\ IsSeq(h) /\ Len(h) = Len(g) /\ h[b] = x
    /\ \A a \in 1 .. Len(g) : a # b => h[a] = g[a]

\* ... and h has one more block, y.
Grown(g, h, b, x, y) ==
    /\ IsSeq(h) /\ Len(h) = Len(g) + 1 /\ h[b] = x /\ h[Len(g) + 1] = y
    /\ \A a \in 1 .. Len(g) : a # b => h[a] = g[a]

\* A block is replaced.
LEMMA EditIs ==
    ASSUME NEW g, IsSeq(g), NEW b \in 1 .. Len(g), NEW x
    PROVE  Edited(g, [g EXCEPT ![b] = x], b, x)
<1>1. PICK h : h = [g EXCEPT ![b] = x]
  OBVIOUS
<1>2. PICK n \in Nat : n = Len(g)
  BY DEF IsSeq
<1>3. g = [i \in 1 .. n |-> g[i]]
  BY <1>2 DEF IsSeq
<1>4. h = [i \in 1 .. n |-> h[i]]
  BY <1>1, <1>3
<1>5. IsSeq(h) /\ Len(h) = n
  BY <1>4, SeqMade, Zenon
<1>6. \A i \in 1 .. n : h[i] = IF i = b THEN x ELSE g[i]
  BY <1>1, <1>3
<1> QED BY <1>1, <1>2, <1>5, <1>6 DEF Edited

\* SetTerm.
LEMMA SetTermIs ==
    ASSUME NEW g, IsSeq(g), NEW b \in 1 .. Len(g), NEW s, NEW u, g[b] = Block(s, u), NEW t
    PROVE  Edited(g, SetTerm(g, b, t), b, Block(s, t))
<1>1. PICK h : h = SetTerm(g, b, t)
  OBVIOUS
<1>2. b \in DOMAIN g
  BY Bounds
<1>3. [g[b] EXCEPT !.term = t] = Block(s, t)
  BY DEF Block
<1>4. h = [g EXCEPT ![b] = Block(s, t)]
  BY <1>1, <1>2, <1>3 DEF SetTerm
<1>5. PICK y : y = Block(s, t)
  OBVIOUS
<1>6. Edited(g, h, b, y)
  BY <1>4, <1>5, EditIs
<1> QED BY <1>1, <1>5, <1>6

\* ReplaceWithNop: the statement is erased where it is, or nothing is.
LEMMA NopIs ==
    ASSUME NEW g, IsSeq(g), NEW b \in 1 .. Len(g), NEW s, NEW u, g[b] = Block(s, u), NEW i
    PROVE  IF i \in DOMAIN s THEN Edited(g, ReplaceWithNop(g, b, i), b, Block([s EXCEPT ![i] = Nop], u))
           ELSE ReplaceWithNop(g, b, i) = g
<1>1. PICK h : h = ReplaceWithNop(g, b, i)
  OBVIOUS
<1>2. b \in DOMAIN g
  BY Bounds
<1>3. g[b].stmts = s
  BY DEF Block
<1>4. ASSUME i \notin DOMAIN s PROVE h = g
  BY <1>1, <1>3, <1>4 DEF ReplaceWithNop
<1>5. ASSUME i \in DOMAIN s PROVE Edited(g, h, b, Block([s EXCEPT ![i] = Nop], u))
  <2>1. PICK z : z = [s EXCEPT ![i] = Nop]
    OBVIOUS
  <2>2. h = [g EXCEPT ![b].stmts[i] = Nop]
    BY <1>1, <1>3, <1>5 DEF ReplaceWithNop
  <2>3. [g[b] EXCEPT !.stmts = [g[b].stmts EXCEPT ![i] = Nop]] = Block(z, u)
    BY <1>3, <2>1 DEF Block
  <2>4. h = [g EXCEPT ![b] = Block(z, u)]
    BY <1>2, <2>2, <2>3
  <2> QED BY <2>1, <2>4, EditIs
<1> QED BY <1>1, <1>4, <1>5

\* SplitAfter: the statements behind the cut are in a new block, with the terminator.
LEMMA SplitIs ==
    ASSUME NEW g, IsSeq(g), NEW b \in 1 .. Len(g), NEW s, NEW u, g[b] = Block(s, u), NEW i
    PROVE  Grown(g, SplitAfter(g, b, i), b, Block(SubSeq(s, 1, i), Unset),
                 Block(SubSeq(s, i + 1, Len(s)), u))
<1>1. PICK h : h = SplitAfter(g, b, i)
  OBVIOUS
<1>2. b \in DOMAIN g
  BY Bounds
<1>3. g[b].stmts = s /\ g[b].term = u
  BY DEF Block
<1>4. PICK x : x = Block(SubSeq(s, 1, i), Unset)
  OBVIOUS
<1>5. PICK y : y = Block(SubSeq(s, i + 1, Len(s)), u)
  OBVIOUS
<1>6. h = Append([g EXCEPT ![b] = x], y)
  BY <1>1, <1>2, <1>3, <1>4, <1>5 DEF SplitAfter
<1>7. PICK f : f = [g EXCEPT ![b] = x]
  OBVIOUS
<1>8. Edited(g, f, b, x)
  BY <1>7, EditIs
<1>9. PICK n \in Nat : n = Len(g)
  BY DEF IsSeq
<1>10. IsSeq(f) /\ Len(f) = n /\ f[b] = x /\ \A a \in 1 .. n : a # b => f[a] = g[a]
  BY <1>8, <1>9 DEF Edited
<1>11. h = Append(f, y)
  BY <1>6, <1>7
<1>12. IsSeq(h) /\ Len(h) = n + 1 /\ h[n + 1] = y /\ \A a \in 1 .. n : h[a] = f[a]
  BY <1>10, <1>11, SeqAppend
<1>13. Grown(g, h, b, x, y)
  BY <1>9, <1>10, <1>12 DEF Grown
<1> QED BY <1>1, <1>4, <1>5, <1>13

\* The parts of a block.
LEMMA BlockIs == \A s, u : Block(s, u).stmts = s /\ Block(s, u).term = u
BY DEF Block

-----------------------------------------------------------------------------
(* What a cut does. *)

\* The statements of a block before the cut at a yield or a send.
Plain(s, i, op) == IF op = "Yield" THEN [SubSeq(s, 1, i) EXCEPT ![i] = Nop] ELSE SubSeq(s, 1, i)

\* The operation behind its guard.
Passing(op) == <<Assign("progress", 1), [op EXCEPT !.op = "Recv"]>>

\* What the block behind an open guard holds.
Resumed(s, i) == Passing(s[i]) \o SubSeq(s, i + 1, Len(s))

\* Statement i of block b can be cut.
CanCut(m, x, L, b, s, u, i) ==
    /\ IsSeq(m.g) /\ L \in Nat /\ L = Len(m.g) /\ b \in 1 .. L /\ IsSeq(s) /\ m.g[b] = Block(s, u)
    /\ i \in 1 .. Len(s) /\ x[1] = b /\ x[2] = i

\* What CutPlain leaves at point n, in block b cut behind its statement i.
PlainDone(m, w, L, b, s, u, i, op, n, exit) ==
    /\ IsSeq(w.g) /\ Len(w.g) = L + 2
    /\ w.g[b] = Block(Plain(s, i, op), Goto(L + 1))
    /\ w.g[L + 1] = LeaveBlock(n, "PENDING", exit)
    /\ w.g[L + 2] = Block(SubSeq(s, i + 1, Len(s)), u)
    /\ \A a \in 1 .. L : a # b => w.g[a] = m.g[a]
    /\ w.entries = Append(m.entries, L + 2)

\* What CutGuard leaves where the guard is the block's first statement: the block is the guard.
FirstDone(m, w, L, b, s, u, n, exit) ==
    /\ IsSeq(w.g) /\ Len(w.g) = L + 3
    /\ w.g[b] = Block(<< >>, Branch(s[1].arg, L + 2, L + 3))
    /\ w.g[L + 1] = LeaveBlock(n, "PENDING", exit)
    /\ w.g[L + 2] = Block(Resumed(s, 1), u)
    /\ w.g[L + 3] = LeaveBlock(n, "BLOCKED", exit)
    /\ \A a \in 1 .. L : a # b => w.g[a] = m.g[a]
    /\ w.entries = Append(m.entries, b)

\* What CutGuard leaves where the guard is statement i behind others: it has its own block.
BehindDone(m, w, L, b, s, u, i, n, exit) ==
    /\ IsSeq(w.g) /\ Len(w.g) = L + 4
    /\ w.g[b] = Block(SubSeq(s, 1, i - 1), Goto(L + 2))
    /\ w.g[L + 1] = LeaveBlock(n, "PENDING", exit)
    /\ w.g[L + 2] = Block(<< >>, Branch(s[i].arg, L + 3, L + 4))
    /\ w.g[L + 3] = Block(Resumed(s, i), u)
    /\ w.g[L + 4] = LeaveBlock(n, "BLOCKED", exit)
    /\ \A a \in 1 .. L : a # b => w.g[a] = m.g[a]
    /\ w.entries = Append(m.entries, L + 2)

\* CutPlain.
LEMMA CutPlainIs ==
    ASSUME NEW m, NEW x, NEW L, NEW b, NEW s, NEW u, NEW i, CanCut(m, x, L, b, s, u, i), NEW n, NEW exit
    PROVE  PlainDone(m, CutPlain(m, x, n, exit), L, b, s, u, i, x[3].op, n, exit)
<1> PICK w : w = CutPlain(m, x, n, exit)
  OBVIOUS
<1>0. IsSeq(m.g) /\ L \in Nat /\ L = Len(m.g) /\ b \in 1 .. L /\ IsSeq(s) /\ m.g[b] = Block(s, u)
      /\ x[1] = b /\ x[2] = i /\ i \in 1 .. Len(s)
  BY DEF CanCut
<1> USE <1>0
<1>1. PICK lb : lb = LeaveBlock(n, "PENDING", exit)
  OBVIOUS
<1>2. PICK g : g = Append(m.g, lb)
  OBVIOUS
<1>3. IsSeq(g) /\ Len(g) = L + 1 /\ g[L + 1] = lb /\ \A a \in 1 .. L : g[a] = m.g[a]
  BY <1>2, SeqAppend
<1>4. b \in 1 .. Len(g) /\ g[b] = Block(s, u)
  BY SMTT(30), <1>3
<1>5. PICK split : split = SplitAfter(g, b, i)
  OBVIOUS
<1>6. PICK t : t = SubSeq(s, 1, i)
  OBVIOUS
<1>7. PICK rest : rest = Block(SubSeq(s, i + 1, Len(s)), u)
  OBVIOUS
<1>8. Grown(g, split, b, Block(t, Unset), rest)
  BY <1>3, <1>4, <1>5, <1>6, <1>7, SplitIs
<1>9. /\ IsSeq(split) /\ Len(split) = L + 2 /\ split[b] = Block(t, Unset) /\ split[L + 2] = rest
      /\ \A a \in 1 .. L + 1 : a # b => split[a] = g[a]
  BY <1>3, <1>8 DEF Grown
<1>10. PICK erased : erased = IF x[3].op = "Yield" THEN ReplaceWithNop(split, b, i) ELSE split
  OBVIOUS
<1>11. PICK v : v = Plain(s, i, x[3].op)
  OBVIOUS
<1>l. PICK z \in Nat : z = Len(s)
  BY DEF IsSeq
<1>12. IsSeq(t) /\ Len(t) = i /\ i \in DOMAIN t
  <2>1. i \in 1 .. z
    BY <1>l
  <2>2. IsSeq(t) /\ Len(t) = i - 1 + 1
    BY <2>1, <1>l, <1>6, SeqSub
  <2>3. Len(t) = i
    BY <2>1, <2>2
  <2>4. DOMAIN t = 1 .. i
    BY <2>2, <2>3, Bounds
  <2> QED BY <2>1, <2>2, <2>3, <2>4
<1>13. /\ IsSeq(erased) /\ Len(erased) = L + 2 /\ erased[b] = Block(v, Unset)
       /\ \A a \in 1 .. L + 2 : a # b => erased[a] = split[a]
  <2>1. CASE x[3].op = "Yield"
    <3>1. v = [t EXCEPT ![i] = Nop]
      BY <2>1, <1>6, <1>11 DEF Plain
    <3>2. erased = ReplaceWithNop(split, b, i)
      BY <2>1, <1>10
    <3>3. b \in 1 .. Len(split)
      BY <1>9
    <3>4. Edited(split, erased, b, Block(v, Unset))
      BY <3>1, <3>2, <3>3, <1>9, <1>12, NopIs
    <3> QED BY <3>4, <1>9 DEF Edited
  <2>2. CASE x[3].op # "Yield"
    BY <2>2, <1>6, <1>9, <1>10, <1>11 DEF Plain
  <2> QED BY <2>1, <2>2
<1>14. PICK h : h = SetTerm(erased, b, Goto(L + 1))
  OBVIOUS
<1>15. Edited(erased, h, b, Block(v, Goto(L + 1)))
  BY <1>13, <1>14, SetTermIs
<1>16. w = [g |-> h, entries |-> Append(m.entries, L + 2)]
  <2>1. Len(g) = L + 1 /\ Len(split) = L + 2
    BY <1>3, <1>9
  <2> QED BY <1>1, <1>2, <1>5, <1>10, <1>14, <2>1 DEF CutPlain
<1>17. w.g = h /\ w.entries = Append(m.entries, L + 2)
  BY <1>16
<1>18. /\ IsSeq(h) /\ Len(h) = L + 2 /\ h[b] = Block(v, Goto(L + 1))
       /\ \A a \in 1 .. L + 2 : a # b => h[a] = erased[a]
  BY <1>13, <1>15 DEF Edited
<1>19. L + 1 \in 1 .. L + 2 /\ L + 2 \in 1 .. L + 2 /\ L + 1 \in 1 .. L + 1 /\ L + 1 # b /\ L + 2 # b
  OBVIOUS
<1>20. h[L + 1] = lb /\ h[L + 2] = rest
  BY <1>3, <1>9, <1>13, <1>18, <1>19
<1>21. \A a \in 1 .. L : a # b => h[a] = m.g[a]
  <2>1. \A a \in 1 .. L : a \in 1 .. L + 1 /\ a \in 1 .. L + 2
    OBVIOUS
  <2> SUFFICES ASSUME NEW a \in 1 .. L, a # b PROVE h[a] = m.g[a]
    OBVIOUS
  <2>2. h[a] = erased[a] /\ erased[a] = split[a]
    BY <2>1, <1>13, <1>18
  <2>3. split[a] = g[a] /\ g[a] = m.g[a]
    BY <2>1, <1>3, <1>9
  <2> QED BY <2>2, <2>3
<1>z. PlainDone(m, w, L, b, s, u, i, x[3].op, n, exit)
  BY <1>1, <1>7, <1>11, <1>17, <1>18, <1>20, <1>21 DEF PlainDone
<1> QED BY <1>z

\* A guard in block b, which holds s from the operation on; m has the leave block of
\* the suspension already.
Guarded(g, b, q, s, u, n, exit, w, L) ==
    /\ IsSeq(w) /\ Len(w) = L + 2
    /\ w[b] = Block(<< >>, Branch(q, L + 1, L + 2))
    /\ w[L + 1] = Block(Passing(s[1]) \o SubSeq(s, 2, Len(s)), u)
    /\ w[L + 2] = LeaveBlock(n, "BLOCKED", exit)
    /\ \A a \in 1 .. L : a # b => w[a] = g[a]

\* The guard's block split behind the operation, which moves behind the peek.
Peeked(split, b, op, L, n, exit) ==
    Append([split EXCEPT ![b] = Block(<< >>, Branch(op.arg, L + 1, L + 2)),
                         ![L + 1].stmts = <<Assign("progress", 1), [op EXCEPT !.op = "Recv"]>> \o @],
           LeaveBlock(n, "BLOCKED", exit))

\* The guard's block and the block behind it.
LEMMA PeekIs ==
    ASSUME NEW g, IsSeq(g), NEW L \in Nat, L = Len(g), NEW b \in 1 .. L,
           NEW s, IsSeq(s), Len(s) > 0, NEW u, g[b] = Block(s, u), NEW n, NEW exit, NEW split,
           split = SplitAfter(g, b, 1), NEW w,
           w = Peeked(split, b, s[1], L, n, exit)
    PROVE  Guarded(g, b, s[1].arg, s, u, n, exit, w, L)
<1>1. PICK x : x = Block(SubSeq(s, 1, 1), Unset)
  OBVIOUS
<1>2. PICK t : t = SubSeq(s, 1 + 1, Len(s))
  OBVIOUS
<1>3. Grown(g, split, b, x, Block(t, u))
  BY <1>1, <1>2, SplitIs
<1>4. /\ IsSeq(split) /\ Len(split) = L + 1 /\ split[L + 1] = Block(t, u)
      /\ \A a \in 1 .. L : a # b => split[a] = g[a]
  BY <1>3 DEF Grown
<1>5. PICK y : y = Block(<< >>, Branch(s[1].arg, L + 1, L + 2))
  OBVIOUS
<1>6. PICK f : f = [split EXCEPT ![b] = y]
  OBVIOUS
<1>7. b \in 1 .. L + 1 /\ b # L + 1 /\ L + 1 \in 1 .. L + 1 /\ \A a \in 1 .. L : a \in 1 .. L + 1 /\ a # L + 1
  OBVIOUS
<1>8. Edited(split, f, b, y)
  BY <1>4, <1>6, <1>7, EditIs
<1>9. /\ IsSeq(f) /\ Len(f) = L + 1 /\ f[b] = y /\ f[L + 1] = Block(t, u)
      /\ \A a \in 1 .. L : a # b => f[a] = g[a]
  BY <1>4, <1>7, <1>8 DEF Edited
<1>10. PICK p : p = Passing(s[1]) \o t
  OBVIOUS
<1>11. PICK h : h = [f EXCEPT ![L + 1] = Block(p, u)]
  OBVIOUS
<1>12. Edited(f, h, L + 1, Block(p, u))
  BY <1>7, <1>9, <1>11, EditIs
<1>13. /\ IsSeq(h) /\ Len(h) = L + 1 /\ h[b] = y /\ h[L + 1] = Block(p, u)
       /\ \A a \in 1 .. L : a # b => h[a] = g[a]
  BY <1>7, <1>9, <1>12 DEF Edited
<1>14. w = Append(h, LeaveBlock(n, "BLOCKED", exit))
  <2>1. L + 1 \in DOMAIN f
    BY <1>7, <1>9, Bounds
  <2>2. f[L + 1].stmts = t
    BY <1>9, BlockIs
  <2>3. [f[L + 1] EXCEPT !.stmts = p] = Block(p, u)
    BY <1>9 DEF Block
  <2>4. h = [f EXCEPT ![L + 1].stmts = p]
    BY <2>1, <2>3, <1>11
  <2>5. PICK q : q = Passing(s[1])
    OBVIOUS
  <2>6. q \o split[L + 1].stmts = p
    <3>1. split[L + 1].stmts = t
      BY <1>4, BlockIs
    <3>2. p = q \o t
      BY <1>10, <2>5
    <3> QED BY <3>1, <3>2
  <2>7. w = Append([split EXCEPT ![b] = y, ![L + 1].stmts = q \o split[L + 1].stmts],
                   LeaveBlock(n, "BLOCKED", exit))
    BY <2>5, <1>5 DEF Peeked, Passing
  <2>8. w = Append([split EXCEPT ![b] = y, ![L + 1].stmts = p], LeaveBlock(n, "BLOCKED", exit))
    BY <2>6, <2>7
  <2>9. [split EXCEPT ![b] = y, ![L + 1].stmts = p] = [f EXCEPT ![L + 1].stmts = p]
    BY <1>6
  <2> QED BY <2>4, <2>8, <2>9
<1>15. PICK z : z = LeaveBlock(n, "BLOCKED", exit)
  OBVIOUS
<1>16. w = Append(h, z)
  BY <1>14, <1>15
<1>17. IsSeq(w) /\ Len(w) = (L + 1) + 1 /\ w[(L + 1) + 1] = z /\ \A a \in 1 .. L + 1 : w[a] = h[a]
  <2>1. PICK K : K = L + 1
    OBVIOUS
  <2>2. IsSeq(h) /\ K = Len(h)
    BY <2>1, <1>13
  <2>3. IsSeq(w) /\ Len(w) = K + 1 /\ w[K + 1] = z /\ \A a \in 1 .. K : w[a] = h[a]
    <3>1. IsSeq(w) /\ Len(w) = Len(h) + 1 /\ w[Len(h) + 1] = z /\ \A a \in 1 .. Len(h) : w[a] = h[a]
      <4>1. /\ IsSeq(Append(h, z)) /\ Len(Append(h, z)) = Len(h) + 1
            /\ Append(h, z)[Len(h) + 1] = z
            /\ \A a \in 1 .. Len(h) : Append(h, z)[a] = h[a]
        BY <2>2, SeqAppend
      <4> QED BY <1>16, <4>1, Zenon
    <3> QED BY <2>2, <3>1
  <2> QED BY <2>1, <2>3
<1>18. (L + 1) + 1 = L + 2 /\ 1 + 1 = 2
  OBVIOUS
<1>19. /\ IsSeq(w) /\ Len(w) = L + 2 /\ w[b] = y /\ w[L + 1] = Block(p, u) /\ w[L + 2] = z
       /\ \A a \in 1 .. L : a # b => w[a] = g[a]
  BY <1>7, <1>13, <1>17, <1>18
<1>20. p = Passing(s[1]) \o SubSeq(s, 2, Len(s))
  BY <1>2, <1>10, <1>18
<1> QED BY <1>5, <1>15, <1>19, <1>20 DEF Guarded

\* A guard that is the first statement of its block.
LEMMA CutGuardFirst ==
    ASSUME NEW m, NEW x, NEW L, NEW b, NEW s, NEW u, CanCut(m, x, L, b, s, u, 1), NEW n, NEW exit
    PROVE  FirstDone(m, CutGuard(m, x, n, exit), L, b, s, u, n, exit)
<1> PICK w : w = CutGuard(m, x, n, exit)
  OBVIOUS
<1>0. IsSeq(m.g) /\ L \in Nat /\ L = Len(m.g) /\ b \in 1 .. L /\ IsSeq(s) /\ m.g[b] = Block(s, u)
      /\ x[1] = b /\ x[2] = 1 /\ Len(s) > 0
  BY DEF CanCut, IsSeq
<1> USE <1>0
<1>1. PICK lb : lb = LeaveBlock(n, "PENDING", exit)
  OBVIOUS
<1>2. PICK g : g = Append(m.g, lb)
  OBVIOUS
<1>3. IsSeq(g) /\ Len(g) = L + 1 /\ g[L + 1] = lb /\ \A a \in 1 .. L : g[a] = m.g[a]
  BY <1>2, SeqAppend
<1>4. b \in 1 .. L + 1 /\ g[b] = Block(s, u) /\ L + 1 \in Nat /\ b # L + 1
  BY <1>3
<1>5. PICK split : split = SplitAfter(g, b, 1)
  OBVIOUS
<1>6. Len(split) = L + 2
  <2>1. PICK y : Grown(g, split, b, Block(SubSeq(s, 1, 1), Unset), y)
    BY <1>3, <1>4, <1>5, SplitIs
  <2> QED BY <2>1, <1>3 DEF Grown
<1>7. g[b].stmts[1] = s[1]
  BY <1>4, BlockIs
<1>8. PICK v : v = w.g
  OBVIOUS
<1>9. /\ v = Peeked(split, b, s[1], L + 1, n, exit)
      /\ w.entries = Append(m.entries, b)
  <2>1. L + 1 + 1 = L + 2 /\ L + 1 + 2 = L + 2 + 1
    OBVIOUS
  <2> QED BY <2>1, <1>1, <1>2, <1>5, <1>6, <1>7, <1>8 DEF CutGuard, Peeked
<1>10. L + 2 = (L + 1) + 1 /\ L + 2 + 1 = (L + 1) + 2 /\ L + 3 = (L + 1) + 2
  OBVIOUS
<1>11. Guarded(g, b, s[1].arg, s, u, n, exit, v, L + 1)
  BY <1>3, <1>4, <1>5, <1>9, <1>10, PeekIs
<1>12. /\ IsSeq(v) /\ Len(v) = L + 3
       /\ v[b] = Block(<< >>, Branch(s[1].arg, L + 2, L + 3))
       /\ v[L + 2] = Block(Passing(s[1]) \o SubSeq(s, 2, Len(s)), u)
       /\ v[L + 3] = LeaveBlock(n, "BLOCKED", exit)
       /\ \A a \in 1 .. L + 1 : a # b => v[a] = g[a]
  BY <1>10, <1>11 DEF Guarded
<1>13. L + 1 \in 1 .. L + 1 /\ \A a \in 1 .. L : a \in 1 .. L + 1
  OBVIOUS
<1>z. FirstDone(m, w, L, b, s, u, n, exit)
  <2>1. Resumed(s, 1) = Passing(s[1]) \o SubSeq(s, 2, Len(s))
    BY DEF Resumed
  <2>2. v[L + 1] = lb /\ \A a \in 1 .. L : a # b => v[a] = m.g[a]
    BY <1>3, <1>4, <1>12, <1>13
  <2>3. w.entries = Append(m.entries, b)
    BY <1>9
  <2> QED BY <2>1, <2>2, <2>3, <1>1, <1>8, <1>12 DEF FirstDone
<1> QED BY <1>z

\* A guard behind other statements gets a block of its own.
LEMMA CutGuardBehind ==
    ASSUME NEW m, NEW x, NEW L, NEW b, NEW s, NEW u, NEW i, CanCut(m, x, L, b, s, u, i), i # 1, NEW n, NEW exit
    PROVE  BehindDone(m, CutGuard(m, x, n, exit), L, b, s, u, i, n, exit)
<1> PICK w : w = CutGuard(m, x, n, exit)
  OBVIOUS
<1>0. IsSeq(m.g) /\ L \in Nat /\ L = Len(m.g) /\ b \in 1 .. L /\ IsSeq(s) /\ m.g[b] = Block(s, u)
      /\ x[1] = b /\ x[2] = i /\ i \in 2 .. Len(s)
  BY DEF CanCut, IsSeq
<1> USE <1>0
<1>1. PICK lb : lb = LeaveBlock(n, "PENDING", exit)
  OBVIOUS
<1>2. PICK g : g = Append(m.g, lb)
  OBVIOUS
<1>3. IsSeq(g) /\ Len(g) = L + 1 /\ g[L + 1] = lb /\ \A a \in 1 .. L : g[a] = m.g[a]
  BY <1>2, SeqAppend
<1>4. b \in 1 .. L + 1 /\ g[b] = Block(s, u) /\ L + 1 \in Nat /\ b # L + 1
  BY <1>3
<1>5. PICK cut : cut = SplitAfter(g, b, i - 1)
  OBVIOUS
<1>l. PICK z \in Nat : z = Len(s)
  BY DEF IsSeq
<1>i. i \in 2 .. z
  BY <1>l
<1>6. PICK t : t = SubSeq(s, 1, i - 1)
  OBVIOUS
<1>7. PICK o : o = SubSeq(s, i, z)
  OBVIOUS
<1>8. IsSeq(o) /\ Len(o) = z - i + 1 /\ \A j \in 1 .. z - i + 1 : o[j] = s[i + j - 1]
  BY <1>i, <1>l, <1>7, SeqSub
<1>9. Grown(g, cut, b, Block(t, Unset), Block(o, u))
  <2>1. (i - 1) + 1 = i
    BY <1>i
  <2> QED BY <2>1, <1>3, <1>4, <1>5, <1>6, <1>7, <1>l, SplitIs
<1>10. /\ IsSeq(cut) /\ Len(cut) = L + 2 /\ cut[b] = Block(t, Unset) /\ cut[L + 2] = Block(o, u)
       /\ \A a \in 1 .. L + 1 : a # b => cut[a] = g[a]
  BY <1>3, <1>9 DEF Grown
<1>11. PICK guarded : guarded = SetTerm(cut, b, Goto(L + 2))
  OBVIOUS
<1>12. b \in 1 .. L + 2 /\ b # L + 2 /\ L + 2 \in 1 .. L + 2 /\ L + 2 \in Nat
       /\ \A a \in 1 .. L + 1 : a \in 1 .. L + 2 /\ a # L + 2
  BY <1>4
<1>13. Edited(cut, guarded, b, Block(t, Goto(L + 2)))
  BY <1>10, <1>11, <1>12, SetTermIs
<1>14. /\ IsSeq(guarded) /\ Len(guarded) = L + 2 /\ guarded[b] = Block(t, Goto(L + 2))
       /\ guarded[L + 2] = Block(o, u)
       /\ \A a \in 1 .. L + 1 : a # b => guarded[a] = g[a]
  BY <1>10, <1>12, <1>13 DEF Edited
<1>15. PICK split : split = SplitAfter(guarded, L + 2, 1)
  OBVIOUS
<1>16. Len(split) = L + 3
  <2>1. PICK y : Grown(guarded, split, L + 2, Block(SubSeq(o, 1, 1), Unset), y)
    BY SMTT(30), <1>12, <1>14, <1>15, SplitIs
  <2> QED BY <2>1, <1>14 DEF Grown
<1>17. o[1] = s[i] /\ Len(o) > 0
  <2>1. 1 \in 1 .. z - i + 1 /\ i + 1 - 1 = i
    BY <1>i
  <2> QED BY <2>1, <1>8
<1>18. guarded[L + 2].stmts[1] = s[i]
  BY <1>14, <1>17, BlockIs
<1>19. PICK v : v = w.g
  OBVIOUS
<1>20. /\ v = Peeked(split, L + 2, s[i], L + 2, n, exit)
       /\ w.entries = Append(m.entries, L + 2)
  <2>1. (L + 1) + 1 = L + 2 /\ x[2] # 1
    BY <1>i
  <2>2. guarded = IF x[2] = 1 THEN g ELSE SetTerm(SplitAfter(g, x[1], x[2] - 1), x[1], Goto(Len(g) + 1))
    BY <2>1, <1>3, <1>5, <1>11
  <2>3. PICK guard : guard = IF x[2] = 1 THEN x[1] ELSE Len(guarded)
    OBVIOUS
  <2>4. guard = L + 2
    BY <2>1, <2>3, <1>14
  <2>5. split = SplitAfter(guarded, guard, 1)
    BY <2>4, <1>15
  <2>6. PICK op : op = guarded[guard].stmts[1]
    OBVIOUS
  <2>7. PICK resume : resume = Len(split)
    OBVIOUS
  <2>8. /\ v = Append([split EXCEPT ![guard] = Block(<< >>, Branch(op.arg, resume, resume + 1)),
                                   ![resume].stmts = <<Assign("progress", 1), [op EXCEPT !.op = "Recv"]>> \o @],
                      LeaveBlock(n, "BLOCKED", exit))
        /\ w.entries = Append(m.entries, guard)
    BY ZenonT(40), <2>2, <2>3, <2>5, <2>6, <2>7, <1>1, <1>2, <1>19 DEF CutGuard
  <2>9. op = s[i] /\ resume = L + 3
    BY <2>4, <2>6, <2>7, <1>16, <1>18
  <2>10. L + 2 + 1 = L + 3 /\ L + 2 + 2 = L + 3 + 1
    OBVIOUS
  <2> QED BY <2>4, <2>8, <2>9, <2>10 DEF Peeked
<1>21. L + 3 = (L + 2) + 1 /\ L + 3 + 1 = (L + 2) + 2 /\ L + 4 = (L + 2) + 2
  OBVIOUS
<1>22. Guarded(guarded, L + 2, o[1].arg, o, u, n, exit, v, L + 2)
  BY <1>12, <1>14, <1>15, <1>17, <1>8, <1>20, <1>21, PeekIs
<1>23. PICK e : e = SubSeq(o, 2, Len(o))
  OBVIOUS
<1>24. e = SubSeq(s, i + 1, Len(s))
  <2>1. Len(o) = z - i + 1
    BY <1>8
  <2>2. PICK q \in Nat : q = z - i
    BY <1>i
  <2>3. IsSeq(e) /\ Len(e) = q /\ \A j \in 1 .. q : e[j] = o[2 + j - 1]
    <3>1. 2 \in Int /\ Len(o) \in Int /\ 2 <= Len(o) + 1 /\ Len(o) - 2 + 1 = q
      BY <2>1, <2>2, <1>i
    <3>2. IsSeq(e) /\ Len(e) = Len(o) - 2 + 1 /\ \A j \in 1 .. Len(o) - 2 + 1 : e[j] = o[2 + j - 1]
      BY <3>1, <1>8, <1>23, SeqSub
    <3> QED BY <3>1, <3>2
  <2>4. \A j \in 1 .. q : o[2 + j - 1] = s[i + j]
    <3> TAKE j \in 1 .. q
    <3>1. 2 + j - 1 \in 1 .. z - i + 1 /\ i + (2 + j - 1) - 1 = i + j
      BY <2>2, <1>i
    <3> QED BY <3>1, <1>8
  <2>5. PICK d : d = SubSeq(s, i + 1, z)
    OBVIOUS
  <2>6. IsSeq(d) /\ Len(d) = q /\ \A j \in 1 .. q : d[j] = s[i + j]
    <3>1. i + 1 \in Int /\ i + 1 <= z + 1 /\ z - (i + 1) + 1 = q /\ z \in Int /\ i + 1 >= 1
      BY <2>2, <1>i
    <3>2. IsSeq(d) /\ Len(d) = z - (i + 1) + 1 /\ \A j \in 1 .. z - (i + 1) + 1 : d[j] = s[(i + 1) + j - 1]
      BY <3>1, <1>l, <2>5, SeqSub
    <3>3. \A j \in 1 .. q : (i + 1) + j - 1 = i + j
      BY <1>i
    <3> QED BY <3>1, <3>2, <3>3
  <2>7. e = [j \in 1 .. q |-> e[j]] /\ d = [j \in 1 .. q |-> d[j]]
    BY <2>3, <2>6 DEF IsSeq
  <2>8. \A j \in 1 .. q : e[j] = d[j]
    BY <2>3, <2>4, <2>6
  <2>9. e = d
    BY <2>7, <2>8
  <2> QED BY <2>5, <2>9, <1>l
<1>25. /\ IsSeq(v) /\ Len(v) = L + 4
       /\ v[L + 2] = Block(<< >>, Branch(s[i].arg, L + 3, L + 4))
       /\ v[L + 3] = Block(Passing(s[i]) \o SubSeq(s, i + 1, Len(s)), u)
       /\ v[L + 4] = LeaveBlock(n, "BLOCKED", exit)
       /\ \A a \in 1 .. L + 2 : a # L + 2 => v[a] = guarded[a]
  BY <1>17, <1>21, <1>22, <1>23, <1>24 DEF Guarded
<1>26. /\ L + 1 \in 1 .. L + 2 /\ L + 1 # L + 2 /\ L + 1 \in 1 .. L + 1
       /\ \A a \in 1 .. L : a \in 1 .. L + 2 /\ a \in 1 .. L + 1 /\ a # L + 2
       /\ b \in 1 .. L + 2 /\ b # L + 2 /\ b # L + 1
  BY <1>4
<1>27. v[b] = Block(t, Goto(L + 2)) /\ v[L + 1] = lb
       /\ \A a \in 1 .. L : a # b => v[a] = m.g[a]
  BY <1>3, <1>14, <1>25, <1>26
<1>z. BehindDone(m, w, L, b, s, u, i, n, exit)
  BY <1>1, <1>6, <1>19, <1>20, <1>25, <1>27 DEF BehindDone, Resumed
<1> QED BY <1>z

-----------------------------------------------------------------------------
(* The machine while it is made: block h still holds the p statements in front of *)
(* the executor.                                                                  *)

\* A switch has one target for each state.
OneTarget(t) == \A x, y \in t.arms : x[1] = y[1] => x[2] = y[2]

\* A piece of a machine that is not finished: what Piece says, but that block h is read from its
\* statement p on, and that nothing but the switch goes to h.
Fragment(c, src, pts, g, role, h, p, b) ==
    LET x == role[b]
        s == g[b].stmts
        t == g[b].term
        from == IF b = h THEN p ELSE 0
    IN  \/ /\ x = Enters(c) /\ s = << >> /\ t.kind = "switch" /\ OneTarget(t)
           /\ \A n \in 0 .. Len(pts) : Is(g, role, SwitchTo(t, n), At(c, ResumesAt(src, pts, n)))
        \/ \E i, j \in 0 .. Len(src) :
              /\ x = At(c, i) /\ from <= Len(s) /\ Reads(src, s, from, i, j)
              /\ Leads(c, src, pts, g, role, i, j, t) /\ t.to # h
        \/ \E i \in 0 .. Len(src) - 1 :
              /\ b # h /\ x = At(c, i) /\ s = << >> /\ src[i + 1][1] = "GuardedRecv"
              /\ t.kind = "branch" /\ t.on = src[i + 1][2]
              /\ Is(g, role, t.yes, Let(c, i))
              /\ \E n \in 1 .. Len(pts) :
                    Is(g, role, t.no, Out(c, n, "BLOCKED")) /\ ResumesAt(src, pts, n) = i
        \/ \E i \in 0 .. Len(src) - 1, j \in 0 .. Len(src) :
              /\ x = Let(c, i) /\ src[i + 1][1] = "GuardedRecv" /\ Len(s) > 1
              /\ s[1] = Assign("progress", 1) /\ s[2] = Operation("Recv", src[i + 1][2], i + 1)
              /\ Reads(src, s, 2, i + 1, j) /\ Leads(c, src, pts, g, role, i + 1, j, t) /\ t.to # h
        \/ \E n \in 1 .. Len(pts) \cup {DONE_STATE}, q \in {"PENDING", "BLOCKED", "READY"} :
              /\ (q = "READY") = (n = DONE_STATE)
              /\ x = Out(c, n, q) /\ g[b] = LeaveBlock(n, q, t.to) /\ Is(g, role, t.to, Exits(c))
        \/ x = Exits(c) /\ s = << >> /\ t = Leave

\* role2 and g2 have what role and g have.
Extends(g, role, g2, role2) ==
    DOMAIN g \subseteq DOMAIN g2 /\ \A b \in DOMAIN g : role2[b] = role[b]

\* Extending a CFG keeps the blocks' roles,
LEMMA IsKeeps ==
    ASSUME NEW g, NEW role, NEW g2, NEW role2, Extends(g, role, g2, role2), NEW b, NEW x, Is(g, role, b, x)
    PROVE  Is(g2, role2, b, x)
BY DEF Extends, Is

\* ... where they lead,
LEMMA LeadsKeeps ==
    ASSUME NEW g, NEW role, NEW g2, NEW role2, Extends(g, role, g2, role2),
           NEW c, NEW src, NEW pts, NEW i, NEW j, NEW t, Leads(c, src, pts, g, role, i, j, t)
    PROVE  Leads(c, src, pts, g2, role2, i, j, t)
<1>1. \A b, x : Is(g, role, b, x) => Is(g2, role2, b, x)
  BY IsKeeps
<1> QED BY <1>1 DEF Leads

\* ... and what they are.
LEMMA FragmentKeeps ==
    ASSUME NEW g, NEW role, NEW g2, NEW role2, Extends(g, role, g2, role2),
           NEW c, NEW src, NEW pts, NEW h, NEW p, NEW b \in DOMAIN g, g2[b] = g[b],
           Fragment(c, src, pts, g, role, h, p, b)
    PROVE  Fragment(c, src, pts, g2, role2, h, p, b)
<1>1. \A d, x : Is(g, role, d, x) => Is(g2, role2, d, x)
  BY IsKeeps
<1>2. \A i, j, t : Leads(c, src, pts, g, role, i, j, t) => Leads(c, src, pts, g2, role2, i, j, t)
  BY LeadsKeeps
<1>3. role2[b] = role[b]
  BY DEF Extends
<1> DEFINE x == role[b]
           s == g[b].stmts
           t == g[b].term
           from == IF b = h THEN p ELSE 0
<1>4. CASE /\ x = Enters(c) /\ s = << >> /\ t.kind = "switch" /\ OneTarget(t)
           /\ \A n \in 0 .. Len(pts) : Is(g, role, SwitchTo(t, n), At(c, ResumesAt(src, pts, n)))
  <2>1. \A n \in 0 .. Len(pts) : Is(g2, role2, SwitchTo(t, n), At(c, ResumesAt(src, pts, n)))
    BY <1>1, <1>4
  <2> QED BY <2>1, <1>3, <1>4 DEF Fragment
<1>5. ASSUME NEW i \in 0 .. Len(src), NEW j \in 0 .. Len(src),
             /\ x = At(c, i) /\ from <= Len(s) /\ Reads(src, s, from, i, j)
             /\ Leads(c, src, pts, g, role, i, j, t) /\ t.to # h
      PROVE  Fragment(c, src, pts, g2, role2, h, p, b)
  BY <1>2, <1>3, <1>5 DEF Fragment
<1>6. ASSUME NEW i \in 0 .. Len(src) - 1,
              /\ b # h /\ x = At(c, i) /\ s = << >> /\ src[i + 1][1] = "GuardedRecv"
              /\ t.kind = "branch" /\ t.on = src[i + 1][2]
              /\ Is(g, role, t.yes, Let(c, i)),
              NEW n \in 1 .. Len(pts), 
                    Is(g, role, t.no, Out(c, n, "BLOCKED")) /\ ResumesAt(src, pts, n) = i
      PROVE  Fragment(c, src, pts, g2, role2, h, p, b)
  <2>1. Is(g2, role2, t.yes, Let(c, i)) /\ Is(g2, role2, t.no, Out(c, n, "BLOCKED"))
    BY <1>1, <1>6
  <2> QED BY <2>1, <1>3, <1>6 DEF Fragment
<1>7. ASSUME NEW i \in 0 .. Len(src) - 1, NEW j \in 0 .. Len(src),
              /\ x = Let(c, i) /\ src[i + 1][1] = "GuardedRecv" /\ Len(s) > 1
              /\ s[1] = Assign("progress", 1) /\ s[2] = Operation("Recv", src[i + 1][2], i + 1)
              /\ Reads(src, s, 2, i + 1, j) /\ Leads(c, src, pts, g, role, i + 1, j, t) /\ t.to # h
      PROVE  Fragment(c, src, pts, g2, role2, h, p, b)
  BY <1>2, <1>3, <1>7 DEF Fragment
<1>8. ASSUME NEW n \in 1 .. Len(pts) \cup {DONE_STATE}, NEW q \in {"PENDING", "BLOCKED", "READY"},
              /\ (q = "READY") = (n = DONE_STATE)
              /\ x = Out(c, n, q) /\ g[b] = LeaveBlock(n, q, t.to) /\ Is(g, role, t.to, Exits(c))
      PROVE  Fragment(c, src, pts, g2, role2, h, p, b)
  <2>1. Is(g2, role2, t.to, Exits(c)) /\ g2[b] = LeaveBlock(n, q, t.to)
    BY <1>1, <1>8
  <2> QED BY <2>1, <1>3, <1>8 DEF Fragment
<1>9. CASE x = Exits(c) /\ s = << >> /\ t = Leave
  BY <1>3, <1>9 DEF Fragment
<1> QED BY <1>4, <1>5, <1>6, <1>7, <1>8, <1>9 DEF Fragment

-----------------------------------------------------------------------------
(* The pieces of a block that is cut. *)

\* The lengths in a text.
LEMMA TextBounds ==
    ASSUME NEW src, NEW s, NEW at, Text(src, s, at)
    PROVE  /\ IsSeq(src) /\ IsSeq(s) /\ Len(s) \in Nat /\ Len(src) \in Nat
           /\ \A n \in 1 .. Len(s) + 1 : at[n] \in 0 .. Len(src)
BY DEF Text, IsSeq

\* What is behind a suspension point makes values available, and only that.
LEMMA RestReads ==
    ASSUME NEW src, NEW s, NEW at, Text(src, s, at), NEW i \in 1 .. Len(s), s[i].op \in Suspensions
    PROVE  /\ Reads(src, SubSeq(s, i + 1, Len(s)), 0, at[i + 1], at[Len(s) + 1])
           /\ Puts(src, at[i + 1], at[Len(s) + 1])
<1>1. PICK z \in Nat : z = Len(s)
  BY TextBounds
<1>2. i \in 1 .. z
  BY <1>1
<1>3. IsSeq(s) /\ IsSeq(src) /\ \A n \in 1 .. z + 1 : at[n] \in 0 .. Len(src)
  BY <1>1, TextBounds
<1>4. \A n \in i + 1 .. z : s[n].op \notin Suspensions
  BY <1>1, <1>2 DEF Text
<1>5. Puts(src, at[i + 1], at[z + 1])
  <2>1. i + 1 \in 1 .. z + 1 /\ z + 1 \in 1 .. z + 1 /\ i + 1 <= z + 1 /\ (z + 1) - 1 = z
    BY <1>2
  <2> QED BY <2>1, <1>1, <1>4, TextPuts
<1>6. PICK u : u = SubSeq(s, i + 1, z)
  OBVIOUS
<1>7. PICK q \in Nat : q = z - i
  BY <1>2
<1>8. IsSeq(u) /\ Len(u) = q /\ \A n \in 1 .. q : u[n] = s[i + n]
  <2>1. i + 1 \in Int /\ z \in Int /\ i + 1 >= 1 /\ i + 1 <= z + 1 /\ z <= Len(s) /\ z - (i + 1) + 1 = q
    BY <1>1, <1>2, <1>7
  <2>2. IsSeq(u) /\ Len(u) = z - (i + 1) + 1 /\ \A n \in 1 .. z - (i + 1) + 1 : u[n] = s[(i + 1) + n - 1]
    BY <2>1, <1>3, <1>6, SeqSub
  <2>3. \A n \in 1 .. q : (i + 1) + n - 1 = i + n
    BY <1>2
  <2> QED BY <2>1, <2>2, <2>3
<1>9. \A n \in 0 .. q : at[i + n + 1] \in 0 .. Len(src)
  <2> TAKE n \in 0 .. q
  <2>1. i + n + 1 \in 1 .. z + 1
    BY <1>2, <1>7
  <2> QED BY <2>1, <1>3
<1>10. \A n \in 0 + 1 .. q : Step(src, at[i + n], u[n], at[i + n + 1])
  <2> TAKE n \in 0 + 1 .. q
  <2>1. i + n \in 1 .. z /\ i + n \in i + 1 .. z /\ n \in 1 .. q
    BY <1>2, <1>7
  <2>2. Step(src, at[i + n], s[i + n], at[i + n + 1])
    BY <2>1, <1>1, <1>4, TextSteps
  <2> QED BY <2>1, <2>2, <1>8
<1>11. Reads(src, u, 0, at[i + 0 + 1], at[i + q + 1])
  <2>1. 0 \in 0 .. Len(u) /\ i \in Int
    BY <1>2, <1>7, <1>8
  <2> QED BY <2>1, <1>3, <1>8, <1>9, <1>10, ReadsBy
<1>12. i + 0 + 1 = i + 1 /\ i + q + 1 = z + 1
  BY <1>2, <1>7
<1> QED BY <1>1, <1>5, <1>6, <1>11, <1>12

\* What is behind an open guard reads on from the guarded operation.
LEMMA PassingReads ==
    ASSUME NEW src, NEW s, NEW at, Text(src, s, at), NEW i \in 1 .. Len(s), s[i].op \in Suspensions,
           NEW u, u = Resumed(s, i)
    PROVE  /\ IsSeq(u) /\ Len(u) > 1 /\ u[1] = Assign("progress", 1)
           /\ u[2] = [s[i] EXCEPT !.op = "Recv"]
           /\ Reads(src, u, 2, at[i + 1], at[Len(s) + 1])
<1>1. PICK z \in Nat : z = Len(s)
  BY TextBounds
<1>2. i \in 1 .. z
  BY <1>1
<1>3. IsSeq(s) /\ IsSeq(src) /\ \A n \in 1 .. z + 1 : at[n] \in 0 .. Len(src)
  BY <1>1, TextBounds
<1>4. \A n \in i + 1 .. z : s[n].op \notin Suspensions
  BY <1>1, <1>2 DEF Text
<1>5. PICK e : e = SubSeq(s, i + 1, z)
  OBVIOUS
<1>7. PICK q \in Nat : q = z - i
  BY <1>2
<1>8. IsSeq(e) /\ Len(e) = q /\ \A n \in 1 .. q : e[n] = s[i + n]
  <2>1. i + 1 \in Int /\ z \in Int /\ i + 1 >= 1 /\ i + 1 <= z + 1 /\ z <= Len(s) /\ z - (i + 1) + 1 = q
    BY <1>1, <1>2, <1>7
  <2>2. IsSeq(e) /\ Len(e) = z - (i + 1) + 1 /\ \A n \in 1 .. z - (i + 1) + 1 : e[n] = s[(i + 1) + n - 1]
    BY <2>1, <1>3, <1>5, SeqSub
  <2>3. \A n \in 1 .. q : (i + 1) + n - 1 = i + n
    BY <1>2
  <2> QED BY <2>1, <2>2, <2>3
<1>a. PICK v : v = Assign("progress", 1)
  OBVIOUS
<1>b. PICK o : o = [s[i] EXCEPT !.op = "Recv"]
  OBVIOUS
<1>c. PICK d : d = Passing(s[i])
  OBVIOUS
<1>d. d = <<v, o>>
  BY <1>a, <1>b, <1>c DEF Passing
<1>e. IsSeq(d) /\ Len(d) = 2 /\ d[1] = v /\ d[2] = o
  <2>1. <<v, o>> \in Seq({v, o}) /\ Len(<<v, o>>) = 2 /\ <<v, o>>[1] = v /\ <<v, o>>[2] = o
    OBVIOUS
  <2> QED BY <2>1, <1>d, SeqTyped
<1>f. u = d \o e
  BY <1>1, <1>c, <1>5 DEF Resumed
<1>9. /\ IsSeq(u) /\ Len(u) = 2 + q /\ u[1] = v /\ u[2] = o
      /\ \A n \in 1 .. q : u[2 + n] = s[i + n]
  <2>1. /\ IsSeq(d \o e) /\ Len(d \o e) = Len(d) + Len(e)
        /\ \A n \in 1 .. Len(d) : (d \o e)[n] = d[n]
        /\ \A n \in 1 .. Len(e) : (d \o e)[Len(d) + n] = e[n]
    <3>1. IsSeq(d) /\ IsSeq(e)
      BY <1>8, <1>e
    <3> QED BY <3>1, SeqCat
  <2>2. /\ IsSeq(u) /\ Len(u) = Len(d) + Len(e)
        /\ \A n \in 1 .. Len(d) : u[n] = d[n]
        /\ \A n \in 1 .. Len(e) : u[Len(d) + n] = e[n]
    BY <2>1, <1>f, Zenon
  <2>3. Len(u) = 2 + q /\ \A n \in 1 .. 2 : u[n] = d[n]
    BY <2>2, <1>8, <1>e
  <2>4. u[1] = v /\ u[2] = o
    BY <2>3, <1>e
  <2>5. ASSUME NEW n \in 1 .. q PROVE u[2 + n] = s[i + n]
    <3>1. u[Len(d) + n] = e[n] /\ Len(d) = 2
      BY <2>2, <1>8, <1>e
    <3> QED BY <3>1, <1>8
  <2> QED BY <2>2, <2>3, <2>4, <2>5
<1>n. Len(u) = 2 + q
  BY <1>9
<1>10. \A n \in 2 .. 2 + q : at[(i - 2) + n + 1] \in 0 .. Len(src)
  <2> TAKE n \in 2 .. 2 + q
  <2>1. (i - 2) + n + 1 \in 1 .. z + 1
    BY <1>2, <1>7
  <2> QED BY <2>1, <1>3
<1>11. \A n \in 2 + 1 .. 2 + q : Step(src, at[(i - 2) + n], u[n], at[(i - 2) + n + 1])
  <2> TAKE n \in 2 + 1 .. 2 + q
  <2>1. PICK y \in 1 .. q : n = 2 + y
    <3>1. n - 2 \in 1 .. q /\ n = 2 + (n - 2)
      BY <1>7
    <3> QED BY <3>1
  <2>2. i + y \in 1 .. z /\ i + y \in i + 1 .. z /\ (i - 2) + n = i + y /\ (i - 2) + n + 1 = i + y + 1
    BY <2>1, <1>2, <1>7
  <2>3. Step(src, at[i + y], s[i + y], at[i + y + 1])
    BY <2>2, <1>1, <1>4, TextSteps
  <2> QED BY <2>1, <2>2, <2>3, <1>9
<1>12. Reads(src, u, 2, at[(i - 2) + 2 + 1], at[(i - 2) + (2 + q) + 1])
  <2>1. 2 \in 0 .. Len(u) /\ i - 2 \in Int
    BY <1>2, <1>7, <1>n
  <2> QED BY <2>1, <1>3, <1>9, <1>n, <1>10, <1>11, ReadsBy
<1>13. (i - 2) + 2 + 1 = i + 1 /\ (i - 2) + (2 + q) + 1 = z + 1
  BY <1>2, <1>7
<1>14. Len(u) > 1
  BY <1>7, <1>n
<1>15. IsSeq(u) /\ u[1] = v /\ u[2] = o
  BY <1>9
<1>16. Reads(src, u, 2, at[i + 1], at[z + 1])
  BY <1>12, <1>13
<1> QED BY <1>1, <1>14, <1>15, <1>16, <1>a, <1>b

\* What is in front of one, from statement q on.
LEMMA FrontReads ==
    ASSUME NEW src, NEW s, NEW at, Text(src, s, at), NEW i \in 1 .. Len(s), s[i].op \in Suspensions,
           NEW q \in 0 .. i - 1
    PROVE  /\ Reads(src, SubSeq(s, 1, i - 1), q, at[q + 1], at[i])
           /\ Puts(src, at[q + 1], at[i])
           /\ IsSeq(SubSeq(s, 1, i - 1)) /\ Len(SubSeq(s, 1, i - 1)) = i - 1
           /\ \A n \in 1 .. i - 1 : SubSeq(s, 1, i - 1)[n] = s[n]
<1>1. PICK z \in Nat : z = Len(s)
  BY TextBounds
<1>2. i \in 1 .. z
  BY <1>1
<1>3. IsSeq(s) /\ IsSeq(src) /\ \A n \in 1 .. z + 1 : at[n] \in 0 .. Len(src)
  BY <1>1, TextBounds
<1>4. \A n \in 1 .. i - 1 : s[n].op \notin Suspensions
  BY <1>1, <1>2 DEF Text
<1>5. Puts(src, at[q + 1], at[i])
  <2>1. q + 1 \in 1 .. z + 1 /\ i \in 1 .. z + 1 /\ q + 1 <= i /\ \A n \in q + 1 .. i - 1 : n \in 1 .. i - 1
    BY <1>2
  <2> QED BY <2>1, <1>1, <1>4, TextPuts
<1>6. PICK u : u = SubSeq(s, 1, i - 1)
  OBVIOUS
<1>7. PICK l \in Nat : l = i - 1
  BY <1>2
<1>8. IsSeq(u) /\ Len(u) = l /\ \A n \in 1 .. l : u[n] = s[n]
  <2>1. 1 \in Int /\ l \in Int /\ 1 <= l + 1 /\ l <= Len(s) /\ l - 1 + 1 = l /\ u = SubSeq(s, 1, l)
    BY <1>1, <1>2, <1>6, <1>7
  <2>2. IsSeq(u) /\ Len(u) = l - 1 + 1 /\ \A n \in 1 .. l - 1 + 1 : u[n] = s[1 + n - 1]
    BY <2>1, <1>3, SeqSub
  <2> QED BY <2>1, <2>2
<1>9. \A n \in q .. l : at[0 + n + 1] \in 0 .. Len(src)
  <2> TAKE n \in q .. l
  <2>1. 0 + n + 1 \in 1 .. z + 1
    BY <1>2, <1>7
  <2> QED BY <2>1, <1>3
<1>10. \A n \in q + 1 .. l : Step(src, at[0 + n], u[n], at[0 + n + 1])
  <2> TAKE n \in q + 1 .. l
  <2>1. n \in 1 .. z /\ n \in 1 .. i - 1 /\ n \in 1 .. l /\ 0 + n = n /\ 0 + n + 1 = n + 1
    BY <1>2, <1>7
  <2>2. Step(src, at[n], s[n], at[n + 1])
    BY <2>1, <1>1, <1>4, TextSteps
  <2> QED BY <2>1, <2>2, <1>8
<1>11. Reads(src, u, q, at[0 + q + 1], at[0 + l + 1])
  <2>1. q \in 0 .. Len(u) /\ 0 \in Int
    BY <1>7, <1>8
  <2> QED BY <2>1, <1>3, <1>8, <1>9, <1>10, ReadsBy
<1>12. 0 + q + 1 = q + 1 /\ 0 + l + 1 = i
  BY <1>2, <1>7
<1> QED BY <1>1, <1>5, <1>6, <1>7, <1>8, <1>11, <1>12

\* ... and up to a yield, erased, or a send.
LEMMA PlainReads ==
    ASSUME NEW src, NEW s, NEW at, Text(src, s, at), NEW i \in 1 .. Len(s),
           s[i].op \in {"Yield", "ProducingSend"}, NEW q \in 0 .. i - 1
    PROVE  /\ Reads(src, Plain(s, i, s[i].op), q, at[q + 1], at[i + 1])
           /\ IsSeq(Plain(s, i, s[i].op)) /\ Len(Plain(s, i, s[i].op)) = i
           /\ \A n \in 1 .. i - 1 : Plain(s, i, s[i].op)[n] = s[n]
<1>1. PICK z \in Nat : z = Len(s)
  BY TextBounds
<1>2. i \in 1 .. z
  BY <1>1
<1>3. IsSeq(s) /\ IsSeq(src) /\ \A n \in 1 .. z + 1 : at[n] \in 0 .. Len(src)
  BY <1>1, TextBounds
<1>4. \A n \in 1 .. i - 1 : s[n].op \notin Suspensions
  BY SMTT(30), <1>1, <1>2 DEF Text, Suspensions
<1>5. PICK t : t = SubSeq(s, 1, i)
  OBVIOUS
<1>6. IsSeq(t) /\ Len(t) = i /\ \A n \in 1 .. i : t[n] = s[n]
  <2>1. 1 \in Int /\ i \in Int /\ 1 <= i + 1 /\ i <= Len(s) /\ i - 1 + 1 = i
    BY <1>1, <1>2
  <2>2. IsSeq(t) /\ Len(t) = i - 1 + 1 /\ \A n \in 1 .. i - 1 + 1 : t[n] = s[1 + n - 1]
    BY <2>1, <1>3, <1>5, SeqSub
  <2> QED BY <2>1, <2>2
<1>7. PICK u : u = Plain(s, i, s[i].op)
  OBVIOUS
<1>8. /\ IsSeq(u) /\ Len(u) = i /\ \A n \in 1 .. i - 1 : u[n] = s[n]
      /\ u[i] = IF s[i].op = "Yield" THEN Nop ELSE s[i]
  <2>1. CASE s[i].op = "Yield"
    <3>1. u = [t EXCEPT ![i] = Nop]
      BY <2>1, <1>5, <1>7 DEF Plain
    <3>2. Edited(t, u, i, Nop)
      <4>1. i \in 1 .. Len(t)
        BY <1>2, <1>6
      <4>2. Edited(t, [t EXCEPT ![i] = Nop], i, Nop)
        BY <4>1, <1>6, EditIs
      <4> QED BY <3>1, <4>2
    <3> QED BY <3>2, <2>1, <1>2, <1>6 DEF Edited
  <2>2. CASE s[i].op # "Yield"
    BY <2>2, <1>2, <1>5, <1>6, <1>7 DEF Plain
  <2> QED BY <2>1, <2>2
<1>9. \A n \in q .. i : at[0 + n + 1] \in 0 .. Len(src)
  <2> TAKE n \in q .. i
  <2>1. 0 + n + 1 \in 1 .. z + 1
    BY <1>2
  <2> QED BY <2>1, <1>3
<1>10. \A n \in q + 1 .. i : Step(src, at[0 + n], u[n], at[0 + n + 1])
  <2> TAKE n \in q + 1 .. i
  <2>1. n \in 1 .. z /\ 0 + n = n /\ 0 + n + 1 = n + 1 /\ (n \in 1 .. i - 1 \/ n = i)
    BY <1>2
  <2>2. CASE n \in 1 .. i - 1
    <3>1. Step(src, at[n], s[n], at[n + 1])
      BY <2>1, <2>2, <1>1, <1>4, TextSteps
    <3> QED BY <2>1, <2>2, <3>1, <1>8
  <2>3. CASE n = i
    <3>1. CASE s[i].op = "Yield"
      <4>1. Step(src, at[i], Nop, at[i + 1])
        BY <3>1, TextSteps
      <4> QED BY <2>1, <2>3, <3>1, <4>1, <1>8
    <3>2. CASE s[i].op = "ProducingSend"
      <4>1. Step(src, at[i], s[i], at[i + 1])
        BY <3>2, TextSteps
      <4> QED BY <2>1, <2>3, <3>2, <4>1, <1>8
    <3> QED BY <3>1, <3>2
  <2> QED BY <2>1, <2>2, <2>3
<1>11. Reads(src, u, q, at[0 + q + 1], at[0 + i + 1])
  <2>1. q \in 0 .. Len(u) /\ 0 \in Int
    BY <1>2, <1>8
  <2> QED BY <2>1, <1>3, <1>8, <1>9, <1>10, ReadsBy
<1>12. 0 + q + 1 = q + 1 /\ 0 + i + 1 = i + 1
  BY <1>2
<1> QED BY <1>7, <1>8, <1>11, <1>12

-----------------------------------------------------------------------------
(* The machine of one coroutine while its points are cut. *)

\* A CFG of blocks.
IsBlocks(g) ==
    IsSeq(g) /\ \A b \in 1 .. Len(g) : IsSeq(g[b].stmts) /\ g[b] = Block(g[b].stmts, g[b].term)

\* Block b is a piece of coroutine c's machine while it is made.
Frag(r, c, g, role, b) ==
    Fragment(c, r.body[c], PointsOf(r, c), g, role, RegionOf(r).begin[1], RegionOf(r).begin[2], b)

\* The markers in block b are where they were.
Marked(r, g, b) ==
    \A j \in 1 .. Len(g[b].stmts) :
        j \in 1 .. Len(r.cfg[b].stmts) /\ r.cfg[b].stmts[j] \in Markers =>
        g[b].stmts[j] = r.cfg[b].stmts[j]

\* Coroutine c is in g0 as it was laid out.
Ready(r, c, g0, ro) ==
    /\ Regioned(r) /\ c \in Coros /\ IsBlocks(g0) /\ Len(r.cfg) <= Len(g0)
    /\ \A b \in BlocksOf(r, c) : g0[b] = r.cfg[b] /\ ro[b] = At(c, StartOf(r, b))

\* The first n points of coroutine c have been cut.
Cutting(r, c, g0, ro, m, role, n) ==
    /\ IsBlocks(m.g) /\ Len(g0) + 2 <= Len(m.g)
    /\ IsSeq(m.entries) /\ Len(m.entries) = n + 1 /\ m.entries[1] = CoroOf(r, c).begin[1]
    /\ \A i \in 1 .. n :
          /\ Is(m.g, role, m.entries[i + 1], At(c, ResumesAt(r.body[c], PointsOf(r, c), i)))
          /\ m.entries[i + 1] # RegionOf(r).begin[1]
    /\ m.g[Len(g0) + 1] = Block(<< >>, Unset)
    /\ role[Len(g0) + 1] = Enters(c) /\ role[Len(g0) + 2] = Exits(c)
    /\ \A b \in 1 .. Len(g0) : role[b] = ro[b]
    /\ \A b \in 1 .. Len(g0) : (\A i \in 1 .. n : PointsOf(r, c)[i][1] # b) => m.g[b] = g0[b]
    /\ \A b \in Len(g0) + 2 .. Len(m.g) : role[b].who = c /\ Frag(r, c, m.g, role, b)
    /\ \A i \in 1 .. n : Frag(r, c, m.g, role, PointsOf(r, c)[i][1]) /\ Marked(r, m.g, PointsOf(r, c)[i][1])

\* The domain of a CFG.
LEMMA BlocksBounds ==
    ASSUME NEW g, IsBlocks(g)
    PROVE  IsSeq(g) /\ Len(g) \in Nat /\ DOMAIN g = 1 .. Len(g)
BY Bounds DEF IsBlocks

\* A suspension point is in a block of its coroutine.
LEMMA PointBlock ==
    ASSUME NEW r, Regioned(r), NEW c \in Coros, NEW m \in 1 .. Len(PointsOf(r, c))
    PROVE  PointsOf(r, c)[m][1] \in BlocksOf(r, c) /\ PointsOf(r, c)[m][1] \in 1 .. Len(r.cfg)
<1>1. PICK b, i : PointsOf(r, c)[m] = Place(r.cfg, b, i) /\ Suspends(r, c, b, i)
  BY PointFacts
<1>2. PointsOf(r, c)[m][1] = b /\ b \in BlocksOf(r, c)
  BY <1>1 DEF Place, Suspends
<1> QED BY <1>2, Contract

\* One more cut, in block b.
Grows(r, c, g0, m, role, n, b, w, role2, e) ==
    /\ n + 1 \in 1 .. Len(PointsOf(r, c)) /\ b \in 1 .. Len(g0) /\ b = PointsOf(r, c)[n + 1][1]
    /\ \A i \in 1 .. n : PointsOf(r, c)[i][1] # b
    /\ IsBlocks(w.g) /\ Len(m.g) <= Len(w.g)
    /\ \A a \in 1 .. Len(m.g) : a # b => w.g[a] = m.g[a]
    /\ \A a \in 1 .. Len(m.g) : role2[a] = role[a]
    /\ \A a \in Len(m.g) + 1 .. Len(w.g) : role2[a].who = c /\ Frag(r, c, w.g, role2, a)
    /\ Frag(r, c, w.g, role2, b) /\ Marked(r, w.g, b)
    /\ w.entries = Append(m.entries, e) /\ e # RegionOf(r).begin[1]
    /\ Is(w.g, role2, e, At(c, ResumesAt(r.body[c], PointsOf(r, c), n + 1)))

\* One more point has been cut if the cut grows the machine as Grows says.
LEMMA CutGrows ==
    ASSUME NEW r, NEW c, NEW g0, NEW ro, Ready(r, c, g0, ro),
           NEW m, NEW role, NEW n \in Nat, Cutting(r, c, g0, ro, m, role, n),
           NEW b, NEW w, NEW role2, NEW e, Grows(r, c, g0, m, role, n, b, w, role2, e)
    PROVE  Cutting(r, c, g0, ro, w, role2, n + 1)
<1> SUFFICES ASSUME
           n + 1 \in 1 .. Len(PointsOf(r, c)), b \in 1 .. Len(g0), b = PointsOf(r, c)[n + 1][1],
           \A i \in 1 .. n : PointsOf(r, c)[i][1] # b,
           IsBlocks(w.g), Len(m.g) <= Len(w.g),
           \A a \in 1 .. Len(m.g) : a # b => w.g[a] = m.g[a],
           \A a \in 1 .. Len(m.g) : role2[a] = role[a],
           \A a \in Len(m.g) + 1 .. Len(w.g) : role2[a].who = c /\ Frag(r, c, w.g, role2, a),
           Frag(r, c, w.g, role2, b), Marked(r, w.g, b),
           w.entries = Append(m.entries, e), e # RegionOf(r).begin[1],
           Is(w.g, role2, e, At(c, ResumesAt(r.body[c], PointsOf(r, c), n + 1)))
             PROVE Cutting(r, c, g0, ro, w, role2, n + 1)
  BY DEF Grows
<1>1. PICK L \in Nat : L = Len(m.g)
  BY BlocksBounds DEF Cutting
<1>2. PICK K \in Nat : K = Len(w.g)
  BY BlocksBounds
<1>3. PICK z \in Nat : z = Len(g0)
  BY BlocksBounds DEF Ready
<1>4. z + 2 <= L /\ L <= K /\ b \in 1 .. z
  BY <1>1, <1>2, <1>3 DEF Cutting
<1>5. PICK h : h = RegionOf(r).begin[1]
  OBVIOUS
<1>6. PICK p : p = RegionOf(r).begin[2]
  OBVIOUS
<1>7. PICK src : src = r.body[c]
  OBVIOUS
<1>8. PICK pts : pts = PointsOf(r, c)
  OBVIOUS
<1>9. Extends(m.g, role, w.g, role2)
  <2>1. DOMAIN m.g = 1 .. L /\ DOMAIN w.g = 1 .. K
    BY <1>1, <1>2, BlocksBounds DEF Cutting
  <2>2. DOMAIN m.g \subseteq DOMAIN w.g
    BY <2>1, <1>4
  <2> QED BY <2>1, <2>2, <1>1 DEF Extends
<1>10. ASSUME NEW a \in 1 .. L, a # b, Frag(r, c, m.g, role, a) PROVE Frag(r, c, w.g, role2, a)
  <2>1. a \in DOMAIN m.g /\ w.g[a] = m.g[a]
    BY <1>1, <1>10, BlocksBounds DEF Cutting
  <2>2. Fragment(c, src, pts, m.g, role, h, p, a)
    BY <1>5, <1>6, <1>7, <1>8, <1>10 DEF Frag
  <2>3. Fragment(c, src, pts, w.g, role2, h, p, a)
    BY <2>1, <2>2, <1>9, FragmentKeeps
  <2> QED BY <2>3, <1>5, <1>6, <1>7, <1>8 DEF Frag
<1>11. \A a \in z + 2 .. K : role2[a].who = c /\ Frag(r, c, w.g, role2, a)
  <2> SUFFICES ASSUME NEW a \in z + 2 .. K PROVE role2[a].who = c /\ Frag(r, c, w.g, role2, a)
    OBVIOUS
  <2>1. CASE a \in L + 1 .. K
    BY <2>1, <1>1, <1>2
  <2>2. CASE a \in 1 .. L
    <3>1. a \in z + 2 .. L /\ a # b
      BY <2>2, <1>4
    <3>2. role[a].who = c /\ Frag(r, c, m.g, role, a)
      BY <3>1, <1>1, <1>3 DEF Cutting
    <3>3. role2[a].who = c
      BY <3>2, <2>2, <1>1
    <3> QED BY <3>1, <3>2, <3>3, <2>2, <1>10
  <2> QED BY <2>1, <2>2, <1>4
<1>12. ASSUME NEW i \in 1 .. n + 1
       PROVE  Frag(r, c, w.g, role2, pts[i][1]) /\ Marked(r, w.g, pts[i][1])
  <2>1. CASE i = n + 1
    BY <2>1, <1>8
  <2>2. CASE i \in 1 .. n
    <3>1. PICK a : a = pts[i][1]
      OBVIOUS
    <3>2. a # b /\ Frag(r, c, m.g, role, a) /\ Marked(r, m.g, a)
      BY <2>2, <3>1, <1>8 DEF Cutting
    <3>3. i \in 1 .. Len(pts) /\ Regioned(r) /\ c \in Coros
      <4>1. Regioned(r) /\ c \in Coros
        BY DEF Ready
      <4>2. PICK y \in Nat : y = Len(pts)
        BY <4>1, <1>8, PointFacts DEF IsSeq
      <4>3. n + 1 \in 1 .. y
        BY <4>2, <1>8
      <4> QED BY <2>2, <4>1, <4>2, <4>3
    <3>4. a \in 1 .. Len(r.cfg)
      BY <3>1, <3>3, <1>8, PointBlock
    <3>5. a \in 1 .. L
      <4>1. Len(r.cfg) <= z /\ Len(r.cfg) \in Nat
        BY <1>3, CfgIs DEF Ready, IsCfg, IsSeq
      <4> QED BY <3>4, <4>1, <1>4
    <3>6. Frag(r, c, w.g, role2, a)
      BY <3>2, <3>5, <1>10
    <3>7. w.g[a] = m.g[a]
      BY <3>2, <3>5, <1>1
    <3>8. Marked(r, w.g, a)
      BY <3>2, <3>7 DEF Marked
    <3> QED BY <3>1, <3>6, <3>8
  <2> QED BY <2>1, <2>2
<1>13. IsSeq(m.entries) /\ Len(m.entries) = n + 1
  BY DEF Cutting
<1>14. /\ IsSeq(w.entries) /\ Len(w.entries) = (n + 1) + 1 /\ w.entries[n + 2] = e
       /\ \A i \in 1 .. n + 1 : w.entries[i] = m.entries[i]
  <2>1. PICK en : en = m.entries
    OBVIOUS
  <2>2. IsSeq(en) /\ Len(en) = n + 1
    BY <1>13, <2>1
  <2>3. IsSeq(Append(en, e)) /\ Len(Append(en, e)) = Len(en) + 1
        /\ (\A i \in 1 .. Len(en) : Append(en, e)[i] = en[i]) /\ Append(en, e)[Len(en) + 1] = e
    BY <2>2, SeqAppend
  <2>4. (n + 1) + 1 = n + 2
    OBVIOUS
  <2>5. w.entries = Append(en, e)
    BY <2>1
  <2> QED BY <2>1, <2>2, <2>3, <2>4, <2>5
<1>15. w.entries[1] = CoroOf(r, c).begin[1]
  <2>1. 1 \in 1 .. n + 1
    OBVIOUS
  <2> QED BY <2>1, <1>14 DEF Cutting
<1>16. ASSUME NEW i \in 1 .. n + 1
       PROVE  /\ Is(w.g, role2, w.entries[i + 1], At(c, ResumesAt(src, pts, i)))
              /\ w.entries[i + 1] # h
  <2>1. CASE i = n + 1
    <3>1. w.entries[i + 1] = e
      BY <2>1, <1>14
    <3> QED BY <2>1, <3>1, <1>5, <1>7, <1>8
  <2>2. CASE i \in 1 .. n
    <3>1. w.entries[i + 1] = m.entries[i + 1]
      <4>1. i + 1 \in 1 .. n + 1
        BY <2>2
      <4> QED BY <4>1, <1>14
    <3>2. /\ Is(m.g, role, m.entries[i + 1], At(c, ResumesAt(src, pts, i)))
          /\ m.entries[i + 1] # h
      BY <2>2, <1>5, <1>7, <1>8 DEF Cutting
    <3>3. Is(w.g, role2, m.entries[i + 1], At(c, ResumesAt(src, pts, i)))
      BY <3>2, <1>9, IsKeeps
    <3> QED BY <3>1, <3>2, <3>3
  <2>3. i = n + 1 \/ i \in 1 .. n
    OBVIOUS
  <2> HIDE DEF Is
  <2> QED BY <2>1, <2>2, <2>3, Zenon
<1>17. w.g[z + 1] = Block(<< >>, Unset) /\ role2[z + 1] = Enters(c) /\ role2[z + 2] = Exits(c)
  <2>1. z + 1 \in 1 .. L /\ z + 2 \in 1 .. L /\ z + 1 # b
    BY <1>4
  <2>2. m.g[z + 1] = Block(<< >>, Unset) /\ role[z + 1] = Enters(c) /\ role[z + 2] = Exits(c)
    BY <1>3 DEF Cutting
  <2> QED BY <2>1, <2>2, <1>1
<1>18. ASSUME NEW a \in 1 .. z PROVE role2[a] = ro[a]
  <2>1. a \in 1 .. L
    BY <1>4
  <2>2. role[a] = ro[a]
    BY <1>3 DEF Cutting
  <2> QED BY <2>1, <2>2, <1>1
<1>19. ASSUME NEW a \in 1 .. z, \A i \in 1 .. n + 1 : pts[i][1] # a PROVE w.g[a] = g0[a]
  <2>1. a \in 1 .. L /\ n + 1 \in 1 .. n + 1 /\ \A i \in 1 .. n : i \in 1 .. n + 1
    BY <1>4
  <2>2. m.g[a] = g0[a]
    BY <2>1, <1>3, <1>8, <1>19 DEF Cutting
  <2>3. a # b
    BY <2>1, <1>8, <1>19
  <2> QED BY <2>1, <2>2, <2>3, <1>1
<1>20. z + 2 <= K
  BY <1>4
<1> HIDE DEF Frag, Marked
<1> QED BY <1>2, <1>3, <1>5, <1>7, <1>8, <1>11, <1>12, <1>14, <1>15, <1>16, <1>17, <1>18, <1>19, <1>20 DEF Cutting

-----------------------------------------------------------------------------
(* The blocks that a cut makes. *)

\* Blocks that read on are fragments,
LEMMA FragAt ==
    ASSUME NEW r, NEW c, NEW g, NEW role, NEW b, NEW s, NEW t, g[b] = Block(s, t),
           NEW i \in 0 .. Len(r.body[c]), NEW j \in 0 .. Len(r.body[c]), role[b] = At(c, i),
           Skips(r, b) <= Len(s), Reads(r.body[c], s, Skips(r, b), i, j),
           Leads(c, r.body[c], PointsOf(r, c), g, role, i, j, t), t.to # RegionOf(r).begin[1]
    PROVE  Frag(r, c, g, role, b)
<1>1. g[b].stmts = s /\ g[b].term = t
  BY BlockIs
<1>2. PICK from : from = Skips(r, b)
  OBVIOUS
<1>3. from = IF b = RegionOf(r).begin[1] THEN RegionOf(r).begin[2] ELSE 0
  BY <1>2 DEF Skips
<1>4. from <= Len(s) /\ Reads(r.body[c], s, from, i, j)
  BY <1>2
<1> QED BY <1>1, <1>3, <1>4 DEF Frag, Fragment

\* ... and blocks that look at a guard,
LEMMA FragGuard ==
    ASSUME NEW r, NEW c, NEW g, NEW role, NEW b, b # RegionOf(r).begin[1], NEW q, NEW yes, NEW no,
           g[b] = Block(<< >>, Branch(q, yes, no)),
           NEW i \in 0 .. Len(r.body[c]) - 1, role[b] = At(c, i),
           r.body[c][i + 1][1] = "GuardedRecv", r.body[c][i + 1][2] = q,
           Is(g, role, yes, Let(c, i)), NEW n \in 1 .. Len(PointsOf(r, c)),
           Is(g, role, no, Out(c, n, "BLOCKED")), ResumesAt(r.body[c], PointsOf(r, c), n) = i
    PROVE  Frag(r, c, g, role, b)
<1>1. g[b].stmts = << >> /\ g[b].term = Branch(q, yes, no)
  BY BlockIs
<1>2. /\ Branch(q, yes, no).kind = "branch" /\ Branch(q, yes, no).on = q
      /\ Branch(q, yes, no).yes = yes /\ Branch(q, yes, no).no = no
  BY DEF Branch
<1> QED BY <1>1, <1>2 DEF Frag, Fragment

\* ... blocks behind an open guard,
LEMMA FragLet ==
    ASSUME NEW r, NEW c, NEW g, NEW role, NEW b, NEW s, NEW t, g[b] = Block(s, t),
           NEW i \in 0 .. Len(r.body[c]) - 1, NEW j \in 0 .. Len(r.body[c]), role[b] = Let(c, i),
           r.body[c][i + 1][1] = "GuardedRecv", Len(s) > 1, s[1] = Assign("progress", 1),
           s[2] = Operation("Recv", r.body[c][i + 1][2], i + 1),
           Reads(r.body[c], s, 2, i + 1, j),
           Leads(c, r.body[c], PointsOf(r, c), g, role, i + 1, j, t), t.to # RegionOf(r).begin[1]
    PROVE  Frag(r, c, g, role, b)
<1>1. g[b].stmts = s /\ g[b].term = t
  BY BlockIs
<1> QED BY <1>1 DEF Frag, Fragment

\* ... and blocks that leave.
LEMMA FragOut ==
    ASSUME NEW r, NEW c, NEW g, NEW role, NEW b, NEW n \in 1 .. Len(PointsOf(r, c)) \cup {DONE_STATE},
           NEW q \in {"PENDING", "BLOCKED", "READY"}, (q = "READY") = (n = DONE_STATE), NEW exit,
           g[b] = LeaveBlock(n, q, exit), role[b] = Out(c, n, q), Is(g, role, exit, Exits(c))
    PROVE  Frag(r, c, g, role, b)
<1>1. g[b].term.to = exit
  BY DEF LeaveBlock, Block, Goto
<1> QED BY <1>1 DEF Frag, Fragment

\* The point that is cut next: statement i of block b.
AtPoint(r, c, g, role, n, b, i, s, at, t) ==
    /\ b \in BlocksOf(r, c) /\ b \in 1 .. Len(g) /\ s = r.cfg[b].stmts /\ g[b] = Block(s, Goto(t))
    /\ Text(r.body[c], s, at) /\ i \in 1 .. Len(s) /\ s[i].op \in Suspensions
    /\ Skips(r, b) \in 0 .. i - 1
    /\ PointsOf(r, c)[n] = <<b, i, s[i]>>
    /\ role[b] = At(c, at[Skips(r, b) + 1])
    /\ t # RegionOf(r).begin[1] /\ Is(g, role, t, At(c, at[Len(s) + 1]))
    /\ \A j \in 1 .. n - 1 : PointsOf(r, c)[j][1] # b

\* The next point's block is as the IR builder laid it out.
LEMMA PointReached ==
    ASSUME NEW r, NEW c, NEW g0, NEW ro, Ready(r, c, g0, ro),
           NEW m, NEW role, NEW n \in Nat, Cutting(r, c, g0, ro, m, role, n),
           n + 1 <= Len(PointsOf(r, c))
    PROVE  \E b, i, s, at, t : AtPoint(r, c, m.g, role, n + 1, b, i, s, at, t) /\ b \in 1 .. Len(g0)
<1>1. Regioned(r) /\ c \in Coros /\ IsBlocks(g0) /\ Len(r.cfg) <= Len(g0)
  BY DEF Ready
<1>2. PICK P : P = PointsOf(r, c)
  OBVIOUS
<1>3. n + 1 \in 1 .. Len(P) /\ \A j \in 1 .. n : j \in 1 .. Len(P) /\ j # n + 1
  BY <1>1, <1>2, PointFacts DEF IsSeq
<1>4. PICK b, i : P[n + 1] = Place(r.cfg, b, i) /\ Suspends(r, c, b, i)
  BY <1>1, <1>2, <1>3, PointFacts
<1>5. PICK s : s = r.cfg[b].stmts
  OBVIOUS
<1>6. PICK at : at = r.at[b]
  OBVIOUS
<1>7. b \in BlocksOf(r, c) /\ b \in 1 .. Len(r.cfg) /\ i \in 1 .. Len(s) /\ s[i].op \in Suspensions
  BY <1>1, <1>4, <1>5, Contract DEF Suspends
<1>8. Text(r.body[c], s, at)
  BY <1>1, <1>5, <1>6, <1>7, BlockText
<1>9. b # CoroOf(r, c).end[1] /\ i > Skips(r, b)
  BY <1>1, <1>4, SuspendsInside
<1>10. PICK t \in BlocksOf(r, c) :
          t # RegionOf(r).begin[1] /\ r.cfg[b].term = Goto(t) /\ StartOf(r, t) = EndOf(r, b)
  BY <1>1, <1>7, <1>9, ContractBlock
<1>11. PICK z \in Nat : z = Len(g0)
  BY <1>1, BlocksBounds
<1>12. PICK L \in Nat : L = Len(m.g)
  BY BlocksBounds DEF Cutting
<1>13. Len(r.cfg) \in Nat /\ Len(r.cfg) <= z /\ z <= L
  BY <1>1, <1>11, <1>12, CfgIs DEF IsCfg, IsSeq, Cutting
<1>14. t \in 1 .. Len(r.cfg)
  BY <1>1, Contract
<1>15. b \in 1 .. z /\ b \in 1 .. L /\ t \in 1 .. z /\ t \in 1 .. L
  BY <1>7, <1>13, <1>14
<1>16. \A j \in 1 .. n : P[j][1] # b
  <2> SUFFICES ASSUME NEW j \in 1 .. n PROVE P[j][1] # b
    OBVIOUS
  <2>1. P[n + 1][1] = b
    BY <1>4 DEF Place
  <2>2. P[j][1] # P[n + 1][1]
    BY <1>1, <1>2, <1>3, PointFacts
  <2> QED BY <2>1, <2>2
<1>17. m.g[b] = g0[b]
  BY <1>2, <1>11, <1>15, <1>16 DEF Cutting
<1>18. g0[b] = r.cfg[b] /\ ro[b] = At(c, StartOf(r, b)) /\ ro[t] = At(c, StartOf(r, t))
  BY <1>7 DEF Ready
<1>19. role[b] = ro[b] /\ role[t] = ro[t]
  BY <1>11, <1>15 DEF Cutting
<1>20. r.cfg[b] = Block(s, Goto(t))
  BY <1>1, <1>5, <1>7, <1>10, CfgIs
<1>21. role[b] = At(c, at[Skips(r, b) + 1]) /\ role[t] = At(c, at[Len(s) + 1])
  BY <1>5, <1>6, <1>10, <1>18, <1>19 DEF StartOf, EndOf
<1>22. Skips(r, b) \in 0 .. i - 1
  <2>1. Skips(r, b) \in Nat
    <3>1. Marks(r, RegionOf(r).begin)
      BY <1>1, Contract
    <3>2. b = RegionOf(r).begin[1] => RegionOf(r).begin[2] \in 1 .. Len(s)
      BY <3>1, <1>5 DEF Marks
    <3> QED BY <3>2 DEF Skips
  <2>2. i \in Int
    BY <1>7
  <2> QED BY <2>1, <2>2, <1>9
<1>23. t \in DOMAIN m.g
  BY <1>12, <1>15, BlocksBounds DEF Cutting
<1>24. P[n + 1] = <<b, i, s[i]>>
  BY <1>4, <1>5 DEF Place
<1>25. (n + 1) - 1 = n
  OBVIOUS
<1>26. AtPoint(r, c, m.g, role, n + 1, b, i, s, at, t)
  BY <1>2, <1>5, <1>7, <1>8, <1>10, <1>12, <1>15, <1>16, <1>17, <1>18, <1>20, <1>21, <1>22,
     <1>23, <1>24, <1>25 DEF AtPoint, Is
<1> QED BY <1>26, <1>11, <1>15

-----------------------------------------------------------------------------
(* What a cut finds, and leaves.                                            *)

\* What the text says of the point.
PointAt(src, pts, n, i, s, at) ==
    /\ at[i + 1] = at[i] + 1 /\ at[i] \in 0 .. Len(src) - 1
    /\ src[at[i] + 1][1] = s[i].op
    /\ s[i] = Operation(s[i].op, src[at[i] + 1][2], at[i] + 1)
    /\ ResumesAt(src, pts, n) = IF s[i].op = "GuardedRecv" THEN at[i] ELSE at[i] + 1
    /\ Len(src) \in Nat /\ Len(s) \in Nat /\ i \in 1 .. Len(s)
    /\ \A x \in 1 .. Len(s) + 1 : at[x] \in 0 .. Len(src)

\* Where a point resumes, in its block's text.
LEMMA PointResumes ==
    ASSUME NEW r, NEW c, NEW g, NEW role, NEW n, n # 0, NEW b, NEW i, NEW s, NEW at, NEW t,
           AtPoint(r, c, g, role, n, b, i, s, at, t)
    PROVE  PointAt(r.body[c], PointsOf(r, c), n, i, s, at)
<1>1. Text(r.body[c], s, at) /\ i \in 1 .. Len(s) /\ s[i].op \in Suspensions
  BY DEF AtPoint
<1>2. PICK z \in Nat : z = Len(s)
  BY <1>1, TextBounds
<1>3. PICK src : src = r.body[c]
  OBVIOUS
<1>4. PICK y \in Nat : y = Len(src)
  BY <1>1, <1>3, TextBounds
<1>5. \A x \in 1 .. z + 1 : at[x] \in 0 .. y
  BY <1>1, <1>2, <1>3, <1>4, TextBounds
<1>6. /\ at[i + 1] = at[i] + 1 /\ at[i + 1] \in 1 .. y
      /\ src[at[i + 1]][1] = s[i].op /\ s[i].src = at[i + 1]
      /\ s[i] = Operation(s[i].op, src[at[i + 1]][2], at[i + 1])
  BY <1>1, <1>3, <1>4, TextSteps
<1>7. at[i] \in 0 .. y
  <2>1. i \in 1 .. z + 1
    BY <1>1, <1>2
  <2> QED BY <2>1, <1>5
<1>8. at[i] \in 0 .. y - 1
  BY <1>6, <1>7
<1>9. PointsOf(r, c)[n][3] = s[i]
  BY DEF AtPoint
<1>10. ResumesAt(src, PointsOf(r, c), n) = IF s[i].op = "GuardedRecv" THEN s[i].src - 1 ELSE s[i].src
  <2>1. src[s[i].src][1] = s[i].op
    BY <1>6
  <2> QED BY <2>1, <1>9 DEF ResumesAt
<1>11. s[i].src = at[i] + 1 /\ s[i].src - 1 = at[i]
  BY <1>6, <1>7
<1>12. ResumesAt(src, PointsOf(r, c), n) = IF s[i].op = "GuardedRecv" THEN at[i] ELSE at[i] + 1
  BY <1>10, <1>11
<1>13. src[at[i] + 1][1] = s[i].op /\ s[i] = Operation(s[i].op, src[at[i] + 1][2], at[i] + 1)
  BY <1>6
<1>14. PointAt(src, PointsOf(r, c), n, i, s, at)
  BY <1>1, <1>2, <1>4, <1>5, <1>6, <1>8, <1>12, <1>13 DEF PointAt
<1> QED BY <1>3, <1>14

\* Bounds of what a cut is made of.
LEMMA CuttingBounds ==
    ASSUME NEW r, NEW c, NEW g0, NEW ro, Ready(r, c, g0, ro),
           NEW m, NEW role, NEW n \in Nat, Cutting(r, c, g0, ro, m, role, n)
    PROVE  /\ Len(m.g) \in Nat /\ Len(g0) \in Nat /\ Len(g0) + 2 <= Len(m.g)
           /\ RegionOf(r).begin[1] \in 1 .. Len(g0)
           /\ Is(m.g, role, Len(g0) + 2, Exits(c))
           /\ IsSeq(m.g) /\ \A a \in 1 .. Len(m.g) : IsSeq(m.g[a].stmts) /\ m.g[a] = Block(m.g[a].stmts, m.g[a].term)
<1>1. IsBlocks(m.g) /\ IsBlocks(g0) /\ Len(g0) + 2 <= Len(m.g) /\ role[Len(g0) + 2] = Exits(c)
  BY DEF Ready, Cutting
<1>2. Len(m.g) \in Nat /\ Len(g0) \in Nat /\ DOMAIN m.g = 1 .. Len(m.g)
  BY <1>1, BlocksBounds
<1>3. Len(g0) + 2 \in DOMAIN m.g
  BY <1>1, <1>2
<1>4. RegionOf(r).begin[1] \in 1 .. Len(r.cfg) /\ Len(r.cfg) <= Len(g0) /\ Len(r.cfg) \in Nat
  BY Contract, CfgIs DEF Ready, Marks, IsCfg, IsSeq
<1>5. RegionOf(r).begin[1] \in 1 .. Len(g0)
  BY <1>2, <1>4
<1> QED BY <1>1, <1>2, <1>3, <1>5 DEF Is, IsBlocks

\* LeaveBlock makes a block.
LEMMA LeaveIs ==
    \A s, q, exit : /\ LeaveBlock(s, q, exit) = Block(LeaveBlock(s, q, exit).stmts, LeaveBlock(s, q, exit).term)
                    /\ IsSeq(LeaveBlock(s, q, exit).stmts)
<1> SUFFICES ASSUME NEW s, NEW q, NEW exit
             PROVE  /\ LeaveBlock(s, q, exit) = Block(LeaveBlock(s, q, exit).stmts, LeaveBlock(s, q, exit).term)
                    /\ IsSeq(LeaveBlock(s, q, exit).stmts)
  OBVIOUS
<1>1. PICK u : u = <<Assign("state", s), Assign("poll", q)>>
  OBVIOUS
<1>2. LeaveBlock(s, q, exit) = Block(u, Goto(exit))
  BY <1>1 DEF LeaveBlock
<1>3. u \in Seq({Assign("state", s), Assign("poll", q)})
  BY <1>1
<1> QED BY <1>2, <1>3, SeqTyped, BlockIs

\* The parts of a goto.
LEMMA GotoIs == \A b : Goto(b).kind = "goto" /\ Goto(b).to = b
BY DEF Goto

\* Whose a role is.
LEMMA WhoIs ==
    \A c, i, q : /\ At(c, i).who = c /\ Let(c, i).who = c /\ Out(c, i, q).who = c
                 /\ Enters(c).who = c /\ Exits(c).who = c
BY DEF At, Let, Out, Enters, Exits, Role

\* What the next cut finds.
AtCut(r, c, g0, m, role, n, b, i, s, at, t) ==
    /\ CanCut(m, PointsOf(r, c)[n + 1], Len(m.g), b, s, Goto(t), i)
    /\ PointsOf(r, c)[n + 1][3] = s[i]
    /\ PointAt(r.body[c], PointsOf(r, c), n + 1, i, s, at)
    /\ Text(r.body[c], s, at) /\ s[i].op \in Suspensions /\ s = r.cfg[b].stmts
    /\ Skips(r, b) \in 0 .. i - 1 /\ role[b] = At(c, at[Skips(r, b) + 1])
    /\ b = PointsOf(r, c)[n + 1][1]
    /\ \A j \in 1 .. n : PointsOf(r, c)[j][1] # b
    /\ t # RegionOf(r).begin[1] /\ Is(m.g, role, t, At(c, at[Len(s) + 1]))
    /\ n + 1 \in 1 .. Len(PointsOf(r, c)) /\ n + 1 # DONE_STATE
    /\ RegionOf(r).begin[1] \in 1 .. Len(m.g) /\ RegionOf(r).begin[2] # 0
    /\ Len(g0) + 2 \in 1 .. Len(m.g) /\ Is(m.g, role, Len(g0) + 2, Exits(c))
    /\ IsBlocks(m.g) /\ DOMAIN m.g = 1 .. Len(m.g)

\* What the next cut finds, from the invariant of the cuts.
LEMMA CutFinds ==
    ASSUME NEW r, NEW c, NEW g0, NEW ro, Ready(r, c, g0, ro),
           NEW m, NEW role, NEW n \in Nat, Cutting(r, c, g0, ro, m, role, n),
           n + 1 <= Len(PointsOf(r, c)),
           NEW b \in 1 .. Len(g0), NEW i, NEW s, NEW at, NEW t,
           AtPoint(r, c, m.g, role, n + 1, b, i, s, at, t)
    PROVE  AtCut(r, c, g0, m, role, n, b, i, s, at, t)
<1>1. PICK L \in Nat : L = Len(m.g)
  BY CuttingBounds
<1>2. PICK z \in Nat : z = Len(g0)
  BY CuttingBounds
<1>3. PICK P : P = PointsOf(r, c)
  OBVIOUS
<1>4. z + 2 <= L /\ RegionOf(r).begin[1] \in 1 .. z /\ Is(m.g, role, z + 2, Exits(c))
  BY <1>1, <1>2, CuttingBounds
<1>5. PICK h : h = RegionOf(r).begin[1]
  OBVIOUS
<1>6. z + 2 \in 1 .. L /\ h \in 1 .. L /\ b \in 1 .. L
  BY <1>2, <1>4, <1>5
<1>7. IsBlocks(m.g) /\ IsSeq(m.g) /\ DOMAIN m.g = 1 .. L
  BY <1>1, BlocksBounds DEF Cutting
<1>8. /\ b \in BlocksOf(r, c) /\ s = r.cfg[b].stmts /\ m.g[b] = Block(s, Goto(t))
      /\ Text(r.body[c], s, at) /\ s[i].op \in Suspensions /\ Skips(r, b) \in 0 .. i - 1
      /\ P[n + 1] = <<b, i, s[i]>> /\ role[b] = At(c, at[Skips(r, b) + 1])
      /\ t # h /\ Is(m.g, role, t, At(c, at[Len(s) + 1]))
      /\ i \in 1 .. Len(s)
  BY <1>3, <1>5 DEF AtPoint
<1>9. \A j \in 1 .. n : P[j][1] # b
  <2>1. (n + 1) - 1 = n
    OBVIOUS
  <2>2. \A j \in 1 .. (n + 1) - 1 : PointsOf(r, c)[j][1] # b
    BY DEF AtPoint
  <2> QED BY <2>1, <2>2, <1>3
<1>10. PointAt(r.body[c], P, n + 1, i, s, at)
  <2>1. AtPoint(r, c, m.g, role, n + 1, b, i, s, at, t) /\ n + 1 # 0
    OBVIOUS
  <2> QED BY <2>1, <1>3, PointResumes
<1>11. n + 1 \in 1 .. Len(P) /\ n + 1 # DONE_STATE
  <2>1. Regioned(r) /\ c \in Coros
    BY DEF Ready
  <2>2. IsSeq(P) /\ Len(P) < DONE_STATE
    BY <2>1, <1>3, PointFacts, Contract
  <2>3. PICK y \in Nat : y = Len(P)
    BY <2>2 DEF IsSeq
  <2>4. n + 1 <= y /\ y < 9999
    BY <2>2, <2>3, <1>3 DEF DONE_STATE
  <2> QED BY <2>3, <2>4 DEF DONE_STATE
<1>12. RegionOf(r).begin[2] # 0
  BY SMTT(30), Contract DEF Ready, Marks
<1>13. IsSeq(s)
  BY <1>8, TextBounds
<1>14. P[n + 1][1] = b /\ P[n + 1][2] = i /\ P[n + 1][3] = s[i]
  BY <1>8
<1>15. CanCut(m, P[n + 1], L, b, s, Goto(t), i)
  BY <1>1, <1>6, <1>7, <1>8, <1>13, <1>14 DEF CanCut
<1> HIDE DEF DONE_STATE
<1> QED BY <1>1, <1>2, <1>3, <1>4, <1>5, <1>6, <1>7, <1>8, <1>9, <1>10, <1>11, <1>12, <1>14, <1>15
        DEF AtCut

\* What the three cuts have in common: block b and those behind the old ones are right.
Recut(r, c, m, role, n, b, w, role2, K, e) ==
    /\ K \in Nat /\ IsSeq(w.g) /\ Len(w.g) = Len(m.g) + K
    /\ \A a \in 1 .. Len(m.g) : a # b => w.g[a] = m.g[a]
    /\ \A a \in 1 .. Len(m.g) : role2[a] = role[a]
    /\ IsSeq(w.g[b].stmts) /\ w.g[b] = Block(w.g[b].stmts, w.g[b].term)
    /\ Frag(r, c, w.g, role2, b) /\ Marked(r, w.g, b)
    /\ \A a \in Len(m.g) + 1 .. Len(m.g) + K :
          /\ IsSeq(w.g[a].stmts) /\ w.g[a] = Block(w.g[a].stmts, w.g[a].term)
          /\ role2[a].who = c /\ Frag(r, c, w.g, role2, a)
    /\ w.entries = Append(m.entries, e) /\ e # RegionOf(r).begin[1]
    /\ Is(w.g, role2, e, At(c, ResumesAt(r.body[c], PointsOf(r, c), n + 1)))

\* A cut that leaves fragments continues the invariant.
LEMMA RecutGrows ==
    ASSUME NEW r, NEW c, NEW g0, NEW ro, Ready(r, c, g0, ro),
           NEW m, NEW role, NEW n \in Nat, Cutting(r, c, g0, ro, m, role, n),
           NEW b, NEW i, NEW s, NEW at, NEW t, AtCut(r, c, g0, m, role, n, b, i, s, at, t), b \in 1 .. Len(g0),
           NEW w, NEW role2, NEW K, NEW e, Recut(r, c, m, role, n, b, w, role2, K, e)
    PROVE  Cutting(r, c, g0, ro, w, role2, n + 1)
<1>1. PICK L \in Nat : L = Len(m.g)
  BY DEF AtCut, CanCut
<1>2. /\ K \in Nat /\ IsSeq(w.g) /\ Len(w.g) = L + K
      /\ \A a \in 1 .. L : a # b => w.g[a] = m.g[a]
      /\ \A a \in 1 .. L : role2[a] = role[a]
      /\ IsSeq(w.g[b].stmts) /\ w.g[b] = Block(w.g[b].stmts, w.g[b].term)
      /\ Frag(r, c, w.g, role2, b) /\ Marked(r, w.g, b)
  BY <1>1 DEF Recut
<1>3. \A a \in L + 1 .. L + K :
          /\ IsSeq(w.g[a].stmts) /\ w.g[a] = Block(w.g[a].stmts, w.g[a].term)
          /\ role2[a].who = c /\ Frag(r, c, w.g, role2, a)
  BY <1>1 DEF Recut
<1>4. IsBlocks(w.g)
  <2> SUFFICES ASSUME NEW a \in 1 .. L + K
               PROVE  IsSeq(w.g[a].stmts) /\ w.g[a] = Block(w.g[a].stmts, w.g[a].term)
    BY <1>2 DEF IsBlocks
  <2>1. CASE a \in L + 1 .. L + K
    BY <2>1, <1>3
  <2>2. CASE a = b
    BY <2>2, <1>2
  <2>3. CASE a \in 1 .. L /\ a # b
    <3>1. w.g[a] = m.g[a]
      BY <2>3, <1>2
    <3>2. IsBlocks(m.g)
      BY DEF AtCut
    <3>3. IsSeq(m.g[a].stmts) /\ m.g[a] = Block(m.g[a].stmts, m.g[a].term)
      BY <3>2, <2>3, <1>1 DEF IsBlocks
    <3> QED BY <3>1, <3>3
  <2>4. a \in 1 .. L \/ a \in L + 1 .. L + K
    BY <1>2
  <2> QED BY <2>1, <2>2, <2>3, <2>4
<1>5. n + 1 \in 1 .. Len(PointsOf(r, c)) /\ b = PointsOf(r, c)[n + 1][1] /\ \A j \in 1 .. n : PointsOf(r, c)[j][1] # b
  BY DEF AtCut
<1>6. Len(m.g) <= Len(w.g)
  <2>1. L <= L + K
    BY <1>2
  <2> QED BY <2>1, <1>1, <1>2
<1>7. /\ \A a \in 1 .. Len(m.g) : a # b => w.g[a] = m.g[a]
      /\ \A a \in 1 .. Len(m.g) : role2[a] = role[a]
      /\ \A a \in Len(m.g) + 1 .. Len(w.g) : role2[a].who = c /\ Frag(r, c, w.g, role2, a)
      /\ Frag(r, c, w.g, role2, b) /\ Marked(r, w.g, b)
  BY <1>1, <1>2, <1>3
<1>8. /\ w.entries = Append(m.entries, e) /\ e # RegionOf(r).begin[1]
      /\ Is(w.g, role2, e, At(c, ResumesAt(r.body[c], PointsOf(r, c), n + 1)))
  BY DEF Recut
<1>9. Grows(r, c, g0, m, role, n, b, w, role2, e)
  BY <1>4, <1>5, <1>6, <1>7, <1>8 DEF Grows
<1> QED BY <1>9, CutGrows

\* The new blocks of a cut, by number: two,
LEMMA TwoMore ==
    ASSUME NEW L \in Nat
    PROVE  /\ L + 1 \in 1 .. L + 2 /\ L + 2 \in 1 .. L + 2 /\ ~(L + 1 <= L) /\ ~(L + 2 <= L) /\ L + 2 # L + 1
           /\ \A a \in 1 .. L : a \in 1 .. L + 2 /\ a <= L /\ a # L + 1 /\ a # L + 2
           /\ \A a \in L + 1 .. L + 2 : a = L + 1 \/ a = L + 2
OBVIOUS

\* The cut at a yield or a send keeps the invariant of the cuts.
LEMMA CutPlainKeeps ==
    ASSUME NEW r, NEW c, NEW g0, NEW ro, Ready(r, c, g0, ro),
           NEW m, NEW role, NEW n \in Nat, Cutting(r, c, g0, ro, m, role, n),
           n + 1 <= Len(PointsOf(r, c)),
           NEW b \in 1 .. Len(g0), NEW i, NEW s, NEW at, NEW t,
           AtCut(r, c, g0, m, role, n, b, i, s, at, t), s[i].op # "GuardedRecv",
           NEW w, w = CutPlain(m, PointsOf(r, c)[n + 1], n + 1, Len(g0) + 2)
    PROVE  \E role2 : Cutting(r, c, g0, ro, w, role2, n + 1)
<1>1. PICK L : L = Len(m.g)
  OBVIOUS
<1>2. PICK exit : exit = Len(g0) + 2
  OBVIOUS
<1>3. PICK h : h = RegionOf(r).begin[1]
  OBVIOUS
<1>4. PICK pts : pts = PointsOf(r, c)
  OBVIOUS
<1>5. PICK src : src = r.body[c]
  OBVIOUS
<1>6. PICK q : q = Skips(r, b)
  OBVIOUS
<1>7. PICK x : x = pts[n + 1]
  OBVIOUS
<1>8. /\ CanCut(m, x, L, b, s, Goto(t), i) /\ x[3] = s[i] /\ PointAt(src, pts, n + 1, i, s, at)
      /\ Text(src, s, at) /\ s[i].op \in Suspensions /\ s = r.cfg[b].stmts
      /\ q \in 0 .. i - 1 /\ role[b] = At(c, at[q + 1])
      /\ t # h /\ Is(m.g, role, t, At(c, at[Len(s) + 1]))
      /\ n + 1 \in 1 .. Len(pts) /\ n + 1 # DONE_STATE
      /\ h \in 1 .. L /\ exit \in 1 .. L /\ Is(m.g, role, exit, Exits(c)) /\ DOMAIN m.g = 1 .. L
  BY <1>1, <1>2, <1>3, <1>4, <1>5, <1>6, <1>7 DEF AtCut
<1>9. L \in Nat /\ b \in 1 .. L /\ i \in 1 .. Len(s)
  BY <1>8 DEF CanCut
<1>10. PICK j0 : j0 = at[i] + 1
  OBVIOUS
<1>11. PICK y : y = Len(s)
  OBVIOUS
<1>12. /\ at[i + 1] = j0 /\ j0 \in 0 .. Len(src) /\ ResumesAt(src, pts, n + 1) = j0
       /\ y \in Nat /\ i \in 1 .. y /\ q + 1 \in 1 .. y + 1 /\ y + 1 \in 1 .. y + 1
       /\ at[q + 1] \in 0 .. Len(src) /\ at[y + 1] \in 0 .. Len(src)
  <2>1. /\ at[i + 1] = at[i] + 1 /\ at[i] \in 0 .. Len(src) - 1
        /\ ResumesAt(src, pts, n + 1) = IF s[i].op = "GuardedRecv" THEN at[i] ELSE at[i] + 1
        /\ Len(src) \in Nat /\ y \in Nat /\ i \in 1 .. y
        /\ \A z \in 1 .. y + 1 : at[z] \in 0 .. Len(src)
    BY <1>8, <1>11 DEF PointAt
  <2>a. q \in 0 .. i - 1
    BY <1>8
  <2>b. y \in Nat /\ i \in 1 .. y
    BY <2>1
  <2>2. q + 1 \in 1 .. y + 1 /\ y + 1 \in 1 .. y + 1
    BY <2>a, <2>b
  <2>3. at[q + 1] \in 0 .. Len(src) /\ at[y + 1] \in 0 .. Len(src)
    BY <2>1, <2>2
  <2>4. j0 \in 0 .. Len(src)
    BY <2>1, <1>10
  <2> QED BY <2>1, <2>2, <2>3, <2>4, <1>10
<1>13. s[i].op \in {"Yield", "ProducingSend"}
  BY <1>8 DEF Suspensions
<1>14. PICK front : front = Plain(s, i, s[i].op)
  OBVIOUS
<1>15. PICK rest : rest = SubSeq(s, i + 1, y)
  OBVIOUS
<1>16. /\ Reads(src, front, q, at[q + 1], j0) /\ IsSeq(front) /\ Len(front) = i
       /\ \A z \in 1 .. i - 1 : front[z] = s[z]
  <2>1. /\ Reads(src, Plain(s, i, s[i].op), q, at[q + 1], at[i + 1])
        /\ IsSeq(Plain(s, i, s[i].op)) /\ Len(Plain(s, i, s[i].op)) = i
        /\ \A z \in 1 .. i - 1 : Plain(s, i, s[i].op)[z] = s[z]
    <3>1. Text(src, s, at) /\ q \in 0 .. i - 1
      BY <1>8
    <3>2. i \in 1 .. Len(s)
      BY <1>9
    <3> QED BY <3>1, <3>2, <1>13, PlainReads
  <2> QED BY <2>1, <1>12, <1>14
<1>17. Reads(src, rest, 0, j0, at[y + 1]) /\ Puts(src, j0, at[y + 1])
  BY <1>8, <1>9, <1>11, <1>12, <1>15, RestReads
<1>18. IsSeq(s) /\ IsSeq(rest)
  <2>1. IsSeq(s)
    BY <1>8, TextBounds
  <2>2. i + 1 \in Int /\ y \in Int /\ i + 1 >= 1 /\ i + 1 <= y + 1 /\ y <= y
    BY <1>12
  <2> QED BY <2>1, <2>2, <1>11, <1>15, SeqSub
<1>19. PlainDone(m, w, L, b, s, Goto(t), i, s[i].op, n + 1, exit)
  <2>1. w = CutPlain(m, x, n + 1, exit)
    BY <1>2, <1>4, <1>7
  <2>2. PlainDone(m, CutPlain(m, x, n + 1, exit), L, b, s, Goto(t), i, x[3].op, n + 1, exit)
    BY <1>8, CutPlainIs
  <2> QED BY <2>1, <2>2, <1>8
<1>20. /\ IsSeq(w.g) /\ Len(w.g) = L + 2
       /\ w.g[b] = Block(front, Goto(L + 1))
       /\ w.g[L + 1] = LeaveBlock(n + 1, "PENDING", exit)
       /\ w.g[L + 2] = Block(rest, Goto(t))
       /\ \A a \in 1 .. L : a # b => w.g[a] = m.g[a]
       /\ w.entries = Append(m.entries, L + 2)
  BY <1>11, <1>14, <1>15, <1>19 DEF PlainDone
<1>21. PICK role2 : role2 = [a \in 1 .. L + 2 |-> IF a <= L THEN role[a]
                                                  ELSE IF a = L + 1 THEN Out(c, n + 1, "PENDING")
                                                  ELSE At(c, j0)]
  OBVIOUS
<1>22. L + 1 \in 1 .. L + 2 /\ L + 2 \in 1 .. L + 2 /\ ~(L + 1 <= L) /\ ~(L + 2 <= L) /\ L + 2 # L + 1
       /\ (\A a \in 1 .. L : a \in 1 .. L + 2 /\ a <= L /\ a # L + 1 /\ a # L + 2)
       /\ \A a \in L + 1 .. L + 2 : a = L + 1 \/ a = L + 2
  BY <1>9, TwoMore
<1>23. /\ \A a \in 1 .. L : role2[a] = role[a]
       /\ role2[L + 1] = Out(c, n + 1, "PENDING") /\ role2[L + 2] = At(c, j0)
  BY <1>21, <1>22
<1>24. Extends(m.g, role, w.g, role2) /\ DOMAIN w.g = 1 .. L + 2
  <2>1. DOMAIN m.g = 1 .. L /\ IsSeq(w.g) /\ Len(w.g) = L + 2 /\ L \in Nat /\ 2 \in Nat
        /\ \A a \in 1 .. L : role2[a] = role[a]
    BY <1>8, <1>9, <1>20, <1>23
  <2>2. DOMAIN w.g = 1 .. L + 2
    BY <2>1, Bounds
  <2>3. 1 .. L \subseteq 1 .. L + 2
    BY <1>22
  <2> QED BY <2>1, <2>2, <2>3 DEF Extends
<1>25. h # L + 1 /\ h # L + 2
  BY <1>8, <1>22
<1>26. Is(w.g, role2, exit, Exits(c)) /\ Is(w.g, role2, t, At(c, at[y + 1]))
  BY <1>8, <1>11, <1>24, IsKeeps
<1>27. Is(w.g, role2, L + 1, Out(c, n + 1, "PENDING")) /\ Is(w.g, role2, L + 2, At(c, j0))
  BY <1>22, <1>23, <1>24 DEF Is
<1>28. Frag(r, c, w.g, role2, b)
  <2>1. Leads(c, src, pts, w.g, role2, at[q + 1], j0, Goto(L + 1))
    BY <1>8, <1>12, <1>27, GotoIs DEF Leads
  <2>2. Goto(L + 1).to # h
    BY <1>25, GotoIs
  <2>3. role2[b] = At(c, at[q + 1])
    BY <1>8, <1>9, <1>23
  <2>4. q <= Len(front)
    BY <1>8, <1>12, <1>16
  <2> QED BY <2>1, <2>2, <2>3, <2>4, <1>3, <1>4, <1>5, <1>6, <1>12, <1>16, <1>20, FragAt
<1>29. Frag(r, c, w.g, role2, L + 1)
  <2>1. ("PENDING" = "READY") = (n + 1 = DONE_STATE)
    BY <1>8
  <2> QED BY <2>1, <1>4, <1>8, <1>20, <1>23, <1>26, FragOut
<1>30. Frag(r, c, w.g, role2, L + 2)
  <2>1. Skips(r, L + 2) = 0 /\ 0 <= Len(rest)
    BY <1>3, <1>18, <1>25 DEF Skips, IsSeq
  <2>2. Leads(c, src, pts, w.g, role2, j0, at[y + 1], Goto(t))
    BY <1>17, <1>26, GotoIs DEF Leads
  <2>3. Goto(t).to # h
    BY <1>8, GotoIs
  <2>4. Reads(src, rest, Skips(r, L + 2), j0, at[y + 1]) /\ Skips(r, L + 2) <= Len(rest)
    BY <2>1, <1>17
  <2> QED BY ZenonT(40), <2>2, <2>3, <2>4, <1>3, <1>4, <1>5, <1>12, <1>20, <1>23, FragAt
<1>31. Marked(r, w.g, b) /\ IsSeq(w.g[b].stmts) /\ w.g[b] = Block(w.g[b].stmts, w.g[b].term)
  <2>1. w.g[b].stmts = front
    BY <1>20, BlockIs
  <2>2. ASSUME NEW j \in 1 .. i, s[j] \in Markers PROVE front[j] = s[j]
    <3>1. j # i
      BY <1>8, <1>9, <2>2, TextSteps DEF Suspensions
    <3>2. j \in 1 .. i - 1
      BY <3>1, <1>12
    <3> QED BY <3>2, <1>16
  <2>3. w.g[b] = Block(w.g[b].stmts, w.g[b].term)
    BY <1>20, BlockIs
  <2> QED BY <2>1, <2>2, <2>3, <1>8, <1>16 DEF Marked
<1>32. \A a \in L + 1 .. L + 2 :
          /\ IsSeq(w.g[a].stmts) /\ w.g[a] = Block(w.g[a].stmts, w.g[a].term)
          /\ role2[a].who = c /\ Frag(r, c, w.g, role2, a)
  <2>1. role2[L + 1].who = c /\ role2[L + 2].who = c
    BY <1>23, WhoIs
  <2>2. IsSeq(w.g[L + 1].stmts) /\ w.g[L + 1] = Block(w.g[L + 1].stmts, w.g[L + 1].term)
    BY <1>20, LeaveIs
  <2>3. IsSeq(w.g[L + 2].stmts) /\ w.g[L + 2] = Block(w.g[L + 2].stmts, w.g[L + 2].term)
    BY <1>18, <1>20, BlockIs
  <2> QED BY <2>1, <2>2, <2>3, <1>22, <1>29, <1>30
<1>33. L + 2 # RegionOf(r).begin[1] /\ Is(w.g, role2, L + 2, At(c, ResumesAt(r.body[c], PointsOf(r, c), n + 1)))
  BY <1>3, <1>4, <1>5, <1>12, <1>25, <1>27
<1>34. Recut(r, c, m, role, n, b, w, role2, 2, L + 2)
  BY <1>1, <1>20, <1>23, <1>28, <1>31, <1>32, <1>33 DEF Recut
<1>35. Cutting(r, c, g0, ro, w, role2, n + 1)
  BY <1>34, RecutGrows
<1> QED BY <1>35

\* ... three,
LEMMA ThreeMore ==
    ASSUME NEW L \in Nat
    PROVE  /\ L + 1 \in 1 .. L + 3 /\ ~(L + 1 <= L) /\ L + 2 \in 1 .. L + 3 /\ ~(L + 2 <= L) /\ L + 3 \in 1 .. L + 3 /\ ~(L + 3 <= L)
           /\ L + 1 # L + 2 /\ L + 1 # L + 3 /\ L + 2 # L + 1 /\ L + 2 # L + 3 /\ L + 3 # L + 1 /\ L + 3 # L + 2
           /\ \A a \in 1 .. L : a \in 1 .. L + 3 /\ a <= L /\ a # L + 1 /\ a # L + 2 /\ a # L + 3
           /\ \A a \in L + 1 .. L + 3 : a = L + 1 \/ a = L + 2 \/ a = L + 3
OBVIOUS

\* ... and four.
LEMMA FourMore ==
    ASSUME NEW L \in Nat
    PROVE  /\ L + 1 \in 1 .. L + 4 /\ ~(L + 1 <= L) /\ L + 2 \in 1 .. L + 4 /\ ~(L + 2 <= L) /\ L + 3 \in 1 .. L + 4 /\ ~(L + 3 <= L) /\ L + 4 \in 1 .. L + 4 /\ ~(L + 4 <= L)
           /\ L + 1 # L + 2 /\ L + 1 # L + 3 /\ L + 1 # L + 4 /\ L + 2 # L + 1 /\ L + 2 # L + 3 /\ L + 2 # L + 4 /\ L + 3 # L + 1 /\ L + 3 # L + 2 /\ L + 3 # L + 4 /\ L + 4 # L + 1 /\ L + 4 # L + 2 /\ L + 4 # L + 3
           /\ \A a \in 1 .. L : a \in 1 .. L + 4 /\ a <= L /\ a # L + 1 /\ a # L + 2 /\ a # L + 3 /\ a # L + 4
           /\ \A a \in L + 1 .. L + 4 : a = L + 1 \/ a = L + 2 \/ a = L + 3 \/ a = L + 4
OBVIOUS

\* The operation of a guard, behind it.
LEMMA RecvIs ==
    \A v, o, p, z : v = Operation(o, p, z) =>
                      v.arg = p /\ [v EXCEPT !.op = "Recv"] = Operation("Recv", p, z)
BY DEF Operation

\* So does the cut at a guard that is the block's first statement,
LEMMA CutFirstKeeps ==
    ASSUME NEW r, NEW c, NEW g0, NEW ro, Ready(r, c, g0, ro),
           NEW m, NEW role, NEW n \in Nat, Cutting(r, c, g0, ro, m, role, n),
           n + 1 <= Len(PointsOf(r, c)),
           NEW b \in 1 .. Len(g0), NEW i, NEW s, NEW at, NEW t,
           AtCut(r, c, g0, m, role, n, b, i, s, at, t), s[i].op = "GuardedRecv", i = 1,
           NEW w, w = CutGuard(m, PointsOf(r, c)[n + 1], n + 1, Len(g0) + 2)
    PROVE  \E role2 : Cutting(r, c, g0, ro, w, role2, n + 1)
<1>1. PICK L : L = Len(m.g)
  OBVIOUS
<1>2. PICK exit : exit = Len(g0) + 2
  OBVIOUS
<1>3. PICK h : h = RegionOf(r).begin[1]
  OBVIOUS
<1>4. PICK pts : pts = PointsOf(r, c)
  OBVIOUS
<1>5. PICK src : src = r.body[c]
  OBVIOUS
<1>6. PICK q : q = Skips(r, b)
  OBVIOUS
<1>7. PICK x : x = pts[n + 1]
  OBVIOUS
<1>8. /\ CanCut(m, x, L, b, s, Goto(t), i) /\ x[3] = s[i] /\ PointAt(src, pts, n + 1, i, s, at)
      /\ Text(src, s, at) /\ s[i].op \in Suspensions /\ s = r.cfg[b].stmts
      /\ q \in 0 .. i - 1 /\ role[b] = At(c, at[q + 1])
      /\ t # h /\ Is(m.g, role, t, At(c, at[Len(s) + 1]))
      /\ n + 1 \in 1 .. Len(pts) /\ n + 1 # DONE_STATE
      /\ h \in 1 .. L /\ exit \in 1 .. L /\ Is(m.g, role, exit, Exits(c)) /\ DOMAIN m.g = 1 .. L
  BY <1>1, <1>2, <1>3, <1>4, <1>5, <1>6, <1>7 DEF AtCut
<1>9. L \in Nat /\ b \in 1 .. L /\ i \in 1 .. Len(s)
  BY <1>8 DEF CanCut
<1>10. PICK j0 : j0 = at[i]
  OBVIOUS
<1>11. PICK y : y = Len(s)
  OBVIOUS
<1>12. /\ at[i + 1] = j0 + 1 /\ j0 \in 0 .. Len(src) - 1 /\ j0 \in 0 .. Len(src) /\ ResumesAt(src, pts, n + 1) = j0
       /\ y \in Nat /\ i \in 1 .. y /\ q + 1 \in 1 .. y + 1 /\ y + 1 \in 1 .. y + 1
       /\ at[q + 1] \in 0 .. Len(src) /\ at[y + 1] \in 0 .. Len(src)
  <2>1. /\ at[i + 1] = at[i] + 1 /\ at[i] \in 0 .. Len(src) - 1
        /\ ResumesAt(src, pts, n + 1) = IF s[i].op = "GuardedRecv" THEN at[i] ELSE at[i] + 1
        /\ Len(src) \in Nat /\ y \in Nat /\ i \in 1 .. y
        /\ \A z \in 1 .. y + 1 : at[z] \in 0 .. Len(src)
    BY <1>8, <1>11 DEF PointAt
  <2>a. q \in 0 .. i - 1
    BY <1>8
  <2>b. y \in Nat /\ i \in 1 .. y
    BY <2>1
  <2>2. q + 1 \in 1 .. y + 1 /\ y + 1 \in 1 .. y + 1
    BY <2>a, <2>b
  <2>3. at[q + 1] \in 0 .. Len(src) /\ at[y + 1] \in 0 .. Len(src)
    BY <2>1, <2>2
  <2>4. j0 \in 0 .. Len(src) - 1 /\ j0 \in 0 .. Len(src)
    BY <2>1, <1>10
  <2> QED BY <2>1, <2>2, <2>3, <2>4, <1>10
<1>13. /\ src[j0 + 1][1] = "GuardedRecv" /\ src[j0 + 1][2] = s[i].arg
       /\ [s[i] EXCEPT !.op = "Recv"] = Operation("Recv", src[j0 + 1][2], j0 + 1)
  <2>1. s[i] = Operation(s[i].op, src[j0 + 1][2], j0 + 1) /\ src[j0 + 1][1] = s[i].op
    BY <1>8, <1>10 DEF PointAt
  <2>3. s[i].arg = src[j0 + 1][2]
    BY <2>1, RecvIs
  <2>4. [s[i] EXCEPT !.op = "Recv"] = Operation("Recv", src[j0 + 1][2], j0 + 1)
    <3>1. PICK o : o = s[i].op
      OBVIOUS
    <3>2. PICK p : p = src[j0 + 1][2]
      OBVIOUS
    <3>3. PICK v : v = s[i]
      OBVIOUS
    <3>4. v = Operation(o, p, j0 + 1)
      BY <2>1, <3>1, <3>2, <3>3
    <3>5. [v EXCEPT !.op = "Recv"] = Operation("Recv", p, j0 + 1)
      BY <3>4, RecvIs
    <3> QED BY <3>2, <3>3, <3>5, Zenon
  <2> QED BY <2>1, <2>3, <2>4
<1>14. PICK rest : rest = Resumed(s, i)
  OBVIOUS
<1>15. /\ IsSeq(rest) /\ Len(rest) > 1 /\ rest[1] = Assign("progress", 1)
       /\ rest[2] = Operation("Recv", src[j0 + 1][2], j0 + 1)
       /\ Reads(src, rest, 2, j0 + 1, at[y + 1]) /\ Puts(src, j0 + 1, at[y + 1])
  <2>1. Text(src, s, at) /\ s[i].op \in Suspensions
    BY <1>8
  <2>2. i \in 1 .. Len(s)
    BY <1>9
  <2>3. /\ IsSeq(rest) /\ Len(rest) > 1 /\ rest[1] = Assign("progress", 1)
        /\ rest[2] = [s[i] EXCEPT !.op = "Recv"]
        /\ Reads(src, rest, 2, at[i + 1], at[Len(s) + 1])
    BY SMTT(30), <2>1, <2>2, <1>14, PassingReads
  <2>4. Puts(src, at[i + 1], at[Len(s) + 1])
    BY <2>1, <2>2, RestReads
  <2> QED BY <2>3, <2>4, <1>11, <1>12, <1>13
<1>16. q = 0 /\ b # h /\ role[b] = At(c, j0)
  <2>1. q \in 0 .. i - 1 /\ role[b] = At(c, at[q + 1])
    BY <1>8
  <2>2. q = 0
    BY <2>1
  <2>3. RegionOf(r).begin[2] # 0
    BY DEF AtCut
  <2>4. b # h
    BY <2>2, <2>3, <1>3, <1>6 DEF Skips
  <2>5. at[q + 1] = j0
    BY <2>2, <1>10
  <2> QED BY <2>1, <2>2, <2>4, <2>5
<1>19. FirstDone(m, w, L, b, s, Goto(t), n + 1, exit)
  <2>1. w = CutGuard(m, x, n + 1, exit)
    BY <1>2, <1>4, <1>7
  <2>2. FirstDone(m, CutGuard(m, x, n + 1, exit), L, b, s, Goto(t), n + 1, exit)
    <3>1. CanCut(m, x, L, b, s, Goto(t), 1)
      BY <1>8
    <3> QED BY <3>1, CutGuardFirst
  <2> QED BY <2>1, <2>2
<1>20. /\ IsSeq(w.g) /\ Len(w.g) = L + 3
       /\ w.g[b] = Block(<< >>, Branch(s[i].arg, L + 2, L + 3))
       /\ w.g[L + 1] = LeaveBlock(n + 1, "PENDING", exit)
       /\ w.g[L + 2] = Block(rest, Goto(t))
       /\ w.g[L + 3] = LeaveBlock(n + 1, "BLOCKED", exit)
       /\ \A a \in 1 .. L : a # b => w.g[a] = m.g[a]
       /\ w.entries = Append(m.entries, b)
  BY <1>14, <1>19 DEF FirstDone
<1>21. PICK role2 : role2 = [a \in 1 .. L + 3 |-> IF a <= L THEN role[a] ELSE IF a = L + 1 THEN Out(c, n + 1, "PENDING") ELSE IF a = L + 2 THEN Let(c, j0) ELSE Out(c, n + 1, "BLOCKED")]
  OBVIOUS
<1>22. /\ L + 1 \in 1 .. L + 3 /\ ~(L + 1 <= L) /\ L + 2 \in 1 .. L + 3 /\ ~(L + 2 <= L) /\ L + 3 \in 1 .. L + 3 /\ ~(L + 3 <= L)
       /\ L + 1 # L + 2 /\ L + 1 # L + 3 /\ L + 2 # L + 1 /\ L + 2 # L + 3 /\ L + 3 # L + 1 /\ L + 3 # L + 2
       /\ (\A a \in 1 .. L : a \in 1 .. L + 3 /\ a <= L /\ a # L + 1 /\ a # L + 2 /\ a # L + 3)
       /\ \A a \in L + 1 .. L + 3 : a = L + 1 \/ a = L + 2 \/ a = L + 3
  BY <1>9, ThreeMore
<1>23. /\ \A a \in 1 .. L : role2[a] = role[a]
       /\ role2[L + 1] = Out(c, n + 1, "PENDING") /\ role2[L + 2] = Let(c, j0) /\ role2[L + 3] = Out(c, n + 1, "BLOCKED")
  BY <1>21, <1>22
<1>24. Extends(m.g, role, w.g, role2) /\ DOMAIN w.g = 1 .. L + 3
  <2>1. DOMAIN m.g = 1 .. L /\ IsSeq(w.g) /\ Len(w.g) = L + 3 /\ L \in Nat
        /\ \A a \in 1 .. L : role2[a] = role[a]
    BY <1>8, <1>9, <1>20, <1>23
  <2>2. DOMAIN w.g = 1 .. L + 3
    BY <2>1, Bounds
  <2>3. 1 .. L \subseteq 1 .. L + 3
    BY <1>22
  <2> QED BY <2>1, <2>2, <2>3 DEF Extends
<1>25. h # L + 1 /\ h # L + 2 /\ h # L + 3
  BY <1>8, <1>22
<1>26. Is(w.g, role2, exit, Exits(c)) /\ Is(w.g, role2, t, At(c, at[y + 1]))
  BY <1>8, <1>11, <1>24, IsKeeps
<1>27. Is(w.g, role2, L + 1, Out(c, n + 1, "PENDING")) /\ Is(w.g, role2, L + 2, Let(c, j0)) /\ Is(w.g, role2, L + 3, Out(c, n + 1, "BLOCKED"))
  BY <1>22, <1>23, <1>24 DEF Is
<1>28. Frag(r, c, w.g, role2, b) /\ role2[b] = At(c, j0)
  <2>1. role2[b] = At(c, j0)
    BY <1>9, <1>16, <1>23
  <2>2. b # RegionOf(r).begin[1] /\ w.g[b] = Block(<< >>, Branch(s[i].arg, L + 2, L + 3))
    BY <1>3, <1>16, <1>20
  <2>3. r.body[c][j0 + 1][1] = "GuardedRecv" /\ r.body[c][j0 + 1][2] = s[i].arg
        /\ j0 \in 0 .. Len(r.body[c]) - 1
    BY <1>5, <1>12, <1>13
  <2>4. n + 1 \in 1 .. Len(PointsOf(r, c)) /\ ResumesAt(r.body[c], PointsOf(r, c), n + 1) = j0
    BY <1>4, <1>5, <1>8, <1>12
  <2>5. Is(w.g, role2, L + 2, Let(c, j0)) /\ Is(w.g, role2, L + 3, Out(c, n + 1, "BLOCKED"))
    BY <1>27
  <2>6. Frag(r, c, w.g, role2, b)
    BY <2>1, <2>2, <2>3, <2>4, <2>5, FragGuard
  <2> QED BY <2>1, <2>6
<1>29. Frag(r, c, w.g, role2, L + 1) /\ Frag(r, c, w.g, role2, L + 3)
  <2>1. ("PENDING" = "READY") = (n + 1 = DONE_STATE) /\ ("BLOCKED" = "READY") = (n + 1 = DONE_STATE)
    BY <1>8
  <2>2. n + 1 \in 1 .. Len(PointsOf(r, c))
    BY <1>4, <1>8
  <2>3. Frag(r, c, w.g, role2, L + 1)
    BY <2>1, <2>2, <1>20, <1>23, <1>26, FragOut
  <2>4. Frag(r, c, w.g, role2, L + 3)
    BY <2>1, <2>2, <1>20, <1>23, <1>26, FragOut
  <2> QED BY <2>3, <2>4
<1>30. Frag(r, c, w.g, role2, L + 2)
  <2>1. Leads(c, src, pts, w.g, role2, j0 + 1, at[y + 1], Goto(t))
    BY <1>15, <1>26, GotoIs DEF Leads
  <2>2. Goto(t).to # RegionOf(r).begin[1]
    BY <1>3, <1>8, GotoIs
  <2>3. j0 \in 0 .. Len(r.body[c]) - 1 /\ at[y + 1] \in 0 .. Len(r.body[c])
    BY <1>5, <1>12
  <2>4. role2[L + 2] = Let(c, j0) /\ w.g[L + 2] = Block(rest, Goto(t))
    BY <1>20, <1>23
  <2>5. r.body[c][j0 + 1][1] = "GuardedRecv" /\ rest[2] = Operation("Recv", r.body[c][j0 + 1][2], j0 + 1)
        /\ Len(rest) > 1 /\ rest[1] = Assign("progress", 1)
        /\ Reads(r.body[c], rest, 2, j0 + 1, at[y + 1])
    BY <1>5, <1>13, <1>15
  <2>6. Leads(c, r.body[c], PointsOf(r, c), w.g, role2, j0 + 1, at[y + 1], Goto(t))
    BY <2>1, <1>4, <1>5
  <2> QED BY <2>2, <2>3, <2>4, <2>5, <2>6, FragLet
<1>31. Marked(r, w.g, b) /\ IsSeq(w.g[b].stmts) /\ w.g[b] = Block(w.g[b].stmts, w.g[b].term)
  <2>1. w.g[b].stmts = << >> /\ w.g[b] = Block(w.g[b].stmts, w.g[b].term)
    BY <1>20, BlockIs
  <2>2. 1 .. Len(<< >>) = {}
    OBVIOUS
  <2> QED BY <2>1, <2>2, SeqEmpty DEF Marked
<1>32. \A a \in L + 1 .. L + 3 :
          /\ IsSeq(w.g[a].stmts) /\ w.g[a] = Block(w.g[a].stmts, w.g[a].term)
          /\ role2[a].who = c /\ Frag(r, c, w.g, role2, a)
  <2>1. role2[L + 1].who = c /\ role2[L + 2].who = c /\ role2[L + 3].who = c
    BY <1>23, WhoIs
  <2>2. IsSeq(w.g[L + 1].stmts) /\ w.g[L + 1] = Block(w.g[L + 1].stmts, w.g[L + 1].term)
    BY <1>20, LeaveIs
  <2>3. IsSeq(w.g[L + 2].stmts) /\ w.g[L + 2] = Block(w.g[L + 2].stmts, w.g[L + 2].term)
    <3>1. IsSeq(rest)
      BY <1>15
    <3> QED BY SMTT(30), <3>1, <1>20, BlockIs
  <2>4. IsSeq(w.g[L + 3].stmts) /\ w.g[L + 3] = Block(w.g[L + 3].stmts, w.g[L + 3].term)
    BY <1>20, LeaveIs
  <2> QED BY <2>1, <2>2, <2>3, <2>4, <1>22, <1>29, <1>30
<1>33. b # RegionOf(r).begin[1] /\ Is(w.g, role2, b, At(c, ResumesAt(r.body[c], PointsOf(r, c), n + 1)))
  <2>1. b \in DOMAIN w.g
    BY <1>9, <1>22, <1>24
  <2> QED BY <2>1, <1>3, <1>4, <1>5, <1>12, <1>16, <1>28 DEF Is
<1>34. Recut(r, c, m, role, n, b, w, role2, 3, b)
  BY <1>1, <1>20, <1>23, <1>28, <1>31, <1>32, <1>33 DEF Recut
<1>35. Cutting(r, c, g0, ro, w, role2, n + 1)
  BY <1>34, RecutGrows
<1> QED BY <1>35

\* ... and the cut at a guard behind others.
LEMMA CutBehindKeeps ==
    ASSUME NEW r, NEW c, NEW g0, NEW ro, Ready(r, c, g0, ro),
           NEW m, NEW role, NEW n \in Nat, Cutting(r, c, g0, ro, m, role, n),
           n + 1 <= Len(PointsOf(r, c)),
           NEW b \in 1 .. Len(g0), NEW i, NEW s, NEW at, NEW t,
           AtCut(r, c, g0, m, role, n, b, i, s, at, t), s[i].op = "GuardedRecv", i # 1,
           NEW w, w = CutGuard(m, PointsOf(r, c)[n + 1], n + 1, Len(g0) + 2)
    PROVE  \E role2 : Cutting(r, c, g0, ro, w, role2, n + 1)
<1>1. PICK L : L = Len(m.g)
  OBVIOUS
<1>2. PICK exit : exit = Len(g0) + 2
  OBVIOUS
<1>3. PICK h : h = RegionOf(r).begin[1]
  OBVIOUS
<1>4. PICK pts : pts = PointsOf(r, c)
  OBVIOUS
<1>5. PICK src : src = r.body[c]
  OBVIOUS
<1>6. PICK q : q = Skips(r, b)
  OBVIOUS
<1>7. PICK x : x = pts[n + 1]
  OBVIOUS
<1>8. /\ CanCut(m, x, L, b, s, Goto(t), i) /\ x[3] = s[i] /\ PointAt(src, pts, n + 1, i, s, at)
      /\ Text(src, s, at) /\ s[i].op \in Suspensions /\ s = r.cfg[b].stmts
      /\ q \in 0 .. i - 1 /\ role[b] = At(c, at[q + 1])
      /\ t # h /\ Is(m.g, role, t, At(c, at[Len(s) + 1]))
      /\ n + 1 \in 1 .. Len(pts) /\ n + 1 # DONE_STATE
      /\ h \in 1 .. L /\ exit \in 1 .. L /\ Is(m.g, role, exit, Exits(c)) /\ DOMAIN m.g = 1 .. L
  BY <1>1, <1>2, <1>3, <1>4, <1>5, <1>6, <1>7 DEF AtCut
<1>9. L \in Nat /\ b \in 1 .. L /\ i \in 1 .. Len(s)
  BY <1>8 DEF CanCut
<1>10. PICK j0 : j0 = at[i]
  OBVIOUS
<1>11. PICK y : y = Len(s)
  OBVIOUS
<1>12. /\ at[i + 1] = j0 + 1 /\ j0 \in 0 .. Len(src) - 1 /\ j0 \in 0 .. Len(src) /\ ResumesAt(src, pts, n + 1) = j0
       /\ y \in Nat /\ i \in 1 .. y /\ q + 1 \in 1 .. y + 1 /\ y + 1 \in 1 .. y + 1
       /\ at[q + 1] \in 0 .. Len(src) /\ at[y + 1] \in 0 .. Len(src)
  <2>1. /\ at[i + 1] = at[i] + 1 /\ at[i] \in 0 .. Len(src) - 1
        /\ ResumesAt(src, pts, n + 1) = IF s[i].op = "GuardedRecv" THEN at[i] ELSE at[i] + 1
        /\ Len(src) \in Nat /\ y \in Nat /\ i \in 1 .. y
        /\ \A z \in 1 .. y + 1 : at[z] \in 0 .. Len(src)
    BY <1>8, <1>11 DEF PointAt
  <2>a. q \in 0 .. i - 1
    BY <1>8
  <2>b. y \in Nat /\ i \in 1 .. y
    BY <2>1
  <2>2. q + 1 \in 1 .. y + 1 /\ y + 1 \in 1 .. y + 1
    BY <2>a, <2>b
  <2>3. at[q + 1] \in 0 .. Len(src) /\ at[y + 1] \in 0 .. Len(src)
    BY <2>1, <2>2
  <2>4. j0 \in 0 .. Len(src) - 1 /\ j0 \in 0 .. Len(src)
    BY <2>1, <1>10
  <2> QED BY <2>1, <2>2, <2>3, <2>4, <1>10
<1>13. /\ src[j0 + 1][1] = "GuardedRecv" /\ src[j0 + 1][2] = s[i].arg
       /\ [s[i] EXCEPT !.op = "Recv"] = Operation("Recv", src[j0 + 1][2], j0 + 1)
  <2>1. s[i] = Operation(s[i].op, src[j0 + 1][2], j0 + 1) /\ src[j0 + 1][1] = s[i].op
    BY <1>8, <1>10 DEF PointAt
  <2>3. s[i].arg = src[j0 + 1][2]
    BY <2>1, RecvIs
  <2>4. [s[i] EXCEPT !.op = "Recv"] = Operation("Recv", src[j0 + 1][2], j0 + 1)
    <3>1. PICK o : o = s[i].op
      OBVIOUS
    <3>2. PICK p : p = src[j0 + 1][2]
      OBVIOUS
    <3>3. PICK v : v = s[i]
      OBVIOUS
    <3>4. v = Operation(o, p, j0 + 1)
      BY <2>1, <3>1, <3>2, <3>3
    <3>5. [v EXCEPT !.op = "Recv"] = Operation("Recv", p, j0 + 1)
      BY <3>4, RecvIs
    <3> QED BY <3>2, <3>3, <3>5, Zenon
  <2> QED BY <2>1, <2>3, <2>4
<1>14. PICK rest : rest = Resumed(s, i)
  OBVIOUS
<1>15. /\ IsSeq(rest) /\ Len(rest) > 1 /\ rest[1] = Assign("progress", 1)
       /\ rest[2] = Operation("Recv", src[j0 + 1][2], j0 + 1)
       /\ Reads(src, rest, 2, j0 + 1, at[y + 1]) /\ Puts(src, j0 + 1, at[y + 1])
  <2>1. Text(src, s, at) /\ s[i].op \in Suspensions
    BY <1>8
  <2>2. i \in 1 .. Len(s)
    BY <1>9
  <2>3. /\ IsSeq(rest) /\ Len(rest) > 1 /\ rest[1] = Assign("progress", 1)
        /\ rest[2] = [s[i] EXCEPT !.op = "Recv"]
        /\ Reads(src, rest, 2, at[i + 1], at[Len(s) + 1])
    BY SMTT(30), <2>1, <2>2, <1>14, PassingReads
  <2>4. Puts(src, at[i + 1], at[Len(s) + 1])
    BY <2>1, <2>2, RestReads
  <2> QED BY <2>3, <2>4, <1>11, <1>12, <1>13
<1>16. PICK front : front = SubSeq(s, 1, i - 1)
  OBVIOUS
<1>17. /\ Reads(src, front, q, at[q + 1], j0) /\ Puts(src, at[q + 1], j0)
       /\ IsSeq(front) /\ Len(front) = i - 1
       /\ \A z \in 1 .. i - 1 : front[z] = s[z]
  <2>1. Text(src, s, at) /\ s[i].op \in Suspensions /\ q \in 0 .. i - 1
    BY <1>8
  <2>2. i \in 1 .. Len(s)
    BY <1>9
  <2>3. /\ Reads(src, SubSeq(s, 1, i - 1), q, at[q + 1], at[i])
        /\ Puts(src, at[q + 1], at[i])
        /\ IsSeq(SubSeq(s, 1, i - 1)) /\ Len(SubSeq(s, 1, i - 1)) = i - 1
        /\ \A z \in 1 .. i - 1 : SubSeq(s, 1, i - 1)[z] = s[z]
    BY <2>1, <2>2, FrontReads
  <2> QED BY <2>3, <1>10, <1>16
<1>19. BehindDone(m, w, L, b, s, Goto(t), i, n + 1, exit)
  <2>1. w = CutGuard(m, x, n + 1, exit)
    BY <1>2, <1>4, <1>7
  <2>2. BehindDone(m, CutGuard(m, x, n + 1, exit), L, b, s, Goto(t), i, n + 1, exit)
    <3>1. CanCut(m, x, L, b, s, Goto(t), i)
      BY <1>8
    <3> QED BY <3>1, CutGuardBehind
  <2> QED BY <2>1, <2>2
<1>20. /\ IsSeq(w.g) /\ Len(w.g) = L + 4
       /\ w.g[b] = Block(front, Goto(L + 2))
       /\ w.g[L + 2] = Block(<< >>, Branch(s[i].arg, L + 3, L + 4))
       /\ w.g[L + 1] = LeaveBlock(n + 1, "PENDING", exit)
       /\ w.g[L + 3] = Block(rest, Goto(t))
       /\ w.g[L + 4] = LeaveBlock(n + 1, "BLOCKED", exit)
       /\ \A a \in 1 .. L : a # b => w.g[a] = m.g[a]
       /\ w.entries = Append(m.entries, L + 2)
  BY <1>14, <1>16, <1>19 DEF BehindDone
<1>21. PICK role2 : role2 = [a \in 1 .. L + 4 |-> IF a <= L THEN role[a] ELSE IF a = L + 1 THEN Out(c, n + 1, "PENDING") ELSE IF a = L + 2 THEN At(c, j0) ELSE IF a = L + 3 THEN Let(c, j0) ELSE Out(c, n + 1, "BLOCKED")]
  OBVIOUS
<1>22. /\ L + 1 \in 1 .. L + 4 /\ ~(L + 1 <= L) /\ L + 2 \in 1 .. L + 4 /\ ~(L + 2 <= L) /\ L + 3 \in 1 .. L + 4 /\ ~(L + 3 <= L) /\ L + 4 \in 1 .. L + 4 /\ ~(L + 4 <= L)
       /\ L + 1 # L + 2 /\ L + 1 # L + 3 /\ L + 1 # L + 4 /\ L + 2 # L + 1 /\ L + 2 # L + 3 /\ L + 2 # L + 4 /\ L + 3 # L + 1 /\ L + 3 # L + 2 /\ L + 3 # L + 4 /\ L + 4 # L + 1 /\ L + 4 # L + 2 /\ L + 4 # L + 3
       /\ (\A a \in 1 .. L : a \in 1 .. L + 4 /\ a <= L /\ a # L + 1 /\ a # L + 2 /\ a # L + 3 /\ a # L + 4)
       /\ \A a \in L + 1 .. L + 4 : a = L + 1 \/ a = L + 2 \/ a = L + 3 \/ a = L + 4
  BY <1>9, FourMore
<1>23. /\ \A a \in 1 .. L : role2[a] = role[a]
       /\ role2[L + 1] = Out(c, n + 1, "PENDING") /\ role2[L + 2] = At(c, j0) /\ role2[L + 3] = Let(c, j0) /\ role2[L + 4] = Out(c, n + 1, "BLOCKED")
  BY <1>21, <1>22
<1>24. Extends(m.g, role, w.g, role2) /\ DOMAIN w.g = 1 .. L + 4
  <2>1. DOMAIN m.g = 1 .. L /\ IsSeq(w.g) /\ Len(w.g) = L + 4 /\ L \in Nat
        /\ \A a \in 1 .. L : role2[a] = role[a]
    BY <1>8, <1>9, <1>20, <1>23
  <2>2. DOMAIN w.g = 1 .. L + 4
    BY <2>1, Bounds
  <2>3. 1 .. L \subseteq 1 .. L + 4
    BY <1>22
  <2> QED BY <2>1, <2>2, <2>3 DEF Extends
<1>25. h # L + 1 /\ h # L + 2 /\ h # L + 3 /\ h # L + 4
  BY <1>8, <1>22
<1>26. Is(w.g, role2, exit, Exits(c)) /\ Is(w.g, role2, t, At(c, at[y + 1]))
  BY <1>8, <1>11, <1>24, IsKeeps
<1>27. Is(w.g, role2, L + 1, Out(c, n + 1, "PENDING")) /\ Is(w.g, role2, L + 2, At(c, j0)) /\ Is(w.g, role2, L + 3, Let(c, j0)) /\ Is(w.g, role2, L + 4, Out(c, n + 1, "BLOCKED"))
  BY <1>22, <1>23, <1>24 DEF Is
<1>28. Frag(r, c, w.g, role2, b)
  <2>1. Leads(c, src, pts, w.g, role2, at[q + 1], j0, Goto(L + 2))
    BY <1>17, <1>27, GotoIs DEF Leads
  <2>2. Goto(L + 2).to # h
    BY <1>25, GotoIs
  <2>3. role2[b] = At(c, at[q + 1])
    BY <1>8, <1>9, <1>23
  <2>4. q <= Len(front)
    BY <1>8, <1>12, <1>17
  <2> QED BY <2>1, <2>2, <2>3, <2>4, <1>3, <1>4, <1>5, <1>6, <1>12, <1>17, <1>20, FragAt
<1>g. Frag(r, c, w.g, role2, L + 2)
  <2>2. L + 2 # RegionOf(r).begin[1] /\ w.g[L + 2] = Block(<< >>, Branch(s[i].arg, L + 3, L + 4))
    BY <1>3, <1>25, <1>20
  <2>3. r.body[c][j0 + 1][1] = "GuardedRecv" /\ r.body[c][j0 + 1][2] = s[i].arg
        /\ j0 \in 0 .. Len(r.body[c]) - 1
    BY <1>5, <1>12, <1>13
  <2>4. n + 1 \in 1 .. Len(PointsOf(r, c)) /\ ResumesAt(r.body[c], PointsOf(r, c), n + 1) = j0
    BY <1>4, <1>5, <1>8, <1>12
  <2>5. Is(w.g, role2, L + 3, Let(c, j0)) /\ Is(w.g, role2, L + 4, Out(c, n + 1, "BLOCKED"))
    BY <1>27
  <2>6. role2[L + 2] = At(c, j0)
    BY <1>23
  <2> QED BY <2>2, <2>3, <2>4, <2>5, <2>6, FragGuard
<1>29. Frag(r, c, w.g, role2, L + 1) /\ Frag(r, c, w.g, role2, L + 4)
  <2>1. ("PENDING" = "READY") = (n + 1 = DONE_STATE) /\ ("BLOCKED" = "READY") = (n + 1 = DONE_STATE)
    BY <1>8
  <2>2. n + 1 \in 1 .. Len(PointsOf(r, c))
    BY <1>4, <1>8
  <2>3. Frag(r, c, w.g, role2, L + 1)
    BY <2>1, <2>2, <1>20, <1>23, <1>26, FragOut
  <2>4. Frag(r, c, w.g, role2, L + 4)
    BY <2>1, <2>2, <1>20, <1>23, <1>26, FragOut
  <2> QED BY <2>3, <2>4
<1>30. Frag(r, c, w.g, role2, L + 3)
  <2>1. Leads(c, src, pts, w.g, role2, j0 + 1, at[y + 1], Goto(t))
    BY <1>15, <1>26, GotoIs DEF Leads
  <2>2. Goto(t).to # RegionOf(r).begin[1]
    BY <1>3, <1>8, GotoIs
  <2>3. j0 \in 0 .. Len(r.body[c]) - 1 /\ at[y + 1] \in 0 .. Len(r.body[c])
    BY <1>5, <1>12
  <2>4. role2[L + 3] = Let(c, j0) /\ w.g[L + 3] = Block(rest, Goto(t))
    BY <1>20, <1>23
  <2>5. r.body[c][j0 + 1][1] = "GuardedRecv" /\ rest[2] = Operation("Recv", r.body[c][j0 + 1][2], j0 + 1)
        /\ Len(rest) > 1 /\ rest[1] = Assign("progress", 1)
        /\ Reads(r.body[c], rest, 2, j0 + 1, at[y + 1])
    BY <1>5, <1>13, <1>15
  <2>6. Leads(c, r.body[c], PointsOf(r, c), w.g, role2, j0 + 1, at[y + 1], Goto(t))
    BY <2>1, <1>4, <1>5
  <2> QED BY <2>2, <2>3, <2>4, <2>5, <2>6, FragLet
<1>31. Marked(r, w.g, b) /\ IsSeq(w.g[b].stmts) /\ w.g[b] = Block(w.g[b].stmts, w.g[b].term)
  <2>1. w.g[b].stmts = front /\ w.g[b] = Block(w.g[b].stmts, w.g[b].term)
    BY SMTT(30), <1>20, BlockIs
  <2> QED BY <2>1, <1>8, <1>17 DEF Marked
<1>32. \A a \in L + 1 .. L + 4 :
          /\ IsSeq(w.g[a].stmts) /\ w.g[a] = Block(w.g[a].stmts, w.g[a].term)
          /\ role2[a].who = c /\ Frag(r, c, w.g, role2, a)
  <2>1. role2[L + 1].who = c /\ role2[L + 2].who = c /\ role2[L + 3].who = c /\ role2[L + 4].who = c
    BY <1>23, WhoIs
  <2>2. IsSeq(w.g[L + 1].stmts) /\ w.g[L + 1] = Block(w.g[L + 1].stmts, w.g[L + 1].term)
    BY <1>20, LeaveIs
  <2>3. IsSeq(w.g[L + 3].stmts) /\ w.g[L + 3] = Block(w.g[L + 3].stmts, w.g[L + 3].term)
    <3>1. IsSeq(rest)
      BY <1>15
    <3> QED BY SMTT(30), <3>1, <1>20, BlockIs
  <2>4. IsSeq(w.g[L + 4].stmts) /\ w.g[L + 4] = Block(w.g[L + 4].stmts, w.g[L + 4].term)
    BY <1>20, LeaveIs
  <2>5. IsSeq(w.g[L + 2].stmts) /\ w.g[L + 2] = Block(w.g[L + 2].stmts, w.g[L + 2].term)
    BY <1>20, BlockIs, SeqEmpty
  <2> QED BY <2>1, <2>2, <2>3, <2>4, <2>5, <1>g, <1>22, <1>29, <1>30
<1>33. L + 2 # RegionOf(r).begin[1] /\ Is(w.g, role2, L + 2, At(c, ResumesAt(r.body[c], PointsOf(r, c), n + 1)))
  BY <1>3, <1>4, <1>5, <1>12, <1>25, <1>27
<1>34. Recut(r, c, m, role, n, b, w, role2, 4, L + 2)
  BY <1>1, <1>20, <1>23, <1>28, <1>31, <1>32, <1>33 DEF Recut
<1>35. Cutting(r, c, g0, ro, w, role2, n + 1)
  BY <1>34, RecutGrows
<1> QED BY <1>35

\* A cut keeps what the machine is.
LEMMA CutKeeps ==
    ASSUME NEW r, NEW c, NEW g0, NEW ro, Ready(r, c, g0, ro),
           NEW m, NEW role, NEW n \in Nat, Cutting(r, c, g0, ro, m, role, n),
           n + 1 <= Len(PointsOf(r, c)),
           NEW w, w = Cut(m, PointsOf(r, c), n + 1, Len(g0) + 2)
    PROVE  \E role2 : Cutting(r, c, g0, ro, w, role2, n + 1)
<1>1. PICK b, i, s, at, t : AtPoint(r, c, m.g, role, n + 1, b, i, s, at, t) /\ b \in 1 .. Len(g0)
  BY PointReached
<1>2. AtCut(r, c, g0, m, role, n, b, i, s, at, t)
  BY <1>1, CutFinds
<1>3. PICK x : x = PointsOf(r, c)[n + 1]
  OBVIOUS
<1>4. x[3] = s[i]
  BY <1>2, <1>3 DEF AtCut
<1>5. CASE s[i].op # "GuardedRecv"
  <2>1. w = CutPlain(m, x, n + 1, Len(g0) + 2)
    BY <1>3, <1>4, <1>5 DEF Cut
  <2> QED BY <2>1, <1>1, <1>2, <1>3, <1>5, CutPlainKeeps
<1>6. CASE s[i].op = "GuardedRecv"
  <2>1. w = CutGuard(m, x, n + 1, Len(g0) + 2)
    BY <1>3, <1>4, <1>6 DEF Cut
  <2>2. CASE i = 1
    BY <2>1, <2>2, <1>1, <1>2, <1>3, <1>6, CutFirstKeeps
  <2>3. CASE i # 1
    BY <2>1, <2>3, <1>1, <1>2, <1>3, <1>6, CutBehindKeeps
  <2> QED BY <2>2, <2>3
<1> QED BY <1>5, <1>6

\* The dispatch and the exit, and no cut.
LEMMA ScaffoldIs ==
    ASSUME NEW r, NEW c, NEW g0, NEW ro, Ready(r, c, g0, ro)
    PROVE  \E role : Cutting(r, c, g0, ro, Scaffold(g0, CoroOf(r, c)), role, 0)
<1>1. IsBlocks(g0)
  BY DEF Ready
<1>2. PICK z \in Nat : z = Len(g0)
  BY <1>1, BlocksBounds
<1>3. PICK d : d = Block(<< >>, Unset)
  OBVIOUS
<1>4. PICK x : x = Block(<< >>, Leave)
  OBVIOUS
<1>5. PICK two : two = <<d, x>>
  OBVIOUS
<1>6. IsSeq(two) /\ Len(two) = 2 /\ two[1] = d /\ two[2] = x
  <2>1. two \in Seq({d, x}) /\ Len(two) = 2 /\ two[1] = d /\ two[2] = x
    BY <1>5
  <2> QED BY <2>1, SeqTyped
<1>7. PICK g : g = g0 \o two
  OBVIOUS
<1>8. /\ IsSeq(g) /\ Len(g) = z + 2 /\ g[z + 1] = d /\ g[z + 2] = x
      /\ \A a \in 1 .. z : g[a] = g0[a]
  <2>1. IsSeq(g0)
    BY <1>1, BlocksBounds
  <2>2. /\ IsSeq(g0 \o two) /\ Len(g0 \o two) = Len(g0) + Len(two)
        /\ \A a \in 1 .. Len(g0) : (g0 \o two)[a] = g0[a]
        /\ \A a \in 1 .. Len(two) : (g0 \o two)[Len(g0) + a] = two[a]
    <3>1. IsSeq(two)
      BY <1>6
    <3> QED BY <2>1, <3>1, SeqCat
  <2>3. /\ IsSeq(g) /\ Len(g) = Len(g0) + Len(two)
        /\ \A a \in 1 .. Len(g0) : g[a] = g0[a]
        /\ \A a \in 1 .. Len(two) : g[Len(g0) + a] = two[a]
    BY <2>2, <1>7, Zenon
  <2>4. 1 \in 1 .. 2 /\ 2 \in 1 .. 2
    OBVIOUS
  <2> QED BY <2>3, <2>4, <1>2, <1>6
<1>9. PICK e : e = <<CoroOf(r, c).begin[1]>>
  OBVIOUS
<1>10. IsSeq(e) /\ Len(e) = 1 /\ e[1] = CoroOf(r, c).begin[1]
  <2>1. PICK y : y = CoroOf(r, c).begin[1]
    OBVIOUS
  <2>2. e = <<y>>
    BY <2>1, <1>9
  <2>3. e \in Seq({y}) /\ Len(e) = 1 /\ e[1] = y
    BY <2>2
  <2> QED BY <2>1, <2>3, SeqTyped
<1>11. PICK m : m = Scaffold(g0, CoroOf(r, c))
  OBVIOUS
<1>12. m.g = g /\ m.entries = e
  <2>1. m = [g |-> g, entries |-> e]
    BY <1>3, <1>4, <1>5, <1>7, <1>9, <1>11 DEF Scaffold
  <2> QED BY <2>1
<1>13. PICK role : role = [a \in 1 .. z + 2 |-> IF a <= z THEN ro[a]
                                                ELSE IF a = z + 1 THEN Enters(c) ELSE Exits(c)]
  OBVIOUS
<1>14. (\A a \in 1 .. z : role[a] = ro[a]) /\ role[z + 1] = Enters(c) /\ role[z + 2] = Exits(c)
  BY <1>2, <1>13, TwoMore
<1>15. d.stmts = << >> /\ d = Block(d.stmts, d.term) /\ x.stmts = << >> /\ x.term = Leave /\ x = Block(x.stmts, x.term)
  BY <1>3, <1>4, BlockIs
<1>16. IsBlocks(g)
  <2> SUFFICES ASSUME NEW a \in 1 .. z + 2 PROVE IsSeq(g[a].stmts) /\ g[a] = Block(g[a].stmts, g[a].term)
    BY <1>8 DEF IsBlocks
  <2>1. CASE a \in 1 .. z
    <3>1. g[a] = g0[a] /\ IsSeq(g0[a].stmts) /\ g0[a] = Block(g0[a].stmts, g0[a].term)
      BY <2>1, <1>1, <1>2, <1>8 DEF IsBlocks
    <3> QED BY <3>1
  <2>2. CASE a = z + 1
    BY <2>2, <1>8, <1>15, SeqEmpty
  <2>3. CASE a = z + 2
    BY <2>3, <1>8, <1>15, SeqEmpty
  <2> QED BY <2>1, <2>2, <2>3
<1>17. \A a \in z + 2 .. z + 2 : role[a].who = c /\ Frag(r, c, g, role, a)
  <2>1. role[z + 2].who = c
    BY <1>14, WhoIs
  <2>2. Frag(r, c, g, role, z + 2)
    BY <1>8, <1>14, <1>15 DEF Frag, Fragment
  <2> QED BY <2>1, <2>2
<1>18. Cutting(r, c, g0, ro, m, role, 0)
  BY <1>2, <1>3, <1>8, <1>10, <1>12, <1>14, <1>16, <1>17 DEF Cutting
<1> QED BY <1>11, <1>18

\* All points are cut.
LEMMA AllCut ==
    ASSUME NEW r, NEW c, NEW g0, NEW ro, Ready(r, c, g0, ro)
    PROVE  \E role : Cutting(r, c, g0, ro, CutAll(g0, CoroOf(r, c), PointsOf(r, c)), role, Len(PointsOf(r, c)))
<1>1. PICK P : P = PointsOf(r, c)
  OBVIOUS
<1>2. IsSeq(P)
  BY <1>1, PointFacts DEF Ready
<1>3. PICK n \in Nat : n = Len(P)
  BY <1>2 DEF IsSeq
<1>5. DOMAIN P = 1 .. n
  BY <1>2, <1>3, Bounds
<1>7. PICK coro : coro = CoroOf(r, c)
  OBVIOUS
<1>f. PICK h : CutFold(h, g0, coro, P, n)
  BY <1>5, CutSteps
<1>8. /\ h[0] = Scaffold(g0, coro)
      /\ \A i \in 1 .. n : h[i] = Cut(h[i - 1], P, i, Len(g0) + 2)
      /\ CutAll(g0, coro, P) = h[n]
  BY <1>f DEF CutFold
<1>9. PICK S : S = {i \in 0 .. n : \E role : Cutting(r, c, g0, ro, h[i], role, i)}
  OBVIOUS
<1>10. 0 \in S
  BY <1>7, <1>8, <1>9, ScaffoldIs
<1>11. ASSUME NEW i \in 0 .. n - 1, i \in S PROVE i + 1 \in S
  <2>1. PICK role : Cutting(r, c, g0, ro, h[i], role, i)
    BY <1>9, <1>11
  <2>2. h[i + 1] = Cut(h[i], P, i + 1, Len(g0) + 2)
    <3>1. i + 1 \in 1 .. n /\ (i + 1) - 1 = i
      OBVIOUS
    <3> QED BY <3>1, <1>8
  <2>3. i \in Nat /\ i + 1 <= Len(PointsOf(r, c)) /\ i + 1 \in 0 .. n
    BY <1>1, <1>3
  <2>4. PICK w : w = h[i + 1]
    OBVIOUS
  <2>5. w = Cut(h[i], PointsOf(r, c), i + 1, Len(g0) + 2)
    BY <2>2, <2>4, <1>1
  <2>6. \E role2 : Cutting(r, c, g0, ro, w, role2, i + 1)
    BY <2>1, <2>3, <2>5, CutKeeps
  <2> QED BY <2>3, <2>4, <2>6, <1>9
<1>12. n \in S
  BY <1>10, <1>11, Upwards
<1> QED BY <1>1, <1>3, <1>7, <1>8, <1>9, <1>12

-----------------------------------------------------------------------------
(* The blocks that no cut touches.                                          *)

\* A block without a suspension is read to its end.
LEMMA WholeReads ==
    ASSUME NEW src, NEW s, NEW at, Text(src, s, at), NEW q \in 0 .. Len(s),
           \A n \in 1 .. Len(s) : s[n].op \notin Suspensions
    PROVE  /\ Reads(src, s, q, at[q + 1], at[Len(s) + 1])
           /\ Puts(src, at[q + 1], at[Len(s) + 1])
<1>1. PICK z \in Nat : z = Len(s)
  BY TextBounds
<1>2. q \in 0 .. z
  BY <1>1
<1>3. IsSeq(s) /\ IsSeq(src) /\ \A n \in 1 .. z + 1 : at[n] \in 0 .. Len(src)
  BY <1>1, TextBounds
<1>4. \A n \in 1 .. z : s[n].op \notin Suspensions
  BY <1>1
<1>5. Puts(src, at[q + 1], at[z + 1])
  <2>1. q + 1 \in 1 .. z + 1 /\ z + 1 \in 1 .. z + 1 /\ q + 1 <= z + 1 /\ \A n \in q + 1 .. (z + 1) - 1 : n \in 1 .. z
    BY <1>2
  <2> QED BY <2>1, <1>1, <1>4, TextPuts
<1>6. \A n \in q .. z : at[0 + n + 1] \in 0 .. Len(src)
  <2> TAKE n \in q .. z
  <2>1. 0 + n + 1 \in 1 .. z + 1
    BY <1>2
  <2> QED BY <2>1, <1>3
<1>7. \A n \in q + 1 .. z : Step(src, at[0 + n], s[n], at[0 + n + 1])
  <2> TAKE n \in q + 1 .. z
  <2>1. n \in 1 .. z /\ 0 + n = n /\ 0 + n + 1 = n + 1
    BY <1>2
  <2>2. Step(src, at[n], s[n], at[n + 1])
    BY <2>1, <1>1, <1>4, TextSteps
  <2> QED BY <2>1, <2>2
<1>8. Reads(src, s, q, at[0 + q + 1], at[0 + z + 1])
  <2>1. q \in 0 .. Len(s) /\ 0 \in Int
    BY <1>1, <1>2
  <2> QED BY <2>1, <1>1, <1>3, <1>6, <1>7, ReadsBy
<1>9. 0 + q + 1 = q + 1 /\ 0 + z + 1 = z + 1
  BY <1>2
<1> QED BY <1>1, <1>5, <1>8, <1>9

\* Block b, which no cut touches: what it reads and how it ends.
Untouched(r, c, b) ==
    /\ StartOf(r, b) \in 0 .. Len(r.body[c]) /\ EndOf(r, b) \in 0 .. Len(r.body[c])
    /\ Skips(r, b) \in 0 .. Len(r.cfg[b].stmts)
    /\ Reads(r.body[c], r.cfg[b].stmts, Skips(r, b), StartOf(r, b), EndOf(r, b))
    /\ Puts(r.body[c], StartOf(r, b), EndOf(r, b))

\* finish_region leaves no more statements in front than the block has.
LEMMA SkipsIs ==
    ASSUME NEW r, Regioned(r), NEW b \in 1 .. Len(r.cfg)
    PROVE  Skips(r, b) \in 0 .. Len(r.cfg[b].stmts)
<1>1. IsSeq(r.cfg[b].stmts)
  BY CfgIs DEF IsCfg
<1>2. PICK z \in Nat : z = Len(r.cfg[b].stmts)
  BY <1>1 DEF IsSeq
<1>3. Marks(r, RegionOf(r).begin)
  BY Contract
<1>4. b = RegionOf(r).begin[1] => RegionOf(r).begin[2] \in 1 .. z
  BY <1>2, <1>3 DEF Marks
<1> QED BY <1>2, <1>4 DEF Skips

\* A block without a suspension point reads on to its end.
LEMMA UntouchedIs ==
    ASSUME NEW r, Regioned(r), NEW c \in Coros, NEW b \in BlocksOf(r, c),
           \A m \in 1 .. Len(PointsOf(r, c)) : PointsOf(r, c)[m][1] # b
    PROVE  Untouched(r, c, b)
<1>1. PICK s : s = r.cfg[b].stmts
  OBVIOUS
<1>2. PICK at : at = r.at[b]
  OBVIOUS
<1>3. Text(r.body[c], s, at)
  BY <1>1, <1>2, BlockText
<1>4. b \in 1 .. Len(r.cfg)
  BY Contract
<1>5. PICK q : q = Skips(r, b)
  OBVIOUS
<1>6. PICK z \in Nat : z = Len(s)
  BY <1>3, TextBounds
<1>7. q \in 0 .. z
  BY <1>1, <1>4, <1>5, <1>6, SkipsIs
<1>8. \A i \in 1 .. Len(s) : s[i].op \notin Suspensions
  BY <1>1, PointFacts
<1>9. Reads(r.body[c], s, q, at[q + 1], at[z + 1]) /\ Puts(r.body[c], at[q + 1], at[z + 1])
  <2>1. q \in 0 .. Len(s)
    BY <1>6, <1>7
  <2> QED BY <2>1, <1>3, <1>6, <1>8, WholeReads
<1>10. q + 1 \in 1 .. z + 1 /\ z + 1 \in 1 .. z + 1
  BY <1>7
<1>11. at[q + 1] \in 0 .. Len(r.body[c]) /\ at[z + 1] \in 0 .. Len(r.body[c])
  BY <1>3, <1>6, <1>10, TextBounds
<1>12. StartOf(r, b) = at[q + 1] /\ EndOf(r, b) = at[z + 1]
  BY <1>1, <1>2, <1>5, <1>6 DEF StartOf, EndOf
<1> QED BY <1>1, <1>5, <1>6, <1>7, <1>9, <1>11, <1>12 DEF Untouched

\* A coroutine begins with nothing behind it.
LEMMA StartsAtZero ==
    ASSUME NEW r, Regioned(r), NEW c \in Coros, NEW b, b = CoroOf(r, c).begin[1]
    PROVE  StartOf(r, b) = 0 /\ b \in BlocksOf(r, c)
<1>1. b \in BlocksOf(r, c) /\ Marks(r, CoroOf(r, c).begin)
  BY Contract
<1>2. PICK p : p = CoroOf(r, c).begin[2]
  OBVIOUS
<1>3. r.at[b][p + 1] = 0 /\ p \in 1 .. Len(r.cfg[b].stmts)
  BY <1>1, <1>2, Contract DEF Marks
<1>4. CASE b = RegionOf(r).begin[1]
  <2>1. r.at[b][RegionOf(r).begin[2] + 1] = 0
    BY <1>1, <1>4, Contract
  <2> QED BY <2>1, <1>1, <1>4 DEF StartOf, Skips
<1>5. CASE b # RegionOf(r).begin[1]
  <2>1. PICK at : at = r.at[b]
    OBVIOUS
  <2>2. PICK s : s = r.cfg[b].stmts
    OBVIOUS
  <2>3. Text(r.body[c], s, at)
    BY <2>1, <2>2, <1>1, BlockText
  <2>4. PICK z \in Nat : z = Len(s)
    BY <2>3, TextBounds
  <2>5. p \in 1 .. z
    BY <2>2, <2>4, <1>3
  <2>6. 1 \in 1 .. z + 1 /\ p + 1 \in 1 .. z + 1 /\ 1 <= p + 1
    BY <2>5
  <2>7. at[1] <= at[p + 1]
    BY <2>3, <2>4, <2>6, TextGrows
  <2>8. at[1] \in 0 .. Len(r.body[c])
    BY <2>3, <2>4, <2>6, TextBounds
  <2>9. at[1] = 0
    BY <2>1, <2>7, <2>8, <1>3
  <2>10. StartOf(r, b) = at[0 + 1]
    BY <2>1, <1>5 DEF StartOf, Skips
  <2> QED BY <2>9, <2>10, <1>1
<1> QED BY <1>4, <1>5

-----------------------------------------------------------------------------
(* build_state_machine. *)

\* The dispatch of a coroutine with suspension points.
ArmsOf(e) == {<<i - 1, e[i]>> : i \in DOMAIN e}

\* The switch that build_state_machine makes.
LEMMA ArmsAre ==
    ASSUME NEW e, NEW n \in Nat, DOMAIN e = 1 .. n + 1, NEW exit, NEW t,
           t = Switch(ArmsOf(e), exit)
    PROVE  OneTarget(t) /\ t.kind = "switch" /\ \A i \in 0 .. n : SwitchTo(t, i) = e[i + 1]
<1>1. PICK A : A = {<<i - 1, e[i]>> : i \in 1 .. n + 1}
  OBVIOUS
<1>2. t.arms = A /\ t.kind = "switch"
  BY <1>1 DEF Switch, ArmsOf
<1>3. \A x \in A : \E i \in 1 .. n + 1 : x[1] = i - 1 /\ x[2] = e[i]
  BY <1>1
<1>4. OneTarget(t)
  <2> SUFFICES ASSUME NEW x \in A, NEW y \in A, x[1] = y[1] PROVE x[2] = y[2]
    BY <1>2 DEF OneTarget
  <2>1. PICK i \in 1 .. n + 1 : x[1] = i - 1 /\ x[2] = e[i]
    BY <1>3
  <2>2. PICK j \in 1 .. n + 1 : y[1] = j - 1 /\ y[2] = e[j]
    BY <1>3
  <2>3. i = j
    <3>1. i - 1 = j - 1
      BY <2>1, <2>2
    <3> QED BY <3>1
  <2> QED BY <2>1, <2>2, <2>3
<1>5. ASSUME NEW i \in 0 .. n PROVE SwitchTo(t, i) = e[i + 1]
  <2>1. PICK x : x = <<i, e[i + 1]>>
    OBVIOUS
  <2>2. x \in A /\ x[1] = i /\ x[2] = e[i + 1]
    <3>1. i + 1 \in 1 .. n + 1 /\ (i + 1) - 1 = i
      OBVIOUS
    <3> QED BY <3>1, <2>1, <1>1
  <2>3. PICK y : y = (CHOOSE a \in A : a[1] = i)
    OBVIOUS
  <2>4. y \in A /\ y[1] = i
    BY <2>2, <2>3, Zenon
  <2>5. y[2] = x[2]
    BY <2>2, <2>4, <1>2, <1>4 DEF OneTarget
  <2>6. \E a \in A : a[1] = i
    BY <2>2
  <2>7. SwitchTo(t, i) = y[2]
    BY <2>3, <2>6, <1>2, Zenon DEF SwitchTo
  <2> QED BY <2>2, <2>5, <2>7
<1> QED BY <1>2, <1>4, <1>5

\* ... and of one without.
LEMMA NoArms ==
    ASSUME NEW e, NEW exit, NEW t, t = Switch({<<DONE_STATE, exit>>}, e)
    PROVE  OneTarget(t) /\ t.kind = "switch" /\ SwitchTo(t, 0) = e
<1>1. t.arms = {<<DONE_STATE, exit>>} /\ t.kind = "switch" /\ t.other = e
  BY DEF Switch
<1>2. \A a \in t.arms : a[1] # 0
  BY <1>1 DEF DONE_STATE
<1>3. OneTarget(t)
  BY <1>1 DEF OneTarget
<1> QED BY <1>1, <1>2, <1>3 DEF SwitchTo

\* The machine g with its last block y, and with new ends of blocks e and d.
Ended(g, w, y, e, t, d, u) ==
    /\ IsBlocks(w) /\ Len(w) = Len(g) + 1 /\ w[Len(g) + 1] = y
    /\ w[e] = Block(g[e].stmts, t) /\ w[d] = Block(g[d].stmts, u)
    /\ \A b \in 1 .. Len(g) : b # e /\ b # d => w[b] = g[b]

\* The end of build_state_machine: a block that reports READY, the coroutine's end that goes
\* there, and the switch.
LEMMA EndedIs ==
    ASSUME NEW g, IsBlocks(g), NEW y, IsSeq(y.stmts), y = Block(y.stmts, y.term),
           NEW e \in 1 .. Len(g), NEW d \in 1 .. Len(g), e # d, NEW t, NEW u
    PROVE  Ended(g, SetTerm(SetTerm(Append(g, y), e, t), d, u), y, e, t, d, u)
<1>1. PICK L \in Nat : L = Len(g)
  BY BlocksBounds
<1>2. PICK h : h = Append(g, y)
  OBVIOUS
<1>3. IsSeq(h) /\ Len(h) = L + 1 /\ h[L + 1] = y /\ \A b \in 1 .. L : h[b] = g[b]
  BY <1>1, <1>2, SeqAppend DEF IsBlocks
<1>4. e \in 1 .. L /\ d \in 1 .. L /\ e \in 1 .. L + 1 /\ d \in 1 .. L + 1 /\ e # L + 1 /\ d # L + 1
  BY <1>1
<1>5. \A b \in 1 .. L : IsSeq(g[b].stmts) /\ g[b] = Block(g[b].stmts, g[b].term)
  BY <1>1 DEF IsBlocks
<1>6. PICK v : v = SetTerm(h, e, t)
  OBVIOUS
<1>7. Edited(h, v, e, Block(g[e].stmts, t))
  BY <1>3, <1>4, <1>5, <1>6, SetTermIs
<1>8. /\ IsSeq(v) /\ Len(v) = L + 1 /\ v[e] = Block(g[e].stmts, t)
      /\ \A b \in 1 .. L + 1 : b # e => v[b] = h[b]
  BY <1>3, <1>7 DEF Edited
<1>9. v[d] = Block(g[d].stmts, g[d].term)
  BY <1>3, <1>4, <1>5, <1>8
<1>10. PICK w : w = SetTerm(v, d, u)
  OBVIOUS
<1>11. Edited(v, w, d, Block(g[d].stmts, u))
  BY <1>4, <1>8, <1>9, <1>10, SetTermIs
<1>12. /\ IsSeq(w) /\ Len(w) = L + 1 /\ w[d] = Block(g[d].stmts, u)
       /\ \A b \in 1 .. L + 1 : b # d => w[b] = v[b]
  BY <1>8, <1>11 DEF Edited
<1>13. L + 1 \in 1 .. L + 1 /\ \A b \in 1 .. L : b \in 1 .. L + 1
  OBVIOUS
<1>14. w[L + 1] = y /\ w[e] = Block(g[e].stmts, t)
  BY <1>3, <1>4, <1>8, <1>12, <1>13
<1>15. \A b \in 1 .. L : b # e /\ b # d => w[b] = g[b]
  BY <1>3, <1>8, <1>12, <1>13
<1>16. IsBlocks(w)
  <2> SUFFICES ASSUME NEW b \in 1 .. L + 1 PROVE IsSeq(w[b].stmts) /\ w[b] = Block(w[b].stmts, w[b].term)
    BY <1>12 DEF IsBlocks
  <2>1. CASE b = L + 1
    BY <2>1, <1>14
  <2>2. CASE b = e
    BY <2>2, <1>4, <1>5, <1>14, BlockIs
  <2>3. CASE b = d
    BY <2>3, <1>4, <1>5, <1>12, BlockIs
  <2>4. CASE b \in 1 .. L /\ b # e /\ b # d
    BY <2>4, <1>5, <1>15
  <2> QED BY <2>1, <2>2, <2>3, <2>4
<1>17. Ended(g, w, y, e, t, d, u)
  BY <1>1, <1>12, <1>14, <1>15, <1>16 DEF Ended
<1> QED BY <1>2, <1>6, <1>10, <1>17

\* The machine of coroutine c has been added to g0, and its blocks have their roles.
Made(r, c, g0, ro, g, role) ==
    /\ IsBlocks(g) /\ Len(g0) + 2 <= Len(g) /\ role[Len(g0) + 1] = Enters(c)
    /\ \A b \in 1 .. Len(g0) : role[b] = ro[b]
    /\ \A b \in 1 .. Len(g0) : b \notin BlocksOf(r, c) => g[b] = g0[b]
    /\ \A b \in Len(g0) + 1 .. Len(g) : role[b].who = c /\ Frag(r, c, g, role, b)
    /\ \A b \in BlocksOf(r, c) : Frag(r, c, g, role, b) /\ Marked(r, g, b)

\* build_state_machine makes fragments of a machine.
LEMMA BuildMakes ==
    ASSUME NEW r, NEW c, NEW g0, NEW ro, Ready(r, c, g0, ro),
           NEW w, w = BuildStateMachine(g0, CoroOf(r, c), PointsOf(r, c))
    PROVE  w.dispatch = Len(g0) + 1 /\ \E role : Made(r, c, g0, ro, w.g, role)
<1>1. PICK P : P = PointsOf(r, c)
  OBVIOUS
<1>2. PICK coro : coro = CoroOf(r, c)
  OBVIOUS
<1>3. PICK m : m = CutAll(g0, coro, P)
  OBVIOUS
<1>4. PICK role : Cutting(r, c, g0, ro, m, role, Len(P))
  BY <1>1, <1>2, <1>3, AllCut
<1>5. PICK n : n = Len(P)
  OBVIOUS
<1>6. Regioned(r) /\ c \in Coros /\ IsBlocks(g0) /\ Len(r.cfg) <= Len(g0)
      /\ \A b \in BlocksOf(r, c) : g0[b] = r.cfg[b] /\ ro[b] = At(c, StartOf(r, b))
  BY DEF Ready
<1>7. n \in Nat /\ n < DONE_STATE /\ IsSeq(P)
  BY <1>1, <1>5, <1>6, PointFacts, Contract DEF IsSeq
<1>8. PICK z \in Nat : z = Len(g0)
  BY <1>6, BlocksBounds
<1>9. PICK G : G = m.g
  OBVIOUS
<1>10. PICK e : e = m.entries
  OBVIOUS
<1>11. PICK src : src = r.body[c]
  OBVIOUS
<1>12. PICK h : h = RegionOf(r).begin[1]
  OBVIOUS
<1>13. /\ IsBlocks(G) /\ z + 2 <= Len(G) /\ IsSeq(e) /\ Len(e) = n + 1 /\ e[1] = coro.begin[1]
       /\ \A i \in 1 .. n : Is(G, role, e[i + 1], At(c, ResumesAt(src, P, i)))
       /\ G[z + 1] = Block(<< >>, Unset) /\ role[z + 1] = Enters(c) /\ role[z + 2] = Exits(c)
       /\ \A b \in 1 .. z : role[b] = ro[b]
       /\ \A b \in 1 .. z : (\A i \in 1 .. n : P[i][1] # b) => G[b] = g0[b]
       /\ \A b \in z + 2 .. Len(G) : role[b].who = c /\ Frag(r, c, G, role, b)
       /\ \A i \in 1 .. n : Frag(r, c, G, role, P[i][1]) /\ Marked(r, G, P[i][1])
  BY <1>1, <1>2, <1>4, <1>5, <1>8, <1>9, <1>10, <1>11 DEF Cutting
<1>14. PICK L \in Nat : L = Len(G)
  BY <1>13, BlocksBounds
<1>15. DOMAIN G = 1 .. L /\ DOMAIN e = 1 .. n + 1
  BY <1>13, <1>14, BlocksBounds, Bounds
<1>16. PICK fin : fin = coro.end[1]
  OBVIOUS
<1>17. fin \in BlocksOf(r, c)
  BY <1>2, <1>6, <1>16, Contract
<1>18. \A b \in BlocksOf(r, c) : b \in 1 .. Len(r.cfg)
  BY <1>6, Contract
<1>19. PICK N0 \in Nat : N0 = Len(r.cfg)
  BY <1>6, CfgIs DEF IsCfg, IsSeq
<1>20. N0 <= z /\ z + 2 <= L
  BY <1>6, <1>8, <1>13, <1>14, <1>19
<1>21. \A b \in BlocksOf(r, c) : b \in 1 .. z /\ b \in 1 .. L /\ b # z + 1
  BY <1>18, <1>19, <1>20
<1>22. z + 1 \in 1 .. L /\ z + 2 \in 1 .. L /\ z + 1 # fin /\ fin \in 1 .. L
  BY <1>17, <1>20, <1>21
<1>23. PICK y : y = LeaveBlock(DONE_STATE, "READY", z + 2)
  OBVIOUS
<1>24. IsSeq(y.stmts) /\ y = Block(y.stmts, y.term)
  BY <1>23, LeaveIs
<1>25. PICK arms : arms = IF P = << >> THEN Switch({<<DONE_STATE, z + 2>>}, coro.begin[1])
                          ELSE Switch({<<i - 1, e[i]>> : i \in DOMAIN e}, z + 2)
  OBVIOUS
<1>26. w.dispatch = z + 1 /\ w.g = SetTerm(SetTerm(Append(G, y), fin, Goto(L + 1)), z + 1, arms)
  <2>1. Len(Append(G, y)) = L + 1
    BY <1>13, <1>14, SeqAppend DEF IsBlocks
  <2>2. PICK done : done = Append(G, y)
    OBVIOUS
  <2>3. w = [g |-> SetTerm(SetTerm(done, fin, Goto(Len(done))), z + 1, arms), dispatch |-> z + 1]
    BY <2>2, <1>1, <1>2, <1>3, <1>8, <1>9, <1>10, <1>16, <1>23, <1>25 DEF BuildStateMachine
  <2>4. w.dispatch = z + 1 /\ w.g = SetTerm(SetTerm(done, fin, Goto(Len(done))), z + 1, arms)
    BY <2>3
  <2> QED BY <2>1, <2>2, <2>4
<1>27. PICK g : g = w.g
  OBVIOUS
<1>28. Ended(G, g, y, fin, Goto(L + 1), z + 1, arms)
  <2>1. fin \in 1 .. Len(G) /\ z + 1 \in 1 .. Len(G) /\ fin # z + 1
    BY <1>14, <1>22
  <2>2. Ended(G, SetTerm(SetTerm(Append(G, y), fin, Goto(L + 1)), z + 1, arms), y, fin, Goto(L + 1), z + 1, arms)
    BY <2>1, <1>13, <1>24, EndedIs
  <2> QED BY <2>2, <1>26, <1>27
<1>29. /\ IsBlocks(g) /\ Len(g) = L + 1 /\ g[L + 1] = y
       /\ g[fin] = Block(G[fin].stmts, Goto(L + 1)) /\ g[z + 1] = Block(G[z + 1].stmts, arms)
       /\ \A b \in 1 .. L : b # fin /\ b # z + 1 => g[b] = G[b]
  BY <1>14, <1>28 DEF Ended
<1>30. PICK role2 : role2 = [a \in 1 .. L + 1 |-> IF a <= L THEN role[a] ELSE Out(c, DONE_STATE, "READY")]
  OBVIOUS
<1>31. L + 1 \in 1 .. L + 1 /\ ~(L + 1 <= L) /\ \A a \in 1 .. L : a \in 1 .. L + 1 /\ a <= L /\ a # L + 1
  OBVIOUS
<1>32. (\A a \in 1 .. L : role2[a] = role[a]) /\ role2[L + 1] = Out(c, DONE_STATE, "READY")
  BY <1>30, <1>31
<1>33. DOMAIN g = 1 .. L + 1
  BY <1>29, BlocksBounds
<1>34. Extends(G, role, g, role2)
  BY <1>15, <1>31, <1>32, <1>33 DEF Extends
<1>35. /\ \A b \in 1 .. z : role2[b] = ro[b]
       /\ role2[z + 1] = Enters(c) /\ role2[z + 2] = Exits(c)
  <2>1. \A b \in 1 .. z : b \in 1 .. L
    BY <1>20
  <2> QED BY <2>1, <1>13, <1>22, <1>32
<1>36. Is(g, role2, z + 2, Exits(c)) /\ Is(g, role2, L + 1, Out(c, DONE_STATE, "READY"))
  BY <1>22, <1>31, <1>32, <1>33, <1>35 DEF Is
<1>37. ASSUME NEW b \in 1 .. L, b # fin, b # z + 1, Frag(r, c, G, role, b) PROVE Frag(r, c, g, role2, b)
  <2>1. b \in DOMAIN G /\ g[b] = G[b]
    BY <1>15, <1>29, <1>37
  <2>2. PICK p : p = RegionOf(r).begin[2]
    OBVIOUS
  <2>3. Fragment(c, src, P, G, role, h, p, b)
    BY <2>2, <1>1, <1>11, <1>12, <1>37 DEF Frag
  <2>4. Fragment(c, src, P, g, role2, h, p, b)
    BY <2>1, <2>3, <1>34, FragmentKeeps
  <2> QED BY <2>2, <2>4, <1>1, <1>11, <1>12 DEF Frag
<1>38. h \in 1 .. N0 /\ h # L + 1
  <2>1. h \in 1 .. N0
    BY <1>6, <1>12, <1>19, Contract DEF Marks
  <2> QED BY <2>1, <1>20
<1>39. Frag(r, c, g, role2, L + 1)
  <2>1. ("READY" = "READY") = (DONE_STATE = DONE_STATE) /\ DONE_STATE \in 1 .. Len(PointsOf(r, c)) \cup {DONE_STATE}
    OBVIOUS
  <2>2. g[L + 1] = LeaveBlock(DONE_STATE, "READY", z + 2)
    BY <1>23, <1>29
  <2> QED BY <2>1, <2>2, <1>32, <1>36, FragOut
<1>40. \A i \in 1 .. n : P[i][1] # fin
  <2> SUFFICES ASSUME NEW i \in 1 .. n PROVE P[i][1] # fin
    OBVIOUS
  <2>1. PICK b, j : P[i] = Place(r.cfg, b, j) /\ Suspends(r, c, b, j)
    BY <1>1, <1>5, <1>6, PointFacts
  <2>2. b # fin
    BY <2>1, <1>2, <1>6, <1>16, SuspendsInside
  <2>3. P[i][1] = b
    BY <2>1 DEF Place
  <2> QED BY <2>2, <2>3
<1>41. ASSUME NEW b \in BlocksOf(r, c), \A i \in 1 .. n : P[i][1] # b
       PROVE  /\ G[b] = r.cfg[b] /\ role2[b] = At(c, StartOf(r, b)) /\ Untouched(r, c, b)
              /\ r.cfg[b] = Block(r.cfg[b].stmts, r.cfg[b].term)
  <2>1. b \in 1 .. z /\ b \in 1 .. L /\ b \in 1 .. Len(r.cfg)
    BY <1>18, <1>21
  <2>2. G[b] = g0[b]
    BY <2>1, <1>13, <1>41
  <2>3. g0[b] = r.cfg[b] /\ ro[b] = At(c, StartOf(r, b))
    BY <1>6
  <2>4. role2[b] = ro[b]
    BY <2>1, <1>35
  <2>5. Untouched(r, c, b)
    BY <1>1, <1>5, <1>6, <1>41, UntouchedIs
  <2>6. r.cfg[b] = Block(r.cfg[b].stmts, r.cfg[b].term)
    BY <2>1, <1>6, CfgIs
  <2> QED BY <2>2, <2>3, <2>4, <2>5, <2>6
<1>42. Frag(r, c, g, role2, fin) /\ Marked(r, g, fin)
  <2>1. PICK s : s = r.cfg[fin].stmts
    OBVIOUS
  <2>2. G[fin].stmts = s /\ role2[fin] = At(c, StartOf(r, fin)) /\ Untouched(r, c, fin)
    BY <2>1, <1>17, <1>40, <1>41
  <2>3. g[fin] = Block(s, Goto(L + 1))
    BY <2>2, <1>29
  <2>4. EndOf(r, fin) = Len(r.body[c])
    BY <1>2, <1>6, <1>16, <1>17, ContractBlock
  <2>5. /\ StartOf(r, fin) \in 0 .. Len(r.body[c]) /\ EndOf(r, fin) \in 0 .. Len(r.body[c])
        /\ Skips(r, fin) \in 0 .. Len(s)
        /\ Reads(r.body[c], s, Skips(r, fin), StartOf(r, fin), EndOf(r, fin))
    BY <2>1, <2>2 DEF Untouched
  <2>6. Leads(c, r.body[c], PointsOf(r, c), g, role2, StartOf(r, fin), EndOf(r, fin), Goto(L + 1))
    BY <2>4, <1>36, GotoIs DEF Leads
  <2>7. Goto(L + 1).to # RegionOf(r).begin[1]
    BY <1>12, <1>38, GotoIs
  <2>8. Skips(r, fin) <= Len(s)
    <3>1. IsSeq(s)
      BY <2>1, <1>6, <1>17, <1>18, CfgIs DEF IsCfg
    <3>2. PICK l \in Nat : l = Len(s)
      BY <3>1 DEF IsSeq
    <3>3. Skips(r, fin) \in 0 .. l
      BY <2>5, <3>2
    <3> QED BY <3>2, <3>3
  <2>9. Frag(r, c, g, role2, fin)
    BY <2>2, <2>3, <2>5, <2>6, <2>7, <2>8, FragAt
  <2>10. Marked(r, g, fin)
    BY <2>1, <2>3, BlockIs DEF Marked
  <2> QED BY <2>9, <2>10
<1>43. ASSUME NEW b \in BlocksOf(r, c), b # fin, \A i \in 1 .. n : P[i][1] # b
       PROVE  Frag(r, c, g, role2, b) /\ Marked(r, g, b)
  <2>1. PICK s : s = r.cfg[b].stmts
    OBVIOUS
  <2>2. PICK t \in BlocksOf(r, c) :
           t # RegionOf(r).begin[1] /\ r.cfg[b].term = Goto(t) /\ StartOf(r, t) = EndOf(r, b)
    BY <1>2, <1>6, <1>16, <1>43, ContractBlock
  <2>3. g[b] = G[b]
    BY <1>21, <1>29, <1>43
  <2>4. g[b] = Block(s, Goto(t)) /\ role2[b] = At(c, StartOf(r, b)) /\ Untouched(r, c, b)
    BY <2>1, <2>2, <2>3, <1>41, <1>43
  <2>5. /\ StartOf(r, b) \in 0 .. Len(r.body[c]) /\ EndOf(r, b) \in 0 .. Len(r.body[c])
        /\ Skips(r, b) \in 0 .. Len(s)
        /\ Reads(r.body[c], s, Skips(r, b), StartOf(r, b), EndOf(r, b))
        /\ Puts(r.body[c], StartOf(r, b), EndOf(r, b))
    BY <2>1, <2>4 DEF Untouched
  <2>6. Is(g, role2, t, At(c, EndOf(r, b)))
    <3>1. t \in 1 .. z /\ t \in 1 .. L
      BY <1>21
    <3>2. role2[t] = At(c, StartOf(r, t))
      BY <3>1, <1>6, <1>35
    <3>3. t \in DOMAIN g
      BY <3>1, <1>31, <1>33
    <3> QED BY <3>2, <3>3, <2>2 DEF Is
  <2>7. Leads(c, r.body[c], PointsOf(r, c), g, role2, StartOf(r, b), EndOf(r, b), Goto(t))
    BY <2>5, <2>6, GotoIs DEF Leads
  <2>8. Goto(t).to # RegionOf(r).begin[1]
    BY <2>2, GotoIs
  <2>9. Skips(r, b) <= Len(s)
    <3>1. IsSeq(s)
      BY <2>1, <1>6, <1>18, CfgIs DEF IsCfg
    <3>2. PICK l \in Nat : l = Len(s)
      BY <3>1 DEF IsSeq
    <3>3. Skips(r, b) \in 0 .. l
      BY <2>5, <3>2
    <3> QED BY <3>2, <3>3
  <2>10. Frag(r, c, g, role2, b)
    BY <2>4, <2>5, <2>7, <2>8, <2>9, FragAt
  <2>11. Marked(r, g, b)
    BY <2>1, <2>4, BlockIs DEF Marked
  <2> QED BY <2>10, <2>11
<1>44. ASSUME NEW i \in 1 .. n PROVE Frag(r, c, g, role2, P[i][1]) /\ Marked(r, g, P[i][1])
  <2>1. PICK b : b = P[i][1]
    OBVIOUS
  <2>2. b # fin /\ b \in BlocksOf(r, c)
    BY <2>1, <1>1, <1>5, <1>6, <1>40, PointBlock
  <2>3. Frag(r, c, G, role, b) /\ Marked(r, G, b)
    BY <2>1, <1>13
  <2>4. b \in 1 .. L /\ b # z + 1
    BY <2>2, <1>21
  <2>5. Frag(r, c, g, role2, b)
    BY <2>2, <2>3, <2>4, <1>37
  <2>6. g[b] = G[b]
    BY <2>2, <2>4, <1>29
  <2>7. Marked(r, g, b)
    BY <2>3, <2>6 DEF Marked
  <2> QED BY <2>1, <2>5, <2>7
<1>45. \A b \in BlocksOf(r, c) : Frag(r, c, g, role2, b) /\ Marked(r, g, b)
  <2> SUFFICES ASSUME NEW b \in BlocksOf(r, c) PROVE Frag(r, c, g, role2, b) /\ Marked(r, g, b)
    OBVIOUS
  <2>1. CASE b = fin
    BY <2>1, <1>42
  <2>2. CASE b # fin /\ \A i \in 1 .. n : P[i][1] # b
    BY <2>2, <1>43
  <2>3. CASE \E i \in 1 .. n : P[i][1] = b
    BY <2>3, <1>44
  <2> QED BY <2>1, <2>2, <2>3
<1>46. Is(g, role2, coro.begin[1], At(c, 0))
  <2>1. PICK b : b = coro.begin[1]
    OBVIOUS
  <2>2. StartOf(r, b) = 0 /\ b \in BlocksOf(r, c)
    BY <2>1, <1>2, <1>6, StartsAtZero
  <2>3. b \in 1 .. z /\ b \in 1 .. L
    BY <2>2, <1>21
  <2>4. role2[b] = At(c, 0)
    BY <2>2, <2>3, <1>6, <1>35
  <2>5. b \in DOMAIN g
    BY <2>3, <1>31, <1>33
  <2> QED BY <2>1, <2>4, <2>5 DEF Is
<1>47. OneTarget(arms) /\ arms.kind = "switch"
       /\ \A i \in 0 .. n : Is(g, role2, SwitchTo(arms, i), At(c, ResumesAt(src, P, i)))
  <2>1. ResumesAt(src, P, 0) = 0
    BY DEF ResumesAt
  <2>2. CASE P = << >>
    <3>1. arms = Switch({<<DONE_STATE, z + 2>>}, coro.begin[1])
      BY <2>2, <1>25
    <3>2. OneTarget(arms) /\ arms.kind = "switch" /\ SwitchTo(arms, 0) = coro.begin[1]
      BY <3>1, NoArms
    <3>3. n = 0
      BY <2>2, <1>5
    <3>4. \A i \in 0 .. n : i = 0
      BY <3>3
    <3> QED BY <3>2, <3>4, <2>1, <1>46
  <2>3. CASE P # << >>
    <3>1. arms = Switch(ArmsOf(e), z + 2)
      BY <2>3, <1>25 DEF ArmsOf
    <3>2. OneTarget(arms) /\ arms.kind = "switch" /\ \A i \in 0 .. n : SwitchTo(arms, i) = e[i + 1]
      BY <3>1, <1>7, <1>15, ArmsAre
    <3>3. ASSUME NEW i \in 0 .. n PROVE Is(g, role2, e[i + 1], At(c, ResumesAt(src, P, i)))
      <4>1. CASE i = 0
        <5>1. e[i + 1] = coro.begin[1]
          BY <4>1, <1>13
        <5> QED BY <5>1, <4>1, <2>1, <1>46
      <4>2. CASE i \in 1 .. n
        <5>1. Is(G, role, e[i + 1], At(c, ResumesAt(src, P, i)))
          BY <4>2, <1>13
        <5> QED BY <5>1, <1>34, IsKeeps
      <4> QED BY <4>1, <4>2, <1>7
    <3> QED BY <3>2, <3>3
  <2> QED BY <2>2, <2>3
<1>48. Frag(r, c, g, role2, z + 1)
  <2>1. g[z + 1].stmts = << >> /\ g[z + 1].term = arms
    BY <1>13, <1>29, BlockIs
  <2>2. \A i \in 0 .. Len(PointsOf(r, c)) :
           Is(g, role2, SwitchTo(arms, i), At(c, ResumesAt(r.body[c], PointsOf(r, c), i)))
    BY <1>1, <1>5, <1>11, <1>47
  <2> QED BY <2>1, <2>2, <1>35, <1>47 DEF Frag, Fragment
<1>49. \A b \in z + 1 .. L + 1 : role2[b].who = c /\ Frag(r, c, g, role2, b)
  <2> SUFFICES ASSUME NEW b \in z + 1 .. L + 1 PROVE role2[b].who = c /\ Frag(r, c, g, role2, b)
    OBVIOUS
  <2>1. CASE b = z + 1
    BY <2>1, <1>35, <1>48, WhoIs
  <2>2. CASE b = L + 1
    BY <2>2, <1>32, <1>39, WhoIs
  <2>3. CASE b \in z + 2 .. L
    <3>1. b \in 1 .. L /\ b # z + 1 /\ b # fin
      BY <2>3, <1>17, <1>21
    <3>2. role[b].who = c /\ Frag(r, c, G, role, b)
      BY <2>3, <1>13, <1>14
    <3> QED BY <3>1, <3>2, <1>32, <1>37
  <2> QED BY <2>1, <2>2, <2>3
<1>50. ASSUME NEW b \in 1 .. z, b \notin BlocksOf(r, c) PROVE g[b] = g0[b]
  <2>1. b \in 1 .. L /\ b # z + 1 /\ b # fin
    BY <1>17, <1>20, <1>50
  <2>2. \A i \in 1 .. n : P[i][1] # b
    BY <1>1, <1>5, <1>6, <1>50, PointBlock
  <2> QED BY <2>1, <2>2, <1>13, <1>29
<1>51. Made(r, c, g0, ro, g, role2)
  <2>1. z + 2 <= L + 1
    BY <1>20
  <2> QED BY <2>1, <1>8, <1>29, <1>35, <1>45, <1>49, <1>50 DEF Made
<1> QED BY <1>8, <1>26, <1>27, <1>51

-----------------------------------------------------------------------------
(* transform_region: a machine for every coroutine. *)

\* Extending a CFG keeps its fragments.
LEMMA FragKeeps ==
    ASSUME NEW g, NEW role, NEW g2, NEW role2, Extends(g, role, g2, role2), NEW b \in DOMAIN g, g2[b] = g[b],
           NEW r, NEW c, Frag(r, c, g, role, b)
    PROVE  Frag(r, c, g2, role2, b)
<1>1. PICK src : src = r.body[c]
  OBVIOUS
<1>2. PICK pts : pts = PointsOf(r, c)
  OBVIOUS
<1>3. PICK h : h = RegionOf(r).begin[1]
  OBVIOUS
<1>4. PICK p : p = RegionOf(r).begin[2]
  OBVIOUS
<1>5. Fragment(c, src, pts, g, role, h, p, b)
  BY <1>1, <1>2, <1>3, <1>4 DEF Frag
<1>6. Fragment(c, src, pts, g2, role2, h, p, b)
  BY <1>5, FragmentKeeps
<1> QED BY <1>1, <1>2, <1>3, <1>4, <1>6 DEF Frag

\* The role of a block that is no machine's.
Nowhere == Role("nowhere", 0, 0, "")

\* Block b of the CFG belongs to no coroutine.
Free(r, b) == \A d \in Coros : b \notin BlocksOf(r, d)

\* The roles that the blocks of the CFG have from the beginning.
Places(r, role) ==
    /\ \A d \in Coros : \A b \in BlocksOf(r, d) : role[b] = At(d, StartOf(r, b))
    /\ \A b \in 1 .. Len(r.cfg) : Free(r, b) => role[b] = Nowhere

\* The first n coroutines have their machines.
Machined(r, n, t, role) ==
    /\ IsBlocks(t.blocks) /\ Len(r.cfg) <= Len(t.blocks) /\ Places(r, role)
    /\ IsSeq(t.dispatch) /\ Len(t.dispatch) = n /\ IsSeq(t.points) /\ Len(t.points) = n
    /\ \A d \in 1 .. n :
          /\ t.points[d] = PointsOf(r, d) /\ Is(t.blocks, role, t.dispatch[d], Enters(d))
          /\ t.dispatch[d] > Len(r.cfg)
          /\ \A b \in BlocksOf(r, d) : Frag(r, d, t.blocks, role, b) /\ Marked(r, t.blocks, b)
    /\ \A d \in Coros \ 1 .. n : \A b \in BlocksOf(r, d) : t.blocks[b] = r.cfg[b]
    /\ \A b \in 1 .. Len(r.cfg) : Free(r, b) => t.blocks[b] = r.cfg[b]
    /\ \A b \in Len(r.cfg) + 1 .. Len(t.blocks) :
          role[b].who \in 1 .. n /\ Frag(r, role[b].who, t.blocks, role, b)

\* Before the first machine.
LEMMA NoMachine ==
    ASSUME NEW r, Regioned(r), NEW t, t = [blocks |-> r.cfg, dispatch |-> << >>, points |-> << >>]
    PROVE  \E role : Machined(r, 0, t, role)
<1>1. PICK L \in Nat : L = Len(r.cfg)
  BY CfgIs DEF IsCfg, IsSeq
<1>2. PICK who : who = [b \in 1 .. L |-> CHOOSE d \in Coros : b \in BlocksOf(r, d)]
  OBVIOUS
<1>3. PICK role : role = [b \in 1 .. L |-> IF Free(r, b) THEN Nowhere ELSE At(who[b], StartOf(r, b))]
  OBVIOUS
<1>4. ASSUME NEW d \in Coros, NEW b \in BlocksOf(r, d) PROVE role[b] = At(d, StartOf(r, b))
  <2>1. b \in 1 .. L
    BY <1>1, Contract
  <2>2. ~Free(r, b)
    BY DEF Free
  <2>3. PICK e : e = who[b]
    OBVIOUS
  <2>4. e = (CHOOSE x \in Coros : b \in BlocksOf(r, x))
    BY <2>1, <2>3, <1>2
  <2>5. e \in Coros /\ b \in BlocksOf(r, e)
    BY <2>4, Zenon
  <2>6. e = d
    <3>1. \A x \in Coros : x # d => BlocksOf(r, d) \cap BlocksOf(r, x) = {}
      BY Contract
    <3> QED BY <3>1, <2>5
  <2>7. role[b] = At(e, StartOf(r, b))
    BY <2>1, <2>2, <2>3, <1>3
  <2> QED BY <2>6, <2>7
<1>5. ASSUME NEW b \in 1 .. L, Free(r, b) PROVE role[b] = Nowhere
  BY <1>3, <1>5
<1>6. Places(r, role)
  BY <1>1, <1>4, <1>5 DEF Places
<1>7. IsBlocks(r.cfg)
  BY CfgIs DEF IsCfg, IsBlocks
<1>8. t.blocks = r.cfg /\ t.dispatch = << >> /\ t.points = << >>
  OBVIOUS
<1>9. IsSeq(<< >>) /\ Len(<< >>) = 0
  BY SeqEmpty
<1>10. (\A d \in 1 .. 0 : FALSE) /\ Coros \ 1 .. 0 = Coros /\ \A b \in L + 1 .. L : FALSE
  OBVIOUS
<1>11. L <= L
  OBVIOUS
<1>12. Machined(r, 0, t, role)
  BY <1>1, <1>6, <1>7, <1>8, <1>9, <1>10, <1>11 DEF Machined
<1> QED BY <1>12

\* One more coroutine gets its machine, and the others keep theirs.
LEMMA OneMore ==
    ASSUME NEW r, Regioned(r), NEW t, NEW role, NEW n \in Nat, Machined(r, n, t, role),
           NEW c \in Coros, c = n + 1,
           NEW w, w = AddMachine(t, r.cfg, CoroOf(r, c))
    PROVE  \E role2 : Machined(r, c, w, role2)
<1>1. PICK L \in Nat : L = Len(r.cfg)
  BY CfgIs DEF IsCfg, IsSeq
<1>2. PICK g0 : g0 = t.blocks
  OBVIOUS
<1>3. /\ IsBlocks(g0) /\ L <= Len(g0) /\ Places(r, role)
      /\ IsSeq(t.dispatch) /\ Len(t.dispatch) = n /\ IsSeq(t.points) /\ Len(t.points) = n
      /\ \A d \in 1 .. n :
            /\ t.points[d] = PointsOf(r, d) /\ Is(g0, role, t.dispatch[d], Enters(d))
            /\ t.dispatch[d] > L
            /\ \A b \in BlocksOf(r, d) : Frag(r, d, g0, role, b) /\ Marked(r, g0, b)
      /\ \A d \in Coros \ 1 .. n : \A b \in BlocksOf(r, d) : g0[b] = r.cfg[b]
      /\ \A b \in 1 .. L : Free(r, b) => g0[b] = r.cfg[b]
      /\ \A b \in L + 1 .. Len(g0) : role[b].who \in 1 .. n /\ Frag(r, role[b].who, g0, role, b)
  BY <1>1, <1>2 DEF Machined
<1>4. PICK z \in Nat : z = Len(g0)
  BY <1>3, BlocksBounds
<1>5. c \notin 1 .. n /\ (\A d \in 1 .. n : d # c) /\ (\A d \in 1 .. c : d \in 1 .. n \/ d = c)
      /\ \A d \in Coros \ 1 .. c : d \in Coros \ 1 .. n /\ d # c
  OBVIOUS
<1>6. Ready(r, c, g0, role)
  BY <1>1, <1>3, <1>5 DEF Ready, Places
<1>7. PICK m : m = BuildStateMachine(g0, CoroOf(r, c), PointsOf(r, c))
  OBVIOUS
<1>8. m.dispatch = z + 1 /\ \E role2 : Made(r, c, g0, role, m.g, role2)
  BY <1>4, <1>6, <1>7, BuildMakes
<1>9. PICK role2 : Made(r, c, g0, role, m.g, role2)
  BY <1>8
<1>10. PICK g : g = m.g
  OBVIOUS
<1>11. w.blocks = g /\ w.dispatch = Append(t.dispatch, z + 1) /\ w.points = Append(t.points, PointsOf(r, c))
  <2>1. PointsOf(r, c) = FindSuspensionPoints(r.cfg, CoroOf(r, c))
    BY DEF PointsOf
  <2>2. w = [blocks |-> m.g, dispatch |-> Append(t.dispatch, m.dispatch), points |-> Append(t.points, PointsOf(r, c))]
    BY <2>1, <1>2, <1>7 DEF AddMachine
  <2> QED BY <2>2, <1>8, <1>10
<1>12. /\ IsBlocks(g) /\ z + 2 <= Len(g) /\ role2[z + 1] = Enters(c)
       /\ \A b \in 1 .. z : role2[b] = role[b]
       /\ \A b \in 1 .. z : b \notin BlocksOf(r, c) => g[b] = g0[b]
       /\ \A b \in z + 1 .. Len(g) : role2[b].who = c /\ Frag(r, c, g, role2, b)
       /\ \A b \in BlocksOf(r, c) : Frag(r, c, g, role2, b) /\ Marked(r, g, b)
  BY <1>4, <1>9, <1>10 DEF Made
<1>13. PICK K \in Nat : K = Len(g)
  BY <1>12, BlocksBounds
<1>14. DOMAIN g0 = 1 .. z /\ DOMAIN g = 1 .. K /\ z + 2 <= K /\ L <= z /\ L <= K
  <2>1. z + 2 <= K /\ L <= z
    BY <1>3, <1>4, <1>12, <1>13
  <2>2. L <= K
    BY <2>1
  <2> QED BY <2>1, <2>2, <1>3, <1>4, <1>12, <1>13, BlocksBounds
<1>15. 1 .. z \subseteq 1 .. K /\ z + 1 \in 1 .. K
  BY <1>14
<1>16. Extends(g0, role, g, role2)
  BY <1>12, <1>14, <1>15 DEF Extends
<1>17. ASSUME NEW d \in Coros, NEW b \in BlocksOf(r, d)
       PROVE  b \in 1 .. L /\ b \in 1 .. z /\ (d # c => b \notin BlocksOf(r, c))
  <2>1. b \in 1 .. L
    BY <1>1, Contract
  <2>2. b \in 1 .. z
    BY <2>1, <1>14
  <2>3. d # c => BlocksOf(r, d) \cap BlocksOf(r, c) = {}
    BY Contract
  <2> QED BY <2>1, <2>2, <2>3
<1>18. Places(r, role2)
  <2>1. ASSUME NEW d \in Coros, NEW b \in BlocksOf(r, d) PROVE role2[b] = At(d, StartOf(r, b))
    BY <1>3, <1>12, <1>17 DEF Places
  <2>2. ASSUME NEW b \in 1 .. L, Free(r, b) PROVE role2[b] = Nowhere
    <3>1. b \in 1 .. z
      BY <1>14
    <3> QED BY <3>1, <2>2, <1>1, <1>3, <1>12 DEF Places
  <2> QED BY <2>1, <2>2, <1>1 DEF Places
<1>19. /\ IsSeq(w.dispatch) /\ Len(w.dispatch) = c /\ w.dispatch[c] = z + 1
       /\ \A d \in 1 .. n : w.dispatch[d] = t.dispatch[d]
  <2>1. PICK s : s = t.dispatch
    OBVIOUS
  <2>2. IsSeq(s) /\ Len(s) = n
    BY <2>1, <1>3
  <2>3. w.dispatch = Append(s, z + 1)
    BY <2>1, <1>11
  <2>4. IsSeq(Append(s, z + 1)) /\ Len(Append(s, z + 1)) = n + 1 /\ Append(s, z + 1)[n + 1] = z + 1
        /\ \A d \in 1 .. n : Append(s, z + 1)[d] = s[d]
    BY <2>2, SeqAppend
  <2> QED BY <2>1, <2>3, <2>4
<1>20. /\ IsSeq(w.points) /\ Len(w.points) = c /\ w.points[c] = PointsOf(r, c)
       /\ \A d \in 1 .. n : w.points[d] = t.points[d]
  <2>1. PICK s : s = t.points
    OBVIOUS
  <2>2. IsSeq(s) /\ Len(s) = n
    BY <2>1, <1>3
  <2>a. PICK x : x = PointsOf(r, c)
    OBVIOUS
  <2>3. w.points = Append(s, x)
    BY <2>1, <2>a, <1>11
  <2>4. IsSeq(Append(s, x)) /\ Len(Append(s, x)) = n + 1 /\ Append(s, x)[n + 1] = x
        /\ \A d \in 1 .. n : Append(s, x)[d] = s[d]
    BY <2>2, SeqAppend
  <2> QED BY <2>1, <2>a, <2>3, <2>4
<1>21. ASSUME NEW d \in 1 .. c
       PROVE  /\ w.points[d] = PointsOf(r, d) /\ Is(g, role2, w.dispatch[d], Enters(d))
              /\ w.dispatch[d] > L
              /\ \A b \in BlocksOf(r, d) : Frag(r, d, g, role2, b) /\ Marked(r, g, b)
  <2>1. CASE d = c
    <3>1. Is(g, role2, z + 1, Enters(c))
      BY <1>12, <1>14, <1>15 DEF Is
    <3>2. z + 1 > L
      BY <1>14
    <3> QED BY <3>1, <3>2, <2>1, <1>12, <1>19, <1>20
  <2>2. CASE d \in 1 .. n
    <3>1. d \in Coros
      BY <2>2, RegionAssumption DEF Coros
    <3>2. Is(g, role2, t.dispatch[d], Enters(d))
      BY <2>2, <1>3, <1>16, IsKeeps
    <3>3. ASSUME NEW b \in BlocksOf(r, d) PROVE Frag(r, d, g, role2, b) /\ Marked(r, g, b)
      <4>1. b \in DOMAIN g0 /\ g[b] = g0[b]
        BY <3>1, <2>2, <1>5, <1>12, <1>14, <1>17
      <4>2. Frag(r, d, g0, role, b) /\ Marked(r, g0, b)
        BY <2>2, <1>3
      <4>3. Frag(r, d, g, role2, b)
        BY <4>1, <4>2, <1>16, FragKeeps
      <4> QED BY <4>1, <4>2, <4>3 DEF Marked
    <3> QED BY <3>2, <3>3, <2>2, <1>3, <1>19, <1>20
  <2> QED BY <2>1, <2>2, <1>5
<1>22. ASSUME NEW d \in Coros \ 1 .. c, NEW b \in BlocksOf(r, d) PROVE g[b] = r.cfg[b]
  <2>1. g0[b] = r.cfg[b]
    BY <1>3, <1>5
  <2>2. g[b] = g0[b]
    BY <1>5, <1>12, <1>17
  <2> QED BY <2>1, <2>2
<1>23. ASSUME NEW b \in 1 .. L, Free(r, b) PROVE g[b] = r.cfg[b]
  <2>1. b \in 1 .. z /\ b \notin BlocksOf(r, c)
    BY <1>14, <1>23 DEF Free
  <2> QED BY <2>1, <1>3, <1>12, <1>23
<1>24. ASSUME NEW b \in L + 1 .. K PROVE role2[b].who \in 1 .. c /\ Frag(r, role2[b].who, g, role2, b)
  <2>1. CASE b \in z + 1 .. K
    <3>1. role2[b].who = c /\ Frag(r, c, g, role2, b)
      BY <2>1, <1>12, <1>13
    <3>2. c \in 1 .. c
      OBVIOUS
    <3> QED BY <3>1, <3>2
  <2>2. CASE b \in L + 1 .. z
    <3>1. PICK d : d = role[b].who
      OBVIOUS
    <3>2. d \in 1 .. n /\ Frag(r, d, g0, role, b)
      BY <2>2, <3>1, <1>3, <1>4
    <3>3. b \in 1 .. z
      BY <2>2
    <3>4. b \notin BlocksOf(r, c)
      BY <2>2, <1>17
    <3>5. g[b] = g0[b] /\ role2[b] = role[b] /\ b \in DOMAIN g0
      BY <3>3, <3>4, <1>12, <1>14
    <3>6. Frag(r, d, g, role2, b)
      BY <3>2, <3>5, <1>16, FragKeeps
    <3>7. role2[b].who = d /\ d \in 1 .. c
      BY <3>1, <3>2, <3>5
    <3> QED BY <3>6, <3>7
  <2> QED BY <2>1, <2>2, <1>14
<1>25. Machined(r, c, w, role2)
  BY <1>1, <1>11, <1>12, <1>13, <1>14, <1>18, <1>19, <1>20, <1>21, <1>22, <1>23, <1>24 DEF Machined
<1> QED BY <1>25

-----------------------------------------------------------------------------
(* The machines of a region before its markers are erased, and behind. *)

\* transform_region makes a machine for every coroutine.
LEMMA AllMachined ==
    ASSUME NEW r, Regioned(r), NEW t, t = AddMachines(r.cfg, RegionOf(r).coroutines)
    PROVE  \E role : Machined(r, N, t, role)
<1>1. PICK co : co = RegionOf(r).coroutines
  OBVIOUS
<1>2. N \in Nat /\ DOMAIN co = 1 .. N /\ Coros = 1 .. N
  BY <1>1, Contract, RegionAssumption DEF Coros
<1>3. PICK h : MachineFold(h, r.cfg, co, N)
  BY <1>2, MachineSteps
<1>4. /\ h[0] = [blocks |-> r.cfg, dispatch |-> << >>, points |-> << >>]
      /\ \A i \in 1 .. N : h[i] = AddMachine(h[i - 1], r.cfg, co[i])
      /\ t = h[N]
  BY <1>1, <1>3 DEF MachineFold
<1> DEFINE S == {i \in 0 .. N : \E role : Machined(r, i, h[i], role)}
<1>5. 0 \in S
  <2>1. \E role : Machined(r, 0, h[0], role)
    BY <1>4, NoMachine
  <2> QED BY <2>1, <1>2
<1>6. ASSUME NEW i \in 0 .. N - 1, i \in S PROVE i + 1 \in S
  <2>1. PICK c : c = i + 1
    OBVIOUS
  <2>2. c \in Coros /\ i \in Nat /\ c - 1 = i /\ c \in 0 .. N
    BY <2>1, <1>2
  <2>3. PICK u : u = h[i]
    OBVIOUS
  <2>4. PICK role : Machined(r, i, u, role)
    BY <1>6, <2>3
  <2>5. PICK w : w = h[c]
    OBVIOUS
  <2>6. w = AddMachine(u, r.cfg, CoroOf(r, c))
    BY <2>2, <2>3, <2>5, <1>1, <1>2, <1>4 DEF CoroOf
  <2>7. \E role2 : Machined(r, c, w, role2)
    BY <2>1, <2>2, <2>4, <2>6, OneMore
  <2> QED BY <2>1, <2>2, <2>5, <2>7
<1>7. \A i \in 0 .. N : i \in S
  <2> HIDE DEF S
  <2> QED BY <1>2, <1>5, <1>6, Upwards
<1>8. N \in S
  BY <1>2, <1>7
<1> QED BY <1>4, <1>8

\* Where a block of the CFG had a marker it has a marker, or what erasing left of it.
Spotted(r, g, b) ==
    \A j \in 1 .. Len(g[b].stmts) :
        j \in 1 .. Len(r.cfg[b].stmts) /\ r.cfg[b].stmts[j] \in Markers =>
        g[b].stmts[j] \in Markers \cup {Nop}

\* Block b is a piece of some coroutine's machine.
Manned(r, g, role, b) == role[b].who \in Coros /\ Frag(r, role[b].who, g, role, b)

\* The blocks of every machine of the region, and blocks that are in none.
Standing(r, g, role) ==
    /\ IsBlocks(g) /\ Len(r.cfg) <= Len(g) /\ Places(r, role)
    /\ \A c \in Coros : \A b \in BlocksOf(r, c) : Frag(r, c, g, role, b)
    /\ \A b \in Len(r.cfg) + 1 .. Len(g) : role[b] = Nowhere \/ Manned(r, g, role, b)
    /\ \A b \in 1 .. Len(r.cfg) : Spotted(r, g, b)

\* The region when every coroutine has its machine.
LEMMA MachinedStands ==
    ASSUME NEW r, Regioned(r), NEW t, NEW role, Machined(r, N, t, role), NEW g, g = t.blocks
    PROVE  Standing(r, g, role)
<1>1. N \in Nat /\ Coros = 1 .. N
  BY RegionAssumption DEF Coros
<1>2. /\ IsBlocks(g) /\ Len(r.cfg) <= Len(g) /\ Places(r, role)
      /\ \A d \in Coros : \A b \in BlocksOf(r, d) : Frag(r, d, g, role, b) /\ Marked(r, g, b)
      /\ \A b \in 1 .. Len(r.cfg) : Free(r, b) => g[b] = r.cfg[b]
      /\ \A b \in Len(r.cfg) + 1 .. Len(g) : role[b].who \in Coros /\ Frag(r, role[b].who, g, role, b)
  BY <1>1 DEF Machined
<1>3. ASSUME NEW b \in 1 .. Len(r.cfg) PROVE Spotted(r, g, b)
  <2>1. CASE Free(r, b)
    BY <2>1, <1>2 DEF Spotted
  <2>2. CASE ~Free(r, b)
    <3>1. PICK d \in Coros : b \in BlocksOf(r, d)
      BY <2>2 DEF Free
    <3>2. Marked(r, g, b)
      BY <3>1, <1>2
    <3> QED BY <3>2 DEF Marked, Spotted
  <2> QED BY <2>1, <2>2
<1> QED BY <1>2, <1>3 DEF Standing, Manned

\* A marker and a Nop do the same.
LEMMA NopReads ==
    ASSUME NEW src, NEW s, IsSeq(s), NEW k0 \in 1 .. Len(s), s[k0] \in Markers \cup {Nop},
           NEW from, NEW i, NEW j, Reads(src, s, from, i, j), from \in 0 .. Len(s)
    PROVE  Reads(src, [s EXCEPT ![k0] = Nop], from, i, j)
<1>1. PICK z \in Nat : z = Len(s)
  BY DEF IsSeq
<1>2. PICK u : u = [s EXCEPT ![k0] = Nop]
  OBVIOUS
<1>3. s = [n \in 1 .. z |-> s[n]]
  BY <1>1 DEF IsSeq
<1>4. u = [n \in 1 .. z |-> u[n]]
  BY <1>2, <1>3
<1>5. Len(u) = z
  BY <1>4, SeqMade, Zenon
<1>6. \A n \in 1 .. z : u[n] = IF n = k0 THEN Nop ELSE s[n]
  BY <1>2, <1>3
<1>7. PICK f \in [from .. z -> 0 .. Len(src)] :
        /\ f[from] = i /\ f[z] = j
        /\ \A n \in from + 1 .. z : Step(src, f[n - 1], s[n], f[n])
  BY <1>1 DEF Reads
<1>8. ASSUME NEW n \in from + 1 .. z PROVE Step(src, f[n - 1], u[n], f[n])
  <2>1. n \in 1 .. z
    BY <1>1
  <2>2. Step(src, f[n - 1], s[n], f[n])
    BY <1>7
  <2>3. CASE n # k0
    <3>1. u[n] = s[n]
      BY <2>1, <2>3, <1>6
    <3> QED BY <3>1, <2>2
  <2>4. CASE n = k0
    <3>1. u[n] = Nop /\ s[n] \in Markers \cup {Nop}
      BY <2>1, <2>4, <1>6
    <3>2. s[n].op \in {"Nop", "RegionBegin", "RegionEnd", "CoroutineBegin", "CoroutineEnd"}
      BY <3>1 DEF Markers, Marker, Nop
    <3>3. Nop.op = "Nop"
      BY DEF Nop, Marker
    <3>4. PICK v : v = f[n - 1]
      OBVIOUS
    <3>5. PICK w : w = f[n]
      OBVIOUS
    <3>6. w = v \/ (w = v + 1 /\ w \in DOMAIN src /\ src[w][1] = "Yield")
      <4>1. Step(src, v, s[n], w)
        BY <2>2, <3>4, <3>5
      <4>2. \A x : s[n] = Operation(src[x][1], src[x][2], x) => s[n].op = src[x][1]
        BY DEF Operation
      <4>3. src[w][1] \notin {"Put", "ProducingSend"} \/ s[n] # Operation(src[w][1], src[w][2], w)
        BY <3>2, <4>2
      <4> QED BY <4>1, <4>3 DEF Step
    <3>7. Step(src, v, Nop, w)
      BY <3>3, <3>6 DEF Step
    <3> QED BY <3>1, <3>4, <3>5, <3>7
  <2> QED BY <2>3, <2>4
<1> HIDE DEF Step
<1>9. Reads(src, u, from, i, j)
  BY <1>5, <1>7, <1>8 DEF Reads
<1> QED BY <1>2, <1>9

\* An At block, whose statements change but read the same.
LEMMA AtKinds ==
    \A c, i, d, n, q : /\ At(c, i) # Enters(d) /\ At(c, i) # Let(d, n) /\ At(c, i) # Out(d, n, q)
                       /\ At(c, i) # Exits(d) /\ At(c, i) # Nowhere
                       /\ At(c, i).who = c /\ At(c, i).kind = "at"
BY DEF At, Enters, Let, Out, Exits, Nowhere, Role

\* Erasing a marker, wherever the cuts moved what was there, breaks no machine.
LEMMA EraseKeeps ==
    ASSUME NEW r, Regioned(r), NEW g, NEW role, Standing(r, g, role), NEW x, Marks(r, x),
           NEW w, w = ReplaceWithNop(g, x[1], x[2])
    PROVE  Standing(r, w, role) /\ Len(w) = Len(g)
<1>1. PICK a : a = x[1]
  OBVIOUS
<1>2. PICK k0 : k0 = x[2]
  OBVIOUS
<1>3. PICK L \in Nat : L = Len(r.cfg)
  BY CfgIs DEF IsCfg, IsSeq
<1>4. a \in 1 .. L /\ k0 \in 1 .. Len(r.cfg[a].stmts) /\ r.cfg[a].stmts[k0] \in Markers
  BY <1>1, <1>2, <1>3 DEF Marks
<1>5. /\ IsBlocks(g) /\ L <= Len(g) /\ Places(r, role)
      /\ \A c \in Coros : \A b \in BlocksOf(r, c) : Frag(r, c, g, role, b)
      /\ \A b \in L + 1 .. Len(g) : role[b] = Nowhere \/ Manned(r, g, role, b)
      /\ \A b \in 1 .. L : Spotted(r, g, b)
  BY <1>3 DEF Standing
<1>6. PICK K \in Nat : K = Len(g)
  BY <1>5, BlocksBounds
<1>7. a \in 1 .. K /\ IsSeq(g) /\ DOMAIN g = 1 .. K
  BY <1>4, <1>5, <1>6, BlocksBounds
<1>8. PICK s : s = g[a].stmts
  OBVIOUS
<1>9. PICK u : u = g[a].term
  OBVIOUS
<1>10. IsSeq(s) /\ g[a] = Block(s, u)
  BY <1>5, <1>6, <1>7, <1>8, <1>9 DEF IsBlocks
<1>11. IF k0 \in DOMAIN s THEN Edited(g, w, a, Block([s EXCEPT ![k0] = Nop], u)) ELSE w = g
  BY <1>1, <1>2, <1>6, <1>7, <1>10, NopIs
<1>12. CASE k0 \notin DOMAIN s
  <2>1. w = g
    BY <1>11, <1>12
  <2> QED BY <2>1
<1>13. CASE k0 \in DOMAIN s
  <2>1. PICK v : v = [s EXCEPT ![k0] = Nop]
    OBVIOUS
  <2>2. PICK z \in Nat : z = Len(s)
    BY <1>10 DEF IsSeq
  <2>3. DOMAIN s = 1 .. z
    BY <1>10, <2>2, Bounds
  <2>4. IsSeq(v) /\ Len(v) = z /\ \A n \in 1 .. z : v[n] = IF n = k0 THEN Nop ELSE s[n]
    <3>1. s = [n \in 1 .. z |-> s[n]]
      BY <1>10, <2>2 DEF IsSeq
    <3>2. v = [n \in 1 .. z |-> v[n]]
      BY <2>1, <3>1
    <3>3. IsSeq(v) /\ Len(v) = z
      BY <3>2, SeqMade, Zenon
    <3>4. \A n \in 1 .. z : v[n] = IF n = k0 THEN Nop ELSE s[n]
      BY <2>1, <3>1
    <3> QED BY <3>3, <3>4
  <2>5. Edited(g, w, a, Block(v, u))
    BY <1>11, <1>13, <2>1
  <2>6. IsSeq(w) /\ Len(w) = K /\ w[a] = Block(v, u) /\ \A b \in 1 .. K : b # a => w[b] = g[b]
    BY <2>5, <1>6 DEF Edited
  <2>7. w[a].stmts = v /\ w[a].term = u
    BY <2>6, BlockIs
  <2>8. IsBlocks(w)
    <3> SUFFICES ASSUME NEW b \in 1 .. K PROVE IsSeq(w[b].stmts) /\ w[b] = Block(w[b].stmts, w[b].term)
      BY <2>6 DEF IsBlocks
    <3>1. CASE b = a
      BY <3>1, <2>4, <2>6, <2>7
    <3>2. CASE b # a
      BY <3>2, <2>6, <1>5, <1>6 DEF IsBlocks
    <3> QED BY <3>1, <3>2
  <2>9. DOMAIN w = 1 .. K
    BY <2>6, Bounds
  <2>10. Extends(g, role, w, role)
    BY <2>9, <1>7 DEF Extends
  <2>11. ASSUME NEW c, NEW b \in 1 .. K, b # a, Frag(r, c, g, role, b) PROVE Frag(r, c, w, role, b)
    <3>1. b \in DOMAIN g /\ w[b] = g[b]
      BY <2>6, <2>11, <1>7
    <3> QED BY <3>1, <2>10, <2>11, FragKeeps
  <2>12. s[k0] \in Markers \cup {Nop}
    <3>1. Spotted(r, g, a)
      BY <1>4, <1>5
    <3>2. k0 \in 1 .. Len(s)
      BY <1>13, <2>2, <2>3
    <3> QED BY <3>1, <3>2, <1>4, <1>8 DEF Spotted
  <2>13. ASSUME NEW c \in Coros, a \in BlocksOf(r, c) PROVE Frag(r, c, w, role, a)
    <3>1. PICK src : src = r.body[c]
      OBVIOUS
    <3>2. PICK pts : pts = PointsOf(r, c)
      OBVIOUS
    <3>3. PICK h : h = RegionOf(r).begin[1]
      OBVIOUS
    <3>4. PICK p : p = RegionOf(r).begin[2]
      OBVIOUS
    <3>5. PICK from : from = IF a = h THEN p ELSE 0
      OBVIOUS
    <3>6. Fragment(c, src, pts, g, role, h, p, a)
      <4>1. Frag(r, c, g, role, a)
        BY <1>5, <2>13
      <4> QED BY <4>1, <3>1, <3>2, <3>3, <3>4 DEF Frag
    <3>7. \E n : role[a] = At(c, n)
      BY <1>5, <2>13 DEF Places
    <3>8. s # << >>
      <4>1. z # 0
        BY <1>13, <2>3
      <4>2. Len(<< >>) = 0
        BY SeqEmpty
      <4> QED BY <4>1, <4>2, <2>2
    <3>9. PICK i \in 0 .. Len(src), j \in 0 .. Len(src) :
              /\ role[a] = At(c, i) /\ from <= z /\ Reads(src, s, from, i, j)
              /\ Leads(c, src, pts, g, role, i, j, u) /\ u.to # h
      BY <3>5, <3>6, <3>7, <3>8, <1>8, <1>9, <2>2, AtKinds DEF Fragment
    <3>10. from \in Nat
      <4>1. p \in 1 .. Len(r.cfg[h].stmts)
        BY <3>3, <3>4, Contract DEF Marks
      <4>2. p \in Nat
        BY <4>1
      <4> QED BY <4>2, <3>5
    <3>11. Reads(src, v, from, i, j)
      <4>1. from \in 0 .. Len(s) /\ k0 \in 1 .. Len(s)
        BY <3>9, <3>10, <2>2, <2>3, <1>13
      <4>2. Reads(src, [s EXCEPT ![k0] = Nop], from, i, j)
        BY <4>1, <3>9, <2>12, <1>10, NopReads
      <4> QED BY <4>2, <2>1
    <3>12. Leads(c, src, pts, w, role, i, j, u)
      BY <3>9, <2>10, LeadsKeeps
    <3>13. Fragment(c, src, pts, w, role, h, p, a)
      BY <3>5, <3>9, <3>11, <3>12, <2>4, <2>7 DEF Fragment
    <3> QED BY <3>1, <3>2, <3>3, <3>4, <3>13 DEF Frag
  <2>14. \A c \in Coros : \A b \in BlocksOf(r, c) : Frag(r, c, w, role, b)
    <3> TAKE c \in Coros
    <3> TAKE b \in BlocksOf(r, c)
    <3>1. b \in 1 .. L
      BY <1>3, Contract
    <3>2. b \in 1 .. K
      BY <3>1, <1>5, <1>6
    <3>3. Frag(r, c, g, role, b)
      BY <1>5
    <3> QED BY <3>2, <3>3, <2>11, <2>13
  <2>15. \A b \in L + 1 .. K : role[b] = Nowhere \/ Manned(r, w, role, b)
    <3> TAKE b \in L + 1 .. K
    <3>1. b \in 1 .. K /\ b # a
      BY <1>4
    <3>2. role[b] = Nowhere \/ Manned(r, g, role, b)
      BY <1>5, <1>6
    <3>3. CASE Manned(r, g, role, b)
      BY <3>1, <3>3, <2>11 DEF Manned
    <3> QED BY <3>2, <3>3
  <2>16. \A b \in 1 .. L : Spotted(r, w, b)
    <3> TAKE b \in 1 .. L
    <3>1. b \in 1 .. K /\ Spotted(r, g, b)
      BY <1>5, <1>6
    <3>2. CASE b # a
      BY <3>1, <3>2, <2>6 DEF Spotted
    <3>3. CASE b = a
      <4> SUFFICES ASSUME NEW n \in 1 .. z, n \in 1 .. Len(r.cfg[a].stmts), r.cfg[a].stmts[n] \in Markers
                   PROVE  v[n] \in Markers \cup {Nop}
        BY <3>3, <2>4, <2>7 DEF Spotted
      <4>1. s[n] \in Markers \cup {Nop}
        BY <3>1, <3>3, <1>8, <2>2 DEF Spotted
      <4> QED BY <4>1, <2>4
    <3> QED BY <3>2, <3>3
  <2> QED BY <1>3, <1>5, <1>6, <2>6, <2>8, <2>14, <2>15, <2>16 DEF Standing
<1> QED BY <1>12, <1>13

-----------------------------------------------------------------------------
(* The region's head.                                                       *)

\* Erase erases two markers.
LEMMA EraseStands ==
    ASSUME NEW r, Regioned(r), NEW g, NEW role, Standing(r, g, role),
           NEW x, Marks(r, x.begin), Marks(r, x.end), NEW w, w = Erase(g, x)
    PROVE  Standing(r, w, role) /\ Len(w) = Len(g)
<1>1. PICK v : v = ReplaceWithNop(g, x.begin[1], x.begin[2])
  OBVIOUS
<1>2. PICK y : y = x.begin
  OBVIOUS
<1>3. PICK e : e = x.end
  OBVIOUS
<1>4. Standing(r, v, role) /\ Len(v) = Len(g)
  BY <1>1, <1>2, EraseKeeps
<1>5. w = ReplaceWithNop(v, e[1], e[2])
  BY <1>1, <1>3 DEF Erase
<1>6. Standing(r, w, role) /\ Len(w) = Len(v)
  BY <1>3, <1>4, <1>5, EraseKeeps
<1> QED BY <1>4, <1>6

\* finish_region erases every marker of the coroutines, then those of the region.
LEMMA AllErased ==
    ASSUME NEW r, Regioned(r), NEW g, NEW role, Standing(r, g, role),
           NEW w, w = Erase(EraseAll(g, RegionOf(r).coroutines), RegionOf(r))
    PROVE  Standing(r, w, role) /\ Len(w) = Len(g)
<1>1. PICK co : co = RegionOf(r).coroutines
  OBVIOUS
<1>2. N \in Nat /\ DOMAIN co = 1 .. N /\ Coros = 1 .. N
  BY <1>1, Contract, RegionAssumption DEF Coros
<1>3. PICK h : EraseFold(h, g, co, N)
  BY <1>2, EraseSteps
<1>4. /\ h[0] = g /\ \A i \in 1 .. N : h[i] = Erase(h[i - 1], co[i])
      /\ EraseAll(g, co) = h[N]
  BY <1>3 DEF EraseFold
<1> DEFINE S == {i \in 0 .. N : Standing(r, h[i], role) /\ Len(h[i]) = Len(g)}
<1>5. 0 \in S
  BY <1>2, <1>4
<1>6. ASSUME NEW i \in 0 .. N - 1, i \in S PROVE i + 1 \in S
  <2>1. PICK c : c = i + 1
    OBVIOUS
  <2>2. c \in Coros /\ c - 1 = i /\ c \in 0 .. N
    BY <2>1, <1>2
  <2>3. PICK u : u = h[i]
    OBVIOUS
  <2>4. Standing(r, u, role) /\ Len(u) = Len(g)
    BY <1>6, <2>3
  <2>5. PICK x : x = CoroOf(r, c)
    OBVIOUS
  <2>6. Marks(r, x.begin) /\ Marks(r, x.end)
    BY <2>2, <2>5, Contract
  <2>7. PICK v : v = h[c]
    OBVIOUS
  <2>8. v = Erase(u, x)
    BY <2>2, <2>3, <2>5, <2>7, <1>1, <1>2, <1>4 DEF CoroOf
  <2>9. Standing(r, v, role) /\ Len(v) = Len(u)
    BY <2>4, <2>6, <2>8, EraseStands
  <2> QED BY <2>1, <2>2, <2>4, <2>7, <2>9
<1>7. \A i \in 0 .. N : i \in S
  <2> HIDE DEF S
  <2> QED BY <1>2, <1>5, <1>6, Upwards
<1>8. N \in S
  BY <1>2, <1>7
<1>9. PICK f : f = EraseAll(g, co)
  OBVIOUS
<1>10. Standing(r, f, role) /\ Len(f) = Len(g)
  BY <1>4, <1>8, <1>9
<1>11. PICK x : x = RegionOf(r)
  OBVIOUS
<1>12. Marks(r, x.begin) /\ Marks(r, x.end) /\ w = Erase(f, x)
  BY <1>1, <1>9, <1>11, Contract
<1>13. Standing(r, w, role) /\ Len(w) = Len(f)
  BY <1>10, <1>12, EraseStands
<1> QED BY <1>10, <1>13

\* What w is to g once block h is the executor's: the other blocks have their roles.
Moved(g, role, w, role2, h) ==
    \A b, x : Is(g, role, b, x) /\ b # h /\ x.kind # "enters" => Is(w, role2, b, x)

\* What leads on leads on, where it did not lead to h.
LEMMA LeadsMoved ==
    ASSUME NEW g, NEW role, NEW w, NEW role2, NEW h, Moved(g, role, w, role2, h),
           NEW c, NEW src, NEW pts, NEW i, NEW j, NEW t, Leads(c, src, pts, g, role, i, j, t), t.to # h
    PROVE  Leads(c, src, pts, w, role2, i, j, t)
<1>1. \A x : Is(g, role, t.to, x) /\ x.kind # "enters" => Is(w, role2, t.to, x)
  BY DEF Moved
<1>2. At(c, j).kind # "enters" /\ \A n, q : Out(c, n, q).kind # "enters"
  BY DEF At, Out, Role
<1> QED BY <1>1, <1>2 DEF Leads

\* A fragment is a piece where nothing goes to block h.
LEMMA FragmentIsPiece ==
    ASSUME NEW g, NEW role, NEW w, NEW role2, NEW h, Moved(g, role, w, role2, h),
           NEW c, NEW src, NEW pts, NEW p, NEW b, Fragment(c, src, pts, g, role, h, p, b),
           b # h, w[b] = g[b], role2[b] = role[b],
           role[h].kind \in {"at", "nowhere"}, role[b] = Enters(c) => role[h].who # c
    PROVE  Piece(c, src, pts, w, role2, b)
<1> DEFINE x == role[b]
           s == g[b].stmts
           t == g[b].term
<1>1. \A d, y : Is(g, role, d, y) /\ d # h /\ y.kind # "enters" => Is(w, role2, d, y)
  BY DEF Moved
<1>2. \A i, j, e : Leads(c, src, pts, g, role, i, j, e) /\ e.to # h => Leads(c, src, pts, w, role2, i, j, e)
  BY LeadsMoved
<1>k. \A d, y : Is(g, role, d, y) /\ y.kind \in {"let", "out", "exits"} => Is(w, role2, d, y)
  <2> SUFFICES ASSUME NEW d, NEW y, Is(g, role, d, y), y.kind \in {"let", "out", "exits"}
               PROVE  Is(w, role2, d, y)
    OBVIOUS
  <2>1. d # h
    BY DEF Is
  <2> QED BY <2>1, <1>1
<1>3. (\A i : Let(c, i).kind = "let") /\ (\A n, q : Out(c, n, q).kind = "out") /\ Exits(c).kind = "exits"
      /\ (\A i : At(c, i).kind = "at" /\ At(c, i).who = c)
  BY DEF Let, Out, Exits, At, Role
<1>4. CASE /\ x = Enters(c) /\ s = << >> /\ t.kind = "switch" /\ OneTarget(t)
           /\ \A n \in 0 .. Len(pts) : Is(g, role, SwitchTo(t, n), At(c, ResumesAt(src, pts, n)))
  <2>1. ASSUME NEW n \in 0 .. Len(pts)
        PROVE  Is(w, role2, SwitchTo(t, n), At(c, ResumesAt(src, pts, n)))
    <3>1. PICK d : d = SwitchTo(t, n)
      OBVIOUS
    <3>2. PICK y : y = At(c, ResumesAt(src, pts, n))
      OBVIOUS
    <3>3. Is(g, role, d, y) /\ y.kind = "at" /\ y.who = c
      BY <3>1, <3>2, <1>3, <1>4
    <3>4. d # h
      BY <3>3, <1>4 DEF Is
    <3>5. Is(w, role2, d, y)
      BY <3>3, <3>4, <1>1
    <3> QED BY <3>1, <3>2, <3>5
  <2> QED BY <2>1, <1>4 DEF Piece
<1>5. ASSUME NEW i \in 0 .. Len(src), NEW j \in 0 .. Len(src),
             /\ x = At(c, i) /\ Reads(src, s, 0, i, j)
             /\ Leads(c, src, pts, g, role, i, j, t) /\ t.to # h
      PROVE  Piece(c, src, pts, w, role2, b)
  BY <1>2, <1>5 DEF Piece
<1>6. ASSUME NEW i \in 0 .. Len(src) - 1,
              /\ x = At(c, i) /\ s = << >> /\ src[i + 1][1] = "GuardedRecv"
              /\ t.kind = "branch" /\ t.on = src[i + 1][2]
              /\ Is(g, role, t.yes, Let(c, i)),
              NEW n \in 1 .. Len(pts), 
                    Is(g, role, t.no, Out(c, n, "BLOCKED")) /\ ResumesAt(src, pts, n) = i
      PROVE  Piece(c, src, pts, w, role2, b)
  <2>1. Is(w, role2, t.yes, Let(c, i))
    BY <1>k, <1>3, <1>6
  <2>2. Is(w, role2, t.no, Out(c, n, "BLOCKED"))
    BY <1>k, <1>3, <1>6
  <2> QED BY <2>1, <2>2, <1>6 DEF Piece
<1>7. ASSUME NEW i \in 0 .. Len(src) - 1, NEW j \in 0 .. Len(src),
              /\ x = Let(c, i) /\ src[i + 1][1] = "GuardedRecv" /\ Len(s) > 1
              /\ s[1] = Assign("progress", 1) /\ s[2] = Operation("Recv", src[i + 1][2], i + 1)
              /\ Reads(src, s, 2, i + 1, j) /\ Leads(c, src, pts, g, role, i + 1, j, t) /\ t.to # h
      PROVE  Piece(c, src, pts, w, role2, b)
  BY <1>2, <1>7 DEF Piece
<1>8. ASSUME NEW n \in 1 .. Len(pts) \cup {DONE_STATE}, NEW q \in {"PENDING", "BLOCKED", "READY"},
              /\ (q = "READY") = (n = DONE_STATE)
              /\ x = Out(c, n, q) /\ g[b] = LeaveBlock(n, q, t.to) /\ Is(g, role, t.to, Exits(c))
      PROVE  Piece(c, src, pts, w, role2, b)
  <2>1. Is(w, role2, t.to, Exits(c)) /\ w[b] = LeaveBlock(n, q, t.to)
    BY <1>k, <1>3, <1>8
  <2> QED BY <2>1, <1>8 DEF Piece
<1>9. CASE x = Exits(c) /\ s = << >> /\ t = Leave
  BY <1>9 DEF Piece
<1> QED BY <1>4, <1>5, <1>6, <1>7, <1>8, <1>9 DEF Fragment

\* The terminator that redirect_targets makes of t.
Redirected(t, from, to) ==
    Switch({<<a[1], IF a[2] = from THEN to ELSE a[2]>> : a \in t.arms},
           IF t.other = from THEN to ELSE t.other)

\* redirect_targets: where a switch goes afterwards.
LEMMA RedirectIs ==
    ASSUME NEW t, OneTarget(t), NEW from, NEW to, NEW u, u = Redirected(t, from, to), NEW n
    PROVE  SwitchTo(u, n) = IF SwitchTo(t, n) = from THEN to ELSE SwitchTo(t, n)
<1>1. PICK A : A = {<<a[1], IF a[2] = from THEN to ELSE a[2]>> : a \in t.arms}
  OBVIOUS
<1>2. u.arms = A /\ u.other = IF t.other = from THEN to ELSE t.other
  BY <1>1 DEF Switch, Redirected
<1>3. \A x \in A : \E a \in t.arms : x[1] = a[1] /\ x[2] = IF a[2] = from THEN to ELSE a[2]
  BY <1>1
<1>4. \A a \in t.arms : \E x \in A : x[1] = a[1] /\ x[2] = IF a[2] = from THEN to ELSE a[2]
  <2> SUFFICES ASSUME NEW a \in t.arms
               PROVE  \E x \in A : x[1] = a[1] /\ x[2] = IF a[2] = from THEN to ELSE a[2]
    OBVIOUS
  <2>1. PICK y : y = IF a[2] = from THEN to ELSE a[2]
    OBVIOUS
  <2>2. <<a[1], y>> \in A
    BY <1>1, <2>1
  <2>3. <<a[1], y>>[1] = a[1] /\ <<a[1], y>>[2] = y
    OBVIOUS
  <2> QED BY <2>1, <2>2, <2>3
<1>5. CASE \E a \in t.arms : a[1] = n
  <2>1. PICK a : a = CHOOSE y \in t.arms : y[1] = n
    OBVIOUS
  <2>2. a \in t.arms /\ a[1] = n
    BY <2>1, <1>5, Zenon
  <2>3. SwitchTo(t, n) = a[2]
    BY <2>1, <1>5, Zenon DEF SwitchTo
  <2>4. \E x \in A : x[1] = n
    BY <2>2, <1>4
  <2>5. PICK x : x = CHOOSE y \in A : y[1] = n
    OBVIOUS
  <2>6. x \in A /\ x[1] = n
    BY <2>4, <2>5, Zenon
  <2>7. SwitchTo(u, n) = x[2]
    BY <2>4, <2>5, <1>2, Zenon DEF SwitchTo
  <2>8. PICK e \in t.arms : x[1] = e[1] /\ x[2] = IF e[2] = from THEN to ELSE e[2]
    BY <2>6, <1>3
  <2>9. e[2] = a[2]
    BY <2>2, <2>6, <2>8 DEF OneTarget
  <2> QED BY <2>3, <2>7, <2>8, <2>9
<1>6. CASE ~ \E a \in t.arms : a[1] = n
  <2>1. ~ \E x \in A : x[1] = n
    BY <1>3, <1>6
  <2>2. SwitchTo(t, n) = t.other /\ SwitchTo(u, n) = u.other
    BY <2>1, <1>2, <1>6 DEF SwitchTo
  <2> QED BY <2>2, <1>2
<1> QED BY <1>5, <1>6

\* The switch of coroutine c, in block d, is there.
Dispatched(r, g, role, disp) ==
    \A c \in Coros : Is(g, role, disp[c], Enters(c)) /\ disp[c] > Len(r.cfg)

\* finish_region without the redirection: what follows region_begin is a block of its own.
Headed(r, g, w) ==
    LET h == RegionOf(r).begin[1]
        p == RegionOf(r).begin[2]
    IN  Grown(g, w, h, Block(SubSeq(g[h].stmts, 1, p), Unset),
              Block(SubSeq(g[h].stmts, p + 1, Len(g[h].stmts)), g[h].term))

\* Block h is the first coroutine's or nobody's.
LEMMA HeadIs ==
    ASSUME NEW r, Regioned(r), NEW g, NEW role, Standing(r, g, role), NEW h, h = RegionOf(r).begin[1]
    PROVE  /\ h \in 1 .. Len(r.cfg)
           /\ \/ role[h] = Nowhere /\ RegionOf(r).coroutines[1].begin[1] # h
              \/ /\ 1 \in Coros /\ h \in BlocksOf(r, 1) /\ (\E i : role[h] = At(1, i))
                 /\ RegionOf(r).coroutines[1].begin[1] = h
<1>1. h \in 1 .. Len(r.cfg)
  BY Contract DEF Marks
<1>2. 1 \in Coros
  BY RegionAssumption DEF Coros
<1>3. CoroOf(r, 1) = RegionOf(r).coroutines[1]
  BY DEF CoroOf
<1>4. CASE Free(r, h)
  <2>1. role[h] = Nowhere
    BY <1>1, <1>4 DEF Standing, Places
  <2>2. h \notin BlocksOf(r, 1)
    BY <1>2, <1>4 DEF Free
  <2>3. CoroOf(r, 1).begin[1] \in BlocksOf(r, 1)
    BY <1>2, Contract
  <2> QED BY <1>1, <1>3, <2>1, <2>2, <2>3
<1>5. CASE ~Free(r, h)
  <2>1. PICK d \in Coros : h \in BlocksOf(r, d)
    BY <1>5 DEF Free
  <2>2. d = 1 /\ h = CoroOf(r, d).begin[1]
    BY <2>1, Contract
  <2>3. role[h] = At(d, StartOf(r, h))
    BY <2>1 DEF Standing, Places
  <2> QED BY <1>1, <1>2, <1>3, <2>1, <2>2, <2>3
<1> QED BY <1>4, <1>5

\* The new block reads what block h read behind the region's begin.
LEMMA TailReads ==
    ASSUME NEW src, NEW s, IsSeq(s), NEW p \in Nat, p <= Len(s), NEW i, NEW j, Reads(src, s, p, i, j)
    PROVE  Reads(src, SubSeq(s, p + 1, Len(s)), 0, i, j) /\ IsSeq(SubSeq(s, p + 1, Len(s)))
<1>1. PICK z \in Nat : z = Len(s)
  BY DEF IsSeq
<1>2. PICK u : u = SubSeq(s, p + 1, z)
  OBVIOUS
<1>a. p <= z
  BY <1>1
<1>b. z - p \in Nat
  BY <1>a
<1>3. PICK y \in Nat : y = z - p
  BY <1>b
<1>4. IsSeq(u) /\ Len(u) = y /\ \A n \in 1 .. y : u[n] = s[p + n]
  <2>1. p + 1 \in Int /\ z \in Int /\ p + 1 >= 1 /\ p + 1 <= z + 1 /\ z <= Len(s)
    BY <1>1
  <2>2. IsSeq(u) /\ Len(u) = z - (p + 1) + 1 /\ \A n \in 1 .. z - (p + 1) + 1 : u[n] = s[(p + 1) + n - 1]
    BY <2>1, <1>2, SeqSub
  <2>3. z - (p + 1) + 1 = y
    BY <1>3
  <2>4. \A n \in 1 .. y : (p + 1) + n - 1 = p + n
    OBVIOUS
  <2> QED BY <2>2, <2>3, <2>4
<1>5. PICK f \in [p .. z -> 0 .. Len(src)] :
        /\ f[p] = i /\ f[z] = j
        /\ \A n \in p + 1 .. z : Step(src, f[n - 1], s[n], f[n])
  BY <1>1 DEF Reads
<1>6. PICK e : e = [n \in 0 .. y |-> f[p + n]]
  OBVIOUS
<1>7. \A n \in 0 .. y : p + n \in p .. z
  BY <1>1, <1>3
<1>8. e \in [0 .. y -> 0 .. Len(src)] /\ \A n \in 0 .. y : e[n] = f[p + n]
  BY <1>5, <1>6, <1>7
<1>9. e[0] = i /\ e[y] = j
  <2>1. 0 \in 0 .. y /\ y \in 0 .. y /\ p + 0 = p /\ p + y = z
    BY <1>1, <1>3
  <2> QED BY <2>1, <1>5, <1>8
<1>10. ASSUME NEW n \in 1 .. y PROVE Step(src, e[n - 1], u[n], e[n])
  <2>1. n \in 0 .. y /\ n - 1 \in 0 .. y /\ p + n \in p + 1 .. z /\ p + (n - 1) = (p + n) - 1
    BY <1>1, <1>3
  <2>2. e[n] = f[p + n] /\ e[n - 1] = f[(p + n) - 1] /\ u[n] = s[p + n]
    <3>1. e[n - 1] = f[p + (n - 1)]
      BY <2>1, <1>8
    <3> QED BY <3>1, <2>1, <1>4, <1>8
  <2>3. Step(src, f[(p + n) - 1], s[p + n], f[p + n])
    BY <2>1, <1>5
  <2> QED BY <2>2, <2>3
<1> HIDE DEF Step
<1>11. Reads(src, u, 0, i, j)
  <2>1. \A n \in 0 + 1 .. y : Step(src, e[n - 1], u[n], e[n])
    <3>1. 0 + 1 = 1
      OBVIOUS
    <3> QED BY <3>1, <1>10
  <2> QED BY <2>1, <1>4, <1>8, <1>9 DEF Reads
<1> QED BY <1>1, <1>2, <1>4, <1>11

\* The roles once block h is the executor's and block K + 1 has what followed.
Rerole(role, h, K, d1) ==
    [b \in 1 .. K + 1 |-> IF b = K + 1 THEN role[h]
                          ELSE IF b = h \/ (b # d1 /\ role[b] = Enters(1)) THEN Nowhere ELSE role[b]]

\* What block b of coroutine c is then.
Finished(r, w, role2, disp) ==
    /\ IsSeq(w)
    /\ \A c \in Coros :
          /\ Is(w, role2, disp[c], Enters(c))
          /\ \A b \in 1 .. Len(w) : role2[b].who = c =>
                IsSeq(w[b].stmts) /\ Piece(c, r.body[c], PointsOf(r, c), w, role2, b)

\* Kinds of roles.
LEMMA RolesAre ==
    /\ Nowhere.kind = "nowhere" /\ Nowhere.who = 0
    /\ \A c : /\ Enters(c).kind = "enters" /\ Enters(c).who = c
              /\ Let(c, 0).who = c /\ Exits(c).kind = "exits"
    /\ \A c, i : At(c, i).kind = "at" /\ At(c, i).who = c /\ Let(c, i).kind = "let"
    /\ \A c, n, q : Out(c, n, q).kind = "out"
BY DEF Nowhere, Enters, At, Let, Exits, Out, Role

\* The switch of the first coroutine, once it goes to the new block.
LEMMA RedirectedIs ==
    ASSUME NEW v, IsSeq(v), NEW K, K \in Nat, Len(v) = K + 1, NEW d \in 1 .. K,
           NEW s, NEW t, v[d] = Block(s, t), NEW h, NEW w, w = RedirectTargets(v, d, h, K + 1)
    PROVE  Edited(v, w, d, Block(s, Redirected(t, h, K + 1)))
<1>1. PICK u : u = Redirected(t, h, K + 1)
  OBVIOUS
<1>2. v[d].term = t
  BY BlockIs
<1>3. w = SetTerm(v, d, u)
  BY <1>1, <1>2 DEF RedirectTargets, Redirected
<1>4. d \in 1 .. Len(v)
  OBVIOUS
<1>5. Edited(v, w, d, Block(s, u))
  BY <1>3, <1>4, SetTermIs
<1> QED BY <1>1, <1>5

\* What block h reads behind the region's begin.
LEMMA HeadReads ==
    ASSUME NEW c, NEW src, NEW pts, NEW g, NEW role, NEW h, NEW p, Fragment(c, src, pts, g, role, h, p, h),
           \E n : role[h] = At(c, n)
    PROVE  \E i, j \in 0 .. Len(src) :
              /\ role[h] = At(c, i) /\ p <= Len(g[h].stmts) /\ Reads(src, g[h].stmts, p, i, j)
              /\ Leads(c, src, pts, g, role, i, j, g[h].term) /\ g[h].term.to # h
<1>1. PICK n : role[h] = At(c, n)
  OBVIOUS
<1>2. /\ At(c, n).kind = "at" /\ Enters(c).kind = "enters" /\ Exits(c).kind = "exits"
      /\ (\A i : Let(c, i).kind = "let") /\ (\A m, q : Out(c, m, q).kind = "out")
  BY DEF At, Enters, Let, Out, Exits, Role
<1>3. role[h].kind = "at"
  BY <1>1, <1>2
<1>4. role[h] # Enters(c) /\ role[h] # Exits(c) /\ (\A i : role[h] # Let(c, i))
      /\ (\A m, q : role[h] # Out(c, m, q))
  BY <1>2, <1>3
<1> QED BY <1>4 DEF Fragment

\* The new block of the first coroutine.
LEMMA TailIsPiece ==
    ASSUME NEW r, NEW c, NEW g, NEW role, NEW h, h = RegionOf(r).begin[1],
           Frag(r, c, g, role, h), \E i : role[h] = At(c, i), IsSeq(g[h].stmts),
           NEW w, NEW role2, Moved(g, role, w, role2, h), NEW b, role2[b] = role[h],
           NEW p \in Nat, p = RegionOf(r).begin[2],
           w[b] = Block(SubSeq(g[h].stmts, p + 1, Len(g[h].stmts)), g[h].term)
    PROVE  IsSeq(w[b].stmts) /\ Piece(c, r.body[c], PointsOf(r, c), w, role2, b)
<1>1. PICK src : src = r.body[c]
  OBVIOUS
<1>2. PICK pts : pts = PointsOf(r, c)
  OBVIOUS
<1>3. PICK s : s = g[h].stmts
  OBVIOUS
<1>4. PICK u : u = g[h].term
  OBVIOUS
<1>5. Fragment(c, src, pts, g, role, h, p, h)
  BY <1>1, <1>2 DEF Frag
<1>6. PICK i \in 0 .. Len(src), j \in 0 .. Len(src) :
          /\ role[h] = At(c, i) /\ p <= Len(s) /\ Reads(src, s, p, i, j)
          /\ Leads(c, src, pts, g, role, i, j, u) /\ u.to # h
  BY <1>3, <1>4, <1>5, HeadReads
<1>7. PICK y : y = SubSeq(s, p + 1, Len(s))
  OBVIOUS
<1>8. Reads(src, y, 0, i, j) /\ IsSeq(y)
  BY <1>3, <1>6, <1>7, TailReads
<1>9. w[b].stmts = y /\ w[b].term = u
  <2>1. w[b] = Block(y, u)
    BY <1>3, <1>4, <1>7, Zenon
  <2> QED BY <2>1, BlockIs
<1>10. Leads(c, src, pts, w, role2, i, j, u)
  BY <1>6, LeadsMoved
<1>11. Piece(c, src, pts, w, role2, b)
  BY <1>6, <1>8, <1>9, <1>10 DEF Piece
<1> QED BY <1>1, <1>2, <1>8, <1>9, <1>11

\* The switch of the first coroutine goes to the new block where it went to h.
LEMMA SwitchIsPiece ==
    ASSUME NEW c, NEW src, NEW pts, NEW g, NEW role, NEW h, NEW p, NEW d,
           Fragment(c, src, pts, g, role, h, p, d), role[d] = Enters(c),
           NEW w, NEW role2, Moved(g, role, w, role2, h), role2[d] = Enters(c),
           NEW e \in DOMAIN w, role2[e] = role[h], NEW t, t = g[d].term, NEW u,
           u = Redirected(t, h, e),
           w[d] = Block(g[d].stmts, u)
    PROVE  w[d].stmts = << >> /\ Piece(c, src, pts, w, role2, d)
<1>1. /\ g[d].stmts = << >> /\ OneTarget(t)
      /\ \A n \in 0 .. Len(pts) : Is(g, role, SwitchTo(t, n), At(c, ResumesAt(src, pts, n)))
  <2>1. /\ \A i : Enters(c) # At(c, i) /\ Enters(c) # Let(c, i)
        /\ (\A n, q : Enters(c) # Out(c, n, q)) /\ Enters(c) # Exits(c)
    BY DEF Enters, At, Let, Out, Exits, Role
  <2> QED BY <2>1 DEF Fragment
<1>2. w[d].stmts = << >> /\ w[d].term = u
  BY <1>1, BlockIs
<1>3. u.kind = "switch"
  BY DEF Switch, Redirected
<1>4. ASSUME NEW n \in 0 .. Len(pts) PROVE Is(w, role2, SwitchTo(u, n), At(c, ResumesAt(src, pts, n)))
  <2>1. PICK x : x = SwitchTo(t, n)
    OBVIOUS
  <2>2. PICK y : y = At(c, ResumesAt(src, pts, n))
    OBVIOUS
  <2>3. Is(g, role, x, y) /\ y.kind = "at"
    BY <2>1, <2>2, <1>1, AtKinds
  <2>4. SwitchTo(u, n) = IF x = h THEN e ELSE x
    BY <2>1, <1>1, RedirectIs
  <2>5. x = h => Is(w, role2, e, y)
    BY <2>3 DEF Is
  <2>6. x # h => Is(w, role2, x, y)
    BY <2>3 DEF Moved
  <2> QED BY <2>2, <2>4, <2>5, <2>6
<1> QED BY <1>2, <1>3, <1>4 DEF Piece

-----------------------------------------------------------------------------
(* transform_region makes the machines. *)

\* region_exit disturbs no machine: the block that it splits is in none, and both new ones are in none.
LEMMA ExitStands ==
    ASSUME NEW r, Regioned(r), NEW f, NEW role, Standing(r, f, role), NEW disp, Dispatched(r, f, role, disp),
           NEW w, w = RegionExit(f, RegionOf(r))
    PROVE  \E role2 : Standing(r, w, role2) /\ Dispatched(r, w, role2, disp)
<1>1. PICK L \in Nat : L = Len(r.cfg)
  BY CfgIs DEF IsCfg, IsSeq
<1>2. PICK K \in Nat : K = Len(f)
  BY BlocksBounds DEF Standing
<1>3. PICK e : e = RegionOf(r).end[1]
  OBVIOUS
<1>4. e \in 1 .. L /\ Free(r, e)
  BY <1>1, <1>3, Contract DEF Marks, Free
<1>5. /\ IsBlocks(f) /\ L <= K /\ Places(r, role)
      /\ \A c \in Coros : \A b \in BlocksOf(r, c) : Frag(r, c, f, role, b)
      /\ \A b \in L + 1 .. K : role[b] = Nowhere \/ Manned(r, f, role, b)
      /\ \A b \in 1 .. L : Spotted(r, f, b)
  BY <1>1, <1>2 DEF Standing
<1>6. IsSeq(f) /\ DOMAIN f = 1 .. K /\ e \in 1 .. K /\ K + 1 \in Nat
  BY <1>2, <1>4, <1>5, BlocksBounds
<1>7. PICK x : x = Block(<< >>, Unset)
  OBVIOUS
<1>8. PICK f1 : f1 = Append(f, x)
  OBVIOUS
<1>9. IsSeq(f1) /\ Len(f1) = K + 1 /\ f1[K + 1] = x /\ \A b \in 1 .. K : f1[b] = f[b]
  BY <1>2, <1>6, <1>8, SeqAppend
<1>10. PICK s : s = f[e].stmts
  OBVIOUS
<1>11. PICK u : u = f[e].term
  OBVIOUS
<1>12. IsSeq(s) /\ f[e] = Block(s, u)
  BY <1>2, <1>5, <1>6, <1>10, <1>11 DEF IsBlocks
<1>13. PICK z \in Nat : z = Len(s)
  BY <1>12 DEF IsSeq
<1>14. PICK f2 : f2 = SplitAfter(f1, e, z)
  OBVIOUS
<1>15. PICK kept : kept = SubSeq(s, 1, z)
  OBVIOUS
<1>16. PICK moved : moved = SubSeq(s, z + 1, z)
  OBVIOUS
<1>17. /\ IsSeq(kept) /\ Len(kept) = z /\ \A j \in 1 .. z : kept[j] = s[j]
       /\ IsSeq(moved)
  <2>1. 1 \in Int /\ z \in Int /\ z + 1 \in Int /\ 1 <= z + 1 /\ z + 1 >= 1
    OBVIOUS
  <2>2. /\ IsSeq(SubSeq(s, 1, z)) /\ Len(SubSeq(s, 1, z)) = z - 1 + 1
        /\ \A j \in 1 .. z - 1 + 1 : SubSeq(s, 1, z)[j] = s[1 + j - 1]
    BY <2>1, <1>12, <1>13, SeqSub
  <2>3. IsSeq(SubSeq(s, z + 1, z))
    BY <2>1, <1>12, <1>13, SeqSub
  <2> QED BY <2>2, <2>3, <1>15, <1>16
<1>18. /\ IsSeq(f2) /\ Len(f2) = K + 2 /\ f2[e] = Block(kept, Unset) /\ f2[K + 2] = Block(moved, u)
       /\ \A b \in 1 .. K + 1 : b # e => f2[b] = f1[b]
  <2>1. e \in 1 .. Len(f1) /\ f1[e] = Block(s, u)
    BY <1>6, <1>9, <1>12
  <2>2. Grown(f1, f2, e, Block(SubSeq(s, 1, z), Unset), Block(SubSeq(s, z + 1, Len(s)), u))
    BY <2>1, <1>9, <1>14, SplitIs
  <2>3. Grown(f1, f2, e, Block(kept, Unset), Block(moved, u))
    BY <2>2, <1>13, <1>15, <1>16
  <2>4. PICK a : a = Block(kept, Unset)
    OBVIOUS
  <2>5. PICK y : y = Block(moved, u)
    OBVIOUS
  <2>6. Grown(f1, f2, e, a, y)
    BY <2>3, <2>4, <2>5
  <2>7. IsSeq(f2) /\ Len(f2) = K + 2 /\ f2[e] = a /\ f2[K + 2] = y
        /\ \A b \in 1 .. K + 1 : b # e => f2[b] = f1[b]
    BY <2>6, <1>9 DEF Grown
  <2> QED BY <2>4, <2>5, <2>7
<1>19. PICK out : out = Goto(K + 2)
  OBVIOUS
<1>20. w = SetTerm(f2, K + 1, out)
  <2>1. w = SetTerm(f2, K + 1, Goto(Len(f2)))
    BY <1>2, <1>3, <1>7, <1>8, <1>10, <1>13, <1>14 DEF RegionExit
  <2> QED BY <2>1, <1>18, <1>19
<1>21. PICK new : new = Block(<< >>, out)
  OBVIOUS
<1>22. /\ IsSeq(w) /\ Len(w) = K + 2 /\ w[K + 1] = new
       /\ \A b \in 1 .. K + 2 : b # K + 1 => w[b] = f2[b]
  <2>1. K + 1 \in 1 .. Len(f2)
    BY <1>18
  <2>2. f2[K + 1] = Block(<< >>, Unset)
    BY <1>6, <1>7, <1>9, <1>18
  <2>3. Edited(f2, w, K + 1, Block(<< >>, out))
    BY <2>1, <2>2, <1>18, <1>20, SetTermIs
  <2>4. Edited(f2, w, K + 1, new)
    BY <2>3, <1>21
  <2> QED BY <2>4, <1>18 DEF Edited
<1>23. w[e] = Block(kept, Unset) /\ w[K + 2] = Block(moved, u)
  BY <1>6, <1>18, <1>22
<1>24. ASSUME NEW b \in 1 .. K, b # e PROVE w[b] = f[b]
  <2>1. b \in 1 .. K + 2 /\ b \in 1 .. K + 1 /\ b # K + 1
    BY <1>24
  <2> QED BY <2>1, <1>9, <1>18, <1>22, <1>24
<1>25. DOMAIN w = 1 .. K + 2
  BY <1>22, Bounds
<1>26. IsBlocks(w)
  <2> SUFFICES ASSUME NEW b \in 1 .. K + 2
               PROVE  IsSeq(w[b].stmts) /\ w[b] = Block(w[b].stmts, w[b].term)
    BY <1>22 DEF IsBlocks
  <2>1. CASE b = e
    BY <2>1, <1>17, <1>23, BlockIs
  <2>2. CASE b = K + 1
    BY <2>2, <1>21, <1>22, BlockIs, SeqEmpty
  <2>3. CASE b = K + 2
    BY <2>3, <1>17, <1>23, BlockIs
  <2>4. CASE b \in 1 .. K /\ b # e
    BY <2>4, <1>2, <1>5, <1>24 DEF IsBlocks
  <2> QED BY <2>1, <2>2, <2>3, <2>4
<1>27. PICK role2 : role2 = [b \in 1 .. K + 2 |-> IF b <= K THEN role[b] ELSE Nowhere]
  OBVIOUS
<1>28. /\ \A b \in 1 .. K : role2[b] = role[b]
       /\ \A b \in K + 1 .. K + 2 : role2[b] = Nowhere
  BY <1>27
<1>29. Extends(f, role, w, role2)
  BY <1>6, <1>25, <1>28 DEF Extends
<1>30. ASSUME NEW c, NEW b \in 1 .. K, b # e, Frag(r, c, f, role, b) PROVE Frag(r, c, w, role2, b)
  <2>1. b \in DOMAIN f /\ w[b] = f[b]
    BY <1>6, <1>24, <1>30
  <2> QED BY <2>1, <1>29, <1>30, FragKeeps
<1>31. Places(r, role2)
  <2>1. \A c \in Coros : \A b \in BlocksOf(r, c) : b \in 1 .. K
    BY <1>1, <1>5, Contract
  <2> QED BY <2>1, <1>1, <1>5, <1>28 DEF Places
<1>32. \A c \in Coros : \A b \in BlocksOf(r, c) : Frag(r, c, w, role2, b)
  <2> TAKE c \in Coros
  <2> TAKE b \in BlocksOf(r, c)
  <2>1. b \in 1 .. K /\ b # e
    BY <1>1, <1>4, <1>5, Contract DEF Free
  <2>2. Frag(r, c, f, role, b)
    BY <1>5
  <2> QED BY <2>1, <2>2, <1>30
<1>33. \A b \in L + 1 .. K + 2 : role2[b] = Nowhere \/ Manned(r, w, role2, b)
  <2> TAKE b \in L + 1 .. K + 2
  <2>1. CASE b \in K + 1 .. K + 2
    BY <2>1, <1>28
  <2>2. CASE b \in 1 .. K
    <3>1. b \in L + 1 .. K /\ b # e
      BY <2>2, <1>4
    <3>2. role2[b] = role[b]
      BY <2>2, <1>28
    <3>3. role[b] = Nowhere \/ Manned(r, f, role, b)
      BY <3>1, <1>5
    <3>4. CASE Manned(r, f, role, b)
      BY <2>2, <3>1, <3>2, <3>4, <1>30 DEF Manned
    <3> QED BY <3>2, <3>3, <3>4
  <2> QED BY <2>1, <2>2
<1>34. \A b \in 1 .. L : Spotted(r, w, b)
  <2> TAKE b \in 1 .. L
  <2>1. b \in 1 .. K /\ Spotted(r, f, b)
    BY <1>5
  <2>2. CASE b # e
    BY <2>1, <2>2, <1>24 DEF Spotted
  <2>3. CASE b = e
    <3>1. w[b].stmts = kept
      BY <2>3, <1>23, BlockIs
    <3> QED BY <2>1, <2>3, <3>1, <1>10, <1>13, <1>17 DEF Spotted
  <2> QED BY <2>2, <2>3
<1>35. Standing(r, w, role2)
  BY <1>1, <1>5, <1>22, <1>26, <1>31, <1>32, <1>33, <1>34 DEF Standing
<1>36. Dispatched(r, w, role2, disp)
  BY <1>29, IsKeeps DEF Dispatched
<1> QED BY <1>35, <1>36

\* finish_region: the first coroutine's entry may move, and every fragment is a piece then.
LEMMA FinishMakes ==
    ASSUME NEW r, Regioned(r), NEW g, NEW role, Standing(r, g, role),
           NEW disp, Dispatched(r, g, role, disp), NEW v, Headed(r, g, v),
           NEW h, h = RegionOf(r).begin[1], NEW w,
           w = IF RegionOf(r).coroutines[1].begin[1] = h
               THEN RedirectTargets(v, disp[1], h, Len(v)) ELSE v
    PROVE  \E role2 : Finished(r, w, role2, disp)
<1>1. PICK L \in Nat : L = Len(r.cfg)
  BY CfgIs DEF IsCfg, IsSeq
<1>2. PICK p : p = RegionOf(r).begin[2]
  OBVIOUS
<1>3. p \in Nat
  <2>1. p \in 1 .. Len(r.cfg[h].stmts)
    BY <1>2, Contract DEF Marks
  <2> QED BY <2>1
<1>4. h \in 1 .. L
  BY <1>1, HeadIs
<1>5. \/ role[h] = Nowhere /\ RegionOf(r).coroutines[1].begin[1] # h
      \/ /\ 1 \in Coros /\ h \in BlocksOf(r, 1) /\ (\E i : role[h] = At(1, i))
         /\ RegionOf(r).coroutines[1].begin[1] = h
  BY HeadIs
<1>6. /\ IsBlocks(g) /\ L <= Len(g)
      /\ \A c \in Coros : \A b \in BlocksOf(r, c) : Frag(r, c, g, role, b) /\ role[b].who = c
      /\ \A b \in 1 .. L : Free(r, b) => role[b] = Nowhere
      /\ \A b \in L + 1 .. Len(g) : role[b] = Nowhere \/ Frag(r, role[b].who, g, role, b)
  <2>1. \A c \in Coros : \A b \in BlocksOf(r, c) : role[b] = At(c, StartOf(r, b))
    BY DEF Standing, Places
  <2>2. \A c \in Coros : \A b \in BlocksOf(r, c) : role[b].who = c
    BY <2>1, RolesAre
  <2> QED BY <2>2, <1>1 DEF Standing, Places, Manned
<1>7. PICK K \in Nat : K = Len(g)
  BY <1>6, BlocksBounds
<1>8. IsSeq(g) /\ DOMAIN g = 1 .. K /\ h \in 1 .. K
  BY <1>4, <1>6, <1>7, BlocksBounds
<1>9. PICK s : s = g[h].stmts
  OBVIOUS
<1>10. PICK y : y = Block(SubSeq(s, p + 1, Len(s)), g[h].term)
  OBVIOUS
<1>11. IsSeq(v) /\ Len(v) = K + 1 /\ v[h] = Block(SubSeq(s, 1, p), Unset) /\ v[K + 1] = y
       /\ \A b \in 1 .. K : b # h => v[b] = g[b]
  <2>1. PICK x : x = Block(SubSeq(s, 1, p), Unset)
    OBVIOUS
  <2>2. Grown(g, v, h, x, y)
    BY <2>1, <1>2, <1>9, <1>10 DEF Headed
  <2> QED BY <2>1, <2>2, <1>7 DEF Grown
<1>12. N \in Nat /\ Coros = 1 .. N /\ 1 \in Coros /\ 0 \notin Coros
  BY RegionAssumption DEF Coros
<1>13. \A c \in Coros : disp[c] \in 1 .. K /\ role[disp[c]] = Enters(c) /\ disp[c] > L
  BY <1>1, <1>8 DEF Dispatched, Is
<1>14. PICK d1 : d1 = disp[1]
  OBVIOUS
<1>15. d1 \in 1 .. K /\ role[d1] = Enters(1) /\ d1 # h /\ d1 # K + 1
  BY <1>4, <1>12, <1>13, <1>14
<1>16. PICK role2 : role2 = Rerole(role, h, K, d1)
  OBVIOUS
<1>17. /\ role2[K + 1] = role[h] /\ role2[h] = Nowhere /\ role2[d1] = Enters(1)
       /\ \A b \in 1 .. K : b # h /\ (b = d1 \/ role[b] # Enters(1)) => role2[b] = role[b]
       /\ \A b \in 1 .. K : role2[b] = Nowhere \/ (b # h /\ role2[b] = role[b] /\ (b = d1 \/ role[b] # Enters(1)))
  <2>1. \A b \in 1 .. K : b \in 1 .. K + 1 /\ b # K + 1
    OBVIOUS
  <2>2. K + 1 \in 1 .. K + 1
    OBVIOUS
  <2>3. role2[K + 1] = role[h]
    BY <2>2, <1>16 DEF Rerole
  <2>4. \A b \in 1 .. K : role2[b] = IF b = h \/ (b # d1 /\ role[b] = Enters(1)) THEN Nowhere ELSE role[b]
    BY <2>1, <1>16 DEF Rerole
  <2> QED BY <2>3, <2>4, <1>8, <1>15
<1>18. /\ IsSeq(w) /\ Len(w) = K + 1
       /\ \A b \in 1 .. K + 1 : b # d1 \/ role[h] = Nowhere => w[b] = v[b]
       /\ role[h] # Nowhere => w[d1] = Block(g[d1].stmts, Redirected(g[d1].term, h, K + 1))
  <2>1. CASE RegionOf(r).coroutines[1].begin[1] # h
    <3>1. w = v /\ role[h] = Nowhere
      BY <2>1, <1>5
    <3> QED BY <3>1, <1>11
  <2>2. CASE RegionOf(r).coroutines[1].begin[1] = h
    <3>1. w = RedirectTargets(v, d1, h, K + 1)
      BY <2>2, <1>11, <1>14
    <3>2. PICK t : t = g[d1].term
      OBVIOUS
    <3>3. PICK x : x = g[d1].stmts
      OBVIOUS
    <3>4. v[d1] = Block(x, t)
      <4>1. g[d1] = Block(x, t)
        BY <3>2, <3>3, <1>6, <1>7, <1>15 DEF IsBlocks
      <4> QED BY <4>1, <1>11, <1>15
    <3>5. Edited(v, w, d1, Block(x, Redirected(t, h, K + 1)))
      BY <3>1, <3>4, <1>11, <1>15, RedirectedIs
    <3>6. /\ IsSeq(w) /\ Len(w) = K + 1 /\ w[d1] = Block(x, Redirected(t, h, K + 1))
          /\ \A b \in 1 .. K + 1 : b # d1 => w[b] = v[b]
      BY <3>5, <1>11 DEF Edited
    <3>7. role[h] # Nowhere
      BY <2>2, <1>5, AtKinds
    <3> QED BY <3>2, <3>3, <3>6, <3>7
  <2> QED BY <2>1, <2>2
<1>19. DOMAIN w = 1 .. K + 1 /\ K + 1 \in 1 .. K + 1 /\ \A b \in 1 .. K : b \in 1 .. K + 1 /\ b # K + 1
  BY <1>18, Bounds
<1>20. Moved(g, role, w, role2, h)
  <2> SUFFICES ASSUME NEW b, NEW x, Is(g, role, b, x), b # h, x.kind # "enters"
               PROVE  Is(w, role2, b, x)
    BY DEF Moved
  <2>1. b \in 1 .. K /\ role[b] = x
    BY <1>8 DEF Is
  <2>2. x # Enters(1)
    BY RolesAre
  <2>3. role2[b] = x
    BY <2>1, <2>2, <1>17
  <2> QED BY <2>1, <2>3, <1>19 DEF Is
<1>21. ASSUME NEW c \in Coros PROVE Is(w, role2, disp[c], Enters(c))
  <2>1. PICK d : d = disp[c]
    OBVIOUS
  <2>2. d \in 1 .. K /\ role[d] = Enters(c) /\ d # h
    BY <2>1, <1>4, <1>13
  <2>3. d = d1 \/ role[d] # Enters(1)
    <3>1. c = 1 \/ Enters(c) # Enters(1)
      BY RolesAre
    <3> QED BY <3>1, <2>1, <2>2, <1>14
  <2>4. role2[d] = Enters(c)
    BY <2>2, <2>3, <1>17
  <2> QED BY <2>1, <2>2, <2>4, <1>19 DEF Is
<1>22. role[h].kind \in {"at", "nowhere"} /\ (role[h] = Nowhere \/ role[h].who = 1) /\ Nowhere.who = 0
  BY <1>5, RolesAre
<1>23. ASSUME NEW c \in Coros, NEW b \in 1 .. K + 1, role2[b].who = c
       PROVE  IsSeq(w[b].stmts) /\ Piece(c, r.body[c], PointsOf(r, c), w, role2, b)
  <2>1. CASE b = K + 1
    <3>1. role[h].who = c
      BY <2>1, <1>17, <1>23
    <3>2. role[h] # Nowhere
      BY <3>1, <1>12, <1>22
    <3>3. c = 1 /\ h \in BlocksOf(r, 1) /\ \E i : role[h] = At(c, i)
      BY <3>1, <3>2, <1>5, <1>22
    <3>4. Frag(r, c, g, role, h)
      BY <3>3, <1>6
    <3>5. IsSeq(g[h].stmts)
      BY <1>6, <1>7, <1>8 DEF IsBlocks
    <3>6. role2[b] = role[h]
      BY <2>1, <1>17
    <3>7. w[b] = Block(SubSeq(g[h].stmts, p + 1, Len(g[h].stmts)), g[h].term)
      <4>1. w[b] = y
        BY <2>1, <1>11, <1>15, <1>18, <1>19
      <4> QED BY <4>1, <1>9, <1>10, Zenon
    <3> QED BY ZenonT(40), <3>3, <3>4, <3>5, <3>6, <3>7, <1>2, <1>3, <1>20, TailIsPiece
  <2>2. CASE b \in 1 .. K
    <3>1. b # h /\ role2[b] = role[b] /\ (b = d1 \/ role[b] # Enters(1)) /\ role[b].who = c
      <4>1. role2[b] # Nowhere
        BY <1>12, <1>22, <1>23
      <4> QED BY <4>1, <2>2, <1>17, <1>23
    <3>2. Frag(r, c, g, role, b)
      <4>1. CASE b \in L + 1 .. K
        BY <4>1, <3>1, <1>6, <1>7, <1>12, <1>22
      <4>2. CASE b \in 1 .. L
        <5>1. ~Free(r, b)
          BY <4>2, <3>1, <1>6, <1>12, <1>22
        <5>2. PICK d \in Coros : b \in BlocksOf(r, d)
          BY <5>1 DEF Free
        <5>3. d = c
          BY <5>2, <3>1, <1>6
        <5> QED BY <5>2, <5>3, <1>6
      <4> QED BY <4>1, <4>2, <2>2
    <3>3. PICK src : src = r.body[c]
      OBVIOUS
    <3>4. PICK pts : pts = PointsOf(r, c)
      OBVIOUS
    <3>5. Fragment(c, src, pts, g, role, h, p, b)
      BY <3>2, <3>3, <3>4, <1>2 DEF Frag
    <3>6. CASE b # d1 \/ role[h] = Nowhere
      <4>1. w[b] = g[b]
        BY <3>1, <3>6, <2>2, <1>11, <1>18, <1>19
      <4>2. IsSeq(w[b].stmts)
        BY <4>1, <2>2, <1>6, <1>7 DEF IsBlocks
      <4>3. role[b] = Enters(c) => role[h].who # c
        <5>1. CASE role[h] = Nowhere
          BY <5>1, <1>12, <1>22
        <5>2. CASE role[h] # Nowhere
          BY <5>2, <3>1, <3>6, <1>22
        <5> QED BY <5>1, <5>2
      <4>4. Piece(c, src, pts, w, role2, b)
        BY <4>1, <4>3, <3>1, <3>5, <1>20, <1>22, FragmentIsPiece
      <4> QED BY <4>2, <4>4, <3>3, <3>4
    <3>7. CASE b = d1 /\ role[h] # Nowhere
      <4>1. c = 1 /\ role[b] = Enters(c) /\ role2[b] = Enters(c)
        BY <3>1, <3>7, <1>15, RolesAre
      <4>2. PICK t : t = g[b].term
        OBVIOUS
      <4>3. PICK u : u = Redirected(t, h, K + 1)
        OBVIOUS
      <4>4. w[b] = Block(g[b].stmts, u)
        BY <3>7, <4>2, <4>3, <1>18
      <4>5. PICK e : e = K + 1
        OBVIOUS
      <4>6. e \in DOMAIN w /\ role2[e] = role[h] /\ u = Redirected(t, h, e)
        BY <4>3, <4>5, <1>17, <1>19
      <4>7. w[b].stmts = << >> /\ Piece(c, src, pts, w, role2, b)
        BY <4>1, <4>2, <4>4, <4>6, <3>5, <1>20, SwitchIsPiece
      <4> QED BY <4>7, <3>3, <3>4, SeqEmpty
    <3> QED BY <3>6, <3>7
  <2> QED BY <2>1, <2>2
<1>24. Finished(r, w, role2, disp)
  BY <1>18, <1>21, <1>23 DEF Finished
<1> QED BY <1>24

\* What a suspension point refers to.
LEMMA PointsSuspend ==
    ASSUME NEW r, Regioned(r), NEW c \in Coros, NEW pts, pts = PointsOf(r, c), NEW src, src = r.body[c]
    PROVE  /\ Len(pts) \in Nat /\ Len(pts) < DONE_STATE
           /\ \A n \in 1 .. Len(pts) : pts[n][3].src \in DOMAIN src /\ src[pts[n][3].src][1] \in Suspensions
<1>1. IsSeq(pts) /\ Len(pts) < DONE_STATE
  BY PointFacts, Contract
<1>2. ASSUME NEW n \in 1 .. Len(pts)
      PROVE  pts[n][3].src \in DOMAIN src /\ src[pts[n][3].src][1] \in Suspensions
  <2>1. PICK b, i : pts[n] = Place(r.cfg, b, i) /\ Suspends(r, c, b, i)
    BY PointFacts
  <2>2. PICK s : s = r.cfg[b].stmts
    OBVIOUS
  <2>3. pts[n][3] = s[i] /\ b \in BlocksOf(r, c) /\ i \in 1 .. Len(s) /\ s[i].op \in Suspensions
    BY <2>1, <2>2 DEF Place, Suspends
  <2>4. PICK at : at = r.at[b]
    OBVIOUS
  <2>5. Text(src, s, at)
    BY <2>2, <2>3, <2>4, BlockText
  <2>6. PICK j : j = s[i].src
    OBVIOUS
  <2>7. j \in 1 .. Len(src) /\ src[j][1] = s[i].op
    BY <2>3, <2>5, <2>6, TextSteps
  <2>8. DOMAIN src = 1 .. Len(src)
    BY <2>5, Bounds DEF Text
  <2> QED BY <2>3, <2>6, <2>7, <2>8
<1> QED BY <1>1, <1>2 DEF IsSeq

\* The record that the transform carries.
IsMade(t) == \E x, y, z : t = [blocks |-> x, dispatch |-> y, points |-> z]

\* AddMachines makes one.
LEMMA MachinesAreRecord ==
    ASSUME NEW r, Regioned(r), NEW t, t = AddMachines(r.cfg, RegionOf(r).coroutines)
    PROVE  IsMade(t)
<1>1. PICK co : co = RegionOf(r).coroutines
  OBVIOUS
<1>2. N \in Nat /\ N # 0 /\ DOMAIN co = 1 .. N
  BY <1>1, Contract, RegionAssumption DEF Coros
<1>3. PICK h : MachineFold(h, r.cfg, co, N)
  BY <1>2, MachineSteps
<1>4. N \in 1 .. N
  BY <1>2
<1>5. PICK u, e : t = AddMachine(u, r.cfg, e)
  BY <1>1, <1>3, <1>4 DEF MachineFold
<1> QED BY <1>5 DEF AddMachine, IsMade

\* The transform of a region that the IR builder laid out as it should makes a machine for
\* every coroutine: the theorem that the executors' invariant rests on.
THEOREM TransformMakes ==
    ASSUME NEW r, Regioned(r)
    PROVE  \E role : Machines(Transform(r.cfg), r.body, role)
<1>1. PICK reg : reg = RegionOf(r)
  OBVIOUS
<1>2. PICK t : t = AddMachines(r.cfg, reg.coroutines)
  OBVIOUS
<1>3. PICK role : Machined(r, N, t, role)
  BY <1>1, <1>2, AllMachined
<1>4. N \in Nat /\ Coros = 1 .. N
  BY RegionAssumption DEF Coros
<1>5. PICK f : f = t.blocks
  OBVIOUS
<1>6. Standing(r, f, role)
  BY <1>3, <1>5, MachinedStands
<1>7. PICK disp : disp = t.dispatch
  OBVIOUS
<1>8. /\ \A c \in Coros : Is(f, role, disp[c], Enters(c)) /\ disp[c] > Len(r.cfg)
      /\ \A c \in Coros : t.points[c] = PointsOf(r, c)
  BY <1>3, <1>4, <1>5, <1>7 DEF Machined
<1>a. PICK q : q = RegionExit(f, reg)
  OBVIOUS
<1>b. PICK role1 : Standing(r, q, role1) /\ Dispatched(r, q, role1, disp)
  <2>1. Dispatched(r, f, role, disp)
    BY <1>8 DEF Dispatched
  <2> QED BY <2>1, <1>1, <1>6, <1>a, ExitStands
<1>9. PICK g : g = Erase(EraseAll(q, reg.coroutines), reg)
  OBVIOUS
<1>10. Standing(r, g, role1) /\ Len(g) = Len(q)
  BY <1>1, <1>9, <1>b, AllErased
<1>11. DOMAIN g = DOMAIN q
  <2>1. IsBlocks(g) /\ IsBlocks(q)
    BY <1>10, <1>b DEF Standing
  <2> QED BY <2>1, <1>10, BlocksBounds
<1>12. Dispatched(r, g, role1, disp)
  BY <1>11, <1>b DEF Dispatched, Is
<1>13. PICK h : h = reg.begin[1]
  OBVIOUS
<1>14. PICK v : v = SplitAfter(g, h, reg.begin[2])
  OBVIOUS
<1>15. Headed(r, g, v)
  <2>1. h \in 1 .. Len(g)
    <3>1. h \in 1 .. Len(r.cfg)
      BY <1>1, <1>13, Contract DEF Marks
    <3>2. IsBlocks(g) /\ Len(r.cfg) <= Len(g)
      BY <1>10 DEF Standing
    <3>3. Len(g) \in Nat
      BY <3>2, BlocksBounds
    <3> QED BY <3>1, <3>2, <3>3
  <2>2. PICK s : s = g[h].stmts
    OBVIOUS
  <2>3. PICK u : u = g[h].term
    OBVIOUS
  <2>4. IsSeq(g) /\ g[h] = Block(s, u)
    BY <2>1, <2>2, <2>3, <1>10 DEF Standing, IsBlocks
  <2>5. PICK p : p = reg.begin[2]
    OBVIOUS
  <2>6. Grown(g, SplitAfter(g, h, p), h, Block(SubSeq(s, 1, p), Unset), Block(SubSeq(s, p + 1, Len(s)), u))
    BY <2>1, <2>4, SplitIs
  <2> QED BY <2>2, <2>3, <2>5, <2>6, <1>1, <1>13, <1>14 DEF Headed
<1>16. PICK w : w = FinishRegion(q, reg, disp)
  OBVIOUS
<1>17. w = IF reg.coroutines[1].begin[1] = h THEN RedirectTargets(v, disp[1], h, Len(v)) ELSE v
  BY <1>9, <1>13, <1>14, <1>16 DEF FinishRegion
<1>18. \E role2 : Finished(r, w, role2, disp)
  BY <1>1, <1>10, <1>12, <1>13, <1>15, <1>17, FinishMakes
<1>19. PICK role2 : Finished(r, w, role2, disp)
  BY <1>18
<1>20. PICK co : co = Transform(r.cfg)
  OBVIOUS
<1>21. co.blocks = w /\ co.dispatch = disp /\ co.points = t.points
  <2>1. NextRegion(r.cfg) = reg
    BY <1>1 DEF RegionOf
  <2>2. co = [t EXCEPT !.blocks = FinishRegion(RegionExit(t.blocks, reg), reg, t.dispatch)]
    BY <2>1, <1>2, <1>20 DEF Transform
  <2>3. PICK x, y, z : t = [blocks |-> x, dispatch |-> y, points |-> z]
    <3>1. t = AddMachines(r.cfg, RegionOf(r).coroutines)
      BY <1>1, <1>2
    <3>2. IsMade(t)
      BY <3>1, MachinesAreRecord
    <3> QED BY <3>2 DEF IsMade
  <2> QED BY <2>2, <2>3, <1>5, <1>7, <1>16, <1>a
<1>22. ASSUME NEW c \in Coros
       PROVE  IsMachine(c, r.body[c], co.points[c], co.blocks, co.dispatch[c], role2)
  <2>1. PICK src : src = r.body[c]
    OBVIOUS
  <2>2. PICK pts : pts = PointsOf(r, c)
    OBVIOUS
  <2>3. /\ Len(pts) \in Nat /\ Len(pts) < DONE_STATE
        /\ \A n \in 1 .. Len(pts) : pts[n][3].src \in DOMAIN src /\ src[pts[n][3].src][1] \in Suspensions
    BY <2>1, <2>2, PointsSuspend
  <2>4. IsSeq(w) /\ Is(w, role2, disp[c], Enters(c))
        /\ \A b \in 1 .. Len(w) : role2[b].who = c =>
                IsSeq(w[b].stmts) /\ Piece(c, src, pts, w, role2, b)
    BY <2>1, <2>2, <1>19 DEF Finished
  <2>5. IsList(w) /\ \A x : IsSeq(x) => IsList(x)
    BY <2>4, SeqIs
  <2>6. \A b \in DOMAIN w : role2[b].who = c => IsList(w[b].stmts) /\ Piece(c, src, pts, w, role2, b)
    BY <2>4, <2>5 DEF IsList
  <2>7. IsMachine(c, src, pts, w, disp[c], role2)
    BY <2>3, <2>4, <2>5, <2>6 DEF IsMachine
  <2>8. co.points[c] = pts
    BY <2>2, <1>8, <1>21
  <2> QED BY <2>1, <2>7, <2>8, <1>21
<1>23. Machines(co, r.body, role2)
  BY <1>22 DEF Machines
<1> QED BY <1>20, <1>23
=============================================================================
