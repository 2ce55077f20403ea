------------------------- MODULE StateMachineProofs -------------------------
(***************************************************************************)
(* Theorems about transform_to_state_machine and validate_layout, for      *)
(* every set of functions, with any number of blocks, statements and       *)
(* locals, every liveness the host may report and every number of reserved *)
(* slots.                                                                  *)
(*                                                                         *)
(* The first inductive invariant says, at every turn of the two loops,     *)
(* what the blocks still to be cut hold, which states the layout has, and  *)
(* which sites have their live locals in the tables.                       *)
(*                                                                         *)
(* The second half proves that the state machine that a host makes of the  *)
(* layout does what the function did before it was cut: the refinement of  *)
(* AsyncFn. First liveness, as the statements of a path see it; then what  *)
(* the blocks of the cut function hold and where each state resumes        *)
(* (CutOut), which the second loop of the transform establishes, turn by   *)
(* turn; and last the machine, whose registers and slots agree with the    *)
(* original on what is live (Agree), step by step.                         *)
(***************************************************************************)
EXTENDS StateMachine, QueueLemmas

-----------------------------------------------------------------------------
(* The inductive invariant of the transform. *)

FnPlaces == UNION {{b} \X DOMAIN fn.stmts[b] : b \in DOMAIN fn.stmts}

\* Statements lo + 1 to hi of the original block o.
Segment(o, lo, hi) == [i \in 1 .. hi - lo |-> <<o, lo + i>>]

Kinds(blocks) ==
    [kind : {"DirectYield"}]
    \cup [kind : {"CrossFnCallInit"}, resume_check : blocks]
    \cup [kind : {"CrossFnCallResume"}, done_block : blocks, result : Locals]

Tabled(blocks) == Seq(blocks \X Seq(Slots \X Locals))
Yields(blocks) == Seq(blocks \X Nat)
Sorts(blocks) == Seq(blocks \X Kinds(blocks))
BlockType == [stmts : Seq(FnPlaces), home : 0 .. Len(fn.stmts)]
LayoutType ==
    [resume_entries : Seq(DOMAIN cfg), yield_blocks : Yields(DOMAIN cfg),
     yield_saves : Tabled(DOMAIN cfg), resume_loads : Tabled(DOMAIN cfg),
     block_kinds : Sorts(DOMAIN cfg)]

FnInv == fn \in Functions /\ liveness \in [Sites(fn) -> Seq(Locals)]

\* The sites are those of the function, in order, once it has been scanned.
SitesInv ==
    /\ phase \in {"scan", "split", "lift", "run"}
    /\ phase \in {"split", "lift"} => fn.suspending
    /\ sites \in Seq(Sites(fn))
    /\ \A i, j \in DOMAIN sites : i < j => Before(sites[i], sites[j])
    /\ IF phase # "scan" /\ fn.suspending THEN Range(sites) = Sites(fn) ELSE sites = << >>
    /\ turn \in 1 .. Len(sites) + 1

\* How many sites have been cut, and how many have had their captures lifted.
CutSites == IF phase = "split" THEN turn - 1 ELSE Len(sites)
LiftedSites == IF phase = "lift" THEN turn - 1 ELSE IF phase = "run" THEN Len(sites) ELSE 0

\* Every cut site has its state: where it yields, and where it resumes.
LayoutInv ==
    /\ cfg \in Seq(BlockType) /\ Len(fn.stmts) <= Len(cfg)
    /\ siteYield \in Seq(DOMAIN cfg) /\ Len(siteYield) = CutSites
    /\ siteResume \in Seq(DOMAIN cfg) /\ Len(siteResume) = CutSites
    /\ layout \in LayoutType
    /\ Len(layout.resume_entries) = IF phase # "scan" /\ fn.suspending THEN CutSites + 1 ELSE 0
    /\ Len(layout.yield_blocks) = CutSites
    /\ \A i \in DOMAIN layout.yield_blocks : layout.yield_blocks[i] = <<siteYield[i], i>>
    /\ \A i \in DOMAIN layout.block_kinds : layout.block_kinds[i][2].kind # "CrossFnCallResume" =>
           \E j \in DOMAIN siteYield : siteYield[j] = layout.block_kinds[i][1]
    /\ sites = << >> => DOMAIN layout.block_kinds = {}

\* While blocks are cut: those behind the current one are whole, and the block the
\* next site of the current one is in holds what is behind the site before it.
CutInv ==
    phase \in {"scan", "split"} =>
    /\ cur \in [orig : DOMAIN fn.stmts, block : DOMAIN cfg, prev : Nat]
    /\ \A b \in DOMAIN fn.stmts : turn = 1 \/ b > cur.orig =>
           cfg[b] = [stmts |-> Segment(b, 0, Len(fn.stmts[b])), home |-> b]
    /\ IF turn = 1 THEN cur.prev = 0
       ELSE /\ sites[turn - 1] = <<cur.orig, cur.prev>>
            /\ cfg[cur.block] = [stmts |-> Segment(cur.orig, cur.prev, Len(fn.stmts[cur.orig])),
                                 home |-> cur.orig]

\* A local that has a slot has it for itself, behind the reserved ones.
SlotsInv ==
    /\ DOMAIN slots \subseteq Locals /\ slots \in [DOMAIN slots -> Nat]
    /\ \A v \in DOMAIN slots : ReservedSlots <= slots[v] /\ slots[v] < NextSlot
    /\ \A v, w \in DOMAIN slots : slots[v] = slots[w] => v = w

\* What a site saves and loads.
Entries(k) == LET live == Lookup(sites[k]) IN [j \in DOMAIN live |-> <<slots[live[j]], live[j]>>]

\* Every site that was lifted has saved and loads its live locals, and nothing else does.
TablesInv ==
    /\ Len(layout.yield_saves) = Len(layout.resume_loads)
    /\ \A i \in DOMAIN layout.yield_saves : \E k \in 1 .. LiftedSites :
           /\ Lookup(sites[k]) # << >>
           /\ layout.yield_saves[i] = <<siteYield[k], Entries(k)>>
           /\ layout.resume_loads[i] = <<siteResume[k], Entries(k)>>
    /\ \A k \in 1 .. LiftedSites :
           /\ Range(Lookup(sites[k])) \subseteq DOMAIN slots
           /\ Lookup(sites[k]) # << >> =>
                \E i \in DOMAIN layout.yield_saves :
                    /\ layout.yield_saves[i] = <<siteYield[k], Entries(k)>>
                    /\ layout.resume_loads[i] = <<siteResume[k], Entries(k)>>

TransInv == FnInv /\ SitesInv /\ LayoutInv /\ CutInv /\ SlotsInv /\ TablesInv

\* The machine is at a statement of a block, and its frame is of the layout.
RunInv ==
    /\ IF phase # "run" THEN at = <<1, 1>>
       ELSE at # << >> => /\ at = <<at[1], at[2]>> /\ at[1] \in DOMAIN cfg
                          /\ at[2] \in 1 .. Len(cfg[at[1]].stmts) + 1
    /\ ~fn.suspending => at # << >>
    /\ frame \in [state_id : 0 .. Len(sites), saved : [Slots -> Data \cup {Undef}]]
    /\ regs \in [Locals -> Data \cup {Undef}] /\ env \in [Locals -> Data \cup {Undef}]
    /\ seen \in Data \cup {Undef} /\ done \in BOOLEAN

SMInv == TransInv /\ RunInv

-----------------------------------------------------------------------------
(* Functions, sites, and cuts. *)

\* What is assumed of a function.
LEMMA FnFacts ==
    ASSUME fn \in Functions
    PROVE  /\ Len(fn.stmts) \in Nat /\ Len(fn.stmts) > 0
           /\ DOMAIN fn.stmts = 1 .. Len(fn.stmts) /\ 1 \in DOMAIN fn.stmts
           /\ \A b \in DOMAIN fn.stmts : /\ fn.stmts[b] \in Seq(Statements)
                                         /\ Len(fn.stmts[b]) \in Nat
                                         /\ DOMAIN fn.stmts[b] = 1 .. Len(fn.stmts[b])
                                         /\ fn.succ[b] \subseteq 0 .. Len(fn.stmts)
           /\ \A p : p \in FnPlaces <=> /\ p = <<p[1], p[2]>>
                                        /\ p[1] \in DOMAIN fn.stmts /\ p[2] \in DOMAIN fn.stmts[p[1]]
           /\ \A p \in FnPlaces : StmtAt(p) \in Statements /\ p[1] \in Nat /\ p[2] \in Nat /\ p[2] > 0
           /\ Sites(fn) = {p \in FnPlaces : Classify(StmtAt(p))}
           /\ fn.suspending \in BOOLEAN
<1>1. /\ fn.stmts \in Seq(Seq(Statements)) /\ fn.stmts # << >> /\ fn.suspending \in BOOLEAN
      /\ fn.succ \in [DOMAIN fn.stmts -> SUBSET (0 .. Len(fn.stmts))]
  BY FunctionsAssumption
<1> DEFINE S == Seq(Statements)
<1>2. /\ Len(fn.stmts) \in Nat /\ Len(fn.stmts) > 0
      /\ DOMAIN fn.stmts = 1 .. Len(fn.stmts) /\ 1 \in DOMAIN fn.stmts
  <2> HIDE DEF S
  <2>1. fn.stmts \in Seq(S)  BY <1>1 DEF S
  <2> QED BY <2>1, <1>1, SeqSet
<1>3. \A b \in DOMAIN fn.stmts : fn.stmts[b] \in S
  <2> HIDE DEF S
  <2>1. fn.stmts \in Seq(S)  BY <1>1 DEF S
  <2> QED BY <2>1, <1>2, ElementOfSeq
<1>4. \A b \in DOMAIN fn.stmts : Len(fn.stmts[b]) \in Nat /\ DOMAIN fn.stmts[b] = 1 .. Len(fn.stmts[b])
  BY <1>3, LenProperties
<1>5. \A b \in DOMAIN fn.stmts : fn.succ[b] \subseteq 0 .. Len(fn.stmts)
  BY <1>1
<1>6. \A p : p \in FnPlaces <=> /\ p = <<p[1], p[2]>>
                                /\ p[1] \in DOMAIN fn.stmts /\ p[2] \in DOMAIN fn.stmts[p[1]]
  BY DEF FnPlaces
<1>7. \A p \in FnPlaces : StmtAt(p) \in Statements /\ p[1] \in Nat /\ p[2] \in Nat /\ p[2] > 0
  <2> SUFFICES ASSUME NEW p \in FnPlaces
               PROVE  StmtAt(p) \in Statements /\ p[1] \in Nat /\ p[2] \in Nat /\ p[2] > 0
    OBVIOUS
  <2>1. p[1] \in DOMAIN fn.stmts /\ p[2] \in DOMAIN fn.stmts[p[1]]
    BY <1>6
  <2>2. fn.stmts[p[1]][p[2]] \in Statements
    BY <2>1, <1>3, <1>4, ElementOfSeq
  <2>3. p[1] \in Nat /\ p[2] \in Nat /\ p[2] > 0
    BY <2>1, <1>2, <1>4
  <2> QED BY <2>2, <2>3 DEF StmtAt
<1>8. Sites(fn) = {p \in FnPlaces : Classify(StmtAt(p))}
  BY DEF Sites, FnPlaces, StmtAt
<1> QED BY <1>1, <1>2, <1>3, <1>4, <1>5, <1>6, <1>7, <1>8

\* Whatever a function is like, it has finitely many statements.
LEMMA SitesFinite == ASSUME fn \in Functions PROVE IsFiniteSet(Sites(fn))
<1> DEFINE F == [b \in DOMAIN fn.stmts |-> {b} \X DOMAIN fn.stmts[b]]
           U == {{b} \X DOMAIN fn.stmts[b] : b \in DOMAIN fn.stmts}
<1>0. \A n \in Nat : IsFiniteSet(1 .. n)
  BY FS_Interval
<1>1. IsFiniteSet(DOMAIN fn.stmts)
  BY <1>0, FnFacts
<1>2. F \in Surjection(DOMAIN fn.stmts, U)
  BY DEF Surjection
<1>3. IsFiniteSet(U)
  <2> HIDE DEF F, U
  <2> QED BY <1>1, <1>2, FS_Surjection
<1>4. \A b \in DOMAIN fn.stmts : IsFiniteSet({b} \X DOMAIN fn.stmts[b])
  <2> SUFFICES ASSUME NEW b \in DOMAIN fn.stmts PROVE IsFiniteSet({b} \X DOMAIN fn.stmts[b])
    OBVIOUS
  <2>1. IsFiniteSet({b})  BY FS_Singleton
  <2>2. IsFiniteSet(DOMAIN fn.stmts[b])  BY <1>0, FnFacts
  <2> QED BY <2>1, <2>2, FS_Product
<1>5. IsFiniteSet(UNION U)
  <2>1. \A T \in U : IsFiniteSet(T)  BY <1>4
  <2> HIDE DEF U
  <2> QED BY <2>1, <1>3, FS_UNION
<1>6. FnPlaces = UNION U
  BY DEF FnPlaces
<1>7. Sites(fn) \in SUBSET FnPlaces
  BY FnFacts
<1> HIDE DEF U
<1> QED BY <1>5, <1>6, <1>7, FS_Subset

\* A listing of a finite set has each of its elements once.
LEMMA SetListed ==
    ASSUME NEW S, IsFiniteSet(S)
    PROVE  SetToSeq(S) \in Seq(S) /\ Range(SetToSeq(S)) = S /\ IsInjective(SetToSeq(S))
<1> DEFINE n == Cardinality(S)
<1>1. n \in Nat /\ ExistsBijection(1 .. n, S)
  BY FS_CardinalityType
<1>2. PICK f : f \in Bijection(1 .. n, S)
  BY <1>1 DEF ExistsBijection
<1> HIDE DEF n
<1>3. f \in [1 .. n -> S] /\ IsInjective(f)
  BY <1>2 DEF Bijection, Injection, IsInjective
<1>4. SetToSeq(S) \in [1 .. n -> S] /\ IsInjective(SetToSeq(S))
  BY <1>3 DEF SetToSeq, n
<1>5. SetToSeq(S) \in Injection(1 .. n, S)
  BY <1>4 DEF Injection, IsInjective
<1>6. SetToSeq(S) \in Surjection(1 .. n, S)
  BY <1>1, <1>5, FS_Injection, FS_Interval DEF n
<1>7. Range(SetToSeq(S)) = S
  BY <1>4, <1>6 DEF Surjection, Range
<1>8. SetToSeq(S) \in Seq(S)
  BY <1>1, <1>4, SeqDef
<1> QED BY <1>4, <1>7, <1>8

\* So has every one of SetToSeqs.
LEMMA SetListings ==
    ASSUME NEW S, IsFiniteSet(S), NEW s \in SetToSeqs(S)
    PROVE  s \in Seq(S) /\ Range(s) = S
<1> DEFINE n == Cardinality(S)
<1>1. n \in Nat
  BY FS_CardinalityType
<1>2. s \in [1 .. n -> S] /\ \A i, j \in 1 .. n : i # j => s[i] # s[j]
  BY DEF SetToSeqs
<1> HIDE DEF n
<1>3. s \in Injection(1 .. n, S)
  BY <1>2 DEF Injection, IsInjective
<1>4. s \in Surjection(1 .. n, S)
  BY <1>1, <1>3, FS_Injection, FS_Interval DEF n
<1>5. Range(s) = S
  BY <1>2, <1>4 DEF Surjection, Range
<1> QED BY <1>1, <1>2, <1>5, SeqDef

\* A segment is a sequence of statements of the block.
LEMMA SegmentType ==
    ASSUME NEW o, NEW lo \in Nat, NEW hi \in Nat, lo <= hi
    PROVE  Segment(o, lo, hi) \in Seq({<<o, x>> : x \in 1 .. hi}) /\ Len(Segment(o, lo, hi)) = hi - lo
<1> DEFINE T == {<<o, x>> : x \in 1 .. hi}
           s == Segment(o, lo, hi)
<1>1. s \in [1 .. hi - lo -> T] /\ hi - lo \in Nat
  BY DEF Segment
<1>2. s \in Seq(T) /\ Len(s) = hi - lo
  <2>1. s \in Seq(T)  BY <1>1, SeqDef
  <2>2. DOMAIN s = 1 .. Len(s) /\ Len(s) \in Nat  BY <2>1, LenProperties
  <2>3. DOMAIN s = 1 .. hi - lo  BY <1>1
  <2> HIDE DEF s, T
  <2> QED BY <2>1, <2>2, <2>3, <1>1
<1> QED BY <1>2

\* Cutting a segment behind its i-th statement leaves a segment,
LEMMA SegmentHead ==
    ASSUME NEW o, NEW lo \in Nat, NEW hi \in Nat, NEW i \in Nat, lo + i <= hi
    PROVE  SubSeq(Segment(o, lo, hi), 1, i) = Segment(o, lo, lo + i)
<1> DEFINE s == Segment(o, lo, hi)
<1>1. \A j \in 1 .. hi - lo : s[j] = <<o, lo + j>>
  BY DEF Segment
<1> HIDE DEF s
<1>2. SubSeq(s, 1, i) = [j \in 1 .. i |-> s[1 + j - 1]]
  OBVIOUS
<1>3. \A j \in 1 .. i : s[1 + j - 1] = <<o, lo + j>>
  BY <1>1
<1>4. (lo + i) - lo = i
  OBVIOUS
<1>5. SubSeq(s, 1, i) = Segment(o, lo, lo + i)
  BY <1>2, <1>3, <1>4 DEF Segment
<1> QED BY <1>5 DEF s

\* and a segment behind it.
LEMMA SegmentTail ==
    ASSUME NEW o, NEW lo \in Nat, NEW hi \in Nat, NEW i \in Nat, lo + i <= hi
    PROVE  SubSeq(Segment(o, lo, hi), i + 1, hi - lo) = Segment(o, lo + i, hi)
<1> DEFINE s == Segment(o, lo, hi)
<1>1. \A j \in 1 .. hi - lo : s[j] = <<o, lo + j>>
  BY DEF Segment
<1> HIDE DEF s
<1>2. SubSeq(s, i + 1, hi - lo) = [j \in 1 .. ((hi - lo) - (i + 1) + 1) |-> s[(i + 1) + j - 1]]
  OBVIOUS
<1>3. ((hi - lo) - (i + 1) + 1) = hi - (lo + i)
  OBVIOUS
<1>4. ASSUME NEW j \in 1 .. hi - (lo + i)
      PROVE  s[(i + 1) + j - 1] = <<o, (lo + i) + j>>
  <2>1. (i + 1) + j - 1 = i + j /\ i + j \in 1 .. hi - lo /\ lo + (i + j) = (lo + i) + j
    OBVIOUS
  <2> QED BY <2>1, <1>1
<1>5. SubSeq(s, i + 1, hi - lo) = Segment(o, lo + i, hi)
  BY <1>2, <1>3, <1>4 DEF Segment
<1> QED BY <1>5 DEF s

\* A sequence over a set is one over every larger set.
LEMMA SeqGrows ==
    ASSUME NEW S, NEW T, S \subseteq T
    PROVE  Seq(S) \subseteq Seq(T)
<1> SUFFICES ASSUME NEW s \in Seq(S) PROVE s \in Seq(T)
  OBVIOUS
<1>1. Len(s) \in Nat /\ s \in [1 .. Len(s) -> S]
  BY LenProperties
<1>2. s \in [1 .. Len(s) -> T]
  BY <1>1
<1> QED BY <1>1, <1>2, SeqDef

\* So is what a layout says of a smaller set of blocks.
LEMMA TypesGrow ==
    ASSUME NEW A, NEW B, A \subseteq B
    PROVE  /\ Tabled(A) \subseteq Tabled(B) /\ Yields(A) \subseteq Yields(B)
           /\ Sorts(A) \subseteq Sorts(B)
<1>1. ASSUME NEW C, NEW D, C \subseteq D
      PROVE  Seq(A \X C) \subseteq Seq(B \X D)
  <2>1. A \X C \subseteq B \X D
    BY <1>1
  <2> QED BY <2>1, SeqGrows
<1>2. Kinds(A) \subseteq Kinds(B)
  BY DEF Kinds
<1>3. Sorts(A) \subseteq Sorts(B)
  BY <1>1, <1>2 DEF Sorts
<1>4. Tabled(A) \subseteq Tabled(B)
  BY <1>1 DEF Tabled
<1>5. Yields(A) \subseteq Yields(B)
  BY <1>1 DEF Yields
<1> QED BY <1>3, <1>4, <1>5

\* The dots of a block: none is added or lost by a cut.
LEMMA SplitFacts ==
    ASSUME fn \in Functions, cfg \in Seq(BlockType), NEW b \in DOMAIN cfg,
           NEW o \in DOMAIN fn.stmts, NEW lo \in Nat, NEW i \in Nat,
           lo + i <= Len(fn.stmts[o]),
           cfg[b] = [stmts |-> Segment(o, lo, Len(fn.stmts[o])), home |-> o]
    PROVE  /\ SplitAfter(b, i) \in Seq(BlockType)
           /\ Len(cfg) \in Nat /\ DOMAIN cfg = 1 .. Len(cfg)
           /\ Len(SplitAfter(b, i)) = Len(cfg) + 1
           /\ \A c \in DOMAIN cfg : SplitAfter(b, i)[c] =
                  IF c = b THEN [stmts |-> Segment(o, lo, lo + i), home |-> 0] ELSE cfg[c]
           /\ SplitAfter(b, i)[Len(cfg) + 1] =
                  [stmts |-> Segment(o, lo + i, Len(fn.stmts[o])), home |-> o]
<1>h. PICK hi \in Nat : hi = Len(fn.stmts[o])
  BY FnFacts
<1>1. /\ Len(Segment(o, lo, hi)) = hi - lo
      /\ SubSeq(Segment(o, lo, hi), 1, i) = Segment(o, lo, lo + i)
      /\ SubSeq(Segment(o, lo, hi), i + 1, hi - lo) = Segment(o, lo + i, hi)
  <2>1. lo + i <= hi
    BY <1>h
  <2>2. Len(Segment(o, lo, hi)) = hi - lo
    <3>1. lo <= hi
      BY <2>1
    <3> QED BY <3>1, SegmentType
  <2>3. SubSeq(Segment(o, lo, hi), 1, i) = Segment(o, lo, lo + i)
    BY <2>1, SegmentHead
  <2>4. SubSeq(Segment(o, lo, hi), i + 1, hi - lo) = Segment(o, lo + i, hi)
    BY <2>1, SegmentTail
  <2> QED BY <2>2, <2>3, <2>4
<1> DEFINE head == [stmts |-> Segment(o, lo, lo + i), home |-> 0]
           tail == [stmts |-> Segment(o, lo + i, hi), home |-> o]
<1>2. \A x \in Nat, y \in Nat : x <= y /\ y <= hi => Segment(o, x, y) \in Seq(FnPlaces)
  <2> SUFFICES ASSUME NEW x \in Nat, NEW y \in Nat, x <= y, y <= hi
               PROVE  Segment(o, x, y) \in Seq(FnPlaces)
    OBVIOUS
  <2>1. Segment(o, x, y) \in Seq({<<o, z>> : z \in 1 .. y})
    BY SegmentType
  <2>2. {<<o, z>> : z \in 1 .. y} \subseteq FnPlaces
    <3>1. \A z \in 1 .. y : z \in DOMAIN fn.stmts[o]
      BY <1>h, FnFacts
    <3>2. \A z \in DOMAIN fn.stmts[o] : <<o, z>> \in FnPlaces
      BY DEF FnPlaces
    <3> QED BY <3>1, <3>2
  <2> QED BY <2>1, <2>2, SeqGrows
<1>3. head \in BlockType /\ tail \in BlockType
  <2>1. Segment(o, lo, lo + i) \in Seq(FnPlaces)
    <3>1. lo + i \in Nat /\ lo <= lo + i /\ lo + i <= hi  BY <1>h
    <3> QED BY <3>1, <1>2
  <2>2. Segment(o, lo + i, hi) \in Seq(FnPlaces)
    <3>1. lo + i \in Nat /\ hi <= hi /\ lo + i <= hi  BY <1>h
    <3> QED BY <3>1, <1>2
  <2>3. o \in 0 .. Len(fn.stmts) /\ 0 \in 0 .. Len(fn.stmts)
    BY FnFacts
  <2> QED BY <2>1, <2>2, <2>3 DEF BlockType
<1>4. cfg[b].stmts = Segment(o, lo, hi) /\ cfg[b].home = o
  BY <1>h
<1>5. SplitAfter(b, i) = Append([cfg EXCEPT ![b] = head], tail)
  BY <1>1, <1>4 DEF SplitAfter
<1> HIDE DEF head, tail
<1>6. Len(cfg) \in Nat /\ DOMAIN cfg = 1 .. Len(cfg)
  BY LenProperties
<1> DEFINE e == [cfg EXCEPT ![b] = head]
<1>7. e \in Seq(BlockType) /\ Len(e) = Len(cfg)
      /\ \A c \in DOMAIN cfg : e[c] = IF c = b THEN head ELSE cfg[c]
  BY <1>3, <1>6, ExceptSeq
<1> HIDE DEF e
<1>8. SplitAfter(b, i) = Append(e, tail)
  BY <1>5 DEF e
<1>9. /\ SplitAfter(b, i) \in Seq(BlockType) /\ Len(SplitAfter(b, i)) = Len(cfg) + 1
      /\ \A c \in 1 .. Len(cfg) : SplitAfter(b, i)[c] = e[c]
      /\ SplitAfter(b, i)[Len(cfg) + 1] = tail
  BY <1>3, <1>7, <1>8, AppendProperties
<1> QED BY <1>6, <1>7, <1>9, <1>h DEF head, tail

-----------------------------------------------------------------------------
(* The start. *)

\* The locals a host reports for a site are locals.
LEMMA LiveLocals ==
    ASSUME fn \in Functions, NEW p \in Sites(fn)
    PROVE  LiveAcross(fn, p) \in SUBSET Locals
<1>1. \A b \in DOMAIN fn.stmts : LiveIn(fn)[b] \in SUBSET Locals
  BY DEF LiveIn
<1>2. p[1] \in DOMAIN fn.stmts /\ fn.succ[p[1]] \subseteq 0 .. Len(fn.stmts)
  BY FnFacts
<1>3. \A c \in fn.succ[p[1]] \ {0} : c \in DOMAIN fn.stmts
  BY <1>2, FnFacts
<1>4. LiveOut(fn, LiveIn(fn), p[1]) \in SUBSET Locals
  BY <1>1, <1>3 DEF LiveOut
<1>5. \A s : Exposed(s) \in SUBSET Locals
  BY DEF Exposed
<1> QED BY <1>4, <1>5 DEF LiveAcross

\* What a host may report is a list of locals for every site.
LEMMA ReportsType ==
    ASSUME fn \in Functions
    PROVE  Reports(fn) \subseteq [Sites(fn) -> Seq(Locals)]
<1>1. \A p \in Sites(fn) : SetToSeq(LiveAcross(fn, p)) \in Seq(Locals)
  <2> SUFFICES ASSUME NEW p \in Sites(fn) PROVE SetToSeq(LiveAcross(fn, p)) \in Seq(Locals)
    OBVIOUS
  <2>1. LiveAcross(fn, p) \in SUBSET Locals /\ IsFiniteSet(LiveAcross(fn, p))
    BY LiveLocals, LocalsAssumption, FS_Subset
  <2>2. SetToSeq(LiveAcross(fn, p)) \in Seq(LiveAcross(fn, p))
    BY <2>1, SetListed
  <2> QED BY <2>1, <2>2, SeqGrows
<1>2. SetToSeq(Locals) \in Seq(Locals)
  BY LocalsAssumption, SetListed
<1>3. \A p \in Sites(fn) : SetToSeq(LiveAcross(fn, p)) \o SetToSeq(LiveAcross(fn, p)) \in Seq(Locals)
  BY <1>1, ConcatProperties
<1> QED BY <1>1, <1>2, <1>3 DEF Reports

\* Before the transform runs, no block is cut and the machine is at the entry.
LEMMA SMInit == ASSUME Init PROVE SMInv
<1> USE DEF Init
<1>0. fn \in Functions
  OBVIOUS
<1>e. \A S : << >> \in Seq(S) /\ Len(<< >>) = 0
  BY EmptySeq
<1>d. DOMAIN << >> = {} /\ Range(<< >>) = {}
  BY DEF Range
<1>1. FnInv
  BY <1>0, ReportsType DEF FnInv
<1>2. SitesInv
  BY <1>e, <1>d DEF SitesInv
<1>3. CutSites = 0 /\ LiftedSites = 0
  BY <1>e DEF CutSites, LiftedSites
<1>4. \A b \in DOMAIN fn.stmts : cfg[b] = [stmts |-> Segment(b, 0, Len(fn.stmts[b])), home |-> b]
  <2> SUFFICES ASSUME NEW b \in DOMAIN fn.stmts
               PROVE  [i \in DOMAIN fn.stmts[b] |-> <<b, i>>] = Segment(b, 0, Len(fn.stmts[b]))
    OBVIOUS
  <2>1. PICK n \in Nat : n = Len(fn.stmts[b]) /\ DOMAIN fn.stmts[b] = 1 .. n
    BY <1>0, FnFacts
  <2>2. n - 0 = n /\ \A i \in 1 .. n : 0 + i = i
    OBVIOUS
  <2> QED BY <2>1, <2>2 DEF Segment
<1>5. cfg \in Seq(BlockType) /\ Len(cfg) = Len(fn.stmts) /\ DOMAIN cfg = DOMAIN fn.stmts
  <2>1. \A b \in DOMAIN fn.stmts : cfg[b] \in BlockType
    <3> SUFFICES ASSUME NEW b \in DOMAIN fn.stmts PROVE cfg[b] \in BlockType
      OBVIOUS
    <3>1. DOMAIN fn.stmts[b] = 1 .. Len(fn.stmts[b]) /\ Len(fn.stmts[b]) \in Nat /\ b \in 0 .. Len(fn.stmts)
      BY <1>0, FnFacts
    <3>2. [i \in DOMAIN fn.stmts[b] |-> <<b, i>>] \in [1 .. Len(fn.stmts[b]) -> FnPlaces]
      BY <3>1, <1>0, FnFacts
    <3>3. [i \in DOMAIN fn.stmts[b] |-> <<b, i>>] \in Seq(FnPlaces)
      BY <3>1, <3>2, SeqDef
    <3> QED BY <3>1, <3>3 DEF BlockType
  <2>2. cfg \in [1 .. Len(fn.stmts) -> BlockType] /\ Len(fn.stmts) \in Nat
    BY <2>1, <1>0, FnFacts
  <2>3. cfg \in Seq(BlockType) /\ DOMAIN cfg = 1 .. Len(fn.stmts)
    BY <2>2, SeqDef
  <2>4. DOMAIN cfg = 1 .. Len(cfg) /\ Len(cfg) \in Nat
    BY <2>3, LenProperties
  <2> HIDE DEF Init
  <2> QED BY <2>2, <2>3, <2>4, <1>0, FnFacts
<1>6. LayoutInv
  <2>1. layout \in LayoutType
    BY <1>e DEF NoLayout, LayoutType, Tabled, Yields, Sorts
  <2>2. /\ Len(layout.resume_entries) = 0 /\ Len(layout.yield_blocks) = 0
        /\ DOMAIN layout.yield_blocks = {} /\ DOMAIN layout.block_kinds = {}
    BY <1>e, <1>d DEF NoLayout
  <2>3. Len(fn.stmts) <= Len(cfg)
    BY <1>0, <1>5, FnFacts
  <2>4. /\ siteYield \in Seq(DOMAIN cfg) /\ Len(siteYield) = 0
        /\ siteResume \in Seq(DOMAIN cfg) /\ Len(siteResume) = 0 /\ phase = "scan"
    BY <1>e
  <2> HIDE DEF Init
  <2> QED BY <1>3, <1>5, <2>1, <2>2, <2>3, <2>4 DEF LayoutInv
<1>7. CutInv
  <2>1. 1 \in DOMAIN fn.stmts
    BY <1>0, FnFacts
  <2>2. cur = [orig |-> 1, block |-> 1, prev |-> 0] /\ turn = 1
    OBVIOUS
  <2> HIDE DEF Init
  <2> QED BY <1>4, <1>5, <2>1, <2>2 DEF CutInv
<1>8. SlotsInv
  BY <1>d DEF SlotsInv
<1>9. TablesInv
  <2>1. DOMAIN layout.yield_saves = {} /\ Len(layout.yield_saves) = Len(layout.resume_loads)
    BY <1>d DEF NoLayout
  <2>2. 1 .. LiftedSites = {}
    BY <1>3
  <2> QED BY <2>1, <2>2 DEF TablesInv
<1>10. RunInv
  <2>1. /\ Len(sites) = 0 /\ 0 \in 0 .. Len(sites) /\ at # << >>
    BY <1>e
  <2>2. frame \in [state_id : 0 .. Len(sites), saved : [Slots -> Data \cup {Undef}]]
    BY <2>1 DEF FreshFrame, Slots
  <2>3. regs \in [Locals -> Data \cup {Undef}] /\ env \in [Locals -> Data \cup {Undef}]
    BY DEF Undefined
  <2> QED BY <2>1, <2>2, <2>3 DEF RunInv
<1> QED BY <1>1, <1>2, <1>6, <1>7, <1>8, <1>9, <1>10 DEF SMInv, TransInv

-----------------------------------------------------------------------------
(* The cuts. *)

\* Where the next site is: in a block that holds what is behind the last cut of its
\* original block, and no block behind that one has been touched.
LEMMA HereFacts ==
    ASSUME TransInv, phase = "split", turn <= Len(sites), NEW p, p = sites[turn]
    PROVE  /\ turn \in Nat /\ turn \in DOMAIN sites
           /\ p \in FnPlaces /\ p \in Sites(fn) /\ p = <<p[1], p[2]>>
           /\ p[1] \in DOMAIN fn.stmts /\ p[1] \in Nat
           /\ p[2] \in DOMAIN fn.stmts[p[1]] /\ p[2] \in Nat
           /\ Here(p).orig = p[1] /\ Here(p).block \in DOMAIN cfg
           /\ Here(p).prev \in Nat /\ Here(p).prev < p[2]
           /\ cfg[Here(p).block] =
                  [stmts |-> Segment(p[1], Here(p).prev, Len(fn.stmts[p[1]])), home |-> p[1]]
           /\ \A b \in DOMAIN fn.stmts : b > p[1] =>
                  /\ b # Here(p).block
                  /\ cfg[b] = [stmts |-> Segment(b, 0, Len(fn.stmts[b])), home |-> b]
<1>0. FnInv /\ SitesInv /\ LayoutInv /\ CutInv /\ fn \in Functions
  BY DEF TransInv, FnInv
<1>1. Len(sites) \in Nat /\ DOMAIN sites = 1 .. Len(sites) /\ sites \in Seq(Sites(fn))
  BY <1>0, LenProperties DEF SitesInv
<1>2. turn \in Nat /\ turn >= 1 /\ turn \in DOMAIN sites
  BY <1>0, <1>1 DEF SitesInv
<1>3. \A i \in DOMAIN sites : sites[i] \in Sites(fn)
  BY <1>1, ElementOfSeq
<1>4. Sites(fn) \subseteq FnPlaces
  BY <1>0, FnFacts
<1>5. p \in FnPlaces /\ p \in Sites(fn)
  BY <1>2, <1>3, <1>4
<1>6. p = <<p[1], p[2]>> /\ p[1] \in DOMAIN fn.stmts /\ p[2] \in DOMAIN fn.stmts[p[1]]
  BY <1>0, <1>5, FnFacts
<1>7. p[1] \in Nat /\ p[2] \in Nat /\ p[2] > 0
  BY <1>0, <1>5, FnFacts
<1>8. DOMAIN fn.stmts = 1 .. Len(fn.stmts) /\ Len(fn.stmts) \in Nat /\ DOMAIN fn.stmts \subseteq DOMAIN cfg
  <2>1. DOMAIN cfg = 1 .. Len(cfg) /\ Len(cfg) \in Nat /\ Len(fn.stmts) <= Len(cfg)
    BY <1>0, LenProperties DEF LayoutInv
  <2> QED BY <2>1, <1>0, FnFacts
<1>c. /\ cur \in [orig : DOMAIN fn.stmts, block : DOMAIN cfg, prev : Nat]
      /\ \A b \in DOMAIN fn.stmts : turn = 1 \/ b > cur.orig =>
             cfg[b] = [stmts |-> Segment(b, 0, Len(fn.stmts[b])), home |-> b]
      /\ turn = 1 => cur.prev = 0
      /\ turn # 1 =>
           /\ sites[turn - 1] = <<cur.orig, cur.prev>>
           /\ cfg[cur.block] = [stmts |-> Segment(cur.orig, cur.prev, Len(fn.stmts[cur.orig])),
                                home |-> cur.orig]
  BY <1>0 DEF CutInv
<1>o. cur.orig \in Nat /\ cur.prev \in Nat /\ cur.block \in DOMAIN cfg
  BY <1>c, <1>8
<1>9. turn # 1 => cur.prev > 0 /\ (cur.orig < p[1] \/ (cur.orig = p[1] /\ cur.prev < p[2]))
  <2> HAVE turn # 1
  <2>1. turn - 1 \in DOMAIN sites /\ turn - 1 < turn
    BY <1>1, <1>2
  <2>2. PICK q : q = sites[turn - 1]
    OBVIOUS
  <2>6. Before(q, p)
    BY <2>1, <2>2, <1>0, <1>2 DEF SitesInv
  <2>3. q \in FnPlaces
    BY <2>1, <2>2, <1>3, <1>4
  <2>4. q[1] = cur.orig /\ q[2] = cur.prev
    BY <2>2, <1>c
  <2>5. cur.prev > 0
    BY <2>3, <2>4, <1>0, FnFacts
  <2>7. q[1] < p[1] \/ (q[1] = p[1] /\ q[2] < p[2])
    BY <2>6 DEF Before
  <2>8. cur.orig < p[1] \/ (cur.orig = p[1] /\ cur.prev < p[2])
    BY <2>4, <2>7, <1>o, <1>7
  <2> QED BY <2>5, <2>8
<1>10. \A b \in DOMAIN fn.stmts : b > p[1] =>
           cfg[b] = [stmts |-> Segment(b, 0, Len(fn.stmts[b])), home |-> b]
  <2> SUFFICES ASSUME NEW b \in DOMAIN fn.stmts, b > p[1]
               PROVE  cfg[b] = [stmts |-> Segment(b, 0, Len(fn.stmts[b])), home |-> b]
    OBVIOUS
  <2>1. b \in Nat
    BY <1>8
  <2>2. turn = 1 \/ b > cur.orig
    BY <2>1, <1>7, <1>9, <1>o
  <2> QED BY <2>2, <1>c
<1>11. /\ Here(p).orig = p[1] /\ Here(p).block \in DOMAIN cfg
       /\ Here(p).prev \in Nat /\ Here(p).prev < p[2]
       /\ cfg[Here(p).block] =
              [stmts |-> Segment(p[1], Here(p).prev, Len(fn.stmts[p[1]])), home |-> p[1]]
  <2>1. CASE turn = 1 \/ p[1] # cur.orig
    <3>1. Here(p) = [orig |-> p[1], block |-> p[1], prev |-> 0]
      BY <2>1, <1>c DEF Here
    <3>2. turn = 1 \/ p[1] > cur.orig
      BY <2>1, <1>9, <1>o, <1>7
    <3>3. cfg[p[1]] = [stmts |-> Segment(p[1], 0, Len(fn.stmts[p[1]])), home |-> p[1]]
      BY <3>2, <1>c, <1>6
    <3> QED BY <3>1, <3>3, <1>6, <1>7, <1>8
  <2>2. CASE turn # 1 /\ p[1] = cur.orig
    <3>1. Here(p) = cur
      BY <2>2, <1>9, <1>o DEF Here
    <3> QED BY <3>1, <2>2, <1>c, <1>9, <1>o, <1>7
  <2> QED BY <2>1, <2>2
<1>12. \A b \in DOMAIN fn.stmts : b > p[1] => b # Here(p).block
  <2> SUFFICES ASSUME NEW b \in DOMAIN fn.stmts, b > p[1] PROVE b # Here(p).block
    OBVIOUS
  <2>1. cfg[b].home = b
    <3>1. cfg[b] = [stmts |-> Segment(b, 0, Len(fn.stmts[b])), home |-> b]
      BY <1>10
    <3> QED BY <3>1
  <2>3. cfg[Here(p).block].home = p[1]
    BY <1>11
  <2>2. b \in Nat /\ b # p[1]
    BY <1>7, <1>8
  <2> QED BY <2>1, <2>2, <2>3
<1> QED BY <1>2, <1>5, <1>6, <1>7, <1>10, <1>11, <1>12

\* What both kinds of cut do to the invariant.
LEMMA CutStep ==
    ASSUME SMInv, phase = "split", turn <= Len(sites), NEW p, p = sites[turn],
           NEW r, NEW kinds,
           cfg' \in Seq(BlockType), Len(cfg) + 1 <= Len(cfg'),
           \A c \in DOMAIN cfg : c # Here(p).block => cfg'[c] = cfg[c],
           cfg'[Len(cfg) + 1] =
               [stmts |-> Segment(p[1], p[2], Len(fn.stmts[p[1]])), home |-> p[1]],
           r \in DOMAIN cfg', kinds \in Sorts(DOMAIN cfg'),
           \A i \in DOMAIN kinds :
               kinds[i][2].kind # "CrossFnCallResume" => kinds[i][1] = Here(p).block,
           layout' = WithState(Here(p).block, r, kinds), AddState(Here(p).block, r),
           cur' = [orig |-> p[1], block |-> Len(cfg) + 1, prev |-> p[2]],
           UNCHANGED <<fn, liveness, phase, sites, slots, running>>
    PROVE  SMInv'
<1> DEFINE b == Here(p).block
<1>u. /\ fn' = fn /\ liveness' = liveness /\ phase' = phase /\ sites' = sites /\ slots' = slots
      /\ at' = at /\ frame' = frame /\ regs' = regs /\ env' = env /\ seen' = seen /\ done' = done
  BY DEF running
<1>a. /\ siteYield' = Append(siteYield, b) /\ siteResume' = Append(siteResume, r)
      /\ turn' = turn + 1
  BY DEF AddState
<1>i. TransInv /\ RunInv /\ FnInv /\ SitesInv /\ LayoutInv /\ CutInv /\ SlotsInv /\ TablesInv
  BY DEF SMInv, TransInv
<1>h. /\ turn \in Nat /\ turn \in DOMAIN sites /\ p = <<p[1], p[2]>>
      /\ p[1] \in DOMAIN fn.stmts /\ p[1] \in Nat /\ p[2] \in Nat /\ b \in DOMAIN cfg
      /\ \A c \in DOMAIN fn.stmts : c > p[1] =>
             /\ c # b
             /\ cfg[c] = [stmts |-> Segment(c, 0, Len(fn.stmts[c])), home |-> c]
  BY <1>i, HereFacts
<1> HIDE DEF b
<1>1. /\ Len(cfg) \in Nat /\ DOMAIN cfg = 1 .. Len(cfg) /\ Len(cfg') \in Nat
      /\ DOMAIN cfg' = 1 .. Len(cfg') /\ Len(fn.stmts) <= Len(cfg)
  BY <1>i, LenProperties DEF LayoutInv
<1>2. /\ DOMAIN cfg \subseteq DOMAIN cfg' /\ Len(cfg) + 1 \in DOMAIN cfg'
      /\ b \in DOMAIN cfg' /\ Len(cfg) + 1 # b
  BY <1>1, <1>h
<1>3. FnInv'
  BY <1>i, <1>u DEF FnInv, Sites
<1>4. SitesInv'
  <2>1. turn' \in 1 .. Len(sites) + 1
    BY <1>a, <1>h, <1>i DEF SitesInv
  <2> QED BY <2>1, <1>i, <1>u DEF SitesInv, Sites
<1>5. CutSites = turn - 1 /\ CutSites' = turn /\ LiftedSites = 0 /\ LiftedSites' = 0
  BY <1>u, <1>a, <1>h DEF CutSites, LiftedSites
<1>6. LayoutInv'
  <2>1. cfg' \in Seq(BlockType') /\ Len(fn'.stmts) <= Len(cfg')
    <3>1. BlockType' = BlockType
      BY <1>u DEF BlockType, FnPlaces
    <3>2. Len(fn.stmts) \in Nat
      BY <1>i, FnFacts DEF FnInv
    <3> QED BY <3>1, <3>2, <1>1, <1>u
  <2>2. ASSUME NEW s \in Seq(DOMAIN cfg), NEW e \in DOMAIN cfg'
        PROVE  /\ Append(s, e) \in Seq(DOMAIN cfg') /\ Len(Append(s, e)) = Len(s) + 1
               /\ Len(s) \in Nat /\ DOMAIN s = 1 .. Len(s) /\ DOMAIN Append(s, e) = 1 .. Len(s) + 1
               /\ \A i \in DOMAIN s : Append(s, e)[i] = s[i]
               /\ Append(s, e)[Len(s) + 1] = e
    <3>1. s \in Seq(DOMAIN cfg')
      BY <1>2, SeqGrows
    <3>2. Len(s) \in Nat /\ DOMAIN s = 1 .. Len(s)
      BY <3>1, LenProperties
    <3>3. /\ Append(s, e) \in Seq(DOMAIN cfg') /\ Len(Append(s, e)) = Len(s) + 1
          /\ \A i \in 1 .. Len(s) : Append(s, e)[i] = s[i]
          /\ Append(s, e)[Len(s) + 1] = e
      BY <3>1, AppendProperties
    <3>4. DOMAIN Append(s, e) = 1 .. Len(s) + 1
      BY <3>3, LenProperties
    <3> QED BY <3>2, <3>3, <3>4
  <2>l. /\ siteYield \in Seq(DOMAIN cfg) /\ Len(siteYield) = turn - 1
        /\ siteResume \in Seq(DOMAIN cfg) /\ Len(siteResume) = turn - 1
        /\ layout \in LayoutType
    BY <1>i, <1>5 DEF LayoutInv
  <2>3. /\ siteYield' \in Seq(DOMAIN cfg') /\ Len(siteYield') = turn
        /\ DOMAIN siteYield = 1 .. turn - 1 /\ DOMAIN siteYield' = 1 .. turn
        /\ \A i \in DOMAIN siteYield : siteYield'[i] = siteYield[i]
        /\ siteYield'[turn] = b
    <3>1. /\ Append(siteYield, b) \in Seq(DOMAIN cfg')
          /\ Len(Append(siteYield, b)) = Len(siteYield) + 1
          /\ DOMAIN siteYield = 1 .. Len(siteYield)
          /\ DOMAIN Append(siteYield, b) = 1 .. Len(siteYield) + 1
          /\ \A i \in DOMAIN siteYield : Append(siteYield, b)[i] = siteYield[i]
          /\ Append(siteYield, b)[Len(siteYield) + 1] = b
      BY <2>2, <2>l, <1>2
    <3>2. Len(siteYield) = turn - 1 /\ Len(siteYield) + 1 = turn
      BY <2>l, <1>h
    <3> QED BY <3>1, <3>2, <1>a
  <2>4. siteResume' \in Seq(DOMAIN cfg') /\ Len(siteResume') = turn
    <3>1. /\ Append(siteResume, r) \in Seq(DOMAIN cfg')
          /\ Len(Append(siteResume, r)) = Len(siteResume) + 1
      BY <2>2, <2>l
    <3>2. Len(siteResume) + 1 = turn
      BY <2>l, <1>h
    <3> QED BY <3>1, <3>2, <1>a
  <2> DEFINE Re == layout.resume_entries
             Yb == layout.yield_blocks
             Bk == layout.block_kinds
  <2>5. /\ Re \in Seq(DOMAIN cfg) /\ Yb \in Yields(DOMAIN cfg)
        /\ layout.yield_saves \in Tabled(DOMAIN cfg) /\ layout.resume_loads \in Tabled(DOMAIN cfg)
        /\ Bk \in Sorts(DOMAIN cfg)
    BY <2>l DEF LayoutType
  <2>6. /\ layout'.resume_entries = Append(Re, r)
        /\ layout'.yield_blocks = Append(Yb, <<b, Len(Re)>>)
        /\ layout'.block_kinds = Bk \o kinds
        /\ layout'.yield_saves = layout.yield_saves /\ layout'.resume_loads = layout.resume_loads
        /\ layout' = [resume_entries |-> layout'.resume_entries,
                      yield_blocks |-> layout'.yield_blocks, yield_saves |-> layout'.yield_saves,
                      resume_loads |-> layout'.resume_loads, block_kinds |-> layout'.block_kinds]
    BY <2>l DEF WithState, LayoutType, b
  <2>7. Len(Re) = turn /\ Len(Yb) = turn - 1
    <3>1. fn.suspending
      BY <1>i DEF SitesInv
    <3> QED BY <3>1, <1>i, <1>5, <1>h DEF LayoutInv
  <2> HIDE DEF Re, Yb, Bk
  <2>8. Append(Re, r) \in Seq(DOMAIN cfg') /\ Len(Append(Re, r)) = turn + 1
    BY <2>2, <2>5, <2>7
  <2>9. /\ Append(Yb, <<b, turn>>) \in Yields(DOMAIN cfg')
        /\ Len(Append(Yb, <<b, turn>>)) = turn
        /\ \A i \in 1 .. turn - 1 : Append(Yb, <<b, turn>>)[i] = Yb[i]
        /\ Append(Yb, <<b, turn>>)[turn] = <<b, turn>>
        /\ DOMAIN Append(Yb, <<b, turn>>) = 1 .. turn /\ DOMAIN Yb = 1 .. turn - 1
    <3> DEFINE T == (DOMAIN cfg') \X Nat
               x == <<b, turn>>
    <3>1. x \in T
      BY <1>2, <1>h
    <3>2. Yb \in Seq(T)
      BY <1>2, <2>5, TypesGrow DEF Yields
    <3> HIDE DEF T, x
    <3>3. /\ Append(Yb, x) \in Seq(T) /\ Len(Append(Yb, x)) = Len(Yb) + 1
          /\ \A i \in 1 .. Len(Yb) : Append(Yb, x)[i] = Yb[i]
          /\ Append(Yb, x)[Len(Yb) + 1] = x
      BY <3>1, <3>2, AppendProperties
    <3>4. Len(Yb) + 1 = turn
      BY <2>7, <1>h
    <3>5. DOMAIN Append(Yb, x) = 1 .. turn /\ DOMAIN Yb = 1 .. turn - 1
      BY <3>2, <3>3, <3>4, <2>7, LenProperties
    <3>6. /\ Append(Yb, x) \in Seq(T) /\ Len(Append(Yb, x)) = turn
          /\ \A i \in 1 .. turn - 1 : Append(Yb, x)[i] = Yb[i]
          /\ Append(Yb, x)[turn] = x
      BY <3>3, <3>4, <2>7
    <3> QED BY <3>5, <3>6 DEF T, x, Yields
  <2>10. /\ Bk \o kinds \in Sorts(DOMAIN cfg')
         /\ DOMAIN Bk = 1 .. Len(Bk) /\ Len(Bk) \in Nat
         /\ DOMAIN kinds = 1 .. Len(kinds) /\ Len(kinds) \in Nat
         /\ DOMAIN (Bk \o kinds) = 1 .. Len(Bk) + Len(kinds)
         /\ \A i \in DOMAIN (Bk \o kinds) :
                (Bk \o kinds)[i] = IF i <= Len(Bk) THEN Bk[i] ELSE kinds[i - Len(Bk)]
    <3> DEFINE T == (DOMAIN cfg') \X Kinds(DOMAIN cfg')
    <3>2. Sorts(DOMAIN cfg') = Seq(T) /\ kinds \in Seq(T)
      BY DEF Sorts
    <3>3. Bk \in Seq(T)
      BY <1>2, <2>5, <3>2, TypesGrow
    <3> HIDE DEF T
    <3>4. /\ Bk \o kinds \in Seq(T) /\ Len(Bk \o kinds) = Len(Bk) + Len(kinds)
          /\ \A i \in 1 .. Len(Bk) + Len(kinds) :
                 (Bk \o kinds)[i] = IF i <= Len(Bk) THEN Bk[i] ELSE kinds[i - Len(Bk)]
      BY <3>2, <3>3, ConcatProperties
    <3>5. /\ DOMAIN Bk = 1 .. Len(Bk) /\ Len(Bk) \in Nat
          /\ DOMAIN kinds = 1 .. Len(kinds) /\ Len(kinds) \in Nat
          /\ DOMAIN (Bk \o kinds) = 1 .. Len(Bk) + Len(kinds)
      BY <3>2, <3>3, <3>4, LenProperties
    <3> QED BY <3>2, <3>4, <3>5
  <2>11. layout' \in LayoutType'
    <3>1. /\ Tabled(DOMAIN cfg) \subseteq Tabled(DOMAIN cfg')
      BY <1>2, TypesGrow
    <3>2. layout'.resume_entries \in Seq(DOMAIN cfg')
      BY <2>6, <2>8
    <3>3. layout'.yield_blocks \in Yields(DOMAIN cfg')
      BY <2>6, <2>7, <2>9
    <3>4. layout'.block_kinds \in Sorts(DOMAIN cfg')
      BY <2>6, <2>10
    <3>5. layout'.yield_saves \in Tabled(DOMAIN cfg') /\ layout'.resume_loads \in Tabled(DOMAIN cfg')
      BY <3>1, <2>5, <2>6
    <3> QED BY <2>6, <3>2, <3>3, <3>4, <3>5 DEF LayoutType
  <2>12. \A i \in DOMAIN layout'.yield_blocks : layout'.yield_blocks[i] = <<siteYield'[i], i>>
    <3> SUFFICES ASSUME NEW i \in 1 .. turn
                 PROVE  Append(Yb, <<b, turn>>)[i] = <<siteYield'[i], i>>
      BY <2>6, <2>7, <2>9
    <3>1. CASE i = turn
      BY <3>1, <2>3, <2>9
    <3>2. CASE i # turn
      <4>1. i \in 1 .. turn - 1
        BY <3>2, <1>h
      <4>2. Yb[i] = <<siteYield[i], i>>
        BY <4>1, <2>9, <1>i DEF LayoutInv, Yb
      <4> QED BY <4>1, <4>2, <2>3, <2>9
    <3> QED BY <3>1, <3>2
  <2>13. \A i \in DOMAIN layout'.block_kinds :
             layout'.block_kinds[i][2].kind # "CrossFnCallResume" =>
                 \E j \in DOMAIN siteYield' : siteYield'[j] = layout'.block_kinds[i][1]
    <3> SUFFICES ASSUME NEW i \in DOMAIN (Bk \o kinds),
                        (Bk \o kinds)[i][2].kind # "CrossFnCallResume"
                 PROVE  \E j \in DOMAIN siteYield' : siteYield'[j] = (Bk \o kinds)[i][1]
      BY <2>6
    <3>1. CASE i <= Len(Bk)
      <4>1. (Bk \o kinds)[i] = Bk[i] /\ i \in DOMAIN Bk
        BY <3>1, <2>10
      <4>2. PICK j \in DOMAIN siteYield : siteYield[j] = Bk[i][1]
        BY <4>1, <1>i DEF LayoutInv, Bk
      <4> QED BY <4>1, <4>2, <2>3, <1>h
    <3>2. CASE ~(i <= Len(Bk))
      <4>1. (Bk \o kinds)[i] = kinds[i - Len(Bk)] /\ i - Len(Bk) \in DOMAIN kinds
        BY <3>2, <2>10
      <4>2. kinds[i - Len(Bk)][1] = b
        BY <4>1 DEF b
      <4>3. turn \in DOMAIN siteYield'
        BY <2>3, <1>h, <1>i DEF SitesInv
      <4> QED BY <4>1, <4>2, <4>3, <2>3
    <3> QED BY <3>1, <3>2
  <2>14. /\ siteYield' \in Seq(DOMAIN cfg') /\ Len(siteYield') = CutSites'
         /\ siteResume' \in Seq(DOMAIN cfg') /\ Len(siteResume') = CutSites'
    BY <2>3, <2>4, <1>5
  <2>15. Len(layout'.resume_entries) =
             IF phase' # "scan" /\ fn'.suspending THEN CutSites' + 1 ELSE 0
    <3>1. phase' # "scan" /\ fn'.suspending
      BY <1>i, <1>u DEF SitesInv
    <3> QED BY <3>1, <2>6, <2>8, <1>5
  <2>16. Len(layout'.yield_blocks) = CutSites'
    BY <2>6, <2>7, <2>9, <1>5
  <2>17. sites' # << >>
    BY <1>h, <1>u
  <2> QED BY <2>1, <2>11, <2>12, <2>13, <2>14, <2>15, <2>16, <2>17 DEF LayoutInv
<1>7. CutInv'
  <2>1. cur' \in [orig : DOMAIN fn.stmts, block : DOMAIN cfg', prev : Nat]
    BY <1>2, <1>h
  <2>2. turn' # 1 /\ turn' - 1 = turn
    BY <1>a, <1>h, <1>i DEF SitesInv
  <2>3. sites'[turn' - 1] = <<cur'.orig, cur'.prev>>
    BY <2>2, <1>h, <1>u
  <2>4. cfg'[cur'.block] = [stmts |-> Segment(cur'.orig, cur'.prev, Len(fn'.stmts[cur'.orig])),
                            home |-> cur'.orig]
    BY <1>u
  <2>5. ASSUME NEW c \in DOMAIN fn'.stmts, c > cur'.orig
        PROVE  cfg'[c] = [stmts |-> Segment(c, 0, Len(fn'.stmts[c])), home |-> c]
    <3>1. c \in DOMAIN fn.stmts /\ c > p[1]
      BY <2>5, <1>u
    <3>2. c \in DOMAIN cfg
      BY <3>1, <1>1, <1>i, FnFacts DEF FnInv
    <3> QED BY <3>1, <3>2, <1>h, <1>u DEF b
  <2> QED BY <2>1, <2>2, <2>3, <2>4, <2>5, <1>u DEF CutInv
<1>8. SlotsInv'
  BY <1>i, <1>u DEF SlotsInv, NextSlot
<1>9. TablesInv'
  <2>1. layout'.yield_saves = layout.yield_saves /\ layout'.resume_loads = layout.resume_loads
    BY <1>i DEF WithState, LayoutInv, LayoutType
  <2>2. Len(layout.yield_saves) = Len(layout.resume_loads) /\ DOMAIN layout.yield_saves = {}
    <3>1. 1 .. LiftedSites = {}
      BY <1>5
    <3> QED BY <3>1, <1>i DEF TablesInv
  <2>3. 1 .. LiftedSites' = {}
    BY <1>5
  <2> QED BY <2>1, <2>2, <2>3 DEF TablesInv
<1>10. RunInv'
  <2>1. phase' # "run"
    BY <1>u
  <2> QED BY <2>1, <1>i, <1>u DEF RunInv, Slots
<1> QED BY <1>3, <1>4, <1>6, <1>7, <1>8, <1>9, <1>10 DEF SMInv, TransInv

\* Behind a site nothing is cut yet: the split cuts off what is behind the site.
LEMMA SiteSplit ==
    ASSUME SMInv, phase = "split", turn <= Len(sites), NEW p, p = sites[turn]
    PROVE  LET b == Here(p).block
               s == SplitAfter(b, CurrentIdx(p))
           IN  /\ b \in DOMAIN cfg /\ s \in Seq(BlockType)
               /\ Len(cfg) \in Nat /\ Len(s) = Len(cfg) + 1
               /\ \A c \in DOMAIN cfg : c # b => s[c] = cfg[c]
               /\ s[b] = [stmts |-> Segment(p[1], Here(p).prev, p[2]), home |-> 0]
               /\ s[Len(cfg) + 1] =
                      [stmts |-> Segment(p[1], p[2], Len(fn.stmts[p[1]])), home |-> p[1]]
<1> DEFINE b == Here(p).block
           lo == Here(p).prev
           i == CurrentIdx(p)
<1>0. TransInv /\ fn \in Functions /\ cfg \in Seq(BlockType)
  BY DEF SMInv, TransInv, FnInv, LayoutInv
<1>1. /\ p[1] \in DOMAIN fn.stmts /\ p[2] \in DOMAIN fn.stmts[p[1]] /\ p[2] \in Nat
      /\ b \in DOMAIN cfg /\ lo \in Nat /\ lo < p[2]
      /\ cfg[b] = [stmts |-> Segment(p[1], lo, Len(fn.stmts[p[1]])), home |-> p[1]]
  BY <1>0, HereFacts
<1>2. i = p[2] - lo
  BY DEF CurrentIdx
<1> HIDE DEF b, lo, i
<1>3. i \in Nat /\ lo + i = p[2]
  BY <1>1, <1>2
<1>4. p[2] <= Len(fn.stmts[p[1]])
  BY <1>0, <1>1, FnFacts
<1>5. /\ SplitAfter(b, i) \in Seq(BlockType)
      /\ Len(cfg) \in Nat /\ DOMAIN cfg = 1 .. Len(cfg)
      /\ Len(SplitAfter(b, i)) = Len(cfg) + 1
      /\ \A c \in DOMAIN cfg : SplitAfter(b, i)[c] =
             IF c = b THEN [stmts |-> Segment(p[1], lo, lo + i), home |-> 0] ELSE cfg[c]
      /\ SplitAfter(b, i)[Len(cfg) + 1] =
             [stmts |-> Segment(p[1], lo + i, Len(fn.stmts[p[1]])), home |-> p[1]]
  <2>1. lo + i <= Len(fn.stmts[p[1]])
    BY <1>3, <1>4
  <2>2. PICK o : o = p[1]
    OBVIOUS
  <2>3. /\ o \in DOMAIN fn.stmts /\ lo + i <= Len(fn.stmts[o])
        /\ cfg[b] = [stmts |-> Segment(o, lo, Len(fn.stmts[o])), home |-> o]
        /\ b \in DOMAIN cfg /\ lo \in Nat /\ i \in Nat
    BY <1>1, <1>3, <2>1, <2>2
  <2>4. /\ SplitAfter(b, i) \in Seq(BlockType)
        /\ Len(cfg) \in Nat /\ DOMAIN cfg = 1 .. Len(cfg)
        /\ Len(SplitAfter(b, i)) = Len(cfg) + 1
        /\ \A c \in DOMAIN cfg : SplitAfter(b, i)[c] =
               IF c = b THEN [stmts |-> Segment(o, lo, lo + i), home |-> 0] ELSE cfg[c]
        /\ SplitAfter(b, i)[Len(cfg) + 1] =
               [stmts |-> Segment(o, lo + i, Len(fn.stmts[o])), home |-> o]
    BY <1>0, <2>3, SplitFacts
  <2> QED BY <2>2, <2>4
<1>6. SplitAfter(b, i)[b] = [stmts |-> Segment(p[1], lo, p[2]), home |-> 0]
  BY <1>1, <1>3, <1>5
<1> QED BY <1>1, <1>3, <1>5, <1>6 DEF b, lo, i

\* The cut at a yield: a block that ends in it, and one that resumes behind it.
LEMMA SplitYieldStep == ASSUME SMInv, SplitYield PROVE SMInv'
<1> DEFINE p == sites[turn]
           b == Here(p).block
           resume == Len(cfg) + 1
           kinds == << <<b, [kind |-> "DirectYield"]>> >>
<1>1. /\ phase = "split" /\ turn <= Len(sites)
      /\ cfg' = SplitAfter(b, CurrentIdx(p)) /\ layout' = WithState(b, resume, kinds)
      /\ AddState(b, resume) /\ cur' = [orig |-> p[1], block |-> resume, prev |-> p[2]]
      /\ UNCHANGED <<fn, liveness, phase, sites, slots, running>>
  BY DEF SplitYield
<1>2. /\ b \in DOMAIN cfg /\ cfg' \in Seq(BlockType)
      /\ Len(cfg) \in Nat /\ Len(cfg') = Len(cfg) + 1
      /\ \A c \in DOMAIN cfg : c # b => cfg'[c] = cfg[c]
      /\ cfg'[Len(cfg) + 1] =
             [stmts |-> Segment(p[1], p[2], Len(fn.stmts[p[1]])), home |-> p[1]]
  BY <1>1, SiteSplit
<1>3. DOMAIN cfg' = 1 .. Len(cfg) + 1 /\ DOMAIN cfg = 1 .. Len(cfg)
  BY <1>2, LenProperties DEF SMInv, TransInv, LayoutInv
<1>4. kinds \in Sorts(DOMAIN cfg')
  <2> DEFINE T == (DOMAIN cfg') \X Kinds(DOMAIN cfg')
             e == <<b, [kind |-> "DirectYield"]>>
  <2>1. e \in T
    BY <1>2, <1>3 DEF Kinds
  <2>2. << e >> \in Seq(T)
    <3> HIDE DEF T, e
    <3> QED BY <2>1
  <2> QED BY <2>2 DEF Sorts
<1>5. \A i \in DOMAIN kinds : kinds[i][2].kind # "CrossFnCallResume" => kinds[i][1] = b
  <2>1. DOMAIN kinds = {1} /\ kinds[1][1] = b
    OBVIOUS
  <2> QED BY <2>1
<1>6. PICK q, k, r : q = p /\ k = kinds /\ r = resume
  OBVIOUS
<1>7. r \in DOMAIN cfg' /\ Len(cfg) + 1 <= Len(cfg')
  BY <1>2, <1>3, <1>6
<1> HIDE DEF p, kinds, resume
<1> QED
  <2>1. q = sites[turn]
    BY <1>6 DEF p
  <2>2. k \in Sorts(DOMAIN cfg')
    BY <1>4, <1>6
  <2>3. \A i \in DOMAIN k : k[i][2].kind # "CrossFnCallResume" => k[i][1] = Here(q).block
    BY <1>5, <1>6
  <2>4. /\ layout' = WithState(Here(q).block, r, k) /\ AddState(Here(q).block, r)
    BY <1>1, <1>6
  <2>5. cur' = [orig |-> q[1], block |-> Len(cfg) + 1, prev |-> q[2]]
    BY <1>1, <1>6 DEF resume
  <2>6. /\ \A c \in DOMAIN cfg : c # Here(q).block => cfg'[c] = cfg[c]
        /\ cfg'[Len(cfg) + 1] =
             [stmts |-> Segment(q[1], q[2], Len(fn.stmts[q[1]])), home |-> q[1]]
    BY <1>2, <1>6
  <2>7. /\ phase = "split" /\ turn <= Len(sites) /\ cfg' \in Seq(BlockType)
        /\ UNCHANGED <<fn, liveness, phase, sites, slots, running>>
    BY <1>1, <1>2
  <2> QED BY <1>7, <2>1, <2>2, <2>3, <2>4, <2>5, <2>6, <2>7, CutStep

\* The cut at a call: a block that starts it, one that is behind it, and an empty one
\* between them that polls the callee and resumes.
LEMMA SplitCallStep == ASSUME SMInv, SplitCall PROVE SMInv'
<1> DEFINE p == sites[turn]
           b == Here(p).block
           postCall == Len(cfg) + 1
           check == Len(cfg) + 2
           kinds == << <<b, [kind |-> "CrossFnCallInit", resume_check |-> check]>>,
                       <<check, [kind |-> "CrossFnCallResume", done_block |-> postCall,
                                 result |-> StmtAt(p).local]>> >>
           s == SplitAfter(b, CurrentIdx(p))
           empty == [stmts |-> << >>, home |-> 0]
<1>1. /\ phase = "split" /\ turn <= Len(sites)
      /\ cfg' = Append(s, empty) /\ layout' = WithState(b, check, kinds)
      /\ AddState(b, check) /\ cur' = [orig |-> p[1], block |-> postCall, prev |-> p[2]]
      /\ UNCHANGED <<fn, liveness, phase, sites, slots, running>>
  BY DEF SplitCall
<1>2. /\ b \in DOMAIN cfg /\ s \in Seq(BlockType)
      /\ Len(cfg) \in Nat /\ Len(s) = Len(cfg) + 1
      /\ \A c \in DOMAIN cfg : c # b => s[c] = cfg[c]
      /\ s[Len(cfg) + 1] =
             [stmts |-> Segment(p[1], p[2], Len(fn.stmts[p[1]])), home |-> p[1]]
  BY <1>1, SiteSplit
<1>t. TransInv /\ FnInv /\ fn \in Functions /\ cfg \in Seq(BlockType)
  BY DEF SMInv, TransInv, FnInv, LayoutInv
<1>e. empty \in BlockType
  <2>1. << >> \in Seq(FnPlaces)
    BY EmptySeq
  <2>2. 0 \in 0 .. Len(fn.stmts)
    BY <1>t, FnFacts
  <2> QED BY <2>1, <2>2 DEF BlockType
<1>l. StmtAt(p).local \in Locals
  <2>1. p \in FnPlaces
    BY <1>1, <1>t, HereFacts
  <2>2. StmtAt(p) \in Statements
    BY <2>1, <1>t, FnFacts
  <2> HIDE DEF p
  <2> QED BY <2>2 DEF Statements
<1>3. /\ cfg' \in Seq(BlockType) /\ Len(cfg') = Len(cfg) + 2
      /\ \A c \in DOMAIN cfg : c # b => cfg'[c] = cfg[c]
      /\ cfg'[Len(cfg) + 1] =
             [stmts |-> Segment(p[1], p[2], Len(fn.stmts[p[1]])), home |-> p[1]]
      /\ DOMAIN cfg' = 1 .. Len(cfg) + 2 /\ DOMAIN cfg = 1 .. Len(cfg)
  <2> HIDE DEF s, empty, b
  <2>1. DOMAIN cfg = 1 .. Len(cfg)
    BY <1>t, LenProperties
  <2>2. /\ Append(s, empty) \in Seq(BlockType) /\ Len(Append(s, empty)) = Len(s) + 1
        /\ \A i \in 1 .. Len(s) : Append(s, empty)[i] = s[i]
    BY <1>2, <1>e, AppendProperties
  <2>3. DOMAIN cfg' = 1 .. Len(cfg) + 2
    BY <2>2, <1>1, <1>2, LenProperties
  <2>4. \A c \in DOMAIN cfg : c # b => cfg'[c] = cfg[c]
    BY <2>1, <2>2, <1>1, <1>2
  <2>5. cfg'[Len(cfg) + 1] = s[Len(cfg) + 1]
    BY <2>2, <1>1, <1>2
  <2> QED BY <2>1, <2>2, <2>3, <2>4, <2>5, <1>1, <1>2
<1>4. kinds \in Sorts(DOMAIN cfg')
  <2> DEFINE T == (DOMAIN cfg') \X Kinds(DOMAIN cfg')
             e == <<b, [kind |-> "CrossFnCallInit", resume_check |-> check]>>
             f == <<check, [kind |-> "CrossFnCallResume", done_block |-> postCall,
                            result |-> StmtAt(p).local]>>
  <2>0. b \in DOMAIN cfg' /\ check \in DOMAIN cfg' /\ postCall \in DOMAIN cfg'
    BY <1>2, <1>3
  <2>1. e \in T
    <3> HIDE DEF check, b
    <3>1. [kind |-> "CrossFnCallInit", resume_check |-> check] \in Kinds(DOMAIN cfg')
      BY <2>0 DEF Kinds
    <3> QED BY <3>1, <2>0
  <2>2. f \in T
    <3> HIDE DEF check, postCall, p
    <3>1. [kind |-> "CrossFnCallResume", done_block |-> postCall,
           result |-> StmtAt(p).local] \in Kinds(DOMAIN cfg')
      BY <2>0, <1>l DEF Kinds
    <3> QED BY <3>1, <2>0
  <2>3. << e, f >> \in Seq(T)
    <3> HIDE DEF T, e, f
    <3> QED BY <2>1, <2>2
  <2> QED BY <2>3 DEF Sorts
<1>5. \A i \in DOMAIN kinds : kinds[i][2].kind # "CrossFnCallResume" => kinds[i][1] = b
  <2>1. /\ DOMAIN kinds = {1, 2} /\ kinds[1][1] = b
        /\ kinds[2][2].kind = "CrossFnCallResume"
    OBVIOUS
  <2> QED BY <2>1
<1>6. PICK q, k, r : q = p /\ k = kinds /\ r = check
  OBVIOUS
<1>7. r \in DOMAIN cfg' /\ Len(cfg) + 1 <= Len(cfg')
  BY <1>2, <1>3, <1>6
<1> HIDE DEF p, kinds, check, postCall
<1> QED
  <2>1. q = sites[turn]
    BY <1>6 DEF p
  <2>2. k \in Sorts(DOMAIN cfg')
    BY <1>4, <1>6
  <2>3. \A i \in DOMAIN k : k[i][2].kind # "CrossFnCallResume" => k[i][1] = Here(q).block
    BY <1>5, <1>6
  <2>4. /\ layout' = WithState(Here(q).block, r, k) /\ AddState(Here(q).block, r)
    BY <1>1, <1>6
  <2>5. cur' = [orig |-> q[1], block |-> Len(cfg) + 1, prev |-> q[2]]
    BY <1>1, <1>6 DEF postCall
  <2>6. /\ \A c \in DOMAIN cfg : c # Here(q).block => cfg'[c] = cfg[c]
        /\ cfg'[Len(cfg) + 1] =
             [stmts |-> Segment(q[1], q[2], Len(fn.stmts[q[1]])), home |-> q[1]]
    BY <1>3, <1>6
  <2>7. /\ phase = "split" /\ turn <= Len(sites) /\ cfg' \in Seq(BlockType)
        /\ UNCHANGED <<fn, liveness, phase, sites, slots, running>>
    BY <1>1, <1>3
  <2> QED BY <1>7, <2>1, <2>2, <2>3, <2>4, <2>5, <2>6, <2>7, CutStep

-----------------------------------------------------------------------------
(* The steps between the loops. *)

\* When the machine is started, it is at the entry of the function.
LEMMA StartOfRun ==
    ASSUME SMInv, at = <<1, 1>>
    PROVE  at = <<at[1], at[2]>> /\ at[1] \in DOMAIN cfg /\ at[2] \in 1 .. Len(cfg[at[1]].stmts) + 1
<1>1. fn \in Functions /\ cfg \in Seq(BlockType) /\ Len(fn.stmts) <= Len(cfg)
  BY DEF SMInv, TransInv, FnInv, LayoutInv
<1>2. DOMAIN cfg = 1 .. Len(cfg) /\ Len(cfg) \in Nat /\ 1 \in DOMAIN cfg
  BY <1>1, LenProperties, FnFacts
<1>3. cfg[1] \in BlockType
  BY <1>1, <1>2, ElementOfSeq
<1>4. Len(cfg[1].stmts) \in Nat
  BY <1>3, LenProperties DEF BlockType
<1> QED BY <1>2, <1>4

\* The tables stay right when nothing that they are about changes.
LEMMA TablesKept ==
    ASSUME TablesInv, LiftedSites' = LiftedSites, layout' = layout, sites' = sites,
           liveness' = liveness, slots' = slots, siteYield' = siteYield, siteResume' = siteResume
    PROVE  TablesInv'
<1>1. \A k : Lookup(sites[k])' = Lookup(sites[k])
  BY DEF Lookup
<1>2. \A k : Entries(k)' = Entries(k)
  BY <1>1 DEF Entries
<1> QED BY <1>1, <1>2 DEF TablesInv

\* A function that cannot suspend keeps its blocks and gets no layout.
LEMMA NotSuspendingStep == ASSUME SMInv, NotSuspending PROVE SMInv'
<1> USE DEF NotSuspending
<1>u. /\ phase = "scan" /\ ~fn.suspending /\ phase' = "run"
      /\ fn' = fn /\ liveness' = liveness /\ cfg' = cfg /\ sites' = sites /\ turn' = turn
      /\ cur' = cur /\ layout' = layout /\ siteYield' = siteYield /\ siteResume' = siteResume
      /\ slots' = slots
      /\ at' = at /\ frame' = frame /\ regs' = regs /\ env' = env /\ seen' = seen /\ done' = done
  BY DEF running
<1> HIDE DEF NotSuspending
<1>i. FnInv /\ SitesInv /\ LayoutInv /\ SlotsInv /\ TablesInv /\ RunInv
  BY DEF SMInv, TransInv
<1>1. sites = << >> /\ Len(sites) = 0
  BY <1>u, <1>i, EmptySeq DEF SitesInv
<1>2. CutSites' = CutSites /\ LiftedSites' = LiftedSites
  BY <1>u, <1>1 DEF CutSites, LiftedSites
<1>3. FnInv'
  BY <1>i, <1>u DEF FnInv, Sites
<1>4. SitesInv'
  BY <1>i, <1>u, <1>1 DEF SitesInv, Sites
<1>5. LayoutInv'
  <2>1. LayoutType' = LayoutType /\ BlockType' = BlockType
    BY <1>u DEF LayoutType, BlockType, FnPlaces
  <2> QED BY <2>1, <1>i, <1>u, <1>2 DEF LayoutInv
<1>6. CutInv'
  BY <1>u DEF CutInv
<1>7. SlotsInv'
  BY <1>i, <1>u DEF SlotsInv, NextSlot
<1>8. TablesInv'
  BY <1>i, <1>u, <1>2, TablesKept
<1>9. RunInv'
  <2>1. at = <<1, 1>>
    BY <1>i, <1>u DEF RunInv
  <2>2. at = <<at[1], at[2]>> /\ at[1] \in DOMAIN cfg /\ at[2] \in 1 .. Len(cfg[at[1]].stmts) + 1
    BY <2>1, StartOfRun
  <2> QED BY <2>1, <2>2, <1>i, <1>u DEF RunInv, Slots
<1> QED BY <1>3, <1>4, <1>5, <1>6, <1>7, <1>8, <1>9 DEF SMInv, TransInv

\* The scan lists the sites of the function, each once and in order.
LEMMA ScanStep == ASSUME SMInv, Scan PROVE SMInv'
<1>u. /\ phase = "scan" /\ fn.suspending /\ phase' = "split"
      /\ sites' \in SetToSeqs(Sites(fn))
      /\ \A i, j \in DOMAIN sites' : i < j => Before(sites'[i], sites'[j])
      /\ layout' = [layout EXCEPT !.resume_entries = <<1>>]
      /\ fn' = fn /\ liveness' = liveness /\ cfg' = cfg /\ turn' = turn
      /\ cur' = cur /\ siteYield' = siteYield /\ siteResume' = siteResume /\ slots' = slots
      /\ at' = at /\ frame' = frame /\ regs' = regs /\ env' = env /\ seen' = seen /\ done' = done
  BY DEF Scan, running
<1>i. FnInv /\ SitesInv /\ LayoutInv /\ CutInv /\ SlotsInv /\ TablesInv /\ RunInv
  BY DEF SMInv, TransInv
<1>1. sites = << >> /\ Len(sites) = 0 /\ turn = 1
  BY <1>u, <1>i, EmptySeq DEF SitesInv
<1>2. sites' \in Seq(Sites(fn)) /\ Range(sites') = Sites(fn) /\ Len(sites') \in Nat
  BY <1>u, <1>i, SetListings, SitesFinite, LenProperties DEF FnInv
<1>3. CutSites = 0 /\ CutSites' = 0 /\ LiftedSites = 0 /\ LiftedSites' = 0
  BY <1>u, <1>1 DEF CutSites, LiftedSites
<1>4. FnInv'
  BY <1>i, <1>u DEF FnInv, Sites
<1>5. SitesInv'
  <2>1. Sites(fn') = Sites(fn)
    BY <1>u
  <2>2. turn' \in 1 .. Len(sites') + 1
    BY <1>u, <1>1, <1>2
  <2> QED BY <2>1, <2>2, <1>u, <1>2 DEF SitesInv
<1>6. LayoutInv'
  <2>1. LayoutType' = LayoutType /\ BlockType' = BlockType
    BY <1>u DEF LayoutType, BlockType, FnPlaces
  <2>2. <<1>> \in Seq(DOMAIN cfg) /\ Len(<<1>>) = 1
    <3>1. 1 \in DOMAIN cfg
      BY <1>i, LenProperties, FnFacts DEF LayoutInv, FnInv
    <3> QED BY <3>1
  <2>3. layout \in LayoutType
    BY <1>i DEF LayoutInv
  <2>4. /\ layout' \in LayoutType /\ layout'.resume_entries = <<1>>
        /\ layout'.yield_blocks = layout.yield_blocks /\ layout'.block_kinds = layout.block_kinds
    BY <2>2, <2>3, <1>u DEF LayoutType
  <2>5. Len(layout'.resume_entries) =
            IF phase' # "scan" /\ fn'.suspending THEN CutSites' + 1 ELSE 0
    BY <2>2, <2>4, <1>u, <1>3
  <2>6. DOMAIN layout.block_kinds = {}
    BY <1>i, <1>1 DEF LayoutInv
  <2> QED BY <2>1, <2>4, <2>5, <2>6, <1>i, <1>u, <1>3 DEF LayoutInv
<1>7. CutInv'
  BY <1>i, <1>u, <1>1 DEF CutInv
<1>8. SlotsInv'
  BY <1>i, <1>u DEF SlotsInv, NextSlot
<1>9. TablesInv'
  <2>1. layout'.yield_saves = layout.yield_saves /\ layout'.resume_loads = layout.resume_loads
    BY <1>i, <1>u DEF LayoutInv, LayoutType
  <2>2. 1 .. LiftedSites = {} /\ 1 .. LiftedSites' = {}
    BY <1>3
  <2> QED BY <2>1, <2>2, <1>i DEF TablesInv
<1>10. RunInv'
  <2>1. frame \in [state_id : 0 .. Len(sites'), saved : [Slots -> Data \cup {Undef}]]
    BY <1>i, <1>1, <1>2 DEF RunInv
  <2> QED BY <2>1, <1>i, <1>u DEF RunInv, Slots
<1> QED BY <1>4, <1>5, <1>6, <1>7, <1>8, <1>9, <1>10 DEF SMInv, TransInv

\* Behind the first loop every site has its blocks.
LEMMA AllSplitStep == ASSUME SMInv, AllSplit PROVE SMInv'
<1>u. /\ phase = "split" /\ turn > Len(sites) /\ phase' = "lift" /\ turn' = 1
      /\ fn' = fn /\ liveness' = liveness /\ cfg' = cfg /\ sites' = sites
      /\ cur' = cur /\ layout' = layout /\ siteYield' = siteYield /\ siteResume' = siteResume
      /\ slots' = slots
      /\ at' = at /\ frame' = frame /\ regs' = regs /\ env' = env /\ seen' = seen /\ done' = done
  BY DEF AllSplit, running
<1>i. FnInv /\ SitesInv /\ LayoutInv /\ SlotsInv /\ TablesInv /\ RunInv
  BY DEF SMInv, TransInv
<1>1. Len(sites) \in Nat /\ turn - 1 = Len(sites)
  BY <1>u, <1>i, LenProperties DEF SitesInv
<1>2. CutSites' = CutSites /\ LiftedSites' = LiftedSites
  BY <1>u, <1>1 DEF CutSites, LiftedSites
<1>3. FnInv'
  BY <1>i, <1>u DEF FnInv, Sites
<1>4. SitesInv'
  BY <1>i, <1>u, <1>1 DEF SitesInv, Sites
<1>5. LayoutInv'
  <2>1. LayoutType' = LayoutType /\ BlockType' = BlockType
    BY <1>u DEF LayoutType, BlockType, FnPlaces
  <2> QED BY <2>1, <1>i, <1>u, <1>2 DEF LayoutInv
<1>6. CutInv'
  BY <1>u DEF CutInv
<1>7. SlotsInv'
  BY <1>i, <1>u DEF SlotsInv, NextSlot
<1>8. TablesInv'
  BY <1>i, <1>u, <1>2, TablesKept
<1>9. RunInv'
  BY <1>i, <1>u DEF RunInv, Slots
<1> QED BY <1>3, <1>4, <1>5, <1>6, <1>7, <1>8, <1>9 DEF SMInv, TransInv

\* Behind the second loop every site has its entries in the tables.
LEMMA AllLiftedStep == ASSUME SMInv, AllLifted PROVE SMInv'
<1>u. /\ phase = "lift" /\ turn > Len(sites) /\ phase' = "run"
      /\ fn' = fn /\ liveness' = liveness /\ cfg' = cfg /\ sites' = sites /\ turn' = turn
      /\ cur' = cur /\ layout' = layout /\ siteYield' = siteYield /\ siteResume' = siteResume
      /\ slots' = slots
      /\ at' = at /\ frame' = frame /\ regs' = regs /\ env' = env /\ seen' = seen /\ done' = done
  BY DEF AllLifted, running
<1>i. FnInv /\ SitesInv /\ LayoutInv /\ SlotsInv /\ TablesInv /\ RunInv
  BY DEF SMInv, TransInv
<1>1. Len(sites) \in Nat /\ turn - 1 = Len(sites)
  BY <1>u, <1>i, LenProperties DEF SitesInv
<1>2. CutSites' = CutSites /\ LiftedSites' = LiftedSites
  BY <1>u, <1>1 DEF CutSites, LiftedSites
<1>3. FnInv'
  BY <1>i, <1>u DEF FnInv, Sites
<1>4. SitesInv'
  BY <1>i, <1>u, <1>1 DEF SitesInv, Sites
<1>5. LayoutInv'
  <2>1. LayoutType' = LayoutType /\ BlockType' = BlockType
    BY <1>u DEF LayoutType, BlockType, FnPlaces
  <2> QED BY <2>1, <1>i, <1>u, <1>2 DEF LayoutInv
<1>6. CutInv'
  BY <1>u DEF CutInv
<1>7. SlotsInv'
  BY <1>i, <1>u DEF SlotsInv, NextSlot
<1>8. TablesInv'
  BY <1>i, <1>u, <1>2, TablesKept
<1>9. RunInv'
  <2>1. at = <<1, 1>> /\ fn.suspending
    BY <1>i, <1>u DEF RunInv, SitesInv
  <2>2. at = <<at[1], at[2]>> /\ at[1] \in DOMAIN cfg /\ at[2] \in 1 .. Len(cfg[at[1]].stmts) + 1
    BY <2>1, StartOfRun
  <2> QED BY <2>1, <2>2, <1>i, <1>u DEF RunInv, Slots
<1> QED BY <1>3, <1>4, <1>5, <1>6, <1>7, <1>8, <1>9 DEF SMInv, TransInv

-----------------------------------------------------------------------------
(* The captures lift. *)

\* Min finds the least member of a set of numbers.
LEMMA MinIs ==
    ASSUME NEW T \in SUBSET Nat, T # {}
    PROVE  Min(T) \in T /\ \A y \in T : Min(T) <= y
<1> DEFINE R == {p \in Nat \X Nat : p[1] < p[2]}
<1>1. IsWellFoundedOn(R, Nat)
  BY NatLessThanWellFounded DEF OpToRel
<1>2. \A x, y \in Nat : x < y => <<x, y>> \in R
  OBVIOUS
<1> HIDE DEF R
<1>3. PICK x \in T : \A y \in T : <<y, x>> \notin R
  BY <1>1, WFMin
<1>4. \A y \in T : y \in Nat /\ x \in Nat
  BY <1>3
<1>5. \A y \in T : ~(y < x)
  BY <1>2, <1>3, <1>4
<1>6. \A y \in T : x <= y
  BY <1>4, <1>5
<1> QED BY <1>3, <1>6 DEF Min

\* The first slot behind those that s gives out.
Behind(s) == ReservedSlots + Cardinality(DOMAIN s)

\* A proper subset of a finite set is smaller.
LEMMA ProperSubset ==
    ASSUME NEW S, IsFiniteSet(S), NEW T \in SUBSET S, T # S
    PROVE  IsFiniteSet(T) /\ Cardinality(T) \in Nat /\ Cardinality(T) < Cardinality(S)
<1>1. IsFiniteSet(T) /\ Cardinality(T) <= Cardinality(S) /\ Cardinality(S) # Cardinality(T)
  BY FS_Subset
<1>2. Cardinality(T) \in Nat /\ Cardinality(S) \in Nat
  BY <1>1, FS_CardinalityType
<1> QED BY <1>1, <1>2

\* A local keeps the slot it has; the others named get the next slots, one each.
LEMMA WithSlotsFacts ==
    ASSUME SlotsInv, NEW live \in Seq(Locals), NEW s, s = WithSlots(live)
    PROVE  /\ DOMAIN s = DOMAIN slots \cup Range(live) /\ DOMAIN s \subseteq Locals
           /\ \A v \in DOMAIN slots : s[v] = slots[v]
           /\ \A v \in DOMAIN s : s[v] \in Nat /\ ReservedSlots <= s[v]
           /\ Behind(s) \in Nat /\ \A v \in DOMAIN s : s[v] < Behind(s)
           /\ IsInjective(s)
<1> DEFINE new == Range(live) \ DOMAIN slots
           At(v) == {j \in DOMAIN live : live[j] = v}
           First(v) == Min(At(v))
           Earlier(v) == {w \in new : First(w) < First(v)}
           n == Cardinality(new)
           old == Cardinality(DOMAIN slots)
<1>n. PICK next : next = Behind(s)
  OBVIOUS
<1>0. IsFiniteSet(Locals) /\ ReservedSlots \in Nat
  BY LocalsAssumption
<1>1. DOMAIN live \subseteq Nat /\ Range(live) \subseteq Locals
  <2>1. DOMAIN live = 1 .. Len(live) /\ Len(live) \in Nat
    BY LenProperties
  <2>2. \A j \in DOMAIN live : live[j] \in Locals
    BY <2>1, ElementOfSeq
  <2> QED BY <2>1, <2>2 DEF Range
<1>2. DOMAIN slots \subseteq Locals
  BY DEF SlotsInv
<1>3. /\ DOMAIN s = DOMAIN slots \cup Range(live)
      /\ \A v \in DOMAIN s : s[v] = IF v \in new THEN NextSlot + Cardinality(Earlier(v)) ELSE slots[v]
  BY DEF WithSlots
<1>4. \A v \in new : First(v) \in Nat /\ live[First(v)] = v
  <2> SUFFICES ASSUME NEW v \in new PROVE First(v) \in Nat /\ live[First(v)] = v
    OBVIOUS
  <2>1. At(v) # {} /\ At(v) \in SUBSET Nat
    BY <1>1 DEF Range
  <2>2. First(v) \in At(v)
    <3> HIDE DEF At
    <3> QED BY <2>1, MinIs
  <2> QED BY <2>2, <1>1
<1> HIDE DEF First, At
<1>5. IsFiniteSet(new) /\ IsFiniteSet(DOMAIN slots) /\ n \in Nat /\ old \in Nat
  <2>1. new \in SUBSET Locals /\ DOMAIN slots \in SUBSET Locals
    BY <1>1, <1>2
  <2>2. IsFiniteSet(new) /\ IsFiniteSet(DOMAIN slots)
    <3> HIDE DEF new
    <3> QED BY <2>1, <1>0, FS_Subset
  <2> QED BY <2>2, FS_CardinalityType
<1>6. Cardinality(DOMAIN s) = old + n
  <2>1. DOMAIN s = DOMAIN slots \cup new /\ DOMAIN slots \cap new = {}
    BY <1>3
  <2>2. Cardinality(DOMAIN slots \cap new) = 0
    BY <2>1, FS_EmptySet
  <2> HIDE DEF new
  <2>3. Cardinality(DOMAIN slots \cup new) = old + n - Cardinality(DOMAIN slots \cap new)
    BY <1>5, FS_Union
  <2> QED BY <2>1, <2>2, <2>3, <1>5
<1>7. NextSlot = ReservedSlots + old
  BY DEF NextSlot
<1> HIDE DEF new, n, old
\* The named of a set get numbers below its size, growing with the order of naming.
<1>8. \A v \in new : Cardinality(Earlier(v)) \in Nat /\ Cardinality(Earlier(v)) < n
  <2> SUFFICES ASSUME NEW v \in new PROVE Cardinality(Earlier(v)) \in Nat /\ Cardinality(Earlier(v)) < n
    OBVIOUS
  <2>1. Earlier(v) \in SUBSET new /\ Earlier(v) # new
    BY <1>4
  <2> HIDE DEF Earlier
  <2>2. Cardinality(Earlier(v)) \in Nat /\ Cardinality(Earlier(v)) < Cardinality(new)
    BY <2>1, <1>5, ProperSubset
  <2> QED BY <2>2 DEF n
<1>9. \A v, w \in new : First(v) < First(w) => Cardinality(Earlier(v)) < Cardinality(Earlier(w))
  <2> SUFFICES ASSUME NEW v \in new, NEW w \in new, First(v) < First(w)
               PROVE  Cardinality(Earlier(v)) < Cardinality(Earlier(w))
    OBVIOUS
  <2>0. First(v) \in Nat /\ First(w) \in Nat
    BY <1>4
  <2>1. Earlier(v) \in SUBSET Earlier(w) /\ v \in Earlier(w) /\ v \notin Earlier(v)
    BY <1>4, <2>0
  <2>2. Earlier(w) \in SUBSET new
    OBVIOUS
  <2> HIDE DEF Earlier
  <2>3. IsFiniteSet(Earlier(w))
    BY <2>2, <1>5, FS_Subset
  <2>4. Earlier(v) # Earlier(w)
    BY <2>1
  <2> QED BY <2>1, <2>3, <2>4, ProperSubset
<1> HIDE DEF Earlier
<1>10. \A v \in DOMAIN slots : s[v] = slots[v]
  BY <1>3 DEF new
<1>11. \A v \in DOMAIN slots : slots[v] \in Nat /\ ReservedSlots <= slots[v] /\ slots[v] < NextSlot
  BY DEF SlotsInv
<1>12. \A v \in new : /\ s[v] \in Nat /\ NextSlot <= s[v] /\ s[v] < NextSlot + n
                      /\ s[v] = NextSlot + Cardinality(Earlier(v))
  <2>1. \A v \in new : v \in DOMAIN s
    BY <1>3 DEF new
  <2> QED BY <2>1, <1>0, <1>3, <1>5, <1>7, <1>8
<1>13. \A v \in DOMAIN s : v \in DOMAIN slots \/ v \in new
  BY <1>3 DEF new
<1>14. next = NextSlot + n /\ next \in Nat /\ NextSlot \in Nat /\ ReservedSlots <= NextSlot
  BY <1>n, <1>0, <1>5, <1>6, <1>7 DEF Behind
<1>15. \A v \in DOMAIN s : s[v] \in Nat /\ ReservedSlots <= s[v] /\ s[v] < next
  <2> SUFFICES ASSUME NEW v \in DOMAIN s PROVE s[v] \in Nat /\ ReservedSlots <= s[v] /\ s[v] < next
    OBVIOUS
  <2>1. CASE v \in DOMAIN slots
    BY <2>1, <1>0, <1>5, <1>10, <1>11, <1>14
  <2>2. CASE v \in new
    BY <2>2, <1>0, <1>12, <1>14
  <2> QED BY <2>1, <2>2, <1>13
<1>16. ASSUME NEW v \in DOMAIN s, NEW w \in DOMAIN s, s[v] = s[w] PROVE v = w
  <2>1. CASE v \in DOMAIN slots /\ w \in DOMAIN slots
    BY <2>1, <1>10, <1>16 DEF SlotsInv
  <2>2. CASE v \in DOMAIN slots /\ w \in new
    BY <2>2, <1>10, <1>11, <1>12, <1>14, <1>16
  <2>3. CASE v \in new /\ w \in DOMAIN slots
    BY <2>3, <1>10, <1>11, <1>12, <1>14, <1>16
  <2>4. CASE v \in new /\ w \in new
    <3>1. Cardinality(Earlier(v)) = Cardinality(Earlier(w))
      BY <2>4, <1>8, <1>12, <1>14, <1>16
    <3>2. First(v) = First(w)
      BY <3>1, <2>4, <1>4, <1>8, <1>9
    <3> QED BY <3>2, <2>4, <1>4
  <2> QED BY <2>1, <2>2, <2>3, <2>4, <1>13
<1>17. DOMAIN s = DOMAIN slots \cup Range(live) /\ DOMAIN s \subseteq Locals
  BY <1>1, <1>2, <1>3
<1>18. IsInjective(s)
  BY <1>16 DEF IsInjective
<1> QED BY <1>n, <1>10, <1>14, <1>15, <1>17, <1>18

\* A slot is one of the frame's: there are no more of them than locals.
LEMMA SlotsSuffice ==
    ASSUME NEW s, DOMAIN s \subseteq Locals,
           \A v \in DOMAIN s : s[v] \in Nat /\ s[v] < Behind(s)
    PROVE  \A v \in DOMAIN s : s[v] \in Slots
<1>1. Cardinality(DOMAIN s) <= Cardinality(Locals)
  BY LocalsAssumption, FS_Subset
<1>2. Cardinality(DOMAIN s) \in Nat /\ Cardinality(Locals) \in Nat /\ ReservedSlots \in Nat
  BY LocalsAssumption, FS_Subset, FS_CardinalityType
<1> QED BY <1>1, <1>2 DEF Slots, Behind

\* The lift of one site: its live locals have slots, and what it saves and loads are
\* those slots; the slots that other sites use are as they were.
LEMMA LiftStep == ASSUME SMInv, Lift PROVE SMInv'
<1> DEFINE live == Lookup(sites[turn])
           entries == [j \in DOMAIN live |-> <<slots'[live[j]], live[j]>>]
<1>u. /\ phase = "lift" /\ turn <= Len(sites) /\ turn' = turn + 1 /\ slots' = WithSlots(live)
      /\ fn' = fn /\ liveness' = liveness /\ cfg' = cfg /\ phase' = phase /\ sites' = sites
      /\ cur' = cur /\ siteYield' = siteYield /\ siteResume' = siteResume
      /\ at' = at /\ frame' = frame /\ regs' = regs /\ env' = env /\ seen' = seen /\ done' = done
  BY DEF Lift, running
<1>l. /\ live = << >> => layout' = layout
      /\ live # << >> =>
           layout' = [layout EXCEPT !.yield_saves = Append(@, <<siteYield[turn], entries>>),
                                    !.resume_loads = Append(@, <<siteResume[turn], entries>>)]
  BY DEF Lift
<1>i. FnInv /\ SitesInv /\ LayoutInv /\ SlotsInv /\ TablesInv /\ RunInv
  BY DEF SMInv, TransInv
<1>1. /\ Len(sites) \in Nat /\ turn \in Nat /\ turn >= 1 /\ turn \in DOMAIN sites
      /\ DOMAIN sites = 1 .. Len(sites) /\ sites[turn] \in Sites(fn)
  BY <1>u, <1>i, LenProperties, ElementOfSeq DEF SitesInv
<1>2. live \in Seq(Locals)
  BY <1>1, <1>i DEF FnInv, Lookup
<1>3. /\ CutSites = Len(sites) /\ CutSites' = CutSites
      /\ LiftedSites = turn - 1 /\ LiftedSites' = turn
  BY <1>u, <1>1 DEF CutSites, LiftedSites
<1> HIDE DEF live
<1>4. /\ DOMAIN slots' = DOMAIN slots \cup Range(live) /\ DOMAIN slots' \subseteq Locals
      /\ \A v \in DOMAIN slots : slots'[v] = slots[v]
      /\ \A v \in DOMAIN slots' : slots'[v] \in Nat /\ ReservedSlots <= slots'[v] /\ slots'[v] < NextSlot'
      /\ \A v, w \in DOMAIN slots' : slots'[v] = slots'[w] => v = w
  <2>1. PICK s : s = slots'
    OBVIOUS
  <2>2. PICK next : next = NextSlot'
    OBVIOUS
  <2>3. next = Behind(s)
    BY <2>1, <2>2 DEF NextSlot, Behind
  <2>4. s = WithSlots(live)
    BY <2>1, <1>u
  <2>5. /\ DOMAIN s = DOMAIN slots \cup Range(live) /\ DOMAIN s \subseteq Locals
        /\ \A v \in DOMAIN slots : s[v] = slots[v]
        /\ \A v \in DOMAIN s : s[v] \in Nat /\ ReservedSlots <= s[v] /\ s[v] < next
        /\ \A v, w \in DOMAIN s : s[v] = s[w] => v = w
    <3>1. PICK lv : lv = live
      OBVIOUS
    <3>2. lv \in Seq(Locals) /\ s = WithSlots(lv) /\ SlotsInv
      BY <3>1, <2>4, <1>i, <1>2
    <3>3. DOMAIN s = DOMAIN slots \cup Range(lv) /\ DOMAIN s \subseteq Locals
      BY <3>2, WithSlotsFacts
    <3>4. \A v \in DOMAIN slots : s[v] = slots[v]
      BY <3>2, WithSlotsFacts
    <3>5. \A v \in DOMAIN s : s[v] \in Nat /\ ReservedSlots <= s[v] /\ s[v] < next
      <4>1. \A v \in DOMAIN s : s[v] \in Nat
        BY <3>2, WithSlotsFacts
      <4>2. \A v \in DOMAIN s : ReservedSlots <= s[v]
        BY <3>2, WithSlotsFacts
      <4>3. \A v \in DOMAIN s : s[v] < next
        <5>1. Behind(s) \in Nat
          BY <3>2, WithSlotsFacts
        <5>2. \A v \in DOMAIN s : s[v] < Behind(s)
          BY <3>2, <4>1, <5>1, WithSlotsFacts
        <5> QED BY <5>2, <2>3
      <4> QED BY <4>1, <4>2, <4>3
    <3>6. \A v, w \in DOMAIN s : s[v] = s[w] => v = w
      <4>1. IsInjective(s)
        BY <3>2, WithSlotsFacts
      <4> QED BY <4>1 DEF IsInjective
    <3> QED BY <3>1, <3>3, <3>4, <3>5, <3>6
  <2> QED BY <2>1, <2>2, <2>5
<1>5. \A v \in DOMAIN slots' : slots'[v] \in Slots
  <2>1. PICK s : s = slots'
    OBVIOUS
  <2>2. \A v \in DOMAIN s : s[v] \in Nat /\ s[v] < Behind(s)
    BY <2>1, <1>4 DEF NextSlot, Behind
  <2> QED BY <2>1, <2>2, <1>4, SlotsSuffice
<1>6. /\ DOMAIN live = 1 .. Len(live) /\ Len(live) \in Nat
      /\ \A j \in DOMAIN live : live[j] \in Locals /\ live[j] \in DOMAIN slots'
  <2>1. DOMAIN live = 1 .. Len(live) /\ Len(live) \in Nat
    BY <1>2, LenProperties
  <2>2. \A j \in DOMAIN live : live[j] \in Locals /\ live[j] \in Range(live)
    BY <1>2, <2>1, ElementOfSeq DEF Range
  <2> QED BY <2>1, <2>2, <1>4
<1>7. entries \in Seq(Slots \X Locals)
  <2>1. entries \in [1 .. Len(live) -> Slots \X Locals]
    BY <1>5, <1>6
  <2> QED BY <2>1, <1>6, SeqDef
<1>8. /\ \A k \in 1 .. turn - 1 : Entries(k)' = Entries(k)
      /\ \A k : k = turn => Entries(k)' = entries
      /\ \A k : Lookup(sites[k])' = Lookup(sites[k])
  <2>1. \A k : Lookup(sites[k])' = Lookup(sites[k])
    BY <1>u DEF Lookup
  <2>2. ASSUME NEW k \in 1 .. turn - 1 PROVE Entries(k)' = Entries(k)
    <3>0. PICK lk : lk = Lookup(sites[k])
      OBVIOUS
    <3>1. Range(lk) \subseteq DOMAIN slots
      BY <3>0, <1>3, <1>i DEF TablesInv
    <3>2. \A j \in DOMAIN lk : slots'[lk[j]] = slots[lk[j]]
      BY <3>1, <1>4 DEF Range
    <3>3. Entries(k) = [j \in DOMAIN lk |-> <<slots[lk[j]], lk[j]>>]
      BY <3>0 DEF Entries
    <3>4. Entries(k)' = [j \in DOMAIN lk |-> <<slots'[lk[j]], lk[j]>>]
      BY <3>0, <2>1 DEF Entries
    <3> QED BY <3>2, <3>3, <3>4
  <2>4. \A k : k = turn => Entries(k)' = entries
    BY <2>1 DEF Entries, live
  <2> QED BY <2>1, <2>2, <2>4
<1>9. FnInv'
  BY <1>i, <1>u DEF FnInv, Sites
<1>10. SitesInv'
  BY <1>i, <1>u, <1>1 DEF SitesInv, Sites
<1>11. CutInv'
  BY <1>u DEF CutInv
<1>12. SlotsInv'
  <2>1. slots' = [v \in DOMAIN slots' |-> slots'[v]]
    BY <1>u DEF WithSlots
  <2>2. slots' \in [DOMAIN slots' -> Nat]
    BY <2>1, <1>4
  <2> QED BY <2>2, <1>4 DEF SlotsInv
<1>13. RunInv'
  BY <1>i, <1>u DEF RunInv, Slots
<1> DEFINE ys == layout.yield_saves
           rl == layout.resume_loads
           y == <<siteYield[turn], entries>>
           r == <<siteResume[turn], entries>>
           n == Len(ys)
<1>14. layout \in LayoutType /\ ys \in Tabled(DOMAIN cfg) /\ rl \in Tabled(DOMAIN cfg)
  BY <1>i DEF LayoutInv, LayoutType
<1>15. y \in (DOMAIN cfg) \X Seq(Slots \X Locals) /\ r \in (DOMAIN cfg) \X Seq(Slots \X Locals)
  <2>1. siteYield \in Seq(DOMAIN cfg) /\ siteResume \in Seq(DOMAIN cfg)
        /\ Len(siteYield) = Len(sites) /\ Len(siteResume) = Len(sites)
    BY <1>i, <1>3 DEF LayoutInv
  <2>2. siteYield[turn] \in DOMAIN cfg /\ siteResume[turn] \in DOMAIN cfg
    BY <2>1, <1>1, ElementOfSeq
  <2> HIDE DEF entries
  <2> QED BY <2>2, <1>7
<1>16. /\ n \in Nat /\ DOMAIN ys = 1 .. n /\ Len(rl) = n /\ DOMAIN rl = 1 .. n
       /\ Append(ys, y) \in Tabled(DOMAIN cfg) /\ Len(Append(ys, y)) = n + 1
       /\ DOMAIN Append(ys, y) = 1 .. n + 1
       /\ \A i \in 1 .. n : Append(ys, y)[i] = ys[i]
       /\ Append(ys, y)[n + 1] = y
       /\ Append(rl, r) \in Tabled(DOMAIN cfg) /\ Len(Append(rl, r)) = n + 1
       /\ DOMAIN Append(rl, r) = 1 .. n + 1
       /\ \A i \in 1 .. n : Append(rl, r)[i] = rl[i]
       /\ Append(rl, r)[n + 1] = r
  <2> DEFINE T == (DOMAIN cfg) \X Seq(Slots \X Locals)
  <2>1. Tabled(DOMAIN cfg) = Seq(T) /\ ys \in Seq(T) /\ rl \in Seq(T) /\ y \in T /\ r \in T
    BY <1>14, <1>15 DEF Tabled
  <2>2. Len(rl) = n
    BY <1>i DEF TablesInv
  <2> HIDE DEF T, ys, rl, y, r
  <2>3. n \in Nat /\ DOMAIN ys = 1 .. n /\ DOMAIN rl = 1 .. n
    BY <2>1, <2>2, LenProperties
  <2>4. ASSUME NEW s \in Seq(T), NEW e \in T, Len(s) = n
        PROVE  /\ Append(s, e) \in Seq(T) /\ Len(Append(s, e)) = n + 1
               /\ DOMAIN Append(s, e) = 1 .. n + 1
               /\ \A i \in 1 .. n : Append(s, e)[i] = s[i]
               /\ Append(s, e)[n + 1] = e
    <3>1. /\ Append(s, e) \in Seq(T) /\ Len(Append(s, e)) = n + 1
          /\ \A i \in 1 .. n : Append(s, e)[i] = s[i]
          /\ Append(s, e)[n + 1] = e
      BY <2>4, AppendProperties
    <3>2. DOMAIN Append(s, e) = 1 .. n + 1
      BY <3>1, LenProperties
    <3> QED BY <3>1, <3>2
  <2> HIDE DEF n
  <2>5. Len(ys) = n
    BY DEF n
  <2> QED BY <2>1, <2>2, <2>3, <2>4, <2>5
<1>t. LayoutType' = LayoutType /\ BlockType' = BlockType
  BY <1>u DEF LayoutType, BlockType, FnPlaces
\* What the sites before this one have saved stays as it is.
<1>o. /\ \A i \in 1 .. n : \E k \in 1 .. turn : k \in 1 .. turn - 1 /\ Lookup(sites[k]) # << >>
             /\ ys[i] = <<siteYield[k], Entries(k)>> /\ rl[i] = <<siteResume[k], Entries(k)>>
      /\ \A k \in 1 .. turn - 1 :
             /\ Range(Lookup(sites[k])) \subseteq DOMAIN slots
             /\ Lookup(sites[k]) # << >> => \E i \in 1 .. n :
                   /\ ys[i] = <<siteYield[k], Entries(k)>>
                   /\ rl[i] = <<siteResume[k], Entries(k)>>
  <2>1. /\ \A i \in 1 .. n : \E k \in 1 .. turn - 1 : Lookup(sites[k]) # << >>
               /\ ys[i] = <<siteYield[k], Entries(k)>> /\ rl[i] = <<siteResume[k], Entries(k)>>
        /\ \A k \in 1 .. turn - 1 :
               /\ Range(Lookup(sites[k])) \subseteq DOMAIN slots
               /\ Lookup(sites[k]) # << >> => \E i \in 1 .. n :
                   /\ ys[i] = <<siteYield[k], Entries(k)>>
                   /\ rl[i] = <<siteResume[k], Entries(k)>>
    BY <1>i, <1>3, <1>16 DEF TablesInv
  <2> HIDE DEF ys, rl, n
  <2>2. \A k \in 1 .. turn - 1 : k \in 1 .. turn
    BY <1>1
  <2> QED BY <2>1, <2>2
<1>d. /\ \A k \in 1 .. turn : k = turn \/ k \in 1 .. turn - 1
      /\ \A i \in 1 .. n + 1 : i = n + 1 \/ i \in 1 .. n
      /\ turn \in 1 .. turn /\ n + 1 \in 1 .. n + 1 /\ \A i \in 1 .. n : i \in 1 .. n + 1
  BY <1>1, <1>16
<1>17. CASE live = << >>
  <2>1. layout' = layout /\ DOMAIN live = {} /\ Range(live) = {}
    BY <1>l, <1>17 DEF Range
  <2>2. LayoutInv'
    BY <1>t, <2>1, <1>i, <1>u, <1>3 DEF LayoutInv
  <2>3. \A i \in 1 .. n : \E k \in 1 .. turn : Lookup(sites[k]) # << >>
            /\ ys[i] = <<siteYield[k], Entries(k)'>> /\ rl[i] = <<siteResume[k], Entries(k)'>>
    BY <1>o, <1>8
  <2>4. \A k \in 1 .. turn :
               /\ Range(Lookup(sites[k])) \subseteq DOMAIN slots'
               /\ Lookup(sites[k]) # << >> => \E i \in 1 .. n :
                      /\ ys[i] = <<siteYield[k], Entries(k)'>>
                      /\ rl[i] = <<siteResume[k], Entries(k)'>>
    <3> SUFFICES ASSUME NEW k \in 1 .. turn
                 PROVE  /\ Range(Lookup(sites[k])) \subseteq DOMAIN slots'
                        /\ Lookup(sites[k]) # << >> => \E i \in 1 .. n :
                               /\ ys[i] = <<siteYield[k], Entries(k)'>>
                               /\ rl[i] = <<siteResume[k], Entries(k)'>>
      OBVIOUS
    <3>1. CASE k = turn
      BY <3>1, <2>1, <1>17 DEF live
    <3>2. CASE k \in 1 .. turn - 1
      <4>1. Range(Lookup(sites[k])) \subseteq DOMAIN slots'
        BY <3>2, <1>o, <1>4
      <4>2. Entries(k)' = Entries(k)
        BY <3>2, <1>8
      <4> HIDE DEF ys, n
      <4>3. Lookup(sites[k]) # << >> => \E i \in 1 .. n :
                   /\ ys[i] = <<siteYield[k], Entries(k)>>
                   /\ rl[i] = <<siteResume[k], Entries(k)>>
        BY <3>2, <1>o
      <4> QED BY <4>1, <4>2, <4>3
    <3> QED BY <3>1, <3>2, <1>d
  <2>5. TablesInv'
    <3>1. /\ layout'.yield_saves = ys /\ layout'.resume_loads = rl /\ DOMAIN ys = 1 .. n
          /\ Len(ys) = Len(rl)
      BY <2>1, <1>16
    <3> HIDE DEF ys, rl, y, r, n
    <3>2. Len(layout'.yield_saves) = Len(layout'.resume_loads)
      BY <3>1
    <3>3. \A i \in DOMAIN layout'.yield_saves : \E k \in 1 .. LiftedSites' :
              /\ Lookup(sites[k])' # << >>
              /\ layout'.yield_saves[i] = <<siteYield'[k], Entries(k)'>>
              /\ layout'.resume_loads[i] = <<siteResume'[k], Entries(k)'>>
      BY <3>1, <2>3, <1>3, <1>8, <1>u
    <3>4. \A k \in 1 .. LiftedSites' :
              /\ Range(Lookup(sites[k])') \subseteq DOMAIN slots'
              /\ Lookup(sites[k])' # << >> =>
                   \E i \in DOMAIN layout'.yield_saves :
                       /\ layout'.yield_saves[i] = <<siteYield'[k], Entries(k)'>>
                       /\ layout'.resume_loads[i] = <<siteResume'[k], Entries(k)'>>
      BY <3>1, <2>4, <1>3, <1>8, <1>u
    <3> QED BY <3>2, <3>3, <3>4 DEF TablesInv
  <2> QED BY <2>2, <2>5, <1>9, <1>10, <1>11, <1>12, <1>13 DEF SMInv, TransInv
<1>18. CASE live # << >>
  <2>1. /\ layout'.yield_saves = Append(ys, y) /\ layout'.resume_loads = Append(rl, r)
        /\ layout'.resume_entries = layout.resume_entries
        /\ layout'.yield_blocks = layout.yield_blocks
        /\ layout'.block_kinds = layout.block_kinds
        /\ layout' = [resume_entries |-> layout.resume_entries,
                      yield_blocks |-> layout.yield_blocks, yield_saves |-> Append(ys, y),
                      resume_loads |-> Append(rl, r), block_kinds |-> layout.block_kinds]
    BY <1>l, <1>14, <1>18 DEF LayoutType
  <2>2. LayoutInv'
    <3>1. layout' \in LayoutType
      BY <2>1, <1>14, <1>16 DEF LayoutType
    <3> HIDE DEF ys, rl, y, r
    <3> QED BY <1>t, <3>1, <2>1, <1>i, <1>u, <1>3 DEF LayoutInv
  <2>3. \A i \in 1 .. n + 1 : \E k \in 1 .. turn : Lookup(sites[k]) # << >>
            /\ Append(ys, y)[i] = <<siteYield[k], Entries(k)'>>
            /\ Append(rl, r)[i] = <<siteResume[k], Entries(k)'>>
    <3> SUFFICES ASSUME NEW i \in 1 .. n + 1
                 PROVE  \E k \in 1 .. turn : Lookup(sites[k]) # << >>
                            /\ Append(ys, y)[i] = <<siteYield[k], Entries(k)'>>
                            /\ Append(rl, r)[i] = <<siteResume[k], Entries(k)'>>
      OBVIOUS
    <3>1. CASE i = n + 1
      <4>1. PICK k : k = turn
        OBVIOUS
      <4>2. Lookup(sites[k]) # << >> /\ k \in 1 .. turn /\ Entries(k)' = entries
        BY <4>1, <1>8, <1>18, <1>d DEF live
      <4>3. Append(ys, y)[i] = <<siteYield[k], entries>> /\ Append(rl, r)[i] = <<siteResume[k], entries>>
        BY <4>1, <3>1, <1>16
      <4> QED BY <4>2, <4>3
    <3>2. CASE i \in 1 .. n
      <4>1. PICK k \in 1 .. turn : k \in 1 .. turn - 1 /\ Lookup(sites[k]) # << >>
               /\ ys[i] = <<siteYield[k], Entries(k)>> /\ rl[i] = <<siteResume[k], Entries(k)>>
        BY <3>2, <1>o
      <4>2. Append(ys, y)[i] = ys[i] /\ Append(rl, r)[i] = rl[i]
        BY <3>2, <1>16
      <4> HIDE DEF ys, rl, y, r
      <4> QED BY <4>1, <4>2, <1>8
    <3> QED BY <3>1, <3>2, <1>d
  <2>4. \A k \in 1 .. turn :
               /\ Range(Lookup(sites[k])) \subseteq DOMAIN slots'
               /\ Lookup(sites[k]) # << >> =>
                    \E i \in 1 .. n + 1 :
                        /\ Append(ys, y)[i] = <<siteYield[k], Entries(k)'>>
                        /\ Append(rl, r)[i] = <<siteResume[k], Entries(k)'>>
    <3> SUFFICES ASSUME NEW k \in 1 .. turn
                 PROVE  /\ Range(Lookup(sites[k])) \subseteq DOMAIN slots'
                        /\ Lookup(sites[k]) # << >> =>
                             \E i \in 1 .. n + 1 :
                                 /\ Append(ys, y)[i] = <<siteYield[k], Entries(k)'>>
                                 /\ Append(rl, r)[i] = <<siteResume[k], Entries(k)'>>
      OBVIOUS
    <3>1. CASE k = turn
      <4>1. Range(Lookup(sites[k])) \subseteq DOMAIN slots'
        BY <3>1, <1>4 DEF live
      <4>2. Entries(k)' = entries
        BY <3>1, <1>8
      <4>3. /\ Append(ys, y)[n + 1] = <<siteYield[k], entries>>
            /\ Append(rl, r)[n + 1] = <<siteResume[k], entries>>
        BY <3>1, <1>16
      <4> HIDE DEF ys, y, rl, r, n, entries
      <4> QED BY <4>1, <4>2, <4>3, <1>d
    <3>2. CASE k \in 1 .. turn - 1
      <4>1. Range(Lookup(sites[k])) \subseteq DOMAIN slots'
        BY <3>2, <1>o, <1>4
      <4>2. ASSUME Lookup(sites[k]) # << >>
            PROVE  \E i \in 1 .. n + 1 : /\ Append(ys, y)[i] = <<siteYield[k], Entries(k)'>>
                                         /\ Append(rl, r)[i] = <<siteResume[k], Entries(k)'>>
        <5>1. PICK i \in 1 .. n : /\ ys[i] = <<siteYield[k], Entries(k)>>
                                  /\ rl[i] = <<siteResume[k], Entries(k)>>
          BY <4>2, <3>2, <1>o
        <5>2. Append(ys, y)[i] = ys[i] /\ Append(rl, r)[i] = rl[i] /\ i \in 1 .. n + 1
          BY <1>16, <1>d
        <5> HIDE DEF ys, y, rl, r, n
        <5> QED BY <5>1, <5>2, <3>2, <1>8
      <4> QED BY <4>1, <4>2
    <3> QED BY <3>1, <3>2, <1>d
  <2>5. TablesInv'
    <3>1. /\ DOMAIN Append(ys, y) = 1 .. n + 1 /\ Len(Append(ys, y)) = Len(Append(rl, r))
      BY <1>16
    <3> HIDE DEF ys, rl, y, r, n
    <3>2. Len(layout'.yield_saves) = Len(layout'.resume_loads)
      BY <3>1, <2>1
    <3>3. \A i \in DOMAIN layout'.yield_saves : \E k \in 1 .. LiftedSites' :
              /\ Lookup(sites[k])' # << >>
              /\ layout'.yield_saves[i] = <<siteYield'[k], Entries(k)'>>
              /\ layout'.resume_loads[i] = <<siteResume'[k], Entries(k)'>>
      <4> SUFFICES ASSUME NEW i \in 1 .. n + 1
                   PROVE  \E k \in 1 .. LiftedSites' :
                              /\ Lookup(sites[k])' # << >>
                              /\ layout'.yield_saves[i] = <<siteYield'[k], Entries(k)'>>
                              /\ layout'.resume_loads[i] = <<siteResume'[k], Entries(k)'>>
        BY <3>1, <2>1
      <4>1. PICK k \in 1 .. turn : Lookup(sites[k]) # << >>
               /\ Append(ys, y)[i] = <<siteYield[k], Entries(k)'>>
               /\ Append(rl, r)[i] = <<siteResume[k], Entries(k)'>>
        BY <2>3
      <4>2. Lookup(sites[k])' # << >> /\ k \in 1 .. LiftedSites'
        BY <4>1, <1>3, <1>8
      <4>3. siteYield' = siteYield /\ siteResume' = siteResume
        BY <1>u
      <4> QED BY <4>1, <4>2, <4>3, <2>1
    <3>4. \A k \in 1 .. LiftedSites' :
              /\ Range(Lookup(sites[k])') \subseteq DOMAIN slots'
              /\ Lookup(sites[k])' # << >> =>
                   \E i \in DOMAIN layout'.yield_saves :
                       /\ layout'.yield_saves[i] = <<siteYield'[k], Entries(k)'>>
                       /\ layout'.resume_loads[i] = <<siteResume'[k], Entries(k)'>>
      BY <3>1, <2>1, <2>4, <1>3, <1>8, <1>u
    <3> QED BY <3>2, <3>3, <3>4 DEF TablesInv
  <2> QED BY <2>2, <2>5, <1>9, <1>10, <1>11, <1>12, <1>13 DEF SMInv, TransInv
<1> QED BY <1>17, <1>18

-----------------------------------------------------------------------------
(* The machine. *)

\* A poll changes nothing of what the transform has made.
LEMMA TransKept ==
    ASSUME TransInv, UNCHANGED <<fn, liveness, transformed>>
    PROVE  /\ TransInv' /\ phase' = phase /\ cfg' = cfg /\ sites' = sites /\ fn' = fn
           /\ layout' = layout
<1>u. /\ phase' = phase /\ fn' = fn /\ liveness' = liveness /\ cfg' = cfg /\ sites' = sites
      /\ turn' = turn /\ cur' = cur /\ layout' = layout /\ siteYield' = siteYield
      /\ siteResume' = siteResume /\ slots' = slots
  BY DEF transformed
<1>1. CutSites' = CutSites /\ LiftedSites' = LiftedSites
  BY <1>u DEF CutSites, LiftedSites
<1>2. FnInv'
  BY <1>u DEF TransInv, FnInv, Sites
<1>3. SitesInv'
  BY <1>u DEF TransInv, SitesInv, Sites
<1>4. LayoutInv'
  <2>1. LayoutType' = LayoutType /\ BlockType' = BlockType
    BY <1>u DEF LayoutType, BlockType, FnPlaces
  <2> QED BY <2>1, <1>u, <1>1 DEF TransInv, LayoutInv
<1>5. CutInv'
  BY <1>u DEF TransInv, CutInv
<1>6. SlotsInv'
  BY <1>u DEF TransInv, SlotsInv, NextSlot
<1>7. TablesInv'
  BY <1>u, <1>1, TablesKept DEF TransInv
<1> QED BY <1>u, <1>2, <1>3, <1>4, <1>5, <1>6, <1>7 DEF TransInv

\* What a block is, and that it has kinds only if there are sites.
LEMMA KindFacts ==
    ASSUME SMInv, NEW b, KindOf(b).kind # "plain"
    PROVE  /\ KindOf(b) \in Kinds(DOMAIN cfg) /\ fn.suspending
           /\ \E i \in DOMAIN layout.block_kinds : /\ layout.block_kinds[i][1] = b
                                                   /\ layout.block_kinds[i][2] = KindOf(b)
<1> DEFINE Bk == layout.block_kinds
           k == {i \in DOMAIN Bk : Bk[i][1] = b}
<1>0. SitesInv /\ LayoutInv /\ layout \in LayoutType
  BY DEF SMInv, TransInv, LayoutInv
<1>1. Bk \in Sorts(DOMAIN cfg)
  BY <1>0 DEF LayoutType
<1>2. /\ DOMAIN Bk \subseteq Nat
      /\ \A i \in DOMAIN Bk : Bk[i] \in (DOMAIN cfg) \X Kinds(DOMAIN cfg)
  <2> DEFINE T == (DOMAIN cfg) \X Kinds(DOMAIN cfg)
  <2>1. Bk \in Seq(T)
    BY <1>1 DEF Sorts
  <2> HIDE DEF T, Bk
  <2>2. DOMAIN Bk = 1 .. Len(Bk) /\ Len(Bk) \in Nat
    BY <2>1, LenProperties
  <2>3. \A i \in DOMAIN Bk : Bk[i] \in T
    BY <2>1, <2>2, ElementOfSeq
  <2> QED BY <2>2, <2>3 DEF T
<1>3. k # {} /\ KindOf(b) = Bk[Min(k)][2]
  BY DEF KindOf
<1>4. k \in SUBSET Nat
  BY <1>2
<1>5. Min(k) \in k
  <2> HIDE DEF k
  <2> QED BY <1>3, <1>4, MinIs
<1>6. Min(k) \in DOMAIN Bk /\ Bk[Min(k)][1] = b
  BY <1>5
<1> HIDE DEF k
<1>7. KindOf(b) \in Kinds(DOMAIN cfg)
  BY <1>2, <1>3, <1>6
<1>8. fn.suspending
  <2>1. sites # << >>
    BY <1>0, <1>6 DEF LayoutInv
  <2> QED BY <2>1, <1>0 DEF SitesInv
<1> QED BY <1>3, <1>6, <1>7, <1>8

\* What tables hold: slots of a frame, and locals.
LEMMA EntriesType ==
    ASSUME NEW B, NEW t \in Tabled(B), NEW b
    PROVE  EntriesOf(t, b) \subseteq Slots \X Locals
<1>1. \A i \in DOMAIN t : t[i][2] \in Seq(Slots \X Locals)
  <2> DEFINE T == B \X Seq(Slots \X Locals)
  <2>1. t \in Seq(T)
    BY DEF Tabled
  <2> HIDE DEF T
  <2>2. \A i \in DOMAIN t : t[i] \in T
    BY <2>1, LenProperties, ElementOfSeq
  <2> QED BY <2>2 DEF T
<1>2. ASSUME NEW s \in Seq(Slots \X Locals) PROVE Range(s) \subseteq Slots \X Locals
  <2> DEFINE U == Slots \X Locals
  <2> HIDE DEF U
  <2>1. s \in Seq(U)
    BY <1>2 DEF U
  <2>2. \A i \in DOMAIN s : s[i] \in U
    BY <2>1, LenProperties, ElementOfSeq
  <2>3. Range(s) \subseteq U
    BY <2>2 DEF Range
  <2> QED BY <2>3 DEF U
<1>3. \A i \in DOMAIN t : Range(t[i][2]) \subseteq Slots \X Locals
  BY <1>1, <1>2
<1> QED BY <1>3 DEF EntriesOf

Values == Data \cup {Undef}

\* Into a block: the machine is at its start, with values in its locals.
LEMMA EnterFacts ==
    ASSUME SMInv, NEW b \in DOMAIN cfg, NEW r \in [Locals -> Values], NEW s \in [Slots -> Values],
           Enter(b, r, s)
    PROVE  /\ at' = <<b, 1>> /\ 1 \in 1 .. Len(cfg[b].stmts) + 1
           /\ regs' \in [Locals -> Values]
<1>1. cfg \in Seq(BlockType) /\ layout.resume_loads \in Tabled(DOMAIN cfg)
  BY DEF SMInv, TransInv, LayoutInv, LayoutType
<1>2. cfg[b] \in BlockType
  BY <1>1, LenProperties, ElementOfSeq
<1>3. Len(cfg[b].stmts) \in Nat
  BY <1>2, LenProperties DEF BlockType
<1>4. EntriesOf(layout.resume_loads, b) \subseteq Slots \X Locals
  BY <1>1, EntriesType
<1>5. regs' = [v \in Locals |->
           LET from == {e \in EntriesOf(layout.resume_loads, b) : e[2] = v}
           IN  IF from = {} THEN r[v] ELSE s[(CHOOSE e \in from : TRUE)[1]]]
  BY DEF Enter
<1>6. ASSUME NEW v \in Locals PROVE regs'[v] \in Values
  <2> DEFINE from == {e \in EntriesOf(layout.resume_loads, b) : e[2] = v}
  <2>1. from \subseteq Slots \X Locals
    BY <1>4
  <2>2. regs'[v] = IF from = {} THEN r[v] ELSE s[(CHOOSE e \in from : TRUE)[1]]
    BY <1>5
  <2> HIDE DEF from
  <2>3. CASE from = {}
    BY <2>2, <2>3
  <2>4. CASE from # {}
    <3>1. (CHOOSE e \in from : TRUE) \in from
      BY <2>4
    <3>2. (CHOOSE e \in from : TRUE)[1] \in Slots
      BY <3>1, <2>1
    <3> QED BY <2>2, <2>4, <3>2
  <2> QED BY <2>3, <2>4
<1>7. regs' \in [Locals -> Values]
  BY <1>5, <1>6
<1> QED BY <1>3, <1>7 DEF Enter

\* Out of a block that ends at a site: the frame has its state and its locals.
LEMMA SuspendedFacts ==
    ASSUME SMInv, phase = "run", NEW b, KindOf(b).kind \in {"DirectYield", "CrossFnCallInit"}
    PROVE  Suspended(b) \in [state_id : 0 .. Len(sites), saved : [Slots -> Values]]
<1>0. LayoutInv /\ RunInv /\ layout \in LayoutType
  BY DEF SMInv, TransInv, LayoutInv
<1>1. frame.saved \in [Slots -> Values] /\ regs \in [Locals -> Values]
  BY <1>0 DEF RunInv, Values
<1>2. Saved(b) \in [Slots -> Values]
  <2>1. layout.yield_saves \in Tabled(DOMAIN cfg)
    BY <1>0 DEF LayoutType
  <2>2. EntriesOf(layout.yield_saves, b) \subseteq Slots \X Locals
    BY <2>1, EntriesType
  <2>3. Saved(b) = [s \in Slots |->
          LET into == {e \in EntriesOf(layout.yield_saves, b) : e[1] = s}
          IN  IF into = {} THEN frame.saved[s] ELSE regs[(CHOOSE e \in into : TRUE)[2]]]
    BY <1>1 DEF Saved
  <2>4. ASSUME NEW s \in Slots PROVE Saved(b)[s] \in Values
    <3> DEFINE into == {e \in EntriesOf(layout.yield_saves, b) : e[1] = s}
    <3>1. into \subseteq Slots \X Locals
      BY <2>2
    <3>2. Saved(b)[s] = IF into = {} THEN frame.saved[s] ELSE regs[(CHOOSE e \in into : TRUE)[2]]
      BY <2>3
    <3> HIDE DEF into
    <3>3. CASE into = {}
      BY <3>2, <3>3, <1>1
    <3>4. CASE into # {}
      <4>1. (CHOOSE e \in into : TRUE) \in into
        BY <3>4
      <4>2. (CHOOSE e \in into : TRUE)[2] \in Locals
        BY <4>1, <3>1
      <4> QED BY <3>2, <3>4, <4>2, <1>1
    <3> QED BY <3>3, <3>4
  <2> QED BY <2>3, <2>4
<1> DEFINE Yb == layout.yield_blocks
<1>3. PICK i \in DOMAIN layout.block_kinds : /\ layout.block_kinds[i][1] = b
                                             /\ layout.block_kinds[i][2] = KindOf(b)
  BY KindFacts
<1>4. PICK j \in DOMAIN siteYield : siteYield[j] = b
  BY <1>0, <1>3 DEF LayoutInv
<1>5. /\ Yb \in Yields(DOMAIN cfg) /\ siteYield \in Seq(DOMAIN cfg) /\ Len(sites) = Len(siteYield)
      /\ Len(Yb) = Len(siteYield) /\ \A x \in DOMAIN Yb : Yb[x] = <<siteYield[x], x>>
  BY <1>0 DEF LayoutInv, LayoutType, CutSites
<1>6. DOMAIN Yb = 1 .. Len(sites) /\ DOMAIN siteYield = 1 .. Len(sites)
  <2> DEFINE T == (DOMAIN cfg) \X Nat
  <2>1. Yb \in Seq(T)
    BY <1>5 DEF Yields
  <2> HIDE DEF T, Yb
  <2>2. DOMAIN Yb = 1 .. Len(Yb)
    BY <2>1, LenProperties
  <2> QED BY <2>2, <1>5, LenProperties
<1>7. j \in DOMAIN Yb /\ Yb[j][1] = b
  BY <1>4, <1>5, <1>6
<1> HIDE DEF Yb
<1>8. PICK m : m = (CHOOSE x \in DOMAIN Yb : Yb[x][1] = b)
  OBVIOUS
<1>9. m \in DOMAIN Yb
  BY <1>7, <1>8
<1>10. Suspended(b) = [state_id |-> Yb[m][2], saved |-> Saved(b)]
  BY <1>8 DEF Suspended, Yb
<1>11. Yb[m][2] = m
  BY <1>5, <1>9
<1>12. Yb[m][2] \in 0 .. Len(sites)
  BY <1>6, <1>9, <1>11
<1> QED BY <1>2, <1>10, <1>12

\* Where the machine is, and what is before it.
LEMMA AwakeFacts ==
    ASSUME SMInv, phase = "run", at # << >>
    PROVE  /\ at = <<at[1], at[2]>> /\ Block \in DOMAIN cfg /\ at[2] \in Nat /\ at[2] >= 1
           /\ Len(cfg[Block].stmts) \in Nat /\ at[2] <= Len(cfg[Block].stmts) + 1
           /\ at[2] <= Len(cfg[Block].stmts) => StmtAt(Ahead).local \in Locals
<1>1. /\ at = <<at[1], at[2]>> /\ at[1] \in DOMAIN cfg /\ at[2] \in 1 .. Len(cfg[at[1]].stmts) + 1
      /\ cfg \in Seq(BlockType) /\ fn \in Functions
  BY DEF SMInv, TransInv, FnInv, LayoutInv, RunInv
<1> DEFINE s == cfg[at[1]].stmts
<1>2. s \in Seq(FnPlaces)
  <2>1. cfg[at[1]] \in BlockType
    BY <1>1, LenProperties, ElementOfSeq
  <2> QED BY <2>1 DEF BlockType
<1>3. Len(s) \in Nat /\ DOMAIN s = 1 .. Len(s)
  BY <1>2, LenProperties
<1>4. ASSUME at[2] <= Len(s) PROVE StmtAt(s[at[2]]).local \in Locals
  <2>1. at[2] \in 1 .. Len(s)
    BY <1>1, <1>3, <1>4
  <2>2. s[at[2]] \in FnPlaces
    <3> HIDE DEF s
    <3> QED BY <2>1, <1>2, ElementOfSeq
  <2>3. StmtAt(s[at[2]]) \in Statements
    BY <2>2, <1>1, FnFacts
  <2> QED BY <2>3 DEF Statements
<1> QED BY <1>1, <1>3, <1>4 DEF Block, Ahead

\* The invariant, from what a step of the machine does to its own part.
LEMMA RunStep ==
    ASSUME SMInv, phase = "run", UNCHANGED <<fn, liveness, transformed>>,
           at' # << >> => /\ at' = <<at'[1], at'[2]>> /\ at'[1] \in DOMAIN cfg
                          /\ at'[2] \in 1 .. Len(cfg[at'[1]].stmts) + 1,
           ~fn.suspending => at' # << >>,
           frame' \in [state_id : 0 .. Len(sites), saved : [Slots -> Values]],
           regs' \in [Locals -> Values], env' \in [Locals -> Values],
           seen' \in Values, done' \in BOOLEAN
    PROVE  SMInv'
<1>1. TransInv' /\ phase' = phase /\ cfg' = cfg /\ sites' = sites /\ fn' = fn
  BY TransKept DEF SMInv
<1>2. RunInv'
  BY <1>1 DEF RunInv, Values, Slots
<1> QED BY <1>1, <1>2 DEF SMInv

\* What the invariant says of the machine.
LEMMA RunFacts ==
    ASSUME SMInv
    PROVE  /\ frame \in [state_id : 0 .. Len(sites), saved : [Slots -> Values]]
           /\ frame.saved \in [Slots -> Values] /\ frame.state_id \in 0 .. Len(sites)
           /\ regs \in [Locals -> Values] /\ env \in [Locals -> Values]
           /\ seen \in Values /\ done \in BOOLEAN /\ Undefined \in [Locals -> Values]
           /\ ~fn.suspending => at # << >>
BY DEF SMInv, RunInv, Values, Undefined

\* A definition.
LEMMA DefStep == ASSUME SMInv, NEW x \in Data, Def(x) PROVE SMInv'
<1>1. /\ phase = "run" /\ at # << >> /\ at[2] <= Len(cfg[Block].stmts) /\ at' = <<Block, at[2] + 1>>
      /\ UNCHANGED <<fn, liveness, transformed>> /\ frame' = frame /\ seen' = seen /\ done' = done
  BY DEF Def, Plain, Awake, StepOn
<1>2. regs' \in [Locals -> Values] /\ env' \in [Locals -> Values]
  BY RunFacts DEF Def, Values
<1>3. Block \in DOMAIN cfg /\ at[2] + 1 \in 1 .. Len(cfg[Block].stmts) + 1
  BY <1>1, AwakeFacts
<1> QED BY <1>1, <1>2, <1>3, RunFacts, RunStep

\* A use.
LEMMA UseStep == ASSUME SMInv, Use PROVE SMInv'
<1>1. /\ phase = "run" /\ at # << >> /\ at[2] <= Len(cfg[Block].stmts) /\ at' = <<Block, at[2] + 1>>
      /\ UNCHANGED <<fn, liveness, transformed>>
      /\ frame' = frame /\ regs' = regs /\ env' = env /\ done' = done
      /\ seen' = regs[StmtAt(Ahead).local]
  BY DEF Use, Plain, Awake, StepOn
<1>2. seen' \in Values
  BY <1>1, AwakeFacts, RunFacts
<1>3. Block \in DOMAIN cfg /\ at[2] + 1 \in 1 .. Len(cfg[Block].stmts) + 1
  BY <1>1, AwakeFacts
<1> QED BY <1>1, <1>2, <1>3, RunFacts, RunStep

\* A yield saves and leaves.
LEMMA YieldStep == ASSUME SMInv, Yield PROVE SMInv'
<1>1. /\ phase = "run" /\ KindOf(Block).kind = "DirectYield" /\ frame' = Suspended(Block)
      /\ at' = << >> /\ regs' = Undefined
      /\ UNCHANGED <<fn, liveness, transformed>> /\ env' = env /\ seen' = seen /\ done' = done
  BY DEF Yield, Awake, Lose
<1>2. frame' \in [state_id : 0 .. Len(sites), saved : [Slots -> Values]]
  BY <1>1, SuspendedFacts
<1>3. fn.suspending
  BY <1>1, KindFacts
<1> QED BY <1>1, <1>2, <1>3, RunFacts, RunStep

\* A call saves, and goes on to the check or leaves.
LEMMA CallInitStep == ASSUME SMInv, CallInit PROVE SMInv'
<1>1. /\ phase = "run" /\ KindOf(Block).kind = "CrossFnCallInit" /\ frame' = Suspended(Block)
      /\ UNCHANGED <<fn, liveness, transformed>> /\ env' = env /\ seen' = seen /\ done' = done
  BY DEF CallInit, Awake
<1>2. /\ frame' \in [state_id : 0 .. Len(sites), saved : [Slots -> Values]]
      /\ frame'.saved \in [Slots -> Values]
  BY <1>1, SuspendedFacts
<1>3. fn.suspending /\ KindOf(Block).resume_check \in DOMAIN cfg
  BY <1>1, KindFacts DEF Kinds
<1>4. CASE Enter(KindOf(Block).resume_check, regs, frame'.saved)
  <2>1. PICK b, s : b = KindOf(Block).resume_check /\ s = frame'.saved
    OBVIOUS
  <2>2. Enter(b, regs, s) /\ b \in DOMAIN cfg /\ s \in [Slots -> Values]
    BY <2>1, <1>2, <1>3, <1>4
  <2>3. at' = <<b, 1>> /\ 1 \in 1 .. Len(cfg[b].stmts) + 1 /\ regs' \in [Locals -> Values]
    BY <2>2, RunFacts, EnterFacts
  <2> QED BY <2>2, <2>3, <1>1, <1>2, RunFacts, RunStep
<1>5. CASE Lose
  <2>1. at' = << >> /\ regs' = Undefined
    BY <1>5 DEF Lose
  <2> QED BY <2>1, <1>1, <1>2, <1>3, RunFacts, RunStep
<1> QED BY <1>4, <1>5 DEF CallInit

\* A callee that yields: the machine leaves too.
LEMMA CalleeYieldsStep == ASSUME SMInv, CalleeYields PROVE SMInv'
<1>1. /\ phase = "run" /\ KindOf(Block).kind = "CrossFnCallResume"
      /\ at' = << >> /\ regs' = Undefined
      /\ UNCHANGED <<fn, liveness, transformed>>
      /\ frame' = frame /\ env' = env /\ seen' = seen /\ done' = done
  BY DEF CalleeYields, InCheck, Awake, Lose
<1>2. fn.suspending
  BY <1>1, KindFacts
<1> QED BY <1>1, <1>2, RunFacts, RunStep

\* A callee that is done: on behind the call with its result.
LEMMA CalleeDoneStep == ASSUME SMInv, NEW x \in Data, CalleeDone(x) PROVE SMInv'
<1>1. /\ phase = "run" /\ KindOf(Block).kind = "CrossFnCallResume"
      /\ Enter(KindOf(Block).done_block, [regs EXCEPT ![KindOf(Block).result] = x], frame.saved)
      /\ env' = [env EXCEPT ![KindOf(Block).result] = x]
      /\ UNCHANGED <<fn, liveness, transformed>> /\ frame' = frame /\ seen' = seen /\ done' = done
  BY DEF CalleeDone, InCheck, Awake
<1>2. KindOf(Block).done_block \in DOMAIN cfg
  BY <1>1, KindFacts DEF Kinds
<1>3. PICK b, r, s : /\ b = KindOf(Block).done_block /\ s = frame.saved
                     /\ r = [regs EXCEPT ![KindOf(Block).result] = x]
  OBVIOUS
<1>4. Enter(b, r, s) /\ b \in DOMAIN cfg /\ r \in [Locals -> Values] /\ s \in [Slots -> Values]
  <2>1. r \in [Locals -> Values]
    BY <1>3, RunFacts DEF Values
  <2> QED BY <2>1, <1>1, <1>2, <1>3, RunFacts
<1>5. at' = <<b, 1>> /\ 1 \in 1 .. Len(cfg[b].stmts) + 1 /\ regs' \in [Locals -> Values]
  BY <1>4, EnterFacts
<1>6. env' \in [Locals -> Values]
  BY <1>1, RunFacts DEF Values
<1> QED BY <1>1, <1>4, <1>5, <1>6, RunFacts, RunStep

\* A poll enters at the block of the state in the frame, which is one of the layout.
LEMMA PollStep == ASSUME SMInv, Poll PROVE SMInv'
<1>1. /\ phase = "run" /\ at = << >>
      /\ Enter(layout.resume_entries[frame.state_id + 1], Undefined, frame.saved)
      /\ UNCHANGED <<fn, liveness, transformed>>
      /\ frame' = frame /\ env' = env /\ seen' = seen /\ done' = done
  BY DEF Poll
<1>2. fn.suspending
  BY <1>1, RunFacts DEF SMInv, TransInv, FnInv
<1>3. layout.resume_entries \in Seq(DOMAIN cfg) /\ Len(layout.resume_entries) = Len(sites) + 1
      /\ Len(sites) \in Nat
  BY <1>1, <1>2, LenProperties DEF SMInv, TransInv, SitesInv, LayoutInv, LayoutType, CutSites
<1>4. frame.state_id + 1 \in 1 .. Len(layout.resume_entries)
  BY <1>3, RunFacts
<1>5. PICK b, s : b = layout.resume_entries[frame.state_id + 1] /\ s = frame.saved
  OBVIOUS
<1>6. Enter(b, Undefined, s) /\ b \in DOMAIN cfg /\ s \in [Slots -> Values]
  BY <1>1, <1>3, <1>4, <1>5, RunFacts, ElementOfSeq
<1>7. at' = <<b, 1>> /\ 1 \in 1 .. Len(cfg[b].stmts) + 1 /\ regs' \in [Locals -> Values]
  BY <1>6, RunFacts, EnterFacts
<1> QED BY <1>1, <1>6, <1>7, RunFacts, RunStep

\* The terminator of an original block goes to an original block, or returns.
LEMMA LeaveStep == ASSUME SMInv, NEW b \in 0 .. Len(fn.stmts), Leave(b) PROVE SMInv'
<1>1. /\ phase = "run" /\ at # << >>
      /\ IF b = 0 THEN done' = TRUE /\ at' = at /\ regs' = regs
                  ELSE Enter(b, regs, frame.saved) /\ done' = done
      /\ UNCHANGED <<fn, liveness, transformed>> /\ frame' = frame /\ env' = env /\ seen' = seen
  BY DEF Leave, Awake
<1>2. CASE b = 0
  <2>1. at[1] \in DOMAIN cfg /\ at[2] \in 1 .. Len(cfg[at[1]].stmts) + 1
    BY <1>1, AwakeFacts DEF Block
  <2>2. at = <<at[1], at[2]>>
    BY <1>1, AwakeFacts
  <2> QED BY <1>1, <1>2, <2>1, <2>2, RunFacts, RunStep
<1>3. CASE b # 0
  <2>1. b \in DOMAIN cfg
    <3>1. cfg \in Seq(BlockType) /\ Len(fn.stmts) <= Len(cfg) /\ fn \in Functions
      BY DEF SMInv, TransInv, FnInv, LayoutInv
    <3>2. DOMAIN cfg = 1 .. Len(cfg) /\ Len(cfg) \in Nat /\ Len(fn.stmts) \in Nat
      BY <3>1, LenProperties, FnFacts
    <3> QED BY <3>1, <3>2, <1>3
  <2>2. Enter(b, regs, frame.saved) /\ done' = done
    BY <1>1, <1>3
  <2>3. PICK s : s = frame.saved
    OBVIOUS
  <2>4. Enter(b, regs, s) /\ s \in [Slots -> Values]
    BY <2>2, <2>3, RunFacts
  <2>5. at' = <<b, 1>> /\ 1 \in 1 .. Len(cfg[b].stmts) + 1 /\ regs' \in [Locals -> Values]
    BY <2>1, <2>4, RunFacts, EnterFacts
  <2> QED BY <1>1, <2>1, <2>2, <2>5, RunFacts, RunStep
<1> QED BY <1>2, <1>3

\* Nothing happens.
LEMMA StutterStep == ASSUME SMInv, UNCHANGED vars PROVE SMInv'
<1>1. /\ UNCHANGED <<fn, liveness, transformed>>
      /\ at' = at /\ frame' = frame /\ regs' = regs /\ env' = env /\ seen' = seen /\ done' = done
  BY DEF vars, running
<1>2. TransInv' /\ phase' = phase /\ cfg' = cfg /\ sites' = sites /\ fn' = fn
  BY <1>1, TransKept DEF SMInv
<1>3. RunInv'
  BY <1>1, <1>2 DEF SMInv, RunInv, Slots
<1> QED BY <1>2, <1>3 DEF SMInv

\* transform_to_state_machine keeps the invariant through all turns of its loops, and
\* the host that runs the result keeps it too.
THEOREM Invariance == Spec => []SMInv
<1>1. Init => SMInv
  BY SMInit
<1>2. SMInv /\ [Next]_vars => SMInv'
  <2> SUFFICES ASSUME SMInv, [Next]_vars PROVE SMInv'
    OBVIOUS
  <2>1. CASE Transform
    BY <2>1, NotSuspendingStep, ScanStep, SplitYieldStep, SplitCallStep, AllSplitStep, LiftStep,
       AllLiftedStep DEF Transform
  <2>2. CASE Run
    BY <2>2, UseStep, YieldStep, CallInitStep, CalleeYieldsStep, PollStep, DefStep,
       CalleeDoneStep, LeaveStep DEF Run
  <2>3. CASE Returned \/ UNCHANGED vars
    BY <2>3, StutterStep DEF Returned
  <2> QED BY <2>1, <2>2, <2>3 DEF Next
<1> QED BY <1>1, <1>2, PTL DEF Spec

-----------------------------------------------------------------------------
(* What follows from the invariant. *)

\* The invariant types the layout and the machine.
LEMMA InvImpliesTypeOK == ASSUME SMInv PROVE TypeOK
<1>0. SitesInv /\ LayoutInv /\ RunInv /\ layout \in LayoutType
  BY DEF SMInv, TransInv, LayoutInv
<1>1. \A b \in DOMAIN cfg : cfg[b].home \in 0 .. Len(fn.stmts)
  <2>1. \A b \in DOMAIN cfg : cfg[b] \in BlockType
    BY <1>0, LenProperties, ElementOfSeq DEF LayoutInv
  <2> QED BY <2>1 DEF BlockType
<1>2. Range(layout.resume_entries) \subseteq DOMAIN cfg
  <2>1. layout.resume_entries \in Seq(DOMAIN cfg)
    BY <1>0 DEF LayoutType
  <2>2. \A i \in DOMAIN layout.resume_entries : layout.resume_entries[i] \in DOMAIN cfg
    BY <2>1, LenProperties, ElementOfSeq
  <2> QED BY <2>2 DEF Range
<1>3. ASSUME NEW t \in Tables, NEW i \in DOMAIN t
      PROVE  t[i][1] \in DOMAIN cfg /\ Range(t[i][2]) \subseteq Slots \X Locals
  <2> DEFINE U == Slots \X Locals
             T == (DOMAIN cfg) \X Seq(U)
  <2>1. t \in Seq(T)
    BY <1>0, <1>3 DEF LayoutType, Tables, Tabled
  <2>2. t[i] \in T
    <3> HIDE DEF T
    <3> QED BY <2>1, LenProperties, ElementOfSeq
  <2>3. t[i][1] \in DOMAIN cfg /\ t[i][2] \in Seq(U)
    BY <2>2
  <2> HIDE DEF T, U
  <2>4. \A j \in DOMAIN t[i][2] : t[i][2][j] \in U
    BY <2>3, LenProperties, ElementOfSeq
  <2>5. Range(t[i][2]) \subseteq U
    BY <2>4 DEF Range
  <2> QED BY <2>3, <2>5 DEF U
<1>4. at # << >> => at[1] \in DOMAIN cfg /\ at[2] \in 1 .. Len(cfg[at[1]].stmts) + 1
  <2>1. CASE phase = "run"
    BY <2>1, <1>0 DEF RunInv
  <2>2. CASE phase # "run"
    BY <2>2, <1>0, StartOfRun DEF RunInv
  <2> QED BY <2>1, <2>2
<1>5. frame.state_id \in 0 .. Len(sites) /\ frame.saved \in [Slots -> Data \cup {Undef}]
  BY <1>0 DEF RunInv
<1> QED BY <1>0, <1>1, <1>2, <1>3, <1>4, <1>5 DEF TypeOK, SitesInv, RunInv

\* An entry of a table is a local and the slot it has.
LEMMA TableEntries ==
    ASSUME SMInv, NEW t \in Tables, NEW i \in DOMAIN t
    PROVE  \E k \in 1 .. LiftedSites :
               /\ t[i][2] = Entries(k) /\ Range(Lookup(sites[k])) \subseteq DOMAIN slots
               /\ Lookup(sites[k]) # << >>
<1>0. TablesInv /\ layout \in LayoutType
  BY DEF SMInv, TransInv, LayoutInv
<1>1. DOMAIN layout.yield_saves = DOMAIN layout.resume_loads
  <2> DEFINE T == (DOMAIN cfg) \X Seq(Slots \X Locals)
  <2>1. layout.yield_saves \in Seq(T) /\ layout.resume_loads \in Seq(T)
    BY <1>0 DEF LayoutType, Tabled
  <2> HIDE DEF T
  <2>2. /\ DOMAIN layout.yield_saves = 1 .. Len(layout.yield_saves)
        /\ DOMAIN layout.resume_loads = 1 .. Len(layout.resume_loads)
    BY <2>1, LenProperties
  <2> QED BY <2>2, <1>0 DEF TablesInv
<1>2. i \in DOMAIN layout.yield_saves
  BY <1>1 DEF Tables
<1>3. PICK k \in 1 .. LiftedSites :
           /\ Lookup(sites[k]) # << >>
           /\ layout.yield_saves[i] = <<siteYield[k], Entries(k)>>
           /\ layout.resume_loads[i] = <<siteResume[k], Entries(k)>>
  BY <1>0, <1>2 DEF TablesInv
<1>4. Range(Lookup(sites[k])) \subseteq DOMAIN slots
  BY <1>0 DEF TablesInv
<1>5. layout.yield_saves[i][2] = Entries(k) /\ layout.resume_loads[i][2] = Entries(k)
  BY <1>3
<1> QED BY <1>3, <1>4, <1>5 DEF Tables

\* Slots of different locals differ, wherever in the tables they are.
LEMMA InvImpliesSlotsKeptApart == ASSUME SMInv PROVE SlotsKeptApart
<1> DEFINE entries == UNION {UNION {Range(t[i][2]) : i \in DOMAIN t} : t \in Tables}
<1>1. \A e \in entries : e[2] \in DOMAIN slots /\ e[1] = slots[e[2]]
  <2> SUFFICES ASSUME NEW t \in Tables, NEW i \in DOMAIN t, NEW e \in Range(t[i][2])
               PROVE  e[2] \in DOMAIN slots /\ e[1] = slots[e[2]]
    OBVIOUS
  <2>1. PICK k \in 1 .. LiftedSites :
            t[i][2] = Entries(k) /\ Range(Lookup(sites[k])) \subseteq DOMAIN slots
    BY TableEntries
  <2>2. PICK live : live = Lookup(sites[k])
    OBVIOUS
  <2>3. t[i][2] = [j \in DOMAIN live |-> <<slots[live[j]], live[j]>>]
    BY <2>1, <2>2 DEF Entries
  <2>4. PICK j \in DOMAIN live : e = <<slots[live[j]], live[j]>>
    BY <2>3 DEF Range
  <2>5. live[j] \in DOMAIN slots
    BY <2>1, <2>2 DEF Range
  <2> QED BY <2>4, <2>5
<1> HIDE DEF entries
<1>2. \A v \in DOMAIN slots : ReservedSlots <= slots[v]
  BY DEF SMInv, TransInv, SlotsInv
<1>3. \A v, w \in DOMAIN slots : slots[v] = slots[w] => v = w
  BY DEF SMInv, TransInv, SlotsInv
<1>4. \A e \in entries : e[1] >= ReservedSlots
  BY <1>1, <1>2
<1>5. ASSUME NEW e \in entries, NEW f \in entries PROVE (e[1] = f[1]) = (e[2] = f[2])
  <2>1. e[1] = f[1] <=> e[2] = f[2]
    BY <1>1, <1>3
  <2> QED BY <2>1
<1> QED BY <1>4, <1>5 DEF SlotsKeptApart, entries

\* A set of places has a first one.
LEMMA FirstPlace ==
    ASSUME NEW T \in SUBSET (Nat \X Nat), T # {}
    PROVE  \E p \in T : \A q \in T \ {p} : Before(p, q)
<1> DEFINE Rows == {q[1] : q \in T}
           row == Min(Rows)
           Cols == {q[2] : q \in {q \in T : q[1] = row}}
           col == Min(Cols)
<1>1. row \in Rows /\ \A y \in Rows : row <= y
  <2>1. Rows \in SUBSET Nat /\ Rows # {}
    OBVIOUS
  <2> HIDE DEF Rows
  <2> QED BY <2>1, MinIs
<1>2. \A q \in T : q = <<q[1], q[2]>> /\ q[1] \in Nat /\ q[2] \in Nat /\ row <= q[1]
  BY <1>1
<1>r. row \in Nat
  BY <1>1
<1> HIDE DEF row
<1>3. col \in Cols /\ \A y \in Cols : col <= y
  <2>1. Cols \in SUBSET Nat /\ Cols # {}
    BY <1>1, <1>2
  <2> HIDE DEF Cols
  <2> QED BY <2>1, MinIs
<1>4. PICK p \in T : p[1] = row /\ p[2] = col
  BY <1>3
<1>5. \A q \in T : q[1] = row => col <= q[2]
  BY <1>3
<1>6. ASSUME NEW q \in T, q # p PROVE p[1] < q[1] \/ (p[1] = q[1] /\ p[2] < q[2])
  <2>1. q[1] = row => q[2] # col
    BY <1>2, <1>4, <1>6
  <2>2. col \in Nat
    BY <1>2, <1>4
  <2>3. CASE q[1] = row
    <3>1. q[2] # col /\ col <= q[2] /\ q[2] \in Nat
      BY <2>1, <2>3, <1>2, <1>5
    <3>2. col < q[2]
      BY <3>1, <2>2
    <3> QED BY <3>2, <2>3, <1>4
  <2>4. CASE q[1] # row
    <3>1. row < q[1]
      BY <2>4, <1>2, <1>r
    <3> QED BY <3>1, <1>4
  <2> QED BY <2>3, <2>4
<1> QED BY <1>6 DEF Before

\* The scan of a table: no slot is past the end, so what it reports are duplicates.
LEMMA TableErrorIs ==
    ASSUME SMInv, NEW t \in Tables, NEW duplicate
    PROVE  TableError(t, NextSlot, duplicate) =
               IF \E i \in DOMAIN t : \E j \in DOMAIN t[i][2] : Repeats(t[i][2], j)
               THEN duplicate ELSE "Ok"
<1> DEFINE places == UNION {{i} \X DOMAIN t[i][2] : i \in DOMAIN t}
           bad == {p \in places : LET entries == t[p[1]][2]
                                  IN  Repeats(entries, p[2]) \/ entries[p[2]][1] >= NextSlot}
           first == CHOOSE p \in bad : \A q \in bad \ {p} : Before(p, q)
<1>1. \A p : p \in places <=> /\ p = <<p[1], p[2]>> /\ p[1] \in DOMAIN t
                              /\ p[2] \in DOMAIN t[p[1]][2]
  OBVIOUS
<1>2. ASSUME NEW i \in DOMAIN t, NEW j \in DOMAIN t[i][2]
      PROVE  ~(t[i][2][j][1] >= NextSlot) /\ i \in Nat /\ j \in Nat
  <2>1. PICK k \in 1 .. LiftedSites :
            t[i][2] = Entries(k) /\ Range(Lookup(sites[k])) \subseteq DOMAIN slots
    BY TableEntries
  <2>2. PICK live : live = Lookup(sites[k])
    OBVIOUS
  <2>3. t[i][2] = [x \in DOMAIN live |-> <<slots[live[x]], live[x]>>] /\ j \in DOMAIN live
    BY <2>1, <2>2, <1>2 DEF Entries
  <2>4. live[j] \in DOMAIN slots /\ t[i][2][j][1] = slots[live[j]]
    BY <2>1, <2>2, <2>3 DEF Range
  <2>5. slots[live[j]] \in Nat /\ slots[live[j]] < NextSlot
    BY <2>4 DEF SMInv, TransInv, SlotsInv
  <2>6. NextSlot \in Nat
    <3>1. DOMAIN slots \subseteq Locals
      BY DEF SMInv, TransInv, SlotsInv
    <3> QED BY <3>1, LocalsAssumption, FS_Subset, FS_CardinalityType DEF NextSlot
  <2>7. i \in Nat /\ j \in Nat
    <3> DEFINE U == Slots \X Locals
               T == (DOMAIN cfg) \X Seq(U)
    <3>1. t \in Seq(T)
      BY DEF SMInv, TransInv, LayoutInv, LayoutType, Tables, Tabled
    <3>2. t[i] \in T /\ i \in Nat
      <4> HIDE DEF T
      <4> QED BY <3>1, LenProperties, ElementOfSeq
    <3>3. t[i][2] \in Seq(U)
      BY <3>2
    <3> HIDE DEF U, T
    <3> QED BY <3>2, <3>3, LenProperties
  <2> QED BY <2>4, <2>5, <2>6, <2>7
<1>3. \A p : p \in bad <=> /\ p = <<p[1], p[2]>> /\ p[1] \in DOMAIN t
                           /\ p[2] \in DOMAIN t[p[1]][2] /\ Repeats(t[p[1]][2], p[2])
  BY <1>1, <1>2
<1>4. bad \in SUBSET (Nat \X Nat)
  BY <1>2, <1>3
<1>5. TableError(t, NextSlot, duplicate) =
          IF bad = {} THEN "Ok"
          ELSE IF Repeats(t[first[1]][2], first[2]) THEN duplicate ELSE "SlotOutOfRange"
  BY DEF TableError
<1> HIDE DEF bad
<1>6. CASE bad = {}
  <2>1. ASSUME NEW i \in DOMAIN t, NEW j \in DOMAIN t[i][2] PROVE ~Repeats(t[i][2], j)
    <3>1. <<i, j>> \notin bad
      BY <1>6
    <3> QED BY <3>1, <1>3
  <2> QED BY <2>1, <1>5, <1>6
<1>7. CASE bad # {}
  <2>1. \E p \in bad : \A q \in bad \ {p} : Before(p, q)
    BY <1>4, <1>7, FirstPlace
  <2>2. first \in bad
    BY <2>1
  <2> HIDE DEF first
  <2> QED BY <2>2, <1>3, <1>5, <1>7
<1> QED BY <1>6, <1>7

\* Two entries of a list have one slot when they are for one local.
LEMMA RepeatsIs ==
    ASSUME SMInv, NEW k, Range(Lookup(sites[k])) \subseteq DOMAIN slots,
           Lookup(sites[k]) \in Seq(Locals)
    PROVE  (\E j \in DOMAIN Entries(k) : Repeats(Entries(k), j)) <=> ~IsInjective(Lookup(sites[k]))
<1>1. PICK live : live = Lookup(sites[k])
  OBVIOUS
<1>2. DOMAIN live = 1 .. Len(live) /\ Len(live) \in Nat
  BY <1>1, LenProperties
<1>3. PICK e : e = Entries(k)
  OBVIOUS
<1>4. e = [j \in DOMAIN live |-> <<slots[live[j]], live[j]>>]
  BY <1>1, <1>3 DEF Entries
<1>5. DOMAIN e = DOMAIN live /\ \A j \in DOMAIN live : e[j][1] = slots[live[j]]
  BY <1>4
<1>6. \A i, j \in DOMAIN live : slots[live[i]] = slots[live[j]] <=> live[i] = live[j]
  <2>1. \A i \in DOMAIN live : live[i] \in DOMAIN slots
    BY <1>1 DEF Range
  <2> QED BY <2>1 DEF SMInv, TransInv, SlotsInv
<1>7. \A j \in DOMAIN live : \A i \in 1 .. j - 1 : i \in DOMAIN live /\ i # j
  BY <1>2
<1>8. \A j \in DOMAIN live : Repeats(e, j) <=> \E i \in 1 .. j - 1 : live[i] = live[j]
  BY <1>5, <1>6, <1>7 DEF Repeats
<1>9. \A i, j \in DOMAIN live : i # j => i \in 1 .. j - 1 \/ j \in 1 .. i - 1
  BY <1>2
<1>10. (\E j \in DOMAIN live : \E i \in 1 .. j - 1 : live[i] = live[j]) <=> ~IsInjective(live)
  BY <1>7, <1>9 DEF IsInjective
<1> QED BY <1>1, <1>3, <1>5, <1>8, <1>10

\* What validate_layout says of a finished layout.
LEMMA InvImpliesAudit == ASSUME SMInv PROVE AuditFindsDuplicates
<1> SUFFICES ASSUME phase = "run", fn.suspending
             PROVE  /\ (Validate(layout, NextSlot) = "DuplicateSaveSlot")
                          = (\E p \in DOMAIN liveness : ~IsInjective(liveness[p]))
                    /\ Validate(layout, NextSlot) \notin {"EntryCountMismatch", "SlotOutOfRange"}
  BY Zenon DEF AuditFindsDuplicates
<1> DEFINE ys == layout.yield_saves
           rl == layout.resume_loads
           Twice(t) == \E i \in DOMAIN t : \E j \in DOMAIN t[i][2] : Repeats(t[i][2], j)
           again == \E p \in DOMAIN liveness : ~IsInjective(liveness[p])
<1>0. FnInv /\ SitesInv /\ LayoutInv /\ TablesInv /\ layout \in LayoutType
  BY DEF SMInv, TransInv, LayoutInv
<1>1. /\ LiftedSites = Len(sites) /\ CutSites = Len(sites) /\ Len(sites) \in Nat
      /\ DOMAIN sites = 1 .. Len(sites) /\ Range(sites) = Sites(fn)
      /\ DOMAIN liveness = Sites(fn)
  BY <1>0, LenProperties DEF LiftedSites, CutSites, SitesInv, FnInv
<1>2. Len(layout.resume_entries) = Len(layout.yield_blocks) + 1
  BY <1>0, <1>1 DEF LayoutInv
<1>3. \A k \in DOMAIN sites : /\ sites[k] \in DOMAIN liveness
                              /\ Lookup(sites[k]) = liveness[sites[k]]
                              /\ Lookup(sites[k]) \in Seq(Locals)
  BY <1>0, <1>1 DEF Lookup, FnInv, Range
<1>4. DOMAIN ys = DOMAIN rl /\ \A i \in DOMAIN ys : ys[i][2] = rl[i][2]
  <2>1. DOMAIN ys = DOMAIN rl
    <3> DEFINE T == (DOMAIN cfg) \X Seq(Slots \X Locals)
    <3>1. ys \in Seq(T) /\ rl \in Seq(T)
      BY <1>0 DEF LayoutType, Tabled
    <3>2. Len(ys) = Len(rl)
      BY <1>0 DEF TablesInv
    <3> HIDE DEF T, ys, rl
    <3> QED BY <3>1, <3>2, LenProperties
  <2>2. \A i \in DOMAIN ys : \E k \in 1 .. LiftedSites :
           ys[i] = <<siteYield[k], Entries(k)>> /\ rl[i] = <<siteResume[k], Entries(k)>>
    BY <1>0 DEF TablesInv
  <2> QED BY <2>1, <2>2
<1>5. Twice(ys) <=> again
  <2>1. ASSUME Twice(ys) PROVE again
    <3>1. PICK i \in DOMAIN ys : \E j \in DOMAIN ys[i][2] : Repeats(ys[i][2], j)
      BY <2>1
    <3>2. PICK k \in 1 .. LiftedSites :
              ys[i][2] = Entries(k) /\ Range(Lookup(sites[k])) \subseteq DOMAIN slots
      BY TableEntries DEF Tables
    <3>3. k \in DOMAIN sites
      BY <1>1
    <3>4. \E j \in DOMAIN Entries(k) : Repeats(Entries(k), j)
      BY <3>1, <3>2
    <3>5. ~IsInjective(Lookup(sites[k]))
      BY <3>2, <3>3, <3>4, <1>3, RepeatsIs
    <3> QED BY <3>3, <3>5, <1>3
  <2>2. ASSUME again PROVE Twice(ys)
    <3>1. PICK p \in DOMAIN liveness : ~IsInjective(liveness[p])
      BY <2>2
    <3>2. PICK k \in DOMAIN sites : sites[k] = p
      BY <1>1 DEF Range
    <3>3. ~IsInjective(Lookup(sites[k])) /\ k \in 1 .. LiftedSites
      BY <3>1, <3>2, <1>1, <1>3
    <3>4. Lookup(sites[k]) # << >>
      <4>1. DOMAIN << >> = {}
        OBVIOUS
      <4>2. IsInjective(<< >>)
        BY <4>1 DEF IsInjective
      <4> QED BY <3>3, <4>2
    <3>5. Range(Lookup(sites[k])) \subseteq DOMAIN slots
      BY <3>3, <1>0 DEF TablesInv
    <3>6. PICK i \in DOMAIN ys : ys[i][2] = Entries(k)
      BY <3>3, <3>4, <1>0 DEF TablesInv
    <3>7. \E j \in DOMAIN Entries(k) : Repeats(Entries(k), j)
      BY <3>3, <3>5, <1>3, RepeatsIs
    <3> HIDE DEF ys
    <3> QED BY <3>6, <3>7
  <2> HIDE DEF Twice, again
  <2> QED BY <2>1, <2>2
<1>6. Twice(rl) <=> Twice(ys)
  <2> HIDE DEF ys, rl
  <2> QED BY <1>4
<1>7. /\ TableError(ys, NextSlot, "DuplicateSaveSlot") = IF again THEN "DuplicateSaveSlot" ELSE "Ok"
      /\ TableError(rl, NextSlot, "DuplicateLoadSlot") = IF again THEN "DuplicateLoadSlot" ELSE "Ok"
  <2>1. ys \in Tables /\ rl \in Tables
    BY DEF Tables
  <2>2. TableError(ys, NextSlot, "DuplicateSaveSlot") = IF Twice(ys) THEN "DuplicateSaveSlot" ELSE "Ok"
    BY <2>1, TableErrorIs
  <2>3. TableError(rl, NextSlot, "DuplicateLoadSlot") = IF Twice(rl) THEN "DuplicateLoadSlot" ELSE "Ok"
    BY <2>1, TableErrorIs
  <2> HIDE DEF Twice, again, ys, rl
  <2> QED BY <2>2, <2>3, <1>5, <1>6
<1>8. SlotsIn(ys) = SlotsIn(rl)
  <2> HIDE DEF ys, rl
  <2> QED BY <1>4 DEF SlotsIn
<1> HIDE DEF again
<1>9. Validate(layout, NextSlot) =
          IF Len(layout.resume_entries) # Len(layout.yield_blocks) + 1 THEN "EntryCountMismatch"
          ELSE IF TableError(ys, NextSlot, "DuplicateSaveSlot") # "Ok"
               THEN TableError(ys, NextSlot, "DuplicateSaveSlot")
          ELSE IF TableError(rl, NextSlot, "DuplicateLoadSlot") # "Ok"
               THEN TableError(rl, NextSlot, "DuplicateLoadSlot")
          ELSE IF ~(SlotsIn(ys) \subseteq SlotsIn(rl)) THEN "SaveWithoutLoad"
          ELSE IF ~(SlotsIn(rl) \subseteq SlotsIn(ys)) THEN "LoadWithoutSave" ELSE "Ok"
  BY DEF Validate
<1> HIDE DEF ys, rl
<1>10. Validate(layout, NextSlot) = IF again THEN "DuplicateSaveSlot" ELSE "Ok"
  <2>1. CASE again
    BY <2>1, <1>2, <1>7, <1>9
  <2>2. CASE ~again
    BY <2>2, <1>2, <1>7, <1>8, <1>9
  <2> QED BY <2>1, <2>2
<1>11. again \in BOOLEAN
  BY DEF again
<1>12. /\ (Validate(layout, NextSlot) = "DuplicateSaveSlot") = again
       /\ Validate(layout, NextSlot) \notin {"EntryCountMismatch", "SlotOutOfRange"}
  BY <1>10, <1>11
<1> QED BY <1>12 DEF again

-----------------------------------------------------------------------------
\* The layout that transform_to_state_machine builds names blocks that there are and slots
\* that FrameState::new makes room for, and what the host runs is in one of those blocks.
THEOREM TypeCorrect == Spec => []TypeOK
BY Invariance, InvImpliesTypeOK, PTL

\* The captures lift never gives a slot below reserved_slots, and never one slot to two
\* locals or two slots to one, over all the suspension sites of any function.
THEOREM SlotsAreKeptApart == Spec => []SlotsKeptApart
BY Invariance, InvImpliesSlotsKeptApart, PTL

\* validate_layout reports DuplicateSaveSlot on a layout of transform_to_state_machine exactly
\* when the host has named a local twice at a site, and never an error of the transform itself.
\* (Nothing is said of liveness that reports too much or too little.)
THEOREM TheAuditIsRight == Spec => []AuditFindsDuplicates
BY Invariance, InvImpliesAudit, PTL

-----------------------------------------------------------------------------
(* What the blocks hold. *)

\* The block b holds the statements of o behind lo, up to the next site, which
\* ends it, or up to the terminator of o.
Holds(b, o, lo) ==
    /\ b \in DOMAIN cfg /\ o \in DOMAIN fn.stmts /\ lo \in 0 .. Len(fn.stmts[o])
    /\ \/ cfg[b] = [stmts |-> Segment(o, lo, Len(fn.stmts[o])), home |-> o]
       \/ \E k \in DOMAIN siteYield :
              /\ siteYield[k] = b /\ sites[k][1] = o /\ lo < sites[k][2]
              /\ cfg[b] = [stmts |-> Segment(o, lo, sites[k][2]), home |-> 0]

\* The block the machine goes on in behind the site k.
IsCall(k) == StmtAt(sites[k]).kind = "call"
GoesOn(k) == IF IsCall(k) THEN siteResume[k] - 1 ELSE siteResume[k]

\* What the site k adds to the table of kinds.
KindsOf(k) ==
    IF IsCall(k)
    THEN {<<siteYield[k], [kind |-> "CrossFnCallInit", resume_check |-> siteResume[k]]>>,
          <<siteResume[k], [kind |-> "CrossFnCallResume", done_block |-> GoesOn(k),
                            result |-> StmtAt(sites[k]).local]>>}
    ELSE {<<siteYield[k], [kind |-> "DirectYield"]>>}

\* Every block of the function still starts with its first statements; behind each
\* site cut so far goes on the rest of its block; a yield block has no terminator of
\* the function and the check block of a call is empty.
Pieces ==
    /\ \A o \in DOMAIN fn.stmts : Holds(o, o, 0)
    /\ \A k \in DOMAIN siteYield :
        /\ Holds(GoesOn(k), sites[k][1], sites[k][2])
        /\ cfg[siteYield[k]].home = 0
        /\ IsCall(k) => cfg[siteResume[k]] = [stmts |-> << >>, home |-> 0]

\* No two sites end or resume in the same block, and none resumes in a block the
\* function started with; a check block is nobody's yield block or rest.
Separate ==
    /\ IsInjective(siteYield) /\ IsInjective(siteResume)
    /\ \A k \in DOMAIN siteYield : siteResume[k] > Len(fn.stmts)
    /\ \A j, k \in DOMAIN siteYield : IsCall(k) =>
           siteResume[k] # siteYield[j] /\ siteResume[j] # GoesOn(k)

\* The layout lists the resume blocks by state and exactly the kinds of the sites.
Named ==
    /\ \A k \in DOMAIN siteYield : layout.resume_entries[k + 1] = siteResume[k]
    /\ \A i \in DOMAIN layout.block_kinds : \E k \in DOMAIN siteYield :
           layout.block_kinds[i] \in KindsOf(k)
    /\ \A k \in DOMAIN siteYield : \A e \in KindsOf(k) : \E i \in DOMAIN layout.block_kinds :
           layout.block_kinds[i] = e

\* What the transform has cut out of the function after each turn of its loops.
CutOut == Pieces /\ Separate /\ Named

\* Every live local of a site is in the host's report of it.
Reported == \A p \in Sites(fn) : LiveAcross(fn, p) \subseteq Range(liveness[p])

-----------------------------------------------------------------------------
(* The machine and the function. *)

\* The locals live before the statement at p.
LiveAt(p) ==
    LET s == fn.stmts[p[1]]
        rest == SubSeq(s, p[2], Len(s))
    IN  Exposed(rest) \cup (LiveOut(fn, LiveIn(fn), p[1]) \ Killed(rest))

\* The machine at a is in the statements of o behind lo, or at o's terminator.
InBlock(a, o, lo) ==
    /\ Holds(a[1], o, lo)
    /\ a = <<a[1], a[2]>> /\ a[2] \in 1 .. Len(cfg[a[1]].stmts) + 1
    /\ a[2] = Len(cfg[a[1]].stmts) + 1 => cfg[a[1]].home = o

\* What the frame f has saved of the locals live across its state.
Saves(f, e) == \A v \in LiveAcross(fn, sites[f.state_id]) : f.saved[slots[v]] = e[v]

\* The machine at a, with the frame f and the registers r, has what a function
\* with the locals e needs to go on.
Agree(a, f, r, e) ==
    \/ a = << >> /\ f.state_id \in DOMAIN siteYield /\ Saves(f, e)
    \/ /\ a # << >> /\ f.state_id \in DOMAIN siteYield /\ IsCall(f.state_id)
       /\ a = <<siteResume[f.state_id], 1>>
       /\ Saves(f, e)
       /\ \A v \in LiveAcross(fn, sites[f.state_id]) : r[v] = e[v]
    \/ /\ a # << >>
       /\ \E o \in DOMAIN fn.stmts : \E lo \in 0 .. Len(fn.stmts[o]) :
              InBlock(a, o, lo) /\ \A v \in LiveAt(<<o, lo + a[2]>>) : r[v] = e[v]

\* The inductive invariant of the refinement.
RefInv ==
    /\ SMInv /\ CutOut /\ Reported
    /\ IF phase = "run" THEN Agree(at, frame, regs, env) ELSE ~done /\ regs = env

-----------------------------------------------------------------------------
(* Liveness. *)

\* Each of the locals is live, or not, as the solution says: LiveIn solves the equations.
LEMMA LiveInSolves ==
    ASSUME fn \in Functions, NEW b \in DOMAIN fn.stmts
    PROVE  Exposed(fn.stmts[b]) \cup (LiveOut(fn, LiveIn(fn), b) \ Killed(fn.stmts[b]))
               \subseteq LiveIn(fn)[b]
<1> DEFINE solutions == {live \in [DOMAIN fn.stmts -> SUBSET Locals] :
                \A c \in DOMAIN fn.stmts :
                    Exposed(fn.stmts[c]) \cup (LiveOut(fn, live, c) \ Killed(fn.stmts[c]))
                        \subseteq live[c]}
           L == LiveIn(fn)
<1>1. L = [c \in DOMAIN fn.stmts |-> {v \in Locals : \A live \in solutions : v \in live[c]}]
  BY DEF LiveIn
<1>2. \A c \in fn.succ[b] \ {0} : c \in DOMAIN fn.stmts
  BY FnFacts
<1>3. \A live \in solutions : \A c \in DOMAIN fn.stmts : L[c] \subseteq live[c]
  <2> HIDE DEF solutions, L
  <2> QED BY <1>1
<1>4. \A live \in solutions : LiveOut(fn, L, b) \subseteq LiveOut(fn, live, b)
  <2> HIDE DEF solutions, L
  <2> QED BY <1>2, <1>3 DEF LiveOut
<1>5. \A live \in solutions :
          Exposed(fn.stmts[b]) \cup (LiveOut(fn, live, b) \ Killed(fn.stmts[b])) \subseteq live[b]
  OBVIOUS
<1>6. \A live \in solutions :
          Exposed(fn.stmts[b]) \cup (LiveOut(fn, L, b) \ Killed(fn.stmts[b])) \subseteq live[b]
  <2> HIDE DEF solutions, L
  <2> QED BY <1>4, <1>5
<1>7. Exposed(fn.stmts[b]) \subseteq Locals
  BY DEF Exposed
<1>8. LiveOut(fn, L, b) \subseteq Locals
  <2>1. \A c \in DOMAIN fn.stmts : L[c] \subseteq Locals
    BY <1>1
  <2> HIDE DEF solutions, L
  <2> QED BY <2>1, <1>2 DEF LiveOut
<1> HIDE DEF solutions, L
<1>9. \A v \in Exposed(fn.stmts[b]) \cup (LiveOut(fn, L, b) \ Killed(fn.stmts[b])) :
          v \in Locals /\ \A live \in solutions : v \in live[b]
  BY <1>6, <1>7, <1>8
<1>10. Exposed(fn.stmts[b]) \cup (LiveOut(fn, L, b) \ Killed(fn.stmts[b])) \subseteq L[b]
  BY <1>1, <1>9
<1> QED BY <1>10 DEF L

\* The places of a function that a statement or a terminator is at.
LEMMA RestOf ==
    ASSUME NEW S, NEW s \in Seq(S), NEW i \in 1 .. Len(s) + 1
    PROVE  /\ Len(s) \in Nat
           /\ SubSeq(s, i, Len(s)) = [j \in 1 .. Len(s) - i + 1 |-> s[i + j - 1]]
           /\ DOMAIN SubSeq(s, i, Len(s)) = 1 .. Len(s) - i + 1
<1>1. Len(s) \in Nat
  BY LenProperties
<1>2. SubSeq(s, i, Len(s)) = [j \in 1 .. (Len(s) - i + 1) |-> s[i + j - 1]]
  BY <1>1
<1> QED BY <1>1, <1>2

\* What is live behind a statement and not defined by it is live before it, and so
\* is what it uses.
LEMMA LiveBefore ==
    ASSUME fn \in Functions, NEW p \in FnPlaces, NEW q, q = <<p[1], p[2] + 1>>
    PROVE  /\ \A v \in LiveAt(q) : Defines(StmtAt(p), v) \/ v \in LiveAt(p)
           /\ StmtAt(p).kind = "use" => StmtAt(p).local \in LiveAt(p)
           /\ p \in Sites(fn) => LiveAcross(fn, p) = LiveAt(q) \ {v \in Locals : Defines(StmtAt(p), v)}
<1> DEFINE s == fn.stmts[p[1]]
           i == p[2]
           n == Len(s)
           r == SubSeq(s, i, n)
           t == SubSeq(s, i + 1, n)
           out == LiveOut(fn, LiveIn(fn), p[1])
<1>1. p[1] \in DOMAIN fn.stmts /\ i \in 1 .. n /\ n \in Nat /\ s \in Seq(Statements)
      /\ StmtAt(p) = s[i] /\ s[i] \in Statements
  BY FnFacts DEF StmtAt
<1>2. /\ r = [j \in 1 .. n - i + 1 |-> s[i + j - 1]]
      /\ t = [j \in 1 .. n - (i + 1) + 1 |-> s[(i + 1) + j - 1]]
  <2>1. s \in Seq(Statements) /\ i \in 1 .. n + 1 /\ i + 1 \in 1 .. n + 1
    BY <1>1
  <2> HIDE DEF s, i
  <2> QED BY <2>1, RestOf
<1>3. /\ DOMAIN r = 1 .. n - i + 1 /\ DOMAIN t = 1 .. n - i
      /\ 1 \in DOMAIN r /\ r[1] = s[i]
      /\ \A j \in DOMAIN t : j + 1 \in DOMAIN r /\ r[j + 1] = t[j]
      /\ \A j \in DOMAIN r : j # 1 => j - 1 \in DOMAIN t /\ r[j] = t[j - 1]
  <2> HIDE DEF s, i, n, r, t
  <2>1. i \in Nat /\ n \in Nat /\ 1 <= i /\ i <= n
    BY <1>1
  <2>2. DOMAIN r = 1 .. n - i + 1 /\ DOMAIN t = 1 .. n - i
    <3>1. n - (i + 1) + 1 = n - i
      BY <2>1
    <3> QED BY <3>1, <1>2
  <2>3. \A j \in 1 .. n - i + 1 : r[j] = s[i + j - 1]
    BY <1>2
  <2>4. \A j \in 1 .. n - i : t[j] = s[i + j]
    BY <2>1, <1>2
  <2>5. 1 \in DOMAIN r /\ r[1] = s[i]
    BY <2>1, <2>2, <2>3
  <2>6. \A j \in DOMAIN t : j + 1 \in DOMAIN r /\ r[j + 1] = t[j]
    BY <2>1, <2>2, <2>3, <2>4
  <2>7. ASSUME NEW j \in DOMAIN r, j # 1 PROVE j - 1 \in DOMAIN t /\ r[j] = t[j - 1]
    <3>1. j \in 1 .. n - i + 1 /\ j - 1 \in 1 .. n - i
      BY <2>1, <2>2, <2>7
    <3>2. r[j] = s[i + j - 1] /\ t[j - 1] = s[i + (j - 1)]
      BY <3>1, <2>3, <2>4
    <3>3. i + j - 1 = i + (j - 1)
      BY <3>1, <2>1
    <3> QED BY <3>1, <3>2, <3>3, <2>2
  <2> QED BY <2>2, <2>5, <2>6, <2>7
<1>4. LiveAt(p) = Exposed(r) \cup (out \ Killed(r)) /\ LiveAt(q) = Exposed(t) \cup (out \ Killed(t))
  BY DEF LiveAt
<1>5. p \in Sites(fn) => LiveAcross(fn, p) = LiveAt(q) \ {v \in Locals : Defines(StmtAt(p), v)}
  BY DEF LiveAt, LiveAcross, StmtAt
<1> HIDE DEF s, r, t, out
<1>6. ASSUME StmtAt(p).kind = "use" PROVE StmtAt(p).local \in Exposed(r)
  <2>1. s[i].kind = "use" /\ s[i].local \in Locals
    BY <1>1, <1>6 DEF Statements
  <2>2. \A k : k \notin 1 .. 1 - 1
    OBVIOUS
  <2> QED BY <2>1, <2>2, <1>1, <1>3 DEF Exposed
<1>7. ASSUME NEW v \in Exposed(t), ~Defines(s[i], v) PROVE v \in Exposed(r)
  <2>1. PICK j \in DOMAIN t : /\ v \in Locals /\ t[j].kind = "use" /\ t[j].local = v
                              /\ \A k \in 1 .. j - 1 : ~Defines(t[k], v)
    BY DEF Exposed
  <2>2. j + 1 \in DOMAIN r /\ r[j + 1].kind = "use" /\ r[j + 1].local = v
    BY <2>1, <1>3
  <2>3. ASSUME NEW k \in 1 .. (j + 1) - 1 PROVE ~Defines(r[k], v)
    <3>1. CASE k = 1
      BY <3>1, <1>3, <1>7
    <3>2. CASE k # 1
      <4>1. k \in DOMAIN r /\ k - 1 \in 1 .. j - 1
        BY <3>2, <2>2, <1>1, <1>3
      <4>2. r[k] = t[k - 1]
        BY <4>1, <3>2, <1>3
      <4> QED BY <4>1, <4>2, <2>1
    <3> QED BY <3>1, <3>2
  <2> QED BY <2>1, <2>2, <2>3 DEF Exposed
<1>8. ASSUME NEW v \in Killed(r), ~Defines(s[i], v) PROVE v \in Killed(t)
  BY <1>3, <1>8 DEF Killed
<1> QED BY <1>1, <1>4, <1>5, <1>6, <1>7, <1>8

\* What is live where an edge leads to is live where it comes from.
LEMMA LiveOverEdge ==
    ASSUME fn \in Functions, NEW b \in DOMAIN fn.stmts, NEW c \in fn.succ[b], c # 0
    PROVE  c \in DOMAIN fn.stmts /\ LiveAt(<<c, 1>>) \subseteq LiveAt(<<b, Len(fn.stmts[b]) + 1>>)
<1>1. c \in DOMAIN fn.stmts
  BY FnFacts
<1>2. \A x \in DOMAIN fn.stmts : fn.stmts[x] \in Seq(Statements) /\ Len(fn.stmts[x]) \in Nat
  BY FnFacts
<1>3. ASSUME NEW s \in Seq(Statements)
      PROVE  SubSeq(s, 1, Len(s)) = s /\ DOMAIN SubSeq(s, Len(s) + 1, Len(s)) = {}
  <2>1. Len(s) \in Nat /\ s = [j \in 1 .. Len(s) |-> s[j]]
    BY LenProperties
  <2>2. /\ SubSeq(s, 1, Len(s)) = [j \in 1 .. Len(s) - 1 + 1 |-> s[1 + j - 1]]
        /\ DOMAIN SubSeq(s, Len(s) + 1, Len(s)) = 1 .. Len(s) - (Len(s) + 1) + 1
    BY <2>1, RestOf
  <2> QED BY <2>1, <2>2
<1>4. LiveAt(<<c, 1>>) = Exposed(fn.stmts[c])
                             \cup (LiveOut(fn, LiveIn(fn), c) \ Killed(fn.stmts[c]))
  BY <1>1, <1>2, <1>3 DEF LiveAt
<1>5. LiveAt(<<c, 1>>) \subseteq LiveIn(fn)[c]
  BY <1>1, <1>4, LiveInSolves
<1>6. LiveIn(fn)[c] \subseteq LiveOut(fn, LiveIn(fn), b)
  <2> DEFINE L == LiveIn(fn)
  <2> HIDE DEF L
  <2>1. L[c] \subseteq LiveOut(fn, L, b)
    BY DEF LiveOut
  <2> QED BY <2>1 DEF L
<1>7. LiveAt(<<b, Len(fn.stmts[b]) + 1>>) = LiveOut(fn, LiveIn(fn), b)
  <2> DEFINE s == fn.stmts[b]
             t == SubSeq(s, Len(s) + 1, Len(s))
  <2>1. DOMAIN t = {}
    BY <1>2, <1>3
  <2>2. LiveAt(<<b, Len(s) + 1>>) = Exposed(t) \cup (LiveOut(fn, LiveIn(fn), b) \ Killed(t))
    BY DEF LiveAt
  <2> HIDE DEF t
  <2>3. Exposed(t) = {} /\ Killed(t) = {}
    BY <2>1 DEF Exposed, Killed
  <2> QED BY <2>2, <2>3
<1> QED BY <1>1, <1>5, <1>6, <1>7

\* The host reports every local that is live across a site.
LEMMA ReportsCover ==
    ASSUME fn \in Functions, liveness \in Reports(fn)
    PROVE  Reported
<1> DEFINE exact == [p \in Sites(fn) |-> SetToSeq(LiveAcross(fn, p))]
<1> SUFFICES ASSUME NEW p \in Sites(fn) PROVE LiveAcross(fn, p) \subseteq Range(liveness[p])
  BY DEF Reported
<1> DEFINE A == LiveAcross(fn, p)
<1>1. A \in SUBSET Locals /\ IsFiniteSet(A) /\ IsFiniteSet(Locals)
  BY LiveLocals, LocalsAssumption, FS_Subset
<1> HIDE DEF A
<1>2. SetToSeq(A) \in Seq(A) /\ Range(SetToSeq(A)) = A /\ Range(SetToSeq(Locals)) = Locals
  BY <1>1, SetListed
<1>3. A \subseteq Range(SetToSeq(A) \o SetToSeq(A))
  <2> DEFINE s == SetToSeq(A)
  <2> HIDE DEF s
  <2>1. s \in Seq(A) /\ Range(s) = A
    BY <1>2 DEF s
  <2>2. Len(s) \in Nat /\ DOMAIN s = 1 .. Len(s)
    BY <2>1, LenProperties
  <2>3. /\ s \o s \in Seq(A) /\ Len(s \o s) = Len(s) + Len(s)
        /\ \A i \in 1 .. Len(s) : (s \o s)[i] = s[i]
    BY <2>1, ConcatProperties
  <2>4. DOMAIN (s \o s) = 1 .. Len(s) + Len(s)
    BY <2>3, LenProperties
  <2>5. \A i \in DOMAIN s : i \in DOMAIN (s \o s)
    BY <2>2, <2>4
  <2>6. \A v \in A : \E i \in DOMAIN s : s[i] = v
    BY <2>1 DEF Range
  <2>7. A \subseteq Range(s \o s)
    BY <2>2, <2>3, <2>5, <2>6 DEF Range
  <2> QED BY <2>7 DEF s
<1>4. \/ liveness[p] = SetToSeq(A)
      \/ liveness[p] = SetToSeq(Locals)
      \/ liveness[p] = SetToSeq(A) \o SetToSeq(A)
  BY DEF Reports, A
<1>5. A \subseteq Range(liveness[p])
  BY <1>1, <1>2, <1>3, <1>4
<1> QED BY <1>5 DEF A
-----------------------------------------------------------------------------
(* The transform establishes CutOut. *)

\* What one turn of the loop does to the blocks: b, which holds the statements of o behind
\* lo, is cut behind the site t of o, at i, and r is where the new state resumes.
Cutting(t, b, o, lo, i, r) ==
    /\ fn \in Functions /\ fn' = fn /\ sites' = sites /\ sites[t] = <<o, i>>
    /\ t \in Nat /\ t >= 1
    /\ DOMAIN siteYield = 1 .. t - 1 /\ DOMAIN siteYield' = 1 .. t
    /\ DOMAIN siteResume = 1 .. t - 1 /\ DOMAIN siteResume' = 1 .. t
    /\ \A k \in 1 .. t - 1 : siteYield'[k] = siteYield[k] /\ siteResume'[k] = siteResume[k]
    /\ siteYield'[t] = b /\ siteResume'[t] = r
    /\ \A k \in 1 .. t - 1 : siteYield[k] \in DOMAIN cfg /\ siteResume[k] \in DOMAIN cfg
    /\ Len(cfg) \in Nat /\ DOMAIN cfg = 1 .. Len(cfg) /\ DOMAIN cfg' = 1 .. r
    /\ r = IF IsCall(t) THEN Len(cfg) + 2 ELSE Len(cfg) + 1
    /\ o \in DOMAIN fn.stmts /\ o \in Nat /\ o # 0
    /\ lo \in Nat /\ i \in Nat /\ lo < i /\ i <= Len(fn.stmts[o])
    /\ Len(fn.stmts) \in Nat /\ Len(fn.stmts) <= Len(cfg)
    /\ b \in DOMAIN cfg
    /\ cfg[b] = [stmts |-> Segment(o, lo, Len(fn.stmts[o])), home |-> o]
    /\ cfg'[b] = [stmts |-> Segment(o, lo, i), home |-> 0]
    /\ \A c \in DOMAIN cfg : c # b => cfg'[c] = cfg[c]
    /\ cfg'[Len(cfg) + 1] = [stmts |-> Segment(o, i, Len(fn.stmts[o])), home |-> o]
    /\ IsCall(t) => cfg'[r] = [stmts |-> << >>, home |-> 0]

\* A block that holds the statements behind a place holds them from there on when it is
\* cut further down.
LEMMA HoldsKept ==
    ASSUME NEW t, NEW b, NEW o, NEW lo, NEW i, NEW r, Cutting(t, b, o, lo, i, r),
           NEW c, NEW q, NEW l, Holds(c, q, l)
    PROVE  Holds(c, q, l)'
<1> DEFINE n == Len(fn.stmts[q])
<1>1. /\ c \in DOMAIN cfg /\ c \in DOMAIN cfg' /\ q \in DOMAIN fn.stmts /\ l \in 0 .. n
      /\ fn' = fn /\ sites' = sites
  <2>1. Len(cfg) \in Nat /\ DOMAIN cfg = 1 .. Len(cfg) /\ DOMAIN cfg' = 1 .. r
        /\ r = IF IsCall(t) THEN Len(cfg) + 2 ELSE Len(cfg) + 1
    BY DEF Cutting
  <2>2. DOMAIN cfg \subseteq DOMAIN cfg'
    BY <2>1
  <2> QED BY <2>2 DEF Cutting, Holds
<1>2. n \in Nat
  BY <1>1, FnFacts DEF Cutting
<1>y. /\ DOMAIN siteYield = 1 .. t - 1 /\ DOMAIN siteYield' = 1 .. t /\ t \in DOMAIN siteYield'
      /\ \A k \in DOMAIN siteYield : k \in DOMAIN siteYield' /\ siteYield'[k] = siteYield[k]
      /\ siteYield'[t] = b /\ sites[t] = <<o, i>>
  <2>1. /\ t \in Nat /\ t >= 1 /\ DOMAIN siteYield = 1 .. t - 1 /\ DOMAIN siteYield' = 1 .. t
        /\ \A k \in 1 .. t - 1 : siteYield'[k] = siteYield[k]
        /\ siteYield'[t] = b /\ sites[t] = <<o, i>>
    BY DEF Cutting
  <2>2. t \in 1 .. t /\ \A k \in 1 .. t - 1 : k \in 1 .. t
    BY <2>1
  <2> QED BY <2>1, <2>2
<1>3. CASE c # b
  <2>1. cfg'[c] = cfg[c]
    BY <1>3, <1>1 DEF Cutting
  <2>2. CASE cfg[c] = [stmts |-> Segment(q, l, n), home |-> q]
    <3>1. cfg'[c] = [stmts |-> Segment(q, l, Len(fn'.stmts[q])), home |-> q]
      BY <2>1, <2>2, <1>1
    <3> QED BY <3>1, <1>1 DEF Holds, Segment
  <2>3. CASE \E k \in DOMAIN siteYield :
                 /\ siteYield[k] = c /\ sites[k][1] = q /\ l < sites[k][2]
                 /\ cfg[c] = [stmts |-> Segment(q, l, sites[k][2]), home |-> 0]
    <3>1. PICK k \in DOMAIN siteYield :
              /\ siteYield[k] = c /\ sites[k][1] = q /\ l < sites[k][2]
              /\ cfg[c] = [stmts |-> Segment(q, l, sites[k][2]), home |-> 0]
      BY <2>3
    <3>2. /\ k \in DOMAIN siteYield' /\ siteYield'[k] = c /\ sites'[k][1] = q /\ l < sites'[k][2]
          /\ cfg'[c] = [stmts |-> Segment(q, l, sites'[k][2]), home |-> 0]
      BY <3>1, <2>1, <1>1, <1>y
    <3> QED BY <3>2, <1>1 DEF Holds, Segment
  <2> QED BY <2>2, <2>3 DEF Holds
<1>4. CASE c = b
  <2>1. cfg[c] = [stmts |-> Segment(o, lo, Len(fn.stmts[o])), home |-> o] /\ o # 0
        /\ lo \in Nat /\ i \in Nat /\ lo < i /\ i <= Len(fn.stmts[o])
    BY <1>4 DEF Cutting
  <2>2. cfg[c].home # 0
    BY <2>1
  <2>3. cfg[c] = [stmts |-> Segment(q, l, n), home |-> q]
    BY <2>2 DEF Holds
  <2>4. q = o
    BY <2>1, <2>3
  <2>5. Len(Segment(q, l, n)) = n - l /\ Len(Segment(q, lo, n)) = n - lo
    <3>1. n = Len(fn.stmts[o])
      BY <2>4
    <3>2. l \in Nat /\ l <= n /\ lo \in Nat /\ lo <= n
      BY <3>1, <1>1, <1>2, <2>1
    <3> HIDE DEF n
    <3> QED BY <3>2, <1>2, SegmentType
  <2>6. Segment(q, l, n) = Segment(q, lo, n)
    BY <2>1, <2>3, <2>4
  <2>7. l = lo
    BY <2>5, <2>6, <2>1, <1>1, <1>2
  <2>8. cfg'[c] = [stmts |-> Segment(q, l, i), home |-> 0]
    BY <1>4, <2>4, <2>7 DEF Cutting
  <2>9. /\ t \in DOMAIN siteYield' /\ siteYield'[t] = c /\ sites'[t][1] = q /\ l < sites'[t][2]
        /\ cfg'[c] = [stmts |-> Segment(q, l, sites'[t][2]), home |-> 0]
    BY <1>4, <1>1, <1>y, <2>1, <2>4, <2>7, <2>8
  <2> QED BY <2>9, <1>1 DEF Holds, Segment
<1> QED BY <1>3, <1>4

\* What the sites before t are called stays, and the new one goes on in the tail.
LEMMA GoesOnKept ==
    ASSUME NEW t, NEW b, NEW o, NEW lo, NEW i, NEW r, Cutting(t, b, o, lo, i, r)
    PROVE  /\ \A k : IsCall(k)' = IsCall(k)
           /\ \A k \in 1 .. t - 1 : GoesOn(k)' = GoesOn(k) /\ KindsOf(k)' = KindsOf(k)
           /\ GoesOn(t)' = Len(cfg) + 1
<1>1. \A k : StmtAt(sites[k])' = StmtAt(sites[k])
  BY DEF Cutting, StmtAt
<1>2. \A k : IsCall(k)' = IsCall(k)
  BY <1>1 DEF IsCall
<1>3. \A k \in 1 .. t - 1 : GoesOn(k)' = GoesOn(k)
  BY <1>2 DEF GoesOn, Cutting
<1>4. \A k \in 1 .. t - 1 : KindsOf(k)' = KindsOf(k)
  BY <1>1, <1>2, <1>3 DEF KindsOf, Cutting
<1>5. GoesOn(t)' = Len(cfg) + 1
  BY <1>2 DEF GoesOn, Cutting
<1> QED BY <1>2, <1>3, <1>4, <1>5

\* The blocks a cut site ends and resumes in are not the one that is cut next.
LEMMA CutElsewhere ==
    ASSUME NEW t, NEW b, NEW o, NEW lo, NEW i, NEW r, Cutting(t, b, o, lo, i, r), Pieces,
           NEW k \in 1 .. t - 1
    PROVE  siteYield[k] # b /\ (IsCall(k) => siteResume[k] # b) /\ GoesOn(k) \in DOMAIN cfg
<1>1. k \in DOMAIN siteYield /\ cfg[b].home # 0
  BY DEF Cutting
<1>2. /\ Holds(GoesOn(k), sites[k][1], sites[k][2])
      /\ cfg[siteYield[k]].home = 0
      /\ IsCall(k) => cfg[siteResume[k]] = [stmts |-> << >>, home |-> 0]
  BY <1>1 DEF Pieces
<1>3. IsCall(k) => cfg[siteResume[k]].home = 0
  BY <1>2
<1>4. GoesOn(k) \in DOMAIN cfg
  BY <1>2 DEF Holds
<1> QED BY <1>1, <1>2, <1>3, <1>4

\* Cutting the turn's block leaves the blocks of the earlier sites holding what they
\* held, and gives the two halves what the new site parts.
LEMMA PiecesKept ==
    ASSUME NEW t, NEW b, NEW o, NEW lo, NEW i, NEW r, Cutting(t, b, o, lo, i, r), Pieces
    PROVE  Pieces'
<1>1. \A c, q, l : Holds(c, q, l) => Holds(c, q, l)'
  BY HoldsKept
<1>2. \A q \in DOMAIN fn'.stmts : Holds(q, q, 0)'
  BY <1>1 DEF Pieces, Cutting
<1>3. ASSUME NEW k \in 1 .. t - 1
      PROVE  /\ Holds(GoesOn(k), sites[k][1], sites[k][2])'
             /\ cfg'[siteYield'[k]].home = 0
             /\ IsCall(k)' => cfg'[siteResume'[k]] = [stmts |-> << >>, home |-> 0]
  <2>1. k \in DOMAIN siteYield /\ sites' = sites /\ GoesOn(k)' = GoesOn(k) /\ IsCall(k)' = IsCall(k)
    <3>1. k \in DOMAIN siteYield /\ sites' = sites
      BY DEF Cutting
    <3>2. GoesOn(k)' = GoesOn(k) /\ IsCall(k)' = IsCall(k)
      BY GoesOnKept
    <3> QED BY <3>1, <3>2
  <2>2. PICK g, q, l : g = GoesOn(k) /\ q = sites[k][1] /\ l = sites[k][2]
    OBVIOUS
  <2>3. Holds(g, q, l)
    BY <2>1, <2>2 DEF Pieces
  <2>4. Holds(g, q, l)'
    BY <1>1, <2>3
  <2>5. GoesOn(k)' = g /\ sites[k][1]' = q /\ sites[k][2]' = l
    BY <2>1, <2>2
  <2>6. Holds(GoesOn(k), sites[k][1], sites[k][2])'
    BY <2>4, <2>5 DEF Holds
  <2>7. siteYield[k] # b /\ (IsCall(k) => siteResume[k] # b)
    BY CutElsewhere
  <2>8. /\ siteYield[k] \in DOMAIN cfg /\ siteResume[k] \in DOMAIN cfg
        /\ siteYield'[k] = siteYield[k] /\ siteResume'[k] = siteResume[k]
        /\ \A c \in DOMAIN cfg : c # b => cfg'[c] = cfg[c]
    BY DEF Cutting
  <2>9. /\ cfg[siteYield[k]].home = 0
        /\ IsCall(k) => cfg[siteResume[k]] = [stmts |-> << >>, home |-> 0]
    BY <2>1 DEF Pieces
  <2> QED BY <2>1, <2>6, <2>7, <2>8, <2>9
<1>4. /\ Holds(GoesOn(t), sites[t][1], sites[t][2])'
      /\ cfg'[siteYield'[t]].home = 0
      /\ IsCall(t)' => cfg'[siteResume'[t]] = [stmts |-> << >>, home |-> 0]
  <2>1. GoesOn(t)' = Len(cfg) + 1 /\ IsCall(t)' = IsCall(t)
    BY GoesOnKept
  <2>2. /\ sites[t]' = <<o, i>> /\ fn' = fn /\ o \in DOMAIN fn.stmts /\ i \in Nat
        /\ i <= Len(fn.stmts[o]) /\ fn \in Functions
        /\ cfg'[Len(cfg) + 1] = [stmts |-> Segment(o, i, Len(fn.stmts[o])), home |-> o]
    BY DEF Cutting
  <2>3. Len(cfg) + 1 \in DOMAIN cfg'
    BY DEF Cutting
  <2>4. i \in 0 .. Len(fn.stmts[o])
    BY <2>2, FnFacts
  <2>5. Holds(GoesOn(t), sites[t][1], sites[t][2])'
    <3>1. PICK g, q, l : g = GoesOn(t)' /\ q = sites'[t][1] /\ l = sites'[t][2]
      OBVIOUS
    <3>2. g = Len(cfg) + 1 /\ q = o /\ l = i
      BY <2>1, <2>2, <3>1
    <3>3. Segment(q, l, Len(fn.stmts[q]))' = Segment(q, l, Len(fn.stmts[q]))
      BY <2>2 DEF Segment
    <3>4. Holds(g, q, l)'
      BY <3>2, <3>3, <2>2, <2>3, <2>4 DEF Holds
    <3> QED BY <3>1, <3>4 DEF Holds
  <2> QED BY <2>1, <2>5 DEF Cutting
<1>5. ASSUME NEW k \in DOMAIN siteYield' PROVE k \in 1 .. t - 1 \/ k = t
  <2>1. DOMAIN siteYield' = 1 .. t /\ t \in Nat
    BY DEF Cutting
  <2> QED BY <2>1
<1> QED BY <1>2, <1>3, <1>4, <1>5 DEF Pieces

\* The new site ends a block no earlier site ends and resumes in a new one.
LEMMA SeparateKept ==
    ASSUME NEW t, NEW b, NEW o, NEW lo, NEW i, NEW r, Cutting(t, b, o, lo, i, r), Pieces, Separate
    PROVE  Separate'
<1>1. /\ t \in Nat /\ t >= 1 /\ Len(cfg) \in Nat /\ DOMAIN cfg = 1 .. Len(cfg)
      /\ DOMAIN siteYield = 1 .. t - 1 /\ DOMAIN siteYield' = 1 .. t /\ DOMAIN siteResume' = 1 .. t
      /\ DOMAIN siteResume = 1 .. t - 1
      /\ \A k \in 1 .. t - 1 : /\ siteYield'[k] = siteYield[k] /\ siteResume'[k] = siteResume[k]
                               /\ siteYield[k] \in 1 .. Len(cfg) /\ siteResume[k] \in 1 .. Len(cfg)
      /\ siteYield'[t] = b /\ siteResume'[t] = r /\ b \in 1 .. Len(cfg)
      /\ r = (IF IsCall(t) THEN Len(cfg) + 2 ELSE Len(cfg) + 1)
      /\ Len(fn.stmts) \in Nat /\ Len(fn.stmts) <= Len(cfg) /\ fn' = fn
  <2>1. /\ t \in Nat /\ t >= 1 /\ Len(cfg) \in Nat /\ DOMAIN cfg = 1 .. Len(cfg)
        /\ \A k \in 1 .. t - 1 : siteYield[k] \in DOMAIN cfg /\ siteResume[k] \in DOMAIN cfg
        /\ b \in DOMAIN cfg
    BY DEF Cutting
  <2>2. /\ DOMAIN siteYield = 1 .. t - 1 /\ DOMAIN siteYield' = 1 .. t /\ DOMAIN siteResume' = 1 .. t
        /\ DOMAIN siteResume = 1 .. t - 1
        /\ \A k \in 1 .. t - 1 : siteYield'[k] = siteYield[k] /\ siteResume'[k] = siteResume[k]
        /\ siteYield'[t] = b /\ siteResume'[t] = r
        /\ r = (IF IsCall(t) THEN Len(cfg) + 2 ELSE Len(cfg) + 1)
    <3>1. /\ DOMAIN siteYield = 1 .. t - 1 /\ DOMAIN siteYield' = 1 .. t
          /\ DOMAIN siteResume' = 1 .. t /\ DOMAIN siteResume = 1 .. t - 1
      BY DEF Cutting
    <3>2. \A k \in 1 .. t - 1 : siteYield'[k] = siteYield[k] /\ siteResume'[k] = siteResume[k]
      BY DEF Cutting
    <3>3. siteYield'[t] = b /\ siteResume'[t] = r
      BY DEF Cutting
    <3>4. r = (IF IsCall(t) THEN Len(cfg) + 2 ELSE Len(cfg) + 1)
      BY DEF Cutting
    <3> QED BY <3>1, <3>2, <3>3, <3>4
  <2>3. Len(fn.stmts) \in Nat /\ Len(fn.stmts) <= Len(cfg) /\ fn' = fn
    BY DEF Cutting
  <2> QED BY <2>1, <2>2, <2>3
<1>r. r \in Nat /\ r > Len(cfg)
  BY <1>1
<1>2. \A k \in 1 .. t - 1 : /\ siteYield[k] # b /\ (IsCall(k) => siteResume[k] # b)
                            /\ GoesOn(k) \in 1 .. Len(cfg)
  BY <1>1, CutElsewhere
<1>3. /\ \A k : IsCall(k)' = IsCall(k)
      /\ \A k \in 1 .. t - 1 : GoesOn(k)' = GoesOn(k)
      /\ GoesOn(t)' = Len(cfg) + 1
  BY GoesOnKept
<1>4. \A k \in 1 .. t : k \in 1 .. t - 1 \/ k = t
  BY <1>1
<1>5. IsInjective(siteYield')
  <2>1. ASSUME NEW j \in 1 .. t, NEW k \in 1 .. t, siteYield'[j] = siteYield'[k] PROVE j = k
    BY <1>1, <1>2, <1>4, <2>1 DEF Separate, IsInjective
  <2> QED BY <2>1, <1>1 DEF IsInjective
<1>6. IsInjective(siteResume')
  <2>1. ASSUME NEW j \in 1 .. t, NEW k \in 1 .. t, siteResume'[j] = siteResume'[k] PROVE j = k
    <3>1. CASE j \in 1 .. t - 1 /\ k \in 1 .. t - 1
      BY <3>1, <1>1, <2>1 DEF Separate, IsInjective
    <3>2. \A l \in 1 .. t - 1 : siteResume'[l] \in 1 .. Len(cfg)
      BY <1>1
    <3>3. \A l \in 1 .. t - 1 : siteResume'[l] # r
      BY <3>2, <1>1, <1>r
    <3> QED BY <3>1, <3>3, <2>1, <1>1, <1>4
  <2> QED BY <2>1, <1>1 DEF IsInjective
<1>7. ASSUME NEW k \in 1 .. t PROVE siteResume'[k] > Len(fn'.stmts)
  <2>1. CASE k = t
    BY <2>1, <1>1, <1>r
  <2>2. CASE k \in 1 .. t - 1
    BY <2>2, <1>1 DEF Separate
  <2> QED BY <2>1, <2>2, <1>4
<1>8. ASSUME NEW j \in 1 .. t, NEW k \in 1 .. t, IsCall(k)
      PROVE  siteResume'[k] # siteYield'[j] /\ siteResume'[j] # GoesOn(k)'
  <2>1. CASE j \in 1 .. t - 1 /\ k \in 1 .. t - 1
    BY <2>1, <1>1, <1>3, <1>8 DEF Separate
  <2>2. CASE j = t /\ k \in 1 .. t - 1
    BY <2>2, <1>1, <1>2, <1>3, <1>8
  <2>3. CASE k = t
    <3>1. r = Len(cfg) + 2 /\ siteResume'[k] = r /\ GoesOn(k)' = Len(cfg) + 1
      BY <2>3, <1>1, <1>3, <1>8
    <3>2. siteYield'[j] \in 1 .. Len(cfg)
      BY <1>1, <1>4
    <3>3. siteResume'[j] \in 1 .. Len(cfg) \/ siteResume'[j] = r
      BY <1>1, <1>4
    <3> QED BY <3>1, <3>2, <3>3, <1>1
  <2> QED BY <2>1, <2>2, <2>3, <1>4
<1> QED BY <1>1, <1>3, <1>5, <1>6, <1>7, <1>8 DEF Separate

\* What a turn adds to the layout: the kinds of the site t, and the state that resumes at r.
Adds(t, kinds, r) ==
    /\ layout'.block_kinds = layout.block_kinds \o kinds
    /\ Range(kinds) = KindsOf(t)'
    /\ \A k \in 1 .. t - 1 : layout'.resume_entries[k + 1] = layout.resume_entries[k + 1]
    /\ layout'.resume_entries[t + 1] = r

\* The table of kinds grows by the kinds of the new site.
LEMMA NamedKept ==
    ASSUME NEW t, NEW b, NEW o, NEW lo, NEW i, NEW r, Cutting(t, b, o, lo, i, r), Named,
           NEW S, NEW kinds, kinds \in Seq(S), layout.block_kinds \in Seq(S), Adds(t, kinds, r)
    PROVE  Named'
<1> DEFINE old == layout.block_kinds
           all == layout'.block_kinds
           K(k) == KindsOf(k)'
<1>1. /\ t \in Nat /\ t >= 1 /\ DOMAIN siteYield = 1 .. t - 1 /\ DOMAIN siteYield' = 1 .. t
      /\ \A k \in 1 .. t - 1 : siteResume'[k] = siteResume[k]
      /\ siteResume'[t] = r
  BY DEF Cutting
<1>2. \A k \in 1 .. t : k \in 1 .. t - 1 \/ k = t
  BY <1>1
<1>3. \A k \in 1 .. t - 1 : K(k) = KindsOf(k)
  BY GoesOnKept
<1>4. \A k : k = t => Range(kinds) = K(k)
  BY DEF Adds
<1>5. \A k \in 1 .. t : layout'.resume_entries[k + 1] = siteResume'[k]
  BY <1>1, <1>2 DEF Named, Adds
<1>6. /\ \A j \in DOMAIN old : \E k \in 1 .. t - 1 : old[j] \in KindsOf(k)
      /\ \A k \in 1 .. t - 1 : \A e \in KindsOf(k) : \E j \in DOMAIN old : old[j] = e
  BY <1>1 DEF Named
<1> HIDE DEF old, K
<1>7. /\ \A j \in DOMAIN all : \/ j \in DOMAIN old /\ all[j] = old[j]
                               \/ \E l \in DOMAIN kinds : all[j] = kinds[l]
      /\ \A j \in DOMAIN old : j \in DOMAIN all /\ all[j] = old[j]
      /\ \A l \in DOMAIN kinds : \E j \in DOMAIN all : all[j] = kinds[l]
  <2>1. old \in Seq(S) /\ all = old \o kinds
    BY DEF old, Adds
  <2>2. /\ Len(old) \in Nat /\ DOMAIN old = 1 .. Len(old)
        /\ Len(kinds) \in Nat /\ DOMAIN kinds = 1 .. Len(kinds)
    BY <2>1, LenProperties
  <2>3. /\ all \in Seq(S) /\ Len(all) = Len(old) + Len(kinds)
        /\ \A j \in 1 .. Len(old) : all[j] = old[j]
        /\ \A l \in 1 .. Len(kinds) : all[Len(old) + l] = kinds[l]
    BY <2>1, ConcatProperties
  <2>4. DOMAIN all = 1 .. Len(old) + Len(kinds)
    BY <2>3, LenProperties
  <2> HIDE DEF all
  <2>5. ASSUME NEW j \in DOMAIN all
        PROVE  \/ j \in DOMAIN old /\ all[j] = old[j]
               \/ \E l \in DOMAIN kinds : all[j] = kinds[l]
    <3>1. CASE j \in 1 .. Len(old)
      BY <3>1, <2>2, <2>3
    <3>2. CASE j \notin 1 .. Len(old)
      <4>1. PICK l : l = j - Len(old)
        OBVIOUS
      <4>2. l \in 1 .. Len(kinds) /\ j = Len(old) + l
        BY <4>1, <3>2, <2>2, <2>4
      <4> QED BY <4>2, <2>2, <2>3
    <3> QED BY <3>1, <3>2
  <2>6. \A j \in DOMAIN old : j \in DOMAIN all /\ all[j] = old[j]
    BY <2>2, <2>3, <2>4
  <2>7. ASSUME NEW l \in DOMAIN kinds PROVE \E j \in DOMAIN all : all[j] = kinds[l]
    <3>1. Len(old) + l \in DOMAIN all /\ all[Len(old) + l] = kinds[l]
      BY <2>2, <2>3, <2>4
    <3> QED BY <3>1
  <2> QED BY <2>5, <2>6, <2>7
<1> HIDE DEF all
<1>8. \A j \in DOMAIN all : \E k \in 1 .. t : all[j] \in K(k)
  <2> SUFFICES ASSUME NEW j \in DOMAIN all PROVE \E k \in 1 .. t : all[j] \in K(k)
    OBVIOUS
  <2>1. CASE j \in DOMAIN old /\ all[j] = old[j]
    <3>1. PICK k \in 1 .. t - 1 : old[j] \in KindsOf(k)
      BY <2>1, <1>6
    <3>2. k \in 1 .. t /\ all[j] \in K(k)
      BY <3>1, <2>1, <1>1, <1>3
    <3> QED BY <3>2
  <2>2. CASE \E l \in DOMAIN kinds : all[j] = kinds[l]
    <3>1. PICK k : k = t
      OBVIOUS
    <3>2. k \in 1 .. t /\ all[j] \in K(k)
      BY <3>1, <2>2, <1>1, <1>4 DEF Range
    <3> QED BY <3>2
  <2> QED BY <2>1, <2>2, <1>7
<1>9. ASSUME NEW k \in 1 .. t, NEW e \in K(k) PROVE \E j \in DOMAIN all : all[j] = e
  <2>1. CASE k \in 1 .. t - 1
    BY <2>1, <1>3, <1>6, <1>7, <1>9
  <2>2. CASE k = t
    BY <2>2, <1>4, <1>7, <1>9 DEF Range
  <2> QED BY <2>1, <2>2, <1>2
<1> QED BY <1>1, <1>5, <1>8, <1>9 DEF Named, all, K

\* push of anything.
LEMMA Pushed ==
    ASSUME NEW S, NEW y \in Seq(S), NEW e, NEW t \in Nat, Len(y) + 1 = t
    PROVE  /\ DOMAIN Append(y, e) = 1 .. t /\ Append(y, e)[t] = e
           /\ \A k \in 1 .. t - 1 : Append(y, e)[k] = y[k]
<1> DEFINE T == S \cup {e}
<1>1. y \in Seq(T) /\ e \in T
  BY SeqGrows
<1> HIDE DEF T
<1>2. /\ Append(y, e) \in Seq(T) /\ Len(Append(y, e)) = Len(y) + 1
      /\ \A k \in 1 .. Len(y) : Append(y, e)[k] = y[k]
      /\ Append(y, e)[Len(y) + 1] = e
  BY <1>1, AppendProperties
<1>3. Len(y) = t - 1 /\ DOMAIN Append(y, e) = 1 .. Len(Append(y, e))
  BY <1>1, <1>2, LenProperties
<1> QED BY <1>2, <1>3

\* A turn of the loop is such a cut.
LEMMA SplitIsCutting ==
    ASSUME SMInv, SMInv', phase = "split", turn <= Len(sites), NEW p, p = sites[turn],
           NEW t, t = turn, NEW b, b = Here(p).block, NEW lo, lo = Here(p).prev,
           NEW s, s = SplitAfter(b, CurrentIdx(p)), NEW r, AddState(b, r),
           fn' = fn, sites' = sites, phase' = phase,
           IF IsCall(t)
           THEN r = Len(cfg) + 2 /\ cfg' = Append(s, [stmts |-> << >>, home |-> 0])
           ELSE r = Len(cfg) + 1 /\ cfg' = s
    PROVE  Cutting(t, b, p[1], lo, p[2], r)
<1>1. /\ TransInv /\ fn \in Functions /\ cfg \in Seq(BlockType) /\ Len(fn.stmts) <= Len(cfg)
      /\ siteYield \in Seq(DOMAIN cfg) /\ Len(siteYield) = CutSites
      /\ siteResume \in Seq(DOMAIN cfg) /\ Len(siteResume) = CutSites
  BY DEF SMInv, TransInv, FnInv, LayoutInv
<1>2. /\ t \in Nat /\ t \in DOMAIN sites /\ p = <<p[1], p[2]>>
      /\ p[1] \in DOMAIN fn.stmts /\ p[1] \in Nat
      /\ p[2] \in DOMAIN fn.stmts[p[1]] /\ p[2] \in Nat
      /\ b \in DOMAIN cfg /\ lo \in Nat /\ lo < p[2]
      /\ cfg[b] = [stmts |-> Segment(p[1], lo, Len(fn.stmts[p[1]])), home |-> p[1]]
  BY <1>1, HereFacts
<1>3. t >= 1 /\ p[1] # 0 /\ p[2] <= Len(fn.stmts[p[1]]) /\ Len(fn.stmts) \in Nat
  <2>1. sites \in Seq(Sites(fn))
    BY DEF SMInv, TransInv, SitesInv
  <2>2. DOMAIN sites = 1 .. Len(sites) /\ DOMAIN fn.stmts = 1 .. Len(fn.stmts)
        /\ Len(fn.stmts) \in Nat /\ DOMAIN fn.stmts[p[1]] = 1 .. Len(fn.stmts[p[1]])
    BY <2>1, <1>1, <1>2, FnFacts, LenProperties
  <2> QED BY <2>2, <1>2
<1>4. CutSites = t - 1 /\ CutSites' = t
  BY <1>2 DEF CutSites, AddState
<1>5. /\ DOMAIN siteYield = 1 .. t - 1 /\ DOMAIN siteResume = 1 .. t - 1
      /\ \A k \in 1 .. t - 1 : siteYield[k] \in DOMAIN cfg /\ siteResume[k] \in DOMAIN cfg
  <2>1. DOMAIN siteYield = 1 .. Len(siteYield) /\ DOMAIN siteResume = 1 .. Len(siteResume)
    BY <1>1, LenProperties
  <2> QED BY <2>1, <1>1, <1>4, ElementOfSeq
<1>6. /\ DOMAIN siteYield' = 1 .. t /\ DOMAIN siteResume' = 1 .. t
      /\ siteYield'[t] = b /\ siteResume'[t] = r
      /\ \A k \in 1 .. t - 1 : siteYield'[k] = siteYield[k] /\ siteResume'[k] = siteResume[k]
  <2>2. siteYield' = Append(siteYield, b) /\ siteResume' = Append(siteResume, r)
    BY DEF AddState
  <2>1. Len(siteYield) + 1 = t /\ Len(siteResume) + 1 = t
    BY <1>1, <1>2, <1>4
  <2>3. /\ DOMAIN Append(siteYield, b) = 1 .. t /\ Append(siteYield, b)[t] = b
        /\ \A k \in 1 .. t - 1 : Append(siteYield, b)[k] = siteYield[k]
    BY <2>1, <1>1, <1>2, Pushed
  <2>4. /\ DOMAIN Append(siteResume, r) = 1 .. t /\ Append(siteResume, r)[t] = r
        /\ \A k \in 1 .. t - 1 : Append(siteResume, r)[k] = siteResume[k]
    BY <2>1, <1>1, <1>2, Pushed
  <2> QED BY <2>2, <2>3, <2>4
<1>7. /\ s \in Seq(BlockType) /\ Len(cfg) \in Nat /\ DOMAIN cfg = 1 .. Len(cfg)
      /\ Len(s) = Len(cfg) + 1 /\ DOMAIN s = 1 .. Len(cfg) + 1
      /\ s[b] = [stmts |-> Segment(p[1], lo, p[2]), home |-> 0]
      /\ \A c \in DOMAIN cfg : c # b => s[c] = cfg[c]
      /\ s[Len(cfg) + 1] = [stmts |-> Segment(p[1], p[2], Len(fn.stmts[p[1]])), home |-> p[1]]
  <2>1. /\ s \in Seq(BlockType) /\ Len(cfg) \in Nat /\ Len(s) = Len(cfg) + 1
        /\ \A c \in DOMAIN cfg : c # b => s[c] = cfg[c]
        /\ s[Len(cfg) + 1] = [stmts |-> Segment(p[1], p[2], Len(fn.stmts[p[1]])), home |-> p[1]]
    BY SiteSplit
  <2>2. s[b] = [stmts |-> Segment(p[1], lo, p[2]), home |-> 0]
    BY SiteSplit
  <2>3. DOMAIN s = 1 .. Len(cfg) + 1 /\ DOMAIN cfg = 1 .. Len(cfg)
    BY <2>1, <1>1, LenProperties
  <2> QED BY <2>1, <2>2, <2>3
<1> DEFINE empty == [stmts |-> << >>, home |-> 0]
<1>8. /\ DOMAIN cfg' = 1 .. r
      /\ IsCall(t) => cfg'[r] = empty
      /\ \A c \in 1 .. Len(cfg) + 1 : cfg'[c] = s[c]
  <2>1. CASE IsCall(t)
    <3>1. empty \in BlockType
      <4>1. << >> \in Seq(FnPlaces) /\ 0 \in 0 .. Len(fn.stmts)
        BY <1>3, EmptySeq
      <4> QED BY <4>1 DEF BlockType
    <3> HIDE DEF empty
    <3>2. /\ Append(s, empty) \in Seq(BlockType) /\ Len(Append(s, empty)) = Len(s) + 1
          /\ \A c \in 1 .. Len(s) : Append(s, empty)[c] = s[c]
          /\ Append(s, empty)[Len(s) + 1] = empty
      BY <3>1, <1>7, AppendProperties
    <3>3. DOMAIN Append(s, empty) = 1 .. Len(s) + 1
      BY <3>2, LenProperties
    <3>4. cfg' = Append(s, empty) /\ r = Len(s) + 1
      BY <2>1, <1>7 DEF empty
    <3> QED BY <3>2, <3>3, <3>4, <1>7
  <2>2. CASE ~IsCall(t)
    BY <2>2, <1>7
  <2> QED BY <2>1, <2>2
<1>9. /\ cfg'[b] = [stmts |-> Segment(p[1], lo, p[2]), home |-> 0]
      /\ \A c \in DOMAIN cfg : c # b => cfg'[c] = cfg[c]
      /\ cfg'[Len(cfg) + 1] = [stmts |-> Segment(p[1], p[2], Len(fn.stmts[p[1]])), home |-> p[1]]
  <2>1. \A c \in DOMAIN cfg : c \in 1 .. Len(cfg) + 1
    BY <1>7
  <2>2. Len(cfg) + 1 \in 1 .. Len(cfg) + 1
    BY <1>7
  <2> QED BY <2>1, <2>2, <1>2, <1>7, <1>8
<1>10. r = IF IsCall(t) THEN Len(cfg) + 2 ELSE Len(cfg) + 1
  OBVIOUS
<1>11. sites[t] = <<p[1], p[2]>>
  BY <1>2
<1>12. /\ fn \in Functions /\ fn' = fn /\ sites' = sites /\ sites[t] = <<p[1], p[2]>>
       /\ t \in Nat /\ t >= 1
  BY <1>1, <1>2, <1>3, <1>11
<1>13. /\ Len(cfg) \in Nat /\ DOMAIN cfg = 1 .. Len(cfg) /\ DOMAIN cfg' = 1 .. r
       /\ r = IF IsCall(t) THEN Len(cfg) + 2 ELSE Len(cfg) + 1
  BY <1>7, <1>8, <1>10
<1>14. /\ p[1] \in DOMAIN fn.stmts /\ p[1] \in Nat /\ p[1] # 0
       /\ lo \in Nat /\ p[2] \in Nat /\ lo < p[2] /\ p[2] <= Len(fn.stmts[p[1]])
       /\ Len(fn.stmts) \in Nat /\ Len(fn.stmts) <= Len(cfg)
       /\ b \in DOMAIN cfg
       /\ cfg[b] = [stmts |-> Segment(p[1], lo, Len(fn.stmts[p[1]])), home |-> p[1]]
  BY <1>1, <1>2, <1>3
<1>15. IsCall(t) => cfg'[r] = [stmts |-> << >>, home |-> 0]
  BY <1>8
<1> QED BY <1>5, <1>6, <1>9, <1>12, <1>13, <1>14, <1>15, Zenon DEF Cutting

\* One turn of the loop, at a yield and at a call.
LEMMA TurnKept ==
    ASSUME SMInv, SMInv', CutOut, phase = "split", turn <= Len(sites), NEW p, p = sites[turn],
           NEW t, t = turn, NEW b, b = Here(p).block,
           NEW s, s = SplitAfter(b, CurrentIdx(p)), NEW r, AddState(b, r),
           fn' = fn, sites' = sites, phase' = phase,
           IF IsCall(t)
           THEN r = Len(cfg) + 2 /\ cfg' = Append(s, [stmts |-> << >>, home |-> 0])
           ELSE r = Len(cfg) + 1 /\ cfg' = s,
           NEW kinds, NEW T, kinds \in Seq(T), layout' = WithState(b, r, kinds),
           Range(kinds) =
               IF IsCall(t)
               THEN {<<b, [kind |-> "CrossFnCallInit", resume_check |-> r]>>,
                     <<r, [kind |-> "CrossFnCallResume", done_block |-> Len(cfg) + 1,
                           result |-> StmtAt(p).local]>>}
               ELSE {<<b, [kind |-> "DirectYield"]>>}
    PROVE  CutOut'
<1>1. PICK lo : lo = Here(p).prev
  OBVIOUS
<1>2. Cutting(t, b, p[1], lo, p[2], r)
  BY <1>1, SplitIsCutting
<1>3. Pieces' /\ Separate'
  BY <1>2, PiecesKept, SeparateKept DEF CutOut
<1>4. layout \in LayoutType /\ fn.suspending /\ Len(layout.resume_entries) = t /\ t \in Nat
  <2>1. TransInv /\ LayoutInv /\ SitesInv
    BY DEF SMInv, TransInv
  <2>2. t \in Nat
    BY <2>1, HereFacts
  <2>3. fn.suspending /\ CutSites = t - 1 /\ phase # "scan"
    BY <2>1 DEF CutSites, SitesInv
  <2>4. Len(layout.resume_entries) = CutSites + 1
    BY <2>1, <2>3 DEF LayoutInv
  <2>5. (t - 1) + 1 = t
    BY <2>2
  <2> QED BY <2>1, <2>2, <2>3, <2>4, <2>5 DEF LayoutInv
<1> DEFINE re == layout.resume_entries
           bk == layout.block_kinds
           U == (DOMAIN cfg) \X Kinds(DOMAIN cfg)
<1>5. re \in Seq(DOMAIN cfg) /\ bk \in Seq(U)
  BY <1>4 DEF LayoutType, Sorts
<1>6. layout'.resume_entries = Append(re, r) /\ layout'.block_kinds = bk \o kinds
  BY <1>4 DEF WithState, LayoutType
<1> HIDE DEF U
<1>7. Append(re, r)[t + 1] = r /\ \A k \in 1 .. t - 1 : Append(re, r)[k + 1] = re[k + 1]
  <2>1. /\ Append(re, r)[t + 1] = r
        /\ \A k \in 1 .. (t + 1) - 1 : Append(re, r)[k] = re[k]
    BY <1>4, <1>5, Pushed
  <2>2. \A k \in 1 .. t - 1 : k + 1 \in 1 .. (t + 1) - 1
    BY <1>4
  <2> QED BY <2>1, <2>2
<1>8. kinds \in Seq(U \cup T) /\ bk \in Seq(U \cup T)
  BY <1>5, SeqGrows
<1>9. Range(kinds) = KindsOf(t)'
  <2>1. /\ IsCall(t)' = IsCall(t) /\ GoesOn(t)' = Len(cfg) + 1
        /\ siteYield'[t] = b /\ siteResume'[t] = r
    <3>1. IsCall(t)' = IsCall(t) /\ GoesOn(t)' = Len(cfg) + 1
      BY <1>2, GoesOnKept
    <3> QED BY <3>1, <1>2 DEF Cutting
  <2>2. StmtAt(sites[t])' = StmtAt(p)
    BY DEF StmtAt
  <2>3. KindsOf(t)' =
            IF IsCall(t)
            THEN {<<b, [kind |-> "CrossFnCallInit", resume_check |-> r]>>,
                  <<r, [kind |-> "CrossFnCallResume", done_block |-> Len(cfg) + 1,
                        result |-> StmtAt(p).local]>>}
            ELSE {<<b, [kind |-> "DirectYield"]>>}
    BY <2>1, <2>2 DEF KindsOf
  <2> QED BY <2>3
<1>10. Named'
  <2>1. PICK S, o, i : S = U \cup T /\ o = p[1] /\ i = p[2]
    OBVIOUS
  <2>2. Cutting(t, b, o, lo, i, r) /\ Named
    BY <1>2, <2>1 DEF CutOut
  <2>3. kinds \in Seq(S) /\ layout.block_kinds \in Seq(S)
    BY <2>1, <1>8
  <2>4. Adds(t, kinds, r)
    BY <1>6, <1>7, <1>9 DEF Adds
  <2> QED BY <2>2, <2>3, <2>4, NamedKept
<1> QED BY <1>3, <1>10 DEF CutOut

\* A turn of the second loop on a yield (split the block behind it, one state).
LEMMA YieldTurn == ASSUME SMInv, CutOut, SplitYield PROVE CutOut'
<1> DEFINE p == sites[turn]
           b == Here(p).block
           resume == Len(cfg) + 1
           e == <<b, [kind |-> "DirectYield"]>>
<1>1. /\ phase = "split" /\ turn <= Len(sites) /\ StmtAt(p).kind = "yield"
      /\ cfg' = SplitAfter(b, CurrentIdx(p)) /\ layout' = WithState(b, resume, << e >>)
      /\ AddState(b, resume) /\ fn' = fn /\ sites' = sites /\ phase' = phase
  BY DEF SplitYield
<1>2. SMInv'
  BY SplitYieldStep
<1>3. PICK q, t, c, s, r, kinds : /\ q = p /\ t = turn /\ c = b /\ s = SplitAfter(b, CurrentIdx(p))
                                  /\ r = resume /\ kinds = << e >>
  OBVIOUS
<1>4. ~IsCall(t)
  BY <1>1, <1>3 DEF IsCall
<1>5. kinds \in Seq({e}) /\ Range(kinds) = {e}
  <2> HIDE DEF e
  <2>1. DOMAIN << e >> = {1} /\ << e >>[1] = e /\ << e >> \in Seq({e})
    OBVIOUS
  <2> QED BY <2>1, <1>3 DEF Range
<1>6. Range(kinds) = {<<c, [kind |-> "DirectYield"]>>}
  BY <1>3, <1>5
<1>7. /\ q = sites[turn] /\ t = turn /\ c = Here(q).block /\ s = SplitAfter(c, CurrentIdx(q))
      /\ AddState(c, r) /\ layout' = WithState(c, r, kinds) /\ r = Len(cfg) + 1 /\ cfg' = s
  BY <1>1, <1>3
<1>8. PICK T : T = {e}
  OBVIOUS
<1>9. kinds \in Seq(T) /\ layout' = WithState(c, r, kinds) /\ AddState(c, r)
  BY <1>5, <1>7, <1>8
<1>10. IF IsCall(t)
       THEN r = Len(cfg) + 2 /\ cfg' = Append(s, [stmts |-> << >>, home |-> 0])
       ELSE r = Len(cfg) + 1 /\ cfg' = s
  BY <1>4, <1>7
<1>11. Range(kinds) =
           IF IsCall(t)
           THEN {<<c, [kind |-> "CrossFnCallInit", resume_check |-> r]>>,
                 <<r, [kind |-> "CrossFnCallResume", done_block |-> Len(cfg) + 1,
                       result |-> StmtAt(q).local]>>}
           ELSE {<<c, [kind |-> "DirectYield"]>>}
  BY <1>4, <1>6
<1>12. /\ phase = "split" /\ turn <= Len(sites) /\ fn' = fn /\ sites' = sites /\ phase' = phase
       /\ q = sites[turn] /\ t = turn /\ c = Here(q).block /\ s = SplitAfter(c, CurrentIdx(q))
  BY <1>1, <1>7
<1> HIDE DEF p, b, resume, e
<1> QED BY <1>2, <1>9, <1>10, <1>11, <1>12, TurnKept

\* A turn of the second loop on a cross-function call (a done block and an empty
\* check block, which the state resumes in).
LEMMA CallTurn == ASSUME SMInv, CutOut, SplitCall PROVE CutOut'
<1> DEFINE p == sites[turn]
           b == Here(p).block
           check == Len(cfg) + 2
           e == <<b, [kind |-> "CrossFnCallInit", resume_check |-> check]>>
           f == <<check, [kind |-> "CrossFnCallResume", done_block |-> Len(cfg) + 1,
                          result |-> StmtAt(p).local]>>
<1>1. /\ phase = "split" /\ turn <= Len(sites) /\ StmtAt(p).kind = "call"
      /\ cfg' = Append(SplitAfter(b, CurrentIdx(p)), [stmts |-> << >>, home |-> 0])
      /\ layout' = WithState(b, check, << e, f >>)
      /\ AddState(b, check) /\ fn' = fn /\ sites' = sites /\ phase' = phase
  BY DEF SplitCall
<1>2. SMInv'
  BY SplitCallStep
<1>3. PICK q, t, c, s, r, kinds : /\ q = p /\ t = turn /\ c = b /\ s = SplitAfter(b, CurrentIdx(p))
                                  /\ r = check /\ kinds = << e, f >>
  OBVIOUS
<1>4. IsCall(t)
  BY <1>1, <1>3 DEF IsCall
<1>5. kinds \in Seq({e, f}) /\ Range(kinds) = {e, f}
  <2> HIDE DEF e, f
  <2>1. /\ DOMAIN << e, f >> = {1, 2} /\ << e, f >>[1] = e /\ << e, f >>[2] = f
        /\ << e, f >> \in Seq({e, f})
    OBVIOUS
  <2> QED BY <2>1, <1>3 DEF Range
<1>6. Range(kinds) =
          {<<c, [kind |-> "CrossFnCallInit", resume_check |-> r]>>,
           <<r, [kind |-> "CrossFnCallResume", done_block |-> Len(cfg) + 1,
                 result |-> StmtAt(q).local]>>}
  BY <1>3, <1>5
<1>7. /\ q = sites[turn] /\ t = turn /\ c = Here(q).block /\ s = SplitAfter(c, CurrentIdx(q))
      /\ AddState(c, r) /\ layout' = WithState(c, r, kinds) /\ r = Len(cfg) + 2
      /\ cfg' = Append(s, [stmts |-> << >>, home |-> 0])
  BY <1>1, <1>3
<1>8. PICK T : T = {e, f}
  OBVIOUS
<1>9. kinds \in Seq(T) /\ layout' = WithState(c, r, kinds) /\ AddState(c, r)
  BY <1>5, <1>7, <1>8
<1>10. IF IsCall(t)
       THEN r = Len(cfg) + 2 /\ cfg' = Append(s, [stmts |-> << >>, home |-> 0])
       ELSE r = Len(cfg) + 1 /\ cfg' = s
  BY <1>4, <1>7
<1>11. Range(kinds) =
           IF IsCall(t)
           THEN {<<c, [kind |-> "CrossFnCallInit", resume_check |-> r]>>,
                 <<r, [kind |-> "CrossFnCallResume", done_block |-> Len(cfg) + 1,
                       result |-> StmtAt(q).local]>>}
           ELSE {<<c, [kind |-> "DirectYield"]>>}
  BY <1>4, <1>6
<1>12. /\ phase = "split" /\ turn <= Len(sites) /\ fn' = fn /\ sites' = sites /\ phase' = phase
       /\ q = sites[turn] /\ t = turn /\ c = Here(q).block /\ s = SplitAfter(c, CurrentIdx(q))
  BY <1>1, <1>7
<1> HIDE DEF p, b, check, e, f
<1> QED BY <1>2, <1>9, <1>10, <1>11, <1>12, TurnKept

\* No other step touches the blocks or what the layout says of states and kinds.
LEMMA CutOutKept ==
    ASSUME CutOut, fn' = fn, cfg' = cfg, siteYield' = siteYield, siteResume' = siteResume,
           sites' = sites \/ DOMAIN siteYield = {},
           layout'.block_kinds = layout.block_kinds,
           layout'.resume_entries = layout.resume_entries \/ DOMAIN siteYield = {}
    PROVE  CutOut'
<1>1. CASE sites' = sites
  <2>1. /\ \A k : IsCall(k)' = IsCall(k) /\ GoesOn(k)' = GoesOn(k) /\ KindsOf(k)' = KindsOf(k)
        /\ \A b, o, lo : Holds(b, o, lo)' = Holds(b, o, lo)
    <3>1. \A k : IsCall(k)' = IsCall(k) /\ StmtAt(sites[k])' = StmtAt(sites[k])
      BY <1>1 DEF IsCall, StmtAt
    <3>2. \A k : GoesOn(k)' = GoesOn(k)
      BY <3>1 DEF GoesOn
    <3>3. \A k : KindsOf(k)' = KindsOf(k)
      BY <3>1, <3>2 DEF KindsOf
    <3>4. \A b, o, lo : Holds(b, o, lo)' = Holds(b, o, lo)
      BY <1>1 DEF Holds, Segment
    <3> QED BY <3>1, <3>2, <3>3, <3>4
  <2>2. Pieces'
    BY <1>1, <2>1 DEF CutOut, Pieces
  <2>3. Separate'
    BY <2>1 DEF CutOut, Separate
  <2>4. Named'
    BY <2>1 DEF CutOut, Named
  <2> QED BY <2>2, <2>3, <2>4 DEF CutOut
<1>2. CASE DOMAIN siteYield = {}
  <2>1. \A o \in DOMAIN fn.stmts : Holds(o, o, 0)'
    BY <1>2 DEF CutOut, Pieces, Holds, Segment
  <2>2. Pieces'
    BY <1>2, <2>1 DEF Pieces
  <2>3. Separate'
    BY <1>2 DEF CutOut, Separate
  <2>4. Named'
    BY <1>2 DEF CutOut, Named
  <2> QED BY <2>2, <2>3, <2>4 DEF CutOut
<1> QED BY <1>1, <1>2

\* Before the first turn every block of the function holds all of its statements.
LEMMA CutOutInit == ASSUME Init PROVE CutOut /\ Reported
<1>1. SMInv /\ fn \in Functions /\ liveness \in Reports(fn) /\ siteYield = << >> /\ siteResume = << >>
      /\ layout = NoLayout /\ phase = "scan" /\ turn = 1
  BY SMInit DEF Init
<1>2. DOMAIN siteYield = {} /\ DOMAIN siteResume = {} /\ DOMAIN layout.block_kinds = {}
  <2>1. DOMAIN << >> = {}
    OBVIOUS
  <2> QED BY <2>1, <1>1 DEF NoLayout
<1>3. ASSUME NEW o \in DOMAIN fn.stmts PROVE Holds(o, o, 0)
  <2>1. cfg[o] = [stmts |-> Segment(o, 0, Len(fn.stmts[o])), home |-> o]
    BY <1>1 DEF SMInv, TransInv, CutInv
  <2>2. o \in DOMAIN cfg
    BY DEF Init
  <2>3. 0 \in 0 .. Len(fn.stmts[o])
    BY <1>1, FnFacts
  <2> QED BY <2>1, <2>2, <2>3 DEF Holds
<1>4. Pieces /\ Separate /\ Named
  BY <1>2, <1>3 DEF Pieces, Separate, Named, IsInjective
<1> QED BY <1>1, <1>4, ReportsCover DEF CutOut

\* The transform establishes CutOut, and the run of the machine keeps it.
LEMMA CutOutStep == ASSUME SMInv, CutOut, Reported, [Next]_vars PROVE CutOut' /\ Reported'
<1>1. ASSUME fn' = fn, liveness' = liveness PROVE Reported'
  <2>1. Sites(fn)' = Sites(fn)
    BY <1>1 DEF Sites
  <2>2. LiveIn(fn)' = LiveIn(fn)
    BY <1>1 DEF LiveIn, LiveOut
  <2>3. \A p : LiveAcross(fn, p)' = LiveAcross(fn, p)
    BY <1>1 DEF LiveAcross, LiveIn, LiveOut
  <2> QED BY <1>1, <2>1, <2>3 DEF Reported
<1>2. CASE UNCHANGED <<fn, liveness, transformed>>
  <2>1. /\ fn' = fn /\ cfg' = cfg /\ siteYield' = siteYield /\ siteResume' = siteResume
        /\ sites' = sites /\ layout' = layout /\ liveness' = liveness
    BY <1>2 DEF transformed
  <2> QED BY <2>1, <1>1, CutOutKept
<1>3. CASE NotSuspending \/ AllSplit \/ AllLifted
  <2>1. /\ fn' = fn /\ cfg' = cfg /\ siteYield' = siteYield /\ siteResume' = siteResume
        /\ sites' = sites /\ layout' = layout /\ liveness' = liveness
    BY <1>3 DEF NotSuspending, AllSplit, AllLifted
  <2> QED BY <2>1, <1>1, CutOutKept
<1>4. CASE Scan
  <2>1. /\ fn' = fn /\ cfg' = cfg /\ siteYield' = siteYield /\ siteResume' = siteResume
        /\ liveness' = liveness /\ layout' = [layout EXCEPT !.resume_entries = <<1>>]
        /\ phase = "scan" /\ fn.suspending
    BY <1>4 DEF Scan
  <2>2. /\ layout \in LayoutType /\ siteYield \in Seq(DOMAIN cfg) /\ Len(siteYield) = CutSites
        /\ sites = << >>
    BY <2>1 DEF SMInv, TransInv, LayoutInv, SitesInv
  <2>3. layout'.block_kinds = layout.block_kinds
    BY <2>1, <2>2 DEF LayoutType
  <2>4. DOMAIN siteYield = {}
    <3>1. CutSites = 0
      BY <2>1, <2>2, EmptySeq DEF CutSites
    <3> QED BY <3>1, <2>2, LenProperties
  <2> QED BY <2>1, <2>3, <2>4, <1>1, CutOutKept
<1>5. CASE SplitYield
  BY <1>5, <1>1, YieldTurn DEF SplitYield
<1>6. CASE SplitCall
  BY <1>6, <1>1, CallTurn DEF SplitCall
<1>7. CASE Lift
  <2>1. /\ fn' = fn /\ cfg' = cfg /\ siteYield' = siteYield /\ siteResume' = siteResume
        /\ sites' = sites /\ liveness' = liveness
    BY <1>7 DEF Lift
  <2>2. layout \in LayoutType
    BY DEF SMInv, TransInv, LayoutInv
  <2>3. layout'.block_kinds = layout.block_kinds /\ layout'.resume_entries = layout.resume_entries
    BY <1>7, <2>2 DEF Lift, LayoutType
  <2> QED BY <2>1, <2>3, <1>1, CutOutKept
<1>8. CASE Run \/ Returned \/ UNCHANGED vars
  <2>1. UNCHANGED <<fn, liveness, transformed>>
    BY <1>8 DEF Run, Returned, vars, Use, Yield, CallInit, CalleeYields, Poll, Def, CalleeDone, Leave
  <2> QED BY <2>1, <1>2
<1> QED BY <1>3, <1>4, <1>5, <1>6, <1>7, <1>8 DEF Next, Transform
-----------------------------------------------------------------------------
(* The layout, as the machine reads it. *)

\* A block is in the table of kinds with the entry of a site.
LEMMA KindKnown ==
    ASSUME SMInv, Named, NEW b, KindOf(b).kind # "plain"
    PROVE  \E k \in DOMAIN siteYield : <<b, KindOf(b)>> \in KindsOf(k)
<1>1. PICK i \in DOMAIN layout.block_kinds : /\ layout.block_kinds[i][1] = b
                                             /\ layout.block_kinds[i][2] = KindOf(b)
  BY KindFacts
<1>2. PICK k \in DOMAIN siteYield : layout.block_kinds[i] \in KindsOf(k)
  BY DEF Named
<1>3. PICK e : e = layout.block_kinds[i]
  OBVIOUS
<1>4. e = <<e[1], e[2]>>
  BY <1>2, <1>3 DEF KindsOf
<1>5. e = <<b, KindOf(b)>>
  BY <1>1, <1>3, <1>4
<1> QED BY <1>2, <1>3, <1>5

\* Sites do not get in each other's way: a block has one entry.
LEMMA KindUnique ==
    ASSUME Separate, NEW j \in DOMAIN siteYield, NEW k \in DOMAIN siteYield,
           DOMAIN siteResume = DOMAIN siteYield,
           NEW e \in KindsOf(j), NEW f \in KindsOf(k), e[1] = f[1]
    PROVE  e = f
<1>1. /\ e[1] = siteYield[j] \/ (IsCall(j) /\ e[1] = siteResume[j])
      /\ f[1] = siteYield[k] \/ (IsCall(k) /\ f[1] = siteResume[k])
  BY DEF KindsOf
<1>2. /\ IsCall(j) => siteResume[j] # siteYield[k] /\ siteResume[j] # siteYield[j]
      /\ IsCall(k) => siteResume[k] # siteYield[j] /\ siteResume[k] # siteYield[k]
  BY DEF Separate
<1>3. siteYield[j] = siteYield[k] \/ siteResume[j] = siteResume[k]
  BY <1>1, <1>2
<1>4. j = k
  BY <1>3 DEF Separate, IsInjective
<1> QED BY <1>2, <1>4 DEF KindsOf

\* The entries of a site are what the table says of their blocks.
LEMMA KindThere ==
    ASSUME SMInv, Named, Separate, NEW k \in DOMAIN siteYield, NEW e \in KindsOf(k)
    PROVE  KindOf(e[1]) = e[2]
<1> DEFINE Bk == layout.block_kinds
<1>1. DOMAIN siteResume = DOMAIN siteYield
  BY LenProperties DEF SMInv, TransInv, LayoutInv
<1>2. PICK i \in DOMAIN Bk : Bk[i] = e
  BY DEF Named
<1>3. PICK s : s = {x \in DOMAIN Bk : Bk[x][1] = e[1]}
  OBVIOUS
<1>4. i \in s /\ s # {}
  BY <1>2, <1>3
<1>5. KindOf(e[1]) = Bk[Min(s)][2]
  BY <1>3, <1>4 DEF KindOf
<1>6. DOMAIN Bk \subseteq Nat
  <2>1. Bk \in Seq((DOMAIN cfg) \X Kinds(DOMAIN cfg))
    BY DEF SMInv, TransInv, LayoutInv, LayoutType, Sorts
  <2>2. PICK T : T = (DOMAIN cfg) \X Kinds(DOMAIN cfg)
    OBVIOUS
  <2>3. Bk \in Seq(T)
    BY <2>1, <2>2
  <2> HIDE DEF Bk
  <2>4. DOMAIN Bk = 1 .. Len(Bk) /\ Len(Bk) \in Nat
    BY <2>3, LenProperties
  <2> QED BY <2>4
<1>7. s \in SUBSET Nat
  BY <1>3, <1>6
<1>8. Min(s) \in s
  BY <1>4, <1>7, MinIs
<1>9. PICK m : m = Min(s)
  OBVIOUS
<1>10. m \in DOMAIN Bk /\ Bk[m][1] = e[1]
  BY <1>3, <1>8, <1>9
<1>11. PICK j \in DOMAIN siteYield : Bk[m] \in KindsOf(j)
  BY <1>10 DEF Named
<1>12. PICK f : f = Bk[m]
  OBVIOUS
<1>13. f \in KindsOf(j) /\ f[1] = e[1]
  BY <1>10, <1>11, <1>12
<1>14. f = e
  BY <1>1, <1>13, KindUnique
<1> QED BY <1>5, <1>9, <1>12, <1>14

\* A block that ends at a site is of the kind of that site, and a resume check is one.
LEMMA KindOfSite ==
    ASSUME SMInv, CutOut, NEW k \in DOMAIN siteYield
    PROVE  /\ ~IsCall(k) => KindOf(siteYield[k]) = [kind |-> "DirectYield"]
           /\ IsCall(k) => KindOf(siteYield[k]) =
                  [kind |-> "CrossFnCallInit", resume_check |-> siteResume[k]]
           /\ IsCall(k) => KindOf(siteResume[k]) =
                  [kind |-> "CrossFnCallResume", done_block |-> GoesOn(k),
                   result |-> StmtAt(sites[k]).local]
<1>1. \A e \in KindsOf(k) : KindOf(e[1]) = e[2]
  BY KindThere DEF CutOut
<1> QED BY <1>1 DEF KindsOf

\* And no other block is.
LEMMA SiteOfKind ==
    ASSUME SMInv, CutOut, NEW b, KindOf(b).kind # "plain"
    PROVE  \E k \in DOMAIN siteYield :
               \/ /\ b = siteYield[k]
                  /\ KindOf(b).kind = (IF IsCall(k) THEN "CrossFnCallInit" ELSE "DirectYield")
               \/ IsCall(k) /\ b = siteResume[k] /\ KindOf(b).kind = "CrossFnCallResume"
<1>1. PICK k \in DOMAIN siteYield : <<b, KindOf(b)>> \in KindsOf(k)
  BY KindKnown DEF CutOut
<1>2. PICK m : m = KindOf(b)
  OBVIOUS
<1>3. <<b, m>> \in KindsOf(k)
  BY <1>1, <1>2
<1>4. \/ /\ b = siteYield[k]
         /\ m.kind = (IF IsCall(k) THEN "CrossFnCallInit" ELSE "DirectYield")
      \/ IsCall(k) /\ b = siteResume[k] /\ m.kind = "CrossFnCallResume"
  BY <1>3 DEF KindsOf
<1> QED BY <1>2, <1>4
-----------------------------------------------------------------------------
(* Where the machine is, and where the function is. *)

\* FnPc and FnStatus of a running machine at a, with the state n.
PcOf(a, n) ==
    IF a = << >> THEN sites[n]
    ELSE IF KindOf(a[1]).kind = "CrossFnCallResume"
    THEN sites[CHOOSE k \in DOMAIN sites : layout.resume_entries[k + 1] = a[1]]
    ELSE IF a[2] <= Len(cfg[a[1]].stmts) THEN cfg[a[1]].stmts[a[2]]
    ELSE <<cfg[a[1]].home, Len(fn.stmts[cfg[a[1]].home]) + 1>>

StatusOf(a, d) ==
    IF d THEN "done"
    ELSE IF a = << >> THEN "suspended"
    ELSE IF KindOf(a[1]).kind = "CrossFnCallResume" THEN "calling" ELSE "running"

\* The tables of a finished layout have an entry for every site.
LEMMA SitesOfRun ==
    ASSUME SMInv, phase = "run"
    PROVE  /\ fn \in Functions /\ Len(sites) \in Nat /\ DOMAIN sites = 1 .. Len(sites)
           /\ DOMAIN siteYield = DOMAIN sites /\ DOMAIN siteResume = DOMAIN sites
           /\ DOMAIN layout.yield_blocks = DOMAIN sites
           /\ \A k \in DOMAIN sites : layout.yield_blocks[k] = <<siteYield[k], k>>
           /\ \A k \in DOMAIN sites : siteYield[k] \in DOMAIN cfg /\ siteResume[k] \in DOMAIN cfg
<1>1. /\ fn \in Functions /\ sites \in Seq(Sites(fn))
      /\ siteYield \in Seq(DOMAIN cfg) /\ siteResume \in Seq(DOMAIN cfg)
      /\ Len(siteYield) = Len(sites) /\ Len(siteResume) = Len(sites)
      /\ Len(layout.yield_blocks) = Len(sites)
      /\ \A i \in DOMAIN layout.yield_blocks : layout.yield_blocks[i] = <<siteYield[i], i>>
      /\ layout.yield_blocks \in Yields(DOMAIN cfg)
  BY DEF SMInv, TransInv, FnInv, SitesInv, LayoutInv, LayoutType, CutSites
<1>2. DOMAIN layout.yield_blocks = 1 .. Len(layout.yield_blocks)
  <2>1. PICK T, y : T = (DOMAIN cfg) \X Nat /\ y = layout.yield_blocks
    OBVIOUS
  <2>2. y \in Seq(T)
    BY <2>1, <1>1 DEF Yields
  <2>3. DOMAIN y = 1 .. Len(y)
    BY <2>2, LenProperties
  <2> QED BY <2>1, <2>3
<1>3. /\ Len(sites) \in Nat /\ DOMAIN sites = 1 .. Len(sites)
      /\ DOMAIN siteYield = 1 .. Len(sites) /\ DOMAIN siteResume = 1 .. Len(sites)
  BY <1>1, LenProperties
<1>4. \A k \in DOMAIN sites : siteYield[k] \in DOMAIN cfg /\ siteResume[k] \in DOMAIN cfg
  BY <1>1, <1>3, ElementOfSeq
<1> QED BY <1>1, <1>2, <1>3, <1>4

\* A site is a place of the function, with a statement that suspends.
LEMMA SiteFacts ==
    ASSUME SMInv, NEW k \in DOMAIN sites
    PROVE  /\ sites[k] \in Sites(fn) /\ sites[k] \in FnPlaces /\ sites[k] = <<sites[k][1], sites[k][2]>>
           /\ sites[k][1] \in DOMAIN fn.stmts /\ sites[k][2] \in Nat /\ sites[k][2] >= 1
           /\ sites[k][2] <= Len(fn.stmts[sites[k][1]]) /\ Len(fn.stmts[sites[k][1]]) \in Nat
           /\ StmtAt(sites[k]).kind = (IF IsCall(k) THEN "call" ELSE "yield")
           /\ StmtAt(sites[k]).local \in Locals
<1>1. fn \in Functions /\ sites \in Seq(Sites(fn))
  BY DEF SMInv, TransInv, FnInv, SitesInv
<1>2. PICK p : p = sites[k]
  OBVIOUS
<1>3. p \in Sites(fn)
  BY <1>1, <1>2, LenProperties, ElementOfSeq
<1>4. p \in FnPlaces /\ Classify(StmtAt(p))
  BY <1>1, <1>3, FnFacts
<1>5. /\ p = <<p[1], p[2]>> /\ p[1] \in DOMAIN fn.stmts /\ p[2] \in DOMAIN fn.stmts[p[1]]
      /\ StmtAt(p) \in Statements
  BY <1>1, <1>4, FnFacts
<1>6. DOMAIN fn.stmts[p[1]] = 1 .. Len(fn.stmts[p[1]]) /\ Len(fn.stmts[p[1]]) \in Nat
  BY <1>1, <1>5, FnFacts
<1>7. StmtAt(p).kind = IF IsCall(k) THEN "call" ELSE "yield"
  BY <1>2, <1>4 DEF Classify, IsCall
<1>8. StmtAt(p).local \in Locals
  BY <1>5 DEF Statements
<1> QED BY <1>2, <1>3, <1>4, <1>5, <1>6, <1>7, <1>8

\* In a block the machine is before the statement of the function that is lo further on, or
\* at the terminator.
LEMMA PlaceInBlock ==
    ASSUME SMInv, phase = "run", NEW a, NEW o, NEW lo, InBlock(a, o, lo)
    PROVE  /\ o \in DOMAIN fn.stmts /\ lo \in Nat /\ a[2] \in Nat /\ a[2] >= 1 /\ a # << >>
           /\ a[1] \in DOMAIN cfg /\ Len(cfg[a[1]].stmts) \in Nat
           /\ a[2] <= Len(cfg[a[1]].stmts) \/ a[2] = Len(cfg[a[1]].stmts) + 1
           /\ a[2] <= Len(cfg[a[1]].stmts) =>
                  /\ cfg[a[1]].stmts[a[2]] = <<o, lo + a[2]>> /\ <<o, lo + a[2]>> \in FnPlaces
                  /\ lo + a[2] <= Len(fn.stmts[o])
           /\ a[2] = Len(cfg[a[1]].stmts) + 1 =>
                  cfg[a[1]].home = o /\ o # 0 /\ lo + a[2] = Len(fn.stmts[o]) + 1
<1>1. fn \in Functions /\ Holds(a[1], o, lo)
  BY SitesOfRun DEF InBlock
<1>2. o \in DOMAIN fn.stmts /\ lo \in 0 .. Len(fn.stmts[o]) /\ a[1] \in DOMAIN cfg
  BY <1>1 DEF Holds
<1>3. /\ Len(fn.stmts[o]) \in Nat /\ DOMAIN fn.stmts[o] = 1 .. Len(fn.stmts[o]) /\ lo \in Nat
      /\ lo <= Len(fn.stmts[o]) /\ o # 0
  BY <1>1, <1>2, FnFacts
<1>4. \E hi \in Nat : /\ lo <= hi /\ hi <= Len(fn.stmts[o])
                      /\ cfg[a[1]].stmts = Segment(o, lo, hi)
                      /\ cfg[a[1]].home = o => hi = Len(fn.stmts[o])
  <2>1. CASE cfg[a[1]] = [stmts |-> Segment(o, lo, Len(fn.stmts[o])), home |-> o]
    BY <2>1, <1>3
  <2>2. CASE \E k \in DOMAIN siteYield :
                 /\ siteYield[k] = a[1] /\ sites[k][1] = o /\ lo < sites[k][2]
                 /\ cfg[a[1]] = [stmts |-> Segment(o, lo, sites[k][2]), home |-> 0]
    <3>1. PICK k \in DOMAIN siteYield :
                 /\ siteYield[k] = a[1] /\ sites[k][1] = o /\ lo < sites[k][2]
                 /\ cfg[a[1]] = [stmts |-> Segment(o, lo, sites[k][2]), home |-> 0]
      BY <2>2
    <3>2. k \in DOMAIN sites
      BY SitesOfRun
    <3>3. sites[k][2] \in Nat /\ sites[k][2] <= Len(fn.stmts[o])
      BY <3>1, <3>2, SiteFacts
    <3>4. lo <= sites[k][2]
      BY <3>1, <3>3, <1>3
    <3>5. cfg[a[1]].stmts = Segment(o, lo, sites[k][2]) /\ cfg[a[1]].home # o
      BY <3>1, <1>3
    <3> QED BY <3>3, <3>4, <3>5
  <2> QED BY <2>1, <2>2, <1>1 DEF Holds
<1>5. PICK hi \in Nat : /\ lo <= hi /\ hi <= Len(fn.stmts[o])
                        /\ cfg[a[1]].stmts = Segment(o, lo, hi)
                        /\ cfg[a[1]].home = o => hi = Len(fn.stmts[o])
  BY <1>4
<1>6. Len(cfg[a[1]].stmts) = hi - lo
  <2>1. lo \in Nat /\ hi \in Nat /\ lo <= hi
    BY <1>3, <1>5
  <2>2. Len(Segment(o, lo, hi)) = hi - lo
    BY <2>1, SegmentType
  <2> QED BY <2>2, <1>5
<1>7. /\ a = <<a[1], a[2]>> /\ a[2] \in 1 .. hi - lo + 1
      /\ a[2] = hi - lo + 1 => cfg[a[1]].home = o
  BY <1>6 DEF InBlock
<1>8. a[2] \in Nat /\ a[2] >= 1 /\ (a[2] <= hi - lo \/ a[2] = hi - lo + 1) /\ hi - lo \in Nat
  BY <1>3, <1>5, <1>7
<1>9. ASSUME a[2] <= hi - lo
      PROVE  /\ cfg[a[1]].stmts[a[2]] = <<o, lo + a[2]>> /\ <<o, lo + a[2]>> \in FnPlaces
             /\ lo + a[2] <= Len(fn.stmts[o])
  <2>1. a[2] \in 1 .. hi - lo /\ lo + a[2] \in 1 .. Len(fn.stmts[o])
    BY <1>3, <1>5, <1>8, <1>9
  <2>2. cfg[a[1]].stmts[a[2]] = <<o, lo + a[2]>>
    BY <1>5, <2>1 DEF Segment
  <2>3. <<o, lo + a[2]>> \in FnPlaces
    BY <1>2, <1>3, <2>1 DEF FnPlaces
  <2> QED BY <2>1, <2>2, <2>3
<1>10. ASSUME a[2] = hi - lo + 1
       PROVE  cfg[a[1]].home = o /\ o # 0 /\ lo + a[2] = Len(fn.stmts[o]) + 1
  BY <1>3, <1>5, <1>7, <1>10
<1>11. a # << >>
  BY <1>7
<1> QED BY <1>2, <1>3, <1>6, <1>8, <1>9, <1>10, <1>11

\* So the function is there too, and runs.
LEMMA PcInBlock ==
    ASSUME SMInv, CutOut, phase = "run", NEW a, NEW o, NEW lo, InBlock(a, o, lo), NEW n
    PROVE  /\ KindOf(a[1]).kind # "CrossFnCallResume"
           /\ PcOf(a, n) = <<o, lo + a[2]>> /\ StatusOf(a, FALSE) = "running"
<1>1. KindOf(a[1]).kind # "CrossFnCallResume"
  <2> SUFFICES ASSUME KindOf(a[1]).kind = "CrossFnCallResume" PROVE FALSE
    OBVIOUS
  <2>1. PICK k \in DOMAIN siteYield : IsCall(k) /\ a[1] = siteResume[k]
    <3>1. KindOf(a[1]).kind # "plain"
      OBVIOUS
    <3> QED BY <3>1, SiteOfKind
  <2>2. cfg[a[1]] = [stmts |-> << >>, home |-> 0]
    BY <2>1 DEF CutOut, Pieces
  <2>3. Len(cfg[a[1]].stmts) = 0 /\ cfg[a[1]].home = 0
    BY <2>2
  <2>4. PICK m, l, h : m = a[2] /\ l = Len(cfg[a[1]].stmts) /\ h = cfg[a[1]].home
    OBVIOUS
  <2>5. /\ m \in Nat /\ m >= 1 /\ (m <= l \/ m = l + 1)
        /\ m = l + 1 => h = o /\ o # 0
    BY <2>4, PlaceInBlock
  <2> QED BY <2>3, <2>4, <2>5
<1>2. a # << >>
  BY PlaceInBlock
<1>3. PcOf(a, n) = IF a[2] <= Len(cfg[a[1]].stmts) THEN cfg[a[1]].stmts[a[2]]
                   ELSE <<cfg[a[1]].home, Len(fn.stmts[cfg[a[1]].home]) + 1>>
  BY <1>1, <1>2 DEF PcOf
<1>4. PcOf(a, n) = <<o, lo + a[2]>>
  <2>1. CASE a[2] <= Len(cfg[a[1]].stmts)
    BY <2>1, <1>3, PlaceInBlock
  <2>2. CASE ~(a[2] <= Len(cfg[a[1]].stmts))
    <3>1. cfg[a[1]].home = o /\ lo + a[2] = Len(fn.stmts[o]) + 1
      BY <2>2, PlaceInBlock
    <3>2. PcOf(a, n) = <<o, Len(fn.stmts[o]) + 1>>
      BY <2>2, <3>1, <1>3
    <3> QED BY <3>1, <3>2
  <2> QED BY <2>1, <2>2
<1> QED BY <1>1, <1>2, <1>4 DEF StatusOf

\* In a resume check the function is in the call.
LEMMA PcInCheck ==
    ASSUME SMInv, CutOut, phase = "run", NEW k \in DOMAIN siteYield, IsCall(k), NEW n, NEW a,
           a = <<siteResume[k], 1>>
    PROVE  /\ KindOf(a[1]) = [kind |-> "CrossFnCallResume", done_block |-> GoesOn(k),
                              result |-> StmtAt(sites[k]).local]
           /\ PcOf(a, n) = sites[k] /\ StatusOf(a, FALSE) = "calling"
<1>1. KindOf(a[1]) = [kind |-> "CrossFnCallResume", done_block |-> GoesOn(k),
                      result |-> StmtAt(sites[k]).local]
  BY KindOfSite
<1>2. KindOf(a[1]).kind = "CrossFnCallResume" /\ a # << >> /\ a[1] = siteResume[k]
  BY <1>1
<1>3. DOMAIN siteYield = DOMAIN sites /\ DOMAIN siteResume = DOMAIN sites
  BY SitesOfRun
<1>4. \A j \in DOMAIN sites : layout.resume_entries[j + 1] = siteResume[j]
  BY <1>3 DEF CutOut, Named
<1>5. \A j \in DOMAIN sites : layout.resume_entries[j + 1] = a[1] => j = k
  BY <1>2, <1>3, <1>4 DEF CutOut, Separate, IsInjective
<1>6. PICK j : j = (CHOOSE x \in DOMAIN sites : layout.resume_entries[x + 1] = a[1])
  OBVIOUS
<1>7. j = k
  <2>1. k \in DOMAIN sites /\ layout.resume_entries[k + 1] = a[1]
    BY <1>2, <1>3, <1>4
  <2>2. j \in DOMAIN sites /\ layout.resume_entries[j + 1] = a[1]
    BY <1>6, <2>1
  <2> QED BY <1>5, <2>2
<1>8. PcOf(a, n) = sites[k]
  BY <1>2, <1>6, <1>7 DEF PcOf
<1> QED BY <1>1, <1>2, <1>8 DEF StatusOf
-----------------------------------------------------------------------------
(* What is saved, and what is loaded. *)

\* A row of a table holds the slot of every local that the host reports.
LEMMA EntriesAre ==
    ASSUME NEW k
    PROVE  \A e : e \in Range(Entries(k)) <=> \E v \in Range(Lookup(sites[k])) : e = <<slots[v], v>>
<1>1. PICK live : live = Lookup(sites[k])
  OBVIOUS
<1>2. Entries(k) = [j \in DOMAIN live |-> <<slots[live[j]], live[j]>>]
  BY <1>1 DEF Entries
<1>3. \A e : e \in Range(Entries(k)) <=> \E j \in DOMAIN live : e = <<slots[live[j]], live[j]>>
  BY <1>2 DEF Range
<1>4. \A v : v \in Range(live) <=> \E j \in DOMAIN live : v = live[j]
  BY DEF Range
<1>5. \A e : e \in Range(Entries(k)) <=> \E v \in Range(live) : e = <<slots[v], v>>
  BY <1>3, <1>4
<1> QED BY <1>1, <1>5

\* The saves of a site are in its block and the loads in its resume block, once each.
LEMMA TablesAt ==
    ASSUME SMInv, CutOut, phase = "run", NEW k \in DOMAIN siteYield
    PROVE  /\ \A e : e \in EntriesOf(layout.yield_saves, siteYield[k]) <=>
                         \E v \in Range(Lookup(sites[k])) : e = <<slots[v], v>>
           /\ \A e : e \in EntriesOf(layout.resume_loads, siteResume[k]) <=>
                         \E v \in Range(Lookup(sites[k])) : e = <<slots[v], v>>
<1> DEFINE ys == layout.yield_saves
           rl == layout.resume_loads
<1>1. LiftedSites = Len(sites) /\ 1 .. Len(sites) = DOMAIN siteYield /\ DOMAIN siteResume = DOMAIN siteYield
  BY SitesOfRun DEF LiftedSites
<1>2. /\ \A i \in DOMAIN ys : \E j \in DOMAIN siteYield :
           ys[i] = <<siteYield[j], Entries(j)>> /\ rl[i] = <<siteResume[j], Entries(j)>>
      /\ Lookup(sites[k]) # << >> => \E i \in DOMAIN ys :
           ys[i] = <<siteYield[k], Entries(k)>> /\ rl[i] = <<siteResume[k], Entries(k)>>
  BY <1>1 DEF SMInv, TransInv, TablesInv
<1>3. DOMAIN rl = DOMAIN ys
  <2>1. PICK T, x, y : T = (DOMAIN cfg) \X Seq(Slots \X Locals) /\ x = ys /\ y = rl
    OBVIOUS
  <2>2. x \in Seq(T) /\ y \in Seq(T) /\ Len(x) = Len(y)
    BY <2>1 DEF SMInv, TransInv, LayoutInv, LayoutType, Tabled, TablesInv
  <2>3. DOMAIN x = 1 .. Len(x) /\ DOMAIN y = 1 .. Len(y)
    BY <2>2, LenProperties
  <2> QED BY <2>1, <2>2, <2>3
<1>4. /\ \A j \in DOMAIN siteYield : siteYield[j] = siteYield[k] => j = k
      /\ \A j \in DOMAIN siteYield : siteResume[j] = siteResume[k] => j = k
  BY <1>1 DEF CutOut, Separate, IsInjective
<1>5. Lookup(sites[k]) = << >> => Range(Entries(k)) = {}
  <2> SUFFICES ASSUME Lookup(sites[k]) = << >> PROVE Range(Entries(k)) = {}
    OBVIOUS
  <2>1. Range(Lookup(sites[k])) = {}
    <3>1. DOMAIN << >> = {}
      OBVIOUS
    <3> QED BY <3>1 DEF Range
  <2> QED BY <2>1, EntriesAre
<1> HIDE DEF ys, rl
<1>6. EntriesOf(ys, siteYield[k]) = Range(Entries(k))
  <2>1. PICK I : I = {i \in DOMAIN ys : ys[i][1] = siteYield[k]}
    OBVIOUS
  <2>2. EntriesOf(ys, siteYield[k]) = UNION {Range(ys[i][2]) : i \in I}
    BY <2>1 DEF EntriesOf
  <2>3. \A i \in I : ys[i][2] = Entries(k)
    BY <2>1, <1>2, <1>4
  <2>4. I # {} \/ Range(Entries(k)) = {}
    <3>1. CASE Lookup(sites[k]) = << >>
      BY <3>1, <1>5
    <3>2. CASE Lookup(sites[k]) # << >>
      <4>1. PICK i \in DOMAIN ys : ys[i] = <<siteYield[k], Entries(k)>>
        BY <3>2, <1>2
      <4> QED BY <4>1, <2>1
    <3> QED BY <3>1, <3>2
  <2> QED BY <2>2, <2>3, <2>4
<1>7. EntriesOf(rl, siteResume[k]) = Range(Entries(k))
  <2>1. PICK I : I = {i \in DOMAIN rl : rl[i][1] = siteResume[k]}
    OBVIOUS
  <2>2. EntriesOf(rl, siteResume[k]) = UNION {Range(rl[i][2]) : i \in I}
    BY <2>1 DEF EntriesOf
  <2>3. \A i \in I : rl[i][2] = Entries(k)
    BY <2>1, <1>2, <1>3, <1>4
  <2>4. I # {} \/ Range(Entries(k)) = {}
    <3>1. CASE Lookup(sites[k]) = << >>
      BY <3>1, <1>5
    <3>2. CASE Lookup(sites[k]) # << >>
      <4>1. PICK i \in DOMAIN ys : rl[i] = <<siteResume[k], Entries(k)>>
        BY <3>2, <1>2
      <4> QED BY <4>1, <2>1, <1>3
    <3> QED BY <3>1, <3>2
  <2> QED BY <2>2, <2>3, <2>4
<1> QED BY <1>6, <1>7, EntriesAre DEF ys, rl

\* A block that no state resumes in loads nothing.
LEMMA NoLoads ==
    ASSUME SMInv, phase = "run", NEW b, \A k \in DOMAIN siteYield : siteResume[k] # b
    PROVE  EntriesOf(layout.resume_loads, b) = {}
<1> DEFINE ys == layout.yield_saves
           rl == layout.resume_loads
<1>1. LiftedSites = Len(sites) /\ 1 .. Len(sites) = DOMAIN siteYield
  BY SitesOfRun DEF LiftedSites
<1>2. \A i \in DOMAIN ys : \E j \in DOMAIN siteYield : rl[i] = <<siteResume[j], Entries(j)>>
  BY <1>1 DEF SMInv, TransInv, TablesInv
<1>3. DOMAIN rl = DOMAIN ys
  <2>1. PICK T, x, y : T = (DOMAIN cfg) \X Seq(Slots \X Locals) /\ x = ys /\ y = rl
    OBVIOUS
  <2>2. x \in Seq(T) /\ y \in Seq(T) /\ Len(x) = Len(y)
    BY <2>1 DEF SMInv, TransInv, LayoutInv, LayoutType, Tabled, TablesInv
  <2>3. DOMAIN x = 1 .. Len(x) /\ DOMAIN y = 1 .. Len(y)
    BY <2>2, LenProperties
  <2> QED BY <2>1, <2>2, <2>3
<1> HIDE DEF ys, rl
<1>4. \A i \in DOMAIN rl : rl[i][1] # b
  BY <1>2, <1>3
<1>5. EntriesOf(rl, b) = {}
  BY <1>4 DEF EntriesOf
<1> QED BY <1>5 DEF rl

\* The slots of what a site saves are of the frame, and each of one local.
LEMMA SavedSlots ==
    ASSUME SMInv, CutOut, phase = "run", NEW k \in DOMAIN siteYield
    PROVE  /\ Range(Lookup(sites[k])) \subseteq Locals
           /\ \A v \in Range(Lookup(sites[k])) : slots[v] \in Slots
           /\ \A v, w \in Range(Lookup(sites[k])) : slots[v] = slots[w] => v = w
<1>1. \A v \in Range(Lookup(sites[k])) :
          <<slots[v], v>> \in EntriesOf(layout.yield_saves, siteYield[k])
  BY TablesAt
<1>2. layout.yield_saves \in Tabled(DOMAIN cfg)
  BY DEF SMInv, TransInv, LayoutInv, LayoutType
<1>3. EntriesOf(layout.yield_saves, siteYield[k]) \subseteq Slots \X Locals
  BY <1>2, EntriesType
<1>4. \A v \in Range(Lookup(sites[k])) : slots[v] \in Slots /\ v \in Locals
  BY <1>1, <1>3
<1>5. k \in 1 .. LiftedSites
  BY SitesOfRun DEF LiftedSites
<1>6. Range(Lookup(sites[k])) \subseteq DOMAIN slots
  BY <1>5 DEF SMInv, TransInv, TablesInv
<1>7. \A v, w \in DOMAIN slots : slots[v] = slots[w] => v = w
  BY DEF SMInv, TransInv, SlotsInv
<1> QED BY <1>4, <1>6, <1>7

\* A suspension at a site saves its locals, under its state.
LEMMA Suspends ==
    ASSUME SMInv, CutOut, phase = "run", NEW k \in DOMAIN siteYield
    PROVE  /\ Suspended(siteYield[k]).state_id = k
           /\ Suspended(siteYield[k]).saved = Saved(siteYield[k])
           /\ \A v \in Range(Lookup(sites[k])) : Saved(siteYield[k])[slots[v]] = regs[v]
<1> DEFINE Yb == layout.yield_blocks
           b == siteYield[k]
<1>1. /\ DOMAIN Yb = DOMAIN siteYield
      /\ \A x \in DOMAIN Yb : Yb[x] = <<siteYield[x], x>>
  BY SitesOfRun
<1>2. \A j \in DOMAIN siteYield : siteYield[j] = siteYield[k] => j = k
  BY DEF CutOut, Separate, IsInjective
<1>3. PICK m : m = (CHOOSE x \in DOMAIN Yb : Yb[x][1] = b)
  OBVIOUS
<1>4. Suspended(b) = [state_id |-> Yb[m][2], saved |-> Saved(b)]
  BY <1>3 DEF Suspended
<1> HIDE DEF Yb
<1>5. m = k
  <2>1. k \in DOMAIN Yb /\ Yb[k][1] = b
    BY <1>1
  <2>2. m \in DOMAIN Yb /\ Yb[m][1] = b
    BY <1>3, <2>1
  <2> QED BY <2>2, <1>1, <1>2
<1>6. Yb[k][2] = k
  BY <1>1
<1>7. ASSUME NEW v \in Range(Lookup(sites[k])) PROVE Saved(b)[slots[v]] = regs[v]
  <2>1. slots[v] \in DOMAIN frame.saved
    BY SavedSlots, RunFacts
  <2>2. PICK s, into : /\ s = slots[v]
                       /\ into = {e \in EntriesOf(layout.yield_saves, b) : e[1] = s}
    OBVIOUS
  <2>3. Saved(b)[s] = IF into = {} THEN frame.saved[s] ELSE regs[(CHOOSE e \in into : TRUE)[2]]
    <3>1. Saved(b) = [x \in DOMAIN frame.saved |->
              LET y == {e \in EntriesOf(layout.yield_saves, b) : e[1] = x}
              IN  IF y = {} THEN frame.saved[x] ELSE regs[(CHOOSE e \in y : TRUE)[2]]]
      BY DEF Saved
    <3> HIDE DEF b
    <3>2. s \in DOMAIN frame.saved
      BY <2>1, <2>2
    <3> QED BY <3>1, <3>2, <2>2
  <2>4. <<s, v>> \in into
    BY <2>2, TablesAt
  <2>5. \A e \in into : e[2] = v
    <3> SUFFICES ASSUME NEW e \in into PROVE e[2] = v
      OBVIOUS
    <3>1. PICK w \in Range(Lookup(sites[k])) : e = <<slots[w], w>>
      BY <2>2, TablesAt
    <3>2. slots[w] = slots[v]
      BY <3>1, <2>2
    <3> QED BY <3>1, <3>2, SavedSlots
  <2>6. PICK e : e = (CHOOSE x \in into : TRUE)
    OBVIOUS
  <2>7. e \in into
    BY <2>4, <2>6
  <2> QED BY <2>2, <2>3, <2>4, <2>5, <2>6, <2>7
<1> QED BY <1>4, <1>5, <1>6, <1>7

\* What the host reports of the site k is in its slots.
Loaded(k, s, r) == \A v \in Range(Lookup(sites[k])) : r[v] = s[slots[v]]

\* Into the resume block of a site: its locals come from their slots.
LEMMA EnterResume ==
    ASSUME SMInv, CutOut, phase = "run", NEW k \in DOMAIN siteYield,
           NEW b, b = siteResume[k], NEW r, NEW s, Enter(b, r, s), NEW q, q = regs'
    PROVE  at' = <<b, 1>> /\ Loaded(k, s, q)
<1>1. b = siteResume[k]
  OBVIOUS
<1>2. /\ at' = <<b, 1>>
      /\ regs' = [v \in Locals |->
             LET from == {e \in EntriesOf(layout.resume_loads, b) : e[2] = v}
             IN  IF from = {} THEN r[v] ELSE s[(CHOOSE e \in from : TRUE)[1]]]
  BY <1>1 DEF Enter
<1>3. ASSUME NEW v \in Range(Lookup(sites[k])) PROVE regs'[v] = s[slots[v]]
  <2>1. v \in Locals
    BY SavedSlots
  <2>2. PICK from : from = {e \in EntriesOf(layout.resume_loads, b) : e[2] = v}
    OBVIOUS
  <2>3. regs'[v] = IF from = {} THEN r[v] ELSE s[(CHOOSE e \in from : TRUE)[1]]
    BY <1>2, <2>1, <2>2
  <2>4. <<slots[v], v>> \in from
    BY <1>1, <2>2, TablesAt
  <2>5. \A e \in from : e[1] = slots[v]
    <3> SUFFICES ASSUME NEW e \in from PROVE e[1] = slots[v]
      OBVIOUS
    <3>1. PICK w \in Range(Lookup(sites[k])) : e = <<slots[w], w>>
      BY <1>1, <2>2, TablesAt
    <3> QED BY <3>1, <2>2
  <2>6. PICK e : e = (CHOOSE x \in from : TRUE)
    OBVIOUS
  <2>7. e \in from
    BY <2>4, <2>6
  <2> QED BY <2>3, <2>4, <2>5, <2>6, <2>7
<1> QED BY <1>1, <1>2, <1>3 DEF Loaded

\* Into any other block the locals stay as they are.
LEMMA EnterOther ==
    ASSUME SMInv, phase = "run", NEW b, \A k \in DOMAIN siteYield : siteResume[k] # b,
           NEW r, NEW s, Enter(b, r, s)
    PROVE  at' = <<b, 1>> /\ \A v \in Locals : regs'[v] = r[v]
<1>1. EntriesOf(layout.resume_loads, b) = {}
  BY NoLoads
<1>2. /\ at' = <<b, 1>>
      /\ regs' = [v \in Locals |->
             LET from == {e \in EntriesOf(layout.resume_loads, b) : e[2] = v}
             IN  IF from = {} THEN r[v] ELSE s[(CHOOSE e \in from : TRUE)[1]]]
  BY DEF Enter
<1>3. ASSUME NEW v \in Locals PROVE regs'[v] = r[v]
  <2>1. {e \in EntriesOf(layout.resume_loads, b) : e[2] = v} = {}
    BY <1>1
  <2> QED BY <1>2, <2>1
<1> QED BY <1>2, <1>3
-----------------------------------------------------------------------------
(* The steps of the machine are steps of the function. *)

\* While the machine runs, the mapping reads where it is from a fixed layout.
LEMMA Mapping ==
    ASSUME phase = "run", UNCHANGED <<fn, liveness, transformed>>
    PROVE  /\ FnPc = PcOf(at, frame.state_id) /\ FnStatus = StatusOf(at, done)
           /\ FnPc' = PcOf(at', frame'.state_id) /\ FnStatus' = StatusOf(at', done')
<1>1. /\ phase' = phase /\ fn' = fn /\ cfg' = cfg /\ layout' = layout /\ sites' = sites
  BY DEF transformed
<1>2. \A b : KindOf(b)' = KindOf(b)
  BY <1>1 DEF KindOf
<1>3. FnPc = PcOf(at, frame.state_id) /\ FnStatus = StatusOf(at, done)
  BY DEF FnPc, PcOf, FnStatus, StatusOf, Block, Ahead
<1>4. PICK a, n, d : a = at' /\ n = frame'.state_id /\ d = done'
  OBVIOUS
<1>5. FnPc' = PcOf(a, n)
  BY <1>1, <1>2, <1>4 DEF FnPc, PcOf, Block, Ahead
<1>6. FnStatus' = StatusOf(a, d)
  BY <1>1, <1>2, <1>4 DEF FnStatus, StatusOf, Block
<1> QED BY <1>3, <1>4, <1>5, <1>6

\* And agreement is about the same blocks, sites and slots before and after a step.
LEMMA AgreeKept ==
    ASSUME UNCHANGED <<fn, liveness, transformed>>, NEW a, NEW f, NEW r, NEW e
    PROVE  Agree(a, f, r, e)' = Agree(a, f, r, e)
<1>1. /\ fn' = fn /\ cfg' = cfg /\ sites' = sites /\ slots' = slots
      /\ siteYield' = siteYield /\ siteResume' = siteResume
  BY DEF transformed
<1>2. LiveIn(fn)' = LiveIn(fn)
  BY <1>1 DEF LiveIn, LiveOut
<1>3. \A p : LiveAcross(fn, p)' = LiveAcross(fn, p)
  BY <1>1 DEF LiveAcross, LiveIn, LiveOut
<1>4. \A p : LiveAt(p)' = LiveAt(p)
  BY <1>1, <1>2 DEF LiveAt, LiveIn, LiveOut
<1>5. \A k : IsCall(k)' = IsCall(k)
  BY <1>1 DEF IsCall, StmtAt
<1>6. \A o, lo : InBlock(a, o, lo)' = InBlock(a, o, lo)
  BY <1>1 DEF InBlock, Holds, Segment
<1>7. Saves(f, e)' = Saves(f, e)
  BY <1>1, <1>3 DEF Saves
<1> QED BY <1>1, <1>3, <1>4, <1>5, <1>6, <1>7 DEF Agree

\* What is live across a site is live before it, is reported, and is all that is live
\* behind it but for the result of a call.
LEMMA SiteLive ==
    ASSUME SMInv, Reported, NEW k \in DOMAIN sites, NEW q, q = <<sites[k][1], sites[k][2] + 1>>
    PROVE  /\ LiveAcross(fn, sites[k]) \subseteq LiveAt(sites[k])
           /\ LiveAcross(fn, sites[k]) \subseteq Range(Lookup(sites[k]))
           /\ LiveAcross(fn, sites[k]) \subseteq Locals
           /\ \A v \in LiveAt(q) : \/ v \in LiveAcross(fn, sites[k])
                                   \/ IsCall(k) /\ v = StmtAt(sites[k]).local
           /\ IsCall(k) => StmtAt(sites[k]).local \notin LiveAcross(fn, sites[k])
<1>1. PICK p : p = sites[k]
  OBVIOUS
<1>2. /\ p \in Sites(fn) /\ p \in FnPlaces /\ q = <<p[1], p[2] + 1>>
      /\ StmtAt(p).kind = (IF IsCall(k) THEN "call" ELSE "yield") /\ StmtAt(p).local \in Locals
  BY <1>1, SiteFacts
<1>3. fn \in Functions /\ liveness \in [Sites(fn) -> Seq(Locals)]
  BY DEF SMInv, TransInv, FnInv
<1>4. /\ \A v \in LiveAt(q) : Defines(StmtAt(p), v) \/ v \in LiveAt(p)
      /\ LiveAcross(fn, p) = LiveAt(q) \ {v \in Locals : Defines(StmtAt(p), v)}
  BY <1>2, <1>3, LiveBefore
<1>5. LiveAcross(fn, p) \subseteq Locals
  BY <1>2, <1>3, LiveLocals
<1>6. Lookup(p) = liveness[p] /\ LiveAcross(fn, p) \subseteq Range(liveness[p])
  BY <1>2, <1>3 DEF Lookup, Reported
<1>7. \A v : Defines(StmtAt(p), v) <=> IsCall(k) /\ v = StmtAt(p).local
  BY <1>2 DEF Defines
<1>8. LiveAcross(fn, p) \subseteq LiveAt(p)
  BY <1>4, <1>5
<1>9. \A v \in LiveAt(q) : v \in LiveAcross(fn, p) \/ (IsCall(k) /\ v = StmtAt(p).local)
  BY <1>2, <1>4, <1>7
<1>10. IsCall(k) => StmtAt(p).local \notin LiveAcross(fn, p)
  BY <1>2, <1>4, <1>7
<1> QED BY <1>1, <1>5, <1>6, <1>8, <1>9, <1>10

\* The machine enters a block at its first statement.
LEMMA StartOfBlock ==
    ASSUME SMInv, phase = "run", NEW b, NEW o, NEW lo, Holds(b, o, lo)
    PROVE  InBlock(<<b, 1>>, o, lo)
<1>1. fn \in Functions /\ b \in DOMAIN cfg /\ o \in DOMAIN fn.stmts /\ lo \in 0 .. Len(fn.stmts[o])
  BY SitesOfRun DEF Holds
<1>2. Len(fn.stmts[o]) \in Nat /\ lo \in Nat /\ lo <= Len(fn.stmts[o])
  BY <1>1, FnFacts
<1>3. \/ Len(cfg[b].stmts) \in Nat /\ cfg[b].home = o
      \/ Len(cfg[b].stmts) \in Nat /\ Len(cfg[b].stmts) >= 1
  <2>1. CASE cfg[b] = [stmts |-> Segment(o, lo, Len(fn.stmts[o])), home |-> o]
    <3>1. Len(Segment(o, lo, Len(fn.stmts[o]))) = Len(fn.stmts[o]) - lo
      BY <1>2, SegmentType
    <3>2. Len(cfg[b].stmts) = Len(fn.stmts[o]) - lo /\ cfg[b].home = o
      BY <2>1, <3>1
    <3> QED BY <3>2, <1>2
  <2>2. CASE \E k \in DOMAIN siteYield :
                 /\ siteYield[k] = b /\ sites[k][1] = o /\ lo < sites[k][2]
                 /\ cfg[b] = [stmts |-> Segment(o, lo, sites[k][2]), home |-> 0]
    <3>1. PICK k \in DOMAIN siteYield :
                 /\ lo < sites[k][2]
                 /\ cfg[b] = [stmts |-> Segment(o, lo, sites[k][2]), home |-> 0]
      BY <2>2
    <3>2. PICK i : i = sites[k][2]
      OBVIOUS
    <3>3. k \in DOMAIN sites
      BY SitesOfRun
    <3>4. i \in Nat /\ lo < i
      BY <3>1, <3>2, <3>3, SiteFacts
    <3>5. lo <= i
      BY <3>4, <1>2
    <3>6. Len(Segment(o, lo, i)) = i - lo
      BY <3>4, <3>5, <1>2, SegmentType
    <3>7. Len(cfg[b].stmts) = i - lo
      BY <3>1, <3>2, <3>6
    <3> QED BY <3>4, <3>7, <1>2
  <2> QED BY <2>1, <2>2 DEF Holds
<1>4. PICK a, l : a = <<b, 1>> /\ l = Len(cfg[b].stmts)
  OBVIOUS
<1>5. a[1] = b /\ a[2] = 1 /\ a = <<a[1], a[2]>>
  BY <1>4
<1>6. l \in Nat /\ (l >= 1 \/ cfg[b].home = o)
  BY <1>3, <1>4
<1>7. a[2] \in 1 .. l + 1 /\ (a[2] = l + 1 => cfg[b].home = o)
  BY <1>5, <1>6
<1>8. InBlock(a, o, lo)
  BY <1>4, <1>5, <1>7 DEF InBlock
<1> QED BY <1>4, <1>8

\* A place is at a statement, not behind the last.
LEMMA PlaceOf ==
    ASSUME SMInv, NEW p \in FnPlaces
    PROVE  p[2] # Len(fn.stmts[p[1]]) + 1 /\ p[1] \in DOMAIN fn.stmts
<1>1. fn \in Functions
  BY DEF SMInv, TransInv, FnInv
<1>2. p[1] \in DOMAIN fn.stmts /\ p[2] \in DOMAIN fn.stmts[p[1]]
  BY <1>1, FnFacts
<1>3. DOMAIN fn.stmts[p[1]] = 1 .. Len(fn.stmts[p[1]]) /\ Len(fn.stmts[p[1]]) \in Nat
  BY <1>1, <1>2, FnFacts
<1> QED BY <1>2, <1>3

\* What a statement uses is live before it.
LEMMA LiveUsed ==
    ASSUME fn \in Functions, NEW p \in FnPlaces, StmtAt(p).kind = "use"
    PROVE  StmtAt(p).local \in LiveAt(p)
<1>1. PICK q : q = <<p[1], p[2] + 1>>
  OBVIOUS
<1> QED BY <1>1, LiveBefore

\* Only locals are live.
LEMMA LiveAnywhere ==
    ASSUME fn \in Functions, NEW p, p[1] \in DOMAIN fn.stmts
    PROVE  LiveAt(p) \subseteq Locals
<1>1. \A c \in fn.succ[p[1]] \ {0} : c \in DOMAIN fn.stmts
  BY FnFacts
<1>2. \A c \in DOMAIN fn.stmts : LiveIn(fn)[c] \subseteq Locals
  BY DEF LiveIn
<1>3. LiveOut(fn, LiveIn(fn), p[1]) \subseteq Locals
  BY <1>1, <1>2 DEF LiveOut
<1>4. \A s : Exposed(s) \subseteq Locals
  BY DEF Exposed
<1> QED BY <1>3, <1>4 DEF LiveAt

\* A machine that is not in a resume check is in a block, and agrees on what is live there.
LEMMA AwakeInBlock ==
    ASSUME RefInv, phase = "run", at # << >>, KindOf(Block).kind # "CrossFnCallResume"
    PROVE  \E o, lo : /\ InBlock(at, o, lo)
                      /\ \A v \in LiveAt(<<o, lo + at[2]>>) : regs[v] = env[v]
<1>1. SMInv /\ CutOut /\ Agree(at, frame, regs, env)
  BY DEF RefInv
<1>2. CASE \E o, lo : InBlock(at, o, lo) /\ \A v \in LiveAt(<<o, lo + at[2]>>) : regs[v] = env[v]
  BY <1>2
<1>3. CASE /\ frame.state_id \in DOMAIN siteYield /\ IsCall(frame.state_id)
           /\ at = <<siteResume[frame.state_id], 1>>
  <2>1. PICK k : k = frame.state_id
    OBVIOUS
  <2>2. KindOf(siteResume[k]).kind = "CrossFnCallResume"
    <3>1. k \in DOMAIN siteYield /\ IsCall(k)
      BY <1>3, <2>1
    <3>2. KindOf(siteResume[k]) = [kind |-> "CrossFnCallResume", done_block |-> GoesOn(k),
                                   result |-> StmtAt(sites[k]).local]
      BY <1>1, <3>1, KindOfSite
    <3> QED BY <3>2
  <2> QED BY <1>3, <2>1, <2>2 DEF Block
<1> QED BY <1>1, <1>2, <1>3 DEF Agree

\* A machine in a resume check is in that of its state.
LEMMA AwakeInCheck ==
    ASSUME RefInv, phase = "run", at # << >>, KindOf(Block).kind = "CrossFnCallResume"
    PROVE  \E k \in DOMAIN siteYield :
               /\ k = frame.state_id /\ IsCall(k) /\ at = <<siteResume[k], 1>> /\ Saves(frame, env)
               /\ \A v \in LiveAcross(fn, sites[k]) : regs[v] = env[v]
<1>1. SMInv /\ CutOut /\ Agree(at, frame, regs, env)
  BY DEF RefInv
<1>2. \A o, lo : ~InBlock(at, o, lo)
  <2> SUFFICES ASSUME NEW o, NEW lo, InBlock(at, o, lo) PROVE FALSE
    OBVIOUS
  <2>1. PICK a : a = at
    OBVIOUS
  <2>2. InBlock(a, o, lo) /\ KindOf(a[1]).kind = "CrossFnCallResume"
    BY <2>1 DEF Block
  <2> QED BY <2>2, <1>1, PcInBlock
<1> QED BY <1>1, <1>2 DEF Agree

\* Before a plain statement the function is before the same, and the machine steps on in its block.
LEMMA AtPlain ==
    ASSUME RefInv, NEW kind \in {"def", "use"}, Plain(kind), UNCHANGED <<fn, liveness, transformed>>
    PROVE  \E p, o, lo :
               /\ p \in FnPlaces /\ p = <<o, lo + at[2]>> /\ Ahead = p /\ StmtAt(p).kind = kind
               /\ FnPc = p /\ FnStatus = "running"
               /\ \A v \in LiveAt(p) : regs[v] = env[v]
               /\ InBlock(<<Block, at[2] + 1>>, o, lo)
<1>1. /\ phase = "run" /\ ~done /\ at # << >> /\ at[2] <= Len(cfg[Block].stmts)
      /\ ~(AtLast /\ KindOf(Block).kind # "plain") /\ StmtAt(Ahead).kind = kind
      /\ SMInv /\ CutOut
  BY DEF Plain, Awake, RefInv
<1>2. KindOf(Block).kind # "CrossFnCallResume"
  <2> SUFFICES ASSUME KindOf(Block).kind = "CrossFnCallResume" PROVE FALSE
    OBVIOUS
  <2>1. PICK k \in DOMAIN siteYield : IsCall(k) /\ at = <<siteResume[k], 1>>
    BY <1>1, AwakeInCheck
  <2>2. cfg[siteResume[k]] = [stmts |-> << >>, home |-> 0]
    BY <1>1, <2>1 DEF CutOut, Pieces
  <2>3. Len(cfg[Block].stmts) = 0 /\ at[2] = 1
    BY <2>1, <2>2 DEF Block
  <2> QED BY <1>1, <2>3
<1>3. PICK o, lo : InBlock(at, o, lo) /\ \A v \in LiveAt(<<o, lo + at[2]>>) : regs[v] = env[v]
  BY <1>1, <1>2, AwakeInBlock
<1>4. PICK a : a = at
  OBVIOUS
<1>5. PICK p : p = <<o, lo + a[2]>>
  OBVIOUS
<1>6. InBlock(a, o, lo) /\ a[2] <= Len(cfg[a[1]].stmts) /\ Block = a[1] /\ Ahead = cfg[a[1]].stmts[a[2]]
  BY <1>1, <1>3, <1>4 DEF Block, Ahead
<1>7. /\ cfg[a[1]].stmts[a[2]] = p /\ p \in FnPlaces
      /\ a[2] \in Nat /\ a[2] >= 1 /\ Len(cfg[a[1]].stmts) \in Nat
  BY <1>1, <1>5, <1>6, PlaceInBlock
<1>8. PcOf(a, frame.state_id) = p /\ StatusOf(a, FALSE) = "running"
  BY <1>1, <1>5, <1>6, PcInBlock
<1>9. FnPc = p /\ FnStatus = "running"
  <2>1. done = FALSE
    BY <1>1, RunFacts
  <2> QED BY <1>1, <1>4, <1>8, <2>1, Mapping
<1>10. InBlock(<<a[1], a[2] + 1>>, o, lo)
  <2>1. PICK c, l : c = <<a[1], a[2] + 1>> /\ l = Len(cfg[a[1]].stmts)
    OBVIOUS
  <2>2. c[1] = a[1] /\ c[2] = a[2] + 1 /\ c = <<c[1], c[2]>>
    BY <2>1
  <2>3. Holds(a[1], o, lo)
    BY <1>6 DEF InBlock
  <2>4. c[2] \in 1 .. l + 1
    BY <1>6, <1>7, <2>1, <2>2
  <2>5. ASSUME c[2] = l + 1 PROVE cfg[a[1]].home = o
    <3>1. AtLast
      BY <1>4, <1>7, <2>1, <2>2, <2>5 DEF AtLast, Block
    <3>2. KindOf(a[1]).kind = "plain"
      BY <1>1, <1>6, <3>1
    <3>3. \A k \in DOMAIN siteYield : siteYield[k] # a[1]
      <4> SUFFICES ASSUME NEW k \in DOMAIN siteYield, siteYield[k] = a[1] PROVE FALSE
        OBVIOUS
      <4>1. \/ KindOf(siteYield[k]) = [kind |-> "DirectYield"]
            \/ KindOf(siteYield[k]) = [kind |-> "CrossFnCallInit", resume_check |-> siteResume[k]]
        BY <1>1, KindOfSite
      <4>2. KindOf(siteYield[k]).kind # "plain"
        BY <4>1
      <4> QED BY <3>2, <4>2
    <3>4. cfg[a[1]] = [stmts |-> Segment(o, lo, Len(fn.stmts[o])), home |-> o]
      BY <2>3, <3>3 DEF Holds
    <3> QED BY <3>4
  <2>6. InBlock(c, o, lo)
    BY <2>1, <2>2, <2>3, <2>4, <2>5 DEF InBlock
  <2> QED BY <2>1, <2>6
<1>11. \A v \in LiveAt(p) : regs[v] = env[v]
  BY <1>3, <1>4, <1>5
<1> QED BY <1>1, <1>4, <1>5, <1>6, <1>7, <1>9, <1>10, <1>11

\* Behind the statement at p.
LEMMA BehindPlain ==
    ASSUME SMInv, phase = "run", at # << >>, NEW p, NEW o, NEW lo, p = <<o, lo + at[2]>>,
           NEW a, a = <<Block, at[2] + 1>>, InBlock(a, o, lo)
    PROVE  /\ <<o, lo + a[2]>> = <<p[1], p[2] + 1>>
           /\ a # << >> /\ o \in DOMAIN fn.stmts /\ lo \in 0 .. Len(fn.stmts[o])
<1>1. PICK i : i = at[2]
  OBVIOUS
<1>2. i \in Nat /\ a[2] = i + 1 /\ p[1] = o /\ p[2] = lo + i
  BY <1>1, AwakeFacts
<1>3. lo \in Nat /\ o \in DOMAIN fn.stmts /\ a # << >>
  BY PlaceInBlock
<1>4. lo + a[2] = p[2] + 1
  BY <1>2, <1>3
<1>5. lo \in 0 .. Len(fn.stmts[o])
  BY DEF InBlock, Holds
<1> QED BY <1>2, <1>3, <1>4, <1>5

\* The machine agrees behind a plain statement as it does before it, but for what it defines.
LEMMA StepsOn ==
    ASSUME SMInv, phase = "run", at # << >>,
           NEW p \in FnPlaces, NEW o, NEW lo, p = <<o, lo + at[2]>>,
           NEW a, a = <<Block, at[2] + 1>>, InBlock(a, o, lo), NEW f, NEW r, NEW e,
           \A v \in LiveAt(p) : Defines(StmtAt(p), v) \/ r[v] = e[v],
           \A v \in Locals : Defines(StmtAt(p), v) => r[v] = e[v]
    PROVE  Agree(a, f, r, e)
<1>1. PICK q : q = <<p[1], p[2] + 1>>
  OBVIOUS
<1>2. /\ <<o, lo + a[2]>> = q
      /\ a # << >> /\ o \in DOMAIN fn.stmts /\ lo \in 0 .. Len(fn.stmts[o])
  BY <1>1, BehindPlain
<1>3. fn \in Functions
  BY SitesOfRun
<1>4. \A v \in LiveAt(q) : Defines(StmtAt(p), v) \/ v \in LiveAt(p)
  BY <1>1, <1>3, LiveBefore
<1>5. StmtAt(p).local \in Locals /\ \A v : Defines(StmtAt(p), v) => v = StmtAt(p).local
  <2>1. StmtAt(p) \in Statements
    BY <1>3, FnFacts
  <2> QED BY <2>1 DEF Statements, Defines
<1>6. \A v \in LiveAt(q) : r[v] = e[v]
  BY <1>4, <1>5
<1> QED BY <1>2, <1>6 DEF Agree

\* A definition writes the register and the local.
LEMMA DefRefines ==
    ASSUME RefInv, NEW x \in Data, Def(x)
    PROVE  Agree(at', frame', regs', env') /\ Original!Def(x)
<1>1. /\ Plain("def") /\ UNCHANGED <<fn, liveness, transformed>>
      /\ regs' = [regs EXCEPT ![StmtAt(Ahead).local] = x]
      /\ env' = [env EXCEPT ![StmtAt(Ahead).local] = x]
      /\ at' = <<Block, at[2] + 1>> /\ frame' = frame /\ seen' = seen /\ done' = done
      /\ phase = "run" /\ ~done /\ at # << >> /\ SMInv /\ CutOut
  BY DEF Def, StepOn, Plain, Awake, RefInv
<1>2. PICK p, o, lo :
          /\ p \in FnPlaces /\ p = <<o, lo + at[2]>> /\ Ahead = p /\ StmtAt(p).kind = "def"
          /\ FnPc = p /\ FnStatus = "running"
          /\ \A v \in LiveAt(p) : regs[v] = env[v]
          /\ InBlock(<<Block, at[2] + 1>>, o, lo)
  BY <1>1, AtPlain
<1>3. PICK a, f, r, e : a = at' /\ f = frame' /\ r = regs' /\ e = env'
  OBVIOUS
<1>4. regs \in [Locals -> Values] /\ env \in [Locals -> Values] /\ done = FALSE
  BY <1>1, RunFacts
<1>5. /\ \A v \in LiveAt(p) : Defines(StmtAt(p), v) \/ r[v] = e[v]
      /\ \A v \in Locals : Defines(StmtAt(p), v) => r[v] = e[v]
  <2>1. PICK l : l = StmtAt(p).local
    OBVIOUS
  <2>2. r = [regs EXCEPT ![l] = x] /\ e = [env EXCEPT ![l] = x]
    BY <1>1, <1>2, <1>3, <2>1
  <2>3. \A v : Defines(StmtAt(p), v) <=> v = l
    BY <1>2, <2>1 DEF Defines
  <2>4. \A v \in Locals : r[v] = (IF v = l THEN x ELSE regs[v]) /\ e[v] = (IF v = l THEN x ELSE env[v])
    BY <1>4, <2>2
  <2>5. LiveAt(p) \subseteq Locals
    BY <1>1, <1>2, PlaceOf, SitesOfRun, LiveAnywhere
  <2> QED BY <1>2, <2>3, <2>4, <2>5
<1>6. InBlock(a, o, lo) /\ a = <<Block, at[2] + 1>>
  BY <1>1, <1>2, <1>3
<1>7. /\ Agree(a, f, r, e)
      /\ PcOf(a, f.state_id) = <<p[1], p[2] + 1>> /\ StatusOf(a, FALSE) = "running"
  <2>1. SMInv /\ CutOut /\ phase = "run" /\ at # << >>
    BY <1>1
  <2>2. p \in FnPlaces /\ p = <<o, lo + at[2]>>
    BY <1>2
  <2>3. a = <<Block, at[2] + 1>>
    BY <1>6
  <2>4. InBlock(a, o, lo)
    BY <1>6
  <2>5. \A v \in LiveAt(p) : Defines(StmtAt(p), v) \/ r[v] = e[v]
    BY <1>5
  <2>6. \A v \in Locals : Defines(StmtAt(p), v) => r[v] = e[v]
    BY <1>5
  <2>7. Agree(a, f, r, e)
    BY <2>1, <2>2, <2>3, <2>4, <2>5, <2>6, StepsOn
  <2>8. \A n : PcOf(a, n) = <<p[1], p[2] + 1>> /\ StatusOf(a, FALSE) = "running"
    <3>1. <<o, lo + a[2]>> = <<p[1], p[2] + 1>>
      BY <2>1, <2>2, <2>3, <2>4, BehindPlain
    <3>2. \A n : PcOf(a, n) = <<o, lo + a[2]>> /\ StatusOf(a, FALSE) = "running"
      BY <2>1, <2>4, PcInBlock
    <3> QED BY <3>1, <3>2
  <2> QED BY <2>7, <2>8
<1>8. FnPc' = <<p[1], p[2] + 1>> /\ FnStatus' = "running"
  BY <1>1, <1>3, <1>4, <1>7, Mapping
<1>9. Original!Def(x)
  <2>1. p[2] # Len(fn.stmts[p[1]]) + 1
    BY <1>1, <1>2, PlaceOf
  <2>2. fn.stmts[p[1]][p[2]] = StmtAt(p)
    BY DEF StmtAt
  <2>3. fn' = fn
    BY <1>1
  <2> QED BY <1>1, <1>2, <1>8, <2>1, <2>2, <2>3
           DEF Original!Def, Original!On, Original!AtEnd, Original!Stmt, Original!Advance
<1> QED BY <1>3, <1>7, <1>9

\* A use finds the value it would have found.
LEMMA UseRefines ==
    ASSUME RefInv, Use
    PROVE  Agree(at', frame', regs', env') /\ Original!Use
<1>1. /\ Plain("use") /\ UNCHANGED <<fn, liveness, transformed>>
      /\ seen' = regs[StmtAt(Ahead).local]
      /\ at' = <<Block, at[2] + 1>> /\ frame' = frame /\ regs' = regs /\ env' = env /\ done' = done
      /\ phase = "run" /\ ~done /\ at # << >> /\ SMInv /\ CutOut
  BY DEF Use, StepOn, Plain, Awake, RefInv
<1>2. PICK p, o, lo :
          /\ p \in FnPlaces /\ p = <<o, lo + at[2]>> /\ Ahead = p /\ StmtAt(p).kind = "use"
          /\ FnPc = p /\ FnStatus = "running"
          /\ \A v \in LiveAt(p) : regs[v] = env[v]
          /\ InBlock(<<Block, at[2] + 1>>, o, lo)
  BY <1>1, AtPlain
<1>3. PICK a, f, r, e : a = at' /\ f = frame' /\ r = regs' /\ e = env'
  OBVIOUS
<1>4. done = FALSE
  BY <1>1, RunFacts
<1>5. /\ \A v \in LiveAt(p) : Defines(StmtAt(p), v) \/ r[v] = e[v]
      /\ \A v \in Locals : Defines(StmtAt(p), v) => r[v] = e[v]
  BY <1>1, <1>2, <1>3 DEF Defines
<1>6. InBlock(a, o, lo) /\ a = <<Block, at[2] + 1>>
  BY <1>1, <1>2, <1>3
<1>7. /\ Agree(a, f, r, e)
      /\ PcOf(a, f.state_id) = <<p[1], p[2] + 1>> /\ StatusOf(a, FALSE) = "running"
  <2>1. SMInv /\ CutOut /\ phase = "run" /\ at # << >>
    BY <1>1
  <2>2. p \in FnPlaces /\ p = <<o, lo + at[2]>>
    BY <1>2
  <2>3. a = <<Block, at[2] + 1>>
    BY <1>6
  <2>4. InBlock(a, o, lo)
    BY <1>6
  <2>5. \A v \in LiveAt(p) : Defines(StmtAt(p), v) \/ r[v] = e[v]
    BY <1>5
  <2>6. \A v \in Locals : Defines(StmtAt(p), v) => r[v] = e[v]
    BY <1>5
  <2>7. Agree(a, f, r, e)
    BY <2>1, <2>2, <2>3, <2>4, <2>5, <2>6, StepsOn
  <2>8. \A n : PcOf(a, n) = <<p[1], p[2] + 1>> /\ StatusOf(a, FALSE) = "running"
    <3>1. <<o, lo + a[2]>> = <<p[1], p[2] + 1>>
      BY <2>1, <2>2, <2>3, <2>4, BehindPlain
    <3>2. \A n : PcOf(a, n) = <<o, lo + a[2]>> /\ StatusOf(a, FALSE) = "running"
      BY <2>1, <2>4, PcInBlock
    <3> QED BY <3>1, <3>2
  <2> QED BY <2>7, <2>8
<1>8. FnPc' = <<p[1], p[2] + 1>> /\ FnStatus' = "running"
  BY <1>1, <1>3, <1>4, <1>7, Mapping
<1>9. Original!Use
  <2>1. p[2] # Len(fn.stmts[p[1]]) + 1 /\ fn \in Functions
    BY <1>1, <1>2, PlaceOf, SitesOfRun
  <2>2. fn.stmts[p[1]][p[2]] = StmtAt(p)
    BY DEF StmtAt
  <2>3. fn' = fn
    BY <1>1
  <2>4. StmtAt(p).local \in LiveAt(p)
    BY <1>2, <2>1, LiveUsed
  <2>5. seen' = env[StmtAt(p).local]
    BY <1>1, <1>2, <2>4
  <2> QED BY <1>1, <1>2, <1>8, <2>1, <2>2, <2>3, <2>5
           DEF Original!Use, Original!On, Original!AtEnd, Original!Stmt, Original!Advance
<1> QED BY <1>3, <1>7, <1>9

\* At the end of a block that suspends, the function is at the site of the block.
LEMMA AtSite ==
    ASSUME RefInv, phase = "run", ~done, at # << >>, AtLast,
           KindOf(Block).kind \in {"DirectYield", "CrossFnCallInit"},
           UNCHANGED <<fn, liveness, transformed>>
    PROVE  \E k \in DOMAIN siteYield :
               /\ Block = siteYield[k] /\ k \in DOMAIN sites
               /\ KindOf(Block).kind = (IF IsCall(k) THEN "CrossFnCallInit" ELSE "DirectYield")
               /\ FnPc = sites[k] /\ FnStatus = "running"
               /\ \A v \in LiveAcross(fn, sites[k]) : regs[v] = env[v]
<1>1. SMInv /\ CutOut /\ Reported
  BY DEF RefInv
<1>2. PICK o, lo : InBlock(at, o, lo) /\ \A v \in LiveAt(<<o, lo + at[2]>>) : regs[v] = env[v]
  BY AwakeInBlock
<1>3. PICK a : a = at
  OBVIOUS
<1>4. /\ InBlock(a, o, lo) /\ a[2] = Len(cfg[a[1]].stmts) /\ Block = a[1]
      /\ KindOf(a[1]).kind \in {"DirectYield", "CrossFnCallInit"}
  BY <1>2, <1>3 DEF Block, AtLast
<1>5. PICK k \in DOMAIN siteYield :
          /\ a[1] = siteYield[k]
          /\ KindOf(a[1]).kind = (IF IsCall(k) THEN "CrossFnCallInit" ELSE "DirectYield")
  <2>1. KindOf(a[1]).kind # "plain"
    BY <1>4
  <2> QED BY <1>1, <1>4, <2>1, SiteOfKind
<1>6. cfg[a[1]].home = 0
  BY <1>1, <1>5 DEF CutOut, Pieces
<1>7. Holds(a[1], o, lo) /\ o # 0
  <2>1. fn \in Functions
    BY <1>1, SitesOfRun
  <2>2. Holds(a[1], o, lo)
    BY <1>4 DEF InBlock
  <2>3. o \in DOMAIN fn.stmts
    BY <2>2 DEF Holds
  <2>4. DOMAIN fn.stmts = 1 .. Len(fn.stmts) /\ Len(fn.stmts) \in Nat
    BY <2>1, FnFacts
  <2> QED BY <2>2, <2>3, <2>4
<1>8. PICK j \in DOMAIN siteYield :
          /\ siteYield[j] = a[1] /\ sites[j][1] = o /\ lo < sites[j][2]
          /\ cfg[a[1]] = [stmts |-> Segment(o, lo, sites[j][2]), home |-> 0]
  BY <1>6, <1>7 DEF Holds
<1>9. j = k /\ k \in DOMAIN sites
  BY <1>1, <1>5, <1>8, SitesOfRun DEF CutOut, Separate, IsInjective
<1>10. PICK i : i = sites[k][2]
  OBVIOUS
<1>11. i \in Nat /\ sites[k] = <<o, i>> /\ lo < i /\ lo \in Nat
  <2>1. i \in Nat /\ sites[k] = <<sites[k][1], i>>
    BY <1>1, <1>9, <1>10, SiteFacts
  <2>2. lo \in Nat
    BY <1>1, <1>4, PlaceInBlock
  <2> QED BY <2>1, <2>2, <1>8, <1>9, <1>10
<1>12. Len(cfg[a[1]].stmts) = i - lo
  <2>1. lo <= i
    BY <1>11
  <2>2. Len(Segment(o, lo, i)) = i - lo
    BY <1>11, <2>1, SegmentType
  <2> QED BY <1>8, <1>9, <1>10, <2>2
<1>13. <<o, lo + a[2]>> = sites[k]
  <2>1. lo + a[2] = i
    BY <1>4, <1>11, <1>12
  <2> QED BY <1>11, <2>1
<1>14. PcOf(a, frame.state_id) = sites[k] /\ StatusOf(a, FALSE) = "running"
  <2>1. \A n : PcOf(a, n) = <<o, lo + a[2]>> /\ StatusOf(a, FALSE) = "running"
    BY <1>1, <1>4, PcInBlock
  <2> QED BY <2>1, <1>13
<1>15. FnPc = sites[k] /\ FnStatus = "running"
  <2>1. done = FALSE
    BY <1>1, RunFacts
  <2> QED BY <1>3, <1>14, <2>1, Mapping
<1>16. \A v \in LiveAcross(fn, sites[k]) : regs[v] = env[v]
  <2>1. PICK q : q = <<sites[k][1], sites[k][2] + 1>>
    OBVIOUS
  <2>2. LiveAcross(fn, sites[k]) \subseteq LiveAt(sites[k])
    BY <1>1, <1>9, <2>1, SiteLive
  <2> QED BY <1>2, <1>3, <1>13, <2>2
<1> QED BY <1>4, <1>5, <1>9, <1>15, <1>16

\* What is saved there is all that is live across the site.
LEMMA SavesAll ==
    ASSUME SMInv, CutOut, Reported, phase = "run", NEW k \in DOMAIN siteYield,
           \A v \in LiveAcross(fn, sites[k]) : regs[v] = env[v],
           NEW f, f = Suspended(siteYield[k])
    PROVE  f.state_id = k /\ Saves(f, env)
<1>1. /\ f.state_id = k /\ f.saved = Saved(siteYield[k])
      /\ \A v \in Range(Lookup(sites[k])) : Saved(siteYield[k])[slots[v]] = regs[v]
  BY Suspends
<1>2. k \in DOMAIN sites
  BY SitesOfRun
<1>3. PICK q : q = <<sites[k][1], sites[k][2] + 1>>
  OBVIOUS
<1>4. LiveAcross(fn, sites[k]) \subseteq Range(Lookup(sites[k]))
  BY <1>2, <1>3, SiteLive
<1> QED BY <1>1, <1>4 DEF Saves

\* A suspended machine, and one in a resume check, agree if the frame does.
LEMMA AgreeSuspended ==
    ASSUME NEW k \in DOMAIN siteYield, NEW f, f.state_id = k, NEW r, NEW e, Saves(f, e)
    PROVE  /\ Agree(<< >>, f, r, e)
           /\ PcOf(<< >>, f.state_id) = sites[k] /\ StatusOf(<< >>, FALSE) = "suspended"
BY DEF Agree, PcOf, StatusOf

\* In the check block of a call the machine stands where the original waits for the
\* callee, once what is live across the call is back in its registers.
LEMMA AgreeInCheck ==
    ASSUME NEW k \in DOMAIN siteYield, IsCall(k), NEW f, f.state_id = k, NEW r, NEW e, Saves(f, e),
           \A v \in LiveAcross(fn, sites[k]) : r[v] = e[v], NEW a, a = <<siteResume[k], 1>>
    PROVE  Agree(a, f, r, e)
<1>1. a # << >>
  OBVIOUS
<1> QED BY <1>1 DEF Agree

\* A yield suspends the function.
LEMMA YieldRefines ==
    ASSUME RefInv, Yield
    PROVE  Agree(at', frame', regs', env') /\ Original!Yield
<1>1. /\ phase = "run" /\ ~done /\ at # << >> /\ AtLast /\ KindOf(Block).kind = "DirectYield"
      /\ frame' = Suspended(Block) /\ at' = << >>
      /\ UNCHANGED <<fn, liveness, transformed>> /\ env' = env /\ seen' = seen /\ done' = done
      /\ SMInv /\ CutOut /\ Reported
  BY DEF Yield, Lose, Awake, RefInv
<1>2. PICK k \in DOMAIN siteYield :
          /\ Block = siteYield[k] /\ k \in DOMAIN sites
          /\ KindOf(Block).kind = (IF IsCall(k) THEN "CrossFnCallInit" ELSE "DirectYield")
          /\ FnPc = sites[k] /\ FnStatus = "running"
          /\ \A v \in LiveAcross(fn, sites[k]) : regs[v] = env[v]
  <2>1. KindOf(Block).kind \in {"DirectYield", "CrossFnCallInit"}
    BY <1>1
  <2> QED BY <1>1, <2>1, AtSite
<1>3. PICK f, r, e : f = frame' /\ r = regs' /\ e = env'
  OBVIOUS
<1>4. f = Suspended(siteYield[k]) /\ e = env
  BY <1>1, <1>2, <1>3
<1>5. f.state_id = k /\ Saves(f, e)
  BY <1>1, <1>2, <1>4, SavesAll
<1>6. /\ Agree(<< >>, f, r, e)
      /\ PcOf(<< >>, f.state_id) = sites[k] /\ StatusOf(<< >>, FALSE) = "suspended"
  BY <1>5, AgreeSuspended
<1>7. FnPc' = sites[k] /\ FnStatus' = "suspended"
  <2>1. done' = FALSE
    BY <1>1, RunFacts
  <2> QED BY <1>1, <1>3, <1>6, <2>1, Mapping
<1>8. Original!Yield
  <2>1. sites[k][2] # Len(fn.stmts[sites[k][1]]) + 1
    BY <1>1, <1>2, SiteFacts, PlaceOf
  <2>2. fn.stmts[sites[k][1]][sites[k][2]] = StmtAt(sites[k])
    BY DEF StmtAt
  <2>3. StmtAt(sites[k]).kind = "yield"
    BY <1>1, <1>2, SiteFacts
  <2>4. fn' = fn
    BY <1>1
  <2> QED BY <1>1, <1>2, <1>7, <2>1, <2>2, <2>3, <2>4
           DEF Original!Yield, Original!On, Original!AtEnd, Original!Stmt
<1> QED BY <1>1, <1>3, <1>6, <1>8

\* The function's own step at a call.
LEMMA CallFrom ==
    ASSUME SMInv, NEW k \in DOMAIN sites, IsCall(k), FnPc = sites[k], FnStatus = "running",
           FnPc' = sites[k], FnStatus' \in {"calling", "suspended"},
           fn' = fn, env' = env, seen' = seen
    PROVE  Original!Call
<1>1. sites[k][2] # Len(fn.stmts[sites[k][1]]) + 1
  BY SiteFacts, PlaceOf
<1>2. fn.stmts[sites[k][1]][sites[k][2]] = StmtAt(sites[k])
  BY DEF StmtAt
<1>3. StmtAt(sites[k]).kind = "call"
  BY SiteFacts
<1> QED BY <1>1, <1>2, <1>3 DEF Original!Call, Original!On, Original!AtEnd, Original!Stmt

\* A call starts its callee, or is suspended with the caller.
LEMMA CallInitRefines ==
    ASSUME RefInv, CallInit
    PROVE  Agree(at', frame', regs', env') /\ Original!Call
<1>1. /\ phase = "run" /\ ~done /\ at # << >> /\ AtLast /\ KindOf(Block).kind = "CrossFnCallInit"
      /\ frame' = Suspended(Block)
      /\ Enter(KindOf(Block).resume_check, regs, frame'.saved) \/ at' = << >>
      /\ UNCHANGED <<fn, liveness, transformed>> /\ env' = env /\ seen' = seen /\ done' = done
      /\ SMInv /\ CutOut /\ Reported
  BY DEF CallInit, Lose, Awake, RefInv
<1>2. PICK k \in DOMAIN siteYield :
          /\ Block = siteYield[k] /\ k \in DOMAIN sites
          /\ KindOf(Block).kind = (IF IsCall(k) THEN "CrossFnCallInit" ELSE "DirectYield")
          /\ FnPc = sites[k] /\ FnStatus = "running"
          /\ \A v \in LiveAcross(fn, sites[k]) : regs[v] = env[v]
  <2>1. KindOf(Block).kind \in {"DirectYield", "CrossFnCallInit"}
    BY <1>1
  <2> QED BY <1>1, <2>1, AtSite
<1>3. PICK a, f, r, e : a = at' /\ f = frame' /\ r = regs' /\ e = env'
  OBVIOUS
<1>4. f = Suspended(siteYield[k]) /\ e = env /\ IsCall(k) /\ done' = FALSE
  BY <1>1, <1>2, <1>3, RunFacts
<1>5. f.state_id = k /\ Saves(f, e)
  BY <1>1, <1>2, <1>4, SavesAll
<1>6. CASE at' = << >>
  <2>1. /\ Agree(<< >>, f, r, e)
        /\ PcOf(<< >>, f.state_id) = sites[k] /\ StatusOf(<< >>, FALSE) = "suspended"
    BY <1>5, AgreeSuspended
  <2>2. FnPc' = sites[k] /\ FnStatus' = "suspended"
    BY <1>1, <1>3, <1>4, <1>6, <2>1, Mapping
  <2>3. Original!Call
    BY <1>1, <1>2, <1>4, <2>2, CallFrom
  <2> QED BY <1>3, <1>6, <2>1, <2>3
<1>7. CASE Enter(KindOf(Block).resume_check, regs, frame'.saved)
  <2>1. PICK s, r0 : s = f.saved /\ r0 = regs
    OBVIOUS
  <2>2. KindOf(Block) = [kind |-> "CrossFnCallInit", resume_check |-> siteResume[k]]
    BY <1>1, <1>2, <1>4, KindOfSite
  <2>3. KindOf(Block).resume_check = siteResume[k]
    BY <2>2
  <2>4. PICK b : b = siteResume[k] /\ Enter(b, r0, s)
    BY <1>3, <1>7, <2>1, <2>3
  <2>5. /\ a = <<siteResume[k], 1>>
        /\ \A v \in Range(Lookup(sites[k])) : r[v] = s[slots[v]]
    <3>1. SMInv /\ CutOut /\ phase = "run"
      BY <1>1
    <3>2. at' = <<b, 1>> /\ Loaded(k, s, r)
      BY <3>1, <1>3, <2>4, EnterResume
    <3> QED BY <1>3, <2>4, <3>2 DEF Loaded
  <2>6. LiveAcross(fn, sites[k]) \subseteq Range(Lookup(sites[k]))
    <3>1. PICK q : q = <<sites[k][1], sites[k][2] + 1>>
      OBVIOUS
    <3> QED BY <1>1, <1>2, <3>1, SiteLive
  <2>7. \A v \in LiveAcross(fn, sites[k]) : r[v] = e[v]
    BY <1>5, <2>1, <2>5, <2>6 DEF Saves
  <2>8. Agree(a, f, r, e)
    BY <1>4, <1>5, <2>5, <2>7, AgreeInCheck
  <2>9. \A n : PcOf(a, n) = sites[k] /\ StatusOf(a, FALSE) = "calling"
    BY <1>1, <1>4, <2>5, PcInCheck
  <2>10. FnPc' = sites[k] /\ FnStatus' = "calling"
    BY <1>1, <1>3, <1>4, <2>9, Mapping
  <2>11. Original!Call
    BY <1>1, <1>2, <1>4, <2>10, CallFrom
  <2> QED BY <1>3, <2>8, <2>11
<1> QED BY <1>1, <1>6, <1>7

\* A callee that yields suspends the function in the call.
LEMMA CalleeYieldsRefines ==
    ASSUME RefInv, CalleeYields
    PROVE  Agree(at', frame', regs', env') /\ Original!CalleeYields
<1>1. /\ phase = "run" /\ ~done /\ at # << >> /\ KindOf(Block).kind = "CrossFnCallResume"
      /\ at' = << >> /\ frame' = frame
      /\ UNCHANGED <<fn, liveness, transformed>> /\ env' = env /\ seen' = seen /\ done' = done
      /\ SMInv /\ CutOut
  BY DEF CalleeYields, InCheck, Lose, Awake, RefInv
<1>2. PICK k \in DOMAIN siteYield :
          k = frame.state_id /\ IsCall(k) /\ at = <<siteResume[k], 1>> /\ Saves(frame, env)
  BY <1>1, AwakeInCheck
<1>3. PICK f, r, e : f = frame' /\ r = regs' /\ e = env'
  OBVIOUS
<1>4. f = frame /\ e = env /\ done = FALSE /\ f.state_id = k /\ Saves(f, e)
  BY <1>1, <1>2, <1>3, RunFacts
<1>5. /\ Agree(<< >>, f, r, e)
      /\ PcOf(<< >>, f.state_id) = sites[k] /\ StatusOf(<< >>, FALSE) = "suspended"
  BY <1>4, AgreeSuspended
<1>6. \A n : PcOf(at, n) = sites[k] /\ StatusOf(at, FALSE) = "calling"
  <2>1. PICK a : a = at
    OBVIOUS
  <2>2. \A n : PcOf(a, n) = sites[k] /\ StatusOf(a, FALSE) = "calling"
    BY <1>1, <1>2, <2>1, PcInCheck
  <2> QED BY <2>1, <2>2
<1>7. FnPc = sites[k] /\ FnStatus = "calling" /\ FnPc' = sites[k] /\ FnStatus' = "suspended"
  BY <1>1, <1>3, <1>4, <1>5, <1>6, Mapping
<1>8. Original!CalleeYields
  BY <1>1, <1>7 DEF Original!CalleeYields
<1> QED BY <1>1, <1>3, <1>5, <1>8

\* The block behind a site is where the function goes on.
LEMMA BehindSite ==
    ASSUME SMInv, CutOut, phase = "run", NEW k \in DOMAIN siteYield, NEW a, a = <<GoesOn(k), 1>>
    PROVE  /\ InBlock(a, sites[k][1], sites[k][2]) /\ a # << >>
           /\ a[2] = 1 /\ sites[k][1] \in DOMAIN fn.stmts /\ sites[k][2] \in 0 .. Len(fn.stmts[sites[k][1]])
<1>1. Holds(GoesOn(k), sites[k][1], sites[k][2])
  BY DEF CutOut, Pieces
<1>2. PICK g, o, i : g = GoesOn(k) /\ o = sites[k][1] /\ i = sites[k][2]
  OBVIOUS
<1>3. Holds(g, o, i)
  BY <1>1, <1>2
<1>4. InBlock(<<g, 1>>, o, i)
  BY <1>3, StartOfBlock
<1>5. o \in DOMAIN fn.stmts /\ i \in 0 .. Len(fn.stmts[o])
  BY <1>3 DEF Holds
<1> QED BY <1>2, <1>4, <1>5

\* The machine goes on behind the site k with what is live there.
LEMMA GoesOnAgrees ==
    ASSUME SMInv, CutOut, phase = "run", NEW k \in DOMAIN siteYield, NEW a, a = <<GoesOn(k), 1>>,
           NEW f, NEW r, NEW e,
           \A v \in LiveAt(<<sites[k][1], sites[k][2] + 1>>) : r[v] = e[v]
    PROVE  Agree(a, f, r, e)
<1>1. PICK o, i : o = sites[k][1] /\ i = sites[k][2]
  OBVIOUS
<1>2. InBlock(a, o, i) /\ a # << >> /\ a[2] = 1 /\ o \in DOMAIN fn.stmts /\ i \in 0 .. Len(fn.stmts[o])
  BY <1>1, BehindSite
<1>3. \A v \in LiveAt(<<o, i + a[2]>>) : r[v] = e[v]
  BY <1>1, <1>2
<1> QED BY <1>2, <1>3 DEF Agree

\* The first statement of the block behind a site is the one after the site.
LEMMA GoesOnPc ==
    ASSUME SMInv, CutOut, phase = "run", NEW k \in DOMAIN siteYield, NEW a, a = <<GoesOn(k), 1>>
    PROVE  /\ \A n : PcOf(a, n) = <<sites[k][1], sites[k][2] + 1>>
           /\ StatusOf(a, FALSE) = "running"
<1>1. PICK o, i : o = sites[k][1] /\ i = sites[k][2]
  OBVIOUS
<1>2. InBlock(a, o, i) /\ a[2] = 1
  BY <1>1, BehindSite
<1>3. \A n : PcOf(a, n) = <<o, i + a[2]>> /\ StatusOf(a, FALSE) = "running"
  BY <1>2, PcInBlock
<1> QED BY <1>1, <1>2, <1>3

\* A callee that is done: the function goes on behind the call with its result.
LEMMA CalleeDoneRefines ==
    ASSUME RefInv, NEW x \in Data, CalleeDone(x)
    PROVE  Agree(at', frame', regs', env') /\ Original!CalleeReturns(x)
<1>1. /\ phase = "run" /\ ~done /\ at # << >> /\ KindOf(Block).kind = "CrossFnCallResume"
      /\ Enter(KindOf(Block).done_block, [regs EXCEPT ![KindOf(Block).result] = x], frame.saved)
      /\ env' = [env EXCEPT ![KindOf(Block).result] = x]
      /\ UNCHANGED <<fn, liveness, transformed>> /\ frame' = frame /\ seen' = seen /\ done' = done
      /\ SMInv /\ CutOut /\ Reported
  BY DEF CalleeDone, InCheck, Awake, RefInv
<1>2. PICK k \in DOMAIN siteYield :
          /\ k = frame.state_id /\ IsCall(k) /\ at = <<siteResume[k], 1>>
          /\ \A v \in LiveAcross(fn, sites[k]) : regs[v] = env[v]
  BY <1>1, AwakeInCheck
<1>3. PICK a, f, r, e, l : /\ a = at' /\ f = frame' /\ r = regs' /\ e = env'
                           /\ l = StmtAt(sites[k]).local
  OBVIOUS
<1>4. k \in DOMAIN sites /\ l \in Locals /\ done = FALSE /\ done' = FALSE
  BY <1>1, <1>3, SitesOfRun, SiteFacts, RunFacts
<1>5. KindOf(Block).done_block = GoesOn(k) /\ KindOf(Block).result = l
  <2>1. KindOf(siteResume[k]) = [kind |-> "CrossFnCallResume", done_block |-> GoesOn(k),
                                 result |-> StmtAt(sites[k]).local]
    BY <1>1, <1>2, KindOfSite
  <2>2. Block = siteResume[k]
    BY <1>2 DEF Block
  <2> QED BY <1>3, <2>1, <2>2
<1>6. PICK g, r0, s : g = GoesOn(k) /\ r0 = [regs EXCEPT ![l] = x] /\ s = frame.saved
  OBVIOUS
<1>7. Enter(g, r0, s) /\ e = [env EXCEPT ![l] = x]
  BY <1>1, <1>3, <1>5, <1>6
<1>8. \A j \in DOMAIN siteYield : siteResume[j] # g
  BY <1>1, <1>2, <1>6 DEF CutOut, Separate
<1>9. a = <<g, 1>> /\ \A v \in Locals : r[v] = r0[v]
  BY <1>1, <1>3, <1>7, <1>8, EnterOther
<1>10. a = <<GoesOn(k), 1>>
  BY <1>6, <1>9
<1>11. \A v \in LiveAt(<<sites[k][1], sites[k][2] + 1>>) : r[v] = e[v]
  <2>1. PICK q : q = <<sites[k][1], sites[k][2] + 1>>
    OBVIOUS
  <2>2. /\ LiveAcross(fn, sites[k]) \subseteq Locals
        /\ \A v \in LiveAt(q) : v \in LiveAcross(fn, sites[k]) \/ v = l
        /\ l \notin LiveAcross(fn, sites[k])
    BY <1>1, <1>2, <1>3, <1>4, <2>1, SiteLive
  <2>3. regs \in [Locals -> Values] /\ env \in [Locals -> Values]
    BY <1>1, RunFacts
  <2>4. \A v \in Locals : /\ r[v] = (IF v = l THEN x ELSE regs[v])
                          /\ e[v] = (IF v = l THEN x ELSE env[v])
    BY <1>6, <1>7, <1>9, <2>3
  <2> QED BY <1>2, <1>4, <2>1, <2>2, <2>4
<1>12. Agree(a, f, r, e)
  BY <1>1, <1>10, <1>11, GoesOnAgrees
<1>13. /\ \A n : PcOf(a, n) = <<sites[k][1], sites[k][2] + 1>>
       /\ StatusOf(a, FALSE) = "running"
  BY <1>1, <1>10, GoesOnPc
<1>14. \A n : PcOf(at, n) = sites[k] /\ StatusOf(at, FALSE) = "calling"
  <2>1. PICK b : b = at
    OBVIOUS
  <2>2. \A n : PcOf(b, n) = sites[k] /\ StatusOf(b, FALSE) = "calling"
    BY <1>1, <1>2, <2>1, PcInCheck
  <2> QED BY <2>1, <2>2
<1>15. /\ FnPc = sites[k] /\ FnStatus = "calling"
       /\ FnPc' = <<sites[k][1], sites[k][2] + 1>> /\ FnStatus' = "running"
  BY <1>1, <1>3, <1>4, <1>13, <1>14, Mapping
<1>16. Original!CalleeReturns(x)
  <2>1. fn.stmts[sites[k][1]][sites[k][2]].local = l
    BY <1>3 DEF StmtAt
  <2>2. env' = [env EXCEPT ![l] = x] /\ fn' = fn /\ seen' = seen
    BY <1>1, <1>3, <1>7
  <2> QED BY <1>15, <2>1, <2>2 DEF Original!CalleeReturns, Original!Stmt, Original!Advance
<1> QED BY <1>3, <1>12, <1>16

\* A poll goes on behind a yield, or back into the check of a call, with what was saved.
LEMMA PollRefines ==
    ASSUME RefInv, Poll
    PROVE  Agree(at', frame', regs', env') /\ Original!Poll
<1>1. /\ phase = "run" /\ ~done /\ at = << >>
      /\ Enter(layout.resume_entries[frame.state_id + 1], Undefined, frame.saved)
      /\ UNCHANGED <<fn, liveness, transformed>>
      /\ frame' = frame /\ env' = env /\ seen' = seen /\ done' = done
      /\ SMInv /\ CutOut /\ Reported /\ Agree(at, frame, regs, env)
  BY DEF Poll, RefInv
<1>2. PICK k \in DOMAIN siteYield : k = frame.state_id /\ Saves(frame, env)
  BY <1>1 DEF Agree
<1>3. PICK a, f, r, e, s, r0 : /\ a = at' /\ f = frame' /\ r = regs' /\ e = env'
                               /\ s = frame.saved /\ r0 = Undefined
  OBVIOUS
<1>4. k \in DOMAIN sites /\ done = FALSE /\ done' = FALSE
  BY <1>1, SitesOfRun, RunFacts
<1>5. PICK b : b = siteResume[k] /\ Enter(b, r0, s)
  BY <1>1, <1>2, <1>3 DEF CutOut, Named
<1>6. /\ a = <<siteResume[k], 1>>
      /\ \A v \in Range(Lookup(sites[k])) : r[v] = s[slots[v]]
  <2>1. SMInv /\ CutOut /\ phase = "run"
    BY <1>1
  <2>2. at' = <<b, 1>> /\ Loaded(k, s, r)
    BY <2>1, <1>3, <1>5, EnterResume
  <2> QED BY <1>3, <1>5, <2>2 DEF Loaded
<1>7. PICK q : q = <<sites[k][1], sites[k][2] + 1>>
  OBVIOUS
<1>8. /\ LiveAcross(fn, sites[k]) \subseteq Range(Lookup(sites[k]))
      /\ \A v \in LiveAt(q) : \/ v \in LiveAcross(fn, sites[k])
                              \/ IsCall(k) /\ v = StmtAt(sites[k]).local
  BY <1>1, <1>4, <1>7, SiteLive
<1>9. /\ Saves(f, e) /\ f.state_id = k /\ e = env
      /\ \A v \in LiveAcross(fn, sites[k]) : r[v] = e[v]
  BY <1>1, <1>2, <1>3, <1>6, <1>8 DEF Saves
<1>10. FnPc = sites[k] /\ FnStatus = "suspended"
  <2>1. PcOf(<< >>, k) = sites[k] /\ StatusOf(<< >>, FALSE) = "suspended"
    BY DEF PcOf, StatusOf
  <2> QED BY <1>1, <1>2, <1>4, <2>1, Mapping
<1>11. /\ sites[k][2] # Len(fn.stmts[sites[k][1]]) + 1
       /\ fn.stmts[sites[k][1]][sites[k][2]] = StmtAt(sites[k])
       /\ StmtAt(sites[k]).kind = (IF IsCall(k) THEN "call" ELSE "yield")
  <2>1. sites[k] \in FnPlaces /\ StmtAt(sites[k]).kind = (IF IsCall(k) THEN "call" ELSE "yield")
    BY <1>1, <1>4, SiteFacts
  <2>2. sites[k][2] # Len(fn.stmts[sites[k][1]]) + 1
    BY <1>1, <2>1, PlaceOf
  <2> QED BY <2>1, <2>2 DEF StmtAt
<1>12. CASE IsCall(k)
  <2>1. Agree(a, f, r, e)
    BY <1>6, <1>9, <1>12, AgreeInCheck
  <2>2. \A n : PcOf(a, n) = sites[k] /\ StatusOf(a, FALSE) = "calling"
    BY <1>1, <1>6, <1>12, PcInCheck
  <2>3. FnPc' = sites[k] /\ FnStatus' = "calling"
    BY <1>1, <1>3, <1>4, <2>2, Mapping
  <2>4. Original!Poll
    BY <1>1, <1>10, <1>11, <1>12, <2>3
       DEF Original!Poll, Original!On, Original!AtEnd, Original!Stmt
  <2> QED BY <1>3, <2>1, <2>4
<1>13. CASE ~IsCall(k)
  <2>1. a = <<GoesOn(k), 1>>
    BY <1>6, <1>13 DEF GoesOn
  <2>2. \A v \in LiveAt(<<sites[k][1], sites[k][2] + 1>>) : r[v] = e[v]
    BY <1>7, <1>8, <1>9, <1>13
  <2>3. Agree(a, f, r, e)
    BY <1>1, <2>1, <2>2, GoesOnAgrees
  <2>4. /\ \A n : PcOf(a, n) = <<sites[k][1], sites[k][2] + 1>>
        /\ StatusOf(a, FALSE) = "running"
    BY <1>1, <2>1, GoesOnPc
  <2>5. FnPc' = <<sites[k][1], sites[k][2] + 1>> /\ FnStatus' = "running"
    BY <1>1, <1>3, <1>4, <2>4, Mapping
  <2>6. Original!Poll
    BY <1>1, <1>10, <1>11, <1>13, <2>5
       DEF Original!Poll, Original!On, Original!AtEnd, Original!Stmt, Original!Advance
  <2> QED BY <1>3, <2>3, <2>6
<1> QED BY <1>12, <1>13

\* The terminator of a block leads where it led, and nothing is loaded there.
LEMMA LeaveRefines ==
    ASSUME RefInv, NEW b \in 0 .. Len(fn.stmts), Leave(b)
    PROVE  Agree(at', frame', regs', env') /\ Original!Leave(b)
<1>1. /\ phase = "run" /\ ~done /\ at # << >> /\ at[2] = Len(cfg[Block].stmts) + 1
      /\ KindOf(Block).kind # "CrossFnCallResume"
      /\ b \in fn.succ[cfg[Block].home]
      /\ IF b = 0 THEN done' = TRUE /\ at' = at /\ regs' = regs
                  ELSE Enter(b, regs, frame.saved) /\ done' = done
      /\ UNCHANGED <<fn, liveness, transformed>> /\ frame' = frame /\ env' = env /\ seen' = seen
      /\ SMInv /\ CutOut /\ Agree(at, frame, regs, env)
  BY DEF Leave, InCheck, Awake, RefInv
<1>2. PICK o, lo : InBlock(at, o, lo) /\ \A v \in LiveAt(<<o, lo + at[2]>>) : regs[v] = env[v]
  BY <1>1, AwakeInBlock
<1>3. PICK c : c = at
  OBVIOUS
<1>4. InBlock(c, o, lo) /\ c[2] = Len(cfg[c[1]].stmts) + 1
  BY <1>1, <1>2, <1>3 DEF Block
<1>5. /\ o \in DOMAIN fn.stmts /\ cfg[c[1]].home = o /\ lo + c[2] = Len(fn.stmts[o]) + 1
  BY <1>1, <1>4, PlaceInBlock
<1>6. PICK p : p = <<o, Len(fn.stmts[o]) + 1>>
  OBVIOUS
<1>7. \A n : PcOf(c, n) = p /\ StatusOf(c, FALSE) = "running"
  <2>1. \A n : PcOf(c, n) = <<o, lo + c[2]>> /\ StatusOf(c, FALSE) = "running"
    BY <1>1, <1>4, PcInBlock
  <2> QED BY <2>1, <1>5, <1>6
<1>8. done = FALSE /\ FnPc = p /\ FnStatus = "running"
  <2>1. done = FALSE
    BY <1>1, RunFacts
  <2> QED BY <1>1, <1>3, <1>7, <2>1, Mapping
<1>9. /\ p[2] = Len(fn.stmts[p[1]]) + 1 /\ b \in fn.succ[p[1]] /\ fn \in Functions
  BY <1>1, <1>3, <1>5, <1>6, SitesOfRun DEF Block
<1>10. CASE b = 0
  <2>1. done' = TRUE /\ at' = at /\ regs' = regs
    BY <1>1, <1>10
  <2>2. FnPc' = p /\ FnStatus' = "done"
    <3>1. StatusOf(at, TRUE) = "done"
      BY DEF StatusOf
    <3> QED BY <1>1, <1>3, <1>7, <2>1, <3>1, Mapping
  <2>3. Original!Leave(b)
    BY <1>1, <1>8, <1>9, <1>10, <2>2 DEF Original!Leave, Original!AtEnd
  <2>4. Agree(at', frame', regs', env')
    BY <1>1, <2>1
  <2> QED BY <2>3, <2>4
<1>11. CASE b # 0
  <2>1. PICK a, f, r, e, r0, s : /\ a = at' /\ f = frame' /\ r = regs' /\ e = env'
                                 /\ r0 = regs /\ s = frame.saved
    OBVIOUS
  <2>2. Enter(b, r0, s) /\ done' = FALSE /\ e = env
    BY <1>1, <1>8, <1>11, <2>1
  <2>3. b \in DOMAIN fn.stmts /\ LiveAt(<<b, 1>>) \subseteq LiveAt(p)
    <3>1. b \in fn.succ[o] /\ b # 0
      BY <1>6, <1>9, <1>11
    <3> QED BY <1>5, <1>6, <1>9, <3>1, LiveOverEdge
  <2>4. \A j \in DOMAIN siteYield : siteResume[j] # b
    <3>1. DOMAIN fn.stmts = 1 .. Len(fn.stmts) /\ Len(fn.stmts) \in Nat
      BY <1>9, FnFacts
    <3>2. \A j \in DOMAIN siteYield : siteResume[j] > Len(fn.stmts)
      BY <1>1 DEF CutOut, Separate
    <3> QED BY <2>3, <3>1, <3>2
  <2>5. a = <<b, 1>> /\ \A v \in Locals : r[v] = r0[v]
    BY <1>1, <2>1, <2>2, <2>4, EnterOther
  <2>6. Holds(b, b, 0)
    BY <1>1, <2>3 DEF CutOut, Pieces
  <2>7. InBlock(a, b, 0)
    BY <1>1, <2>5, <2>6, StartOfBlock
  <2>8. a # << >> /\ a[2] = 1 /\ <<b, 0 + a[2]>> = <<b, 1>> /\ 0 \in 0 .. Len(fn.stmts[b])
    BY <2>5, <2>6 DEF Holds
  <2>9. \A v \in LiveAt(<<b, 0 + a[2]>>) : r[v] = e[v]
    <3>1. \A v \in LiveAt(p) : regs[v] = env[v]
      BY <1>2, <1>3, <1>5, <1>6
    <3>2. LiveAt(p) \subseteq Locals
      BY <1>5, <1>6, <1>9, LiveAnywhere
    <3> QED BY <2>1, <2>2, <2>3, <2>5, <2>8, <3>1, <3>2
  <2>10. Agree(a, f, r, e)
    BY <2>3, <2>7, <2>8, <2>9 DEF Agree
  <2>11. \A n : PcOf(a, n) = <<b, 1>> /\ StatusOf(a, FALSE) = "running"
    <3>1. \A n : PcOf(a, n) = <<b, 0 + a[2]>> /\ StatusOf(a, FALSE) = "running"
      BY <1>1, <2>7, PcInBlock
    <3> QED BY <2>8, <3>1
  <2>12. FnPc' = <<b, 1>> /\ FnStatus' = "running"
    BY <1>1, <2>1, <2>2, <2>11, Mapping
  <2>13. Original!Leave(b)
    BY <1>1, <1>8, <1>9, <1>11, <2>12 DEF Original!Leave, Original!AtEnd
  <2> QED BY <2>1, <2>10, <2>13
<1> QED BY <1>10, <1>11

-----------------------------------------------------------------------------
(* The refinement. *)

\* A step of the machine is one of the function.
LEMMA RunRefines ==
    ASSUME RefInv, Run
    PROVE  phase = "run" /\ Agree(at', frame', regs', env') /\ Original!Next
<1>1. phase = "run"
  BY DEF Run, Use, Yield, CallInit, CalleeYields, Poll, Def, CalleeDone, Leave, Plain, InCheck, Awake
<1>2. CASE Use
  BY <1>1, <1>2, UseRefines DEF Original!Next
<1>3. CASE Yield
  BY <1>1, <1>3, YieldRefines DEF Original!Next
<1>4. CASE CallInit
  BY <1>1, <1>4, CallInitRefines DEF Original!Next
<1>5. CASE CalleeYields
  BY <1>1, <1>5, CalleeYieldsRefines DEF Original!Next
<1>6. CASE Poll
  BY <1>1, <1>6, PollRefines DEF Original!Next
<1>7. ASSUME NEW x \in Data, Def(x) PROVE Agree(at', frame', regs', env') /\ Original!Next
  BY <1>7, DefRefines DEF Original!Next
<1>8. ASSUME NEW x \in Data, CalleeDone(x) PROVE Agree(at', frame', regs', env') /\ Original!Next
  BY <1>8, CalleeDoneRefines DEF Original!Next
<1>9. ASSUME NEW b \in 0 .. Len(fn.stmts), Leave(b)
      PROVE  Agree(at', frame', regs', env') /\ Original!Next
  BY <1>9, LeaveRefines DEF Original!Next
<1> QED BY <1>1, <1>2, <1>3, <1>4, <1>5, <1>6, <1>7, <1>8, <1>9 DEF Run

\* A finished transform starts the machine at the entry, where it agrees with the function.
LEMMA StartAgrees ==
    SMInv /\ CutOut /\ phase = "run" /\ at = <<1, 1>> /\ ~done /\ regs = env =>
        Agree(at, frame, regs, env) /\ FnPc = <<1, 1>> /\ FnStatus = "running"
<1> SUFFICES ASSUME SMInv, CutOut, phase = "run", at = <<1, 1>>, ~done, regs = env
             PROVE  Agree(at, frame, regs, env) /\ FnPc = <<1, 1>> /\ FnStatus = "running"
  OBVIOUS
<1>1. fn \in Functions /\ 1 \in DOMAIN fn.stmts
  BY SitesOfRun, FnFacts
<1>2. Holds(1, 1, 0)
  BY <1>1 DEF CutOut, Pieces
<1>3. PICK a, f, r, e : a = at /\ f = frame /\ r = regs /\ e = env
  OBVIOUS
<1>4. InBlock(<<1, 1>>, 1, 0)
  BY <1>2, StartOfBlock
<1>5. InBlock(a, 1, 0)
  BY <1>3, <1>4
<1>6. a # << >> /\ a[2] = 1 /\ <<1, 0 + a[2]>> = <<1, 1>> /\ 0 \in 0 .. Len(fn.stmts[1])
  BY <1>2, <1>3 DEF Holds
<1>7. Agree(a, f, r, e)
  BY <1>1, <1>3, <1>5, <1>6 DEF Agree
<1>8. \A n : PcOf(a, n) = <<1, 1>> /\ StatusOf(a, FALSE) = "running"
  <2>1. \A n : PcOf(a, n) = <<1, 0 + a[2]>> /\ StatusOf(a, FALSE) = "running"
    BY <1>5, PcInBlock
  <2> QED BY <1>6, <2>1
<1>9. FnPc = PcOf(at, frame.state_id) /\ FnStatus = StatusOf(at, done)
  BY DEF FnPc, PcOf, FnStatus, StatusOf, Block, Ahead
<1>10. done = FALSE
  BY RunFacts
<1> QED BY <1>3, <1>7, <1>8, <1>9, <1>10

\* Before it has run, the machine and the function are at the entry.
LEMMA BeforeRun ==
    ASSUME SMInv, phase # "run", ~done
    PROVE  FnPc = <<1, 1>> /\ FnStatus = "running" /\ at = <<1, 1>>
<1>1. at = <<1, 1>>
  BY DEF SMInv, RunInv
<1>2. at # << >>
  BY <1>1
<1> QED BY <1>1, <1>2 DEF FnPc, FnStatus

\* A step of the transform leaves the function where it is.
LEMMA TransformRefines ==
    ASSUME RefInv, SMInv', CutOut', Transform
    PROVE  /\ IF phase' = "run" THEN Agree(at, frame, regs, env)' ELSE ~done' /\ regs' = env'
           /\ UNCHANGED Original!vars
<1>1. /\ phase # "run" /\ ~done /\ regs = env /\ SMInv
      /\ fn' = fn /\ at' = at /\ frame' = frame /\ regs' = regs /\ env' = env
      /\ seen' = seen /\ done' = done
  BY DEF Transform, NotSuspending, Scan, SplitYield, SplitCall, AllSplit, Lift, AllLifted, running,
         RefInv
<1>2. FnPc = <<1, 1>> /\ FnStatus = "running" /\ at = <<1, 1>>
  BY <1>1, BeforeRun
<1>3. CASE phase' # "run"
  <2>1. FnPc' = <<1, 1>>
    BY <1>3 DEF FnPc
  <2>2. at' # << >> /\ ~done'
    BY <1>1, <1>2
  <2>3. FnStatus' = "running"
    BY <1>3, <2>2 DEF FnStatus
  <2> QED BY <1>1, <1>2, <1>3, <2>1, <2>3 DEF Original!vars
<1>4. CASE phase' = "run"
  <2>1. (SMInv /\ CutOut /\ phase = "run" /\ at = <<1, 1>> /\ ~done /\ regs = env =>
            Agree(at, frame, regs, env) /\ FnPc = <<1, 1>> /\ FnStatus = "running")'
    BY StartAgrees, PTL
  <2>2. at' = <<1, 1>> /\ ~done' /\ regs' = env'
    BY <1>1, <1>2
  <2>3. Agree(at, frame, regs, env)' /\ FnPc' = <<1, 1>> /\ FnStatus' = "running"
    BY <1>4, <2>1, <2>2
  <2> QED BY <1>1, <1>2, <1>4, <2>3 DEF Original!vars
<1> QED BY <1>3, <1>4

\* transform_to_state_machine and the host that follows its layout implement the function
\* that was cut, for whatever function, liveness and number of reserved slots.
THEOREM AsyncRefinement == Spec => ImplementsFn
<1>1. Init => RefInv /\ Original!Init
  <2> SUFFICES ASSUME Init PROVE RefInv /\ Original!Init
    OBVIOUS
  <2>1. SMInv /\ CutOut /\ Reported
    BY SMInit, CutOutInit
  <2>2. phase # "run" /\ ~done /\ regs = env /\ env = Undefined /\ seen = Undef
    BY DEF Init
  <2>3. FnPc = <<1, 1>> /\ FnStatus = "running"
    BY <2>1, <2>2, BeforeRun
  <2> QED BY <2>1, <2>2, <2>3 DEF RefInv, Original!Init, Original!Entry, Undefined
<1>2. RefInv /\ SMInv' /\ [Next]_vars => RefInv' /\ [Original!Next]_(Original!vars)
  <2> SUFFICES ASSUME RefInv, SMInv', [Next]_vars PROVE RefInv' /\ [Original!Next]_(Original!vars)
    OBVIOUS
  <2>1. SMInv' /\ CutOut' /\ Reported'
    BY CutOutStep DEF RefInv
  <2>2. CASE Transform
    BY <2>1, <2>2, TransformRefines DEF RefInv
  <2>3. CASE Run
    <3>1. /\ phase = "run" /\ Agree(at', frame', regs', env') /\ Original!Next
      BY <2>3, RunRefines
    <3>2. UNCHANGED <<fn, liveness, transformed>>
      BY <2>3 DEF Run, Use, Yield, CallInit, CalleeYields, Poll, Def, CalleeDone, Leave
    <3>3. phase' = "run"
      BY <3>1, <3>2 DEF transformed
    <3>4. PICK a, f, r, e : a = at' /\ f = frame' /\ r = regs' /\ e = env'
      OBVIOUS
    <3>5. Agree(a, f, r, e)'
      BY <3>1, <3>2, <3>4, AgreeKept
    <3>6. Agree(at, frame, regs, env)'
      BY <3>4, <3>5
    <3> QED BY <2>1, <3>1, <3>3, <3>6 DEF RefInv
  <2>4. CASE UNCHANGED vars
    <3>1. /\ UNCHANGED <<fn, liveness, transformed>> /\ phase' = phase
          /\ at' = at /\ frame' = frame /\ regs' = regs /\ env' = env /\ seen' = seen /\ done' = done
      BY <2>4 DEF vars, running, transformed
    <3>2. CASE phase = "run"
      <4>1. PICK a, f, r, e : a = at /\ f = frame /\ r = regs /\ e = env
        OBVIOUS
      <4>2. Agree(a, f, r, e)
        BY <3>2, <4>1 DEF RefInv
      <4>3. Agree(a, f, r, e)'
        BY <3>1, <4>2, AgreeKept
      <4>4. Agree(at, frame, regs, env)'
        BY <3>1, <4>1, <4>3
      <4>5. FnPc' = FnPc /\ FnStatus' = FnStatus
        BY <3>1, <3>2, Mapping
      <4> QED BY <2>1, <3>1, <3>2, <4>4, <4>5 DEF RefInv, Original!vars
    <3>3. CASE phase # "run"
      <4>1. FnPc = <<1, 1>> /\ FnStatus = "running" /\ ~done /\ regs = env
        BY <3>3, BeforeRun DEF RefInv
      <4>2. FnPc' = <<1, 1>> /\ FnStatus' = "running"
        <5>1. at = <<1, 1>>
          BY <3>3, <4>1, BeforeRun DEF RefInv
        <5>2. phase' # "run" /\ at' # << >> /\ ~done'
          BY <3>1, <3>3, <4>1, <5>1
        <5> QED BY <5>2 DEF FnPc, FnStatus
      <4> QED BY <2>1, <3>1, <3>3, <4>1, <4>2 DEF RefInv, Original!vars
    <3> QED BY <3>2, <3>3
  <2> QED BY <2>2, <2>3, <2>4 DEF Next, Returned
<1> QED BY <1>1, <1>2, Invariance, PTL DEF Spec, ImplementsFn, Original!Spec
=============================================================================
