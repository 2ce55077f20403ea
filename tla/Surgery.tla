------------------------------ MODULE Surgery ------------------------------
(***************************************************************************)
(* The transform of krio-stackless (lib.rs, and the region's head and tail *)
(* of executor.rs): it finds the region and its coroutines in a CFG, then  *)
(* their suspension points, and cuts each coroutine into the blocks of a   *)
(* switch machine.  Blocks are numbered from 1, and so are the statements  *)
(* of a block; a CFG is the sequence of its blocks.                        *)
(*                                                                         *)
(* The executor's own blocks are not here: Executor.tla runs what they do. *)
(* Nor is the consumer's IR: its statements are markers and the few user   *)
(* operations a schedule depends on, each with its place in the source.    *)
(***************************************************************************)
EXTENDS Integers, Sequences, FiniteSets, SequencesExt

Suspensions == {"Yield", "GuardedRecv", "ProducingSend"}
DONE_STATE == 9999

\* Statements: a marker or a user operation, and the assignments that the
\* transform emits.
Marker(op) == [op |-> op, arg |-> 0, src |-> 0]
Operation(op, q, i) == [op |-> op, arg |-> q, src |-> i]
Nop == Marker("Nop")
Assign(local, v) == [op |-> local, arg |-> v, src |-> 0]

\* Terminators.
Unset == [kind |-> "unset"]
Goto(b) == [kind |-> "goto", to |-> b]
Branch(q, yes, no) == [kind |-> "branch", on |-> q, yes |-> yes, no |-> no]
Switch(arms, other) == [kind |-> "switch", arms |-> arms, other |-> other]
Leave == [kind |-> "leave"]     \* into the executor, after the poll

Block(stmts, term) == [stmts |-> stmts, term |-> term]

-----------------------------------------------------------------------------
(* CoroCfg: what the transform asks of the consumer's IR. *)

SetTerm(g, b, t) == [g EXCEPT ![b].term = t]

\* replace_with_nop.  The markers of a region are erased after its blocks were
\* cut, so the statement may be elsewhere by then.
ReplaceWithNop(g, b, i) ==
    IF i \in DOMAIN g[b].stmts THEN [g EXCEPT ![b].stmts[i] = Nop] ELSE g

\* split_after: the statements behind i, and the terminator, in a fresh block.
SplitAfter(g, b, i) ==
    Append([g EXCEPT ![b] = Block(SubSeq(@.stmts, 1, i), Unset)],
           Block(SubSeq(g[b].stmts, i + 1, Len(g[b].stmts)), g[b].term))

\* redirect_targets.
RedirectTargets(g, b, from, to) ==
    LET t == g[b].term
        new(x) == IF x = from THEN to ELSE x IN
    SetTerm(g, b, Switch({<<a[1], new(a[2])>> : a \in t.arms}, new(t.other)))

Successors(g, b) == IF g[b].term.kind = "goto" THEN {g[b].term.to} ELSE {}

-----------------------------------------------------------------------------
(* Discovery. *)

StatementsOf(g, b) == [i \in DOMAIN g[b].stmts |-> <<b, i, g[b].stmts[i]>>]

\* Every statement with its coordinates, in CFG order.
Indices(s) == [i \in DOMAIN s |-> i]
Walk(g, xs, b) == xs \o StatementsOf(g, b)
Coordinates(g) == FoldLeft(LAMBDA xs, b : Walk(g, xs, b), << >>, Indices(g))

\* find_regions: one pass, with the begin markers it has seen.
FindRegions(g) ==
    LET seen(f, x) ==
          LET op == x[3].op IN
          CASE op = "RegionBegin" -> [f EXCEPT !.region = x, !.coros = << >>]
            [] op = "RegionEnd" /\ f.region # << >> ->
                 [f EXCEPT !.region = << >>, !.coros = << >>,
                           !.found = Append(@, [begin |-> f.region, end |-> x,
                                                coroutines |-> f.coros])]
            [] op = "CoroutineBegin" -> [f EXCEPT !.coro = x]
            [] op = "CoroutineEnd" /\ f.coro # << >> ->
                 [f EXCEPT !.coro = << >>,
                           !.coros = Append(@, [begin |-> f.coro, end |-> x])]
            [] OTHER -> f
    IN  FoldLeft(seen, [region |-> << >>, coro |-> << >>, coros |-> << >>, found |-> << >>],
                 Coordinates(g)).found

\* A coroutine's body: what is reachable from its begin without passing its end.
BodyBlocks(g, coro) ==
    LET grow(S, b) == S \cup UNION {Successors(g, x) : x \in S \ {coro.end[1]}}
    IN  FoldLeft(grow, {coro.begin[1]}, g)

\* Coordinate x is a suspension point of a coroutine with these body blocks.
Inside(blocks, coro, x) ==
    /\ x[1] \in blocks
    /\ x[1] = coro.begin[1] => x[2] > coro.begin[2]
    /\ x[1] = coro.end[1] => x[2] < coro.end[2]
    /\ x[3].op \in Suspensions

\* find_suspension_points: in CFG order; the n-th point's state is n.
FindSuspensionPoints(g, coro) ==
    LET blocks == BodyBlocks(g, coro)
    IN  FoldLeft(LAMBDA ps, x : IF Inside(blocks, coro, x) THEN Append(ps, x) ELSE ps,
                 << >>, Coordinates(g))

-----------------------------------------------------------------------------
(* One coroutine's machine. *)

\* Mutant of LeaveBlock: the number of the next point.
LeaveBlockNext(s, p, exit) ==
    Block(<<Assign("state", IF s = DONE_STATE THEN s ELSE s + 1), Assign("poll", p)>>, Goto(exit))

\* A block that leaves the machine in state s with poll result p.
LeaveBlock(s, p, exit) == Block(<<Assign("state", s), Assign("poll", p)>>, Goto(exit))

\* Mutant of CutPlain: cut where a guard's block is, before the point.
CutPlainBefore(m, x, n, exit) ==
    LET g == Append(m.g, LeaveBlock(n, "PENDING", exit))
        split == SplitAfter(g, x[1], x[2] - 1)
        erased == IF x[3].op = "Yield" THEN ReplaceWithNop(split, x[1], x[2]) ELSE split
    IN  [g |-> SetTerm(erased, x[1], Goto(Len(g))),
         entries |-> Append(m.entries, Len(split))]

\* The cut at a yield or a send: what follows resumes.
CutPlain(m, x, n, exit) ==
    LET g == Append(m.g, LeaveBlock(n, "PENDING", exit))
        split == SplitAfter(g, x[1], x[2])
        erased == IF x[3].op = "Yield" THEN ReplaceWithNop(split, x[1], x[2]) ELSE split
    IN  [g |-> SetTerm(erased, x[1], Goto(Len(g))),
         entries |-> Append(m.entries, Len(split))]

\* The cut at a guarded recv: the guard gets a block of its own, the peek takes
\* the operation's place and the operation moves behind it (the hook's
\* emit_guarded_recv_peek).  A blocked coroutine looks again at the guard.
CutGuard(m, x, n, exit) ==
    LET g == Append(m.g, LeaveBlock(n, "PENDING", exit))
        guarded == IF x[2] = 1 THEN g
                   ELSE SetTerm(SplitAfter(g, x[1], x[2] - 1), x[1], Goto(Len(g) + 1))
        guard == IF x[2] = 1 THEN x[1] ELSE Len(guarded)
        op == guarded[guard].stmts[1]
        split == SplitAfter(guarded, guard, 1)
        resume == Len(split)
        peeked == [split EXCEPT ![guard] = Block(<< >>, Branch(op.arg, resume, resume + 1)),
                                ![resume].stmts = <<Assign("progress", 1), [op EXCEPT !.op = "Recv"]>> \o @]
    IN  [g |-> Append(peeked, LeaveBlock(n, "BLOCKED", exit)),
         entries |-> Append(m.entries, guard)]

Cut(m, points, n, exit) ==
    IF points[n][3].op = "GuardedRecv" THEN CutGuard(m, points[n], n, exit)
    ELSE CutPlain(m, points[n], n, exit)

\* The blocks that build_state_machine starts with, behind those of g: the dispatch
\* and the exit.
Scaffold(g, coro) ==
    [g |-> g \o <<Block(<< >>, Unset), Block(<< >>, Leave)>>, entries |-> <<coro.begin[1]>>]

\* Every suspension point is cut at the coordinates found before the first cut.
CutAll(g, coro, points) ==
    FoldLeft(LAMBDA m, n : Cut(m, points, n, Len(g) + 2), Scaffold(g, coro), Indices(points))

\* build_state_machine.  The coroutine is cut, its end goes to a block that reports
\* READY, and the dispatch switches to the entry, to a resume block or out.
BuildStateMachine(g, coro, points) ==
    LET dispatch == Len(g) + 1
        exit == Len(g) + 2
        m == CutAll(g, coro, points)
        done == Append(m.g, LeaveBlock(DONE_STATE, "READY", exit))
        ended == SetTerm(done, coro.end[1], Goto(Len(done)))
        arms == IF points = << >> THEN Switch({<<DONE_STATE, exit>>}, coro.begin[1])
                ELSE Switch({<<n - 1, m.entries[n]>> : n \in DOMAIN m.entries}, exit)
    IN  [g |-> SetTerm(ended, dispatch, arms), dispatch |-> dispatch]

-----------------------------------------------------------------------------
(* The region. *)

\* The markers of a region, or of a coroutine, are erased.
Erase(g, r) ==
    ReplaceWithNop(ReplaceWithNop(g, r.begin[1], r.begin[2]), r.end[1], r.end[2])
EraseAll(g, coros) == FoldLeft(LAMBDA h, r : Erase(h, r), g, coros)

\* region_exit (build_oneshot_poll has the same code): what region_end's block holds
\* stays, its terminator gets a block of its own, and a fresh block leads there, which
\* the executor goes to once every coroutine is done.
RegionExit(g, region) ==
    LET end == region.end[1]
        split == SplitAfter(Append(g, Block(<< >>, Unset)), end, Len(g[end].stmts))
    IN  SetTerm(split, Len(g) + 1, Goto(Len(split)))

\* finish_region (build_oneshot_poll has the same code): the markers are erased, and
\* what follows region_begin in its block becomes a block of its own, the entry of
\* the first coroutine if that begins there.  The block of region_begin is left to
\* set every state to 0 and to enter the executor: Executor's Init.
FinishRegion(g, region, dispatches) ==
    LET head == region.begin[1]
        split == SplitAfter(Erase(EraseAll(g, region.coroutines), region),
                            head, region.begin[2])
    IN  IF region.coroutines[1].begin[1] = head
        THEN RedirectTargets(split, dispatches[1], head, Len(split))
        ELSE split

\* run_with: the region it transforms next, the first one that has coroutines.
NextRegion(g) == Head(SelectSeq(FindRegions(g), LAMBDA r : r.coroutines # << >>))

\* One more coroutine.  Every suspension point is looked up in the CFG as it was
\* before the first machine was cut.
AddMachine(t, g, coro) ==
    LET points == FindSuspensionPoints(g, coro)
        m == BuildStateMachine(t.blocks, coro, points)
    IN  [blocks |-> m.g, dispatch |-> Append(t.dispatch, m.dispatch),
         points |-> Append(t.points, points)]

\* transform_region.
AddMachines(g, coros) ==
    FoldLeft(LAMBDA t, coro : AddMachine(t, g, coro),
             [blocks |-> g, dispatch |-> << >>, points |-> << >>], coros)
Transform(g) ==
    LET region == NextRegion(g)
        t == AddMachines(g, region.coroutines)
    IN  [t EXCEPT !.blocks = FinishRegion(RegionExit(@, region), region, t.dispatch)]

-----------------------------------------------------------------------------
(* The contract of the consumer's IR builder (README.md, "IR-builder          *)
(* contract").  A region r is the bodies of its coroutines, r.body, laid out  *)
(* as r.cfg; r.at[b][i] tells how many statements of its body a coroutine has *)
(* behind it when it comes to statement i of block b.                         *)

Markers == {Marker(op) : op \in {"RegionBegin", "RegionEnd", "CoroutineBegin", "CoroutineEnd"}}

\* Block b holds markers and the next statements of coroutine c's body.  Nothing
\* that the transform looks for is behind a suspension point.
ReadsOn(r, c, b) ==
    LET s == r.cfg[b].stmts
        at == r.at[b]
    IN  /\ at \in [1 .. Len(s) + 1 -> 0 .. Len(r.body[c])]
        /\ \A i \in DOMAIN s :
              \/ s[i] \in Markers /\ at[i + 1] = at[i]
              \/ /\ at[i + 1] = at[i] + 1 /\ at[i + 1] \in DOMAIN r.body[c]
                 /\ s[i] = Operation(r.body[c][at[i + 1]][1], r.body[c][at[i + 1]][2], at[i + 1])
        /\ \A i, j \in DOMAIN s :
              i < j /\ s[i].op \in Suspensions => s[j].op \notin Suspensions /\ s[j] \notin Markers

\* Gotos link the blocks of a coroutine, from its begin marker to its end marker.
\* The coroutines share no block, with each other or with the region's end, and only
\* the first one may begin in the block of the region's begin.
LaidOut(r) ==
    LET g == r.cfg
        region == NextRegion(g)
        coros == region.coroutines
        blocks(c) == BodyBlocks(g, coros[c])
        mark(x) == x[1] \in DOMAIN g /\ x[2] \in DOMAIN g[x[1]].stmts /\ g[x[1]].stmts[x[2]] \in Markers
        place(x) == r.at[x[1]][x[2] + 1]
        out(b) == r.at[b][Len(r.at[b])]
    IN  /\ DOMAIN coros = DOMAIN r.body
        /\ mark(region.begin) /\ mark(region.end)
        /\ \A c \in DOMAIN coros :
              LET first == coros[c].begin
                  end == coros[c].end
              IN  /\ mark(first) /\ place(first) = 0
                  /\ mark(end) /\ place(end) = Len(r.body[c]) /\ out(end[1]) = place(end)
                  /\ {first[1], end[1]} \subseteq blocks(c) /\ blocks(c) \subseteq DOMAIN g
                  /\ \A b \in blocks(c) :
                        /\ ReadsOn(r, c, b)
                        /\ b # end[1] => \E t \in blocks(c) \ {region.begin[1]} :
                                           g[b].term = Goto(t) /\ r.at[t][1] = out(b)
                  /\ \A d \in DOMAIN coros \ {c} : blocks(c) \cap blocks(d) = {}
                  /\ region.end[1] \notin blocks(c)
                  /\ region.begin[1] \in blocks(c) =>
                        c = 1 /\ region.begin[1] = first[1] /\ place(region.begin) = 0
                  /\ Len(FindSuspensionPoints(g, coros[c])) < DONE_STATE
=============================================================================
