------------------------------ MODULE Executor ------------------------------
(***************************************************************************)
(* What krio-stackless emits for a region of coroutines, run: one switch   *)
(* machine per coroutine (lib.rs, emit_multi_state_machine) under one of   *)
(* three executors (executor.rs): the round-robin loop of                  *)
(* CooperativeExecutor, its strict-priority loop, and the one-shot poll of *)
(* WakerExecutor, which the host enters again with the locals persisted.   *)
(*                                                                         *)
(* A coroutine is a straight line of statements: its suspension points,    *)
(* and between them `Put`, a user statement that makes a value available   *)
(* without suspending.  Of a channel only the number of values is kept,    *)
(* which is what the hooks' peek looks at.                                 *)
(***************************************************************************)
EXTENDS Surgery

CONSTANTS
    N,           \* coroutines of the region
    Channels,
    Regions,     \* bodies, and how the consumer's IR lays them out: see LaidOut
    Priorities,  \* the assignments of priorities a region may have
    MaxPriority, \* u32::MAX
    Strategies,  \* "loop": CooperativeExecutor; "oneshot": WakerExecutor
    Reports      \* whether the host's emit_deadlock returns true

Coros == 1 .. N
Statements == (Suspensions \cup {"Put"}) \X Channels
\* What a CFG may hold before the transform.
Blocks == [stmts : Seq(Markers \cup [op : Suspensions \cup {"Put"}, arg : Channels, src : Nat]),
           term : [kind : {"unset"}] \cup [kind : {"goto"}, to : Nat]]
NoPriority == MaxPriority + 1   \* None; no u32

ASSUME RegionAssumption ==
    /\ N \in Nat \ {0}
    /\ MaxPriority \in Nat
    /\ \A r \in Regions :
          r.body \in [Coros -> Seq(Statements)] /\ r.cfg \in Seq(Blocks) /\ LaidOut(r)
    /\ \A p \in Priorities : p \in [Coros -> 0 .. NoPriority]
    /\ Strategies \subseteq {"loop", "oneshot"}
    /\ Reports \in BOOLEAN

VARIABLES
    body, prio, strategy,  \* the region, fixed from the start
    code,                  \* what the transform made of it
    bands,                 \* build_priority_loop's bands, computed from it
    state, poll,           \* each machine's state_local and poll_result_local
    progress,              \* progress_local, shared by the machines
    allDone,               \* all_done_local of the two round-robin scans
    pc,                    \* which part of the emitted code runs
    cur,                   \* the coroutine whose turn it is
    blk,                   \* the block the running machine comes to (0: none runs)
    band, k, sweep,        \* where the priority scan is
    last,                  \* per band, the member that ran last (0: none)
    chan,                  \* values in each channel
    ran                    \* history: the statements each coroutine executed

region == <<body, prio, strategy, code, bands>>
scan == <<band, k, sweep, last>>
user == <<chan, ran>>
vars == <<region, state, poll, progress, allDone, pc, cur, blk, scan, user>>

Done(c) == state[c] = DONE_STATE

-----------------------------------------------------------------------------
(* build_priority_loop: the bands. *)

\* WakerExecutor's one-shot poll (build_oneshot_poll): the scan of the round-robin
\* loop without its progress flag, and a way out instead of the way back.
OneShot == strategy = "oneshot"

\* CooperativeExecutor::finalize_region.
Prioritised == ~OneShot /\ \E c \in Coros : prio[c] # NoPriority

\* priority.unwrap_or(u32::MAX), ties broken by the index: None is sorted as u32::MAX
\* is, whatever the doc says of coroutines without a priority.
Key(c) == IF prio[c] = NoPriority THEN MaxPriority ELSE prio[c]
Before(c, d) == Key(c) < Key(d) \/ (Key(c) = Key(d) /\ c < d)

\* The coroutines in sorted order.
Order == [n \in Coros |-> CHOOSE c \in Coros : Cardinality({d \in Coros : Before(d, c)}) = n - 1]

\* A band is a run of neighbours with the same priority, None being one.
Starts == {n \in Coros : n = 1 \/ prio[Order[n]] # prio[Order[n - 1]]}
Start(b) == CHOOSE n \in Starts \cup {N + 1} : Cardinality({m \in Starts : m < n}) = b - 1
BandsOf == [b \in 1 .. Cardinality(Starts) |-> SubSeq(Order, Start(b), Start(b + 1) - 1)]

Size(b) == Len(bands[b])
Member(b, i) == bands[b][i]

-----------------------------------------------------------------------------
TypeOK ==
    /\ body \in [Coros -> Seq(Statements)] /\ prio \in Priorities /\ strategy \in Strategies
    /\ \A c \in Coros : state[c] \in 0 .. Len(code.points[c]) \cup {DONE_STATE}
    /\ poll \in [Coros -> {"unset", "READY", "PENDING", "BLOCKED"}]
    /\ progress \in {0, 1} /\ allDone \in BOOLEAN
    /\ pc \in {"top", "check", "run", "after", "end", "exit", "pending", "deadlock"}
    /\ cur \in Coros /\ blk \in 0 .. Len(code.blocks) /\ (pc = "run") = (blk # 0)
    /\ band \in 1 .. N /\ k \in 1 .. N /\ sweep \in {0, 1}
    /\ last \in [1 .. N -> 0 .. N]
    /\ chan \in [Channels -> Nat]
    /\ \A c \in Coros : ran[c] \in Seq(DOMAIN body[c])

\* finish_region: every machine starts in state 0, then the executor.
Init ==
    /\ \E r \in Regions : body = r.body /\ code = Transform(r.cfg)
    /\ prio \in Priorities /\ strategy \in Strategies
    /\ OneShot => \A c \in Coros : prio[c] = NoPriority  \* not read
    /\ bands = BandsOf
    /\ state = [c \in Coros |-> 0]
    /\ poll = [c \in Coros |-> "unset"]
    /\ progress = 0 /\ allDone = FALSE
    /\ pc = "top" /\ cur = 1 /\ blk = 0
    /\ band = 1 /\ k = 1 /\ sweep = 0 /\ last = [b \in 1 .. N |-> 0]
    /\ chan = [q \in Channels |-> 0]
    /\ ran = [c \in Coros |-> << >>]

-----------------------------------------------------------------------------
(* A machine: the blocks that the transform made of a coroutine. *)

Dispatch(c) == pc' = "run" /\ cur' = c /\ blk' = code.dispatch[c]

\* What one statement does to the machine's locals and to the user's data.
Execute(m, s) ==
    CASE s.op = "state"    -> [m EXCEPT !.state = s.arg]
      [] s.op = "poll"     -> [m EXCEPT !.poll = s.arg]
      [] s.op = "progress" -> [m EXCEPT !.progress = s.arg]
      [] s.op \in {"Put", "ProducingSend"} ->
             [m EXCEPT !.chan[s.arg] = @ + 1, !.ran = Append(@, s.src)]
      [] s.op \in {"Recv", "GuardedRecv"} ->
             [m EXCEPT !.chan[s.arg] = @ - 1, !.ran = Append(@, s.src)]
      [] OTHER -> m

\* Where a terminator leads: 0 is out, to the code after the poll.
Target(t, m) ==
    CASE t.kind = "goto"   -> t.to
      [] t.kind = "branch" -> IF m.chan[t.on] > 0 THEN t.yes ELSE t.no
      [] t.kind = "switch" ->
             IF \E a \in t.arms : a[1] = m.state
             THEN (CHOOSE a \in t.arms : a[1] = m.state)[2] ELSE t.other
      [] t.kind = "leave"  -> 0

\* The machine runs one block.
RunBlock ==
    /\ pc = "run"
    /\ LET b == code.blocks[blk]
           m == FoldLeft(Execute, [state |-> state[cur], poll |-> poll[cur], progress |-> progress,
                                   chan |-> chan, ran |-> ran[cur]], b.stmts)
       IN  /\ state' = [state EXCEPT ![cur] = m.state]
           /\ poll' = [poll EXCEPT ![cur] = m.poll]
           /\ progress' = m.progress
           /\ chan' = m.chan
           /\ ran' = [ran EXCEPT ![cur] = m.ran]
           /\ blk' = Target(b.term, m)
    /\ pc' = IF blk' = 0 THEN "after" ELSE "run"
    /\ UNCHANGED <<region, allDone, cur, scan>>

-----------------------------------------------------------------------------
(* build_cooperative_loop and build_oneshot_poll. *)

\* Mutant of LoopTop: all_done is not set again before the scan.
LoopTopKeepsAllDone ==
    /\ pc = "top" /\ ~Prioritised
    /\ progress' = IF OneShot THEN progress ELSE 0
    /\ cur' = 1 /\ pc' = "check"
    /\ UNCHANGED <<region, state, poll, allDone, blk, scan, user>>

\* The top of a scan.
LoopTop ==
    /\ pc = "top" /\ ~Prioritised
    /\ allDone' = TRUE
    /\ progress' = IF OneShot THEN progress ELSE 0
    /\ cur' = 1 /\ pc' = "check"
    /\ UNCHANGED <<region, state, poll, blk, scan, user>>

\* A done coroutine goes straight to the code after the poll.
Check ==
    /\ pc = "check" /\ ~Prioritised
    /\ IF Done(cur) THEN pc' = "after" /\ UNCHANGED <<cur, blk>> ELSE Dispatch(cur)
    /\ UNCHANGED <<region, state, poll, progress, allDone, scan, user>>

\* Mutant of AfterPoll: a shut guard does not keep the loop from exiting.
AfterPollBlockedIsDone ==
    /\ pc = "after" /\ ~Prioritised
    /\ state' = IF poll[cur] = "READY" THEN [state EXCEPT ![cur] = DONE_STATE] ELSE state
    /\ allDone' = (allDone /\ poll[cur] # "PENDING")
    /\ progress' = IF ~OneShot /\ poll[cur] # "BLOCKED" THEN 1 ELSE progress
    /\ IF cur < N THEN cur' = cur + 1 /\ pc' = "check" ELSE pc' = "end" /\ UNCHANGED cur
    /\ UNCHANGED <<region, poll, blk, scan, user>>

\* The poll result is latched: READY is DONE and progress, PENDING is progress,
\* and both other results keep the loop going.
AfterPoll ==
    /\ pc = "after" /\ ~Prioritised
    /\ state' = IF poll[cur] = "READY" THEN [state EXCEPT ![cur] = DONE_STATE] ELSE state
    /\ allDone' = (allDone /\ poll[cur] = "READY")
    /\ progress' = IF ~OneShot /\ poll[cur] # "BLOCKED" THEN 1 ELSE progress
    /\ IF cur < N THEN cur' = cur + 1 /\ pc' = "check" ELSE pc' = "end" /\ UNCHANGED cur
    /\ UNCHANGED <<region, poll, blk, scan, user>>

\* Nobody ran: the host's report, or another scan.
Stuck == IF Reports THEN "deadlock" ELSE "top"

LoopEnd ==
    /\ pc = "end" /\ ~Prioritised
    /\ pc' = IF allDone THEN "exit"
             ELSE IF OneShot THEN "pending"
             ELSE IF progress = 1 THEN "top" ELSE Stuck
    /\ UNCHANGED <<region, state, poll, progress, allDone, cur, blk, scan, user>>

\* The host comes back after Pending with the locals it persisted.
Reenter ==
    /\ pc = "pending"
    /\ pc' = "top"
    /\ UNCHANGED <<region, state, poll, progress, allDone, cur, blk, scan, user>>

-----------------------------------------------------------------------------
(* build_priority_loop. *)

\* Mutant of PriorityTop: the progress of the scan before is kept.
PriorityTopKeepsProgress ==
    /\ pc = "top" /\ Prioritised
    /\ band' = 1 /\ k' = 1 /\ sweep' = 0
    /\ pc' = "check"
    /\ UNCHANGED <<region, state, poll, progress, allDone, cur, blk, last, user>>

\* The top of the priority scan.
PriorityTop ==
    /\ pc = "top" /\ Prioritised
    /\ progress' = 0
    /\ band' = 1 /\ k' = 1 /\ sweep' = 0
    /\ pc' = "check"
    /\ UNCHANGED <<region, state, poll, allDone, cur, blk, last, user>>

\* The scan site after this one: the rest of the sweep, the second sweep, the
\* next band, the check that all are done.
Advance ==
    \/ /\ k < Size(band)
       /\ k' = k + 1 /\ pc' = "check" /\ UNCHANGED <<band, sweep>>
    \/ /\ k = Size(band) /\ sweep = 0
       /\ k' = 1 /\ sweep' = 1 /\ pc' = "check" /\ UNCHANGED band
    \/ /\ k = Size(band) /\ sweep = 1 /\ band < Len(bands)
       /\ band' = band + 1 /\ k' = 1 /\ sweep' = 0 /\ pc' = "check"
    \/ /\ k = Size(band) /\ sweep = 1 /\ band = Len(bands)
       /\ pc' = "end" /\ UNCHANGED <<band, k, sweep>>

\* Mutant of Polls: every sweep looks at every member.
PollsAlways == TRUE

\* The first sweep polls the members after the one that ran last, the second
\* sweep the others.
Polls == (sweep = 0) = (last[band] < k)

Scan ==
    /\ pc = "check" /\ Prioritised
    /\ IF Polls /\ ~Done(Member(band, k))
       THEN Dispatch(Member(band, k)) /\ UNCHANGED <<band, k, sweep>>
       ELSE Advance /\ UNCHANGED <<cur, blk>>
    /\ UNCHANGED <<region, state, poll, progress, allDone, last, user>>

\* Mutant of AfterPriorityPoll: the scan goes on after a coroutine ran.
AfterPriorityPollGoesOn ==
    /\ pc = "after" /\ Prioritised
    /\ last' = IF poll[cur] = "BLOCKED" THEN last ELSE [last EXCEPT ![band] = k]
    /\ Advance
    /\ UNCHANGED <<region, state, poll, progress, allDone, cur, blk, user>>

\* Blocked passes the turn on; anything else restarts from the top band.
AfterPriorityPoll ==
    /\ pc = "after" /\ Prioritised
    /\ IF poll[cur] = "BLOCKED"
       THEN Advance /\ UNCHANGED last
       ELSE last' = [last EXCEPT ![band] = k] /\ pc' = "top" /\ UNCHANGED <<band, k, sweep>>
    /\ UNCHANGED <<region, state, poll, progress, allDone, cur, blk, user>>

\* Mutant of PriorityEnd: a guard that passed is not counted as progress.
PriorityEndIgnoresProgress ==
    /\ pc = "end" /\ Prioritised
    /\ pc' = IF \A c \in Coros : Done(c) THEN "exit" ELSE Stuck
    /\ UNCHANGED <<region, state, poll, progress, allDone, cur, blk, scan, user>>

PriorityEnd ==
    /\ pc = "end" /\ Prioritised
    /\ pc' = IF \A c \in Coros : Done(c) THEN "exit"
             ELSE IF progress = 1 THEN "top" ELSE Stuck
    /\ UNCHANGED <<region, state, poll, progress, allDone, cur, blk, scan, user>>

-----------------------------------------------------------------------------
RoundRobin == LoopTop \/ Check \/ AfterPoll \/ LoopEnd \/ Reenter
Priority == PriorityTop \/ Scan \/ AfterPriorityPoll \/ PriorityEnd
Next == RunBlock \/ RoundRobin \/ Priority

Spec == Init /\ [][Next]_vars

\* The emitted code runs, and a host that polls again does so in the end.
FairSpec == Spec /\ WF_vars(Next)

-----------------------------------------------------------------------------
(* Properties. *)

\* Where coroutine c goes on, as a place in its source: behind a yield or a send,
\* and at a guard.
Entry(c) ==
    IF Done(c) THEN Len(body[c]) + 1
    ELSE IF state[c] = 0 THEN 1
    ELSE LET i == code.points[c][state[c]][3].src
         IN  IF body[c][i][1] = "GuardedRecv" THEN i ELSE i + 1

\* Coroutine c would only find its guard shut.
Shut(c) ==
    /\ Entry(c) <= Len(body[c])
    /\ body[c][Entry(c)][1] = "GuardedRecv"
    /\ chan[body[c][Entry(c)][2]] = 0
Idle(c) == Done(c) \/ Shut(c)

\* The state machine is the coroutine: between two polls a coroutine has executed
\* the statements of its source before the place where its state resumes it,
\* each once and in their order, wherever the transform moved them.
EachStatementOnce ==
    \A c \in Coros : ~(pc = "run" /\ cur = c) =>
        /\ Range(ran[c]) = {i \in 1 .. Entry(c) - 1 : body[c][i][1] # "Yield"}
        /\ \A m, n \in DOMAIN ran[c] : m < n => ran[c][m] < ran[c][n]

\* The region is left only when every coroutine is done.
ExitMeansDone == pc = "exit" => \A c \in Coros : Done(c)

\* No poll of a coroutine with source s runs a statement before it finds its first
\* guard shut: it would be BLOCKED, which is to say that it "suspended without running
\* anything" (lib.rs, POLL_BLOCKED), and the executors would not see what it made ready.
Seen(s) ==
    \A j \in DOMAIN s, i \in 0 .. Len(s) :
        /\ s[j][1] = "GuardedRecv" /\ i < j - 1
        /\ \A n \in i + 1 .. j - 1 : s[n][1] = "Put"
        => i # 0 /\ s[i][1] \in {"Put", "GuardedRecv"}
AllSeen == \A c \in Coros : Seen(body[c])

\* emit_deadlock: reported only when some coroutine is not done and none will
\* ever run.  A poll that passed a guard and then blocked is not that.
DeadlockIsReal ==
    pc = "deadlock" /\ AllSeen => (\A c \in Coros : Idle(c)) /\ \E c \in Coros : ~Done(c)

\* build_priority_loop gives coroutine c a turn.
GetsTurn(c) == Prioritised /\ pc = "check" /\ Dispatch(c)

\* Coroutine c gets a turn in a scan that has not yet passed a guard.  (A coroutine
\* that passes a guard, makes something available and then blocks passes the turn on,
\* past those it made ready.)
GetsFreshTurn(c) == GetsTurn(c) /\ progress = 0 /\ AllSeen

\* build_priority_loop: "Lower priorities run first; coroutines without one come after
\* all that have one.  The lowest ready band always runs next."  NoPriority is greater
\* than every priority.
DocumentedOrder ==
    [][\A c \in Coros : GetsFreshTurn(c) =>
           \A d \in Coros : prio[d] < prio[c] => Idle(d)]_vars

\* No coroutine has priority u32::MAX, or each has a priority.  Where this is false the
\* sort does not tell a coroutine without a priority from one with the greatest.
MaxIsUnused == \A c, d \in Coros : ~(prio[c] = MaxPriority /\ prio[d] = NoPriority)

\* The documented order, where u32::MAX and None do not meet.
StrictPriority ==
    [][\A c \in Coros : GetsFreshTurn(c) /\ MaxIsUnused =>
           \A d \in Coros : prio[d] < prio[c] => Idle(d)]_vars

\* build_priority_loop: "equal priorities take turns", where u32::MAX and None do not
\* meet.  The member that ran last gets another turn only when no other coroutine of
\* its priority wants it.
TakesTurns ==
    [][\A c \in Coros : GetsFreshTurn(c) /\ MaxIsUnused /\ k = last[band] =>
           \A d \in Coros \ {c} : prio[d] = prio[c] => Idle(d)]_vars

Hopeless == (\A c \in Coros : Idle(c)) /\ (\E c \in Coros : ~Done(c)) /\ pc = "top"

\* Every region is left, unless its coroutines wait for each other for ever.
RegionEnds == AllSeen => <>(pc = "exit" \/ Hopeless)

\* ... and then a priority region reports it.
PriorityDeadlockReported == (Hopeless /\ Prioritised) ~> pc = "deadlock"

\* cfg.rs: emit_deadlock is reached "when a scan of a region's coroutines ran
\* none and some are not done", in every region with a looping executor.
DeadlockReported == (Hopeless /\ ~OneShot) ~> pc = "deadlock"
=============================================================================
