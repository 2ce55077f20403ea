# krio in TLA+

TLA+ models of [krio](../src/README.md), a family of coroutine crates in Rust, with
the TLC configurations that check them and TLAPS proofs about every component that is
modelled. `PROJECT.json` maps every definition to the source lines it models.

## The system

| Part | State it keeps | Operations | What is hard |
|---|---|---|---|
| `krio-parallel/safepoint.rs` and the run loop in `lib.rs` | a state word (generation and pending bit), the count of stopped agents, one park slot per agent, `stopping` | `request`, `enter`, `await_all`, `release`, `stop_the_world`, `request_safepoint`/`resume_world`, `run`, `drive_once`, `shutdown` | agents arrive, leave, sleep and shut down in any order; two words and a slot are read and written without a lock |
| `krio-parallel/deque.rs` | `top`, `bottom`, a ring of plain slots | `push`, `pop`, `steal`, drop | owner and thieves meet on the last item; a slot is read before it is claimed; indices wrap |
| `krio-parallel/lib.rs`, `injector.rs`, `parked.rs` | deques, injector, parked tasks, early wakes, park slots | `spawn`, `spawn_on`, `next_job`, `wake`, `notify_one`, `run`, `shutdown` | a wake before its park, work pushed while an agent falls asleep, a full deque |
| `krio-stackless/lib.rs` | the consumer's CFG, while it is cut | `find_regions`, `find_suspension_points`, `transform_region`, `build_state_machine` | places found before the first cut and used after many, in blocks that coroutines and markers share |
| `krio-stackless/executor.rs` | per coroutine a state and a poll result, a shared progress flag, turn locals | the cooperative, priority and one-shot executors over the emitted machines | guards that block half-way, turns, deadlock detection by a flag |
| `krio-async` | the blocks being cut, the layout, the slot table | `transform_to_state_machine`, `validate_layout` | several cuts in one block, coordinates before and after a cut, values that must survive |
| `krio-fiber` | per fiber its flags and slots, back pointers, two thread-locals | `resume`, `resume_with`, `yield_now`, `yield_value`, `take_*`, panic, drop | nested resumes; pointers kept across a switch while the host moves the fiber |
| `krio-fiber/stack.rs` | the thread's pool of mappings | `new`, drop, the pool's thread-local destructor | sizes that differ, a full pool, fibers that outlive the pool |
| `krio-preempt`, `krio-runtime` | a list of fibers / tasks | `spawn`, `tick`, `run_to_completion` | `swap_remove` and a growing Vec move fibers; deadlines; a tick unwound by a panic |
| `krio-wasm` | — | `park`/`unpark` on shared memory, agents, clock | a wait without a timeout needs every wake |

How they interact: agents of a cluster share the deques, the injector, the parked
table and the safepoint, and call `Park` (spinning, or a futex on wasm) to wait. A
task's `step` runs inside `drive_once` and may itself poll the safepoint, spawn or
ask for a stop. `krio-preempt` owns the fibers it resumes. The two compile-time
crates hand a host a changed control-flow graph, and what matters is what that graph
does when it runs.

What makes each part correct: a collector has the world to itself, and every stop
and shutdown ends (safepoint); every item is taken exactly once (deque); no job and
no wake is lost and nobody sleeps on work (cluster); each statement runs once, in
order, with the promised turns (stackless); the state machine does what the function
did (async); the thread-locals name the fiber that runs, its outcome and its input
reach it, and its stack is its own (fiber); a tick removes the finished fibers and no
others (schedulers). `PROJECT.json` lists under `hazards` where each of these could go wrong,
at its line, and the property that would tell.

## Modules

* **Safepoint** models the barrier, with `run`, `drive_once`, the requesters and
  `shutdown` around it. One atomic access is one step; the three kinds of merges are
  argued in the header. The loops over the agents' slots are not merged: they visit one
  slot per step. `pc[a]` is where agent `a` is; its locals are `site`, `snap` and `ran`;
  `asleep` are the agents inside `Park::park`, which word each one waits on following
  from its `pc`. `SpuriousWakes` tells `SpinPark` from `WasmPark::new`. Which of the
  agents in `Main` are driven as main agents, `Init` chooses; the host of one goes on
  driving it between its polls of `world_is_stopped` (`asking`). Which job a step runs
  is left open.
  **StopTheWorld** is what the barrier promises a collector: steps, collections and
  a shutdown, without agents' locations, counts or parking.
* **Deque** models `push`, `pop`, `steal` and drop at the grain of one access to
  `top` or `bottom`. A slot is plain memory: it is torn while it is written.
  **WorkBag** is what the deque promises, with every operation atomic.
* **Cluster** models the scheduler on top of atomic deques: `next_job`'s three
  sources, a step's four outcomes, the parked table with its early wakes, the
  sleep protocol and shutdown. **MCCluster** gives the jobs.
* **Surgery** is the transform of `krio-stackless`, as operators on a CFG (a sequence
  of blocks): discovery of the region, its coroutines and their suspension points
  (`FindRegions`, `FindSuspensionPoints`), the two cuts, the dispatch
  (`BuildStateMachine`), one coroutine after the other (`AddMachines`), the split behind
  `region_end` (`RegionExit`), the erased markers and the first coroutine's move out of
  the block of `region_begin` (`FinishRegion`). `LaidOut` is what the transform needs of the consumer's IR builder
  (external), the contract in the crate's README made exact: gotos link the blocks of a
  coroutine from its begin marker to its end marker, the blocks hold markers and the
  statements of the body in order, a suspension point is the last interesting statement
  of its block, coroutines share no block with each other or with `region_end`, and only
  the first one may begin in the block of `region_begin`.
* **Executor** runs the transformed CFG: a poll dispatches on the machine's state and
  then runs one block after the other until the machine leaves, under one of three
  executors. `ran[c]` records which source statements ran. Bodies are made of yields,
  guarded receives, producing sends and plain statements; `Regions` are bodies with their
  layouts. **MCExecutor** gives bodies, priorities and two layouts: `shared` has the
  first coroutine in the block of `region_begin` and every point last in its block;
  `spread` has blocks of their own for the markers, every point first in its block, and
  the exit block of a body numbered before the rest of it.
* **Stack** models mappings and the thread's pool of them. **Fiber** extends it with
  fibers as values at places in memory: a move copies the fields and leaves the old
  ones behind. **Scheduler** extends Fiber with the host that uses fibers by hand or
  through `TimeSliceScheduler` or `RoundRobin`, tick by tick, and with the exit of the
  thread. **MCScheduler** adds symmetry.
* **StateMachine** models `krio-async`: the scan, one step per split, one step per
  captures lift, `validate_layout` as an operator, and the host that lowers and polls
  the layout (marked external: the repository has no host, only what the docs of
  `BlockKind` and `StateMachineLayout` ask of one; where they leave a choice, to go
  on to the resume check or return first, both are modelled). **AsyncFn** is the
  function before it was cut. **MCStateMachine** enumerates small functions.
* **SafepointProofs**, **DequeProofs**, **ClusterProofs**, **SchedulerProofs** (with
  Stack and Fiber), **StateMachineProofs** (with the refinement of AsyncFn),
  **SurgeryProofs** and **ExecutorProofs** hold the theorems about the modules they are
  named after, **QueueLemmas** what they share: lemmas about sequences used as queues
  and as sets, and induction over numbers.

Operators called a mutant in their comment are not part of the model: each is a
plausible bug, and the property `PROJECT.json` pairs it with fails under it.

## Runs

| Run | Instance | Shows |
|---|---|---|
| `sp_safety` | 3 agents, one of them a worker or a main agent, 2 requesters, state word modulo 4, futex parking, shutdown | `stopped` is exact, a collector is alone, rounds do not mix; the barrier implements StopTheWorld |
| `sp_live` | 3 workers, 1 requester, state word modulo 2, spinning park, shutdown | a stop happens or the cluster is stopping; the barrier empties; every `run` returns |
| `deque` | capacity 2, 2 thieves, 5 pushes, 8 index values, starting at 0 and at the wrap | implements WorkBag, exactly once |
| `cluster` | 2 agents, 3 jobs, 1 host, capacity 2 | no job or wake lost, no sleeper on work, jobs finish |
| `executor` | 3 coroutines, 7 bodies, 2 layouts, 6 priority assignments, both strategies | the transformed region runs every statement once and in order, exits when all are done, keeps turns and priorities where `u32::MAX` and no priority do not meet; deadlock reports of the priority loop |
| `fiber` | 2 fibers, 3 places, 3 mappings, 2 stack sizes, a pool of 2, 2 values, 2 yields, both schedulers | thread-locals, outcomes, inputs; one owner per mapping, stacks large enough; ticks remove the finished; slices |
| `state_machine` | every block of 4 statements with a cut, every pair of blocks of up to 2; exact, padded and doubled liveness; 1 reserved slot | implements AsyncFn; slots kept apart; the audit reports the duplicates |

Five runs end in a violation; each is a disagreement between the code and what a
comment or a doc says of it (`findings` quotes both):

| Run | What TLC shows |
|---|---|
| `sp_sleeper` | with `WasmPark::new`, an agent that re-checked before the request and sleeps after the unpark is never woken: its slot did not change, and the re-check does not look at the safepoint |
| `sp_two_requesters` | a requester still draining its stop and the next requester wait for each other |
| `executor_deadlock` | in the cooperative loop a finished coroutine counts as progress on every scan, so a deadlock of the rest is not reported |
| `executor_priority` | the priority loop sorts a coroutine without a priority with those of priority `u32::MAX`, by index, and runs it before one of them |
| `fiber_moved` | a fiber moved while suspended in `yield_value` reads its input from its old place |

### Bounds

* Safepoint: three agents are the fewest with a requester, one that has arrived and
  one that has not. In `sp_safety` agent 0 is a worker or a main agent: with three
  workers, both requesters can get to their `f`, so that two collectors would meet; with
  a main agent, a host that drives between its polls competes with a worker for the
  request. Modulo 4 lets the state word wrap after two rounds, which is
  more than any agent can stay behind; the proofs hold for every even modulus. The
  liveness run uses modulo 2, so that every round reuses the same values.
* Deque: capacity 2 makes full, one-item and empty meet; 8 index values and five
  pushes cross the wrap. The run does not go all the way round the index space
  (`MaxPushes < 2 * Half`): a thief asleep for 2^64 operations is out of scope.
* Cluster: two agents have each other to steal from; three jobs overfill a deque of
  two. `Steps` bounds how many steps yield or wait, `Strays` how many wakes come for
  nothing.
* Executor: bodies end, so the runs are finite; the bodies are chosen so that guards
  pass, block, and pass and then block, with sends before and after them, and so that
  a coroutine may have no statement or no suspension point, which has its own form of
  machine. With three coroutines a band of two competes with another band. One body puts
  a value before its first guard: a poll of it runs something and is BLOCKED all the same
  (see Limits, "Unseen progress").
* Fiber and Scheduler: two fibers resume each other, and swap_remove moves one when
  the other is removed; the third place is where a move goes. `Requests` are two sizes
  that round to one and two pages. Three mappings and a pool of two let the pool be
  empty, full, and hold both sizes in either order. `MaxYields` bounds yields over all
  fibers: two are enough for a yield, a move and a second round.
* StateMachine: four statements hold a cut, a definition and a use on both sides of a
  second cut; the block may repeat, so values meet their own slots again.

### Fairness

* Safepoint: each agent's thread keeps running (weak fairness of its steps), and a
  spinning `park` returns. A step that keeps asking for stops returns in the end
  (strong fairness, as each request leaves the step): krio's contract for tasks.
  Nobody has to ask for a stop or shut down.
* Cluster: threads keep running and a job's event fires in the end. No park has to
  return by itself, and a thief may lose every race.
* Executor: the emitted code keeps running, and a host that got Pending polls again.

Deque, Fiber, Scheduler and StateMachine are checked for safety only.

## Proofs

Each module of proofs has one inductive invariant, a conjunction of named parts, and
shows part by part that every action preserves it; the theorems follow from it.
"Assumes" names the `ASSUME`s on the constants, which TLC evaluates in the runs. Every
safety invariant and every action property that a passing run checks is a theorem.

### The barrier: SafepointProofs

For every finite set of agents, every choice of main agents and requesters, both
parkers and every even modulus of the state word. Assumes `AgentsAssumption`,
`AgentIdAssumption` (agents are numbers, the order in which the loops visit them),
`ModulusAssumption`, `SwitchAssumption`.

* `TypeCorrect`, `CountCorrect`: `TypeOK` and `StoppedIsCount`. The count is inductive
  with the types; only the fetch_add and the fetch_sub touch it (`CountedStable`).
* `RoundCorrect`: `RoundInv`, the inductive invariant. That the world is stopped
  while `f` runs is not inductive by itself: one must know that an agent about to
  add itself saw the round that is pending now, or that the round it saw was
  released and the drain will wait for it (`NoStaleJoin`, `LeftoverIsDrained`), and
  that only one agent owns the pending round. Then `stopped >= Others` means that
  everybody else is really inside (`EveryoneIsHere`), and an empty count that nobody
  is left over from the last round (`EmptyBarrier`).
* `WorldStoppedCorrect` and `OneCollectorCorrect` follow.
* `Refinement`: the barrier implements `StopTheWorld`, where `mutating` are the agents
  inside a step, `collecting` those inside their `f`, and `over` is `stopping`. Every
  action is a step of it or invisible (`RefinesStep`): an agent that changes its
  location enters or leaves a step, or does neither (`MoveOne`: by `RoundInv` it is
  held at the barrier while somebody else's `f` runs), and the others only wake or are
  released (`Invisible`). A collection begins when the count is full, and by
  `StoppedIsCount` whoever reads a full count is the only one outside
  (`AloneWhenArrived`). The window is claimed until a shutdown
  (`~stopping`), which ends it while `f` runs (see Limits).

### The deque: DequeProofs

For every set of thieves, every capacity that divides the range of the indices, every
width of the indices and place where they start, and every number of pushes that does
not go round the index space (2^32 pushes where a usize has 32 bits, as on wasm32, which
`deque.rs` calls minutes away; a thief would have to sleep through all of them). Assumes `CapacityAssumption`: as in the code the capacity
is a power of two (here only: at least 2 and a divisor of `Half`, which is half the range
of a usize) and smaller than `Half`, so that the sign of a wrapped difference orders two
indices.

* `DequeInv` measures every index as a distance from `top` (`Off`), so that the wrapped
  comparisons of the code become comparisons of small numbers (`Gap`). The part that
  matters is `ThiefInv`, of a thief that has read a slot and not yet claimed it: if `top` is
  still where the thief loaded it, there is an item in front of it and it is the one it
  read, since a push into that slot needs the deque to be full. `Reach` bounds how far
  `top` can have gone past a sleeping thief: it does not come round to the same value.
* `Effect`: every step takes the oldest or the newest item, adds one, drops the rest, or
  leaves the items alone. From the invariant and the effects follow `ThiefCorrect`
  (`ThiefHoldsTop`), `OnceCorrect` (`ExactlyOnce`) and the refinement of WorkBag,
  `DequeRefines` (`Linearizable`), whose linearisation points are the effects.

### The cluster: ClusterProofs

For every number of agents, jobs and hosts, every capacity, and any bound on
yields and strays. Assumes `ClusterAssumption` (agents are numbered, hosts are not agents)
and `NoneAssumption`.

* `JobPlaces` (`JobInOnePlace`): a step moves at most one job, from one place to one other
  (`Moved`). `WakesFound` (`ParkedIsWaiting`) needs `WaitInv`: a job about to be parked
  waits, or its wake is there already. `EarlyWakesBounded` (`EarlyWakesAreClaimed`) counts the
  wakes that no parked job and none on its way there will claim: each cost a stray
  (`StrayInv`).
* `NobodySleeps` (`NobodySleepsOnWork`): an agent is blind to a queue from where its re-check
  has passed that queue until it wakes (`Blind`). `SleepInv`: if everybody is blind to a queue
  with work, a host is about to notify; agents that push are awake themselves.
  `ShutdownReachesAll` (`ShutdownLeavesNoSleeper`) is the same argument with `StopInv`: the
  scan of the slots is still to come to an agent blind to `stopping`.

### Fibers and schedulers: SchedulerProofs

For every number of fibers, places, mappings, sizes and page sizes. Assumes
`StackAssumption`, `FiberAssumption` (there are finitely many fibers).

* `StackInv`: each mapping has one owner. Drop when the pool is full, reuse of a mapping that
  is large enough, and the pool's own end keep it. `StacksAreOwnedOnce` (`MappedOnce`) and
  the action property `StacksFit` (`StackFits`: rounding up to pages loses nothing).
* `FiberInv` describes the stack of nested resumes: the thread-locals name its top, the saved
  values its other frames; a fiber in a call has its back pointer to the place where it is, is
  in one call only, and does not move before that call returns (`Calls`). `ThreadLocalsAreRight`
  (`ActiveIsRunning`), `FatesAreRight` (`FateIsRecorded`), `InputsArrive`
  (`InputReachesYield`).
* `SchedInv` adds what a tick knows half-way: the positions it marked are, in order, those of
  the finished fibers it has been to (`Marked`), and only the fiber whose turn it is can be in
  a call (`Turns`). `swap_remove` from the last mark down then only moves fibers that are not
  marked: `TickRemovesTheFinished` (`RemovesTheFinished`), `SlicesAreOfTheTurn`
  (`SliceIsOfThisTurn`).

### The state machine: StateMachineProofs

For every set of functions, with any number of blocks, statements and locals, every
liveness report of `Reports`, and every number of reserved slots. Assumes
`FunctionsAssumption` (a function has an entry block and its terminators name blocks of it)
and `LocalsAssumption`.

* `SMInv` describes the transform at every turn of its two loops: the blocks not yet reached
  are whole, and the block the next site is in holds exactly what is behind the site before
  it (`CutInv`); every cut site has its state, its yield block and its resume block
  (`LayoutInv`); the sites lifted so far, and nothing else, are in the tables, with the live
  locals the report names (`TablesInv`); a slot belongs to one local and lies between the
  reserved ones and `next_slot` (`SlotsInv`). `RunInv` is the machine's part.
* `SlotsAreKeptApart` (`SlotsKeptApart`) and `TypeCorrect` follow, and `TheAuditIsRight`
  (`AuditFindsDuplicates`): on what the transform builds, `validate_layout`
  reports a duplicate exactly when the liveness names a local twice at one site, and never
  `EntryCountMismatch` or `SlotOutOfRange`.
* `AsyncRefinement` (`ImplementsFn`): the machine a host makes of the layout reads, in every
  use, what the function reads that was never cut. `SMInv` is not enough for it: it says
  which sites have a state, not which statements are behind one, nor what the registers
  hold. `RefInv` adds three things.
    * `CutOut`: every block the function had still starts with its own first statements, and
      the block behind a site goes on with the rest (`Pieces`); no block ends or resumes two
      sites (`Separate`); the layout names the resume block of each state, and exactly one
      kind per block it changed (`Named`). Every turn of the second loop keeps it
      (`YieldTurn`, `CallTurn`).
    * `Reported`: every local live across a site is in the host's report of it, as
      `Reports` asks.
    * `Agree`: where the function runs, its registers and the original's agree on every
      local live there (`LiveAt`); where it is suspended, the slots of its state hold what is
      live across the site; in the check block of a call, both do. A resume leaves the
      registers it does not load undefined, so agreement on all locals is no invariant:
      only liveness, solved along the edges of the blocks (`LiveInSolves`, `LiveBefore`,
      `LiveOverEdge`), says that nobody reads the difference.

  While the transform works the original stutters at its entry; afterwards each action of
  the machine is proved to be the action of AsyncFn at the mapped place
  (`DefRefines` ... `LeaveRefines`).

### The transform: SurgeryProofs

For every number of coroutines and every region of `Regions`, whatever its bodies, its
number of blocks and their order. Assumes `RegionAssumption`, whose part about regions is
the contract `LaidOut`.

What a CFG means here is its *roles*. A role (`Role`) says of a block whose machine it
belongs to and what has happened when the machine comes to it: it is the switch, `i`
statements of the source are behind it (`At`), a guard was found open behind `i` of them
(`Let`), the machine leaves in state `n` with poll result `p` (`Out`), or it has left
(`Exits`). `Piece` says that a block does what its role says and goes on to a block whose
role continues it, and `IsMachine` that all blocks of a coroutine are pieces and its switch
leads, in state `n`, to where the `n`-th point resumes.

* `TransformMakes`: for every region there is an assignment of roles under which what
  `Transform` leaves is a machine for every body. The proof follows the code.
    * Discovery lists every statement once, block by block, and a block of a coroutine has
      at most one suspension point, so the coordinates found before the first cut stay those
      of the block's text until its own cut (`PointReached`).
    * A cut keeps the invariant of the cuts: the blocks cut so far are fragments of the
      machine, the others hold the text the builder gave them (`CutPlainKeeps`, and for a
      guard that is first in its block or not `CutFirstKeeps`, `CutBehindKeeps`). Fragments
      may still have the entry as a jump target and start at an offset, which is what the
      end undoes.
    * `build_state_machine` adds the switch, the exit and the block that reports READY
      (`BuildMakes`), and leaves alone what is not the coroutine's (`OneMore`).
    * The markers are erased at the coordinates they had before the cuts. A cut may have
      moved other statements there, but a marker is never behind a suspension point in its
      block, so it is still where it was, or nothing is (`EraseKeeps`).
    * `region_exit` splits the block of `region_end`, which is no coroutine's, and adds a
      block that no machine goes to (`ExitStands`).
    * `finish_region` splits the head off, and the first coroutine's switch follows its entry
      to the new block if it began there (`FinishMakes`).
* The operators are folds over sequences of any length. The prover cannot instantiate the
  library's theorems on recursive definitions, since they take operators as parameters; but
  the sets of functions that solve such a recursion up to `i` can be named, and induction over
  numbers stated of a set (`Upwards`, from the well-foundedness of `<`) shows that there is
  one for every `i`. Each fold has a lemma that unfolds it: `WalkSteps`, `PointSteps`,
  `CutSteps`, `MachineSteps`, `EraseSteps`, and `ExecuteSteps` for the statements of a block.

### The executors: ExecutorProofs

For the same regions, all priorities up to any maximum, and both strategies.

* The inductive invariant is `IInv`: *some* roles satisfy `Inv`. The code never changes, so
  neither do the roles; `TransformMakes` gives them at the start. `Inv` says that a running
  machine is where its block's role says (`RunRole`: it has run exactly the first `i`
  statements), that a coroutine between two polls has run what its state says (`Resting`),
  what `all_done` means half-way through a scan (`Scanning`), and what a report of a deadlock
  and the choice of the next coroutine stand on: as long as a scan has made no progress,
  everyone it has passed is done or at a shut guard (`Quiet`).
* `Quiet` is why the safety invariants are not inductive by themselves. It needs that a poll
  that ends BLOCKED with the progress flag still 0 has changed nothing another coroutine
  looks at; of a machine that is `Unmoved`, the switch, a guard at its own state or the exit,
  the invariant says so block by block (`BlockKeeps`).
* `TypeCorrect` (`TypeOK`), `SourceIsRun` (`EachStatementOnce`), `NobodyIsLeft`
  (`ExitMeansDone`) and `ReportsAreTrue` (`DeadlockIsReal`) follow.
* `LowestBandFirst` and `EqualsTakeTurns` (`StrictPriority`, `TakesTurns`) are about the
  priorities of the source, not the keys of the sort, and have two hypotheses: the bodies
  are those `AllSeen` admits, and `u32::MAX` and no priority do not meet in the region
  (`MaxIsUnused`). Then the key orders coroutines as their priorities do (`KeyOrders`), and
  the bands are what `build_priority_loop` promises: every coroutine in one band, equals
  together and lower priorities first (`BandsSorted`, from a count of the smaller elements,
  `Ranks`). The rest is which sites the two sweeps of a band have passed (`Passed`).

### Only model-checked

* Liveness, everywhere: `StopHappens`, `BarrierEmpties`, `RunReturns`, `JobsFinish`,
  `RegionEnds`, `PriorityDeadlockReported`. It needs fairness and ENABLED, out of this
  prover's reach.
* The properties of the violation runs, which do not hold.

## Limits

* Memory is sequentially consistent. The acquire/release orderings and the fences of
  the deque are taken at their word.
* The stopped world lasts until a shutdown. `shutdown` releases a pending stop
  (`src/crates/krio-parallel/src/lib.rs:630`) without asking whether its `f` runs, and an
  agent that stopped inside a step goes on with it, although `stop_the_world` says that
  "while `f` runs, no other agent is inside `Task::step`" (`lib.rs:374`). `WorldStopped` and
  the refinement of StopTheWorld are therefore claimed only until then; without `~stopping`,
  TLC shows `WorldStopped` violated by two agents. `OneCollector` holds all the same.
* A host that calls `resume_world` before it has seen the world stopped is not modelled.
* Tasks, payloads and hosts are abstract: a step returns one of its outcomes, a
  channel is a number of values, a callee yields or is done.
* Regions have straight-line bodies and are not nested: `FindRegions` has the
  replacement of an outer region by an inner one, but no region of the run has one.
  The layouts have no statement behind `region_end`; `RegionExit` models the split there.
  `region_end` shares no block with a coroutine, and no suspension point a block with a
  marker behind it, as the builder's contract asks.
* `u32::MAX` as a priority. `build_priority_loop` sorts by `priority.unwrap_or(u32::MAX)`
  and the index (`executor.rs:265`), but cuts bands where the priority itself changes. Where
  a region has both a priority `u32::MAX` and a coroutine without any, one without may run
  first (`executor_priority`), and those without, cut into several bands, do not take turns.
  `StrictPriority` and `TakesTurns` are stated for the other regions; all six assignments of
  the run are checked for everything else.
* The audit and liveness. The docs of `validate_layout` (`krio-async`'s README, lines
  146-154, and `validate.rs:11-17`) say that it catches liveness that reports too much or too
  little; `validate.rs:32-34` calls correctness of the liveness out of scope. The transform
  loads at each site what it saves there (`lib.rs:620`), so `SaveWithoutLoad` and
  `LoadWithoutSave` cannot come up on a layout of its own. `AuditFindsDuplicates` claims
  nothing of them.
* Input that nobody took. After a plain `resume`, `yield_value` returns what the input slot
  holds, which may be the input of an earlier `resume_with` to a fiber that was at a
  `yield_now`; its documentation has `None` there (`fiber.rs:603`). The model does as the
  code does; `InputReachesYield` is about fibers woken by `resume_with`.
* Unseen progress. A poll that runs a statement and then finds its first guard shut leaves
  `POLL_BLOCKED` (`src/crates/krio-stackless/src/lib.rs:471`) without having set the progress
  flag, although the constant is documented as "suspended without running anything"
  (`lib.rs:129`) and `executor.rs` says that "a guard passed earlier in the poll set progress
  itself" (`executor.rs:134`). If that statement makes a coroutine ready that the same scan has
  already passed, the scan ends with a deadlock reported that is none. `Seen` names the bodies
  in which no poll does that, `AllSeen` the regions of such bodies; `DeadlockIsReal`,
  `StrictPriority`, `TakesTurns` and `RegionEnds` are stated for them. The run has other
  bodies too, and all the other properties hold for those; without `AllSeen`, TLC shows
  `DeadlockIsReal` violated: two coroutines are blocked, the third puts the value that the
  second waits for and then blocks.
* A scheduler is ticked from the host's stack, and not dropped with fibers in it.
  `run_to_completion` is tick after tick; the number of rounds it returns is not kept.
  Once the thread's pool is destroyed, only `New` and drop are taken.

Not modelled:

* the context-switch assembly, saved frames and raw contexts: register layouts, with
  no protocol to check;
* the observer: callbacks that neither keep nor change state;
* `cancel`, deadlines set by a host, names and ids of fibers: fields that the fiber's
  own code reads and krio does not act on; the suspender of targets without a context
  switch; heap stacks outside Unix, which have no pool;
* the wasm agents, clock and glue, and the browser demo: bindings and an example.

## Plan

1. *Done*: Safepoint with its proofs, over StopTheWorld; Deque over WorkBag; Cluster;
   Surgery and Executor; Stack, Fiber and Scheduler; StateMachine over AsyncFn.
2. *Done*: the proofs of every module that has state, with the refinements of
   StopTheWorld, WorkBag and AsyncFn, and of the transform that Executor runs.
3. Next: liveness of the barrier with a Main agent whose host polls (its safety is done),
   and of a shutdown during `await_all` with a futex; runs that show the limits of the
   stopped world under a shutdown, of the audit and of untaken input as violations; nested regions and loops in bodies; a migration
   through the injector, which `on_migrate` does not hear of.
