----------------------------- MODULE Safepoint -----------------------------
(***************************************************************************)
(* The stop-the-world barrier of krio-parallel, with everything that meets *)
(* at it: the worker loop `run`, the pass `drive_once`, a task that polls  *)
(* inside its step, the blocking requester `stop_the_world`, the requester *)
(* that may not block (`request_safepoint` / `world_is_stopped` /          *)
(* `resume_world`), and `shutdown`.                                        *)
(*                                                                         *)
(* One atomic access of the code is one step here.  Three simplifications: *)
(*   - a load followed by `park` on the value just loaded is one step      *)
(*     (`park` compares again before it sleeps, so a change in between     *)
(*     only sends the caller round the loop);                              *)
(*   - a store followed by the unpark of its word is one step (a sleeper   *)
(*     that compared before the store is woken, one that compares after it *)
(*     does not sleep);                                                    *)
(*   - the loads of one loop condition, with no write of the caller's      *)
(*     between them, and an agent's store to its own slot followed by its  *)
(*     load of `stopping`, are one step.                                   *)
(* The loops over all the agents' slots are not merged: each slot is a     *)
(* step, in the order of the agents.                                       *)
(* Whether an agent is a worker or a main agent is the host's choice, made *)
(* before it starts them: Init takes any of the choices.                   *)
(* Which job a step runs is abstracted away: `next_job` and `has_work` may *)
(* say either thing.  Cluster.tla has the jobs.                            *)
(***************************************************************************)
EXTENDS Integers, FiniteSets

CONSTANTS
    Agents,        \* the agents of the cluster
    Main,          \* the agents whose host may drive them as main agents
    Requesters,    \* the agents that ask for stops
    Modulus,       \* 2^32 in the code: `state` is an AtomicU32 that wraps
    SpuriousWakes, \* TRUE: SpinPark, every park returns; FALSE: WasmPark::new
    MayShutdown    \* whether some host thread calls `shutdown`

ASSUME AgentsAssumption ==
    /\ IsFiniteSet(Agents)
    /\ Main \subseteq Agents
    /\ Requesters \subseteq Agents

\* AgentId is a number: the order in which the loops visit the agents.
ASSUME AgentIdAssumption == Agents \subseteq Nat

ASSUME ModulusAssumption ==
    /\ Modulus \in Nat \ {0}
    /\ Modulus % 2 = 0

ASSUME SwitchAssumption ==
    /\ SpuriousWakes \in BOOLEAN
    /\ MayShutdown \in BOOLEAN

VARIABLES
    state,     \* Safepoint::state, odd when a stop is pending
    stopped,   \* Safepoint::stopped, the agents counted at the barrier
    stopping,  \* Cluster::stopping
    slot,      \* Agent::park_state
    pc,        \* where each agent is
    site,      \* from where the agent called `enter`; "top" outside it
    snap,      \* the local `state` of `enter`; 0 outside it
    ran,       \* the local `ran > 0` of `drive_once`
    asleep,    \* the agents inside `Park::park`
    shutter,   \* where the thread that calls `shutdown` is
    main,      \* the agents driven with AgentRole::Main (they may not block)
    asking,    \* the main agents whose host polls world_is_stopped
    unvisited, \* by requester, the agents it has yet to unpark
    unnotified \* the agents `shutdown` has yet to notify

\* What the steps of `run`, `drive_once` and `enter` leave alone.
hosts == <<main, asking, unvisited, unnotified>>

vars == <<state, stopped, stopping, slot, pc, site, snap, ran, asleep, shutter,
          main, asking, unvisited, unnotified>>

-----------------------------------------------------------------------------
(* Locations. *)

Workers == Agents \ main

\* Between fetch_add and fetch_sub of `enter`: counted in `stopped`.
CountedPC == {"enter_wait", "enter_sub"}

\* In `stop_the_world` (or its unblocking twin) with the request won and the
\* release not yet made.
OwnerPC == {"wake", "await", "f", "release"}

\* Inside `Task::step`, touching the host's heap.
SteppingPC == {"step"}

AllPC == {"host", "top", "drive", "next", "stepped", "between", "enter",
          "enter_add", "publish", "recheck", "sleep", "woken", "request",
          "drain", "done"} \cup CountedPC \cup OwnerPC \cup SteppingPC

\* The word each parked agent waits on.
OnState   == {a \in asleep : pc[a] = "enter_wait"}
OnStopped == {a \in asleep : pc[a] \in {"await", "drain"}}
OnSlot    == {a \in asleep : pc[a] = "sleep"}

TypeOK ==
    /\ state \in 0 .. Modulus - 1
    /\ stopped \in 0 .. Cardinality(Agents)
    /\ stopping \in BOOLEAN
    /\ slot \in [Agents -> {"RUNNING", "PARKED", "NOTIFIED"}]
    /\ pc \in [Agents -> AllPC]
    /\ site \in [Agents -> {"top", "between", "step"}]
    /\ snap \in [Agents -> 0 .. Modulus - 1]
    /\ ran \in [Agents -> BOOLEAN]
    /\ asleep \subseteq Agents
    /\ shutter \in {"idle", "release", "slots", "done"}
    /\ main \subseteq Agents
    /\ asking \subseteq Agents
    /\ unvisited \in [Agents -> SUBSET Agents]
    /\ unnotified \subseteq Agents

Init ==
    /\ main \in SUBSET Main
    /\ state = 0
    /\ stopped = 0
    /\ stopping = FALSE
    /\ slot = [a \in Agents |-> "RUNNING"]
    /\ pc = [a \in Agents |-> IF a \in main THEN "host" ELSE "top"]
    /\ site = [a \in Agents |-> "top"]
    /\ snap = [a \in Agents |-> 0]
    /\ ran = [a \in Agents |-> FALSE]
    /\ asleep = {}
    /\ shutter = "idle"
    /\ asking = {}
    /\ unvisited = [a \in Agents |-> {}]
    /\ unnotified = {}

\* Safepoint::requested.
Pending == state % 2 = 1

\* Mutant of Bump: an increment that does not wrap.
BumpPastMax(s) == s + 1

\* wrapping_add(1) on the state word.
Bump(s) == IF s = Modulus - 1 THEN 0 ELSE s + 1

\* Agent a, awake, goes from one location to another.
At(a, here) == pc[a] = here /\ a \notin asleep
Goto(a, there) == pc' = [pc EXCEPT ![a] = there]

\* Park::park after its comparison succeeded.
Park(a) == asleep' = asleep \cup {a}

\* Park::unpark_all on the word the agents in `sleepers` wait on.
Unpark(sleepers) == asleep' = asleep \ sleepers

\* The next agent in a loop over the agents that has `left` yet to visit.
IsNext(b, left) == b \in left /\ \A c \in left : b <= c

-----------------------------------------------------------------------------
(* `run` and `drive_once`. *)

\* Mutant of Top: run goes straight to drive_once.
TopWithoutPoll(a) ==
    /\ At(a, "top")
    /\ Goto(a, "drive")
    /\ UNCHANGED <<state, stopped, stopping, slot, site, snap, ran, asleep, shutter, hosts>>

\* run: a pending stop comes before anything else.
Top(a) ==
    /\ At(a, "top")
    /\ IF Pending THEN Goto(a, "enter") /\ site' = [site EXCEPT ![a] = "top"]
                  ELSE Goto(a, "drive") /\ UNCHANGED site
    /\ UNCHANGED <<state, stopped, stopping, slot, snap, ran, asleep, shutter, hosts>>

\* The host of a main agent starts a pass, until one reports ShuttingDown.
HostDrives(a) ==
    /\ At(a, "host")
    /\ Goto(a, "drive")
    /\ UNCHANGED <<state, stopped, stopping, slot, site, snap, ran, asleep, shutter, hosts>>

\* drive_once: the check for shutdown.
DriveOnce(a) ==
    /\ At(a, "drive")
    /\ Goto(a, IF stopping THEN "done" ELSE "next")
    /\ ran' = [ran EXCEPT ![a] = FALSE]
    /\ UNCHANGED <<state, stopped, stopping, slot, site, snap, asleep, shutter, hosts>>

\* drive_once: next_job finds a job, and its step begins.
NextJob(a) ==
    /\ At(a, "next")
    /\ Goto(a, "step")
    /\ UNCHANGED <<state, stopped, stopping, slot, site, snap, ran, asleep, shutter, hosts>>

\* drive_once: next_job finds nothing; Drive::Ran or Drive::Idle.
NoJob(a) ==
    /\ At(a, "next")
    /\ Goto(a, IF a \in main THEN "host" ELSE IF ran[a] THEN "top" ELSE "publish")
    /\ ran' = [ran EXCEPT ![a] = FALSE]
    /\ UNCHANGED <<state, stopped, stopping, slot, site, snap, asleep, shutter, hosts>>

\* Task::step returns, and the job is dropped, parked or deposited.
StepReturns(a) ==
    /\ At(a, "step")
    /\ Goto(a, "stepped")
    /\ ran' = [ran EXCEPT ![a] = TRUE]
    /\ UNCHANGED <<state, stopped, stopping, slot, site, snap, asleep, shutter, hosts>>

\* A long step polls safepoint_requested() and calls enter_safepoint().
StepPolls(a) ==
    /\ At(a, "step")
    /\ a \in Workers
    /\ Pending
    /\ Goto(a, "enter")
    /\ site' = [site EXCEPT ![a] = "step"]
    /\ UNCHANGED <<state, stopped, stopping, slot, snap, ran, asleep, shutter, hosts>>

\* drive_once: shutdown is checked again after every step.
AfterStep(a) ==
    /\ At(a, "stepped")
    /\ Goto(a, IF stopping THEN "done" ELSE "between")
    /\ UNCHANGED <<state, stopped, stopping, slot, site, snap, ran, asleep, shutter, hosts>>

\* drive_once: `while requested { enter }` for a worker, `break` for a main
\* agent.
BetweenSteps(a) ==
    /\ At(a, "between")
    /\ IF ~Pending THEN Goto(a, "next") /\ UNCHANGED site
       ELSE IF a \in main THEN Goto(a, "host") /\ UNCHANGED site
       ELSE Goto(a, "enter") /\ site' = [site EXCEPT ![a] = "between"]
    /\ UNCHANGED <<state, stopped, stopping, slot, snap, ran, asleep, shutter, hosts>>

\* drive_once: the frame budget of a main agent runs out between two steps.
DeadlinePasses(a) ==
    /\ At(a, "between")
    /\ a \in main
    /\ ~Pending
    /\ Goto(a, "host")
    /\ UNCHANGED <<state, stopped, stopping, slot, site, snap, ran, asleep, shutter, hosts>>

\* run: publish the intent to sleep, or consume a notification.
Publish(a) ==
    /\ At(a, "publish")
    /\ IF slot[a] = "RUNNING"
       THEN slot' = [slot EXCEPT ![a] = "PARKED"] /\ Goto(a, "recheck")
       ELSE slot' = [slot EXCEPT ![a] = "RUNNING"] /\ Goto(a, "top")
    /\ UNCHANGED <<state, stopped, stopping, site, snap, ran, asleep, shutter, hosts>>

\* run: the re-check after PARKED sees the shutdown or a job.
RecheckStays(a) ==
    /\ At(a, "recheck")
    /\ slot' = [slot EXCEPT ![a] = "RUNNING"]
    /\ Goto(a, IF stopping THEN "done" ELSE "top")
    /\ UNCHANGED <<state, stopped, stopping, site, snap, ran, asleep, shutter, hosts>>

\* run: the re-check sees neither.
RecheckSleeps(a) ==
    /\ At(a, "recheck")
    /\ ~stopping
    /\ Goto(a, "sleep")
    /\ UNCHANGED <<state, stopped, stopping, slot, site, snap, ran, asleep, shutter, hosts>>

\* run: park(slot, PARKED), which returns at once if the slot has moved.
Sleep(a) ==
    /\ At(a, "sleep")
    /\ IF slot[a] = "PARKED" THEN Park(a) ELSE UNCHANGED asleep
    /\ Goto(a, IF slot[a] = "PARKED" THEN "sleep" ELSE "woken")
    /\ UNCHANGED <<state, stopped, stopping, slot, site, snap, ran, shutter, hosts>>

\* run: back from park.
Woken(a) ==
    /\ At(a, "woken")
    /\ slot' = [slot EXCEPT ![a] = "RUNNING"]
    /\ Goto(a, IF stopping THEN "done" ELSE "top")
    /\ UNCHANGED <<state, stopped, stopping, site, snap, ran, asleep, shutter, hosts>>

\* notify_one, by whoever spawned, woke or yielded a job: PARKED -> NOTIFIED
\* and unpark.  Which parked agent comes first does not matter here.
NotifyOne(a) ==
    /\ slot[a] = "PARKED"
    /\ slot' = [slot EXCEPT ![a] = "NOTIFIED"]
    /\ Unpark(OnSlot \cap {a})
    /\ pc' = IF a \in OnSlot THEN [pc EXCEPT ![a] = "woken"] ELSE pc
    /\ UNCHANGED <<state, stopped, stopping, site, snap, ran, shutter, hosts>>

-----------------------------------------------------------------------------
(* Safepoint::enter. *)

\* Mutant of EnterSnapshot: joins even when the round is already over.
EnterAlwaysJoins(a) ==
    /\ At(a, "enter")
    /\ snap' = [snap EXCEPT ![a] = state]
    /\ Goto(a, "enter_add")
    /\ UNCHANGED <<state, stopped, stopping, slot, site, ran, asleep, shutter, hosts>>

\* enter: snapshot, and return at once when no stop is pending.
EnterSnapshot(a) ==
    /\ At(a, "enter")
    /\ IF Pending
       THEN snap' = [snap EXCEPT ![a] = state] /\ Goto(a, "enter_add") /\ UNCHANGED site
       ELSE Goto(a, site[a]) /\ site' = [site EXCEPT ![a] = "top"] /\ UNCHANGED snap
    /\ UNCHANGED <<state, stopped, stopping, slot, ran, asleep, shutter, hosts>>

\* enter: fetch_add, unpark_all(stopped).
EnterAdd(a) ==
    /\ At(a, "enter_add")
    /\ stopped' = stopped + 1
    /\ Goto(a, "enter_wait")
    /\ Unpark(OnStopped)
    /\ UNCHANGED <<state, stopping, slot, site, snap, ran, shutter, hosts>>

\* enter: wait for as long as the state is the snapshot.
EnterWait(a) ==
    /\ At(a, "enter_wait")
    /\ IF state = snap[a] THEN Park(a) /\ UNCHANGED pc
                          ELSE Goto(a, "enter_sub") /\ UNCHANGED asleep
    /\ UNCHANGED <<state, stopped, stopping, slot, site, snap, ran, shutter, hosts>>

\* Mutant of EnterSub: leaves without the fetch_sub when the caller is a step.
EnterSubForgets(a) ==
    /\ At(a, "enter_sub")
    /\ stopped' = IF site[a] = "step" THEN stopped ELSE stopped - 1
    /\ Goto(a, site[a])
    /\ site' = [site EXCEPT ![a] = "top"]
    /\ snap' = [snap EXCEPT ![a] = 0]
    /\ Unpark(OnStopped)
    /\ UNCHANGED <<state, stopping, slot, ran, shutter, hosts>>

\* enter: fetch_sub, unpark_all(stopped), return to the caller.
EnterSub(a) ==
    /\ At(a, "enter_sub")
    /\ stopped' = stopped - 1
    /\ Goto(a, site[a])
    /\ site' = [site EXCEPT ![a] = "top"]
    /\ snap' = [snap EXCEPT ![a] = 0]
    /\ Unpark(OnStopped)
    /\ UNCHANGED <<state, stopping, slot, ran, shutter, hosts>>

-----------------------------------------------------------------------------
(* Asking for a stop: stop_the_world from a worker's step, and from the host *)
(* of a main agent request_safepoint, world_is_stopped, resume_world.        *)

Caller(a) == IF a \in main THEN "host" ELSE "step"

CallStop(a) ==
    /\ At(a, Caller(a))
    /\ a \in Requesters \ asking
    /\ Goto(a, "request")
    /\ UNCHANGED <<state, stopped, stopping, slot, site, snap, ran, asleep, shutter, hosts>>

\* Safepoint::request: even -> odd, or false when a stop is pending.
Request(a) ==
    /\ At(a, "request")
    /\ IF Pending THEN Goto(a, Caller(a)) /\ UNCHANGED <<state, unvisited>>
                  ELSE /\ Goto(a, "wake")
                       /\ state' = Bump(state)
                       /\ unvisited' = [unvisited EXCEPT ![a] = Agents]
    /\ UNCHANGED <<stopped, stopping, slot, site, snap, ran, asleep, shutter>>
    /\ UNCHANGED <<main, asking, unnotified>>

\* unpark_all on the next park slot, which keeps its value.  After the last a
\* worker goes to await_all; request_safepoint returns to the host of a main
\* agent, which goes on driving and polls world_is_stopped between two passes.
WakeSleepers(a) ==
    /\ At(a, "wake")
    /\ \E b \in Agents :
        /\ IsNext(b, unvisited[a])
        /\ unvisited' = [unvisited EXCEPT ![a] = @ \ {b}]
        /\ Unpark(OnSlot \cap {b})
        /\ pc' = [c \in Agents |->
                     IF c \in OnSlot \cap {b} THEN "woken"
                     ELSE IF c = a /\ unvisited[a] = {b}
                          THEN IF a \in main THEN "host" ELSE "await"
                     ELSE pc[c]]
        /\ asking' = IF a \in main /\ unvisited[a] = {b} THEN asking \cup {a} ELSE asking
    /\ UNCHANGED <<state, stopped, stopping, slot, site, snap, ran, shutter>>
    /\ UNCHANGED <<main, unnotified>>

Others == Cardinality(Agents) - 1

\* In await_all, or the host of a main agent between two passes.
WaitsForAll(a) == At(a, "await") \/ (a \in asking /\ At(a, "host"))

\* Mutant of AllArrived: one arrival short.
AllArrivedButOne(a) ==
    /\ WaitsForAll(a)
    /\ stopped >= Others - 1
    /\ Goto(a, "f")
    /\ asking' = asking \ {a}
    /\ UNCHANGED <<state, stopped, stopping, slot, site, snap, ran, asleep, shutter, main, unvisited, unnotified>>

\* await_all(n - 1), or one poll of world_is_stopped: everyone is here.
AllArrived(a) ==
    /\ WaitsForAll(a)
    /\ stopped >= Others
    /\ Goto(a, "f")
    /\ asking' = asking \ {a}
    /\ UNCHANGED <<state, stopped, stopping, slot, site, snap, ran, asleep, shutter, main, unvisited, unnotified>>

\* Mutant of AwaitGivesUp: await_all does not look at `stopping`.
AwaitNeverGivesUp(a) ==
    /\ FALSE
    /\ UNCHANGED vars

\* await_all gives up: the cluster is shutting down, f does not run.
AwaitGivesUp(a) ==
    /\ At(a, "await")
    /\ stopped < Others
    /\ stopping
    /\ Goto(a, "release")
    /\ UNCHANGED <<state, stopped, stopping, slot, site, snap, ran, asleep, shutter, hosts>>

\* await_all parks on the count.
AwaitParks(a) ==
    /\ At(a, "await")
    /\ stopped < Others
    /\ ~stopping
    /\ Park(a)
    /\ UNCHANGED <<state, stopped, stopping, slot, pc, site, snap, ran, shutter, hosts>>

\* f returns.
Collected(a) ==
    /\ At(a, "f")
    /\ Goto(a, "release")
    /\ UNCHANGED <<state, stopped, stopping, slot, site, snap, ran, asleep, shutter, hosts>>

\* Mutant of Release: the round is not ended, only its sleepers are woken.
ReleaseWithoutBump(a) ==
    /\ At(a, "release")
    /\ IF Pending THEN Goto(a, "drain") /\ Unpark(OnState)
                  ELSE Goto(a, Caller(a)) /\ UNCHANGED asleep
    /\ UNCHANGED <<state, stopped, stopping, slot, site, snap, ran, shutter, hosts>>

\* release: odd -> even and unpark_all(state), or nothing when no stop is
\* pending any more.
Release(a) ==
    /\ At(a, "release")
    /\ IF Pending THEN state' = Bump(state) /\ Goto(a, "drain") /\ Unpark(OnState)
                  ELSE Goto(a, Caller(a)) /\ UNCHANGED <<state, asleep>>
    /\ UNCHANGED <<stopped, stopping, slot, site, snap, ran, shutter, hosts>>

\* Mutant of Drain: release returns without waiting for the barrier to empty.
DrainReturnsAtOnce(a) ==
    /\ At(a, "drain")
    /\ Goto(a, Caller(a))
    /\ UNCHANGED <<state, stopped, stopping, slot, site, snap, ran, asleep, shutter, hosts>>

\* release: wait until the barrier is empty, or the cluster is stopping.
Drain(a) ==
    /\ At(a, "drain")
    /\ IF stopped = 0 \/ stopping
       THEN Goto(a, Caller(a)) /\ UNCHANGED asleep
       ELSE asleep' = (asleep \ OnState) \cup {a} /\ UNCHANGED pc
    /\ UNCHANGED <<state, stopped, stopping, slot, site, snap, ran, shutter, hosts>>

-----------------------------------------------------------------------------
(* Park, for SpinPark: every park comes back, whatever the word says. *)

SpuriousWake(a) ==
    /\ SpuriousWakes
    /\ a \in asleep
    /\ Unpark({a})
    /\ pc' = IF a \in OnSlot THEN [pc EXCEPT ![a] = "woken"] ELSE pc
    /\ UNCHANGED <<state, stopped, stopping, slot, site, snap, ran, shutter, hosts>>

-----------------------------------------------------------------------------
(* shutdown, from any thread. *)

ShutdownStops ==
    /\ MayShutdown
    /\ shutter = "idle"
    /\ stopping' = TRUE
    /\ shutter' = "release"
    /\ UNCHANGED <<state, stopped, slot, pc, site, snap, ran, asleep, hosts>>

\* release; its drain returns at once because `stopping` is set.
ShutdownReleases ==
    /\ shutter = "release"
    /\ IF Pending THEN state' = Bump(state) /\ Unpark(OnState)
                  ELSE UNCHANGED <<state, asleep>>
    /\ shutter' = "slots"
    /\ unnotified' = Agents
    /\ UNCHANGED <<stopped, stopping, slot, pc, site, snap, ran, main, asking, unvisited>>

\* NOTIFIED and unpark, on the next park slot.
ShutdownNotifies ==
    /\ shutter = "slots"
    /\ \E b \in Agents :
        /\ IsNext(b, unnotified)
        /\ slot' = [slot EXCEPT ![b] = "NOTIFIED"]
        /\ Unpark(OnSlot \cap {b})
        /\ pc' = IF b \in OnSlot THEN [pc EXCEPT ![b] = "woken"] ELSE pc
        /\ unnotified' = unnotified \ {b}
        /\ shutter' = IF unnotified = {b} THEN "done" ELSE "slots"
    /\ UNCHANGED <<state, stopped, stopping, site, snap, ran, main, asking, unvisited>>

-----------------------------------------------------------------------------
RunStep(a) ==
    \/ Top(a) \/ HostDrives(a) \/ DriveOnce(a) \/ NextJob(a) \/ NoJob(a)
    \/ StepReturns(a) \/ StepPolls(a) \/ AfterStep(a) \/ BetweenSteps(a)
    \/ DeadlinePasses(a) \/ Publish(a) \/ RecheckStays(a) \/ RecheckSleeps(a)
    \/ Sleep(a) \/ Woken(a)

EnterStep(a) == EnterSnapshot(a) \/ EnterAdd(a) \/ EnterWait(a) \/ EnterSub(a)

StopStep(a) ==
    \/ CallStop(a) \/ Request(a) \/ WakeSleepers(a) \/ AllArrived(a)
    \/ AwaitGivesUp(a) \/ AwaitParks(a) \/ Collected(a) \/ Release(a) \/ Drain(a)

Shutdown == ShutdownStops \/ ShutdownReleases \/ ShutdownNotifies

Next ==
    \/ \E a \in Agents : \/ RunStep(a) \/ EnterStep(a) \/ StopStep(a)
                         \/ NotifyOne(a) \/ SpuriousWake(a)
    \/ Shutdown

Spec == Init /\ [][Next]_vars

\* What the threads of the system guarantee: an agent keeps running, SpinPark's
\* park returns, a step that keeps asking for stops returns in the end all the
\* same (strong fairness, since each call leaves the step), and shutdown runs
\* to its end once called.  Nobody has to spawn, to ask for a stop or to shut
\* down.
Fairness ==
    /\ \A a \in Agents : WF_vars(RunStep(a) \/ EnterStep(a) \/ StopStep(a)
                                 \/ SpuriousWake(a))
    /\ \A a \in Requesters : SF_vars(StepReturns(a))
    /\ WF_vars(ShutdownReleases \/ ShutdownNotifies)

FairSpec == Spec /\ Fairness

-----------------------------------------------------------------------------
(* Properties. *)

Counted == {a \in Agents : pc[a] \in CountedPC}

\* `stopped` is the number of agents between the fetch_add and the fetch_sub
\* of `enter`, whatever releases, shutdowns and new rounds happen meanwhile.
StoppedIsCount == stopped = Cardinality(Counted)

\* Cluster::stop_the_world: "while `f` runs, no other agent is inside
\* `Task::step`": the others all stand at the barrier.  The documentation says it
\* of every f; here it is said until a shutdown, which releases the barrier
\* whether an f is running or not.
WorldStopped ==
    \A r \in Agents : pc[r] = "f" /\ ~stopping =>
        \A a \in Agents \ {r} : pc[a] \notin SteppingPC /\ pc[a] \in CountedPC

\* "two hosts must never both believe they own the world": at most one agent
\* runs its f, even when a shutdown has released the barrier under it.
OneCollector ==
    \A r, q \in Agents : pc[r] = "f" /\ pc[q] = "f" => r = q

\* safepoint.rs, enter: an agent never joins "a round it is not part of".  The
\* snapshot it is about to announce is still the state.
NoStaleJoin ==
    \A a \in Agents : pc[a] = "enter_add" /\ ~stopping => snap[a] = state

\* An agent on its way out of the barrier: the round it joined is over.
Leftover == {a \in Counted : snap[a] # state \/ pc[a] = "enter_sub"}

\* safepoint.rs, release: the drain.  Until a shutdown, an agent left over
\* from an earlier round is only ever counted while a requester is still
\* draining, so no later requester reads a leftover count as an arrival.
LeftoverIsDrained ==
    Leftover # {} /\ ~stopping => \E d \in Agents : pc[d] = "drain"

\* Agent r has the world to itself: everyone else waits for r's round to end.
Held(r) == \A a \in Agents \ {r} : pc[a] = "enter_wait" /\ snap[a] = state

\* The agents with a round of their own: from a won request to its release.
Owners == {a \in Agents : pc[a] \in OwnerPC} \cup asking

\* The inductive invariant behind WorldStopped.  A round is owned by whoever
\* won the request, it stays pending until its owner releases it (or a
\* shutdown does), and from f to the release its owner holds the world.
RoundInv ==
    /\ shutter # "idle" => stopping
    /\ \A a \in Agents : pc[a] \in CountedPC \cup {"enter_add"} => snap[a] % 2 = 1
    /\ \A a \in asking : pc[a] \notin OwnerPC \cup {"request"}
    /\ NoStaleJoin
    /\ LeftoverIsDrained
    /\ ~stopping =>
         /\ Owners # {} => Pending
         /\ \A r, q \in Owners : r = q
         /\ \A r \in Agents : pc[r] \in {"f", "release"} => Held(r)

\* A stop that was requested happens, unless the cluster shuts down.
StopHappens ==
    \A r \in Requesters : pc[r] = "await" ~> (pc[r] = "f" \/ stopping)

\* Whoever waits at the barrier is let go, and the barrier empties.
BarrierEmpties == Counted # {} ~> Counted = {}

\* shutdown: every worker's `run` returns, from its step, its sleep, the
\* barrier or a stop it was asking for.
RunReturns == stopping ~> \A a \in Workers : pc[a] = "done"

Abstract == INSTANCE StopTheWorld WITH
    mutating   <- {a \in Agents : pc[a] \in SteppingPC},
    collecting <- {a \in Agents : pc[a] = "f"},
    over       <- stopping

\* The barrier, the loops that poll it and the requesters together implement
\* the stop-the-world contract: every step of an agent is a step of it or
\* invisible, so a collection begins only when nobody else is in a step, nobody
\* gets back into one before it ends, and the next begins after it has.
ImplementsStopTheWorld == Abstract!Spec
=============================================================================
