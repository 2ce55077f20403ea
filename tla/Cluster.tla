------------------------------ MODULE Cluster ------------------------------
(***************************************************************************)
(* The work-stealing cluster of krio-parallel (lib.rs, parked.rs,          *)
(* injector.rs): worker agents that look for a job in their own deque, in  *)
(* the injector and in the others' deques, step it, put it back, park it   *)
(* or drop it, and go to sleep when there is nothing to do; host threads   *)
(* that spawn, wake and shut down.                                         *)
(*                                                                         *)
(* The deques are atomic here (Deque.tla shows that they behave so); a     *)
(* steal may still come back empty-handed from a race.  The two spin locks *)
(* make every injector and parked operation one step, and so is the move   *)
(* of a job from one queue to another, during which nobody else can see    *)
(* it.  No stop-the-world is requested; Safepoint.tla is about that.       *)
(***************************************************************************)
EXTENDS Integers, Sequences, FiniteSets, SequencesExt

CONSTANTS
    N,         \* agents are numbered 0 .. N - 1
    Jobs,      \* the tasks that exist
    Placed,    \* jobs spawn_on(0, ..) puts on a deque before the agents run
    Hosts,     \* threads outside the cluster that spawn, wake and shut down
    Capacity,  \* of each deque
    Steps,     \* bound: how many steps, of all the jobs, yield or wait
    Strays     \* bound: how many wakes come for no event

ASSUME ClusterAssumption ==
    /\ N \in Nat \ {0}
    /\ Capacity \in Nat \ {0, 1}
    /\ Steps \in Nat
    /\ Strays \in Nat
    /\ Placed \in Seq(Jobs)
    /\ IsInjective(Placed)
    /\ Len(Placed) <= Capacity
    /\ Hosts \cap (0 .. N - 1) = {}

Agents == 0 .. N - 1
Actors == Agents \cup Hosts
None == "none"
ASSUME NoneAssumption == None \notin Jobs

VARIABLES
    injector,   \* Injector::queue
    deque,      \* Agent::deque
    parked,     \* Parked::tasks
    early,      \* Parked::early_wakes
    slot,       \* Agent::park_state
    stopping,   \* Cluster::stopping
    pc,         \* where each agent and each host thread is
    k,          \* the loop counter of the scan an actor is in
    todo,       \* the victims an agent has still to try
    held,       \* the job an agent is stepping
    ran,        \* `ran > 0` in drive_once
    asleep,     \* the agents inside park(slot, PARKED)
    spawned, finished,
    waiting,    \* jobs whose event has not fired: a wake for them is to come
    left,       \* steps that may still yield or wait
    strays      \* stray wakes still to come

work == <<injector, deque, parked, early>>
task == <<spawned, finished, waiting, left, strays>>
local == <<k, todo, held, ran>>
vars == <<work, slot, stopping, pc, local, asleep, task>>

TypeOK ==
    /\ injector \in Seq(Jobs)
    /\ deque \in [Agents -> Seq(Jobs)] /\ \A a \in Agents : Len(deque[a]) <= Capacity
    /\ parked \subseteq Jobs /\ early \subseteq Jobs
    /\ slot \in [Agents -> {"RUNNING", "PARKED", "NOTIFIED"}]
    /\ stopping \in BOOLEAN
    /\ pc \in [Actors -> {"drive", "pop", "inj", "steal", "step", "park", "surplus", "notify",
                          "after", "publish", "recheck", "sleep", "woken", "done",
                          "idle", "slots"}]
    /\ k \in [Actors -> 0 .. N + 1]
    /\ todo \in [Agents -> SUBSET Agents]
    /\ held \in [Agents -> Jobs \cup {None}]
    /\ ran \in [Agents -> BOOLEAN]
    /\ asleep \subseteq Agents
    /\ spawned \subseteq Jobs /\ finished \subseteq spawned /\ waiting \subseteq spawned
    /\ left \in 0 .. Steps
    /\ strays \in 0 .. Strays

Init ==
    /\ injector = << >>
    /\ deque = [a \in Agents |-> IF a = 0 THEN Placed ELSE << >>]
    /\ parked = {} /\ early = {}
    /\ slot = [a \in Agents |-> "RUNNING"]
    /\ stopping = FALSE
    /\ pc = [x \in Actors |-> IF x \in Agents THEN "drive" ELSE "idle"]
    /\ k = [x \in Actors |-> 0]
    /\ todo = [a \in Agents |-> {}]
    /\ held = [a \in Agents |-> None]
    /\ ran = [a \in Agents |-> FALSE]
    /\ asleep = {}
    /\ spawned = ToSet(Placed) /\ finished = {} /\ waiting = {}
    /\ left = Steps
    /\ strays = Strays

At(x, here) == pc[x] = here /\ x \notin asleep
Goto(x, there) == pc' = [pc EXCEPT ![x] = there]

\* Mutant of Deposit: no spill.
DepositWithoutSpill(a, j) ==
    deque' = [deque EXCEPT ![a] = Append(@, j)] /\ UNCHANGED injector

\* deposit: onto the agent's own deque, or into the injector when it is full.
Deposit(a, j) ==
    IF Len(deque[a]) < Capacity
    THEN deque' = [deque EXCEPT ![a] = Append(@, j)] /\ UNCHANGED injector
    ELSE injector' = Append(injector, j) /\ UNCHANGED deque

-----------------------------------------------------------------------------
(* drive_once. *)

DriveOnce(a) ==
    /\ At(a, "drive")
    /\ Goto(a, IF stopping THEN "done" ELSE "pop")
    /\ ran' = [ran EXCEPT ![a] = FALSE]
    /\ UNCHANGED <<work, slot, stopping, k, todo, held, asleep, task>>

\* Agent a has job j in its hands, and steps it.
Begin(a, j) == held' = [held EXCEPT ![a] = j] /\ Goto(a, "step")

\* next_job: the agent's own deque, newest first.
PopOwn(a) ==
    /\ At(a, "pop")
    /\ IF deque[a] # << >>
       THEN Begin(a, Last(deque[a])) /\ deque' = [deque EXCEPT ![a] = Front(@)]
       ELSE Goto(a, "inj") /\ UNCHANGED <<deque, held>>
    /\ UNCHANGED <<injector, parked, early, slot, stopping, k, todo, ran, asleep, task>>

\* next_job: the injector, oldest first.
PopInjector(a) ==
    /\ At(a, "inj")
    /\ IF injector # << >>
       THEN /\ Begin(a, Head(injector)) /\ injector' = Tail(injector)
            /\ UNCHANGED todo
       ELSE /\ Goto(a, "steal") /\ todo' = [todo EXCEPT ![a] = Agents \ {a}]
            /\ UNCHANGED <<injector, held>>
    /\ UNCHANGED <<deque, parked, early, slot, stopping, k, ran, asleep, task>>

\* next_job: a victim's oldest job.  The rotor decides who is tried first; any
\* order is allowed here.
Steal(a, v) ==
    /\ At(a, "steal") /\ v \in todo[a]
    /\ deque[v] # << >>
    /\ Begin(a, Head(deque[v])) /\ deque' = [deque EXCEPT ![v] = Tail(@)]
    /\ todo' = [todo EXCEPT ![a] = {}]
    /\ UNCHANGED <<injector, parked, early, slot, stopping, k, ran, asleep, task>>

\* next_job: the victim has nothing, or the CAS for its oldest job was lost.
StealFails(a, v) ==
    /\ At(a, "steal") /\ v \in todo[a]
    /\ todo' = [todo EXCEPT ![a] = @ \ {v}]
    /\ UNCHANGED <<work, slot, stopping, pc, k, held, ran, asleep, task>>

\* drive_once: nothing left to try; Drive::Ran goes round, Drive::Idle does not.
NoJob(a) ==
    /\ At(a, "steal") /\ todo[a] = {}
    /\ Goto(a, IF ran[a] THEN "drive" ELSE "publish")
    /\ ran' = [ran EXCEPT ![a] = FALSE]
    /\ UNCHANGED <<work, slot, stopping, k, todo, held, asleep, task>>

\* Agent a no longer holds its job.
LetGo(a) == held' = [held EXCEPT ![a] = None] /\ ran' = [ran EXCEPT ![a] = TRUE]

\* The step returns Completed: the job is dropped.
StepCompletes(a) ==
    /\ At(a, "step")
    /\ finished' = finished \cup {held[a]}
    /\ LetGo(a) /\ Goto(a, "after")
    /\ UNCHANGED <<work, slot, stopping, k, todo, asleep, spawned, waiting, left, strays>>

\* The step returns Yielded: back onto the deque.
StepYields(a) ==
    /\ At(a, "step") /\ left > 0
    /\ left' = left - 1
    /\ Deposit(a, held[a])
    /\ LetGo(a)
    /\ Goto(a, "surplus")
    /\ UNCHANGED <<parked, early, slot, stopping, k, todo, asleep, spawned, finished,
                   waiting, strays>>

\* A thief is woken if the deque has a surplus, thefts since the deposit included.
Surplus(a) ==
    /\ At(a, "surplus")
    /\ Goto(a, IF Len(deque[a]) > 1 THEN "notify" ELSE "after")
    /\ UNCHANGED <<work, slot, stopping, local, asleep, task>>

\* The step registers for an event and returns Pending.
StepPends(a) ==
    /\ At(a, "step") /\ left > 0
    /\ left' = left - 1
    /\ waiting' = waiting \cup {held[a]}
    /\ Goto(a, "park")
    /\ UNCHANGED <<work, slot, stopping, local, asleep, spawned, finished, strays>>

\* Mutant of ParkJob: a raced job is deposited and parked as well.
ParkJobTwice(a) ==
    /\ At(a, "park")
    /\ parked' = parked \cup {held[a]}
    /\ IF held[a] \in early
       THEN early' = early \ {held[a]} /\ Deposit(a, held[a])
       ELSE UNCHANGED <<early, deque, injector>>
    /\ LetGo(a) /\ Goto(a, "after")
    /\ UNCHANGED <<slot, stopping, k, todo, asleep, task>>

\* Mutant of ParkJob: the early wake is honoured but not consumed.
ParkJobKeepsWake(a) ==
    /\ At(a, "park")
    /\ IF held[a] \in early
       THEN Deposit(a, held[a]) /\ UNCHANGED <<early, parked>>
       ELSE parked' = parked \cup {held[a]} /\ UNCHANGED <<early, deque, injector>>
    /\ LetGo(a) /\ Goto(a, "after")
    /\ UNCHANGED <<slot, stopping, k, todo, asleep, task>>

\* Parked::park, and the deposit when a wake was there first.
ParkJob(a) ==
    /\ At(a, "park")
    /\ IF held[a] \in early
       THEN early' = early \ {held[a]} /\ Deposit(a, held[a]) /\ UNCHANGED parked
       ELSE parked' = parked \cup {held[a]} /\ UNCHANGED <<early, deque, injector>>
    /\ LetGo(a) /\ Goto(a, "after")
    /\ UNCHANGED <<slot, stopping, k, todo, asleep, task>>

\* A step spawns another task with spawn_on on the agent that runs it.
StepSpawns(a, j) ==
    /\ At(a, "step") /\ j \notin spawned
    /\ spawned' = spawned \cup {j}
    /\ Deposit(a, j)
    /\ Goto(a, "notify")
    /\ UNCHANGED <<parked, early, slot, stopping, local, asleep, finished, waiting,
                   left, strays>>

\* Mutant of AfterStep: the agent leaves after its step, shutdown or not.
AfterStepLeaves(a) ==
    /\ At(a, "after")
    /\ Goto(a, "done")
    /\ UNCHANGED <<work, slot, stopping, local, asleep, task>>

\* drive_once: shutdown is checked after every step.
AfterStep(a) ==
    /\ At(a, "after")
    /\ Goto(a, IF stopping THEN "done" ELSE "pop")
    /\ UNCHANGED <<work, slot, stopping, local, asleep, task>>

-----------------------------------------------------------------------------
(* run: going to sleep. *)

Publish(a) ==
    /\ At(a, "publish")
    /\ IF slot[a] = "RUNNING"
       THEN slot' = [slot EXCEPT ![a] = "PARKED"] /\ Goto(a, "recheck")
       ELSE slot' = [slot EXCEPT ![a] = "RUNNING"] /\ Goto(a, "drive")
    /\ UNCHANGED <<work, stopping, local, asleep, task>>

\* What the re-check looks at in its step number i: first the injector, then
\* every deque in turn.
SeesWork(i) == IF i = 0 THEN injector # << >> ELSE deque[i - 1] # << >>

\* The re-check after PARKED finds the shutdown, or work in the place it has
\* come to.
RecheckStays(a) ==
    /\ At(a, "recheck")
    /\ (k[a] = 0 /\ stopping) \/ SeesWork(k[a])
    /\ slot' = [slot EXCEPT ![a] = "RUNNING"]
    /\ Goto(a, IF stopping THEN "done" ELSE "drive")
    /\ k' = [k EXCEPT ![a] = 0]
    /\ UNCHANGED <<work, stopping, todo, held, ran, asleep, task>>

\* Mutant of RecheckGoesOn: no re-check of the work after PARKED.
RecheckOnlyStopping(a) ==
    /\ At(a, "recheck")
    /\ ~stopping
    /\ Goto(a, "sleep")
    /\ UNCHANGED <<work, slot, stopping, local, asleep, task>>

\* The re-check finds nothing there, and goes on or goes to sleep.
RecheckGoesOn(a) ==
    /\ At(a, "recheck")
    /\ k[a] = 0 => ~stopping
    /\ ~SeesWork(k[a])
    /\ IF k[a] < N THEN k' = [k EXCEPT ![a] = @ + 1] /\ UNCHANGED pc
                   ELSE k' = [k EXCEPT ![a] = 0] /\ Goto(a, "sleep")
    /\ UNCHANGED <<work, slot, stopping, todo, held, ran, asleep, task>>

\* park(slot, PARKED): asleep if the slot still says so.
Sleep(a) ==
    /\ At(a, "sleep")
    /\ IF slot[a] = "PARKED" THEN asleep' = asleep \cup {a} /\ UNCHANGED pc
                             ELSE Goto(a, "woken") /\ UNCHANGED asleep
    /\ UNCHANGED <<work, slot, stopping, local, task>>

\* Park: "spurious wakes are allowed".
SpuriousWake(a) ==
    /\ a \in asleep
    /\ asleep' = asleep \ {a} /\ Goto(a, "woken")
    /\ UNCHANGED <<work, slot, stopping, local, task>>

Woken(a) ==
    /\ At(a, "woken")
    /\ slot' = [slot EXCEPT ![a] = "RUNNING"]
    /\ Goto(a, IF stopping THEN "done" ELSE "drive")
    /\ UNCHANGED <<work, stopping, local, asleep, task>>

-----------------------------------------------------------------------------
(* notify_one, by an agent after a deposit or by a host after a push. *)

\* Where the caller of notify_one goes on: in its step if it still holds a job.
Return(x) == IF x \in Hosts THEN "idle" ELSE IF held[x] # None THEN "step" ELSE "after"

\* Actor x wakes agent b (if it sleeps) and goes to `there`.
WakeAgent(x, b, there) ==
    /\ asleep' = asleep \ {b}
    /\ pc' = [pc EXCEPT ![x] = there, ![b] = IF b \in asleep THEN "woken" ELSE @]

\* The scan has come to a slot: PARKED is moved to NOTIFIED and ends the scan.
NotifyOne(x) ==
    /\ At(x, "notify")
    /\ k[x] < N
    /\ IF slot[k[x]] = "PARKED"
       THEN /\ slot' = [slot EXCEPT ![k[x]] = "NOTIFIED"]
            /\ k' = [k EXCEPT ![x] = 0]
            /\ WakeAgent(x, k[x], Return(x))
       ELSE /\ k' = [k EXCEPT ![x] = @ + 1]
            /\ UNCHANGED <<slot, asleep, pc>>
    /\ UNCHANGED <<work, stopping, todo, held, ran, task>>

\* Nobody was parked.
NotifyNobody(x) ==
    /\ At(x, "notify")
    /\ k[x] = N
    /\ k' = [k EXCEPT ![x] = 0]
    /\ Goto(x, Return(x))
    /\ UNCHANGED <<work, slot, stopping, todo, held, ran, asleep, task>>

-----------------------------------------------------------------------------
(* Host threads. *)

\* Cluster::spawn.
Spawn(h, j) ==
    /\ At(h, "idle") /\ j \notin spawned
    /\ spawned' = spawned \cup {j}
    /\ injector' = Append(injector, j)
    /\ Goto(h, "notify")
    /\ UNCHANGED <<deque, parked, early, slot, stopping, local, asleep, finished, waiting,
                   left, strays>>

\* Mutant of Wake: a wake with nothing parked is dropped.
WakeForgotten(h, j) ==
    /\ IF j \in parked
       THEN parked' = parked \ {j} /\ injector' = Append(injector, j) /\ Goto(h, "notify")
       ELSE UNCHANGED <<parked, injector, pc>>
    /\ UNCHANGED early

\* Cluster::wake and Parked::wake: to the injector, or remembered.
Wake(h, j) ==
    IF j \in parked
    THEN /\ parked' = parked \ {j} /\ injector' = Append(injector, j)
         /\ Goto(h, "notify") /\ UNCHANGED early
    ELSE /\ early' = early \cup {j}
         /\ UNCHANGED <<parked, injector, pc>>

\* The event a job registered for fires, once.
EventFires(h, j) ==
    /\ At(h, "idle") /\ j \in waiting
    /\ waiting' = waiting \ {j}
    /\ Wake(h, j)
    /\ UNCHANGED <<deque, slot, stopping, local, asleep, spawned, finished, left, strays>>

\* A wake for no event.  The job it names is spawned and not waiting.
StrayWake(h, j) ==
    /\ At(h, "idle") /\ j \in spawned \ waiting
    /\ strays > 0 /\ strays' = strays - 1
    /\ Wake(h, j)
    /\ UNCHANGED <<deque, slot, stopping, local, asleep, spawned, finished, waiting, left>>

\* shutdown: the flag, then every slot.
Shutdown(h) ==
    /\ At(h, "idle") /\ ~stopping
    /\ stopping' = TRUE
    /\ Goto(h, "slots")
    /\ UNCHANGED <<work, slot, local, asleep, task>>

\* Mutant of ShutdownNotifies: only the agents already PARKED are told.
ShutdownNotifiesParked(h) ==
    /\ At(h, "slots")
    /\ k[h] < N
    /\ slot' = [slot EXCEPT ![k[h]] = IF @ = "PARKED" THEN "NOTIFIED" ELSE @]
    /\ k' = [k EXCEPT ![h] = @ + 1]
    /\ Goto(h, "slots")
    /\ UNCHANGED <<work, stopping, todo, held, ran, asleep, task>>

ShutdownNotifies(h) ==
    /\ At(h, "slots")
    /\ k[h] < N
    /\ slot' = [slot EXCEPT ![k[h]] = "NOTIFIED"]
    /\ k' = [k EXCEPT ![h] = @ + 1]
    /\ WakeAgent(h, k[h], "slots")
    /\ UNCHANGED <<work, stopping, todo, held, ran, task>>

ShutdownReturns(h) ==
    /\ At(h, "slots")
    /\ k[h] = N
    /\ k' = [k EXCEPT ![h] = 0]
    /\ Goto(h, "idle")
    /\ UNCHANGED <<work, slot, stopping, todo, held, ran, asleep, task>>

-----------------------------------------------------------------------------
AgentStep(a) ==
    \/ DriveOnce(a) \/ PopOwn(a) \/ PopInjector(a) \/ NoJob(a)
    \/ \E v \in Agents : Steal(a, v) \/ StealFails(a, v)
    \/ StepCompletes(a) \/ StepYields(a) \/ Surplus(a) \/ StepPends(a) \/ ParkJob(a)
    \/ AfterStep(a)
    \/ \E j \in Jobs : StepSpawns(a, j)
    \/ Publish(a) \/ RecheckStays(a) \/ RecheckGoesOn(a) \/ Sleep(a) \/ Woken(a)

Notify(x) == NotifyOne(x) \/ NotifyNobody(x)

Next ==
    \/ \E a \in Agents : AgentStep(a) \/ SpuriousWake(a)
    \/ \E x \in Actors : Notify(x)
    \/ \E h \in Hosts : \/ \E j \in Jobs : Spawn(h, j) \/ EventFires(h, j) \/ StrayWake(h, j)
                        \/ Shutdown(h) \/ ShutdownNotifies(h) \/ ShutdownReturns(h)

Spec == Init /\ [][Next]_vars

\* Threads keep running, and a job's event fires in the end.  Nobody has to
\* spawn or to shut down, no park has to return spuriously, and a thief may lose
\* every race.
Fairness ==
    /\ \A a \in Agents : WF_vars(AgentStep(a) \/ Notify(a))
    /\ \A h \in Hosts : WF_vars(Notify(h) \/ ShutdownNotifies(h) \/ ShutdownReturns(h))
    /\ \A j \in Jobs : WF_vars(\E h \in Hosts : EventFires(h, j))

FairSpec == Spec /\ Fairness

-----------------------------------------------------------------------------
(* Properties. *)

\* How many times a sequence holds j.
Count(s, j) == Cardinality({i \in DOMAIN s : s[i] = j})

\* Every job that was spawned and has not finished is in exactly one place: the
\* injector, one deque, the parked set, or one agent's hands.  In particular no
\* two agents ever step the same task.
Places(j) == Count(injector, j)
             + Cardinality({p \in Agents \X (1 .. Capacity) :
                                p[2] <= Len(deque[p[1]]) /\ deque[p[1]][p[2]] = j})
             + (IF j \in parked THEN 1 ELSE 0)
             + Cardinality({a \in Agents : held[a] = j})

JobInOnePlace ==
    \A j \in Jobs : Places(j) = IF j \in spawned \ finished THEN 1 ELSE 0

\* Cluster::wake: "a wake is never lost".  A parked job is one whose event has
\* not fired yet.
ParkedIsWaiting == parked \subseteq waiting

\* run: the re-check after PARKED "closes the lost-wakeup race".  When every
\* agent sleeps and no notification is on its way, there is nothing to run.
NobodySleepsOnWork ==
    asleep = Agents /\ (\A h \in Hosts : pc[h] = "idle")
        => injector = << >> /\ \A a \in Agents : deque[a] = << >>

\* parked.rs: the bookkeeping "does not accumulate".  A recorded wake belongs to
\* a job on its way to being parked; only a wake for no event can leave another.
EarlyWakesAreClaimed ==
    Cardinality({j \in early : \A a \in Agents : ~(pc[a] = "park" /\ held[a] = j)})
        <= Strays - strays

\* shutdown: once it has gone through the slots no agent is asleep or falls
\* asleep any more, wherever it was on its way to PARKED.
ShutdownLeavesNoSleeper ==
    stopping /\ (\A h \in Hosts : pc[h] # "slots") => asleep = {}

\* Every spawned job finishes, unless the cluster shuts down.
JobsFinish == spawned # finished ~> (spawned = finished \/ stopping)
=============================================================================
