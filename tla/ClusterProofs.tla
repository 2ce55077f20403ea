--------------------------- MODULE ClusterProofs ---------------------------
(***************************************************************************)
(* What TLAPS proves of the cluster, for every number of agents, every set *)
(* of jobs and of host threads, every capacity of the deques and every     *)
(* bound on yields and stray wakes: the type invariant and the five safety *)
(* invariants of the run.                                                  *)
(*                                                                         *)
(* They follow from one inductive invariant, ClusterInv, which comes       *)
(* first.  Then, part by part, that a step preserves it: the shape of the  *)
(* state (Queues, Scalars) and where an actor may be (Control); the places *)
(* of a job, where a step moves one job at most (Moved); the wakes a job   *)
(* is owed (WaitInv, StrayInv); and what an agent on its way to sleep has  *)
(* not seen (SleepInv, StopInv).  The theorems come last.                  *)
(***************************************************************************)
EXTENDS Cluster, QueueLemmas

-----------------------------------------------------------------------------
(* The inductive invariant. *)

AgentPC == {"drive", "pop", "inj", "steal", "step", "park", "surplus", "notify",
            "after", "publish", "recheck", "sleep", "woken", "done"}
HostPC == {"idle", "notify", "slots"}

\* Where actors may be, with what in their hands and at which turn of a scan.
Control ==
    /\ \A a \in Agents :
        /\ pc[a] \in AgentPC
        /\ pc[a] \in {"step", "park"} => held[a] # None
        /\ held[a] # None => pc[a] \in {"step", "park", "notify"}
        /\ k[a] \in 0 .. N
        /\ k[a] # 0 => pc[a] \in {"recheck", "notify"}
        /\ a \in asleep => pc[a] = "sleep" /\ slot[a] = "PARKED"
    /\ \A h \in Hosts :
        /\ pc[h] \in HostPC
        /\ k[h] \in 0 .. N
        /\ pc[h] = "idle" => k[h] = 0

\* The places a job may be in, and the jobs that are there.
Spots == ({"injector", "parked"} \X {0}) \cup ({"deque", "held"} \X Agents)

Content(p) ==
    CASE p[1] = "injector" -> ToSet(injector)
      [] p[1] = "parked" -> parked
      [] p[1] = "deque" -> ToSet(deque[p[2]])
      [] p[1] = "held" -> {held[p[2]]} \ {None}

\* No queue holds a job twice, no job is in two places, and the jobs that are
\* somewhere are those that were spawned and have not finished.
NoRepeats == IsInjective(injector) /\ \A a \in Agents : IsInjective(deque[a])
Apart == \A p, q \in Spots : Content(p) \cap Content(q) # {} => p = q
Kept == \A j \in Jobs : (j \in spawned \ finished) <=> \E p \in Spots : j \in Content(p)

PlacesInv == NoRepeats /\ Apart /\ Kept

\* A job about to be parked waits for its event, unless the wake is there already.
AboutToPark == \A a \in Agents : pc[a] = "park" => held[a] \in waiting \cup early
WaitInv == parked \subseteq waiting /\ AboutToPark

\* Wakes that no parked job, and none on its way there, will claim: recorded
\* ones, and ones still to come.
AtPark(j) == \E a \in Agents : pc[a] = "park" /\ held[a] = j
Unclaimed ==
    {j \in Jobs : \/ j \in early /\ (AtPark(j) => j \in waiting)
                  \/ j \in waiting /\ ~AtPark(j) /\ j \notin parked}
StrayInv ==
    /\ IsFiniteSet(Unclaimed)
    /\ Cardinality(Unclaimed) + strays <= Strays

\* Agent a has published PARKED and has already looked at place i.
Blind(a, i) ==
    /\ slot[a] = "PARKED"
    /\ pc[a] = "sleep" \/ (pc[a] = "recheck" /\ k[a] > i)

\* When everybody is blind to work, a host is about to notify; when an agent is
\* blind to a shutdown, the scan of the slots is still to reach it.
SleepInv ==
    \A i \in 0 .. N : SeesWork(i) /\ (\A a \in Agents : Blind(a, i)) =>
        \E h \in Hosts : pc[h] = "notify" /\ k[h] < N
StopInv ==
    stopping => \A a \in Agents : Blind(a, 0) =>
        \E h \in Hosts : pc[h] = "slots" /\ k[h] <= a

ClusterInv == TypeOK /\ Control /\ PlacesInv /\ WaitInv /\ StrayInv /\ SleepInv /\ StopInv
-----------------------------------------------------------------------------
(* Shape and control. *)

\* The assumptions on the constants, in the form the provers use them.
LEMMA Constants ==
    /\ N \in Nat /\ N > 0 /\ Capacity \in Nat /\ Capacity > 1
    /\ Steps \in Nat /\ Strays \in Nat
    /\ Placed \in Seq(Jobs) /\ IsInjective(Placed) /\ Len(Placed) <= Capacity
    /\ Hosts \cap Agents = {} /\ Agents \subseteq Actors /\ Hosts \subseteq Actors
    /\ 0 \in Agents /\ 0 \in 0 .. N + 1 /\ None \notin Jobs
    /\ \A a \in Agents : a \in 0 .. N
BY ClusterAssumption, NoneAssumption DEF Agents, Actors

\* Everything a queue and a job are moved with.
Queues ==
    /\ injector \in Seq(Jobs)
    /\ deque \in [Agents -> Seq(Jobs)]
    /\ \A a \in Agents : Len(deque[a]) <= Capacity

\* deposit keeps the queues queues.
LEMMA DepositType ==
    ASSUME Queues, NEW a \in Agents, NEW j \in Jobs, Deposit(a, j)
    PROVE  Queues'
<1>1. CASE Len(deque[a]) < Capacity
  <2>1. deque' = [deque EXCEPT ![a] = Append(@, j)] /\ injector' = injector
    BY <1>1 DEF Deposit
  <2>2. Append(deque[a], j) \in Seq(Jobs) /\ Len(Append(deque[a], j)) <= Capacity
    BY <1>1, AppendSet, SeqSet, Constants DEF Queues
  <2> QED BY <2>1, <2>2 DEF Queues
<1>2. CASE ~(Len(deque[a]) < Capacity)
  <2>1. injector' = Append(injector, j) /\ deque' = deque
    BY <1>2 DEF Deposit
  <2>2. Append(injector, j) \in Seq(Jobs)
    BY AppendSet DEF Queues
  <2> QED BY <2>1, <2>2 DEF Queues
<1> QED BY <1>1, <1>2

\* A job in hand is one that was spawned and has not finished.
LEMMA HeldAlive ==
    ASSUME TypeOK, PlacesInv, NEW a \in Agents, held[a] # None
    PROVE  held[a] \in Jobs /\ held[a] \in spawned \ finished
<1>1. held[a] \in Jobs /\ <<"held", a>> \in Spots
  BY DEF TypeOK, Spots
<1>2. held[a] \in Content(<<"held", a>>)
  BY DEF Content
<1> QED BY <1>1, <1>2 DEF PlacesInv, Kept

\* The queues stay queues: every step.
LEMMA QueueStep == ASSUME TypeOK, Control, PlacesInv, [Next]_vars PROVE Queues'
<1>q. Queues
  BY DEF TypeOK, Queues
<1>h. \A a \in Agents : held[a] # None => held[a] \in Jobs
  BY DEF TypeOK
<1> USE DEF Queues
<1>1. CASE injector' = injector /\ deque' = deque
  BY <1>1, <1>q
<1>2. ASSUME NEW a \in Agents, PopOwn(a) PROVE Queues'
  <2>1. CASE deque[a] # << >>
    <3>1. deque' = [deque EXCEPT ![a] = Front(deque[a])] /\ injector' = injector
      BY <1>2, <2>1 DEF PopOwn
    <3>2. Front(deque[a]) \in Seq(Jobs) /\ Len(Front(deque[a])) <= Capacity
      <4>1. deque[a] \in Seq(Jobs) /\ Len(deque[a]) <= Capacity  BY <1>q
      <4>2. Len(deque[a]) \in Nat  BY <4>1, SeqSet
      <4> QED BY <4>1, <4>2, <2>1, FrontSet, Constants
    <3> QED BY <3>1, <3>2, <1>q
  <2>2. CASE deque[a] = << >>
    BY <1>2, <2>2, <1>1 DEF PopOwn
  <2> QED BY <2>1, <2>2
<1>3. ASSUME NEW a \in Agents, PopInjector(a) PROVE Queues'
  <2>1. CASE injector # << >>
    BY <1>3, <2>1, <1>q, TailSet DEF PopInjector
  <2>2. CASE injector = << >>
    BY <1>3, <2>2, <1>1 DEF PopInjector
  <2> QED BY <2>1, <2>2
<1>4. ASSUME NEW a \in Agents, NEW v \in Agents, Steal(a, v) PROVE Queues'
  <2>1. deque' = [deque EXCEPT ![v] = Tail(deque[v])] /\ injector' = injector /\ deque[v] # << >>
    BY <1>4 DEF Steal
  <2>2. Tail(deque[v]) \in Seq(Jobs) /\ Len(Tail(deque[v])) <= Capacity
    BY <1>q, <2>1, TailSet, SeqSet, Constants
  <2> QED BY <2>1, <2>2, <1>q
<1>5. ASSUME NEW a \in Agents, StepYields(a) PROVE Queues'
  BY <1>5, <1>q, <1>h, DepositType DEF StepYields, At, Control
<1>6. ASSUME NEW a \in Agents, ParkJob(a) PROVE Queues'
  BY <1>6, <1>1, <1>q, <1>h, DepositType DEF ParkJob, At, Control
<1>7. ASSUME NEW a \in Agents, NEW j \in Jobs, StepSpawns(a, j) PROVE Queues'
  BY <1>7, <1>q, DepositType DEF StepSpawns
<1>8. ASSUME NEW h \in Hosts, NEW j \in Jobs, Spawn(h, j) PROVE Queues'
  BY <1>8, <1>q, AppendSet DEF Spawn
<1>9. ASSUME NEW h \in Hosts, NEW j \in Jobs, EventFires(h, j) \/ StrayWake(h, j) PROVE Queues'
  <2>1. deque' = deque /\ (injector' = injector \/ injector' = Append(injector, j))
    BY <1>9 DEF EventFires, StrayWake, Wake
  <2>2. Append(injector, j) \in Seq(Jobs)
    BY <1>q, AppendSet
  <2> QED BY <2>1, <2>2, <1>q
<1>10. ASSUME NEW a \in Agents, AgentStep(a) PROVE Queues'
  BY <1>10, <1>1, <1>2, <1>3, <1>4, <1>5, <1>6, <1>7 DEF AgentStep, work, task, local,
     DriveOnce, StealFails, NoJob, StepCompletes, Surplus, StepPends, AfterStep,
     Publish, RecheckStays, RecheckGoesOn, Sleep, Woken
<1>11. ASSUME NEW x \in Actors, Notify(x) PROVE Queues'
  BY <1>11, <1>1 DEF Notify, NotifyOne, NotifyNobody, work
<1>12. ASSUME NEW a \in Agents, SpuriousWake(a) PROVE Queues'
  BY <1>12, <1>1 DEF SpuriousWake, work
<1>13. ASSUME NEW h \in Hosts, Shutdown(h) \/ ShutdownNotifies(h) \/ ShutdownReturns(h)
       PROVE Queues'
  BY <1>13, <1>1 DEF Shutdown, ShutdownNotifies, ShutdownReturns, work
<1>14. CASE UNCHANGED vars
  BY <1>14, <1>1 DEF vars, work
<1> QED BY <1>8, <1>9, <1>10, <1>11, <1>12, <1>13, <1>14 DEF Next

\* The rest of the type invariant.
Scalars ==
    /\ parked \subseteq Jobs /\ early \subseteq Jobs
    /\ slot \in [Agents -> {"RUNNING", "PARKED", "NOTIFIED"}]
    /\ stopping \in BOOLEAN
    /\ pc \in [Actors -> AgentPC \cup HostPC]
    /\ k \in [Actors -> 0 .. N + 1]
    /\ todo \in [Agents -> SUBSET Agents]
    /\ held \in [Agents -> Jobs \cup {None}]
    /\ ran \in [Agents -> BOOLEAN]
    /\ asleep \subseteq Agents
    /\ spawned \subseteq Jobs /\ finished \subseteq spawned /\ waiting \subseteq spawned
    /\ left \in 0 .. Steps
    /\ strays \in 0 .. Strays

\* The type invariant in two parts: the queues, and everything else.
LEMMA TypeSplit == TypeOK <=> Queues /\ Scalars
BY DEF TypeOK, Queues, Scalars, AgentPC, HostPC

\* Agents are numbers, host threads are not agents, and every actor is one or the other.
LEMMA ActorFacts ==
    /\ \A a \in Agents : a \in Actors /\ a \notin Hosts /\ a \in Int /\ a < N /\ a >= 0
    /\ \A h \in Hosts : h \in Actors /\ h \notin Agents
    /\ \A x \in Actors : x \in Agents \/ x \in Hosts
    /\ \A i \in 0 .. N : i < N => i \in Agents
    /\ N \in Nat /\ N > 0
BY ClusterAssumption DEF Agents, Actors

\* Every step keeps the types of everything but the queues.
LEMMA ScalarStep ==
    ASSUME TypeOK, Control, PlacesInv, [Next]_vars
    PROVE  Scalars'
<1>s. Scalars /\ Queues
  BY TypeSplit
<1>h. \A a \in Agents : held[a] # None => held[a] \in Jobs /\ held[a] \in spawned \ finished
  BY HeldAlive
<1>q. /\ \A a \in Agents : deque[a] # << >> => Last(deque[a]) \in Jobs /\ Head(deque[a]) \in Jobs
      /\ injector # << >> => Head(injector) \in Jobs
  BY <1>s, FrontSet, TailSet DEF Queues
<1>k. \A a \in Agents : k[a] \in 0 .. N
  BY DEF Control
<1>l. \A h \in Hosts : k[h] \in 0 .. N
  BY DEF Control
<1>p. \A a \in Agents : pc[a] \in {"step", "park"} => held[a] # None
  BY DEF Control
<1>sc. Scalars /\ Steps \in Nat /\ Strays \in Nat
  BY <1>s, Constants
<1> HIDE DEF TypeOK, Control
<1> USE <1>sc, <1>k, <1>l, <1>p, ActorFacts DEF Scalars, AgentPC, HostPC, At, Goto
<1>1. CASE UNCHANGED vars
  BY <1>1 DEF vars, work, task, local
<1>2. ASSUME NEW a \in Agents, AgentStep(a) \/ SpuriousWake(a) PROVE Scalars'
  <2>1. CASE DriveOnce(a)  BY <2>1 DEF DriveOnce, work, task
  <2>2. CASE PopOwn(a)
    <3>1. CASE deque[a] # << >>
      <4>1. Last(deque[a]) \in Jobs  BY <3>1, <1>q
      <4>2. /\ pc[a] = "pop" /\ held' = [held EXCEPT ![a] = Last(deque[a])]
            /\ pc' = [pc EXCEPT ![a] = "step"]
            /\ UNCHANGED <<parked, early, slot, stopping, k, todo, ran, asleep, task>>
        BY <2>2, <3>1 DEF PopOwn, Begin
      <4> QED BY <4>1, <4>2 DEF task
    <3>2. CASE deque[a] = << >>  BY <2>2, <3>2 DEF PopOwn, task
    <3> QED BY <3>1, <3>2
  <2>3. CASE PopInjector(a)
    <3>1. CASE injector # << >>
      <4>1. Head(injector) \in Jobs  BY <3>1, <1>q
      <4>2. /\ pc[a] = "inj" /\ held' = [held EXCEPT ![a] = Head(injector)]
            /\ pc' = [pc EXCEPT ![a] = "step"]
            /\ UNCHANGED <<parked, early, slot, stopping, k, todo, ran, asleep, task>>
        BY <2>3, <3>1 DEF PopInjector, Begin
      <4> QED BY <4>1, <4>2 DEF task
    <3>2. CASE injector = << >>
      <4>1. /\ pc[a] = "inj" /\ todo' = [todo EXCEPT ![a] = Agents \ {a}]
            /\ pc' = [pc EXCEPT ![a] = "steal"]
            /\ UNCHANGED <<parked, early, slot, stopping, k, held, ran, asleep, task>>
        BY <2>3, <3>2 DEF PopInjector
      <4> QED BY <4>1 DEF task
    <3> QED BY <3>1, <3>2
  <2>4. ASSUME NEW v \in Agents, Steal(a, v) PROVE Scalars'
    BY <2>4, <1>q DEF Steal, task, Begin
  <2>5. ASSUME NEW v \in Agents, StealFails(a, v) PROVE Scalars'
    BY <2>5 DEF StealFails, work, task
  <2>6. CASE NoJob(a)  BY <2>6 DEF NoJob, work, task
  <2>7. CASE StepCompletes(a)  BY <2>7, <1>h DEF StepCompletes, work, LetGo
  <2>8. CASE StepYields(a)  BY <2>8 DEF StepYields, LetGo
  <2>9. CASE Surplus(a)  BY <2>9 DEF Surplus, work, task, local
  <2>10. CASE StepPends(a)  BY <2>10, <1>h DEF StepPends, work, local
  <2>11. CASE ParkJob(a)  BY <2>11, <1>h DEF ParkJob, LetGo, task
  <2>12. CASE AfterStep(a)  BY <2>12 DEF AfterStep, work, task, local
  <2>13. ASSUME NEW j \in Jobs, StepSpawns(a, j) PROVE Scalars'
    BY <2>13 DEF StepSpawns, local
  <2>14. CASE Publish(a)
    <3>1. CASE slot[a] = "RUNNING"  BY <2>14, <3>1 DEF Publish, work, task, local
    <3>2. CASE slot[a] # "RUNNING"  BY <2>14, <3>2 DEF Publish, work, task, local
    <3> QED BY <3>1, <3>2
  <2>15. CASE RecheckStays(a)  BY <2>15 DEF RecheckStays, work, task
  <2>16. CASE RecheckGoesOn(a)
    <3>1. CASE k[a] < N  BY <2>16, <3>1 DEF RecheckGoesOn, work, task
    <3>2. CASE ~(k[a] < N)  BY <2>16, <3>2 DEF RecheckGoesOn, work, task
    <3> QED BY <3>1, <3>2
  <2>17. CASE Sleep(a)
    <3>1. CASE slot[a] = "PARKED"  BY <2>17, <3>1 DEF Sleep, work, task, local
    <3>2. CASE slot[a] # "PARKED"  BY <2>17, <3>2 DEF Sleep, work, task, local
    <3> QED BY <3>1, <3>2
  <2>18. CASE Woken(a)  BY <2>18 DEF Woken, work, task, local
  <2>19. CASE SpuriousWake(a)  BY <2>19 DEF SpuriousWake, work, task, local
  <2> QED BY <1>2, <2>1, <2>2, <2>3, <2>4, <2>5, <2>6, <2>7, <2>8, <2>9, <2>10, <2>11, <2>12,
             <2>13, <2>14, <2>15, <2>16, <2>17, <2>18, <2>19 DEF AgentStep
<1>3. ASSUME NEW x \in Actors, Notify(x) PROVE Scalars'
  <2>1. CASE NotifyOne(x)
    <3>1. pc[x] = "notify" /\ k[x] \in Agents /\ UNCHANGED <<work, stopping, todo, held, ran, task>>
      BY <2>1 DEF NotifyOne
    <3>2. CASE slot[k[x]] = "PARKED"
      <4>1. /\ slot' = [slot EXCEPT ![k[x]] = "NOTIFIED"]
            /\ k' = [k EXCEPT ![x] = 0]
            /\ asleep' = asleep \ {k[x]}
            /\ pc' = [pc EXCEPT ![x] = Return(x), ![k[x]] = IF k[x] \in asleep THEN "woken" ELSE @]
        BY <2>1, <3>2 DEF NotifyOne, WakeAgent
      <4>2. Return(x) \in AgentPC \cup HostPC /\ (x \in Hosts => Return(x) = "idle")
            /\ (x \in Agents => Return(x) = IF held[x] # None THEN "step" ELSE "after")
        BY DEF Return
      <4> QED BY <3>1, <4>1, <4>2 DEF work, task
    <3>3. CASE slot[k[x]] # "PARKED"
      BY <2>1, <3>1, <3>3 DEF NotifyOne, work, task
    <3> QED BY <3>2, <3>3
  <2>2. CASE NotifyNobody(x)  BY <2>2 DEF NotifyNobody, Return, work, task
  <2> QED BY <1>3, <2>1, <2>2 DEF Notify
<1>4. ASSUME NEW h \in Hosts, NEW j \in Jobs, Spawn(h, j) PROVE Scalars'
  BY <1>4 DEF Spawn, local
<1>5. ASSUME NEW h \in Hosts, NEW j \in Jobs, EventFires(h, j) PROVE Scalars'
  <2>1. CASE j \in parked  BY <1>5, <2>1 DEF EventFires, Wake, local
  <2>2. CASE j \notin parked  BY <1>5, <2>2 DEF EventFires, Wake, local
  <2> QED BY <2>1, <2>2
<1>6. ASSUME NEW h \in Hosts, NEW j \in Jobs, StrayWake(h, j) PROVE Scalars'
  <2>1. CASE j \in parked
    <3>1. /\ strays > 0 /\ strays' = strays - 1 /\ parked' = parked \ {j}
          /\ pc' = [pc EXCEPT ![h] = "notify"]
          /\ UNCHANGED <<early, slot, stopping, k, todo, held, ran, asleep,
                         spawned, finished, waiting, left>>
      BY <1>6, <2>1 DEF StrayWake, Wake, local
    <3> QED BY <3>1
  <2>2. CASE j \notin parked  BY <1>6, <2>2 DEF StrayWake, Wake, local
  <2> QED BY <2>1, <2>2
<1>7. ASSUME NEW h \in Hosts, Shutdown(h) PROVE Scalars'
  BY <1>7 DEF Shutdown, work, local, task
<1>8. ASSUME NEW h \in Hosts, ShutdownNotifies(h) PROVE Scalars'
  BY <1>8 DEF ShutdownNotifies, WakeAgent, work, task
<1>9. ASSUME NEW h \in Hosts, ShutdownReturns(h) PROVE Scalars'
  BY <1>9 DEF ShutdownReturns, work, task
<1> QED BY <1>1, <1>2, <1>3, <1>4, <1>5, <1>6, <1>7, <1>8, <1>9 DEF Next

\* Every step leaves each actor where the code can be: an agent holds a job exactly
\* while it steps, parks or notifies from inside a step; a scan has a turn only while it
\* is under way; only an agent in park(slot, PARKED) sleeps.
LEMMA ControlStep ==
    ASSUME TypeOK, Control, PlacesInv, [Next]_vars
    PROVE  Control'
<1>s. Scalars /\ Queues
  BY TypeSplit
<1>h. \A a \in Agents : held[a] # None => held[a] \in Jobs /\ held[a] \in spawned \ finished
  BY HeldAlive
<1>q. /\ \A a \in Agents : deque[a] # << >> => Last(deque[a]) \in Jobs /\ Head(deque[a]) \in Jobs
      /\ injector # << >> => Head(injector) \in Jobs
  BY <1>s, FrontSet, TailSet DEF Queues
<1>t. /\ pc \in [Actors -> AgentPC \cup HostPC] /\ k \in [Actors -> 0 .. N + 1]
      /\ held \in [Agents -> Jobs \cup {None}] /\ asleep \subseteq Agents
      /\ slot \in [Agents -> {"RUNNING", "PARKED", "NOTIFIED"}]
  BY <1>s DEF Scalars
<1> USE <1>t, ActorFacts, NoneAssumption DEF Control, AgentPC, HostPC, At, Goto
<1>1. CASE UNCHANGED vars
  BY <1>1 DEF vars, work, task, local
<1>2. ASSUME NEW a \in Agents, AgentStep(a) \/ SpuriousWake(a) PROVE Control'
  <2>1. CASE DriveOnce(a)  BY <2>1 DEF DriveOnce, work, task
  <2>2. CASE PopOwn(a)
    <3>1. CASE deque[a] # << >>
      <4>1. Last(deque[a]) \in Jobs  BY <3>1, <1>q
      <4>2. /\ pc[a] = "pop" /\ held' = [held EXCEPT ![a] = Last(deque[a])]
            /\ pc' = [pc EXCEPT ![a] = "step"]
            /\ UNCHANGED <<parked, early, slot, stopping, k, todo, ran, asleep, task>>
        BY <2>2, <3>1 DEF PopOwn, Begin
      <4> QED BY <4>1, <4>2 DEF task
    <3>2. CASE deque[a] = << >>  BY <2>2, <3>2 DEF PopOwn, task
    <3> QED BY <3>1, <3>2
  <2>3. CASE PopInjector(a)
    <3>1. CASE injector # << >>
      <4>1. Head(injector) \in Jobs  BY <3>1, <1>q
      <4>2. /\ pc[a] = "inj" /\ held' = [held EXCEPT ![a] = Head(injector)]
            /\ pc' = [pc EXCEPT ![a] = "step"]
            /\ UNCHANGED <<parked, early, slot, stopping, k, todo, ran, asleep, task>>
        BY <2>3, <3>1 DEF PopInjector, Begin
      <4> QED BY <4>1, <4>2 DEF task
    <3>2. CASE injector = << >>
      <4>1. /\ pc[a] = "inj" /\ todo' = [todo EXCEPT ![a] = Agents \ {a}]
            /\ pc' = [pc EXCEPT ![a] = "steal"]
            /\ UNCHANGED <<parked, early, slot, stopping, k, held, ran, asleep, task>>
        BY <2>3, <3>2 DEF PopInjector
      <4> QED BY <4>1 DEF task
    <3> QED BY <3>1, <3>2
  <2>4. ASSUME NEW v \in Agents, Steal(a, v) PROVE Control'
    BY <2>4, <1>q DEF Steal, task, Begin
  <2>5. ASSUME NEW v \in Agents, StealFails(a, v) PROVE Control'
    BY <2>5 DEF StealFails, work, task
  <2>6. CASE NoJob(a)  BY <2>6 DEF NoJob, work, task
  <2>7. CASE StepCompletes(a)  BY <2>7, <1>h DEF StepCompletes, work, LetGo
  <2>8. CASE StepYields(a)  BY <2>8 DEF StepYields, LetGo
  <2>9. CASE Surplus(a)  BY <2>9 DEF Surplus, work, task, local
  <2>10. CASE StepPends(a)  BY <2>10, <1>h DEF StepPends, work, local
  <2>11. CASE ParkJob(a)  BY <2>11, <1>h DEF ParkJob, LetGo, task
  <2>12. CASE AfterStep(a)  BY <2>12 DEF AfterStep, work, task, local
  <2>13. ASSUME NEW j \in Jobs, StepSpawns(a, j) PROVE Control'
    BY <2>13 DEF StepSpawns, local
  <2>14. CASE Publish(a)
    <3>1. CASE slot[a] = "RUNNING"  BY <2>14, <3>1 DEF Publish, work, task, local
    <3>2. CASE slot[a] # "RUNNING"  BY <2>14, <3>2 DEF Publish, work, task, local
    <3> QED BY <3>1, <3>2
  <2>15. CASE RecheckStays(a)  BY <2>15 DEF RecheckStays, work, task
  <2>16. CASE RecheckGoesOn(a)
    <3>1. CASE k[a] < N  BY <2>16, <3>1 DEF RecheckGoesOn, work, task
    <3>2. CASE ~(k[a] < N)  BY <2>16, <3>2 DEF RecheckGoesOn, work, task
    <3> QED BY <3>1, <3>2
  <2>17. CASE Sleep(a)
    <3>1. CASE slot[a] = "PARKED"  BY <2>17, <3>1 DEF Sleep, work, task, local
    <3>2. CASE slot[a] # "PARKED"  BY <2>17, <3>2 DEF Sleep, work, task, local
    <3> QED BY <3>1, <3>2
  <2>18. CASE Woken(a)  BY <2>18 DEF Woken, work, task, local
  <2>19. CASE SpuriousWake(a)  BY <2>19 DEF SpuriousWake, work, task, local
  <2> QED BY <1>2, <2>1, <2>2, <2>3, <2>4, <2>5, <2>6, <2>7, <2>8, <2>9, <2>10, <2>11, <2>12,
             <2>13, <2>14, <2>15, <2>16, <2>17, <2>18, <2>19 DEF AgentStep
<1>3. ASSUME NEW x \in Actors, Notify(x) PROVE Control'
  <2>1. CASE NotifyOne(x)
    <3>1. pc[x] = "notify" /\ k[x] \in Agents /\ UNCHANGED <<work, stopping, todo, held, ran, task>>
      BY <2>1 DEF NotifyOne
    <3>2. CASE slot[k[x]] = "PARKED"
      <4>1. /\ slot' = [slot EXCEPT ![k[x]] = "NOTIFIED"]
            /\ k' = [k EXCEPT ![x] = 0]
            /\ asleep' = asleep \ {k[x]}
            /\ pc' = [pc EXCEPT ![x] = Return(x), ![k[x]] = IF k[x] \in asleep THEN "woken" ELSE @]
        BY <2>1, <3>2 DEF NotifyOne, WakeAgent
      <4>2. Return(x) \in AgentPC \cup HostPC /\ (x \in Hosts => Return(x) = "idle")
            /\ (x \in Agents => Return(x) = IF held[x] # None THEN "step" ELSE "after")
        BY DEF Return
      <4> QED BY <3>1, <4>1, <4>2
    <3>3. CASE slot[k[x]] # "PARKED"
      BY <2>1, <3>1, <3>3 DEF NotifyOne, work, task
    <3> QED BY <3>2, <3>3
  <2>2. CASE NotifyNobody(x)  BY <2>2 DEF NotifyNobody, Return, work, task
  <2> QED BY <1>3, <2>1, <2>2 DEF Notify
<1>4. ASSUME NEW h \in Hosts, NEW j \in Jobs, Spawn(h, j) PROVE Control'
  BY <1>4 DEF Spawn, local
<1>5. ASSUME NEW h \in Hosts, NEW j \in Jobs, EventFires(h, j) PROVE Control'
  <2>1. CASE j \in parked  BY <1>5, <2>1 DEF EventFires, Wake, local
  <2>2. CASE j \notin parked  BY <1>5, <2>2 DEF EventFires, Wake, local
  <2> QED BY <2>1, <2>2
<1>6. ASSUME NEW h \in Hosts, NEW j \in Jobs, StrayWake(h, j) PROVE Control'
  <2>1. CASE j \in parked  BY <1>6, <2>1 DEF StrayWake, Wake, local
  <2>2. CASE j \notin parked  BY <1>6, <2>2 DEF StrayWake, Wake, local
  <2> QED BY <2>1, <2>2
<1>7. ASSUME NEW h \in Hosts, Shutdown(h) PROVE Control'
  BY <1>7 DEF Shutdown, work, local, task
<1>8. ASSUME NEW h \in Hosts, ShutdownNotifies(h) PROVE Control'
  BY <1>8 DEF ShutdownNotifies, WakeAgent, work, task
<1>9. ASSUME NEW h \in Hosts, ShutdownReturns(h) PROVE Control'
  BY <1>9 DEF ShutdownReturns, work, task
<1> QED BY <1>1, <1>2, <1>3, <1>4, <1>5, <1>6, <1>7, <1>8, <1>9 DEF Next
-----------------------------------------------------------------------------
(* Places: a step moves at most one job, from one place to one other. *)

\* The spots by name, and the jobs that have to be in one.
Inj == <<"injector", 0>>
Prk == <<"parked", 0>>
Dq(a) == <<"deque", a>>
Hd(a) == <<"held", a>>
Alive == spawned \ finished

\* The spots, and that they are all different.
LEMMA SpotFacts ==
    /\ Inj \in Spots /\ Prk \in Spots /\ Inj # Prk
    /\ \A a \in Agents : /\ Dq(a) \in Spots /\ Hd(a) \in Spots
                         /\ Dq(a) # Inj /\ Dq(a) # Prk /\ Hd(a) # Inj /\ Hd(a) # Prk
    /\ \A a, b \in Agents : Dq(a) # Hd(b) /\ (a # b => Dq(a) # Dq(b) /\ Hd(a) # Hd(b))
    /\ \A p \in Spots : p = Inj \/ p = Prk \/ \E a \in Agents : p = Dq(a) \/ p = Hd(a)
BY DEF Spots, Inj, Prk, Dq, Hd

\* What is in each spot, before and after a step.
LEMMA ContentFacts ==
    /\ Content(Inj) = ToSet(injector) /\ Content(Prk) = parked
    /\ \A a \in Agents : Content(Dq(a)) = ToSet(deque[a]) /\ Content(Hd(a)) = {held[a]} \ {None}
    /\ Content(Inj)' = ToSet(injector') /\ Content(Prk)' = parked'
    /\ \A a \in Agents : Content(Dq(a))' = ToSet(deque'[a]) /\ Content(Hd(a))' = {held'[a]} \ {None}
BY DEF Content, Inj, Prk, Dq, Hd

\* What a step may do to the contents of the spots: nothing, move job j from p to q, put
\* a new job in q, or take a finished one out of p.
Same(S) == \A p \in S : Content(p)' = Content(p)

Stay == Same(Spots) /\ Alive' = Alive
Move(j, p, q) ==
    /\ p \in Spots /\ q \in Spots /\ p # q
    /\ j \in Content(p)
    /\ Content(p)' = Content(p) \ {j} /\ Content(q)' = Content(q) \cup {j}
    /\ Same(Spots \ {p, q})
    /\ Alive' = Alive
Arrive(j, q) ==
    /\ q \in Spots /\ j \in Jobs \ Alive
    /\ Content(q)' = Content(q) \cup {j}
    /\ Same(Spots \ {q})
    /\ Alive' = Alive \cup {j}
Leave(j, p) ==
    /\ p \in Spots /\ j \in Content(p)
    /\ Content(p)' = Content(p) \ {j}
    /\ Same(Spots \ {p})
    /\ Alive' = Alive \ {j}

\* Only jobs are in the spots.
Contents == \A p \in Spots : Content(p) \subseteq Jobs

\* Contents holds of well-typed states.
LEMMA ContentsType == ASSUME TypeOK PROVE Contents
<1>1. ToSet(injector) \subseteq Jobs /\ \A a \in Agents : ToSet(deque[a]) \subseteq Jobs
  BY SeqSet DEF TypeOK
<1>2. parked \subseteq Jobs /\ \A a \in Agents : {held[a]} \ {None} \subseteq Jobs
  BY DEF TypeOK
<1> QED BY <1>1, <1>2, SpotFacts, ContentFacts DEF Contents

\* Moving, adding or removing one job keeps every job in one spot at most, and the jobs
\* in the spots those that were spawned and have not finished.
LEMMA Moves ==
    ASSUME Contents, Apart, Kept,
           Stay \/ \E j \in Jobs, p, q \in Spots : Move(j, p, q) \/ Arrive(j, q) \/ Leave(j, p)
    PROVE  Apart' /\ Kept'
<1> USE DEF Contents, Same
<1>a. \A j, p, q : p \in Spots /\ q \in Spots /\ j \in Content(p) /\ j \in Content(q) => p = q
  BY DEF Apart
<1>k. \A j \in Jobs : j \in Alive <=> \E p \in Spots : j \in Content(p)
  BY DEF Kept, Alive
<1>s. Spots' = Spots
  BY DEF Spots
<1>0. ASSUME \A j \in Jobs, p \in Spots, q \in Spots :
                 j \in Content(p)' /\ j \in Content(q)' => p = q,
             \A p \in Spots : Content(p)' \subseteq Jobs,
             \A j \in Jobs : j \in Alive' <=> \E p \in Spots : j \in Content(p)'
      PROVE  Apart' /\ Kept'
  BY <1>0, <1>s DEF Apart, Kept, Alive
<1>1. CASE Stay
  BY <1>1, <1>a, <1>k, <1>0 DEF Stay
<1>2. ASSUME NEW j \in Jobs, NEW p \in Spots, NEW q \in Spots, Move(j, p, q) PROVE Apart' /\ Kept'
  <2>1. \A r \in Spots : Content(r)' = IF r = p THEN Content(r) \ {j}
                                       ELSE IF r = q THEN Content(r) \cup {j} ELSE Content(r)
    BY <1>2 DEF Move
  <2>2. \A r \in Spots : j \in Content(r) => r = p
    BY <1>2, <1>a DEF Move
  <2>3. \A i \in Jobs : i # j => \A r \in Spots : i \in Content(r)' <=> i \in Content(r)
    BY <2>1
  <2>4. \A r \in Spots : j \in Content(r)' <=> r = q
    BY <2>1, <2>2, <1>2 DEF Move
  <2>5. \A i \in Jobs, r \in Spots, t \in Spots : i \in Content(r)' /\ i \in Content(t)' => r = t
    BY <2>3, <2>4, <1>a
  <2>6. \A r \in Spots : Content(r)' \subseteq Jobs
    BY <2>1
  <2>7. \A i \in Jobs : i \in Alive' <=> \E r \in Spots : i \in Content(r)'
    BY <2>3, <2>4, <1>k, <1>2 DEF Move
  <2> QED BY <2>5, <2>6, <2>7, <1>0
<1>3. ASSUME NEW j \in Jobs, NEW q \in Spots, Arrive(j, q) PROVE Apart' /\ Kept'
  <2>1. \A r \in Spots : Content(r)' = IF r = q THEN Content(r) \cup {j} ELSE Content(r)
    BY <1>3 DEF Arrive
  <2>2. \A r \in Spots : j \notin Content(r)
    BY <1>3, <1>k DEF Arrive
  <2>5. \A i \in Jobs, r \in Spots, t \in Spots : i \in Content(r)' /\ i \in Content(t)' => r = t
    BY <2>1, <2>2, <1>a
  <2>6. \A r \in Spots : Content(r)' \subseteq Jobs
    BY <2>1
  <2>7. \A i \in Jobs : i \in Alive' <=> \E r \in Spots : i \in Content(r)'
    BY <2>1, <1>k, <1>3 DEF Arrive
  <2> QED BY <2>5, <2>6, <2>7, <1>0
<1>4. ASSUME NEW j \in Jobs, NEW p \in Spots, Leave(j, p) PROVE Apart' /\ Kept'
  <2>1. \A r \in Spots : Content(r)' = IF r = p THEN Content(r) \ {j} ELSE Content(r)
    BY <1>4 DEF Leave
  <2>2. \A r \in Spots : j \in Content(r) => r = p
    BY <1>4, <1>a DEF Leave
  <2>5. \A i \in Jobs, r \in Spots, t \in Spots : i \in Content(r)' /\ i \in Content(t)' => r = t
    BY <2>1, <1>a
  <2>6. \A r \in Spots : Content(r)' \subseteq Jobs
    BY <2>1
  <2>7. \A i \in Jobs : i \in Alive' <=> \E r \in Spots : i \in Content(r)'
    BY <2>1, <2>2, <1>k, <1>4 DEF Leave
  <2> QED BY <2>5, <2>6, <2>7, <1>0
<1> QED BY <1>1, <1>2, <1>3, <1>4

\* The steps of the cluster, as the spots see them.
Moved == \/ Stay
         \/ \E j \in Jobs, p, q \in Spots : Move(j, p, q) \/ Arrive(j, q) \/ Leave(j, p)

\* A job in an agent's hands is nowhere else.
LEMMA HeldOnly ==
    ASSUME TypeOK, PlacesInv, NEW a \in Agents, held[a] # None
    PROVE  /\ held[a] \in Jobs /\ held[a] \in Alive
           /\ held[a] \in Content(Hd(a)) /\ Content(Hd(a)) = {held[a]}
           /\ held[a] \notin ToSet(injector) /\ held[a] \notin parked
           /\ \A b \in Agents : held[a] \notin ToSet(deque[b])
<1>1. held[a] \in Jobs /\ held[a] \in Alive
  BY HeldAlive DEF Alive
<1>2. held[a] \in Content(Hd(a)) /\ Content(Hd(a)) = {held[a]}
  BY ContentFacts
<1>3. \A p \in Spots : held[a] \in Content(p) => p = Hd(a)
  BY <1>2, SpotFacts DEF PlacesInv, Apart
<1> QED BY <1>1, <1>2, <1>3, SpotFacts, ContentFacts

\* A job that was not spawned is nowhere.
LEMMA FreshNowhere ==
    ASSUME TypeOK, PlacesInv, NEW j \in Jobs \ spawned
    PROVE  /\ \A p \in Spots : j \notin Content(p)
           /\ j \notin Alive
           /\ j \notin ToSet(injector) /\ \A b \in Agents : j \notin ToSet(deque[b])
BY SpotFacts, ContentFacts DEF PlacesInv, Kept, TypeOK, Alive

\* deposit puts a job in one queue.
LEMMA DepositPlace ==
    ASSUME TypeOK, NoRepeats, NEW a \in Agents, NEW j \in Jobs, Deposit(a, j),
           j \notin ToSet(injector), j \notin ToSet(deque[a])
    PROVE  /\ NoRepeats'
           /\ \E q \in {Inj, Dq(a)} :
                /\ Content(q)' = Content(q) \cup {j}
                /\ q # Inj => Content(Inj)' = Content(Inj)
                /\ \A b \in Agents : q # Dq(b) => Content(Dq(b))' = Content(Dq(b))
<1>1. injector \in Seq(Jobs) /\ deque[a] \in Seq(Jobs) /\ deque \in [Agents -> Seq(Jobs)]
  BY DEF TypeOK
<1>2. CASE Len(deque[a]) < Capacity
  <2>1. deque' = [deque EXCEPT ![a] = Append(deque[a], j)] /\ injector' = injector
    BY <1>2 DEF Deposit
  <2>2. /\ ToSet(Append(deque[a], j)) = ToSet(deque[a]) \cup {j}
        /\ IsInjective(Append(deque[a], j))
    BY <1>1, AppendSet DEF NoRepeats
  <2>3. NoRepeats'
    BY <2>1, <2>2, <1>1 DEF NoRepeats
  <2>4. Content(Dq(a))' = Content(Dq(a)) \cup {j} /\ Content(Inj)' = Content(Inj)
        /\ \A b \in Agents : b # a => Content(Dq(b))' = Content(Dq(b))
    BY <2>1, <2>2, <1>1, ContentFacts
  <2> QED BY <2>3, <2>4
<1>3. CASE ~(Len(deque[a]) < Capacity)
  <2>1. injector' = Append(injector, j) /\ deque' = deque
    BY <1>3 DEF Deposit
  <2>2. ToSet(Append(injector, j)) = ToSet(injector) \cup {j} /\ IsInjective(Append(injector, j))
    BY <1>1, AppendSet DEF NoRepeats
  <2>3. NoRepeats'
    BY <2>1, <2>2 DEF NoRepeats
  <2>4. Content(Inj)' = Content(Inj) \cup {j} /\ \A b \in Agents : Content(Dq(b))' = Content(Dq(b))
    BY <2>1, <2>2, ContentFacts
  <2> QED BY <2>3, <2>4
<1> QED BY <1>2, <1>3

\* An agent that lets its job go and deposits it.
LEMMA DepositHeld ==
    ASSUME TypeOK, PlacesInv, NEW a \in Agents, held[a] # None,
           Deposit(a, held[a]), held' = [held EXCEPT ![a] = None],
           parked' = parked, Alive' = Alive
    PROVE  NoRepeats' /\ Moved
<1>1. held[a] \in Jobs /\ held[a] \notin ToSet(injector) /\ held[a] \notin ToSet(deque[a])
      /\ Content(Hd(a)) = {held[a]}
  BY HeldOnly
<1>2. NoRepeats'
  BY <1>1, DepositPlace DEF PlacesInv
<1>3. PICK q \in {Inj, Dq(a)} :
        /\ Content(q)' = Content(q) \cup {held[a]}
        /\ q # Inj => Content(Inj)' = Content(Inj)
        /\ \A b \in Agents : q # Dq(b) => Content(Dq(b))' = Content(Dq(b))
  BY <1>1, DepositPlace DEF PlacesInv
<1>4. Content(Prk)' = Content(Prk) /\ Content(Hd(a))' = {}
      /\ \A b \in Agents : b # a => Content(Hd(b))' = Content(Hd(b))
  BY ContentFacts DEF TypeOK
<1>5. Move(held[a], Hd(a), q)
  BY <1>1, <1>3, <1>4, SpotFacts DEF Move, Same
<1> QED BY <1>1, <1>2, <1>5, SpotFacts DEF Moved

\* Every step leaves the jobs where they are, or moves, adds or removes one.
LEMMA PlacesStep == ASSUME TypeOK, Control, PlacesInv, [Next]_vars PROVE NoRepeats' /\ Moved
<1>t. /\ injector \in Seq(Jobs) /\ deque \in [Agents -> Seq(Jobs)]
      /\ held \in [Agents -> Jobs \cup {None}] /\ None \notin Jobs
  BY NoneAssumption DEF TypeOK
<1>n. IsInjective(injector) /\ \A a \in Agents : IsInjective(deque[a])
  BY DEF PlacesInv, NoRepeats
<1>0. ASSUME UNCHANGED <<injector, deque, parked, held, spawned, finished>> PROVE NoRepeats' /\ Moved
  <2>1. Same(Spots)
    BY <1>0, SpotFacts, ContentFacts DEF Same
  <2> QED BY <1>0, <2>1, <1>n DEF NoRepeats, Moved, Stay, Alive
<1>1. ASSUME NEW a \in Agents, PopOwn(a) PROVE NoRepeats' /\ Moved
  <2>1. CASE deque[a] = << >>
    BY <1>1, <2>1, <1>0 DEF PopOwn, task
  <2>2. CASE deque[a] # << >>
    <3> DEFINE j == Last(deque[a])
    <3>1. /\ held' = [held EXCEPT ![a] = j] /\ deque' = [deque EXCEPT ![a] = Front(deque[a])]
          /\ UNCHANGED <<injector, parked, spawned, finished>> /\ held[a] = None
      BY <1>1, <2>2 DEF PopOwn, Begin, task, At, Control
    <3>2. /\ j \in Jobs /\ j \in ToSet(deque[a])
          /\ IsInjective(Front(deque[a])) /\ ToSet(Front(deque[a])) = ToSet(deque[a]) \ {j}
      BY <2>2, <1>t, <1>n, FrontSet
    <3> HIDE DEF j
    <3>3. /\ Content(Dq(a))' = Content(Dq(a)) \ {j} /\ j \in Content(Dq(a))
          /\ Content(Hd(a))' = Content(Hd(a)) \cup {j}
          /\ Content(Inj)' = Content(Inj) /\ Content(Prk)' = Content(Prk)
          /\ \A b \in Agents : b # a =>
                Content(Dq(b))' = Content(Dq(b)) /\ Content(Hd(b))' = Content(Hd(b))
      BY <3>1, <3>2, <1>t, ContentFacts
    <3>4. Move(j, Dq(a), Hd(a))
      BY <3>1, <3>3, SpotFacts DEF Move, Same, Alive
    <3> QED BY <3>1, <3>2, <3>4, <1>n, <1>t, SpotFacts DEF NoRepeats, Moved
  <2> QED BY <2>1, <2>2
<1>2. ASSUME NEW a \in Agents, PopInjector(a) PROVE NoRepeats' /\ Moved
  <2>1. CASE injector = << >>
    BY <1>2, <2>1, <1>0 DEF PopInjector, task
  <2>2. CASE injector # << >>
    <3> DEFINE j == Head(injector)
    <3>1. /\ held' = [held EXCEPT ![a] = j] /\ injector' = Tail(injector)
          /\ UNCHANGED <<deque, parked, spawned, finished>> /\ held[a] = None
      BY <1>2, <2>2 DEF PopInjector, Begin, task, At, Control
    <3>2. /\ j \in Jobs /\ j \in ToSet(injector)
          /\ IsInjective(Tail(injector)) /\ ToSet(Tail(injector)) = ToSet(injector) \ {j}
      BY <2>2, <1>t, <1>n, TailSet
    <3> HIDE DEF j
    <3>3. /\ Content(Inj)' = Content(Inj) \ {j} /\ j \in Content(Inj)
          /\ Content(Hd(a))' = Content(Hd(a)) \cup {j}
          /\ Content(Prk)' = Content(Prk)
          /\ \A b \in Agents : /\ Content(Dq(b))' = Content(Dq(b))
                               /\ b # a => Content(Hd(b))' = Content(Hd(b))
      BY <3>1, <3>2, <1>t, ContentFacts
    <3>4. Move(j, Inj, Hd(a))
      BY <3>1, <3>3, SpotFacts DEF Move, Same, Alive
    <3> QED BY <3>1, <3>2, <3>4, <1>n, <1>t, SpotFacts DEF NoRepeats, Moved
  <2> QED BY <2>1, <2>2
<1>3. ASSUME NEW a \in Agents, NEW v \in Agents, Steal(a, v) PROVE NoRepeats' /\ Moved
  <2> DEFINE j == Head(deque[v])
  <2>1. /\ held' = [held EXCEPT ![a] = j] /\ deque' = [deque EXCEPT ![v] = Tail(deque[v])]
        /\ UNCHANGED <<injector, parked, spawned, finished>> /\ held[a] = None
        /\ deque[v] # << >>
    BY <1>3 DEF Steal, Begin, task, At, Control
  <2>2. /\ j \in Jobs /\ j \in ToSet(deque[v])
        /\ IsInjective(Tail(deque[v])) /\ ToSet(Tail(deque[v])) = ToSet(deque[v]) \ {j}
    BY <2>1, <1>t, <1>n, TailSet
  <2> HIDE DEF j
  <2>3. /\ Content(Dq(v))' = Content(Dq(v)) \ {j} /\ j \in Content(Dq(v))
        /\ Content(Hd(a))' = Content(Hd(a)) \cup {j}
        /\ Content(Inj)' = Content(Inj) /\ Content(Prk)' = Content(Prk)
        /\ \A b \in Agents : /\ b # v => Content(Dq(b))' = Content(Dq(b))
                             /\ b # a => Content(Hd(b))' = Content(Hd(b))
    BY <2>1, <2>2, <1>t, ContentFacts
  <2>4. Move(j, Dq(v), Hd(a))
    BY <2>1, <2>3, SpotFacts DEF Move, Same, Alive
  <2> QED BY <2>1, <2>2, <2>4, <1>n, <1>t, SpotFacts DEF NoRepeats, Moved
<1>4. ASSUME NEW a \in Agents, StepCompletes(a) PROVE NoRepeats' /\ Moved
  <2>1. /\ held[a] # None /\ held' = [held EXCEPT ![a] = None]
        /\ finished' = finished \cup {held[a]}
        /\ UNCHANGED <<injector, deque, parked, spawned>>
    BY <1>4 DEF StepCompletes, LetGo, At, Control, work
  <2>2. held[a] \in Jobs /\ Content(Hd(a)) = {held[a]}
    BY <2>1, HeldOnly
  <2>3. Leave(held[a], Hd(a))
    <3>1. /\ Content(Hd(a))' = {} /\ Content(Prk)' = Content(Prk) /\ Content(Inj)' = Content(Inj)
          /\ \A b \in Agents : /\ Content(Dq(b))' = Content(Dq(b))
                               /\ b # a => Content(Hd(b))' = Content(Hd(b))
      BY <2>1, <1>t, ContentFacts
    <3> QED BY <2>1, <2>2, <3>1, SpotFacts DEF Leave, Same, Alive
  <2> QED BY <2>1, <2>2, <2>3, <1>n, SpotFacts DEF NoRepeats, Moved
<1>5. ASSUME NEW a \in Agents, StepYields(a) PROVE NoRepeats' /\ Moved
  <2>1. /\ held[a] # None /\ held' = [held EXCEPT ![a] = None]
        /\ Deposit(a, held[a]) /\ parked' = parked /\ Alive' = Alive
    BY <1>5 DEF StepYields, LetGo, At, Control, Alive
  <2> QED BY <2>1, DepositHeld
<1>6. ASSUME NEW a \in Agents, ParkJob(a) PROVE NoRepeats' /\ Moved
  <2>1. held[a] # None /\ held' = [held EXCEPT ![a] = None] /\ Alive' = Alive
        /\ UNCHANGED <<spawned, finished>>
    BY <1>6 DEF ParkJob, LetGo, At, Control, task, Alive
  <2>2. CASE held[a] \in early
    BY <1>6, <2>1, <2>2, DepositHeld DEF ParkJob
  <2>3. CASE held[a] \notin early
    <3>1. parked' = parked \cup {held[a]} /\ UNCHANGED <<deque, injector>>
      BY <1>6, <2>3 DEF ParkJob
    <3>2. held[a] \in Jobs /\ Content(Hd(a)) = {held[a]}
      BY <2>1, HeldOnly
    <3>3. /\ Content(Hd(a))' = {} /\ Content(Prk)' = Content(Prk) \cup {held[a]}
          /\ Content(Inj)' = Content(Inj)
          /\ \A b \in Agents : /\ Content(Dq(b))' = Content(Dq(b))
                               /\ b # a => Content(Hd(b))' = Content(Hd(b))
      BY <2>1, <3>1, <1>t, ContentFacts
    <3>4. Move(held[a], Hd(a), Prk)
      BY <2>1, <3>2, <3>3, SpotFacts DEF Move, Same
    <3> QED BY <3>1, <3>2, <3>4, <1>n, SpotFacts DEF NoRepeats, Moved
  <2> QED BY <2>2, <2>3
<1>7. ASSUME NEW a \in Agents, NEW j \in Jobs, StepSpawns(a, j) PROVE NoRepeats' /\ Moved
  <2>1. j \notin spawned /\ spawned' = spawned \cup {j} /\ Deposit(a, j)
        /\ UNCHANGED <<parked, held, finished>>
    BY <1>7 DEF StepSpawns, local
  <2>2. j \notin Alive /\ j \notin ToSet(injector) /\ j \notin ToSet(deque[a])
    BY <2>1, FreshNowhere
  <2>3. NoRepeats'
    BY <2>1, <2>2, DepositPlace DEF PlacesInv
  <2>4. PICK q \in {Inj, Dq(a)} :
          /\ Content(q)' = Content(q) \cup {j}
          /\ q # Inj => Content(Inj)' = Content(Inj)
          /\ \A b \in Agents : q # Dq(b) => Content(Dq(b))' = Content(Dq(b))
    BY <2>1, <2>2, DepositPlace DEF PlacesInv
  <2>5. Content(Prk)' = Content(Prk) /\ \A b \in Agents : Content(Hd(b))' = Content(Hd(b))
    BY <2>1, ContentFacts
  <2>6. Alive' = Alive \cup {j}
    BY <2>1 DEF Alive, TypeOK
  <2>7. Arrive(j, q)
    BY <2>2, <2>4, <2>5, <2>6, SpotFacts DEF Arrive, Same
  <2> QED BY <2>3, <2>7, SpotFacts DEF Moved
<1>8. ASSUME NEW h \in Hosts, NEW j \in Jobs, Spawn(h, j) PROVE NoRepeats' /\ Moved
  <2>1. j \notin spawned /\ spawned' = spawned \cup {j} /\ injector' = Append(injector, j)
        /\ UNCHANGED <<deque, parked, held, finished>>
    BY <1>8 DEF Spawn, local
  <2>2. j \notin Alive /\ j \notin ToSet(injector)
    BY <2>1, FreshNowhere
  <2>3. ToSet(injector') = ToSet(injector) \cup {j} /\ IsInjective(injector')
    BY <2>1, <2>2, <1>t, <1>n, AppendSet
  <2>4. /\ Content(Inj)' = Content(Inj) \cup {j} /\ Content(Prk)' = Content(Prk)
        /\ \A b \in Agents : Content(Dq(b))' = Content(Dq(b)) /\ Content(Hd(b))' = Content(Hd(b))
    BY <2>1, <2>3, ContentFacts
  <2>5. Alive' = Alive \cup {j}
    BY <2>1 DEF Alive, TypeOK
  <2>6. Arrive(j, Inj)
    BY <2>2, <2>4, <2>5, SpotFacts DEF Arrive, Same
  <2> QED BY <2>1, <2>3, <2>6, <1>n, SpotFacts DEF NoRepeats, Moved
<1>9. ASSUME NEW h \in Hosts, NEW j \in Jobs, EventFires(h, j) \/ StrayWake(h, j)
      PROVE NoRepeats' /\ Moved
  <2>1. UNCHANGED <<deque, held, spawned, finished>> /\ Wake(h, j)
    BY <1>9 DEF EventFires, StrayWake, local
  <2>2. CASE j \notin parked
    BY <2>1, <2>2, <1>0 DEF Wake
  <2>3. CASE j \in parked
    <3>1. parked' = parked \ {j} /\ injector' = Append(injector, j)
      BY <2>1, <2>3 DEF Wake
    <3>2. j \notin ToSet(injector)
      BY <2>3, SpotFacts, ContentFacts DEF PlacesInv, Apart
    <3>3. ToSet(injector') = ToSet(injector) \cup {j} /\ IsInjective(injector')
      BY <3>1, <3>2, <1>t, <1>n, AppendSet
    <3>4. /\ Content(Inj)' = Content(Inj) \cup {j} /\ Content(Prk)' = Content(Prk) \ {j}
          /\ j \in Content(Prk)
          /\ \A b \in Agents : Content(Dq(b))' = Content(Dq(b)) /\ Content(Hd(b))' = Content(Hd(b))
      BY <2>1, <2>3, <3>1, <3>3, ContentFacts
    <3>5. Move(j, Prk, Inj)
      BY <2>1, <3>4, SpotFacts DEF Move, Same, Alive
    <3> QED BY <2>1, <3>3, <3>5, <1>n, SpotFacts DEF NoRepeats, Moved
  <2> QED BY <2>2, <2>3
<1>10. ASSUME NEW a \in Agents, AgentStep(a) PROVE NoRepeats' /\ Moved
  BY <1>10, <1>0, <1>1, <1>2, <1>3, <1>4, <1>5, <1>6, <1>7 DEF AgentStep, work, task, local,
     DriveOnce, StealFails, NoJob, Surplus, StepPends, AfterStep,
     Publish, RecheckStays, RecheckGoesOn, Sleep, Woken
<1>11. ASSUME NEW x \in Actors, Notify(x) PROVE NoRepeats' /\ Moved
  BY <1>11, <1>0 DEF Notify, NotifyOne, NotifyNobody, work, task
<1>12. ASSUME NEW a \in Agents, SpuriousWake(a) PROVE NoRepeats' /\ Moved
  BY <1>12, <1>0 DEF SpuriousWake, work, task, local
<1>13. ASSUME NEW h \in Hosts, Shutdown(h) \/ ShutdownNotifies(h) \/ ShutdownReturns(h)
       PROVE NoRepeats' /\ Moved
  BY <1>13, <1>0 DEF Shutdown, ShutdownNotifies, ShutdownReturns, work, task, local
<1>14. CASE UNCHANGED vars
  BY <1>14, <1>0 DEF vars, work, task, local
<1> QED BY <1>8, <1>9, <1>10, <1>11, <1>12, <1>13, <1>14 DEF Next
-----------------------------------------------------------------------------
(* Waiting, and wakes. *)

\* What the actions that wake or park do to the sets of jobs; every other
\* action leaves these sets, and who is about to park, alone.
WakeVars == <<parked, early, waiting, strays>>

Quiet ==
    /\ UNCHANGED WakeVars
    /\ \A a \in Agents : (pc'[a] = "park") <=> (pc[a] = "park")
    /\ \A a \in Agents : pc[a] = "park" => held'[a] = held[a]

\* Only StepPends, ParkJob, EventFires and StrayWake change who waits for which wake.
LEMMA MostlyQuiet ==
    ASSUME TypeOK, Control, [Next]_vars
    PROVE  \/ Quiet
           \/ \E a \in Agents : StepPends(a) \/ ParkJob(a)
           \/ \E h \in Hosts, j \in Jobs : EventFires(h, j) \/ StrayWake(h, j)
<1>t. pc \in [Actors -> AgentPC \cup HostPC] /\ held \in [Agents -> Jobs \cup {None}]
  BY TypeSplit DEF Scalars
<1>a. \A a \in Agents : a \in asleep => pc[a] = "sleep"
  BY DEF Control
<1> USE <1>t, ActorFacts DEF Quiet, WakeVars, At, Goto
<1>1. ASSUME NEW a \in Agents, AgentStep(a), ~StepPends(a), ~ParkJob(a) PROVE Quiet
  <2>1. CASE DriveOnce(a)  BY <2>1 DEF DriveOnce, work, task
  <2>2. CASE PopOwn(a)  BY <2>2 DEF PopOwn, Begin, task
  <2>3. CASE PopInjector(a)  BY <2>3 DEF PopInjector, Begin, task
  <2>4. ASSUME NEW v \in Agents, Steal(a, v) \/ StealFails(a, v) PROVE Quiet
    BY <2>4 DEF Steal, StealFails, Begin, work, task
  <2>5. CASE NoJob(a)  BY <2>5 DEF NoJob, work, task
  <2>6. CASE StepCompletes(a)  BY <2>6 DEF StepCompletes, LetGo, work
  <2>7. CASE StepYields(a)  BY <2>7 DEF StepYields, LetGo
  <2>8. CASE Surplus(a)  BY <2>8 DEF Surplus, work, task, local
  <2>11. CASE AfterStep(a)  BY <2>11 DEF AfterStep, work, task, local
  <2>12. ASSUME NEW j \in Jobs, StepSpawns(a, j) PROVE Quiet
    BY <2>12 DEF StepSpawns, local
  <2>13. CASE Publish(a)  BY <2>13 DEF Publish, work, task, local
  <2>14. CASE RecheckStays(a)  BY <2>14 DEF RecheckStays, work, task
  <2>15. CASE RecheckGoesOn(a)  BY <2>15 DEF RecheckGoesOn, work, task
  <2>16. CASE Sleep(a)  BY <2>16 DEF Sleep, work, task, local
  <2>17. CASE Woken(a)  BY <2>17 DEF Woken, work, task, local
  <2> QED BY <1>1, <2>1, <2>2, <2>3, <2>4, <2>5, <2>6, <2>7, <2>8, <2>11, <2>12,
             <2>13, <2>14, <2>15, <2>16, <2>17 DEF AgentStep
<1>2. ASSUME NEW x \in Actors, Notify(x) PROVE Quiet
  BY <1>2, <1>a DEF Notify, NotifyOne, NotifyNobody, WakeAgent, Return, work, task
<1>3. ASSUME NEW a \in Agents, SpuriousWake(a) PROVE Quiet
  BY <1>3, <1>a DEF SpuriousWake, work, task, local
<1>4. ASSUME NEW h \in Hosts, NEW j \in Jobs, Spawn(h, j) PROVE Quiet
  BY <1>4 DEF Spawn, local
<1>7. ASSUME NEW h \in Hosts, Shutdown(h) \/ ShutdownNotifies(h) \/ ShutdownReturns(h)
      PROVE Quiet
  BY <1>7, <1>a DEF Shutdown, ShutdownNotifies, WakeAgent, ShutdownReturns, work, task, local
<1>8. CASE UNCHANGED vars
  BY <1>8 DEF vars, work, task, local
<1> QED BY <1>1, <1>2, <1>3, <1>4, <1>7, <1>8 DEF Next

\* Parked::park and Parked::wake: a step never parks a job whose wake has come, and an
\* event that fires takes its job out of the parked set or leaves it the early wake.
LEMMA WaitStep ==
    ASSUME TypeOK, Control, PlacesInv, WaitInv, [Next]_vars
    PROVE  WaitInv'
<1>c. \A a, b \in Agents : held[a] # None /\ held[a] = held[b] => a = b
  BY HeldOnly, SpotFacts, ContentFacts DEF PlacesInv, Apart
<1>h. \A a \in Agents : held[a] # None => held[a] \in Jobs /\ held[a] \notin parked
  BY HeldOnly
<1>t. pc \in [Actors -> AgentPC \cup HostPC] /\ held \in [Agents -> Jobs \cup {None}]
  BY TypeSplit DEF Scalars
<1>p. \A a \in Agents : pc[a] = "park" => held[a] # None
  BY DEF Control
<1> USE <1>t, ActorFacts DEF WaitInv, AboutToPark, At, Goto
<1>1. CASE Quiet
  BY <1>1 DEF Quiet, WakeVars
<1>2. ASSUME NEW a \in Agents, StepPends(a) PROVE WaitInv'
  BY <1>2 DEF StepPends, work, local
<1>3. ASSUME NEW a \in Agents, ParkJob(a) PROVE WaitInv'
  BY <1>3, <1>c, <1>h, <1>p DEF ParkJob, LetGo, task
<1>4. ASSUME NEW h \in Hosts, NEW j \in Jobs, EventFires(h, j) PROVE WaitInv'
  <2>1. CASE j \in parked  BY <1>4, <2>1, <1>h, <1>p DEF EventFires, Wake, local
  <2>2. CASE j \notin parked  BY <1>4, <2>2 DEF EventFires, Wake, local
  <2> QED BY <2>1, <2>2
<1>5. ASSUME NEW h \in Hosts, NEW j \in Jobs, StrayWake(h, j) PROVE WaitInv'
  BY <1>5 DEF StrayWake, Wake, local
<1> QED BY <1>1, <1>2, <1>3, <1>4, <1>5, MostlyQuiet

\* A stray wake adds one job at most to the unclaimed, and nothing else adds any:
\* an event's wake finds its job parked or about to be, or the job had swallowed
\* a stray wake before and is counted already.
LEMMA StrayStep ==
    ASSUME TypeOK, Control, PlacesInv, WaitInv, StrayInv, [Next]_vars
    PROVE  StrayInv'
<1>c. \A a, b \in Agents : held[a] # None /\ held[a] = held[b] => a = b
  BY HeldOnly, SpotFacts, ContentFacts DEF PlacesInv, Apart
<1>h. \A a \in Agents : held[a] # None => held[a] \in Jobs /\ held[a] \notin parked
  BY HeldOnly
<1>t. /\ pc \in [Actors -> AgentPC \cup HostPC] /\ held \in [Agents -> Jobs \cup {None}]
      /\ strays \in Nat /\ Strays \in Nat
  BY TypeSplit, Constants DEF Scalars
<1>p. \A a \in Agents : pc[a] \in {"step", "park"} => held[a] # None
  BY DEF Control
<1>f. ASSUME Unclaimed' \subseteq Unclaimed, strays' = strays PROVE StrayInv'
  <2>1. IsFiniteSet(Unclaimed') /\ Cardinality(Unclaimed') <= Cardinality(Unclaimed)
        /\ Cardinality(Unclaimed') \in Nat /\ Cardinality(Unclaimed) \in Nat
    BY <1>f, FS_Subset, FS_CardinalityType DEF StrayInv
  <2> QED BY <2>1, <1>f, <1>t DEF StrayInv
<1> USE <1>t, ActorFacts DEF At, Goto
<1>1. CASE Quiet
  <2>1. \A j : AtPark(j)' <=> AtPark(j)
    BY <1>1 DEF Quiet, AtPark
  <2> QED BY <1>1, <2>1, <1>f DEF Quiet, WakeVars, Unclaimed
<1>2. ASSUME NEW a \in Agents, StepPends(a) PROVE StrayInv'
  <2>1. /\ UNCHANGED <<parked, early, strays, held>> /\ waiting' = waiting \cup {held[a]}
        /\ pc[a] = "step" /\ pc' = [pc EXCEPT ![a] = "park"]
    BY <1>2 DEF StepPends, work, local
  <2>2. held[a] # None /\ held[a] \notin parked
    BY <2>1, <1>p, <1>h
  <2>3. ~AtPark(held[a])
    BY <2>1, <2>2, <1>c DEF AtPark
  <2>4. \A j : AtPark(j)' <=> (AtPark(j) \/ j = held[a])
    BY <2>1 DEF AtPark
  <2>5. Unclaimed' \subseteq Unclaimed
    BY <2>1, <2>2, <2>3, <2>4 DEF Unclaimed
  <2> QED BY <2>1, <2>5, <1>f
<1>3. ASSUME NEW a \in Agents, ParkJob(a) PROVE StrayInv'
  <2>1. /\ UNCHANGED <<waiting, strays>> /\ held' = [held EXCEPT ![a] = None]
        /\ pc[a] = "park" /\ pc' = [pc EXCEPT ![a] = "after"]
        /\ held[a] \in early => early' = early \ {held[a]} /\ parked' = parked
        /\ held[a] \notin early => parked' = parked \cup {held[a]} /\ early' = early
    BY <1>3 DEF ParkJob, LetGo, task
  <2>2. held[a] # None /\ held[a] \notin parked /\ held[a] \in waiting \cup early
    BY <2>1, <1>p, <1>h DEF WaitInv, AboutToPark
  <2>3. \A j : AtPark(j)' <=> (AtPark(j) /\ j # held[a])
    BY <2>1, <2>2, <1>c DEF AtPark
  <2>4. AtPark(held[a])
    BY <2>1 DEF AtPark
  <2>5. Unclaimed' \subseteq Unclaimed
    BY <2>1, <2>2, <2>3, <2>4 DEF Unclaimed
  <2> QED BY <2>1, <2>5, <1>f
<1>4. ASSUME NEW h \in Hosts, NEW j \in Jobs, EventFires(h, j) \/ StrayWake(h, j)
      PROVE  \A i : AtPark(i)' <=> AtPark(i)
  <2>1. held' = held /\ \A a \in Agents : pc'[a] = pc[a]
    BY <1>4 DEF EventFires, StrayWake, Wake, local
  <2> QED BY <2>1 DEF AtPark
<1>5. ASSUME NEW h \in Hosts, NEW j \in Jobs, EventFires(h, j) PROVE StrayInv'
  <2>1. /\ strays' = strays /\ waiting' = waiting \ {j} /\ j \in waiting
        /\ j \in parked => parked' = parked \ {j} /\ early' = early
        /\ j \notin parked => parked' = parked /\ early' = early \cup {j}
    BY <1>5 DEF EventFires, Wake
  <2>2. j \in parked => ~AtPark(j)
    BY <1>h, <1>p DEF AtPark
  <2>3. Unclaimed' \subseteq Unclaimed
    BY <2>1, <2>2, <1>4, <1>5 DEF Unclaimed
  <2> QED BY <2>1, <2>3, <1>f
<1>6. ASSUME NEW h \in Hosts, NEW j \in Jobs, StrayWake(h, j) PROVE StrayInv'
  <2>1. /\ strays' = strays - 1 /\ waiting' = waiting /\ j \notin waiting
        /\ parked' \subseteq parked /\ early' \subseteq early \cup {j}
        /\ parked \ {j} \subseteq parked'
    BY <1>6 DEF StrayWake, Wake
  <2>2. Unclaimed' \subseteq Unclaimed \cup {j}
    BY <2>1, <1>4, <1>6 DEF Unclaimed
  <2>3. IsFiniteSet(Unclaimed \cup {j}) /\ Cardinality(Unclaimed \cup {j}) <= Cardinality(Unclaimed) + 1
        /\ Cardinality(Unclaimed) \in Nat
    <3>1. IsFiniteSet(Unclaimed)  BY DEF StrayInv
    <3>2. Cardinality(Unclaimed) \in Nat  BY <3>1, FS_CardinalityType
    <3>3. IsFiniteSet(Unclaimed \cup {j})
          /\ Cardinality(Unclaimed \cup {j}) = IF j \in Unclaimed THEN Cardinality(Unclaimed)
                                               ELSE Cardinality(Unclaimed) + 1
      BY <3>1, FS_AddElement
    <3> QED BY <3>1, <3>2, <3>3
  <2>4. IsFiniteSet(Unclaimed') /\ Cardinality(Unclaimed') <= Cardinality(Unclaimed \cup {j})
        /\ Cardinality(Unclaimed') \in Nat /\ Cardinality(Unclaimed \cup {j}) \in Nat
    BY <2>2, <2>3, FS_Subset, FS_CardinalityType
  <2> QED BY <2>1, <2>3, <2>4 DEF StrayInv
<1> QED BY <1>1, <1>2, <1>3, <1>5, <1>6, MostlyQuiet
-----------------------------------------------------------------------------
(* Going to sleep. *)

\* Nobody becomes blind to work: a step that makes agent a blind to place i has
\* just seen that there is no work there; and only before a shutdown.
LEMMA BlindStep ==
    ASSUME TypeOK, Control, [Next]_vars,
           NEW a \in Agents, NEW i \in 0 .. N, Blind(a, i)', ~Blind(a, i)
    PROVE  /\ ~SeesWork(i) /\ ~SeesWork(i)'
           /\ i = 0 => ~stopping /\ stopping' = stopping
<1>t. /\ pc \in [Actors -> AgentPC \cup HostPC] /\ held \in [Agents -> Jobs \cup {None}]
      /\ slot \in [Agents -> {"RUNNING", "PARKED", "NOTIFIED"}]
      /\ k \in [Actors -> 0 .. N + 1]
  BY TypeSplit DEF Scalars
<1>a. \A b \in Agents : /\ b \in asleep => pc[b] = "sleep"
                        /\ k[b] \in 0 .. N
                        /\ k[b] # 0 => pc[b] \in {"recheck", "notify"}
  BY DEF Control
<1> USE <1>t, <1>a, ActorFacts DEF At, Goto, Blind
<1>1. ASSUME NEW b \in Agents, AgentStep(b), ~RecheckGoesOn(b) PROVE FALSE
  <2>1. CASE DriveOnce(b)  BY <2>1 DEF DriveOnce
  <2>2. CASE PopOwn(b)  BY <2>2 DEF PopOwn, Begin
  <2>3. CASE PopInjector(b)  BY <2>3 DEF PopInjector, Begin
  <2>4. ASSUME NEW v \in Agents, Steal(b, v) \/ StealFails(b, v) PROVE FALSE
    BY <2>4 DEF Steal, StealFails, Begin
  <2>5. CASE NoJob(b)  BY <2>5 DEF NoJob
  <2>6. CASE StepCompletes(b)  BY <2>6 DEF StepCompletes
  <2>7. CASE StepYields(b)  BY <2>7 DEF StepYields
  <2>8. CASE Surplus(b)  BY <2>8 DEF Surplus, local
  <2>9. CASE StepPends(b)  BY <2>9 DEF StepPends, local
  <2>10. CASE ParkJob(b)  BY <2>10 DEF ParkJob
  <2>11. CASE AfterStep(b)  BY <2>11 DEF AfterStep, local
  <2>12. ASSUME NEW j \in Jobs, StepSpawns(b, j) PROVE FALSE
    BY <2>12 DEF StepSpawns, local
  <2>13. CASE Publish(b)  BY <2>13 DEF Publish, local
  <2>14. CASE RecheckStays(b)  BY <2>14 DEF RecheckStays
  <2>16. CASE Sleep(b)  BY <2>16 DEF Sleep, local
  <2>17. CASE Woken(b)  BY <2>17 DEF Woken, local
  <2> QED BY <1>1, <2>1, <2>2, <2>3, <2>4, <2>5, <2>6, <2>7, <2>8, <2>9, <2>10, <2>11, <2>12,
             <2>13, <2>14, <2>16, <2>17 DEF AgentStep
<1>2. ASSUME NEW b \in Agents, RecheckGoesOn(b)
      PROVE  /\ ~SeesWork(i) /\ ~SeesWork(i)' /\ (i = 0 => ~stopping /\ stopping' = stopping)
  <2>1. b = a /\ i = k[a]
    BY <1>2 DEF RecheckGoesOn
  <2> QED BY <1>2, <2>1 DEF RecheckGoesOn, SeesWork, work
<1>3. ASSUME NEW x \in Actors, Notify(x) PROVE FALSE
  BY <1>3 DEF Notify, NotifyOne, NotifyNobody, WakeAgent, Return
<1>4. ASSUME NEW b \in Agents, SpuriousWake(b) PROVE FALSE
  BY <1>4 DEF SpuriousWake, local
<1>5. ASSUME NEW h \in Hosts, NEW j \in Jobs, Spawn(h, j) \/ EventFires(h, j) \/ StrayWake(h, j)
      PROVE FALSE
  BY <1>5 DEF Spawn, EventFires, StrayWake, Wake, local
<1>6. ASSUME NEW h \in Hosts, Shutdown(h) \/ ShutdownReturns(h) PROVE FALSE
  BY <1>6 DEF Shutdown, ShutdownReturns, local
<1>7. ASSUME NEW h \in Hosts, ShutdownNotifies(h) PROVE FALSE
  BY <1>7 DEF ShutdownNotifies, WakeAgent
<1>8. CASE UNCHANGED vars
  BY <1>8 DEF vars, local
<1> QED BY <1>1, <1>2, <1>3, <1>4, <1>5, <1>6, <1>7, <1>8 DEF Next

\* A host that notifies, or goes through the slots, is moved by its own steps only.
LEMMA HostStays ==
    ASSUME TypeOK, Control, [Next]_vars, NEW h \in Hosts, pc[h] # "idle"
    PROVE  \/ pc'[h] = pc[h] /\ k'[h] = k[h]
           \/ Notify(h) \/ ShutdownNotifies(h) \/ ShutdownReturns(h)
<1>t. pc \in [Actors -> AgentPC \cup HostPC] /\ k \in [Actors -> 0 .. N + 1]
  BY TypeSplit DEF Scalars
<1>a. \A b \in Agents : b \in asleep => pc[b] = "sleep"
  BY DEF Control
<1> USE <1>t, <1>a, ActorFacts DEF At, Goto
<1>1. ASSUME NEW b \in Agents, AgentStep(b) PROVE pc'[h] = pc[h] /\ k'[h] = k[h]
  BY <1>1 DEF AgentStep, local, DriveOnce, PopOwn, PopInjector, Begin, Steal, StealFails,
     NoJob, StepCompletes, StepYields, Surplus, StepPends, ParkJob, AfterStep, StepSpawns,
     Publish, RecheckStays, RecheckGoesOn, Sleep, Woken
<1>2. ASSUME NEW x \in Actors, x # h, Notify(x) PROVE pc'[h] = pc[h] /\ k'[h] = k[h]
  BY <1>2 DEF Notify, NotifyOne, NotifyNobody, WakeAgent
<1>3. ASSUME NEW b \in Agents, SpuriousWake(b) PROVE pc'[h] = pc[h] /\ k'[h] = k[h]
  BY <1>3 DEF SpuriousWake, local
<1>4. ASSUME NEW g \in Hosts, NEW j \in Jobs, Spawn(g, j) \/ EventFires(g, j) \/ StrayWake(g, j)
      PROVE pc'[h] = pc[h] /\ k'[h] = k[h]
  BY <1>4 DEF Spawn, EventFires, StrayWake, Wake, local
<1>5. ASSUME NEW g \in Hosts, Shutdown(g) PROVE pc'[h] = pc[h] /\ k'[h] = k[h]
  BY <1>5 DEF Shutdown, local
<1>6. ASSUME NEW g \in Hosts, g # h, ShutdownNotifies(g) \/ ShutdownReturns(g)
      PROVE pc'[h] = pc[h] /\ k'[h] = k[h]
  BY <1>6 DEF ShutdownNotifies, WakeAgent, ShutdownReturns
<1>7. CASE UNCHANGED vars
  BY <1>7 DEF vars, local
<1> QED BY <1>1, <1>2, <1>3, <1>4, <1>5, <1>6, <1>7 DEF Next

\* While every agent is blind nobody but a host adds work, and it goes on to notify.
LEMMA WorkArrives ==
    ASSUME TypeOK, Control, [Next]_vars, NEW i \in 0 .. N,
           \A a \in Agents : Blind(a, i), ~SeesWork(i), SeesWork(i)'
    PROVE  \E h \in Hosts : pc'[h] = "notify" /\ k'[h] < N
<1>b. \A a \in Agents : pc[a] \in {"sleep", "recheck"}
  BY DEF Blind
<1>t. pc \in [Actors -> AgentPC \cup HostPC]
  BY TypeSplit DEF Scalars
<1>k. \A h \in Hosts : pc[h] = "idle" => k[h] = 0
  BY DEF Control
<1> USE <1>b, <1>t, <1>k, ActorFacts DEF At, Goto
<1>1. CASE injector' = injector /\ deque' = deque
  BY <1>1 DEF SeesWork
<1>2. ASSUME NEW a \in Agents, AgentStep(a) PROVE injector' = injector /\ deque' = deque
  BY <1>2 DEF AgentStep, work, DriveOnce, PopOwn, PopInjector, Steal, StealFails,
     NoJob, StepCompletes, StepYields, Surplus, StepPends, ParkJob, AfterStep, StepSpawns,
     Publish, RecheckStays, RecheckGoesOn, Sleep, Woken
<1>3. ASSUME NEW x \in Actors, Notify(x) PROVE injector' = injector /\ deque' = deque
  BY <1>3 DEF Notify, NotifyOne, NotifyNobody, work
<1>4. ASSUME NEW a \in Agents, SpuriousWake(a) PROVE injector' = injector /\ deque' = deque
  BY <1>4 DEF SpuriousWake, work
<1>5. ASSUME NEW h \in Hosts, NEW j \in Jobs, Spawn(h, j)
      PROVE  pc'[h] = "notify" /\ k'[h] < N
  BY <1>5 DEF Spawn, local
<1>6. ASSUME NEW h \in Hosts, NEW j \in Jobs, EventFires(h, j) \/ StrayWake(h, j)
      PROVE  (injector' = injector /\ deque' = deque) \/ (pc'[h] = "notify" /\ k'[h] < N)
  BY <1>6 DEF EventFires, StrayWake, Wake, local
<1>7. ASSUME NEW h \in Hosts, Shutdown(h) \/ ShutdownNotifies(h) \/ ShutdownReturns(h)
      PROVE  injector' = injector /\ deque' = deque
  BY <1>7 DEF Shutdown, ShutdownNotifies, ShutdownReturns, work
<1>8. CASE UNCHANGED vars
  BY <1>8, <1>1 DEF vars, work
<1> QED BY <1>1, <1>2, <1>3, <1>4, <1>5, <1>6, <1>7, <1>8 DEF Next

\* The scan of notify_one cannot miss when every agent is blind to the work: it would
\* come to a slot that says PARKED.
LEMMA SleepStep == ASSUME TypeOK, Control, SleepInv, [Next]_vars PROVE SleepInv'
<1> SUFFICES ASSUME NEW i \in 0 .. N, SeesWork(i)', \A a \in Agents : Blind(a, i)'
             PROVE  \E h \in Hosts : pc'[h] = "notify" /\ k'[h] < N
  BY DEF SleepInv
<1>1. \A a \in Agents : Blind(a, i)
  BY BlindStep
<1>2. CASE ~SeesWork(i)
  BY <1>1, <1>2, WorkArrives
<1>3. CASE SeesWork(i)
  <2>1. PICK h \in Hosts : pc[h] = "notify" /\ k[h] < N
    BY <1>1, <1>3 DEF SleepInv
  <2>2. k[h] \in Agents
    BY <2>1, ActorFacts DEF Control
  <2>3. ~NotifyOne(h)
    <3> SUFFICES ASSUME NotifyOne(h) PROVE FALSE  OBVIOUS
    <3>1. slot[k[h]] = "PARKED"  BY <1>1, <2>2 DEF Blind
    <3>2. slot' = [slot EXCEPT ![k[h]] = "NOTIFIED"]  BY <3>1 DEF NotifyOne
    <3>3. slot'[k[h]] = "NOTIFIED"  BY <3>2, <2>2 DEF TypeOK
    <3> QED BY <3>3, <2>2 DEF Blind
  <2>4. ~NotifyNobody(h) /\ ~ShutdownNotifies(h) /\ ~ShutdownReturns(h)
    BY <2>1, ActorFacts DEF NotifyNobody, ShutdownNotifies, ShutdownReturns, At
  <2> QED BY <2>1, <2>3, <2>4, HostStays DEF Notify
<1> QED BY <1>2, <1>3

\* shutdown stores the flag first, so an agent blind to it has published PARKED before,
\* and the scan of the slots, which comes later, reaches it.
LEMMA StopStep == ASSUME TypeOK, Control, StopInv, [Next]_vars PROVE StopInv'
<1> SUFFICES ASSUME stopping', NEW a \in Agents, Blind(a, 0)'
             PROVE  \E h \in Hosts : pc'[h] = "slots" /\ k'[h] <= a
  BY DEF StopInv
<1>t. /\ pc \in [Actors -> AgentPC \cup HostPC] /\ stopping \in BOOLEAN
      /\ k \in [Actors -> 0 .. N + 1] /\ slot \in [Agents -> {"RUNNING", "PARKED", "NOTIFIED"}]
  BY TypeSplit DEF Scalars
<1>1. CASE ~stopping
  <2>1. PICK h \in Hosts : Shutdown(h)
    <3>1. ASSUME \A h \in Hosts : ~Shutdown(h) PROVE stopping' = stopping
      BY <3>1 DEF Next, vars, AgentStep, Notify, local, DriveOnce, PopOwn, PopInjector, Steal,
         StealFails, NoJob, StepCompletes, StepYields, Surplus, StepPends, ParkJob, AfterStep,
         StepSpawns, Publish, RecheckStays, RecheckGoesOn, Sleep, Woken, SpuriousWake,
         NotifyOne, NotifyNobody, Spawn, EventFires, StrayWake, ShutdownNotifies, ShutdownReturns
    <3> QED BY <3>1, <1>1, <1>t
  <2>2. pc'[h] = "slots" /\ k'[h] = 0
    BY <2>1, <1>t, ActorFacts DEF Shutdown, At, Goto, local, Control
  <2> QED BY <2>2, ActorFacts
<1>2. CASE stopping
  <2>1. Blind(a, 0)
    <3>1. 0 \in 0 .. N  BY ActorFacts
    <3> QED BY <3>1, <1>2, BlindStep
  <2>2. PICK h \in Hosts : pc[h] = "slots" /\ k[h] <= a
    BY <1>2, <2>1 DEF StopInv
  <2>3. CASE ShutdownNotifies(h)
    <3>1. k[h] # a
      <4> SUFFICES ASSUME k[h] = a PROVE FALSE  OBVIOUS
      <4>1. slot'[a] = "NOTIFIED"  BY <2>3, <1>t DEF ShutdownNotifies
      <4> QED BY <4>1 DEF Blind
    <3>2. pc'[h] = "slots" /\ k'[h] = k[h] + 1
      BY <2>3, <1>t, ActorFacts DEF ShutdownNotifies, WakeAgent
    <3>3. k[h] \in Int  BY <1>t, ActorFacts
    <3> QED BY <2>2, <3>1, <3>2, <3>3, ActorFacts
  <2>4. ~Notify(h) /\ ~ShutdownReturns(h)
    <3>1. ~Notify(h)  BY <2>2 DEF Notify, NotifyOne, NotifyNobody, At
    <3>2. k[h] # N  BY <2>2, <1>t, ActorFacts
    <3> QED BY <3>1, <3>2 DEF ShutdownReturns
  <2> QED BY <2>2, <2>3, <2>4, HostStays
<1> QED BY <1>1, <1>2

-----------------------------------------------------------------------------
(* The invariant, and what it says. *)

\* The cluster starts in the invariant, jobs placed on the first deque included.
LEMMA ClusterInit == ASSUME Init PROVE ClusterInv
<1> USE DEF Init
<1>1. /\ ToSet(Placed) \subseteq Jobs /\ << >> \in Seq(Jobs) /\ Len(<< >>) = 0
      /\ ToSet(<< >>) = {} /\ IsInjective(<< >>)
  <2>1. ToSet(Placed) \subseteq Jobs  BY Constants, SeqSet
  <2>2. << >> \in Seq(Jobs) /\ Len(<< >>) = 0  BY EmptySeq
  <2>3. ToSet(<< >>) = {}  BY <2>2, SeqSet
  <2>4. DOMAIN << >> = {}  BY <2>2, SeqSet
  <2> QED BY <2>1, <2>2, <2>3, <2>4 DEF IsInjective
<1>2. Queues
  BY <1>1, Constants DEF Queues
<1>3. Scalars
  <2>1. pc \in [Actors -> AgentPC \cup HostPC]
    BY DEF AgentPC, HostPC
  <2>2. k \in [Actors -> 0 .. N + 1] /\ left \in 0 .. Steps /\ strays \in 0 .. Strays
    BY Constants
  <2>3. /\ slot \in [Agents -> {"RUNNING", "PARKED", "NOTIFIED"}]
        /\ todo \in [Agents -> SUBSET Agents]
        /\ held \in [Agents -> Jobs \cup {None}]
        /\ ran \in [Agents -> BOOLEAN]
    OBVIOUS
  <2> QED BY <1>1, <2>1, <2>2, <2>3 DEF Scalars
<1>4. Control
  BY Constants, ActorFacts DEF Control, AgentPC, HostPC
<1>5. NoRepeats
  BY <1>1, Constants DEF NoRepeats
<1>6. /\ Content(Inj) = {} /\ Content(Prk) = {} /\ Content(Dq(0)) = ToSet(Placed)
      /\ \A a \in Agents : /\ Content(Hd(a)) = {}
                           /\ a # 0 => Content(Dq(a)) = {}
  BY <1>1, ContentFacts, Constants
<1>7. \A p \in Spots : Content(p) = IF p = Dq(0) THEN ToSet(Placed) ELSE {}
  BY <1>6, SpotFacts, Constants
<1>8. Apart /\ Kept
  BY <1>7, SpotFacts, Constants DEF Apart, Kept
<1>9. WaitInv
  BY ActorFacts DEF WaitInv, AboutToPark
<1>10. StrayInv
  <2>1. Unclaimed = {}  BY DEF Unclaimed
  <2> QED BY <2>1, FS_EmptySet, Constants DEF StrayInv
<1>11. SleepInv /\ StopInv
  BY ActorFacts DEF SleepInv, StopInv, Blind
<1> QED BY <1>2, <1>3, <1>4, <1>5, <1>8, <1>9, <1>10, <1>11, TypeSplit DEF ClusterInv, PlacesInv

\* Every step keeps the invariant.
LEMMA ClusterStep == ASSUME ClusterInv, [Next]_vars PROVE ClusterInv'
<1>1. TypeOK' /\ Control'
  <2>1. Queues' /\ Scalars' /\ Control'
    BY QueueStep, ScalarStep, ControlStep DEF ClusterInv
  <2> QED BY <2>1 DEF TypeOK, Queues, Scalars, AgentPC, HostPC
<1>2. PlacesInv'
  <2>1. NoRepeats' /\ Moved  BY PlacesStep DEF ClusterInv
  <2>2. Apart' /\ Kept'
    BY <2>1, Moves, ContentsType DEF Moved, ClusterInv, PlacesInv
  <2> QED BY <2>1, <2>2 DEF PlacesInv
<1>3. WaitInv' /\ StrayInv' /\ SleepInv' /\ StopInv'
  BY WaitStep, StrayStep, SleepStep, StopStep DEF ClusterInv
<1> QED BY <1>1, <1>2, <1>3 DEF ClusterInv

\* ClusterInv holds in every reachable state.
LEMMA AlwaysClusterInv == Spec => []ClusterInv
<1>1. ClusterInv /\ [Next]_vars => ClusterInv'  BY ClusterStep
<1> QED BY <1>1, ClusterInit, PTL DEF Spec

\* The state of the cluster has its type, and no deque outgrows its buffer.
THEOREM TypeCorrect == Spec => []TypeOK
<1>1. ClusterInv => TypeOK  BY DEF ClusterInv
<1> QED BY <1>1, AlwaysClusterInv, PTL

\* Counting a job's places, as Places does, counts the spots that contain it: each of
\* the four terms is 1 when the job is in a place of that kind and 0 when it is not.
LEMMA InvOnePlace == ASSUME ClusterInv PROVE JobInOnePlace
<1> SUFFICES ASSUME NEW j \in Jobs PROVE Places(j) = IF j \in Alive THEN 1 ELSE 0
  BY DEF JobInOnePlace, Alive
<1> DEFINE I == {i \in DOMAIN injector : injector[i] = j}
           D == {p \in Agents \X (1 .. Capacity) :
                     p[2] <= Len(deque[p[1]]) /\ deque[p[1]][p[2]] = j}
           H == {a \in Agents : held[a] = j}
           X == IF j \in parked THEN 1 ELSE 0
<1>t. /\ injector \in Seq(Jobs) /\ deque \in [Agents -> Seq(Jobs)]
      /\ \A a \in Agents : Len(deque[a]) <= Capacity
      /\ j # None
  BY Constants DEF ClusterInv, TypeOK
<1>n. IsInjective(injector) /\ \A a \in Agents : IsInjective(deque[a])
  BY DEF ClusterInv, PlacesInv, NoRepeats
<1>a. \A p, q \in Spots : j \in Content(p) /\ j \in Content(q) => p = q
  BY DEF ClusterInv, PlacesInv, Apart
<1>k. j \in Alive <=> \E p \in Spots : j \in Content(p)
  BY DEF ClusterInv, PlacesInv, Kept, Alive
<1>d. \A a \in Agents : /\ Len(deque[a]) \in Nat /\ DOMAIN deque[a] = 1 .. Len(deque[a])
                        /\ Len(deque[a]) <= Capacity
  BY <1>t, SeqSet
<1>1. (I # {} <=> j \in Content(Inj)) /\ \A x, y \in I : x = y
  BY <1>n, ContentFacts DEF ToSet, IsInjective
<1>2. X = IF j \in Content(Prk) THEN 1 ELSE 0
  BY ContentFacts
<1>3. (H # {} <=> \E a \in Agents : j \in Content(Hd(a))) /\ \A x, y \in H : x = y
  <2>1. \A a \in Agents : a \in H <=> j \in Content(Hd(a))
    BY <1>t, ContentFacts
  <2>2. \A x, y \in H : x = y
    BY <2>1, <1>a, SpotFacts
  <2> QED BY <2>1, <2>2
<1>4. (D # {} <=> \E a \in Agents : j \in Content(Dq(a))) /\ \A x, y \in D : x = y
  <2>1. ASSUME NEW p \in D
        PROVE  /\ p[1] \in Agents /\ p[2] \in DOMAIN deque[p[1]] /\ deque[p[1]][p[2]] = j
               /\ p = <<p[1], p[2]>> /\ j \in Content(Dq(p[1]))
    <3>1. p[1] \in Agents /\ p[2] \in 1 .. Capacity /\ p = <<p[1], p[2]>>
          /\ p[2] <= Len(deque[p[1]]) /\ deque[p[1]][p[2]] = j
      OBVIOUS
    <3>2. p[2] \in DOMAIN deque[p[1]]
      BY <3>1, <1>d, Constants
    <3> QED BY <3>1, <3>2, ContentFacts DEF ToSet
  <2>2. ASSUME NEW a \in Agents, j \in Content(Dq(a)) PROVE D # {}
    <3>1. PICK i \in DOMAIN deque[a] : deque[a][i] = j
      BY <2>2, ContentFacts DEF ToSet
    <3>2. i \in 1 .. Capacity /\ i <= Len(deque[a])
      BY <3>1, <1>d, Constants
    <3>3. <<a, i>> \in D
      BY <3>1, <3>2
    <3> QED BY <3>3
  <2>3. ASSUME NEW x \in D, NEW y \in D PROVE x = y
    <3>1. x[1] = y[1]
      BY <2>1, <1>a, SpotFacts
    <3>2. x[2] = y[2]
      BY <2>1, <3>1, <1>n DEF IsInjective
    <3> QED BY <2>1, <3>1, <3>2
  <2> HIDE DEF D
  <2> QED BY <2>1, <2>2, <2>3
<1>5. Places(j) = Cardinality(I) + Cardinality(D) + X + Cardinality(H)
  BY DEF Places, Count
<1> HIDE DEF I, D, H, X
<1>6. /\ Cardinality(I) = IF I = {} THEN 0 ELSE 1
      /\ Cardinality(D) = IF D = {} THEN 0 ELSE 1
      /\ Cardinality(H) = IF H = {} THEN 0 ELSE 1
  BY <1>1, <1>3, <1>4, AtMostOne
<1>7. CASE j \notin Alive
  <2>1. I = {} /\ D = {} /\ H = {} /\ X = 0
    BY <1>7, <1>k, <1>1, <1>2, <1>3, <1>4, SpotFacts
  <2> QED BY <2>1, <1>5, <1>6, <1>7
<1>8. CASE j \in Alive
  <2>1. PICK p \in Spots : j \in Content(p)
    BY <1>8, <1>k
  <2>2. \A q \in Spots : j \in Content(q) <=> q = p
    BY <2>1, <1>a
  <2>3. CASE p = Inj
    BY <2>2, <2>3, <1>1, <1>2, <1>3, <1>4, <1>5, <1>6, <1>8, SpotFacts
  <2>4. CASE p = Prk
    BY <2>2, <2>4, <1>1, <1>2, <1>3, <1>4, <1>5, <1>6, <1>8, SpotFacts
  <2>5. ASSUME NEW a \in Agents, p = Dq(a) PROVE Places(j) = 1
    <3>1. I = {} /\ D # {} /\ H = {} /\ X = 0
      BY <2>2, <2>5, <1>1, <1>2, <1>3, <1>4, SpotFacts
    <3> QED BY <3>1, <1>5, <1>6
  <2>6. ASSUME NEW a \in Agents, p = Hd(a) PROVE Places(j) = 1
    <3>1. I = {} /\ D = {} /\ H # {} /\ X = 0
      BY <2>2, <2>6, <1>1, <1>2, <1>3, <1>4, SpotFacts
    <3> QED BY <3>1, <1>5, <1>6
  <2> QED BY <2>3, <2>4, <2>5, <2>6, <1>8, SpotFacts
<1> QED BY <1>7, <1>8

\* No two agents ever step the same task, and none is lost between the queues.
THEOREM JobPlaces == Spec => []JobInOnePlace
BY InvOnePlace, AlwaysClusterInv, PTL

\* Cluster::wake: "a wake is never lost"; a job whose event has fired is not left parked.
THEOREM WakesFound == Spec => []ParkedIsWaiting
<1>1. ClusterInv => ParkedIsWaiting  BY DEF ClusterInv, WaitInv, ParkedIsWaiting
<1> QED BY <1>1, AlwaysClusterInv, PTL

\* With every agent asleep all are blind to every place, and no host is notifying.
LEMMA InvSleep == ASSUME ClusterInv PROVE NobodySleepsOnWork
<1> SUFFICES ASSUME asleep = Agents, \A h \in Hosts : pc[h] = "idle"
             PROVE  injector = << >> /\ \A a \in Agents : deque[a] = << >>
  BY DEF NobodySleepsOnWork
<1>1. \A i \in 0 .. N, a \in Agents : Blind(a, i)
  BY DEF ClusterInv, Control, Blind
<1>2. \A i \in 0 .. N : ~SeesWork(i)
  BY <1>1 DEF ClusterInv, SleepInv
<1>3. 0 \in 0 .. N /\ \A a \in Agents : a + 1 \in 0 .. N /\ a + 1 # 0 /\ (a + 1) - 1 = a
  BY ActorFacts
<1> QED BY <1>2, <1>3 DEF SeesWork

\* The re-check after PARKED "closes the lost-wakeup race": the cluster does not go to
\* sleep on a job in the injector or in a deque.
THEOREM NobodySleeps == Spec => []NobodySleepsOnWork
BY InvSleep, AlwaysClusterInv, PTL

\* A recorded wake that nobody is about to claim is one of the unclaimed.
LEMMA InvEarly == ASSUME ClusterInv PROVE EarlyWakesAreClaimed
<1> DEFINE E == {j \in early : \A a \in Agents : ~(pc[a] = "park" /\ held[a] = j)}
<1>1. E \subseteq Unclaimed
  BY DEF Unclaimed, AtPark, ClusterInv, TypeOK
<1>2. Cardinality(E) <= Cardinality(Unclaimed) /\ Cardinality(E) \in Nat
      /\ Cardinality(Unclaimed) \in Nat
  BY <1>1, FS_Subset, FS_CardinalityType DEF ClusterInv, StrayInv
<1>3. strays \in Nat /\ Strays \in Nat /\ Cardinality(Unclaimed) + strays <= Strays
  BY Constants DEF ClusterInv, TypeOK, StrayInv
<1>4. Cardinality(E) <= Strays - strays
  BY <1>2, <1>3
<1> QED BY <1>4 DEF EarlyWakesAreClaimed

\* parked.rs: "bookkeeping does not accumulate"; only wakes for no event are left behind.
THEOREM EarlyWakesBounded == Spec => []EarlyWakesAreClaimed
BY InvEarly, AlwaysClusterInv, PTL

\* A sleeper would be blind to the shutdown, with no scan left to reach it.
LEMMA InvStop == ASSUME ClusterInv PROVE ShutdownLeavesNoSleeper
<1> SUFFICES ASSUME stopping, \A h \in Hosts : pc[h] # "slots", NEW a \in asleep PROVE FALSE
  BY DEF ShutdownLeavesNoSleeper
<1>1. a \in Agents /\ Blind(a, 0)
  BY DEF ClusterInv, TypeOK, Control, Blind
<1> QED BY <1>1 DEF ClusterInv, StopInv

\* shutdown wakes everybody: once its scan is over no agent sleeps or falls asleep.
THEOREM ShutdownReachesAll == Spec => []ShutdownLeavesNoSleeper
BY InvStop, AlwaysClusterInv, PTL
=============================================================================
