-------------------------- MODULE SafepointProofs --------------------------
(***************************************************************************)
(* What TLAPS proves of the stop-the-world barrier, for every set of       *)
(* agents, every choice of workers, main agents and requesters, every      *)
(* width of the state word, and both kinds of parking.                     *)
(*                                                                         *)
(* The count is dealt with first (CountInv), the rounds after it           *)
(* (RoundInv): what makes WorldStopped inductive is that a count left over *)
(* from an earlier round implies an agent that still drains, and such an   *)
(* agent cannot be counted itself, so the new requester is one short.      *)
(***************************************************************************)
EXTENDS Safepoint, FiniteSetTheorems, TLAPS

-----------------------------------------------------------------------------
(* The count. *)

CountInv == TypeOK /\ StoppedIsCount

\* `stopped` is never moved except by `enter`, and Counted never except there.
LEMMA CountedStable ==
    ASSUME TypeOK, [Next]_vars, \A a \in Agents : ~EnterAdd(a) /\ ~EnterSub(a)
    PROVE  Counted' = Counted /\ stopped' = stopped
<1> USE DEF TypeOK, AllPC, CountedPC, OwnerPC, SteppingPC, Counted, At, Goto
<1>1. CASE UNCHANGED vars
  BY <1>1 DEF vars
<1>2. ASSUME NEW a \in Agents, RunStep(a) PROVE Counted' = Counted /\ stopped' = stopped
  BY <1>2 DEF RunStep, Top, HostDrives, DriveOnce, NextJob, NoJob, StepReturns,
     StepPolls, AfterStep, BetweenSteps, DeadlinePasses, Publish, RecheckStays,
     RecheckSleeps, Sleep, Woken
<1>3. ASSUME NEW a \in Agents, EnterStep(a) PROVE Counted' = Counted /\ stopped' = stopped
  BY <1>3 DEF EnterStep, EnterSnapshot, EnterWait
<1>4. ASSUME NEW a \in Agents, StopStep(a) PROVE Counted' = Counted /\ stopped' = stopped
  <2>1. CASE WakeSleepers(a)  BY <2>1 DEF WakeSleepers, OnSlot
  <2>2. CASE AllArrived(a)  BY <2>2 DEF AllArrived, WaitsForAll
  <2> QED BY <1>4, <2>1, <2>2 DEF StopStep, CallStop, Request, AwaitGivesUp,
     AwaitParks, Collected, Release, Drain, Caller
<1>5. ASSUME NEW a \in Agents, NotifyOne(a) PROVE Counted' = Counted /\ stopped' = stopped
  BY <1>5 DEF NotifyOne, OnSlot
<1>6. ASSUME NEW a \in Agents, SpuriousWake(a) PROVE Counted' = Counted /\ stopped' = stopped
  BY <1>6 DEF SpuriousWake, OnSlot
<1>7. CASE Shutdown
  BY <1>7 DEF Shutdown, ShutdownStops, ShutdownReleases, ShutdownNotifies, OnSlot
<1> QED BY <1>1, <1>2, <1>3, <1>4, <1>5, <1>6, <1>7 DEF Next

\* The state word stays a u32 under wrapping_add, and changes parity.
LEMMA BumpType ==
    ASSUME NEW s \in 0 .. Modulus - 1
    PROVE  /\ Bump(s) \in 0 .. Modulus - 1
           /\ (s % 2 = 1) => (Bump(s) % 2 = 0)
           /\ (s % 2 = 0) => (Bump(s) % 2 = 1)
BY ModulusAssumption DEF Bump

\* Everything of the type invariant but the bound on `stopped`.
ShapeOK ==
    /\ state \in 0 .. Modulus - 1
    /\ stopping \in BOOLEAN
    /\ slot \in [Agents -> {"RUNNING", "PARKED", "NOTIFIED"}]
    /\ pc \in [Agents -> AllPC]
    /\ site \in [Agents -> {"top", "between", "step"}]
    /\ snap \in [Agents -> 0 .. Modulus - 1]
    /\ ran \in [Agents -> BOOLEAN]
    /\ asleep \subseteq Agents
    /\ shutter \in {"idle", "release", "slots", "done"}
    /\ main \subseteq Agents
    /\ asking \subseteq Agents
    /\ unvisited \in [Agents -> SUBSET Agents]
    /\ unnotified \subseteq Agents

LEMMA ShapeStep == ASSUME ShapeOK, [Next]_vars PROVE ShapeOK'
<1> USE ModulusAssumption DEF ShapeOK, AllPC, CountedPC, OwnerPC, SteppingPC,
        At, Goto, Park, Unpark, OnSlot, OnState, OnStopped, hosts
<1>1. CASE UNCHANGED vars
  BY <1>1 DEF vars
<1>2. ASSUME NEW a \in Agents, RunStep(a) PROVE ShapeOK'
  <2>1. CASE Top(a)  BY <2>1 DEF Top
  <2>2. CASE HostDrives(a)  BY <2>2 DEF HostDrives
  <2>3. CASE DriveOnce(a)  BY <2>3 DEF DriveOnce
  <2>4. CASE NextJob(a)  BY <2>4 DEF NextJob
  <2>5. CASE NoJob(a)  BY <2>5 DEF NoJob
  <2>6. CASE StepReturns(a)  BY <2>6 DEF StepReturns
  <2>7. CASE StepPolls(a)  BY <2>7 DEF StepPolls
  <2>8. CASE AfterStep(a)  BY <2>8 DEF AfterStep
  <2>9. CASE BetweenSteps(a)  BY <2>9 DEF BetweenSteps
  <2>10. CASE DeadlinePasses(a)  BY <2>10 DEF DeadlinePasses
  <2>11. CASE Publish(a)  BY <2>11 DEF Publish
  <2>12. CASE RecheckStays(a)  BY <2>12 DEF RecheckStays
  <2>13. CASE RecheckSleeps(a)  BY <2>13 DEF RecheckSleeps
  <2>14. CASE Sleep(a)  BY <2>14 DEF Sleep
  <2>15. CASE Woken(a)  BY <2>15 DEF Woken
  <2> QED BY <1>2, <2>1, <2>2, <2>3, <2>4, <2>5, <2>6, <2>7, <2>8, <2>9, <2>10, <2>11, <2>12, <2>13, <2>14, <2>15 DEF RunStep
<1>3. ASSUME NEW a \in Agents, EnterStep(a) PROVE ShapeOK'
  BY <1>3 DEF EnterStep, EnterSnapshot, EnterAdd, EnterWait, EnterSub
<1>4. ASSUME NEW a \in Agents, StopStep(a) PROVE ShapeOK'
  BY <1>4, BumpType DEF StopStep, CallStop, Request, WakeSleepers, AllArrived, WaitsForAll,
     AwaitGivesUp, AwaitParks, Collected, Release, Drain, Caller
<1>5. ASSUME NEW a \in Agents, NotifyOne(a) PROVE ShapeOK'
  BY <1>5 DEF NotifyOne
<1>6. ASSUME NEW a \in Agents, SpuriousWake(a) PROVE ShapeOK'
  BY <1>6 DEF SpuriousWake
<1>7. CASE ShutdownStops
  BY <1>7 DEF ShutdownStops
<1>8. CASE ShutdownReleases
  BY <1>8, BumpType DEF ShutdownReleases
<1>9. CASE ShutdownNotifies
  BY <1>9 DEF ShutdownNotifies
<1> QED BY <1>1, <1>2, <1>3, <1>4, <1>5, <1>6, <1>7, <1>8, <1>9 DEF Next, Shutdown

\* Counting: Counted is a finite set, no larger than the cluster.
LEMMA CountedFinite ==
    /\ IsFiniteSet(Counted)
    /\ Cardinality(Counted) \in Nat
    /\ Cardinality(Agents) \in Nat
    /\ Cardinality(Counted) <= Cardinality(Agents)
<1>1. Counted \in SUBSET Agents
  BY DEF Counted
<1> QED BY <1>1, AgentsAssumption, FS_Subset, FS_CardinalityType

LEMMA CountInit == Init => CountInv
<1> SUFFICES ASSUME Init PROVE CountInv
  OBVIOUS
<1>1. Counted = {}
  BY DEF Init, Counted, CountedPC
<1>2. StoppedIsCount
  BY <1>1, FS_EmptySet DEF Init, StoppedIsCount
<1>3. ShapeOK
  <2>1. 0 \in 0 .. Modulus - 1
    BY ModulusAssumption
  <2>2. pc \in [Agents -> AllPC]
    BY DEF Init, AllPC
  <2>3. main \subseteq Agents
    BY AgentsAssumption DEF Init
  <2> QED BY <2>1, <2>2, <2>3 DEF Init, ShapeOK
<1> QED BY <1>2, <1>3, CountedFinite DEF CountInv, TypeOK, ShapeOK, StoppedIsCount

LEMMA CountStep == ASSUME CountInv, [Next]_vars PROVE CountInv'
<1> USE DEF CountInv
<1>1. ShapeOK'
  BY ShapeStep DEF TypeOK, ShapeOK
<1>2. (stopped = Cardinality(Counted))'
  <2>1. ASSUME NEW a \in Agents, EnterAdd(a)
        PROVE  (stopped = Cardinality(Counted))'
    <3>1. Counted' = Counted \cup {a} /\ a \notin Counted
      BY <2>1 DEF EnterAdd, Counted, CountedPC, At, Goto, TypeOK
    <3> QED BY <2>1, <3>1, CountedFinite, FS_AddElement DEF EnterAdd, StoppedIsCount
  <2>2. ASSUME NEW a \in Agents, EnterSub(a)
        PROVE  (stopped = Cardinality(Counted))'
    <3>1. Counted' = Counted \ {a} /\ a \in Counted
      BY <2>2 DEF EnterSub, Counted, CountedPC, At, Goto, TypeOK
    <3> QED BY <2>2, <3>1, CountedFinite, FS_RemoveElement DEF EnterSub, StoppedIsCount
  <2> QED BY <2>1, <2>2, CountedStable DEF StoppedIsCount
<1>3. IsFiniteSet(Counted') /\ Cardinality(Counted') \in 0 .. Cardinality(Agents)
  <2>1. Counted' \in SUBSET Agents
    BY DEF Counted
  <2> QED BY <2>1, AgentsAssumption, FS_Subset, FS_CardinalityType
<1> QED BY <1>1, <1>2, <1>3 DEF TypeOK, ShapeOK, StoppedIsCount

\* Type correctness of the specification, and StoppedIsCount: `stopped` is the
\* number of agents inside the barrier in every reachable state.
THEOREM CountCorrect == Spec => [](TypeOK /\ StoppedIsCount)
<1>1. Init => CountInv
  BY CountInit
<1>2. CountInv /\ [Next]_vars => CountInv'
  BY CountStep
<1> QED BY <1>1, <1>2, PTL DEF Spec, CountInv

\* The variables of the barrier and of every agent stay of their types; what takes the
\* exact count to prove is that `stopped` stays between 0 and the number of agents.
THEOREM TypeCorrect == Spec => []TypeOK
BY CountCorrect, PTL

-----------------------------------------------------------------------------
(* The rounds. *)

\* A requester that reads a full count holds the world.  It is not counted
\* itself, so the others all are; then nobody drains, hence nobody is left over.
LEMMA EveryoneIsHere ==
    ASSUME CountInv, RoundInv, ~stopping,
           NEW r \in Agents, WaitsForAll(r), stopped >= Others
    PROVE  Held(r)
<1>1. Counted = Agents \ {r}
  <2>1. Counted \in SUBSET (Agents \ {r})
    BY DEF Counted, CountedPC, WaitsForAll, At
  <2>2. IsFiniteSet(Agents \ {r}) /\ Cardinality(Agents \ {r}) = Others
    BY AgentsAssumption, FS_RemoveElement DEF Others
  <2>3. Cardinality(Counted) = Cardinality(Agents \ {r})
    BY <2>1, <2>2, FS_Subset, CountedFinite DEF CountInv, StoppedIsCount, Others
  <2> QED BY <2>1, <2>2, <2>3, FS_Subset
<1>2. \A d \in Agents : pc[d] # "drain"
  BY <1>1 DEF Counted, CountedPC, WaitsForAll, At
<1>3. Leftover = {}
  BY <1>2 DEF RoundInv, LeftoverIsDrained
<1> QED BY <1>1, <1>3 DEF Held, Leftover, Counted, CountedPC

\* An empty barrier has nobody left over.
LEMMA EmptyBarrier ==
    ASSUME CountInv, stopped = 0
    PROVE  Leftover = {}
<1>1. Counted = {}
  BY CountedFinite, FS_EmptySet DEF CountInv, StoppedIsCount
<1> QED BY <1>1 DEF Leftover

LEMMA RoundInit == Init => RoundInv
BY DEF Init, RoundInv, NoStaleJoin, LeftoverIsDrained, Leftover, Counted,
   CountedPC, OwnerPC, Owners

LEMMA RoundStep == ASSUME CountInv, RoundInv, [Next]_vars PROVE RoundInv'
<1> USE ModulusAssumption DEF CountInv, TypeOK, AllPC, RoundInv, NoStaleJoin,
        LeftoverIsDrained, Leftover, Held, Counted, CountedPC, OwnerPC, Owners,
        SteppingPC, Pending, At, Goto, hosts
<1>1. CASE UNCHANGED vars
  BY <1>1 DEF vars
<1>2. ASSUME NEW a \in Agents, RunStep(a) PROVE RoundInv'
  <2>1. CASE Top(a)  BY <2>1 DEF Top
  <2>2. CASE HostDrives(a)  BY <2>2 DEF HostDrives
  <2>3. CASE DriveOnce(a)  BY <2>3 DEF DriveOnce
  <2>4. CASE NextJob(a)  BY <2>4 DEF NextJob
  <2>5. CASE NoJob(a)  BY <2>5 DEF NoJob
  <2>6. CASE StepReturns(a)  BY <2>6 DEF StepReturns
  <2>7. CASE StepPolls(a)  BY <2>7 DEF StepPolls
  <2>8. CASE AfterStep(a)  BY <2>8 DEF AfterStep
  <2>9. CASE BetweenSteps(a)  BY <2>9 DEF BetweenSteps
  <2>10. CASE DeadlinePasses(a)  BY <2>10 DEF DeadlinePasses
  <2>11. CASE Publish(a)  BY <2>11 DEF Publish
  <2>12. CASE RecheckStays(a)  BY <2>12 DEF RecheckStays
  <2>13. CASE RecheckSleeps(a)  BY <2>13 DEF RecheckSleeps
  <2>14. CASE Sleep(a)  BY <2>14 DEF Sleep
  <2>15. CASE Woken(a)  BY <2>15 DEF Woken
  <2> QED BY <1>2, <2>1, <2>2, <2>3, <2>4, <2>5, <2>6, <2>7, <2>8, <2>9, <2>10, <2>11, <2>12, <2>13, <2>14, <2>15 DEF RunStep
<1>3. ASSUME NEW a \in Agents, EnterStep(a) PROVE RoundInv'
  <2>1. CASE EnterSnapshot(a)  BY <2>1 DEF EnterSnapshot
  <2>2. CASE EnterAdd(a)  BY <2>2 DEF EnterAdd
  <2>3. CASE EnterWait(a)  BY <2>3 DEF EnterWait
  <2>4. CASE EnterSub(a)  BY <2>4 DEF EnterSub
  <2> QED BY <1>3, <2>1, <2>2, <2>3, <2>4 DEF EnterStep
<1>4. ASSUME NEW a \in Agents, StopStep(a) PROVE RoundInv'
  <2>1. CASE CallStop(a)  BY <2>1 DEF CallStop, Caller
  <2>2. CASE Request(a)
    <3>1. CASE Pending
      <4>1. pc'[a] \in {"host", "step"} /\ \A b \in Agents \ {a} : pc'[b] = pc[b]
        BY <2>2, <3>1 DEF Request, Caller
      <4>2. Owners' = Owners
        BY <2>2, <4>1 DEF Request
      <4> QED BY <2>2, <3>1, <4>1, <4>2 DEF Request
    <3>2. CASE ~Pending
      <4>1. pc' = [pc EXCEPT ![a] = "wake"]
        BY <2>2, <3>2 DEF Request
      <4>2. ~stopping => Owners' = {a}
        BY <2>2, <3>2, <4>1 DEF Request
      <4> QED BY <2>2, <3>2, <4>1, <4>2, BumpType DEF Request
    <3> QED BY <3>1, <3>2
  <2>3. CASE WakeSleepers(a)
    <3>1. PICK b \in Agents :
            /\ pc' = [c \in Agents |->
                        IF c \in OnSlot \cap {b} THEN "woken"
                        ELSE IF c = a /\ unvisited[a] = {b}
                             THEN IF a \in main THEN "host" ELSE "await"
                        ELSE pc[c]]
            /\ asking' = IF a \in main /\ unvisited[a] = {b} THEN asking \cup {a} ELSE asking
      BY <2>3 DEF WakeSleepers
    <3>2. \/ pc'[a] \in {"wake", "await"} /\ asking' = asking
          \/ pc'[a] = "host" /\ asking' = asking \cup {a}
      BY <2>3, <3>1 DEF WakeSleepers, OnSlot
    <3>3. \A c \in Agents \ {a} :
            pc'[c] = pc[c] \/ (pc[c] = "sleep" /\ pc'[c] = "woken")
      BY <2>3, <3>1 DEF WakeSleepers, OnSlot
    <3>4. a \in Owners /\ Owners' = Owners
      BY <2>3, <3>2, <3>3 DEF WakeSleepers
    <3>5. UNCHANGED <<state, stopping, snap, shutter>>
      BY <2>3 DEF WakeSleepers
    <3> QED BY <2>3, <3>2, <3>3, <3>4, <3>5 DEF WakeSleepers
  <2>4. CASE AllArrived(a)  BY <2>4, EveryoneIsHere DEF AllArrived, WaitsForAll
  <2>5. CASE AwaitGivesUp(a)  BY <2>5 DEF AwaitGivesUp
  <2>6. CASE AwaitParks(a)  BY <2>6 DEF AwaitParks
  <2>7. CASE Collected(a)  BY <2>7 DEF Collected
  <2>8. CASE Release(a)
    <3>1. Caller(a) \in {"host", "step"}
      BY DEF Caller
    <3>2. ~stopping => Pending /\ Owners = {a} /\ Held(a)
      BY <2>8 DEF Release
    <3>3. \A b \in Agents \ {a} : pc'[b] = pc[b]
      BY <2>8, <3>1 DEF Release
    <3>4. CASE stopping
      BY <2>8, <3>1, <3>4 DEF Release
    <3>5. CASE ~stopping
      <4>1. Owners' = {}
        BY <2>8, <3>2, <3>5 DEF Release
      <4>2. pc'[a] = "drain"
        BY <2>8, <3>2, <3>5 DEF Release
      <4>3. \A b \in Agents \ {a} : pc'[b] = "enter_wait"
        BY <3>2, <3>3, <3>5
      <4> QED BY <2>8, <3>5, <4>1, <4>2, <4>3 DEF Release
    <3> QED BY <3>4, <3>5
  <2>9. CASE Drain(a)  BY <2>9, EmptyBarrier DEF Drain, Caller
  <2> QED BY <1>4, <2>1, <2>2, <2>3, <2>4, <2>5, <2>6, <2>7, <2>8, <2>9 DEF StopStep
<1>5. ASSUME NEW a \in Agents, NotifyOne(a) PROVE RoundInv'
  BY <1>5 DEF NotifyOne, OnSlot
<1>6. ASSUME NEW a \in Agents, SpuriousWake(a) PROVE RoundInv'
  BY <1>6 DEF SpuriousWake, OnSlot
<1>7. CASE ShutdownStops
  BY <1>7 DEF ShutdownStops
<1>8. CASE ShutdownReleases
  BY <1>8, BumpType DEF ShutdownReleases
<1>9. CASE ShutdownNotifies
  BY <1>9 DEF ShutdownNotifies, OnSlot
<1> QED BY <1>1, <1>2, <1>3, <1>4, <1>5, <1>6, <1>7, <1>8, <1>9 DEF Next, Shutdown

\* The round invariant, with the count it rests on.
THEOREM RoundCorrect == Spec => [](CountInv /\ RoundInv)
<1>1. Init => CountInv /\ RoundInv
  BY CountInit, RoundInit
<1>2. CountInv /\ RoundInv /\ [Next]_vars => (CountInv /\ RoundInv)'
  BY CountStep, RoundStep
<1> QED BY <1>1, <1>2, PTL DEF Spec

\* stop_the_world: until a shutdown, while f runs every other agent stands at
\* the barrier and none is inside Task::step.
THEOREM WorldStoppedCorrect == Spec => []WorldStopped
<1>1. RoundInv => WorldStopped
  BY DEF RoundInv, Held, WorldStopped, CountedPC, SteppingPC
<1> QED BY <1>1, RoundCorrect, PTL

\* Whoever reads a full count is the only agent that is not counted, so nobody
\* else is in its f.
LEMMA AloneWhenArrived ==
    ASSUME CountInv, NEW r \in Agents, AllArrived(r)
    PROVE  \A q \in Agents \ {r} : pc[q] # "f"
<1> SUFFICES ASSUME NEW q \in Agents \ {r}, pc[q] = "f" PROVE FALSE
  OBVIOUS
<1> DEFINE S == Agents \ {r}
           T == S \ {q}
<1>1. Counted \in SUBSET T
  BY DEF Counted, CountedPC, AllArrived, WaitsForAll, At
<1>2. IsFiniteSet(T) /\ Cardinality(T) = Cardinality(Agents) - 2
  <2>1. IsFiniteSet(S) /\ Cardinality(S) = Cardinality(Agents) - 1 /\ q \in S
    BY AgentsAssumption, FS_RemoveElement
  <2> HIDE DEF S
  <2>2. IsFiniteSet(T) /\ Cardinality(T) = Cardinality(S) - 1
    BY <2>1, FS_RemoveElement
  <2> QED BY <2>1, <2>2, CountedFinite
<1> HIDE DEF T
<1>3. Cardinality(Counted) <= Cardinality(Agents) - 2
  BY <1>1, <1>2, FS_Subset
<1> QED BY <1>3, CountedFinite DEF AllArrived, Others, CountInv, StoppedIsCount

\* Two agents never run their f at the same time, shutdown or not: whoever
\* reads a full count is the only agent that is not counted.
THEOREM OneCollectorCorrect == Spec => []OneCollector
<1>1. Init => OneCollector
  BY DEF Init, OneCollector
<1>2. CountInv /\ OneCollector /\ [Next]_vars => OneCollector'
  <2> SUFFICES ASSUME CountInv, OneCollector, [Next]_vars PROVE OneCollector'
    OBVIOUS
  <2>2. ASSUME NEW q \in Agents, pc'[q] = "f", pc[q] # "f" PROVE AllArrived(q)
    <3> USE <2>2 DEF CountInv, TypeOK, AllPC, CountedPC, OwnerPC, SteppingPC, At, Goto
    <3>1. CASE UNCHANGED vars
      BY <3>1 DEF vars
    <3>2. ASSUME NEW a \in Agents, RunStep(a) PROVE FALSE
      BY <3>2 DEF RunStep, Top, HostDrives, DriveOnce, NextJob, NoJob, StepReturns,
         StepPolls, AfterStep, BetweenSteps, DeadlinePasses, Publish, RecheckStays,
         RecheckSleeps, Sleep, Woken
    <3>3. ASSUME NEW a \in Agents, EnterStep(a) PROVE FALSE
      BY <3>3 DEF EnterStep, EnterSnapshot, EnterAdd, EnterWait, EnterSub
    <3>4. ASSUME NEW a \in Agents, StopStep(a) PROVE AllArrived(q)
      <4>1. CASE WakeSleepers(a)  BY <4>1 DEF WakeSleepers, OnSlot
      <4>2. CASE AllArrived(a)  BY <4>2 DEF AllArrived
      <4> QED BY <3>4, <4>1, <4>2 DEF StopStep, CallStop, Request, AwaitGivesUp,
         AwaitParks, Collected, Release, Drain, Caller
    <3>5. ASSUME NEW a \in Agents, NotifyOne(a) \/ SpuriousWake(a) PROVE FALSE
      BY <3>5 DEF NotifyOne, SpuriousWake, OnSlot
    <3>6. CASE Shutdown
      BY <3>6 DEF Shutdown, ShutdownStops, ShutdownReleases, ShutdownNotifies, OnSlot
    <3> QED BY <3>1, <3>2, <3>3, <3>4, <3>5, <3>6 DEF Next
  <2>3. ASSUME NEW r \in Agents, AllArrived(r) PROVE \A q \in Agents \ {r} : pc'[q] = pc[q]
    BY <2>3 DEF AllArrived, Goto, CountInv, TypeOK
  <2> QED BY AloneWhenArrived, <2>2, <2>3 DEF OneCollector
<1> QED BY <1>1, <1>2, CountCorrect, PTL DEF Spec, CountInv

-----------------------------------------------------------------------------
(* The contract. *)

Mutating   == {a \in Agents : pc[a] \in SteppingPC}
Collecting == {a \in Agents : pc[a] = "f"}

\* A step of the contract, or one it does not see.
ContractStep == Abstract!Next \/ UNCHANGED <<Mutating, Collecting, stopping>>

\* An agent that changes its location by itself, without beginning its f, takes
\* a step of the contract: it may go into a task's step from everywhere but the
\* barrier's wait and its own f, because an f under way holds everybody there.
LEMMA MoveOne ==
    ASSUME CountInv, RoundInv, NEW a \in Agents, NEW there \in AllPC \ {"f"},
           pc' = [pc EXCEPT ![a] = there], stopping' = stopping,
           there \in SteppingPC => pc[a] \notin {"enter_wait", "f"}
    PROVE  ContractStep
<1> USE DEF CountInv, TypeOK, ContractStep, Mutating, Collecting, SteppingPC
<1>1. CASE pc[a] = "step" /\ there # "step"
  <2>1. Abstract!Leave(a)
    BY <1>1 DEF Abstract!Leave
  <2> QED BY <2>1 DEF Abstract!Next
<1>2. CASE pc[a] = "f"
  <2>1. Abstract!Finish(a)
    BY <1>2 DEF Abstract!Finish
  <2> QED BY <2>1 DEF Abstract!Next
<1>3. CASE pc[a] \notin {"step", "f"} /\ there = "step"
  <2>1. Collecting = {} \/ stopping
    BY <1>3 DEF RoundInv, Held
  <2>2. Abstract!Enter(a)
    BY <1>3, <2>1 DEF Abstract!Enter
  <2> QED BY <2>2 DEF Abstract!Next
<1>4. CASE pc[a] \notin {"step", "f"} /\ there # "step"
  <2>1. Mutating' = Mutating /\ Collecting' = Collecting
    BY <1>4
  <2> QED BY <2>1
<1>5. CASE pc[a] = "step" /\ there = "step"
  <2>1. pc' = pc
    BY <1>5
  <2> QED BY <2>1
<1> QED BY <1>1, <1>2, <1>3, <1>4, <1>5

\* What happens to agents outside their step and their f is invisible.
LEMMA Invisible ==
    ASSUME CountInv, pc' \in [Agents -> AllPC], stopping' = stopping,
           \A b \in Agents : \/ pc'[b] = pc[b]
                             \/ {pc[b], pc'[b]} \cap {"step", "f"} = {}
    PROVE  ContractStep
<1>1. Mutating' = Mutating /\ Collecting' = Collecting
  BY DEF CountInv, TypeOK, Mutating, Collecting, SteppingPC
<1> QED BY <1>1 DEF ContractStep

LEMMA RefinesStep ==
    ASSUME CountInv, RoundInv, [Next]_vars
    PROVE  ContractStep
<1> USE DEF CountInv, TypeOK, AllPC, CountedPC, OwnerPC, SteppingPC, At, Goto
<1>1. CASE UNCHANGED vars
  BY <1>1, Invisible DEF vars
<1>2. ASSUME NEW a \in Agents, RunStep(a) PROVE ContractStep
  <2>1. CASE Top(a)  BY <2>1, MoveOne DEF Top
  <2>2. CASE HostDrives(a)  BY <2>2, MoveOne DEF HostDrives
  <2>3. CASE DriveOnce(a)  BY <2>3, MoveOne DEF DriveOnce
  <2>4. CASE NextJob(a)  BY <2>4, MoveOne DEF NextJob
  <2>5. CASE NoJob(a)  BY <2>5, MoveOne DEF NoJob
  <2>6. CASE StepReturns(a)  BY <2>6, MoveOne DEF StepReturns
  <2>7. CASE StepPolls(a)  BY <2>7, MoveOne DEF StepPolls
  <2>8. CASE AfterStep(a)  BY <2>8, MoveOne DEF AfterStep
  <2>9. CASE BetweenSteps(a)  BY <2>9, MoveOne DEF BetweenSteps
  <2>10. CASE DeadlinePasses(a)  BY <2>10, MoveOne DEF DeadlinePasses
  <2>11. CASE Publish(a)  BY <2>11, MoveOne DEF Publish
  <2>12. CASE RecheckStays(a)  BY <2>12, MoveOne DEF RecheckStays
  <2>13. CASE RecheckSleeps(a)  BY <2>13, MoveOne DEF RecheckSleeps
  <2>14. CASE Sleep(a)  BY <2>14, MoveOne DEF Sleep
  <2>15. CASE Woken(a)  BY <2>15, MoveOne DEF Woken
  <2> QED BY <1>2, <2>1, <2>2, <2>3, <2>4, <2>5, <2>6, <2>7, <2>8, <2>9, <2>10, <2>11, <2>12, <2>13, <2>14, <2>15 DEF RunStep
<1>3. ASSUME NEW a \in Agents, EnterStep(a) PROVE ContractStep
  <2>1. CASE EnterSnapshot(a)  BY <2>1, MoveOne DEF EnterSnapshot
  <2>2. CASE EnterAdd(a)  BY <2>2, MoveOne DEF EnterAdd
  <2>3. CASE EnterWait(a)  BY <2>3, Invisible DEF EnterWait
  <2>4. CASE EnterSub(a)  BY <2>4, MoveOne DEF EnterSub
  <2> QED BY <1>3, <2>1, <2>2, <2>3, <2>4 DEF EnterStep
<1>4. ASSUME NEW a \in Agents, StopStep(a) PROVE ContractStep
  <2>1. CASE CallStop(a)  BY <2>1, MoveOne DEF CallStop
  <2>2. CASE Request(a)  BY <2>2, MoveOne DEF Request, Caller
  <2>3. CASE WakeSleepers(a)  BY <2>3, Invisible DEF WakeSleepers, OnSlot
  <2>4. CASE AllArrived(a)
    <3>1. Collecting = {}
      BY <2>4, AloneWhenArrived DEF Collecting, AllArrived, WaitsForAll
    <3>2. Mutating = {} \/ stopping
      BY <2>4, EveryoneIsHere DEF Mutating, AllArrived, WaitsForAll, Held
    <3>3. Collecting' = {a} /\ Mutating' = Mutating /\ stopping' = stopping
      BY <2>4, <3>1 DEF AllArrived, WaitsForAll, Collecting, Mutating
    <3>4. Abstract!Collect(a)
      BY <3>1, <3>2, <3>3 DEF Abstract!Collect, Collecting, Mutating
    <3> QED BY <3>4 DEF ContractStep, Abstract!Next
  <2>5. CASE AwaitGivesUp(a)  BY <2>5, MoveOne DEF AwaitGivesUp
  <2>6. CASE AwaitParks(a)  BY <2>6, Invisible DEF AwaitParks
  <2>7. CASE Collected(a)  BY <2>7, MoveOne DEF Collected
  <2>8. CASE Release(a)  BY <2>8, MoveOne DEF Release, Caller
  <2>9. CASE Drain(a)
    <3>1. CASE pc' = pc  BY <2>9, <3>1, Invisible DEF Drain
    <3>2. CASE Goto(a, Caller(a))  BY <2>9, <3>2, MoveOne DEF Drain, Caller
    <3> QED BY <2>9, <3>1, <3>2 DEF Drain
  <2> QED BY <1>4, <2>1, <2>2, <2>3, <2>4, <2>5, <2>6, <2>7, <2>8, <2>9 DEF StopStep
<1>5. ASSUME NEW a \in Agents, NotifyOne(a) PROVE ContractStep
  BY <1>5, Invisible DEF NotifyOne, OnSlot
<1>6. ASSUME NEW a \in Agents, SpuriousWake(a) PROVE ContractStep
  BY <1>6, Invisible DEF SpuriousWake, OnSlot
<1>7. CASE ShutdownStops
  <2>1. Abstract!Close
    BY <1>7 DEF ShutdownStops, Abstract!Close
  <2> QED BY <2>1 DEF ContractStep, Abstract!Next
<1>8. CASE ShutdownReleases
  BY <1>8, Invisible DEF ShutdownReleases
<1>9. CASE ShutdownNotifies
  BY <1>9, Invisible DEF ShutdownNotifies, OnSlot
<1> QED BY <1>1, <1>2, <1>3, <1>4, <1>5, <1>6, <1>7, <1>8, <1>9 DEF Next, Shutdown

\* The barrier implements the stop-the-world contract: the initial states map to
\* its initial state, and every step to a step of it or to a stutter.
THEOREM Refinement == Spec => ImplementsStopTheWorld
<1>1. Init => Abstract!Init
  BY DEF Init, Abstract!Init, SteppingPC
<1>2. CountInv /\ RoundInv /\ [Next]_vars
      => [Abstract!Next]_<<Mutating, Collecting, stopping>>
  BY RefinesStep DEF ContractStep
<1> QED BY <1>1, <1>2, RoundCorrect, PTL
        DEF Spec, ImplementsStopTheWorld, Abstract!Spec, Mutating, Collecting
=============================================================================
