---------------------------- MODULE StopTheWorld ----------------------------
(***************************************************************************)
(* What krio-parallel promises a collector: agents run task steps, now and *)
(* then one of them collects, and while it does nobody else is inside a    *)
(* step.  A cluster that shuts down lets everybody go, collection or not;  *)
(* two collections never overlap.                                          *)
(***************************************************************************)
CONSTANT Agents

VARIABLES
    mutating,    \* the agents inside Task::step
    collecting,  \* the agents inside the f of stop_the_world
    over         \* the cluster is shutting down

Init ==
    /\ mutating = {}
    /\ collecting = {}
    /\ over = FALSE

Enter(a) ==
    /\ a \notin mutating
    /\ collecting = {} \/ over
    /\ mutating' = mutating \cup {a}
    /\ UNCHANGED <<collecting, over>>

Leave(a) ==
    /\ a \in mutating
    /\ mutating' = mutating \ {a}
    /\ UNCHANGED <<collecting, over>>

Collect(a) ==
    /\ collecting = {}
    /\ mutating = {} \/ over
    /\ collecting' = {a}
    /\ UNCHANGED <<mutating, over>>

Finish(a) ==
    /\ a \in collecting
    /\ collecting' = collecting \ {a}
    /\ UNCHANGED <<mutating, over>>

Close ==
    /\ over' = TRUE
    /\ UNCHANGED <<mutating, collecting>>

Next == Close \/ \E a \in Agents : Enter(a) \/ Leave(a) \/ Collect(a) \/ Finish(a)

Spec == Init /\ [][Next]_<<mutating, collecting, over>>
=============================================================================
