---------------------------- MODULE MCScheduler ----------------------------
(* Scheduler with its symmetries: no action tells two fibers, two places, two *)
(* mappings or two values apart, and the properties checked under it are      *)
(* safety properties.                                                         *)
EXTENDS Scheduler
Symmetry == Permutations(Fibers) \cup Permutations(Places) \cup Permutations(Maps)
            \cup Permutations(Values)
=============================================================================
