--------------------------- MODULE MCStateMachine ---------------------------
(* Small functions for StateMachine. *)
EXTENDS StateMachine

CONSTANTS l1, l2

Stmt(k, v) == [kind |-> k, local |-> v]
One == {Stmt("def", l1), Stmt("use", l1), Stmt("yield", l1), Stmt("call", l1)}
Two == One \cup {Stmt("def", l2), Stmt("use", l2)}

Cuts(s) == Cardinality({i \in DOMAIN s : Classify(s[i])})

\* One block that may repeat, cut at least once.
Loops == {[suspending |-> TRUE, stmts |-> <<s>>, succ |-> << {0, 1} >>] :
              s \in {t \in [1 .. 4 -> Two] : Cuts(t) >= 1}}

\* Two blocks, the second of which may go back to the first.
Short == UNION {[1 .. n -> One] : n \in 0 .. 2}
Graphs2 == {[suspending |-> TRUE, stmts |-> <<s, t>>, succ |-> << {2}, {0, 1} >>] :
               s \in Short, t \in Short}

\* Functions that never suspend.
Straight == {[suspending |-> FALSE, stmts |-> <<s>>, succ |-> << {0} >>] :
                s \in {t \in Short : Cuts(t) = 0}}

MCFunctions == Loops \cup Graphs2 \cup Straight
=============================================================================
