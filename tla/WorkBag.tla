------------------------------ MODULE WorkBag ------------------------------
(***************************************************************************)
(* What the work-stealing deque promises, with every operation atomic: a   *)
(* bounded double-ended queue whose owner pushes and pops at the bottom,   *)
(* whose thieves take from the top, and whose drop releases what is left.  *)
(* Items are numbered in the order they are pushed; `taken` counts how     *)
(* often each of them was handed to somebody.                              *)
(***************************************************************************)
EXTENDS Integers, Sequences

CONSTANTS Capacity, MaxPushes

VARIABLES items, pushed, taken

Take(S) == taken' = [i \in DOMAIN taken |-> IF i \in S THEN taken[i] + 1 ELSE taken[i]]

Init ==
    /\ items = << >>
    /\ pushed = 0
    /\ taken = [i \in 1 .. MaxPushes |-> 0]

Push ==
    /\ Len(items) < Capacity
    /\ pushed < MaxPushes
    /\ pushed' = pushed + 1
    /\ items' = Append(items, pushed + 1)
    /\ UNCHANGED taken

Pop ==
    /\ items # << >>
    /\ items' = SubSeq(items, 1, Len(items) - 1)
    /\ Take({items[Len(items)]})
    /\ UNCHANGED pushed

Steal ==
    /\ items # << >>
    /\ items' = Tail(items)
    /\ Take({Head(items)})
    /\ UNCHANGED pushed

DropAll ==
    /\ items # << >>
    /\ items' = << >>
    /\ Take({items[k] : k \in DOMAIN items})
    /\ UNCHANGED pushed

Next == Push \/ Pop \/ Steal \/ DropAll

Spec == Init /\ [][Next]_<<items, pushed, taken>>
=============================================================================
