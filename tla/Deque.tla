------------------------------- MODULE Deque -------------------------------
(***************************************************************************)
(* The bounded Chase-Lev deque of krio-parallel (deque.rs): one owner,     *)
(* any number of thieves, indices that wrap around, slots that are read    *)
(* before they are claimed.                                                *)
(*                                                                         *)
(* One access to `top` or `bottom` is one step; the memory model is        *)
(* sequentially consistent, which is what the fences of the code are for.  *)
(* Slots are plain memory: a write is a step in which the slot is Torn and *)
(* a step in which it has its value, so a thief may read it half-written.  *)
(***************************************************************************)
EXTENDS Integers, Sequences

CONSTANTS
    Thieves,    \* the agents that steal
    Capacity,   \* with_capacity: a power of two, at least 2
    Half,       \* isize::MAX + 1; indices are -Half .. Half - 1 and wrap
    Starts,     \* where the two indices may be after earlier traffic
    MaxPushes   \* bound: how many items the owner pushes

ASSUME CapacityAssumption ==
    /\ Capacity \in Nat \ {0, 1}
    /\ Half \in Nat
    /\ Capacity < Half /\ Half % Capacity = 0
    /\ MaxPushes \in Nat
    /\ MaxPushes < 2 * Half
    /\ Starts \subseteq -Half .. Half - 1

Index == -Half .. Half - 1
Items == 1 .. MaxPushes
Uninit == 0
Torn == -1

VARIABLES
    top, bottom, \* Deque::top, Deque::bottom
    buf,         \* Deque::buf
    pushed,      \* items pushed so far; the next one is pushed + 1
    taken,       \* how often each item was handed out
    owner,       \* where the owner is
    ot, won,     \* the owner's locals `t` and `won` in `pop`
    thief,       \* where each thief is
    tt, tv       \* the thief's locals `t` and `value` in `steal`

ownerVars == <<owner, ot, won>>
thiefVars == <<thief, tt, tv>>
vars == <<top, bottom, buf, pushed, taken, ownerVars, thiefVars>>

TypeOK ==
    /\ top \in Index /\ bottom \in Index
    /\ buf \in [0 .. Capacity - 1 -> Items \cup {Uninit, Torn}]
    /\ pushed \in 0 .. MaxPushes
    /\ taken \in [Items -> 0 .. 1]
    /\ owner \in {"idle", "push_publish", "pop_load", "pop_cas", "pop_restore", "dropped"}
    /\ ot \in Index /\ won \in BOOLEAN
    /\ thief \in [Thieves -> {"idle", "bottom", "read", "cas"}]
    /\ tt \in [Thieves -> Index]
    /\ tv \in [Thieves -> Items \cup {Uninit, Torn}]

Init ==
    /\ top \in Starts
    /\ bottom = top
    /\ buf = [s \in 0 .. Capacity - 1 |-> Uninit]
    /\ pushed = 0
    /\ taken = [i \in Items |-> 0]
    /\ owner = "idle" /\ ot = 0 /\ won = FALSE
    /\ thief = [h \in Thieves |-> "idle"]
    /\ tt = [h \in Thieves |-> 0]
    /\ tv = [h \in Thieves |-> Uninit]

\* Mutant of Plus1: an increment that does not wrap.
Plus1PastMax(i) == i + 1

\* wrapping_add and wrapping_sub on isize.
Wrap(i) == ((i + Half) % (2 * Half)) - Half
Plus1(i) == Wrap(i + 1)
Minus(i, j) == Wrap(i - j)

\* i & mask.
Slot(i) == i % Capacity

\* Handing an item out: to the owner, to a thief, or to drop.
Take(S) == taken' = [i \in Items |-> IF i \in S THEN taken[i] + 1 ELSE taken[i]]

-----------------------------------------------------------------------------
(* The owner. *)

\* push: full, so the value goes back to the caller (who spills it).
PushFull ==
    /\ owner = "idle"
    /\ Minus(bottom, top) >= Capacity
    /\ UNCHANGED vars

\* Mutant of PushWrite: the full check is off by one.
PushWriteOverfull ==
    /\ owner = "idle"
    /\ pushed < MaxPushes
    /\ Minus(bottom, top) <= Capacity
    /\ buf' = [buf EXCEPT ![Slot(bottom)] = Torn]
    /\ owner' = "push_publish"
    /\ UNCHANGED <<top, bottom, pushed, taken, ot, won, thiefVars>>

\* push: there is room; the write of the slot begins.
PushWrite ==
    /\ owner = "idle"
    /\ pushed < MaxPushes
    /\ Minus(bottom, top) < Capacity
    /\ buf' = [buf EXCEPT ![Slot(bottom)] = Torn]
    /\ owner' = "push_publish"
    /\ UNCHANGED <<top, bottom, pushed, taken, ot, won, thiefVars>>

\* push: the write ends and the index is published.
PushPublish ==
    /\ owner = "push_publish"
    /\ pushed' = pushed + 1
    /\ buf' = [buf EXCEPT ![Slot(bottom)] = pushed + 1]
    /\ bottom' = Plus1(bottom)
    /\ owner' = "idle"
    /\ UNCHANGED <<top, taken, ot, won, thiefVars>>

\* pop: claim the bottom slot before looking at top.
PopClaim ==
    /\ owner = "idle"
    /\ bottom' = Minus(bottom, 1)
    /\ owner' = "pop_load"
    /\ UNCHANGED <<top, buf, pushed, taken, ot, won, thiefVars>>

\* pop: load top and compare the difference.
PopLoad ==
    /\ owner = "pop_load"
    /\ LET len == Minus(bottom, top)
       IN \/ /\ len < 0
             /\ owner' = "pop_restore" /\ won' = FALSE
             /\ UNCHANGED <<taken, ot>>
          \/ /\ len = 0
             /\ owner' = "pop_cas" /\ ot' = top
             /\ UNCHANGED <<taken, won>>
          \/ /\ len > 0
             /\ owner' = "idle" /\ Take({buf[Slot(bottom)]})
             /\ UNCHANGED <<ot, won>>
    /\ UNCHANGED <<top, bottom, buf, pushed, thiefVars>>

\* Mutant of PopCas: the last item is taken without a CAS.
PopCasUnchecked ==
    /\ owner = "pop_cas"
    /\ won' = TRUE
    /\ top' = Plus1(ot)
    /\ owner' = "pop_restore"
    /\ ot' = 0
    /\ UNCHANGED <<bottom, buf, pushed, taken, thiefVars>>

\* pop: the last item, raced for with the thieves.
PopCas ==
    /\ owner = "pop_cas"
    /\ won' = (top = ot)
    /\ top' = IF top = ot THEN Plus1(ot) ELSE top
    /\ owner' = "pop_restore"
    /\ ot' = 0
    /\ UNCHANGED <<bottom, buf, pushed, taken, thiefVars>>

\* pop: put bottom back, and read the slot if it was won.
PopRestore ==
    /\ owner = "pop_restore"
    /\ bottom' = Plus1(bottom)
    /\ Take(IF won THEN {buf[Slot(bottom)]} ELSE {})
    /\ owner' = "idle" /\ won' = FALSE
    /\ UNCHANGED <<top, buf, pushed, ot, thiefVars>>

\* Mutant of Drop: a loop from top while the index is below bottom, as written
\* without wrapping in mind.
DropWhileBelow ==
    /\ owner = "idle"
    /\ \A h \in Thieves : thief[h] = "idle"
    /\ Take({buf[Slot(i)] : i \in top .. bottom - 1})
    /\ owner' = "dropped"
    /\ UNCHANGED <<top, bottom, buf, pushed, ot, won, thiefVars>>

\* drop: count the live slots, then step through them.
Drop ==
    /\ owner = "idle"
    /\ \A h \in Thieves : thief[h] = "idle"
    /\ LET n == Minus(bottom, top)
           live == IF n < 0 THEN 0 ELSE n
       IN Take({buf[Slot(Wrap(top + k))] : k \in 0 .. live - 1})
    /\ owner' = "dropped"
    /\ UNCHANGED <<top, bottom, buf, pushed, ot, won, thiefVars>>

-----------------------------------------------------------------------------
(* A thief. *)

\* steal: load top.
StealTop(h) ==
    /\ thief[h] = "idle"
    /\ owner # "dropped"
    /\ tt' = [tt EXCEPT ![h] = top]
    /\ thief' = [thief EXCEPT ![h] = "bottom"]
    /\ UNCHANGED <<top, bottom, buf, pushed, taken, ownerVars, tv>>

\* steal: load bottom; nothing there, or something to read.
StealBottom(h) ==
    /\ thief[h] = "bottom"
    /\ IF Minus(bottom, tt[h]) <= 0
       THEN thief' = [thief EXCEPT ![h] = "idle"] /\ tt' = [tt EXCEPT ![h] = 0]
       ELSE thief' = [thief EXCEPT ![h] = "read"] /\ UNCHANGED tt
    /\ UNCHANGED <<top, bottom, buf, pushed, taken, ownerVars, tv>>

\* steal: read before claiming.
StealRead(h) ==
    /\ thief[h] = "read"
    /\ tv' = [tv EXCEPT ![h] = buf[Slot(tt[h])]]
    /\ thief' = [thief EXCEPT ![h] = "cas"]
    /\ UNCHANGED <<top, bottom, buf, pushed, taken, ownerVars, tt>>

\* steal: claim; the loser forgets what it read.
StealCas(h) ==
    /\ thief[h] = "cas"
    /\ IF top = tt[h] THEN top' = Plus1(tt[h]) /\ Take({tv[h]})
                      ELSE UNCHANGED <<top, taken>>
    /\ thief' = [thief EXCEPT ![h] = "idle"]
    /\ tt' = [tt EXCEPT ![h] = 0]
    /\ tv' = [tv EXCEPT ![h] = Uninit]
    /\ UNCHANGED <<bottom, buf, pushed, ownerVars>>

-----------------------------------------------------------------------------
OwnerStep == PushFull \/ PushWrite \/ PushPublish \/ PopClaim \/ PopLoad
             \/ PopCas \/ PopRestore \/ Drop
ThiefStep(h) == StealTop(h) \/ StealBottom(h) \/ StealRead(h) \/ StealCas(h)
Next == OwnerStep \/ \E h \in Thieves : ThiefStep(h)

Spec == Init /\ [][Next]_vars

-----------------------------------------------------------------------------
(* Properties. *)

\* A thief whose CAS would succeed holds the item at the top, fully written:
\* "a thief reads the value before the CAS that claims it", and a slot that
\* the owner reuses meanwhile can only belong to an index already gone.
ThiefHoldsTop ==
    \A h \in Thieves : thief[h] = "cas" /\ tt[h] = top =>
        tv[h] \in Items /\ tv[h] = buf[Slot(top)]

\* While the owner is in the middle of pop, bottom is one less than what the
\* owner still answers for.
LogicalBottom ==
    IF owner \in {"pop_load", "pop_cas", "pop_restore"} THEN Plus1(bottom) ELSE bottom

\* The items between top and that bottom, oldest first.
Live == [k \in 1 .. Minus(LogicalBottom, top) |-> buf[Slot(Wrap(top + k - 1))]]

\* An item is handed out once the owner has won it, though it reads it later.
HandedOut ==
    [i \in Items |->
        IF owner = "pop_restore" /\ won /\ buf[Slot(bottom)] = i
        THEN taken[i] + 1 ELSE taken[i]]

\* Exactly once: every item pushed is either still in the deque or was handed
\* to exactly one taker, and drop leaves none behind.
ExactlyOnce ==
    \A i \in Items :
        HandedOut[i] + (IF owner # "dropped" /\ \E k \in DOMAIN Live : Live[k] = i
                        THEN 1 ELSE 0)
            = IF i <= pushed THEN 1 ELSE 0

\* The concurrent deque implements the atomic one: push takes effect when the
\* index is published, steal at its CAS, pop when it has seen top (more than
\* one item) or at its CAS (exactly one).
Abstract == INSTANCE WorkBag WITH
    items <- IF owner = "dropped" THEN << >> ELSE Live,
    taken <- HandedOut

Linearizable == Abstract!Spec
=============================================================================
