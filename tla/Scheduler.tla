----------------------------- MODULE Scheduler -----------------------------
(***************************************************************************)
(* A thread that runs fibers, by hand (resume, take_yield_value, moves,    *)
(* drops) and through a scheduler that owns them: TimeSliceScheduler of    *)
(* krio-preempt, a Vec of fibers, or RoundRobin of krio-runtime, a Vec of  *)
(* boxed tasks.  The host drives one scheduler at a time and ticks it from *)
(* its own stack; a fiber inside a tick cannot reach the scheduler, which  *)
(* is borrowed, but may make and resume fibers of its own.                 *)
(***************************************************************************)
EXTENDS Fiber

VARIABLES
    kind,      \* which scheduler holds fibers: "none" while none does
    sched,     \* TimeSliceScheduler::fibers or RoundRobin::tasks
    turn,      \* the local `i` of tick; 0 outside it
    stepping,  \* tick is inside `step`
    toRemove   \* the local `to_remove` of tick

schedVars == <<kind, sched, turn, stepping, toRemove>>
vars == <<fiberVars, schedVars>>

TypeOK ==
    /\ FiberTypeOK
    /\ kind \in {"none", "slice", "robin"}
    /\ sched \in Seq(Fibers)
    /\ turn \in 0 .. Cardinality(Fibers) + 1 /\ stepping \in BOOLEAN
    /\ toRemove \in Seq(1 .. Cardinality(Fibers))

Init ==
    /\ FiberInit
    /\ kind = "none"
    /\ sched = << >>
    /\ turn = 0 /\ stepping = FALSE
    /\ toRemove = << >>

-----------------------------------------------------------------------------
\* User code runs, on the host's stack or in a fiber, and not the code of tick.
UserCode == InBody /\ (Running = Host => turn = 0)

\* Nobody has the fiber borrowed, and no scheduler owns it.
Mine(f) == place[f] # None /\ ~InCall(f) /\ ~Contains(sched, f)

\* A thread on its way out only makes and drops fibers.
ByHand ==
    /\ UserCode
    /\ \E f \in Fibers :
          \/ \E p \in Places, n \in Requests : New(f, p, n)
          \/ Mine(f) /\ Drop(f)
          \/ /\ alive /\ Mine(f)
             /\ \/ \E v \in Values \cup {None} : Resume(f, v, FALSE)
                \/ TakeYield(f) \/ TakeError(f)
                \/ \E p \in Places : Move(f, p)
    /\ UNCHANGED schedVars

Inside == InFiber /\ UNCHANGED schedVars

\* Thread exit, after the host's own fibers and schedulers.
ThreadExits ==
    /\ Running = Host /\ turn = 0 /\ sched = << >>
    /\ PoolDrop
    /\ UNCHANGED <<mem, place, wired, activeT, activeF, frames, at, ptr, given, yields, schedVars>>

-----------------------------------------------------------------------------
\* Every fiber of S goes to a place of its own, at once.
Relocate(S, to) ==
    /\ \A f, g \in S : to[f] = to[g] => f = g
    /\ \A f \in S, g \in Fibers \ S : to[f] # place[g]
    /\ place' = [f \in Fibers |-> IF f \in S THEN to[f] ELSE place[f]]
    /\ mem' = [p \in Places |->
                 IF \E f \in S : to[f] = p THEN mem[place[CHOOSE f \in S : to[f] = p]]
                 ELSE IF \E f \in S : place[f] = p THEN LeftBehind(p) ELSE mem[p]]

\* TimeSliceScheduler::spawn: the fiber moves into the Vec, and when the Vec
\* grows every fiber in it moves.
SpawnSlice(f) ==
    /\ Running = Host /\ turn = 0 /\ alive
    /\ Mine(f) /\ kind \in {"none", "slice"}
    /\ UNCHANGED <<wired, activeT, activeF, frames, at, ptr, given, yields, stackVars, turn, stepping, toRemove>>
    /\ LET S == ToSet(sched) IN
       \E to \in [S \cup {f} -> Places] :
          /\ (\A g \in S : to[g] = place[g]) \/ (\A g \in S : to[g] # place[g])
          /\ Relocate(S \cup {f}, to)
    /\ sched' = Append(sched, f) /\ kind' = "slice"

\* RoundRobin::spawn: the fiber has moved into a box, where it stays.
SpawnRobin(f) ==
    /\ Running = Host /\ turn = 0 /\ alive
    /\ Mine(f) /\ kind \in {"none", "robin"}
    /\ sched' = Append(sched, f) /\ kind' = "robin"
    /\ UNCHANGED <<fiberVars, turn, stepping, toRemove>>

-----------------------------------------------------------------------------
(* tick. *)

\* The loop is at slot `turn`, between two steps.
Ticking == Running = Host /\ turn \in DOMAIN sched /\ ~stepping
Slot == sched[turn]
SlotDone == mem[place[Slot]].done

TickBegins ==
    /\ Running = Host /\ turn = 0 /\ sched # << >>
    /\ turn' = 1
    /\ UNCHANGED <<fiberVars, kind, sched, stepping, toRemove>>

\* TimeSliceScheduler: a fiber that was done before its turn is skipped.
TickSkips ==
    /\ Ticking /\ kind = "slice" /\ SlotDone
    /\ toRemove' = Append(toRemove, turn)
    /\ turn' = turn + 1
    /\ UNCHANGED <<fiberVars, kind, sched, stepping>>

\* Task::step is called; TimeSliceScheduler gives the fiber a slice first.
TickSteps ==
    /\ Ticking
    /\ Resume(Slot, None, kind = "slice")
    /\ stepping' = TRUE
    /\ UNCHANGED <<kind, sched, turn, toRemove>>

\* RoundRobin steps a task that is done: resume panics, and tick is unwound.
TickPanics ==
    /\ Ticking /\ kind = "robin" /\ SlotDone
    /\ turn' = 0 /\ toRemove' = << >>
    /\ UNCHANGED <<fiberVars, kind, sched, stepping>>

\* Mutant of TickStepped: the deadline of a fiber that yielded stays.
TickSteppedKeepsDeadline ==
    /\ Running = Host /\ stepping
    /\ toRemove' = IF SlotDone THEN Append(toRemove, turn) ELSE toRemove
    /\ turn' = turn + 1 /\ stepping' = FALSE
    /\ UNCHANGED <<fiberVars, kind, sched>>

\* Task::step returns: the fiber is marked for removal, or its slice is over.
TickStepped ==
    /\ Running = Host /\ stepping
    /\ IF SlotDone \/ kind = "robin" THEN UNCHANGED fiberVars ELSE ClearDeadline(Slot)
    /\ toRemove' = IF SlotDone THEN Append(toRemove, turn) ELSE toRemove
    /\ turn' = turn + 1 /\ stepping' = FALSE
    /\ UNCHANGED <<kind, sched>>

\* swap_remove(i): the fiber in slot i is dropped, and the last one moves to
\* its place (a box stays where it is).
SwapRemoveSlot(i) ==
    LET f == sched[i]
        last == Last(sched)
        to == IF kind = "slice" THEN place[f] ELSE place[last] IN
    /\ Forget(f)
    /\ place' = [[place EXCEPT ![last] = to] EXCEPT ![f] = None]
    /\ mem' = IF last = f \/ kind = "robin"
              THEN [mem EXCEPT ![place[f]] = LeftBehind(place[f])]
              ELSE [mem EXCEPT ![to] = mem[place[last]], ![place[last]] = LeftBehind(place[last])]
    /\ sched' = SwapRemove(sched, i)
    /\ UNCHANGED <<activeT, activeF, frames, yields>>

\* Mutant of TickRemoves: front to back, and a slot that is gone by then is
\* passed over.
TickRemovesForward ==
    /\ Running = Host /\ turn > Len(sched) /\ toRemove # << >>
    /\ IF Head(toRemove) \in DOMAIN sched
       THEN SwapRemoveSlot(Head(toRemove))
       ELSE UNCHANGED <<fiberVars, sched>>
    /\ toRemove' = Tail(toRemove)
    /\ UNCHANGED <<kind, turn, stepping>>

\* The second loop, back to front.
TickRemoves ==
    /\ Running = Host /\ turn > Len(sched) /\ toRemove # << >>
    /\ SwapRemoveSlot(Last(toRemove))
    /\ toRemove' = Front(toRemove)
    /\ UNCHANGED <<kind, turn, stepping>>

TickEnds ==
    /\ Running = Host /\ turn > Len(sched) /\ toRemove = << >>
    /\ turn' = 0
    /\ kind' = IF sched = << >> THEN "none" ELSE kind
    /\ UNCHANGED <<fiberVars, sched, stepping, toRemove>>

Tick ==
    \/ TickBegins \/ TickSkips \/ TickSteps \/ TickPanics \/ TickStepped
    \/ TickRemoves \/ TickEnds

Next ==
    \/ ByHand \/ Inside \/ ThreadExits \/ Tick
    \/ \E f \in Fibers : SpawnSlice(f) \/ SpawnRobin(f)

Spec == Init /\ [][Next]_vars

-----------------------------------------------------------------------------
(* Properties. *)

\* tick: "finished fibers are dropped before returning", "completed tasks are
\* removed in the same pass", and nobody else, whichever of the others
\* swap_remove moves meanwhile.
RemovesTheFinished ==
    [][/\ \A f \in ToSet(sched) \ ToSet(sched') : mem[place[f]].done
       /\ TickEnds => \A f \in ToSet(sched) : ~mem[place[f]].done]_vars

\* TimeSliceScheduler: a slice is that of the turn under way.  A fiber that
\* waits for its turn carries no deadline of an earlier round, and the fiber
\* whose turn it is has its slice for as long as it runs.
SliceIsOfThisTurn ==
    kind = "slice" =>
      \A i \in DOMAIN sched :
         LET m == mem[place[sched[i]]] IN
         IF stepping /\ i = turn THEN m.slice
         ELSE m.slice => m.done
=============================================================================
