------------------------------- MODULE Fiber -------------------------------
(***************************************************************************)
(* The stackful fibers of krio-fiber on one thread (fiber.rs): who runs,   *)
(* what the two thread-locals say, which memory the trampoline's back      *)
(* pointers and a suspended yield_value point into, and what happens to    *)
(* them when a Fiber moves between two resumes.                            *)
(*                                                                         *)
(* A Fiber is a value at a place in memory.  A Rust move copies its bits   *)
(* to another place and leaves the old bits behind; while a fiber runs it  *)
(* is borrowed and cannot be moved, resumed or dropped.  The context       *)
(* switch itself is a jump from one step to the next.  The u64 fast path   *)
(* is the generic path with other slots.                                   *)
(***************************************************************************)
EXTENDS Stack

CONSTANTS
    Places,     \* where a Fiber may be in memory
    Values,     \* what the host passes in; of what a fiber passes out only that it did
    MaxYields   \* bound: how many yields, of all fibers

ASSUME FiberAssumption ==
    /\ None \notin Values \cup Fibers \cup Places
    /\ IsFiniteSet(Fibers)
    /\ MaxYields \in Nat

Host == None

VARIABLES
    mem,      \* the fields of the Fiber that is, or was last, at a place
    place,    \* where each fiber is; None before it is made and once it is dropped
    wired,    \* where the back pointers of TrampolineState point
    activeT,  \* ACTIVE_TRAMPOLINE, as the fiber it belongs to
    activeF,  \* ACTIVE_FIBER, as a place
    frames,   \* the calls of `resume` under way: fiber, prev_active, prev_fiber
    at,       \* where each fiber's closure is
    ptr,      \* the local `fiber_ptr` of a suspended yield_value
    given,    \* what the resume of a fiber in yield_value passed to it (history)
    yields    \* yields so far

fiberVars == <<mem, place, wired, activeT, activeF, frames, at, ptr, given, yields, stackVars>>

Fields == [done : BOOLEAN, errored : BOOLEAN, payload : BOOLEAN,
           input : Values \cup {None}, output : BOOLEAN,
           slice : BOOLEAN]  \* deadline_ms is set, to the end of a slice
Fresh == [done |-> FALSE, errored |-> FALSE, payload |-> FALSE,
          input |-> None, output |-> FALSE, slice |-> FALSE]

FiberTypeOK ==
    /\ StackTypeOK
    /\ mem \in [Places -> Fields]
    /\ place \in [Fibers -> Places \cup {None}]
    /\ wired \in [Fibers -> Places \cup {None}]
    /\ activeT \in Fibers \cup {None} /\ activeF \in Places \cup {None}
    /\ frames \in Seq([fiber : Fibers, prevT : Fibers \cup {None}, prevF : Places \cup {None}])
    /\ at \in [Fibers -> {"new", "body", "yield_now", "yield_value", "returned", "panicked"}]
    /\ ptr \in [Fibers -> Places \cup {None}]
    /\ \A f \in Fibers : at[f] = "yield_value" => ptr[f] \in Places
    /\ given \in [Fibers -> Values \cup {None}]
    /\ yields \in 0 .. MaxYields

FiberInit ==
    /\ StackInit
    /\ mem = [p \in Places |-> Fresh]
    /\ place = [f \in Fibers |-> None]
    /\ wired = [f \in Fibers |-> None]
    /\ activeT = None /\ activeF = None
    /\ frames = << >>
    /\ at = [f \in Fibers |-> "new"]
    /\ ptr = [f \in Fibers |-> None]
    /\ given = [f \in Fibers |-> None]
    /\ yields = 0

-----------------------------------------------------------------------------
\* The code that runs: the fiber resumed last, or the host.
Running == IF frames = << >> THEN Host ELSE Last(frames).fiber
InCall(f) == \E i \in DOMAIN frames : frames[i].fiber = f

\* A fiber's closure is where it may call into krio: one suspended in
\* yield_value first comes out of it.
InBody == Running # Host => at[Running] = "body"

\* What is left at a place whose Fiber moved away or was dropped.  Of the old
\* bits only an input is ever looked at again, by a yield_value that points there.
LeftBehind(p) ==
    [Fresh EXCEPT !.input = IF \E g \in Fibers : ptr'[g] = p THEN mem[p].input ELSE None]

Vacant(p) == \A g \in Fibers : place[g] # p

-----------------------------------------------------------------------------
(* Fiber::new, and the drop. *)

\* with_stack_size: a stack and a closure that has not started.
New(f, p, n) ==
    /\ place[f] = None /\ Vacant(p)
    /\ StackNew(f, n)
    /\ mem' = [mem EXCEPT ![p] = Fresh]
    /\ place' = [place EXCEPT ![f] = p]
    /\ UNCHANGED <<wired, activeT, activeF, frames, at, ptr, given, yields>>

\* Fiber f is no more, and nothing of it but the bits at its place.  A closure
\* that has not come to its end is not unwound.
Forget(f) ==
    /\ StackDrop(f)
    /\ wired' = [wired EXCEPT ![f] = None]
    /\ at' = [at EXCEPT ![f] = "new"]
    /\ ptr' = [ptr EXCEPT ![f] = None]
    /\ given' = [given EXCEPT ![f] = None]

Drop(f) ==
    /\ Forget(f)
    /\ place' = [place EXCEPT ![f] = None]
    /\ mem' = [mem EXCEPT ![place[f]] = LeftBehind(place[f])]
    /\ UNCHANGED <<activeT, activeF, frames, yields>>

-----------------------------------------------------------------------------
(* resume. *)

\* Mutant of Rewire: the back pointers are set on the first resume only.
RewireOnce(f) == wired' = IF wired[f] = None THEN [wired EXCEPT ![f] = place[f]] ELSE wired

\* The back pointers are set again, in case the Fiber moved.
Rewire(f) == wired' = [wired EXCEPT ![f] = place[f]]

\* Mutant of Resume: an input the fiber has not taken yet is kept.
ResumeKeepsInput(f, v, sliced) ==
    /\ ~mem[place[f]].done
    /\ mem' = [mem EXCEPT ![place[f]].input = IF v = None \/ @ # None THEN @ ELSE v,
                          ![place[f]].slice = sliced]
    /\ given' = [given EXCEPT ![f] = IF at[f] = "yield_value" THEN v ELSE None]
    /\ Rewire(f)
    /\ frames' = Append(frames, [fiber |-> f, prevT |-> activeT, prevF |-> activeF])
    /\ activeT' = f /\ activeF' = place[f]
    /\ at' = [at EXCEPT ![f] = IF @ = "yield_value" THEN @ ELSE "body"]
    /\ UNCHANGED <<place, ptr, yields, stackVars>>

\* resume (v = None) and resume_with(v), by the host or from inside another
\* fiber; with `sliced` the caller has set the deadline of a slice just before.
\* A fiber that is done is refused with a panic.
Resume(f, v, sliced) ==
    /\ ~mem[place[f]].done
    /\ mem' = [mem EXCEPT ![place[f]].input = IF v = None THEN @ ELSE v,
                          ![place[f]].slice = sliced]
    /\ given' = [given EXCEPT ![f] = IF at[f] = "yield_value" THEN v ELSE None]
    /\ Rewire(f)
    /\ frames' = Append(frames, [fiber |-> f, prevT |-> activeT, prevF |-> activeF])
    /\ activeT' = f /\ activeF' = place[f]
    /\ at' = [at EXCEPT ![f] = IF @ = "yield_value" THEN @ ELSE "body"]
    /\ UNCHANGED <<place, ptr, yields, stackVars>>

\* Mutant of SwitchBack: the thread-locals are cleared.
SwitchBackToNone ==
    /\ frames' = Front(frames)
    /\ activeT' = None /\ activeF' = None

\* The switch back into `resume`, which restores the thread-locals.
SwitchBack ==
    /\ frames' = Front(frames)
    /\ activeT' = Last(frames).prevT /\ activeF' = Last(frames).prevF

-----------------------------------------------------------------------------
(* Inside a fiber. *)

\* yield_now.
YieldNow ==
    /\ Running # Host /\ InBody
    /\ yields < MaxYields /\ yields' = yields + 1
    /\ at' = [at EXCEPT ![activeT] = "yield_now"]
    /\ SwitchBack
    /\ UNCHANGED <<mem, place, wired, ptr, given, stackVars>>

\* Mutant of YieldValue: ACTIVE_FIBER is read after the switch has restored it.
YieldValueReadsLate ==
    /\ Running # Host /\ InBody
    /\ yields < MaxYields /\ yields' = yields + 1
    /\ mem' = [mem EXCEPT ![activeF].output = TRUE]
    /\ at' = [at EXCEPT ![activeT] = "yield_value"]
    /\ SwitchBack
    /\ ptr' = [ptr EXCEPT ![activeT] = activeF']
    /\ UNCHANGED <<place, wired, given, stackVars>>

\* yield_value, to the switch: it keeps the place it read from ACTIVE_FIBER.
YieldValue ==
    /\ Running # Host /\ InBody
    /\ yields < MaxYields /\ yields' = yields + 1
    /\ mem' = [mem EXCEPT ![activeF].output = TRUE]
    /\ ptr' = [ptr EXCEPT ![activeT] = activeF]
    /\ at' = [at EXCEPT ![activeT] = "yield_value"]
    /\ SwitchBack
    /\ UNCHANGED <<place, wired, given, stackVars>>

\* yield_value, after the switch: the input is taken from that place.
YieldValueReturns ==
    /\ Running # Host /\ at[Running] = "yield_value"
    /\ mem' = [mem EXCEPT ![ptr[Running]].input = None]
    /\ at' = [at EXCEPT ![Running] = "body"]
    /\ ptr' = [ptr EXCEPT ![Running] = None]
    /\ given' = [given EXCEPT ![Running] = None]
    /\ UNCHANGED <<place, wired, activeT, activeF, frames, yields, stackVars>>

\* take_input.
TakeInput ==
    /\ Running # Host /\ InBody
    /\ mem[activeF].input # None
    /\ mem' = [mem EXCEPT ![activeF].input = None]
    /\ UNCHANGED <<place, wired, activeT, activeF, frames, at, ptr, given, yields, stackVars>>

\* fiber_run: the closure returns.
Returns ==
    /\ Running # Host /\ InBody
    /\ mem' = [mem EXCEPT ![wired[activeT]].done = TRUE]
    /\ at' = [at EXCEPT ![activeT] = "returned"]
    /\ SwitchBack
    /\ UNCHANGED <<place, wired, ptr, given, yields, stackVars>>

\* fiber_run: the closure panics (of itself, or because it resumed a fiber that
\* is done), and the payload is kept.
Panics ==
    /\ Running # Host /\ InBody
    /\ mem' = [mem EXCEPT ![wired[activeT]].done = TRUE, ![wired[activeT]].errored = TRUE,
                          ![wired[activeT]].payload = TRUE]
    /\ at' = [at EXCEPT ![activeT] = "panicked"]
    /\ SwitchBack
    /\ UNCHANGED <<place, wired, ptr, given, yields, stackVars>>

-----------------------------------------------------------------------------
(* What whoever owns the fiber may do with it between two resumes. *)

\* One field of the Fiber is assigned, at the place it is at.
Assign(f, new) ==
    /\ mem' = [mem EXCEPT ![place[f]] = new]
    /\ UNCHANGED <<place, wired, activeT, activeF, frames, at, ptr, given, yields, stackVars>>

\* take_yield_value, take_yield_any.
TakeYield(f) ==
    /\ mem[place[f]].output
    /\ Assign(f, [mem[place[f]] EXCEPT !.output = FALSE])

\* take_error.
TakeError(f) ==
    /\ mem[place[f]].payload
    /\ Assign(f, [mem[place[f]] EXCEPT !.payload = FALSE])

\* clear_deadline.
ClearDeadline(f) == Assign(f, [mem[place[f]] EXCEPT !.slice = FALSE])

\* A move.
Move(f, p) ==
    /\ Vacant(p)
    /\ UNCHANGED <<wired, activeT, activeF, frames, at, ptr, given, yields, stackVars>>
    /\ mem' = [mem EXCEPT ![p] = mem[place[f]], ![place[f]] = LeftBehind(place[f])]
    /\ place' = [place EXCEPT ![f] = p]

InFiber == YieldNow \/ YieldValue \/ YieldValueReturns \/ TakeInput \/ Returns \/ Panics

-----------------------------------------------------------------------------
(* Properties. *)

\* Whoever's code runs, yield_now, is_cancelled and current_fiber_id act on it:
\* the thread-locals name the running fiber, at the place it is at, through
\* nested resumes, yields, panics and moves; on the host's stack they are null.
ActiveIsRunning ==
    /\ activeT = Running
    /\ activeF = IF Running = Host THEN None ELSE place[Running]

\* FiberState: Done and Errored are what really happened to the closure, however
\* often the Fiber moved on the way there, and nobody else's outcome.
FateIsRecorded ==
    \A f \in Fibers : place[f] # None =>
        /\ mem[place[f]].done = (at[f] \in {"returned", "panicked"})
        /\ mem[place[f]].errored = (at[f] = "panicked")

\* yield_value returns v: what it finds in the input slot it looks at.
YieldReturns(f, v) ==
    Running = f /\ YieldValueReturns /\ v = mem[ptr[f]].input

\* yield_value returns "whatever the host passes in via resume_with on the next
\* call", when the Fiber is where it was when it yielded and that call was a
\* resume_with.  Of a plain resume it says nothing: yield_value then returns what
\* the input slot holds, and an input of an earlier resume_with that nobody took
\* is still there, although the documentation has None.
InputReachesYield ==
    [][\A f \in Fibers : given[f] # None /\ ptr[f] = place[f] =>
           \A v \in Values \cup {None} : YieldReturns(f, v) => v = given[f]]_fiberVars

\* InputReachesYield as yield_value's documentation has it, moved or not.
MovedFiberGetsInput ==
    [][\A f \in Fibers : given[f] # None =>
           \A v \in Values \cup {None} : YieldReturns(f, v) => v = given[f]]_fiberVars

\* with_stack_size: a fiber runs on at least the bytes it was made with, also
\* when its stack was another fiber's before.
StackFits ==
    [][\A f \in Fibers : stack[f] = None /\ stack'[f] # None =>
           \A p \in Places, n \in Requests : New(f, p, n) => len'[stack'[f]] >= n]_fiberVars
=============================================================================
