------------------------------ MODULE AsyncFn ------------------------------
(***************************************************************************)
(* A suspending function as its author wrote it: what the state machine    *)
(* of krio-async has to do.  The function is a graph of blocks of          *)
(* statements over locals, run as if it kept its stack while suspended.    *)
(* A statement defines a local, uses one, yields, or calls a function      *)
(* that may itself yield.                                                  *)
(***************************************************************************)
EXTENDS Integers, Sequences

CONSTANTS
    Locals,
    Data,    \* the values of the locals
    Undef    \* a local not defined yet

VARIABLES
    fn,      \* the function: stmts, per block, and succ, where a block may go (0: return)
    pc,      \* the next statement, as (block, index)
    status,  \* "running", "suspended", "calling" or "done"
    env,     \* the values of the locals
    seen     \* the value that the last use of a local found

vars == <<fn, pc, status, env, seen>>

Entry == 1
AtEnd == pc[2] = Len(fn.stmts[pc[1]]) + 1
Stmt == fn.stmts[pc[1]][pc[2]]
On(kind) == ~AtEnd /\ Stmt.kind = kind
Advance == pc' = <<pc[1], pc[2] + 1>>

Init ==
    /\ pc = <<Entry, 1>>
    /\ status = "running"
    /\ env = [v \in Locals |-> Undef]
    /\ seen = Undef

Def(x) ==
    /\ status = "running" /\ On("def")
    /\ env' = [env EXCEPT ![Stmt.local] = x]
    /\ Advance
    /\ UNCHANGED <<fn, status, seen>>

Use ==
    /\ status = "running" /\ On("use")
    /\ seen' = env[Stmt.local]
    /\ Advance
    /\ UNCHANGED <<fn, status, env>>

Yield ==
    /\ status = "running" /\ On("yield")
    /\ status' = "suspended"
    /\ UNCHANGED <<fn, pc, env, seen>>

\* A call starts its callee at once, or lets the caller's caller poll first.
Call ==
    /\ status = "running" /\ On("call")
    /\ status' \in {"calling", "suspended"}
    /\ UNCHANGED <<fn, pc, env, seen>>

\* The callee yields: the whole call stack is suspended.
CalleeYields ==
    /\ status = "calling"
    /\ status' = "suspended"
    /\ UNCHANGED <<fn, pc, env, seen>>

CalleeReturns(x) ==
    /\ status = "calling"
    /\ env' = [env EXCEPT ![Stmt.local] = x]
    /\ status' = "running"
    /\ Advance
    /\ UNCHANGED <<fn, seen>>

\* A poll goes on after a yield, and back into a call.
Poll ==
    /\ status = "suspended"
    /\ \/ On("yield") /\ status' = "running" /\ Advance
       \/ On("call") /\ status' = "calling" /\ UNCHANGED pc
    /\ UNCHANGED <<fn, env, seen>>

\* The end of a block: to one of its successors, or out of the function.
Leave(b) ==
    /\ status = "running" /\ AtEnd
    /\ b \in fn.succ[pc[1]]
    /\ IF b = 0 THEN status' = "done" /\ UNCHANGED pc
                ELSE pc' = <<b, 1>> /\ UNCHANGED status
    /\ UNCHANGED <<fn, env, seen>>

Next ==
    \/ Use \/ Yield \/ Call \/ CalleeYields \/ Poll
    \/ \E x \in Data : Def(x) \/ CalleeReturns(x)
    \/ \E b \in 0 .. Len(fn.stmts) : Leave(b)

Spec == Init /\ [][Next]_vars
=============================================================================
