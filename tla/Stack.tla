------------------------------- MODULE Stack -------------------------------
(***************************************************************************)
(* The stacks of krio-fiber on Unix (stack.rs): mappings with a guard      *)
(* page, and the pool of them that a thread keeps for its next fibers.     *)
(* Mappings are addresses; the pages a fiber writes are not modelled.      *)
(***************************************************************************)
EXTENDS Integers, Sequences, SequencesExt, FiniteSetsExt

CONSTANTS
    Fibers,     \* who owns stacks
    Maps,       \* where mmap may put one
    Requests,   \* the sizes asked for
    MinStack,   \* SAVED_FRAME_BYTES + 64
    Align,      \* 16 in the code
    Page,       \* sysconf(_SC_PAGESIZE)
    MaxParked,  \* MAX_PARKED, 16 in the code
    None

ASSUME StackAssumption ==
    /\ None \notin Maps
    /\ {MinStack, Align, Page} \subseteq Nat \ {0} /\ Page % Align = 0
    /\ Requests \subseteq Nat /\ MaxParked \in Nat

VARIABLES
    stack,      \* Fiber::_stack of each live fiber, None for the others
    pool,       \* POOL of the thread
    len,        \* usable_len of each mapping, 0 when it is not mapped
    alive       \* the thread-local destructor of POOL has not run

stackVars == <<stack, pool, len, alive>>

StackTypeOK ==
    /\ stack \in [Fibers -> Maps \cup {None}]
    /\ pool \in Seq(Maps)
    /\ len \in [Maps -> Nat]
    /\ alive \in BOOLEAN

StackInit ==
    /\ stack = [f \in Fibers |-> None]
    /\ pool = << >>
    /\ len = [m \in Maps |-> 0]
    /\ alive = TRUE

-----------------------------------------------------------------------------
\* Vec::swap_remove: the last element takes the place of the one removed.
SwapRemove(s, i) == Front([s EXCEPT ![i] = Last(s)])

RoundUp(n, unit) == ((n + unit - 1) \div unit) * unit

\* The usable bytes a request gets: with_stack_size rounds up to the alignment
\* of a frame, usable_size to whole pages.
UsableSize(n) == RoundUp(RoundUp(Max({n, MinStack}), Align), Page)

\* Mutant of Kept: any kept stack will do.
KeptAny(n) == DOMAIN pool

\* The kept stacks of exactly the usable size.
Kept(n) == {i \in DOMAIN pool : len[pool[i]] = UsableSize(n)}

\* Mutant of StackNew: the kept stack is not taken out of the pool.
StackNewKeeps(f, n) ==
    IF Kept(n) # {}
    THEN /\ stack' = [stack EXCEPT ![f] = pool[Max(Kept(n))]]
         /\ UNCHANGED <<pool, len, alive>>
    ELSE \E m \in Maps :
         /\ len[m] = 0
         /\ stack' = [stack EXCEPT ![f] = m]
         /\ len' = [len EXCEPT ![m] = UsableSize(n)]
         /\ UNCHANGED <<pool, alive>>

\* Stack::new: the stack kept last among those of the size, else mmap.
StackNew(f, n) ==
    IF Kept(n) # {}
    THEN /\ stack' = [stack EXCEPT ![f] = pool[Max(Kept(n))]]
         /\ pool' = SwapRemove(pool, Max(Kept(n)))
         /\ UNCHANGED <<len, alive>>
    ELSE \E m \in Maps :
         /\ len[m] = 0
         /\ stack' = [stack EXCEPT ![f] = m]
         /\ len' = [len EXCEPT ![m] = UsableSize(n)]
         /\ UNCHANGED <<pool, alive>>

\* Drop: the thread keeps the stack, or unmaps it when it keeps its share
\* already or its pool is gone.
StackDrop(f) ==
    /\ stack' = [stack EXCEPT ![f] = None]
    /\ IF alive /\ Len(pool) < MaxParked
       THEN pool' = Append(pool, stack[f]) /\ UNCHANGED len
       ELSE len' = [len EXCEPT ![stack[f]] = 0] /\ UNCHANGED pool
    /\ UNCHANGED alive

\* The destructor of the pool at thread exit.  A fiber that another
\* thread-local owns may be dropped after it.
PoolDrop ==
    /\ alive
    /\ alive' = FALSE
    /\ pool' = << >>
    /\ len' = [m \in Maps |-> IF Contains(pool, m) THEN 0 ELSE len[m]]
    /\ UNCHANGED stack

-----------------------------------------------------------------------------
(* Properties. *)

Holders(m) == Cardinality({f \in Fibers : stack[f] = m})
              + Cardinality({i \in DOMAIN pool : pool[i] = m})

\* Whatever is reused, kept or unmapped: a mapping is held by one live fiber or
\* once by the pool, and what nobody holds is unmapped.  No two fibers run on
\* one stack, no fiber on one that was unmapped, and none is leaked; the pool
\* keeps at most its share.
MappedOnce ==
    /\ \A m \in Maps : Holders(m) = IF len[m] = 0 THEN 0 ELSE 1
    /\ Len(pool) <= MaxParked
=============================================================================
