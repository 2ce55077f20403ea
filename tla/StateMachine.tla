---------------------------- MODULE StateMachine ----------------------------
(***************************************************************************)
(* krio-async: transform_to_state_machine cuts a suspending function at    *)
(* its suspension sites (lib.rs), validate_layout audits the layout        *)
(* (validate.rs), and a host lowers and polls the result.  The transform   *)
(* is one step per turn of its two loops.  The host is outside the         *)
(* repository and does what the docs of BlockKind and StateMachineLayout   *)
(* ask of it: a frame keeps the state number and the saved slots, and      *)
(* nothing else outlives a suspension.                                     *)
(*                                                                         *)
(* A statement is known by its place (block, index) in the original        *)
(* function; indices count from 1 where the code counts from 0, so         *)
(* prev_orig_idx = 0 stands for None.                                      *)
(***************************************************************************)
EXTENDS Integers, Sequences, SequencesExt, FiniteSetsExt

CONSTANTS
    Locals, Data, Undef,
    Functions,      \* the functions to transform
    ReservedSlots   \* TransformOptions::reserved_slots

Statements == [kind : {"def", "use", "yield", "call"}, local : Locals]

\* A function has an entry block.
ASSUME FunctionsAssumption ==
    \A f \in Functions :
        /\ f.suspending \in BOOLEAN
        /\ f.stmts \in Seq(Seq(Statements)) /\ f.stmts # << >>
        /\ f.succ \in [DOMAIN f.stmts -> SUBSET (0 .. Len(f.stmts))]

ASSUME LocalsAssumption == IsFiniteSet(Locals) /\ ReservedSlots \in Nat

VARIABLES
    fn,         \* the function, as in AsyncFn, and fn.suspending
    liveness,   \* the LivenessMap: a list of locals for every site it records
    cfg,        \* the blocks: their statements, and the block whose terminator they have
    phase,      \* "scan", "split", "lift" or "run"
    sites,      \* the suspension sites, sorted
    turn,       \* the next site of the loop
    cur,        \* current_orig_block, current_block and prev_orig_idx
    layout,     \* the StateMachineLayout
    siteYield,  \* site_yield_blocks
    siteResume, \* site_resumes
    slots,      \* value_to_slot
    at,         \* where the machine is: block and index; << >> between two polls
    frame,      \* the FrameState: state_id and saved_values
    regs,       \* what the locals hold in the machine
    env,        \* what they hold in the original function
    seen,       \* the value that the last use of a local found
    done        \* the function has returned

transformed == <<cfg, phase, sites, turn, cur, layout, siteYield, siteResume, slots>>
running == <<at, frame, regs, env, seen, done>>
vars == <<fn, liveness, transformed, running>>

-----------------------------------------------------------------------------
(* The host's function. *)

\* The order of the code: by block, then by index.
Before(p, q) == p[1] < q[1] \/ (p[1] = q[1] /\ p[2] < q[2])

StmtAt(p) == fn.stmts[p[1]][p[2]]
Classify(s) == s.kind \in {"yield", "call"}
Defines(s, v) == s.kind \in {"def", "call"} /\ s.local = v

\* What a list of statements reads before it defines it, and what it defines.
Exposed(s) == {v \in Locals : \E j \in DOMAIN s :
    s[j].kind = "use" /\ s[j].local = v /\ \A k \in 1 .. j - 1 : ~Defines(s[k], v)}
Killed(s) == {v \in Locals : \E j \in DOMAIN s : Defines(s[j], v)}

\* The locals live on entry to the blocks of f: the least solution of the
\* data-flow equations.
LiveOut(f, live, b) == UNION {live[c] : c \in f.succ[b] \ {0}}
LiveIn(f) ==
    LET solutions == {live \in [DOMAIN f.stmts -> SUBSET Locals] :
            \A b \in DOMAIN f.stmts :
                Exposed(f.stmts[b]) \cup (LiveOut(f, live, b) \ Killed(f.stmts[b])) \subseteq live[b]}
    IN  [b \in DOMAIN f.stmts |-> {v \in Locals : \A live \in solutions : v \in live[b]}]

\* The locals defined before the suspension at p and used after it.
LiveAcross(f, p) ==
    LET s == f.stmts[p[1]]
        rest == SubSeq(s, p[2] + 1, Len(s))
    IN  (Exposed(rest) \cup (LiveOut(f, LiveIn(f), p[1]) \ Killed(rest)))
          \ {v \in Locals : Defines(s[p[2]], v)}

Sites(f) == {p \in UNION {{b} \X DOMAIN f.stmts[b] : b \in DOMAIN f.stmts} :
                 Classify(f.stmts[p[1]][p[2]])}

\* What a host may report: the live locals, all locals, or the live ones twice.
Reports(f) ==
    LET exact == [p \in Sites(f) |-> SetToSeq(LiveAcross(f, p))]
    IN  {exact, [p \in Sites(f) |-> SetToSeq(Locals)],
         [p \in Sites(f) |-> exact[p] \o exact[p]]}

-----------------------------------------------------------------------------
(* transform_to_state_machine_with_options. *)

NoLayout == [resume_entries |-> << >>, yield_blocks |-> << >>, yield_saves |-> << >>,
             resume_loads |-> << >>, block_kinds |-> << >>]

\* FrameState::new.
FreshFrame == [state_id |-> 0,
               saved |-> [s \in 0 .. ReservedSlots + Cardinality(Locals) - 1 |-> Undef]]

Undefined == [v \in Locals |-> Undef]

Init ==
    /\ fn \in Functions
    /\ liveness \in Reports(fn)
    /\ cfg = [b \in DOMAIN fn.stmts |->
                 [stmts |-> [i \in DOMAIN fn.stmts[b] |-> <<b, i>>], home |-> b]]
    /\ phase = "scan"
    /\ sites = << >> /\ turn = 1
    /\ cur = [orig |-> 1, block |-> 1, prev |-> 0]
    /\ layout = NoLayout
    /\ siteYield = << >> /\ siteResume = << >> /\ slots = << >>
    /\ at = <<1, 1>>
    /\ frame = FreshFrame
    /\ regs = Undefined /\ env = Undefined /\ seen = Undef
    /\ done = FALSE

\* A function that cannot suspend gets the empty layout and stays as it is.
NotSuspending ==
    /\ phase = "scan" /\ ~fn.suspending
    /\ phase' = "run"
    /\ UNCHANGED <<fn, liveness, cfg, sites, turn, cur, layout, siteYield, siteResume, slots,
                   running>>

\* Pass 1: the sites of the original blocks, sorted.
Scan ==
    /\ phase = "scan" /\ fn.suspending
    /\ phase' = "split"
    /\ sites' \in {s \in SetToSeqs(Sites(fn)) :
                       \A i, j \in DOMAIN s : i < j => Before(s[i], s[j])}
    /\ layout' = [layout EXCEPT !.resume_entries = <<1>>]
    /\ UNCHANGED <<fn, liveness, cfg, turn, cur, siteYield, siteResume, slots, running>>

\* Where the split of the site p is: the first site of a block is in that
\* block, a later one in the tail that the split before it left.
Here(p) == IF p[1] # cur.orig \/ cur.prev = 0
           THEN [orig |-> p[1], block |-> p[1], prev |-> 0] ELSE cur
CurrentIdx(p) == p[2] - Here(p).prev

\* CoroCfg::split_after: the tail is a new block and takes the terminator.
SplitAfter(b, i) ==
    Append([cfg EXCEPT ![b] = [stmts |-> SubSeq(@.stmts, 1, i), home |-> 0]],
           [stmts |-> SubSeq(cfg[b].stmts, i + 1, Len(cfg[b].stmts)), home |-> cfg[b].home])

\* What both kinds of site add to the layout: a state that resumes at block r.
AddState(b, r) ==
    /\ siteYield' = Append(siteYield, b)
    /\ siteResume' = Append(siteResume, r)
    /\ turn' = turn + 1

WithState(b, r, kinds) ==
    [layout EXCEPT !.resume_entries = Append(@, r),
                   !.yield_blocks = Append(@, <<b, Len(layout.resume_entries)>>),
                   !.block_kinds = @ \o kinds]

SplitYield ==
    /\ phase = "split" /\ turn <= Len(sites)
    /\ LET p == sites[turn]
           b == Here(p).block
           resume == Len(cfg) + 1
       IN  /\ StmtAt(p).kind = "yield"
           /\ cfg' = SplitAfter(b, CurrentIdx(p))
           /\ layout' = WithState(b, resume, << <<b, [kind |-> "DirectYield"]>> >>)
           /\ AddState(b, resume)
           /\ cur' = [orig |-> p[1], block |-> resume, prev |-> p[2]]
    /\ UNCHANGED <<fn, liveness, phase, sites, slots, running>>

SplitCall ==
    /\ phase = "split" /\ turn <= Len(sites)
    /\ LET p == sites[turn]
           b == Here(p).block
           postCall == Len(cfg) + 1
           check == Len(cfg) + 2
       IN  /\ StmtAt(p).kind = "call"
           /\ cfg' = Append(SplitAfter(b, CurrentIdx(p)), [stmts |-> << >>, home |-> 0])
           /\ layout' = WithState(b, check,
                  << <<b, [kind |-> "CrossFnCallInit", resume_check |-> check]>>,
                     <<check, [kind |-> "CrossFnCallResume", done_block |-> postCall,
                               result |-> StmtAt(p).local]>> >>)
           /\ AddState(b, check)
           /\ cur' = [orig |-> p[1], block |-> postCall, prev |-> p[2]]
    /\ UNCHANGED <<fn, liveness, phase, sites, slots, running>>

AllSplit ==
    /\ phase = "split" /\ turn > Len(sites)
    /\ phase' = "lift" /\ turn' = 1
    /\ UNCHANGED <<fn, liveness, cfg, sites, cur, layout, siteYield, siteResume, slots, running>>

\* Mutant of Lookup: the index is that of the statement before the site.
LookupShifted(p) ==
    LET q == <<p[1], p[2] - 1>>
    IN  IF q \in DOMAIN liveness THEN liveness[q] ELSE << >>

\* LivenessMap::lookup, by the place in the original function.
Lookup(p) == IF p \in DOMAIN liveness THEN liveness[p] ELSE << >>

\* Mutants of NextSlot: slots are taken from 0; one slot is left out.
NextSlotFromZero == Cardinality(DOMAIN slots)
NextSlotTooFar == ReservedSlots + Cardinality(DOMAIN slots) + 1

\* next_slot.
NextSlot == ReservedSlots + Cardinality(DOMAIN slots)

\* value_to_slot after the locals of `live`: a local keeps the slot it has, and
\* those without one get the next slots in the order they are named first.
WithSlots(live) ==
    LET new == Range(live) \ DOMAIN slots
        First(v) == Min({j \in DOMAIN live : live[j] = v})
    IN  [v \in DOMAIN slots \cup new |->
            IF v \in new THEN NextSlot + Cardinality({w \in new : First(w) < First(v)})
            ELSE slots[v]]

\* Pass 3, the captures lift, for one site.
Lift ==
    /\ phase = "lift" /\ turn <= Len(sites)
    /\ LET live == Lookup(sites[turn])
       IN  /\ slots' = WithSlots(live)
           /\ LET entries == [j \in DOMAIN live |-> <<slots'[live[j]], live[j]>>]
              IN  layout' = IF live = << >> THEN layout ELSE
                    [layout EXCEPT !.yield_saves = Append(@, <<siteYield[turn], entries>>),
                                   !.resume_loads = Append(@, <<siteResume[turn], entries>>)]
    /\ turn' = turn + 1
    /\ UNCHANGED <<fn, liveness, cfg, phase, sites, cur, siteYield, siteResume, running>>

AllLifted ==
    /\ phase = "lift" /\ turn > Len(sites)
    /\ phase' = "run"
    /\ UNCHANGED <<fn, liveness, cfg, sites, turn, cur, layout, siteYield, siteResume, slots,
                   running>>

-----------------------------------------------------------------------------
(* The machine that the host makes of the layout, and its polls. *)

KindOf(b) == LET k == {i \in DOMAIN layout.block_kinds : layout.block_kinds[i][1] = b}
             IN  IF k = {} THEN [kind |-> "plain"] ELSE layout.block_kinds[Min(k)][2]

\* The (slot, local) pairs that a table of the layout has for block b.
EntriesOf(table, b) == UNION {Range(table[i][2]) : i \in {j \in DOMAIN table : table[j][1] = b}}

\* Into block b with the locals r and the slots s: its loads come first.
Enter(b, r, s) ==
    /\ at' = <<b, 1>>
    /\ regs' = [v \in Locals |->
           LET from == {e \in EntriesOf(layout.resume_loads, b) : e[2] = v}
           IN  IF from = {} THEN r[v] ELSE s[(CHOOSE e \in from : TRUE)[1]]]

Saved(b) ==
    [s \in DOMAIN frame.saved |->
        LET into == {e \in EntriesOf(layout.yield_saves, b) : e[1] = s}
        IN  IF into = {} THEN frame.saved[s] ELSE regs[(CHOOSE e \in into : TRUE)[2]]]

\* The frame of a machine suspended at the end of block b.
Suspended(b) ==
    [state_id |-> layout.yield_blocks[CHOOSE i \in DOMAIN layout.yield_blocks :
                                          layout.yield_blocks[i][1] = b][2],
     saved |-> Saved(b)]

Awake == phase = "run" /\ ~done /\ at # << >>
Block == at[1]
AtLast == at[2] = Len(cfg[Block].stmts)
Ahead == cfg[Block].stmts[at[2]]
\* The machine is before a plain statement of this kind.
Plain(kind) ==
    /\ Awake /\ at[2] <= Len(cfg[Block].stmts)
    /\ ~(AtLast /\ KindOf(Block).kind # "plain")
    /\ StmtAt(Ahead).kind = kind
StepOn == at' = <<Block, at[2] + 1>>

Def(x) ==
    /\ Plain("def")
    /\ regs' = [regs EXCEPT ![StmtAt(Ahead).local] = x]
    /\ env' = [env EXCEPT ![StmtAt(Ahead).local] = x]
    /\ StepOn
    /\ UNCHANGED <<fn, liveness, transformed, frame, seen, done>>

Use ==
    /\ Plain("use")
    /\ seen' = regs[StmtAt(Ahead).local]
    /\ StepOn
    /\ UNCHANGED <<fn, liveness, transformed, frame, regs, env, done>>

Lose == at' = << >> /\ regs' = Undefined

Yield ==
    /\ Awake /\ AtLast /\ KindOf(Block).kind = "DirectYield"
    /\ frame' = Suspended(Block)
    /\ Lose
    /\ UNCHANGED <<fn, liveness, transformed, env, seen, done>>

\* CrossFnCallInit: on to the resume check, or back to the caller.
CallInit ==
    /\ Awake /\ AtLast /\ KindOf(Block).kind = "CrossFnCallInit"
    /\ frame' = Suspended(Block)
    /\ \/ Enter(KindOf(Block).resume_check, regs, frame'.saved)
       \/ Lose
    /\ UNCHANGED <<fn, liveness, transformed, env, seen, done>>

InCheck == Awake /\ KindOf(Block).kind = "CrossFnCallResume"

\* CrossFnCallResume: the callee is polled, and yields or is done.
CalleeYields ==
    /\ InCheck
    /\ Lose
    /\ UNCHANGED <<fn, liveness, transformed, frame, env, seen, done>>

CalleeDone(x) ==
    /\ InCheck
    /\ LET k == KindOf(Block)
       IN  /\ Enter(k.done_block, [regs EXCEPT ![k.result] = x], frame.saved)
           /\ env' = [env EXCEPT ![k.result] = x]
    /\ UNCHANGED <<fn, liveness, transformed, frame, seen, done>>

\* The dispatcher's prologue.
Poll ==
    /\ phase = "run" /\ ~done /\ at = << >>
    /\ Enter(layout.resume_entries[frame.state_id + 1], Undefined, frame.saved)
    /\ UNCHANGED <<fn, liveness, transformed, frame, env, seen, done>>

\* The terminator of the original block.
Leave(b) ==
    /\ Awake /\ at[2] = Len(cfg[Block].stmts) + 1 /\ ~InCheck
    /\ b \in fn.succ[cfg[Block].home]
    /\ IF b = 0 THEN done' = TRUE /\ UNCHANGED <<at, regs>>
                ELSE Enter(b, regs, frame.saved) /\ UNCHANGED done
    /\ UNCHANGED <<fn, liveness, transformed, frame, env, seen>>

Transform == NotSuspending \/ Scan \/ SplitYield \/ SplitCall \/ AllSplit \/ Lift \/ AllLifted
Run ==
    \/ Use \/ Yield \/ CallInit \/ CalleeYields \/ Poll
    \/ \E x \in Data : Def(x) \/ CalleeDone(x)
    \/ \E b \in 0 .. Len(fn.stmts) : Leave(b)

\* The function has returned and its frame is popped.
Returned == done /\ UNCHANGED vars

Next == Transform \/ Run \/ Returned
Spec == Init /\ [][Next]_vars

-----------------------------------------------------------------------------
(* validate_layout. *)

\* Mutant of Repeats: duplicates are not looked for.
RepeatsNever(entries, j) == FALSE

Repeats(entries, j) == \E k \in 1 .. j - 1 : entries[k][1] = entries[j][1]

\* The first bad entry of one table, in the order of the scan.
TableError(table, next, duplicate) ==
    LET bad == {p \in UNION {{i} \X DOMAIN table[i][2] : i \in DOMAIN table} :
                    LET entries == table[p[1]][2]
                    IN  Repeats(entries, p[2]) \/ entries[p[2]][1] >= next}
        first == CHOOSE p \in bad : \A q \in bad \ {p} : Before(p, q)
    IN  IF bad = {} THEN "Ok"
        ELSE IF Repeats(table[first[1]][2], first[2]) THEN duplicate ELSE "SlotOutOfRange"

SlotsIn(table) == UNION {{e[1] : e \in Range(table[i][2])} : i \in DOMAIN table}

Validate(l, next) ==
    LET saves == TableError(l.yield_saves, next, "DuplicateSaveSlot")
        loads == TableError(l.resume_loads, next, "DuplicateLoadSlot")
        saved == SlotsIn(l.yield_saves)
        loaded == SlotsIn(l.resume_loads)
    IN  IF Len(l.resume_entries) # Len(l.yield_blocks) + 1 THEN "EntryCountMismatch"
        ELSE IF saves # "Ok" THEN saves
        ELSE IF loads # "Ok" THEN loads
        ELSE IF ~(saved \subseteq loaded) THEN "SaveWithoutLoad"
        ELSE IF ~(loaded \subseteq saved) THEN "LoadWithoutSave" ELSE "Ok"

-----------------------------------------------------------------------------
(* Properties. *)

Slots == 0 .. ReservedSlots + Cardinality(Locals) - 1
Tables == {layout.yield_saves, layout.resume_loads}

\* The tables name blocks of the function and slots that a frame has, and the
\* machine is at a statement of one of the blocks.
TypeOK ==
    /\ phase \in {"scan", "split", "lift", "run"}
    /\ turn \in 1 .. Len(sites) + 1
    /\ \A b \in DOMAIN cfg : cfg[b].home \in 0 .. Len(fn.stmts)
    /\ Range(layout.resume_entries) \subseteq DOMAIN cfg
    /\ \A t \in Tables : \A i \in DOMAIN t :
           t[i][1] \in DOMAIN cfg /\ Range(t[i][2]) \subseteq Slots \X Locals
    /\ at # << >> => at[1] \in DOMAIN cfg /\ at[2] \in 1 .. Len(cfg[at[1]].stmts) + 1
    /\ frame.state_id \in 0 .. Len(sites)
    /\ frame.saved \in [Slots -> Data \cup {Undef}]
    /\ regs \in [Locals -> Data \cup {Undef}]
    /\ env \in [Locals -> Data \cup {Undef}]
    /\ seen \in Data \cup {Undef}
    /\ done \in BOOLEAN

\* The slots of the captures never fall into the reserved range, and over the
\* whole function a slot belongs to one local: a value that lives across one
\* suspension is not overwritten by what is saved at another.
SlotsKeptApart ==
    LET entries == UNION {UNION {Range(t[i][2]) : i \in DOMAIN t} : t \in Tables}
    IN  /\ \A e \in entries : e[1] >= ReservedSlots
        /\ \A e, f \in entries : (e[1] = f[1]) = (e[2] = f[2])

\* The audit of a finished layout reports a duplicate exactly when the host's liveness
\* names a local twice at one site, and never blames the transform (EntryCountMismatch
\* "should never happen", SlotOutOfRange is "allocator drift").  It says nothing of
\* liveness that reports too much or too little: the captures lift emits what it saves
\* as what it loads, so that SaveWithoutLoad and LoadWithoutSave cannot tell, although
\* the documentation of validate_layout says that they do.
AuditFindsDuplicates ==
    phase = "run" /\ fn.suspending =>
        LET verdict == Validate(layout, NextSlot)
        IN  /\ (verdict = "DuplicateSaveSlot") = (\E p \in DOMAIN liveness : ~IsInjective(liveness[p]))
            /\ verdict \notin {"EntryCountMismatch", "SlotOutOfRange"}

\* Where the original function is when the machine is where it is.
FnPc ==
    IF phase # "run" THEN <<1, 1>>
    ELSE IF at = << >> THEN sites[frame.state_id]
    ELSE IF KindOf(Block).kind = "CrossFnCallResume"
    THEN sites[CHOOSE k \in DOMAIN sites : layout.resume_entries[k + 1] = Block]
    ELSE IF at[2] <= Len(cfg[Block].stmts) THEN Ahead
    ELSE <<cfg[Block].home, Len(fn.stmts[cfg[Block].home]) + 1>>

FnStatus ==
    CASE done -> "done"
      [] ~done /\ at = << >> -> "suspended"
      [] OTHER -> IF phase = "run" /\ KindOf(Block).kind = "CrossFnCallResume"
                  THEN "calling" ELSE "running"

Original == INSTANCE AsyncFn WITH pc <- FnPc, status <- FnStatus

\* The state machine does what the function did before it was cut: the same
\* statements in the same order, whatever the splits, and a use of a local
\* finds the value it would have found, although nothing but the slots
\* outlives a suspension.
ImplementsFn == Original!Spec
=============================================================================
