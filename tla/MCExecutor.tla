----------------------------- MODULE MCExecutor -----------------------------
(* Executor on regions of three coroutines: bodies of up to three            *)
(* statements, laid out in two ways, and priorities that are equal, distinct *)
(* or missing.  4 is None, 3 is u32::MAX.                                    *)
EXTENDS Executor
Yielding == <<"Yield", "a">>
Putting(q) == <<"Put", q>>
Recv(q) == <<"GuardedRecv", q>>
Send(q) == <<"ProducingSend", q>>
MCBodies == {<< >>, <<Putting("a")>>, <<Recv("b")>>, <<Putting("a"), Recv("b")>>,
             <<Send("a"), Send("a")>>, <<Recv("a"), Putting("b"), Recv("a")>>,
             <<Yielding, Send("b")>>}
MCPriorities == {<<4, 4, 4>>, <<0, 0, 0>>, <<1, 0, 0>>, <<0, 1, 2>>, <<4, 1, 0>>, <<4, 3, 4>>}
MCNoPriorities == {<<4, 4, 4>>}

(* A body cut in pieces, so that no piece has two suspension points: behind  *)
(* each of them, or before.                                                  *)
Pieces(source, behind) ==
    LET op(i) == Operation(source[i][1], source[i][2], i)
        suspends(i) == i \in DOMAIN source /\ source[i][1] \in Suspensions
        put(p, i) == IF suspends(IF behind THEN i - 1 ELSE i) THEN Append(p, <<op(i)>>)
                     ELSE [p EXCEPT ![Len(p)] = Append(@, op(i))]
        pieces == FoldLeftDomain(put, <<<< >>>>, source)
    IN  IF behind /\ suspends(Len(source)) THEN Append(pieces, << >>) ELSE pieces

(* "shared": the markers share the blocks of the body, the first coroutine's *)
(* begin that of the region's (finish_region calls it the typical case).     *)
(* "spread": every marker has a block of its own, and a coroutine's end is   *)
(* numbered before the rest of its body, as a loop's exit may be.            *)
(* A block comes with the number of statements before it in its body.        *)
Build(style, bodies) ==
    LET shared == style = "shared"
        top == Marker("RegionBegin")
        begin == Marker("CoroutineBegin")
        end == Marker("CoroutineEnd")
        add(g, source) ==
          LET p == Pieces(source, shared)
              n == Len(p)
              b == Len(g)
              before(i) == FoldLeft(LAMBDA s, q : s + Len(q), 0, SubSeq(p, 1, i - 1))
              inline(i) == (IF b = 0 /\ i = 1 THEN <<top>> ELSE << >>)
                           \o (IF i = 1 THEN <<begin>> ELSE << >>)
                           \o p[i] \o (IF i = n THEN <<end>> ELSE << >>)
          IN  g \o IF shared
                   THEN [i \in 1 .. n |-> <<Block(inline(i), Goto(b + i + 1)), before(i)>>]
                   ELSE <<<<Block(<<begin>>, Goto(b + 3)), 0>>,
                          <<Block(<<end>>, Goto(b + n + 3)), Len(source)>>>>
                        \o [i \in 1 .. n |->
                               <<Block(p[i], Goto(IF i < n THEN b + i + 3 ELSE b + 2)), before(i)>>]
        coros == FoldLeft(add, IF shared THEN << >> ELSE <<<<Block(<<top>>, Goto(2)), 0>>>>, bodies)
    IN  Append(coros, <<Block(<<Marker("RegionEnd")>>, Unset), 0>>)

LayOut(style, bodies) ==
    LET g == Build(style, bodies)
        at(b, i) == g[b][2] + Cardinality({j \in 1 .. i - 1 : g[b][1].stmts[j] \notin Markers})
    IN  [body |-> bodies, cfg |-> [b \in DOMAIN g |-> g[b][1]],
         at |-> [b \in DOMAIN g |-> [i \in 1 .. Len(g[b][1].stmts) + 1 |-> at(b, i)]]]

MCRegions == {LayOut(style, bodies) : style \in {"shared", "spread"}, bodies \in [Coros -> MCBodies]}
=============================================================================
