--------------------------- MODULE MCStaticInline ---------------------------
(* Programs for StaticInline: a caller, its callee and a function the callee *)
(* may call, whose ids are 0, 1 and 2.  A function is its instructions, the  *)
(* lists of its blocks, of which the first is the first and the last the     *)
(* last, and their successors.                                               *)
EXTENDS StaticInline

Code(op, in) == [op |-> op, in |-> in, srcs |-> <<>>, target |-> 0, void |-> FALSE]
Arg == Code("ARG", <<>>)
Const == Code("CONST", <<>>)
Jcmp == Code("JCMP", <<>>)
Cast(x) == Code("CAST", <<x>>)
Mul(x, y) == Code("MUL", <<x, y>>)
Ret(x) == Code("RET", <<x>>)
Phi(in, srcs) == [Code("PHI", in) EXCEPT !.srcs = srcs]
CallTo(id, in) == [Code("CALL", in) EXCEPT !.target = id]
VoidCallTo(id, in) == [CallTo(id, in) EXCEPT !.void = TRUE]

Function(code, lists, succs) == [code |-> code, lists |-> lists, succs |-> succs]
Straight(code) == Function(code, <<[i \in DOMAIN code |-> i], <<>>>>, <<<<2>>, <<>>>>)

\* The pairs of an index and a member of the sequence there.
Pairs(seqs) ==
  FlattenSeq([i \in DOMAIN seqs |-> [j \in DOMAIN seqs[i] |-> <<i, seqs[i][j]>>]])

\* A function of the program as a graph with a builder of its own; instructions
\* and blocks are numbered from those there are already.  The inputs of a phi are
\* added when all instructions are built.
Load(h, f) ==
  LET g == Len(h.graphs) + 1
      x0 == Len(h.instrs)
      b0 == Len(h.blocks)
      created == CreateNewGraph([h EXCEPT !.attached = Append(@, 0)], g)
      built == FoldLeft(LAMBDA acc, c :
                          Build(acc, g, [c EXCEPT !.in = IF c.op = "PHI" THEN <<>>
                                                         ELSE [i \in DOMAIN @ |-> x0 + @[i]],
                                                  !.srcs = [i \in DOMAIN @ |-> b0 + @[i]]]),
                        created, f.code)
      joined == FoldLeft(LAMBDA acc, p : IF f.code[p[1]].op = "PHI"
                                         THEN [acc EXCEPT !.instrs = AddInput(@, x0 + p[1], x0 + p[2])]
                                         ELSE acc,
                         built, Pairs([x \in DOMAIN f.code |-> f.code[x].in]))
      blocks == FoldLeft(LAMBDA acc, l : CreateEmptyBB(acc, g), joined, f.lists)
      pushed == FoldLeft(LAMBDA acc, p : Push(acc, b0 + p[1], x0 + p[2]), blocks, Pairs(f.lists))
      connected == FoldLeft(LAMBDA acc, e : ConnectBBs(acc, b0 + e[1], b0 + e[2]), pushed,
                            Pairs(f.succs))
  IN [connected EXCEPT !.graphs[g].first = b0 + 1, !.graphs[g].last = b0 + Len(f.lists)]

-----------------------------------------------------------------------------
Leaf == Straight(<<Arg, Mul(1, 1), Ret(2)>>)
Casting == Straight(<<Arg, Cast(1), Mul(2, 1), Ret(2)>>)
NoArgs == Straight(<<Const, Ret(1)>>)
Void == Straight(<<Arg, Cast(1), Code("RETVOID", <<>>)>>)
Length == Straight(<<Arg, Code("LEN", <<1>>), Ret(2)>>)
Large == Straight(<<Arg, Const, Const, Const, Const, Const, Ret(1)>>)
Calls(id) == Straight(<<Arg, CallTo(id, <<1>>), Cast(2), Ret(3)>>)
TwoReturns ==
  Function(<<Arg, Jcmp, Cast(1), Ret(3), Ret(1)>>, <<<<1, 2>>, <<3, 4>>, <<5>>, <<>>>>,
           <<<<2, 3>>, <<4>>, <<4>>, <<>>>>)
\* A phi of values that come before it, and one of values of the two branches.
EarlyPhi ==
  Function(<<Arg, Cast(1), Jcmp, Phi(<<1, 2>>, <<1, 2>>), Ret(4)>>,
           <<<<1, 2, 3>>, <<>>, <<4, 5>>, <<>>>>, <<<<2, 3>>, <<3>>, <<4>>, <<>>>>)
Diamond ==
  Function(<<Arg, Jcmp, Cast(1), Const, Phi(<<3, 4>>, <<2, 3>>), Ret(5)>>,
           <<<<1, 2>>, <<3>>, <<4>>, <<5, 6>>, <<>>>>, <<<<2, 3>>, <<4>>, <<4>>, <<5>>, <<>>>>)
Loop ==
  Function(<<Arg, Phi(<<1, 3>>, <<1, 2>>), Cast(2), Jcmp, Ret(3)>>,
           <<<<1>>, <<2, 3, 4>>, <<5>>, <<>>>>, <<<<2>>, <<2, 3>>, <<4>>, <<>>>>)
Unreachable ==
  Function(<<Arg, Ret(1), Ret(1)>>, <<<<1, 2>>, <<3>>, <<>>>>, <<<<3>>, <<3>>, <<>>>>)
Parallel ==
  Function(<<Arg, Ret(1)>>, <<<<1, 2>>, <<>>>>, <<<<2, 2>>, <<>>>>)

Callees == {Leaf, Casting, NoArgs, Void, Length, Large, TwoReturns, EarlyPhi, Diamond, Loop,
            Unreachable, Parallel, Calls(0), Calls(1), Calls(2)}

OneCall == Straight(<<Arg, CallTo(1, <<1>>), Cast(2), Ret(3)>>)
TwoCalls == Straight(<<Arg, CallTo(1, <<1>>), CallTo(2, <<2>>), Mul(2, 3), Ret(4)>>)
Branching ==
  Function(<<Arg, CallTo(1, <<1>>), Jcmp, CallTo(2, <<2>>), Ret(4), Phi(<<1, 2>>, <<1, 2>>), Ret(6)>>,
           <<<<1, 2, 3>>, <<4, 5>>, <<6, 7>>, <<>>>>, <<<<2, 3>>, <<4>>, <<2, 4>>, <<>>>>)
VoidCaller == Straight(<<Arg, VoidCallTo(1, <<1>>), Cast(1), Ret(3)>>)
CallLast == Function(<<Arg, CallTo(1, <<1>>), Ret(2)>>, <<<<1, 2>>, <<3>>, <<>>>>,
                     <<<<2>>, <<3>>, <<>>>>)

Callers == {OneCall, TwoCalls, Branching, VoidCaller, CallLast}

AllPrograms ==
  {FoldLeft(Load, EmptyHeap, <<caller, callee, third>>) :
     caller \in Callers, callee \in Callees, third \in {Leaf, Casting, TwoReturns, EarlyPhi}}
=============================================================================
