---------------------------- MODULE MCPeepholes ----------------------------
(* Programs for Peepholes: an argument, two constants, two operations on     *)
(* what comes before, a return; in one block, or with the operations in      *)
(* blocks of their own.                                                      *)
EXTENDS Peepholes

Code(op, in, imm) == [op |-> op, in |-> in, imm |-> imm]
Const(imm) == Code("CONST", <<>>, imm)
OperationsOn(n) == {Code(op, in, 0) : op \in Operations, in \in (1..n) \X (1..n)}
Minus(v) == 2^WordBits - v
Constants == {<<0, Minus(1)>>, <<1, 2>>, <<1, Minus(2)>>, <<2, Minus(2)>>}
Splits == {<< <<1, 2, 3, 4, 5, 6>> >>,
           << <<1, 2, 3>>, <<4>>, <<5, 6>> >>,
           << <<1, 2, 3>>, <<4>>, <<5>>, <<6>> >>}

AllPrograms ==
  {[instrs |-> FoldLeft(Construct, <<>>, <<Code("ARG", <<>>, 0), Const(c[1]), Const(c[2]),
                                          p, q, Code("RET", <<5>>, 0)>>),
    lists |-> s] : c \in Constants, p \in OperationsOn(3), q \in OperationsOn(4), s \in Splits}
=============================================================================
