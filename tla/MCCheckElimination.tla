------------------------- MODULE MCCheckElimination -------------------------
(* Programs for CheckElimination: a reference, two indices and three checks, *)
(* each in any place of any block.                                           *)
EXTENDS CheckElimination

Code(op, in) == [op |-> op, in |-> in]
Arg == Code("ARG", <<>>)
Null == Code("NULL_CHECK", <<1>>)
Bounds(idx) == Code("BOUNDS_CHECK", <<1, idx>>)

Codes == {FoldLeft(Construct, <<>>, <<Arg, Arg, Arg>> \o c) :
            c \in {<<Null, Null, Null>>, <<Null, Bounds(2), Null>>,
                   <<Bounds(2), Bounds(2), Bounds(3)>>, <<Bounds(3), Bounds(2), Bounds(2)>>,
                   <<Bounds(2), Bounds(3), Null>>}}

\* The three checks cut into a list for each of the blocks 0 to n.
Placements ==
  [n \in 0..4 |->
     {[b \in 0..n |-> SelectSeq(<<p[1], p[2], p[3]>>, LAMBDA x : at[x] = b)] :
        p \in {q \in (4..6) \X (4..6) \X (4..6) : Cardinality({q[1], q[2], q[3]}) = 3},
        at \in [4..6 -> 0..n]}]

\* Successors in ascending order, for the graphs of at most three blocks in
\* which each block is entered from an earlier one; a block is not its own
\* successor, which dominators would not notice.  Then a diamond, taken in either
\* order, and a loop with a way past it.
Branches(blocks) == {s \in UNION {[1..n -> blocks] : n \in 0..2} : Len(s) = 2 => s[1] < s[2]}
Entered(succs) ==
  /\ \A b \in DOMAIN succs : b \notin ToSet(succs[b])
  /\ \A b \in (DOMAIN succs) \ {0} : \E a \in 0..b - 1 : b \in ToSet(succs[a])

Flows ==
  {s \in UNION {[0..n -> Branches(0..n)] : n \in 0..2} : Entered(s)} \cup
  {(0 :> <<1, 2>> @@ 1 :> <<3>> @@ 2 :> <<3>> @@ 3 :> <<>>),
   (0 :> <<2, 1>> @@ 1 :> <<3>> @@ 2 :> <<3>> @@ 3 :> <<>>),
   (0 :> <<3, 1>> @@ 1 :> <<2, 3>> @@ 2 :> <<1>> @@ 3 :> <<>>)}

\* What Construct leaves in a graph of at most four blocks, which is right
\* (RightOnFourBlocks of DomTree): the block that only the other blocks on every
\* path to b are above.
Dominator(s) ==
  LET blocks == DOMAIN s
      step(S, a) == S \cup UNION {ToSet(s[b]) \ {a} : b \in S}
      reached(a) == step(step(step({0}, a), a), a)
      above == 0 :> {} @@ [b \in blocks \ {0} |-> {a \in blocks \ {b} : a = 0 \/ b \notin reached(a)}]
      nearest(b) == CHOOSE a \in above[b] : above[b] = above[a] \cup {a}
  IN 0 :> NoBB @@ [b \in blocks \ {0} |-> nearest(b)]

\* The graph of run DomTreeWrong, with its wrong dominator 2 of block 4.
WrongFlow == 0 :> <<1, 2>> @@ 1 :> <<2, 3>> @@ 2 :> <<3, 4>> @@ 3 :> <<4>> @@ 4 :> <<>>
WrongDominator == 0 :> NoBB @@ 1 :> 0 @@ 2 :> 0 @@ 3 :> 0 @@ 4 :> 2

ProgramsOf(succs, dominator) ==
  {[instrs |-> c, lists |-> l, first |-> 0, succs |-> succs, dominator |-> dominator] :
     c \in Codes, l \in Placements[Cardinality(DOMAIN succs) - 1]}

AllPrograms == UNION {ProgramsOf(s, Dominator(s)) : s \in Flows}
                 \cup ProgramsOf(WrongFlow, WrongDominator)
=============================================================================
