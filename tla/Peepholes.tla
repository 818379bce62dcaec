----------------------------- MODULE Peepholes -----------------------------
(***************************************************************************)
(* The pass that rewrites the data flow: Peepholes::Run with               *)
(* ConstantFolding.  Run walks the blocks in reverse post order, and each  *)
(* block along next pointers while it removes instructions from it.        *)
(*                                                                         *)
(* An instruction is its id, its place in the builder's vector.  Blocks    *)
(* are a chain and their instructions lists, which module BasicBlock       *)
(* justifies; there are no phis, the walk does not visit them.  All        *)
(* instructions have one signed type, i8 to i64, whose values a CONST      *)
(* holds as words, sign extended; the ToSigned of a folded shift does not  *)
(* narrow these, so the pass does the same in all of them.                 *)
(***************************************************************************)
EXTENDS DataFlow, Integers

CONSTANTS Programs,    \* what Run may find: instrs and the blocks they are in
          WordBits,    \* width of the immediate of a CONST, and of i64
          ShiftLimit   \* the amount from which on a SHR is taken for 0

ASSUME WidthAssumption ==
  WordBits \in Nat \ {0} /\ ShiftLimit \in 1..WordBits

Operations == {"MUL", "SHR", "XOR"}
Words == 0..2^WordBits - 1

InstructionsOver(xs) == [op : Operations \cup {"ARG", "CONST", "RET"}, in : Seq(xs),
                         imm : Nat, users : Seq(xs)]

\* x comes before y in the chain of blocks.
Precedes(blocks, x, y) ==
  \E a, b \in DOMAIN blocks : \E i \in DOMAIN blocks[a], j \in DOMAIN blocks[b] :
    blocks[a][i] = x /\ blocks[b][j] = y /\ (a < b \/ (a = b /\ i < j))

\* Every instruction is in one place of one block, after what it reads, and a
\* user of it, as the constructors leave it.
ProgramAssumption ==
  \A p \in Programs :
    LET all == DOMAIN p.instrs
    IN /\ p.instrs \in Seq(InstructionsOver(all))
       /\ p.lists \in Seq(Seq(all)) \ {<<>>}
       /\ \A x \in all : \E b \in DOMAIN p.lists : x \in ToSet(p.lists[b])
       /\ \A a, b \in DOMAIN p.lists : \A i \in DOMAIN p.lists[a], j \in DOMAIN p.lists[b] :
            p.lists[a][i] = p.lists[b][j] => a = b /\ i = j
       /\ \A y \in all :
            /\ HasArity(p.instrs[y])
            /\ \A x \in ToSet(p.instrs[y].in) : Precedes(p.lists, x, y)
            /\ \A x \in all : Occurrences(p.instrs[x].users, y) = Occurrences(p.instrs[y].in, x)

ASSUME ProgramAssumption

VARIABLES instrs,      \* opcode, immediate, inputs and users by id
          lists,       \* the instructions of each block
          source,      \* history: instrs before the first Run
          block,       \* the block Run is at
          current,     \* the instruction it is at, NoInst at a block's end
          rewritten,   \* history: blocks this Run removed an instruction of
          status

vars == <<instrs, lists, source, block, current, rewritten, status>>

\* BuildConst: a constant reads nothing.
BuildConst(ins, v) == Append(ins, [op |-> "CONST", in |-> <<>>, imm |-> v, users |-> <<>>])

Input(x, n) == instrs[x].in[n]
IsConst(x) == instrs[x].op = "CONST"
Imm(x) == instrs[x].imm

-----------------------------------------------------------------------------
(* ConstantFolding.  ProcessXOR has no caller.                               *)

Foldable(x) ==
  /\ instrs[x].op \in {"MUL", "SHR"}
  /\ IsConst(Input(x, 1)) /\ IsConst(Input(x, 2))

\* Mutant of ToSigned: the cast is left out.
NotSigned(v) == v

ToSigned(v) == IF v < 2^(WordBits - 1) THEN v ELSE v - 2^WordBits

\* The constants x may be folded to: products are taken in words, shifts are
\* those of a signed word, undefined when as wide as the word.
Folded(x) ==
  LET a == Imm(Input(x, 1))
      b == Imm(Input(x, 2))
  IN {v \in Words : IF instrs[x].op = "MUL" THEN v = (a * b) % 2^WordBits
                    ELSE b < WordBits => v = (ToSigned(a) \div 2^b) % 2^WordBits}

-----------------------------------------------------------------------------
(* TryOptimizeMul, TryOptimizeShr and TryOptimizeXor: the instruction that   *)
(* can stand for x; none of it may be folded.                                *)

IsImm(x, v) == IsConst(x) /\ Imm(x) = v

\* 1 * a and a * 1 are a, 0 * a and a * 0 are 0; only one input is constant.
MulRules(x) ==
  {Input(x, 3 - n) : n \in {m \in {1, 2} : IsImm(Input(x, m), 1)}} \cup
  {Input(x, n) : n \in {m \in {1, 2} : IsImm(Input(x, m), 0)}}

\* 0 >> a is 0, a >> 0 is a.
ShrRules(x) == {Input(x, 1) : n \in {m \in {1, 2} : IsImm(Input(x, m), 0)}}

\* 0 ^ a is a, and so is a ^ 0; the first rule goes first when both are 0.
XorRules(x) ==
  IF IsImm(Input(x, 1), 0) THEN {Input(x, 2)}
  ELSE IF IsImm(Input(x, 2), 0) THEN {Input(x, 1)}
  ELSE {}

Replacements(x) ==
  CASE instrs[x].op = "MUL" -> MulRules(x)
    [] instrs[x].op = "SHR" -> ShrRules(x)
    [] instrs[x].op = "XOR" -> XorRules(x)
    [] OTHER -> {}

ShiftedOut(x) ==
  /\ instrs[x].op = "SHR" /\ Replacements(x) = {}
  /\ IsConst(Input(x, 2)) /\ Imm(Input(x, 2)) >= ShiftLimit

Applicable(x) == Foldable(x) \/ Replacements(x) # {} \/ ShiftedOut(x)

-----------------------------------------------------------------------------
FirstOf(b) == IF lists[b] = <<>> THEN NoInst ELSE lists[b][1]

\* Mutant of NextOf: the walk advances by two.
NextOfNext(x) ==
  LET i == SelectInSeq(lists[block], LAMBDA y : y = x)
  IN IF i + 1 >= Len(lists[block]) THEN NoInst ELSE lists[block][i + 2]

NextOf(x) ==
  LET i == SelectInSeq(lists[block], LAMBDA y : y = x)
  IN IF i = Len(lists[block]) THEN NoInst ELSE lists[block][i + 1]

At(x) == status = "running" /\ x # NoInst /\ x = current

Init ==
  \E p \in Programs :
    /\ instrs = p.instrs /\ source = p.instrs /\ lists = p.lists
    /\ block = 1 /\ current = FirstOf(1)
    /\ rewritten = {} /\ status = "running"

\* ProcessMUL, ProcessSHR: the constant takes the place of x, which is alone
\* in its block.  The walk has lost its place then: x has no next.
Fold(x) ==
  /\ At(x) /\ Foldable(x) /\ lists[block] = <<x>>
  /\ \E v \in Folded(x) :
       LET new == Len(instrs) + 1
           unused == RemoveUser(RemoveUser(BuildConst(instrs, v), Input(x, 1), x),
                               Input(x, 2), x)
       IN /\ instrs' = ReplaceInputInUsers(unused, x, new)
          /\ lists' = [lists EXCEPT ![block] = <<new>>]
  /\ current' = NoInst
  /\ rewritten' = rewritten \cup {block}
  /\ UNCHANGED <<source, block, status>>

\* Next to another instruction, ReplaceInControlFlow calls an insertion that
\* aborts, since the constant is in no block yet.
FoldAborts(x) ==
  /\ At(x) /\ Foldable(x) /\ lists[block] # <<x>>
  /\ status' = "aborted"
  /\ UNCHANGED <<instrs, lists, source, block, current, rewritten>>

\* ReplaceWithoutNewInstr: x goes, and with it the walk's place in the block.
Replaced(ins, x, y) ==
  RemoveUser(RemoveUser(ReplaceInputInUsers(ins, x, y), Input(x, 1), x), Input(x, 2), x)

Gone(x) ==
  /\ lists' = [lists EXCEPT ![block] = RemoveFirst(@, x)]
  /\ current' = NoInst
  /\ rewritten' = rewritten \cup {block}
  /\ UNCHANGED <<source, block, status>>

ReplaceWithInput(x) ==
  /\ At(x) /\ ~Foldable(x)
  /\ \E y \in Replacements(x) : instrs' = Replaced(instrs, x, y)
  /\ Gone(x)

\* The constant 0 is built, but pushed to no block.
ReplaceWithZero(x) ==
  /\ At(x) /\ ~Foldable(x) /\ ShiftedOut(x)
  /\ instrs' = Replaced(BuildConst(instrs, 0), x, Len(instrs) + 1)
  /\ Gone(x)

\* Nothing to do at x: the walk follows its next pointer.
Step(x) ==
  /\ At(x) /\ ~Applicable(x)
  /\ current' = NextOf(x)
  /\ UNCHANGED <<instrs, lists, source, block, rewritten, status>>

NextBlock ==
  /\ status = "running" /\ current = NoInst
  /\ IF block < Len(lists)
     THEN /\ block' = block + 1 /\ current' = FirstOf(block')
          /\ UNCHANGED status
     ELSE status' = "done" /\ UNCHANGED <<block, current>>
  /\ UNCHANGED <<instrs, lists, source, rewritten>>

\* A caller may run the pass again.
RunAgain ==
  /\ status = "done"
  /\ status' = "running" /\ block' = 1 /\ current' = FirstOf(1)
  /\ rewritten' = {}
  /\ UNCHANGED <<instrs, lists, source>>

Next ==
  \/ \E x \in DOMAIN instrs :
       Fold(x) \/ FoldAborts(x) \/ ReplaceWithInput(x) \/ ReplaceWithZero(x) \/ Step(x)
  \/ NextBlock \/ RunAgain

Spec == Init /\ [][Next]_vars

-----------------------------------------------------------------------------
TypeOK ==
  /\ instrs \in Seq(InstructionsOver(DOMAIN instrs))
  /\ lists \in Seq(Seq(DOMAIN instrs))
  /\ block \in DOMAIN lists
  /\ current \in {NoInst} \cup ToSet(lists[block])
  /\ rewritten \subseteq DOMAIN lists
  /\ status \in {"running", "done", "aborted"}

Placed == UNION {ToSet(lists[b]) : b \in DOMAIN lists}

\* A zero that ReplaceWithZero built.
Loose(x) == x > Len(source) /\ x \notin Placed /\ IsImm(x, 0)

\* An instruction in a block is among the users of a value exactly as often
\* as the value is among its inputs, and no removed instruction is among them:
\* the asserts of RemoveUser and ReplaceInput hold, however rewrites chain and
\* whether the two inputs are one value or two.
UsersAgree ==
  /\ TypeOK
  /\ \A x \in {v \in DOMAIN instrs : v \in Placed \/ Loose(v)} :
       /\ ToSet(instrs[x].users) \subseteq Placed
       /\ \A y \in Placed : Occurrences(instrs[x].users, y) = Occurrences(instrs[y].in, x)

\* What an instruction reads is computed before it, or is one of the zeros
\* that are in no block: no removed value is read.
InputsPlaced ==
  \A y \in Placed : \A x \in ToSet(instrs[y].in) : Loose(x) \/ Precedes(lists, x, y)

\* a ^ b of words
Xor(a, b) ==
  LET low[n \in 0..WordBits] ==
        IF n = 0 THEN 0
        ELSE low[n - 1] + 2^(n - 1) * ((a \div 2^(n - 1) + b \div 2^(n - 1)) % 2)
  IN low[WordBits]

\* The value of an instruction when the argument is arg, modulo 2^bits.  A shift
\* copies the sign; one by the width of the type, or by an amount the rule
\* takes for that, has no value, and neither has what is computed from it.
Undefined == 2^WordBits
Value(ins, arg, bits) ==
  LET m == 2^bits
      signed(v) == IF 2 * v < m THEN v ELSE v - m
      value[x \in DOMAIN ins] ==
        LET read == {value[y] : y \in ToSet(ins[x].in)}
            a == value[ins[x].in[1]]
            b == value[ins[x].in[2]]
        IN CASE Undefined \in read -> Undefined
             [] ins[x].op = "ARG" -> arg
             [] ins[x].op = "CONST" -> ins[x].imm % m
             [] ins[x].op = "MUL" -> (a * b) % m
             [] ins[x].op = "SHR" -> IF b < Min({bits, ShiftLimit})
                                     THEN (signed(a) \div 2^b) % m ELSE Undefined
             [] ins[x].op = "XOR" -> Xor(a, b)
             [] OTHER -> a
  IN value

\* The constants are words of the type, sign extended.
ConstantsFit(bits) ==
  \A x \in DOMAIN instrs : IsConst(x) =>
    Imm(x) \in 0..2^(bits - 1) - 1 \cup 2^WordBits - 2^(bits - 1)..2^WordBits - 1

\* Every instruction that is left computes what it computed before the pass, in
\* every signed type, for every argument, through any chain of folds and
\* rewrites, shifts of negative numbers included, unless it depends on a shift
\* by the width of the type or by ShiftLimit.  In a type narrower than the word
\* this is so as long as no folded product has outgrown it.
ValuesKept ==
  \A bits \in 1..WordBits : ConstantsFit(bits) =>
    \A arg \in 0..2^bits - 1 :
      LET before == Value(source, arg, bits)
          now == Value(instrs, arg, bits)
      IN \A x \in Placed \cap DOMAIN source : before[x] \in {now[x], Undefined}

\* A Run leaves something to rewrite only in the blocks it rewrote something
\* in, where it lost its place: a block it left alone is finished.
MissesOnlyBehindRewrite ==
  status = "done" =>
    \A b \in DOMAIN lists \ rewritten : \A x \in ToSet(lists[b]) : ~Applicable(x)
=============================================================================
