------------------------------ MODULE DataFlow ------------------------------
(***************************************************************************)
(* The data flow between instructions: inputs (irGen/instructions.h,       *)
(* input.h), users (user.h) and what the InstructionBuilder makes of an    *)
(* opcode (helperBuilderFunctions.h).  The instructions of a program are a *)
(* sequence of records with at least the fields op, in and users; an       *)
(* instruction is its place in it.  Operators take the sequence and return *)
(* the sequence the call leaves.                                           *)
(***************************************************************************)
EXTENDS Naturals, SequencesExt

\* nullptr, also as an input
NoInst == 0

-----------------------------------------------------------------------------
(* The opcodes by the number of inputs their builder takes.                  *)

Nullary == {"CONST", "JMP", "JCMP", "RETVOID", "ARG", "NEW_ARRAY_IMM", "NEW_OBJECT"}
Unary == {"CAST", "RET", "LEN", "NEW_ARRAY", "LOAD_ARRAY_IMM", "LOAD_OBJECT", "NULL_CHECK"}
Binary == {"CMP", "SHR", "XOR", "MUL", "ADD", "ADDI", "MULI", "XORI", "SHRI",
           "BOUNDS_CHECK", "LOAD_ARRAY", "STORE_ARRAY_IMM", "STORE_OBJECT"}
Ternary == {"STORE_ARRAY"}
Variadic == {"PHI", "CALL"}
Opcodes == Nullary \cup Unary \cup Binary \cup Ternary \cup Variadic

HasArity(c) ==
  /\ c.op \in Nullary => Len(c.in) = 0
  /\ c.op \in Unary => Len(c.in) = 1
  /\ c.op \in Binary => Len(c.in) = 2
  /\ c.op \in Ternary => Len(c.in) = 3

\* The builders join properties with ||, which makes 1, ARITH, of any of them;
\* INPUT alone is what a cast and a phi get.
HasInputs(x) == x.op \in {"CAST", "PHI"}

-----------------------------------------------------------------------------
(* Inputs and users.                                                         *)

Occurrences(s, e) == Cardinality({i \in DOMAIN s : s[i] = e})

AddUser(ins, x, user) ==
  IF x = NoInst THEN ins ELSE [ins EXCEPT ![x].users = Append(@, user)]

\* The constructors: a new instruction becomes a user of each of its inputs.
Construct(ins, c) ==
  FoldLeft(LAMBDA acc, x : AddUser(acc, x, Len(ins) + 1),
           Append(ins, c @@ [users |-> <<>>]), c.in)

\* SetInput does not tell the input it replaces.
SetInput(ins, user, n, x) == AddUser([ins EXCEPT ![user].in[n] = x], x, user)

AddInput(ins, user, x) == AddUser([ins EXCEPT ![user].in = Append(@, x)], x, user)

\* RemoveUser takes out one occurrence; the order of users is nobody's concern.
RemoveUser(ins, x, user) == [ins EXCEPT ![x].users = RemoveFirst(@, user)]

PlaceOf(s, e) == SelectInSeq(s, LAMBDA d : d = e)

\* ReplaceUser: the first user that is old.
ReplaceUser(ins, x, old, new) ==
  [ins EXCEPT ![x].users = ReplaceAt(@, PlaceOf(@, old), new)]

\* ReplaceInput, which replaces the first input that is old, called n times.
ReplaceInput(in, n, old, new) ==
  [i \in DOMAIN in |->
     IF in[i] = old /\ Occurrences(SubSeq(in, 1, i), old) <= n THEN new ELSE in[i]]

\* Mutants of ReplaceInputInUsers: the new input does not get the users; a user
\* gets the new input only once.
ReplaceInputOnly(ins, old, new) ==
  [x \in DOMAIN ins |->
     [ins[x] EXCEPT !.in = ReplaceInput(@, Occurrences(ins[old].users, x), old, new)]]
ReplaceInputOnce(ins, old, new) ==
  [x \in DOMAIN ins |->
     [ins[x] EXCEPT !.in = ReplaceInput(@, IF Contains(ins[old].users, x) THEN 1 ELSE 0, old, new),
                    !.users = IF x = new THEN @ \o ins[old].users ELSE @]]

\* The new input gets the users of the old one, which keeps them, and each
\* user's input is replaced as often as the user is listed.
ReplaceInputInUsers(ins, old, new) ==
  [x \in DOMAIN ins |->
     [ins[x] EXCEPT !.in = ReplaceInput(@, Occurrences(ins[old].users, x), old, new),
                    !.users = IF x = new THEN @ \o ins[old].users ELSE @]]
=============================================================================
