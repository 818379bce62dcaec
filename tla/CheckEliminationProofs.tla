----------------------- MODULE CheckEliminationProofs -----------------------
(* No check that CheckElimination removes is missed, on any program that     *)
(* satisfies ProgramAssumption, for any number of checks and blocks.         *)
EXTENDS CheckElimination, FlowGraphProofs, SequenceTheorems

IInv == program \in Programs /\ RemovedCovered

\* What ProgramAssumption says of the program at hand.
LEMMA ProgramParts ==
  ASSUME program \in Programs
  PROVE  /\ program.first \in BBs
         /\ BBs \subseteq ReachableFrom(program.first, BBs, Edges)
         /\ RPO(program.first, program.succs) \in Seq(BBs) \ {<<>>}
         /\ NoBB \notin BBs /\ program.dominator \in [BBs -> BBs \cup {NoBB}]
         /\ DominatorsKept(program.dominator, program.first, BBs, Edges)
         /\ NoInst \notin Checks
         /\ lists \in [BBs -> Seq(Checks)]
         /\ \A x \in Checks : \E b \in BBs : x \in ToSet(lists[b])
         /\ \A a, b \in BBs : \A i \in DOMAIN lists[a], j \in DOMAIN lists[b] :
              lists[a][i] = lists[b][j] => a = b /\ i = j
         /\ \A x \in Checks : instrs[x].in \in Seq(DOMAIN instrs) /\ HasArity(instrs[x])
         /\ \A x \in Checks : ToSet(instrs[Ref(x)].users) \subseteq DOMAIN instrs
         /\ \A x, y \in Checks :
              y \in ToSet(instrs[Ref(x)].users) /\ instrs[x].op = instrs[y].op => Ref(x) = Ref(y)
<1> DEFINE p == program
           blocks == DOMAIN p.succs
           checks == ChecksOf(p.instrs)
<1>1. /\ p.first \in blocks
      /\ blocks \subseteq ReachableFrom(p.first, blocks, EdgesOf(p.succs))
      /\ RPO(p.first, p.succs) \in Seq(blocks) \ {<<>>}
      /\ NoBB \notin blocks /\ p.dominator \in [blocks -> blocks \cup {NoBB}]
      /\ DominatorsKept(p.dominator, p.first, blocks, EdgesOf(p.succs))
      /\ NoInst \notin checks
      /\ p.lists \in [blocks -> Seq(checks)]
  BY ProgramAssumption, Zenon DEF ProgramAssumption
<1>2. /\ \A x \in checks : \E b \in blocks : x \in ToSet(p.lists[b])
      /\ \A a, b \in blocks : \A i \in DOMAIN p.lists[a], j \in DOMAIN p.lists[b] :
           p.lists[a][i] = p.lists[b][j] => a = b /\ i = j
  BY ProgramAssumption, Zenon DEF ProgramAssumption
<1>3. \A x, y \in checks :
        /\ p.instrs[x].in \in Seq(DOMAIN p.instrs) /\ HasArity(p.instrs[x])
        /\ ToSet(p.instrs[p.instrs[x].in[1]].users) \subseteq DOMAIN p.instrs
        /\ y \in ToSet(p.instrs[p.instrs[x].in[1]].users) /\ p.instrs[x].op = p.instrs[y].op
             => p.instrs[x].in[1] = p.instrs[y].in[1]
  BY ProgramAssumption, Zenon DEF ProgramAssumption
<1>4. BBs = blocks /\ Checks = checks /\ lists = p.lists /\ instrs = p.instrs
  BY DEF BBs, Checks, lists, instrs
<1>5. Edges = EdgesOf(p.succs) /\ \A x : Ref(x) = p.instrs[x].in[1]
  BY DEF Edges, Ref, instrs
<1>6. /\ program.first \in BBs
      /\ BBs \subseteq ReachableFrom(program.first, BBs, Edges)
      /\ RPO(program.first, program.succs) \in Seq(BBs) \ {<<>>}
      /\ NoBB \notin BBs /\ program.dominator \in [BBs -> BBs \cup {NoBB}]
      /\ DominatorsKept(program.dominator, program.first, BBs, Edges)
      /\ NoInst \notin Checks
      /\ lists \in [BBs -> Seq(Checks)]
  BY <1>1, <1>4, <1>5
<1>7. /\ \A x \in Checks : \E b \in BBs : x \in ToSet(lists[b])
      /\ \A a, b \in BBs : \A i \in DOMAIN lists[a], j \in DOMAIN lists[b] :
           lists[a][i] = lists[b][j] => a = b /\ i = j
  BY <1>2, <1>4
<1>8. \A x, y \in Checks :
        /\ instrs[x].in \in Seq(DOMAIN instrs) /\ HasArity(instrs[x])
        /\ ToSet(instrs[Ref(x)].users) \subseteq DOMAIN instrs
        /\ y \in ToSet(instrs[Ref(x)].users) /\ instrs[x].op = instrs[y].op => Ref(x) = Ref(y)
  BY <1>3, <1>4, <1>5
<1> QED
  BY <1>6, <1>7, <1>8

\* A check has one place.
LEMMA PlaceParts ==
  ASSUME program \in Programs, NEW x \in Checks
  PROVE  /\ InstBB(x) \in BBs
         /\ lists[InstBB(x)] \in Seq(Checks)
         /\ DOMAIN lists[InstBB(x)] \subseteq Nat
         /\ \E i \in DOMAIN lists[InstBB(x)] : lists[InstBB(x)][i] = x
         /\ \A b \in BBs : \A i \in DOMAIN lists[b] : lists[b][i] = x => b = InstBB(x)
<1>1. InstBB(x) \in BBs /\ x \in ToSet(lists[InstBB(x)])
  BY ProgramParts DEF InstBB
<1>2. lists[InstBB(x)] \in Seq(Checks)
  BY <1>1, ProgramParts
<1>3. DOMAIN lists[InstBB(x)] \subseteq Nat
  BY <1>2, LenProperties
<1>4. PICK i \in DOMAIN lists[InstBB(x)] : lists[InstBB(x)][i] = x
  BY <1>1 DEF ToSet
<1>5. \A b \in BBs : \A j \in DOMAIN lists[b] : lists[b][j] = x => b = InstBB(x)
  BY <1>1, <1>4, ProgramParts
<1> QED
  BY <1>1, <1>2, <1>3, <1>4, <1>5

\* Covering by way of the blocks the walk asks about.
LEMMA CoversByBlocks ==
  ASSUME program \in Programs, NEW x \in Checks, NEW y \in Checks
  PROVE  Covers(x, y) <=>
           /\ x # y /\ instrs[x].op = instrs[y].op /\ instrs[x].in = instrs[y].in
           /\ IF InstBB(x) = InstBB(y) THEN IsEarlierInBasicBlock(x, y)
              ELSE Domites(InstBB(x), InstBB(y))
<1> DEFINE a == InstBB(x)
           b == InstBB(y)
<1>1. /\ a \in BBs /\ b \in BBs
      /\ \A c \in BBs : \A i \in DOMAIN lists[c] : lists[c][i] = x => c = a
      /\ \A c \in BBs : \A i \in DOMAIN lists[c] : lists[c][i] = y => c = b
      /\ \E i \in DOMAIN lists[a] : lists[a][i] = x
      /\ \E i \in DOMAIN lists[b] : lists[b][i] = y
  BY PlaceParts
<1>2. ASSUME Covers(x, y)
      PROVE  IF a = b THEN IsEarlierInBasicBlock(x, y) ELSE Domites(a, b)
  <2>1. PICK c, d \in BBs : \E i \in DOMAIN lists[c], j \in DOMAIN lists[d] :
          /\ lists[c][i] = x /\ lists[d][j] = y
          /\ IF c = d THEN i < j ELSE Domites(c, d)
    BY <1>2 DEF Covers
  <2>2. c = a /\ d = b
    BY <1>1, <2>1
  <2> QED
    BY <2>1, <2>2 DEF IsEarlierInBasicBlock
<1>3. ASSUME x # y, instrs[x].op = instrs[y].op, instrs[x].in = instrs[y].in,
             IF a = b THEN IsEarlierInBasicBlock(x, y) ELSE Domites(a, b)
      PROVE  Covers(x, y)
  <2>1. CASE a = b
    BY <1>1, <1>3, <2>1 DEF IsEarlierInBasicBlock, Covers
  <2>2. CASE a # b
    BY <1>1, <1>3, <2>2 DEF Covers
  <2> QED
    BY <2>1, <2>2
<1> QED
  BY <1>2, <1>3 DEF Covers

\* What is earlier than an earlier check of a block is earlier.
LEMMA EarlierTransitive ==
  ASSUME program \in Programs, NEW x \in Checks, NEW y \in Checks, NEW z \in Checks,
         InstBB(x) = InstBB(y), InstBB(y) = InstBB(z),
         IsEarlierInBasicBlock(x, y), IsEarlierInBasicBlock(y, z)
  PROVE  IsEarlierInBasicBlock(x, z)
<1> DEFINE list == lists[InstBB(x)]
<1>1. PICK i, j \in DOMAIN list : i < j /\ list[i] = x /\ list[j] = y
  BY DEF IsEarlierInBasicBlock
<1>2. PICK k, l \in DOMAIN list : k < l /\ list[k] = y /\ list[l] = z
  BY DEF IsEarlierInBasicBlock
<1>3. j = k
  <2>1. InstBB(x) \in BBs /\ list[j] = list[k]
    BY <1>1, <1>2, PlaceParts
  <2> QED
    BY <2>1, ProgramParts
<1>4. i \in Nat /\ j \in Nat /\ l \in Nat
  BY PlaceParts
<1>5. i < l
  BY <1>1, <1>2, <1>3, <1>4
<1> QED
  BY <1>1, <1>2, <1>5 DEF IsEarlierInBasicBlock

\* The way up from a block does not come back to it, so that two different
\* blocks are not above each other, and ways up continue each other.
LEMMA DomitesParts ==
  ASSUME program \in Programs
  PROVE  /\ \A a, b \in BBs : Domites(a, b) /\ Domites(b, a) => a = b
         /\ \A a, b, c \in BBs : Domites(a, b) /\ Domites(b, c) => Domites(a, c)
<1> DEFINE up == program.dominator
<1>1. \A b \in BBs : up[b] \in BBs => b \notin Chain(up[b], BBs, up)
  BY ProgramParts DEF DominatorsKept
<1>2. \A a, b, c \in BBs : Domites(a, b) /\ Domites(b, c) => Domites(a, c)
  BY ReachesTransitive DEF Domites, Chain
<1>3. ASSUME NEW a \in BBs, NEW b \in BBs, Domites(a, b), Domites(b, a), a # b
      PROVE  FALSE
  <2>1. up[b] \in BBs /\ a \in Chain(up[b], BBs, up)
    BY <1>3, ChainSteps DEF Domites
  <2>2. b \in Chain(up[b], BBs, up)
    BY <1>3, <2>1, ReachesTransitive DEF Domites, Chain
  <2> QED
    BY <1>1, <2>1, <2>2
<1> QED
  BY <1>2, <1>3

\* Removals chain: what a removed check covered is covered by its remover.
LEMMA CoversTransitive ==
  ASSUME program \in Programs, NEW x \in Checks, NEW y \in Checks, NEW z \in Checks,
         Covers(x, y), Covers(y, z), x # z
  PROVE  Covers(x, z)
<1> DEFINE a == InstBB(x)
           b == InstBB(y)
           c == InstBB(z)
<1>1. /\ instrs[x].op = instrs[z].op /\ instrs[x].in = instrs[z].in
      /\ IF a = b THEN IsEarlierInBasicBlock(x, y) ELSE Domites(a, b)
      /\ IF b = c THEN IsEarlierInBasicBlock(y, z) ELSE Domites(b, c)
  BY CoversByBlocks
<1>2. a \in BBs /\ b \in BBs /\ c \in BBs
  BY PlaceParts
<1>3. IF a = c THEN IsEarlierInBasicBlock(x, z) ELSE Domites(a, c)
  <2>1. CASE a = b /\ b = c
    BY <1>1, <2>1, EarlierTransitive
  <2>2. CASE a = b /\ b # c
    BY <1>1, <2>2
  <2>3. CASE a # b /\ b = c
    BY <1>1, <2>3
  <2>4. CASE a # b /\ b # c
    <3>1. Domites(a, b) /\ Domites(b, c)
      BY <1>1, <2>4
    <3>2. a # c
      BY <1>2, <2>4, <3>1, DomitesParts
    <3> QED
      BY <1>2, <3>1, <3>2, DomitesParts
  <2> QED
    BY <2>1, <2>2, <2>3, <2>4
<1> QED
  BY <1>1, <1>3, CoversByBlocks

\* A check that dominates an equal one among the users of what it checks covers it.
LEMMA RemoverCovers ==
  ASSUME program \in Programs, NEW x \in Checks, NEW y, x # y,
         y \in ToSet(instrs[Ref(x)].users), y \in Checks,
         InstDominates(x, y), SameCheck(x, y)
  PROVE  Covers(x, y)
<1>1. instrs[x].op = instrs[y].op /\ Ref(x) = Ref(y)
  BY ProgramParts DEF SameCheck
<1>2. /\ instrs[x].in \in Seq(DOMAIN instrs) /\ instrs[y].in \in Seq(DOMAIN instrs)
      /\ HasArity(instrs[x]) /\ HasArity(instrs[y])
  BY ProgramParts
<1>3. instrs[x].in = instrs[y].in
  <2>1. instrs[x].in[1] = instrs[y].in[1]
    BY <1>1 DEF Ref
  <2>2. CASE instrs[x].op = "NULL_CHECK"
    <3>1. Len(instrs[x].in) = 1 /\ Len(instrs[y].in) = 1
      BY <1>1, <1>2, <2>2 DEF HasArity, Unary
    <3> QED
      BY <1>2, <2>1, <3>1, SeqEqual
  <2>3. CASE instrs[x].op = "BOUNDS_CHECK"
    <3>1. Len(instrs[x].in) = 2 /\ Len(instrs[y].in) = 2
      BY <1>1, <1>2, <2>3 DEF HasArity, Binary
    <3>2. instrs[x].in[2] = instrs[y].in[2]
      BY <2>3 DEF SameCheck, Idx
    <3>3. \A i \in 1..Len(instrs[x].in) : instrs[x].in[i] = instrs[y].in[i]
      BY <2>1, <3>1, <3>2
    <3> QED
      BY <1>2, <3>1, <3>3, SeqEqual
  <2> QED
    BY <2>2, <2>3 DEF Checks, ChecksOf
<1> QED
  BY <1>1, <1>3, CoversByBlocks DEF InstDominates

\* The walk stands on a check that is still in the block.
LEMMA WalkOnParts ==
  ASSUME NEW b, NEW place, WalkOn(b, place), program' = program
  PROVE  current' # NoInst => current' \in ToSet(lists'[b]) \ dead'
BY DEF WalkOn, ToSet, lists

-----------------------------------------------------------------------------
LEMMA InitIInv == Init => IInv
<1> SUFFICES ASSUME Init
             PROVE  IInv
  OBVIOUS
<1>1. program \in Programs /\ dead = {}
  BY DEF Init
<1>2. todo \in Seq(BBs) \ {<<>>}
  BY <1>1, ProgramParts DEF Init
<1>3. ASSUME current # NoInst
      PROVE  current \in ToSet(lists[Head(todo)])
  <2>1. Head(todo) \in BBs
    BY <1>2
  <2>2. lists[Head(todo)] \in Seq(Checks)
    BY <1>1, <2>1, ProgramParts
  <2>3. lists[Head(todo)] # <<>> /\ current = Head(lists[Head(todo)])
    BY <1>3 DEF Init
  <2>4. current = lists[Head(todo)][1] /\ 1 \in DOMAIN lists[Head(todo)]
    BY <2>2, <2>3
  <2> QED
    BY <2>4 DEF ToSet
<1>4. TypeOK
  <2>1. removed = FALSE /\ depth = 1 /\ status = "running"
    BY DEF Init
  <2>2. depth \in Nat \ {0}
    BY <2>1
  <2> QED
    BY <1>1, <1>2, <1>3, <2>1, <2>2 DEF TypeOK
<1> QED
  BY <1>1, <1>4 DEF IInv, RemovedCovered

\* Nothing else but the checks that are dead matters to what is covered.
LEMMA SameProgram ==
  ASSUME program' = program
  PROVE  /\ Checks' = Checks /\ BBs' = BBs /\ lists' = lists
         /\ DominatorsRight' = DominatorsRight
         /\ \A a, b : IsDominator(a, b)' = IsDominator(a, b)
         /\ \A x : InstBB(x)' = InstBB(x)
         /\ \A x, y : Covers(x, y)' = Covers(x, y)
<1>1. Checks' = Checks /\ BBs' = BBs /\ lists' = lists /\ instrs' = instrs /\ Edges' = Edges
  BY DEF Checks, ChecksOf, BBs, lists, instrs, Edges
<1>2. /\ \A a, b : Domites(a, b)' = Domites(a, b)
      /\ \A a, b : IsDominator(a, b)' = IsDominator(a, b)
  BY <1>1 DEF Domites, IsDominator
<1>3. DominatorsRight' = DominatorsRight
  BY <1>1, <1>2 DEF DominatorsRight
<1>4. \A x : InstBB(x)' = InstBB(x)
  BY <1>1 DEF InstBB
<1>5. \A x, y : Covers(x, y)' = Covers(x, y)
  BY <1>1, <1>2 DEF Covers
<1> QED
  BY <1>1, <1>2, <1>3, <1>4, <1>5

\* The block of a check that covers another dominates the other's if no
\* dominator was made up.
LEMMA CoversAhead ==
  ASSUME program \in Programs, NEW x \in Checks, NEW y \in Checks, Covers(x, y), DominatorsRight
  PROVE  IsDominator(InstBB(x), InstBB(y))
<1>1. InstBB(x) \in BBs /\ InstBB(y) \in BBs
  BY PlaceParts
<1>2. CASE InstBB(x) = InstBB(y)
  BY <1>2 DEF IsDominator, Dominates
<1>3. CASE InstBB(x) # InstBB(y)
  <2>1. Domites(InstBB(x), InstBB(y))
    BY <1>3, CoversByBlocks
  <2> QED
    BY <1>1, <2>1 DEF DominatorsRight
<1> QED
  BY <1>2, <1>3

\* The invariant by its parts.
LEMMA IInvParts ==
  IInv <=> /\ program \in Programs /\ TypeOK
           /\ \A y \in dead : \E x \in Checks \ dead : Covers(x, y)
<1> SUFFICES ASSUME program \in Programs, TypeOK,
                    NEW y \in dead, NEW x \in Checks \ dead, Covers(x, y), DominatorsRight
             PROVE  IsDominator(InstBB(x), InstBB(y))
  BY DEF IInv, RemovedCovered
<1>1. y \in Checks
  BY DEF TypeOK
<1> QED
  BY <1>1, CoversAhead

\* A removal: the remover stays, and takes the place of what it removed.
LEMMA TryRemoveCheckIInv ==
  ASSUME IInv, NEW x \in Checks, TryRemoveCheck(x)
  PROVE  IInv'
<1> DEFINE users == instrs[Ref(x)].users
           asked == {i \in DOMAIN users : users[i] # x /\ instrs[users[i]].op = instrs[x].op}
           failing == {i \in asked : users[i] \in dead}
           victims == {users[i] : i \in {j \in asked : /\ \A f \in failing : j < f
                                                       /\ InstDominates(x, users[j])
                                                       /\ SameCheck(x, users[j])}}
<1>1. /\ x = current /\ x # NoInst /\ status = "running"
      /\ dead' = dead \cup victims
      /\ removed' = (removed \/ victims # {})
      /\ program' = program /\ todo' = todo /\ depth' = depth
  BY DEF TryRemoveCheck
<1>2. \/ WalkOn(Head(todo), PlaceOf(lists[Head(todo)], x)) /\ status' = status
      \/ status' = "aborted" /\ current' = current
  BY DEF TryRemoveCheck
<1>3. /\ program \in Programs /\ TypeOK
      /\ \A y \in dead : \E z \in Checks \ dead : Covers(z, y)
  BY IInvParts
<1>4. x \notin dead /\ x \in ToSet(lists[Head(todo)])
  BY <1>1, <1>3 DEF TypeOK
<1>5. ASSUME NEW y \in victims
      PROVE  y \in Checks /\ y # x /\ Covers(x, y)
  <2>1. /\ y \in ToSet(users) /\ y # x /\ instrs[y].op = instrs[x].op
        /\ InstDominates(x, y) /\ SameCheck(x, y)
    BY DEF ToSet
  <2>2. y \in Checks
    BY <1>3, <2>1, ProgramParts DEF Checks, ChecksOf
  <2> QED
    BY <1>3, <2>1, <2>2, RemoverCovers
<1>6. /\ Checks' = Checks /\ BBs' = BBs /\ lists' = lists
      /\ \A z, y : Covers(z, y)' = Covers(z, y)
  BY <1>1, SameProgram
<1>7. x \notin dead'
  BY <1>1, <1>4, <1>5
<1>8. TypeOK'
  <2>1. dead' \subseteq Checks'
    BY <1>1, <1>3, <1>5, <1>6 DEF TypeOK
  <2>2. current' # NoInst => current' \in ToSet(lists'[Head(todo')]) \ dead'
    BY <1>1, <1>2, <1>4, <1>6, <1>7, WalkOnParts
  <2>3. removed' \in BOOLEAN /\ status' \in {"running", "returned", "aborted"}
    BY <1>1, <1>2
  <2> QED
    BY <1>1, <1>3, <1>6, <2>1, <2>2, <2>3 DEF TypeOK
<1>9. ASSUME NEW y \in dead'
      PROVE  \E z \in Checks \ dead' : Covers(z, y)
  <2>1. CASE y \in victims
    BY <1>5, <1>7, <2>1
  <2>2. CASE y \in dead
    <3>1. PICK z \in Checks \ dead : Covers(z, y)
      BY <1>3, <2>2
    <3>2. CASE z \in victims
      <4>1. y \in Checks /\ x # y
        BY <1>3, <1>4, <2>2 DEF TypeOK
      <4>2. Covers(x, z) /\ z \in Checks
        BY <1>5, <3>2
      <4>3. Covers(x, y)
        BY <1>3, <3>1, <4>1, <4>2, CoversTransitive
      <4> QED
        BY <1>7, <4>3
    <3>3. CASE z \notin victims
      BY <1>1, <3>1, <3>3
    <3> QED
      BY <3>2, <3>3
  <2> QED
    BY <1>1, <2>1, <2>2
<1>10. ASSUME NEW y \in dead'
       PROVE  \E z \in Checks \ dead' :
                Covers(z, y) /\ (DominatorsRight => IsDominator(InstBB(z), InstBB(y)))
  <2>1. PICK z \in Checks \ dead' : Covers(z, y)
    BY <1>9, <1>10
  <2>2. y \in Checks
    BY <1>6, <1>8, <1>10 DEF TypeOK
  <2> QED
    BY <1>3, <2>1, <2>2, CoversAhead
<1>11. RemovedCovered'
  <2>1. /\ DominatorsRight' = DominatorsRight
        /\ \A z, y : Covers(z, y)' = Covers(z, y)
        /\ \A z, y : IsDominator(InstBB(z), InstBB(y))' = IsDominator(InstBB(z), InstBB(y))
    BY <1>1, SameProgram DEF IsDominator, InstBB, BBs, lists, Edges
  <2> QED
    BY <1>6, <1>8, <1>10, <2>1 DEF RemovedCovered
<1> QED
  BY <1>1, <1>3, <1>11 DEF IInv

\* The walk goes to another block: nothing is removed.
LEMMA KeepsDead ==
  ASSUME IInv, program' = program, dead' = dead, TypeOK'
  PROVE  IInv'
BY SameProgram DEF IInv, RemovedCovered

LEMMA NextBlockIInv ==
  ASSUME IInv, NextBlock
  PROVE  IInv'
<1>1. /\ program' = program /\ dead' = dead /\ removed' = removed
      /\ depth' = depth /\ status' = status
      /\ Len(todo) > 1 /\ todo' = Tail(todo) /\ WalkOn(Head(todo'), 0)
  BY DEF NextBlock
<1>2. TypeOK
  BY DEF IInv, RemovedCovered
<1>3. todo' \in Seq(BBs) \ {<<>>}
  <2>1. todo \in Seq(BBs) /\ todo # <<>>
    BY <1>2 DEF TypeOK
  <2>2. Tail(todo) \in Seq(BBs) /\ Len(Tail(todo)) = Len(todo) - 1 /\ Len(todo) \in Nat
    BY <2>1
  <2>3. Len(Tail(todo)) # 0
    BY <1>1, <2>2
  <2> QED
    BY <1>1, <2>2, <2>3, EmptySeq
<1>4. current' # NoInst => current' \in ToSet(lists'[Head(todo')]) \ dead'
  BY <1>1, WalkOnParts
<1>5. TypeOK'
  BY <1>1, <1>2, <1>3, <1>4, SameProgram DEF TypeOK
<1> QED
  BY <1>1, <1>5, KeepsDead

LEMMA EndPassIInv ==
  ASSUME IInv, EndPass
  PROVE  IInv'
<1>1. program' = program /\ dead' = dead /\ current = NoInst
  BY DEF EndPass
<1>2. TypeOK /\ program \in Programs
  BY DEF IInv, RemovedCovered
<1>3. TypeOK'
  <2>1. CASE removed
    <3>1. /\ depth' = depth + 1 /\ removed' = FALSE /\ status' = status
          /\ todo' = RPO(program.first, program.succs) /\ WalkOn(Head(todo'), 0)
      BY <2>1 DEF EndPass
    <3>2. todo' \in Seq(BBs) \ {<<>>}
      BY <1>2, <3>1, ProgramParts
    <3>3. current' # NoInst => current' \in ToSet(lists'[Head(todo')]) \ dead'
      BY <1>1, <3>1, WalkOnParts
    <3>4. depth' \in Nat \ {0}
      BY <1>2, <3>1 DEF TypeOK
    <3> QED
      BY <1>1, <1>2, <3>1, <3>2, <3>3, <3>4, SameProgram DEF TypeOK
  <2>2. CASE ~removed
    <3>1. /\ todo' = todo /\ current' = current /\ removed' = removed /\ depth' = depth
          /\ status' \in {"returned", "aborted"}
      BY <2>2 DEF EndPass
    <3> QED
      BY <1>1, <1>2, <3>1, SameProgram DEF TypeOK
  <2> QED
    BY <2>1, <2>2
<1> QED
  BY <1>1, <1>3, KeepsDead

LEMMA StutterIInv ==
  ASSUME IInv, UNCHANGED vars
  PROVE  IInv'
<1>1. /\ program' = program /\ dead' = dead /\ todo' = todo /\ current' = current
      /\ removed' = removed /\ depth' = depth /\ status' = status
  BY DEF vars
<1>2. TypeOK
  BY DEF IInv, RemovedCovered
<1>3. TypeOK'
  BY <1>1, <1>2, SameProgram DEF TypeOK
<1> QED
  BY <1>1, <1>3, KeepsDead

\* The invariant holds throughout Eliminate and its recursion.
THEOREM Invariance == Spec => []IInv
<1>1. IInv /\ [Next]_vars => IInv'
  <2> SUFFICES ASSUME IInv, [Next]_vars
               PROVE  IInv'
    OBVIOUS
  <2>1. CASE \E x \in Checks : TryRemoveCheck(x)
    BY <2>1, TryRemoveCheckIInv
  <2>2. CASE NextBlock
    BY <2>2, NextBlockIInv
  <2>3. CASE EndPass
    BY <2>3, EndPassIInv
  <2>4. CASE UNCHANGED vars
    BY <2>4, StutterIInv
  <2> QED
    BY <2>1, <2>2, <2>3, <2>4 DEF Next
<1> QED
  BY <1>1, InitIInv, PTL DEF Spec

\* CheckElimination::TryRemoveCheck takes out only checks that a check still in
\* the graph makes in a block up dominator_ or earlier in theirs: ahead of them
\* on every path when Construct made up no dominator, as it can in graphs of
\* five blocks and more (run DomTreeWrong).
THEOREM RemovalsCovered == Spec => []RemovedCovered
<1>1. IInv => RemovedCovered
  BY DEF IInv
<1> QED
  BY <1>1, Invariance, PTL
=============================================================================
