-------------------------- MODULE ExecutionProofs ---------------------------
(***************************************************************************)
(* Code generation refines module Source, for bodies of any size.  First   *)
(* each step of the walk keeps what the blocks say faithful to the nodes   *)
(* (Sense, on the definitions at the end of CodeGenProofs); then each step *)
(* of the graph, when it runs, is the step that Source takes at the same   *)
(* node, or none.                                                          *)
(*                                                                         *)
(* Running says of a function that runs what the next step depends on:     *)
(* that it is a finished one (Whole), that the values made control come    *)
(* where it is (Came), and that the right operands of && and || which it   *)
(* is in are the ones that count (Undecided).                              *)
(***************************************************************************)
EXTENDS Execution, CodeGenProofs

-----------------------------------------------------------------------------
(* The walk.                                                               *)

Faithful(K, L) == Faith(stack, K, L, code, placed, insert, src) /\ Ready(stack, src, value)

LEMMA FaithPush ==
  ASSUME NEW st \in Stacks, NEW K, NEW L, NEW c \in Codes, NEW pl, pl \subseteq 1..Len(c), NEW ins, NEW s
  PROVE  /\ Faith(st, K, L, c, pl, ins, s) =>
              /\ Faith(st \o <<>>, K, L, c, pl, ins, s)
              /\ \A f \in Quiet : Faith(st \o <<Waiting(f)>>, K, L, c, pl, ins, s)
              /\ \A f, g \in Quiet : Faith(st \o <<Waiting(f), Waiting(g)>>, K, L, c, pl, ins, s)
              /\ \A f, g \in Quiet : \A v \in Nat :
                   Faith(st \o <<[Waiting(f) EXCEPT !.saved = v], Waiting(g)>>, K, L, c, pl, ins, s)
         /\ \A h \in Frames : \A g \in Quiet : Faith(Append(st, h), K, L, c, pl, ins, s) =>
              Faith(st \o <<h, Waiting(g)>>, K, L, c, pl, ins, s)
  <1>1. ASSUME NEW tt \in Stacks, Faith(tt, K, L, c, pl, ins, s), NEW h \in Frames, h.k \in Quiet
        PROVE  Faith(Append(tt, h), K, L, c, pl, ins, s)
    <2>1. Shared(tt, Append(tt, h), K, K, Len(tt)) BY <1>1, SharedStacks
    <2>2. Append(tt, h)[Len(tt) + 1] = h /\ Len(tt) \in Nat /\ Len(tt) # Len(tt) + 1 BY <1>1, StackFacts
    <2>3. Alike(tt, Append(tt, h), K, Len(tt)) BY <2>1, <2>2, <1>1 DEF Alike
    <2> QED BY <2>3, <1>1, FaithQuiet
  <1>2. \A f \in Quiet : Waiting(f) \in Frames /\ Waiting(f).k \in Quiet
    BY WaitingHeld, 0 \in Nat
  <1>3. \A f \in Quiet : \A v \in Nat :
          [Waiting(f) EXCEPT !.saved = v] \in Frames /\ [Waiting(f) EXCEPT !.saved = v].k \in Quiet
    BY WaitingHeld
  <1>4. \A h \in Frames : Append(st, h) \in Stacks BY StackFacts
  <1>5. ASSUME NEW h \in Frames, NEW g \in Quiet, Faith(Append(st, h), K, L, c, pl, ins, s)
        PROVE  Faith(st \o <<h, Waiting(g)>>, K, L, c, pl, ins, s)
    <2>1. Faith(Append(Append(st, h), Waiting(g)), K, L, c, pl, ins, s) BY <1>1, <1>2, <1>4, <1>5
    <2>2. st \o <<h, Waiting(g)>> = Append(Append(st, h), Waiting(g)) BY <1>2, StackPush
    <2> QED BY <2>1, <2>2
  <1>6. ASSUME Faith(st, K, L, c, pl, ins, s)
        PROVE  /\ Faith(st \o <<>>, K, L, c, pl, ins, s)
               /\ \A f \in Quiet : Faith(st \o <<Waiting(f)>>, K, L, c, pl, ins, s)
               /\ \A f, g \in Quiet : Faith(st \o <<Waiting(f), Waiting(g)>>, K, L, c, pl, ins, s)
               /\ \A f, g \in Quiet : \A v \in Nat :
                    Faith(st \o <<[Waiting(f) EXCEPT !.saved = v], Waiting(g)>>, K, L, c, pl, ins, s)
    <2>1. st \o <<>> = st BY ConcatEmptySeq DEF Stacks
    <2>2. ASSUME NEW f \in Quiet PROVE Faith(st \o <<Waiting(f)>>, K, L, c, pl, ins, s)
      <3>1. Faith(Append(st, Waiting(f)), K, L, c, pl, ins, s) BY <1>1, <1>2, <1>6
      <3>2. st \o <<Waiting(f)>> = Append(st, Waiting(f)) BY <1>2, StackPush
      <3> QED BY <3>1, <3>2
    <2>3. ASSUME NEW f \in Quiet, NEW g \in Quiet
          PROVE  Faith(st \o <<Waiting(f), Waiting(g)>>, K, L, c, pl, ins, s)
      <3>1. Faith(Append(st, Waiting(f)), K, L, c, pl, ins, s) BY <1>1, <1>2, <1>6
      <3>2. Waiting(f) \in Frames BY <1>2
      <3> QED BY <3>1, <3>2, <1>5
    <2>4. ASSUME NEW f \in Quiet, NEW g \in Quiet, NEW v \in Nat
          PROVE  Faith(st \o <<[Waiting(f) EXCEPT !.saved = v], Waiting(g)>>, K, L, c, pl, ins, s)
      <3> DEFINE h == [Waiting(f) EXCEPT !.saved = v]
      <3>1. h \in Frames /\ h.k \in Quiet BY <1>3
      <3> HIDE DEF h
      <3>2. Faith(Append(st, h), K, L, c, pl, ins, s) BY <1>1, <1>6, <3>1
      <3>3. Faith(st \o <<h, Waiting(g)>>, K, L, c, pl, ins, s) BY <1>5, <3>1, <3>2
      <3> QED BY <3>3 DEF h
    <2> QED BY <1>6, <2>1, <2>2, <2>3, <2>4
  <1> QED BY <1>5, <1>6

(* A while statement that was just begun waits for its condition.          *)
LEMMA NotWhile ==
  ASSUME Building, Walking, Ready(stack, src, value), Top.k # "expr"
  PROVE  ~(src # <<>> /\ src[Len(src)] = "while")
  BY DEF Ready, Walking, Top

(* Where a statement starts.                                               *)
LEMMA AtBase ==
  ASSUME Building, Emitting, AtStmt, NEW K, NEW L, Faithful(K, L)
  PROVE  /\ Faith(Base, K, L, code, placed, insert, src)
         /\ Graph(code, placed, insert) /\ code \in Codes /\ placed \subseteq 1..Len(code) /\ insert \in 1..Len(code)
         /\ Len(code) \in Nat /\ Base \in Stacks /\ Fed(Base) /\ Len(Base) \in Nat
         /\ ~(src # <<>> /\ src[Len(src)] = "while")
         /\ \A i \in 1..Len(Base) : Base[i].k \notin Joins
         /\ \A i \in 1..Len(Base) : Base[i].k \in Loopers \cup Joins => Base[i].back \in placed
         /\ Owes(Base, Len(code), placed, {})
         /\ Struct(Base, K, src) /\ src \in Seq(Kinds)
  <1>0. Walking /\ Top.k \in {"body", "stmt"} /\ stack # <<>> BY DEF AtStmt, StmtFrames, Walking
  <1>1. /\ Builder(Base, code, placed, insert, loops, {}) /\ Base \in Stacks /\ Fed(Base)
        /\ Fine(Base, code, placed, insert, slots, {}, {insert})
    BY BaseFacts
  <1>2. /\ Graph(code, placed, insert) /\ code \in Codes /\ placed \subseteq 1..Len(code) /\ insert \in 1..Len(code)
        /\ Owes(Base, Len(code), placed, {}) /\ Len(code) \in Nat
    BY <1>1, BuilderFacts DEF Builder
  <1>3. Faith(stack, K, L, code, placed, insert, src) /\ Ready(stack, src, value) BY DEF Faithful
  <1>4. Faith(Base, K, L, code, placed, insert, src)
    <2>1. stack \in Stacks BY <1>0, StackTop
    <2>2. CASE Top.k = "body" BY <2>2, <1>3 DEF Base
    <2>3. CASE Top.k # "body"
      <3>1. Base = Popped /\ Top.k \in Quiet BY <2>3, <1>0, QuietKinds DEF Base
      <3>2. Shared(stack, Popped, K, K, Len(stack) - 1) BY <1>0, <2>1, SharedStacks DEF Popped
      <3>3. Len(Popped) = Len(stack) - 1 /\ Len(stack) \in Nat /\ Len(stack) - 1 # Len(stack) - 1 + 1
            /\ Len(stack) - 1 + 1 = Len(stack)
        BY <1>0, <2>1, StackFacts DEF Popped
      <3>4. Alike(stack, Popped, K, Len(stack) - 1) BY <3>1, <3>2, <3>3 DEF Alike, Top
      <3> QED BY <3>1, <3>4, <1>2, <1>3, FaithQuiet
    <2> QED BY <2>2, <2>3
  <1>5. ~(src # <<>> /\ src[Len(src)] = "while") BY <1>0, <1>3, NotWhile
  <1>6. \A i \in 1..Len(Base) : Base[i].k \notin Joins BY <1>1 DEF Fed, Hungry, Eaters, Joins
  <1>7. \A i \in 1..Len(Base) : Base[i].k \in Loopers \cup Joins => Base[i].back \in placed
    BY <1>1 DEF Fine, Sound, Held, LoopHead
  <1>8. Len(Base) \in Nat BY <1>1, StackFacts
  <1> QED BY <1>1, <1>2, <1>4, <1>5, <1>6, <1>7, <1>8 DEF Faith, Struct

(* Where an activation goes on.                                            *)
LEMMA AtTop ==
  ASSUME Building, Emitting, Walking, NEW K, NEW L, Faithful(K, L)
  PROVE  /\ Faith(stack, K, L, code, placed, insert, src)
         /\ Top.k \in Quiet => Faith(Popped, K, L, code, placed, insert, src)
         /\ Graph(code, placed, insert) /\ code \in Codes /\ placed \subseteq 1..Len(code) /\ insert \in 1..Len(code)
         /\ Len(code) \in Nat /\ stack \in Stacks /\ stack # <<>> /\ Popped \in Stacks /\ Top \in Frames
         /\ Len(stack) \in Nat /\ Len(Popped) = Len(stack) - 1 /\ Len(stack) = Len(Popped) + 1
         /\ Top = stack[Len(Popped) + 1] /\ Len(stack) \in 1..Len(stack) /\ Len(Popped) \in Nat
         /\ \A i \in 1..Len(Popped) : i \in 1..Len(stack) /\ Popped[i] = stack[i]
         /\ Top.k # "expr" => ~(src # <<>> /\ src[Len(src)] = "while")
         /\ Top.k \notin ExprKinds => Fed(Popped) /\ \A i \in 1..Len(Popped) : Popped[i].k \notin Joins
         /\ \A i \in 1..Len(stack) : stack[i].k \in Loopers \cup Joins => stack[i].back \in placed
         /\ Owes(Popped, Len(code), placed, Owed(Top)) /\ FrameOK(Top, Len(code))
         /\ Top.k \in Hungry => value = Len(src) /\ Len(src) >= 1
         /\ Struct(stack, K, src) /\ src \in Seq(Kinds)
  <1>0. stack # <<>> BY DEF Walking
  <1>1. /\ Graph(code, placed, insert) /\ code \in Codes /\ placed \subseteq 1..Len(code) /\ insert \in 1..Len(code)
        /\ Owes(stack, Len(code), placed, {}) /\ Len(code) \in Nat
    BY BuilderFacts DEF Builder, Building
  <1>2. stack \in Stacks /\ Popped \in Stacks /\ Top \in Frames /\ Len(stack) \in 1..Len(stack)
    BY StackTop, PopFacts
  <1>3. /\ Len(stack) \in Nat /\ Len(Popped) = Len(stack) - 1 /\ \A i \in 1..Len(stack) - 1 : Popped[i] = stack[i]
    BY <1>0, <1>2, StackFacts DEF Popped
  <1>4. /\ Len(stack) = Len(Popped) + 1 /\ Top = stack[Len(Popped) + 1]
        /\ \A i \in 1..Len(Popped) : i \in 1..Len(stack) /\ Popped[i] = stack[i]
        /\ Len(Popped) \in Nat /\ Len(Popped) # Len(Popped) + 1
    BY <1>2, <1>3 DEF Top
  <1>5. Faith(stack, K, L, code, placed, insert, src) /\ Ready(stack, src, value) BY DEF Faithful
  <1>6. ASSUME Top.k \in Quiet PROVE Faith(Popped, K, L, code, placed, insert, src)
    <2>1. Shared(stack, Popped, K, K, Len(Popped)) BY <1>0, <1>2, <1>3, SharedStacks DEF Popped
    <2>2. Alike(stack, Popped, K, Len(Popped)) BY <2>1, <1>4, <1>6 DEF Alike
    <2> QED BY <2>2, <1>1, <1>5, FaithQuiet
  <1>7. Top.k # "expr" => ~(src # <<>> /\ src[Len(src)] = "while") BY <1>5, NotWhile
  <1>8. Top.k \notin ExprKinds => Fed(Popped) BY PopFacts
  <1>9. Fed(Popped) => \A i \in 1..Len(Popped) : Popped[i].k \notin Joins BY DEF Fed, Hungry, Eaters, Joins
  <1>10. \A i \in 1..Len(stack) : stack[i].k \in Loopers \cup Joins => stack[i].back \in placed
    BY DEF Emitting, Good, Fine, Sound, Held, LoopHead
  <1>11. Owes(Popped, Len(code), placed, Owed(Top)) BY <1>0, <1>1, OwesPop DEF Popped, Top
  <1>12. FrameOK(Top, Len(code)) BY TopFacts
  <1>13. Top.k \in Hungry => value = Len(src) /\ Len(src) >= 1 BY <1>0, <1>5 DEF Ready, Top
  <1>14. Struct(stack, K, src) /\ src \in Seq(Kinds) BY <1>5 DEF Faith, Struct
  <1>15. \A i \in 1..Len(Popped) : i \in 1..Len(stack) /\ Popped[i] = stack[i] BY <1>4
  <1> QED BY <1>1, <1>2, <1>3, <1>4, <1>5, <1>6, <1>7, <1>8, <1>9, <1>10, <1>11, <1>12, <1>13, <1>14, <1>15

FaithNext == \E J, M : Faith(stack', J, M, code', placed', insert', src')

LEMMA Beyond ==
  ASSUME NEW n \in Nat
  PROVE  \A h \in 1..n : h # n + 1
  OBVIOUS

LEMMA OutgrowsSelf ==
  ASSUME NEW c \in Codes
  PROVE  Outgrows(c, c)
  <1>1. Len(c) \in Nat /\ \A b \in 1..Len(c) : Len(c[b]) \in Nat BY CodeFacts
  <1> QED BY <1>1 DEF Outgrows

(* Steps that visit no node.                                               *)
LEMMA FaithWaits ==
  ASSUME Building, Rest, Emitting, NEW K, NEW L, Faithful(K, L),
         \/ NullStmt \/ ExprStmt \/ CompoundEnd \/ ReturnStmt
         \/ Operands \/ OperatorLhs \/ (\E k \in {"and", "or"} : Logical(k))
  PROVE  FaithNext
  <1>1. CASE NullStmt \/ ExprStmt \/ ReturnStmt
    <2>1. /\ AtStmt /\ UNCHANGED <<code, placed, insert, src>>
          /\ \/ stack' = Base \o <<>>
             \/ stack' = Base \o <<Waiting("drop"), Waiting("expr")>>
             \/ stack' = Base \o <<Waiting("return"), Waiting("expr")>>
      BY <1>1 DEF NullStmt, ExprStmt, ReturnStmt, Begin, Base, ir
    <2>2. /\ Faith(Base, K, L, code, placed, insert, src) /\ Base \in Stacks
          /\ code \in Codes /\ placed \subseteq 1..Len(code)
      BY <2>1, AtBase
    <2>3. "drop" \in Quiet /\ "return" \in Quiet /\ "expr" \in Quiet BY QuietKinds
    <2>4. Faith(Base \o <<>>, K, L, code, placed, insert, src) BY <2>2, FaithPush
    <2>5. /\ Faith(Base \o <<Waiting("drop"), Waiting("expr")>>, K, L, code, placed, insert, src)
          /\ Faith(Base \o <<Waiting("return"), Waiting("expr")>>, K, L, code, placed, insert, src)
      BY <2>2, <2>3, FaithPush
    <2>6. Faith(stack', K, L, code, placed, insert, src) BY <2>1, <2>4, <2>5
    <2> QED BY <2>1, <2>6 DEF FaithNext
  <1>2. CASE CompoundEnd \/ Operands \/ OperatorLhs \/ (\E k \in {"and", "or"} : Logical(k))
    <2>1. /\ Walking /\ Top.k \in {"body", "expr", "op"} /\ UNCHANGED <<code, placed, insert, src>>
          /\ \/ stack' = Popped \o <<>>
             \/ \E k \in {"op", "and", "or"} : stack' = Popped \o <<Waiting(k), Waiting("expr")>>
             \/ stack' = Popped \o <<[Waiting("opRhs") EXCEPT !.saved = value], Waiting("expr")>>
      BY <1>2 DEF CompoundEnd, Operands, OperatorLhs, Logical, Replace, At, ir
    <2>2. Top.k \in Quiet BY <2>1, QuietKinds
    <2>3. /\ Faith(Popped, K, L, code, placed, insert, src) /\ Popped \in Stacks
          /\ code \in Codes /\ placed \subseteq 1..Len(code)
      BY <2>1, <2>2, AtTop
    <2>4. value \in Nat BY DEF Rest
    <2>5. Faith(stack', K, L, code, placed, insert, src)
      <3>1. CASE stack' = Popped \o <<>> BY <3>1, <2>3, FaithPush
      <3>2. CASE \E k \in {"op", "and", "or"} : stack' = Popped \o <<Waiting(k), Waiting("expr")>>
        <4>1. PICK k \in {"op", "and", "or"} : stack' = Popped \o <<Waiting(k), Waiting("expr")>> BY <3>2
        <4>2. k \in Quiet /\ "expr" \in Quiet BY QuietKinds
        <4>3. Faith(Popped \o <<Waiting(k), Waiting("expr")>>, K, L, code, placed, insert, src)
          BY <4>2, <2>3, FaithPush
        <4> QED BY <4>1, <4>3
      <3>3. CASE stack' = Popped \o <<[Waiting("opRhs") EXCEPT !.saved = value], Waiting("expr")>>
        <4>1. "opRhs" \in Quiet /\ "expr" \in Quiet BY QuietKinds
        <4>2. Faith(Popped \o <<[Waiting("opRhs") EXCEPT !.saved = value], Waiting("expr")>>,
                    K, L, code, placed, insert, src)
          BY <4>1, <2>3, <2>4, FaithPush
        <4> QED BY <3>3, <4>2
      <3> QED BY <2>1, <3>1, <3>2, <3>3
    <2> QED BY <2>1, <2>5 DEF FaithNext
  <1> QED BY <1>1, <1>2

(* Steps that visit a node for which nothing is emitted.                   *)
LEMMA FaithSeen ==
  ASSUME NEW st, st \in Stacks, NEW K, NEW L, Faith(st, K, L, code, placed, insert, src),
         Graph(code, placed, insert), ~(src # <<>> /\ src[Len(src)] = "while"),
         \A i \in 1..Len(st) : st[i].k \notin Joins,
         \A i \in 1..Len(st) : st[i].k \in Loopers \cup Joins => st[i].back \in placed,
         NEW k \in {"decl", "drop", "{"}
  PROVE  Faith(st, K, L, code, placed, insert, Append(src, k))
  <1>1. k \in Plain /\ k \in Passed /\ k \in Kinds BY DEF Plain, Passed, Kinds
  <1>2. Struct(st, K, src) BY DEF Faith
  <1>3. Suits(st, st, K, K, src, k, Len(st)) BY <1>1, <1>2, SuitsVisit
  <1>4. Shared(st, st, K, K, Len(st)) BY SharedStacks
  <1>5. Outgrows(code, code)
    <2>1. code \in Codes BY DEF Graph
    <2> QED BY <2>1, OutgrowsSelf
  <1>6. \A h \in 1..Len(st) : h # Len(st) + 1
    <2>1. Len(st) \in Nat BY StackFacts
    <2> QED BY <2>1, Beyond
  <1> QED BY <1>1, <1>3, <1>4, <1>5, <1>6, FaithPassed

LEMMA FaithQuietVisits ==
  ASSUME Building, Rest, Emitting, NEW K, NEW L, Faithful(K, L),
         Drop \/ CompoundStmt \/ \E hasInit \in BOOLEAN : DeclStmt(hasInit)
  PROVE  FaithNext
  <1>1. CASE Drop
    <2>1. /\ Walking /\ Top.k = "drop" /\ src' = Append(src, "drop") /\ stack' = Popped \o <<>>
          /\ UNCHANGED <<code, placed, insert>>
      BY <1>1 DEF Drop, At, Visit, Replace, ir
    <2>2. Top.k \in Quiet /\ Top.k # "expr" /\ Top.k \notin ExprKinds BY <2>1, QuietKinds DEF ExprKinds
    <2>3. /\ Faith(Popped, K, L, code, placed, insert, src) /\ Popped \in Stacks /\ Graph(code, placed, insert)
          /\ code \in Codes /\ placed \subseteq 1..Len(code)
          /\ ~(src # <<>> /\ src[Len(src)] = "while")
          /\ \A i \in 1..Len(Popped) : Popped[i].k \notin Joins
          /\ \A i \in 1..Len(Popped) : i \in 1..Len(stack) /\ Popped[i] = stack[i]
          /\ \A i \in 1..Len(stack) : stack[i].k \in Loopers \cup Joins => stack[i].back \in placed
      BY <2>1, <2>2, AtTop
    <2>4. \A i \in 1..Len(Popped) : Popped[i].k \in Loopers \cup Joins => Popped[i].back \in placed
      BY <2>3
    <2>5. "drop" \in {"decl", "drop", "{"} OBVIOUS
    <2>6. Faith(Popped, K, L, code, placed, insert, Append(src, "drop")) BY <2>3, <2>4, <2>5, FaithSeen
    <2>7. Faith(stack', K, L, code, placed, insert, src') BY <2>1, <2>3, <2>6, FaithPush
    <2> QED BY <2>1, <2>7 DEF FaithNext
  <1>2. CASE CompoundStmt \/ \E hasInit \in BOOLEAN : DeclStmt(hasInit)
    <2>1. PICK k \in {"{", "decl"} :
            /\ AtStmt /\ src' = Append(src, k) /\ UNCHANGED <<code, placed, insert>>
            /\ \/ stack' = Base \o <<>>
               \/ stack' = Base \o <<Waiting("body")>>
               \/ stack' = Base \o <<[Waiting("init") EXCEPT !.saved = Node], Waiting("expr")>>
      BY <1>2 DEF CompoundStmt, DeclStmt, Begin, Base, Visit, ir
    <2>2. /\ Faith(Base, K, L, code, placed, insert, src) /\ Base \in Stacks /\ Graph(code, placed, insert)
          /\ code \in Codes /\ placed \subseteq 1..Len(code)
          /\ ~(src # <<>> /\ src[Len(src)] = "while")
          /\ \A i \in 1..Len(Base) : Base[i].k \notin Joins
          /\ \A i \in 1..Len(Base) : Base[i].k \in Loopers \cup Joins => Base[i].back \in placed
      BY <2>1, AtBase
    <2>3. k \in {"decl", "drop", "{"} OBVIOUS
    <2>4. Faith(Base, K, L, code, placed, insert, Append(src, k)) BY <2>2, <2>3, FaithSeen
    <2>5. Node \in Nat BY NodeFacts
    <2>6. "body" \in Quiet /\ "init" \in Quiet /\ "expr" \in Quiet BY QuietKinds
    <2>7. /\ Faith(Base \o <<>>, K, L, code, placed, insert, Append(src, k))
          /\ Faith(Base \o <<Waiting("body")>>, K, L, code, placed, insert, Append(src, k))
          /\ Faith(Base \o <<[Waiting("init") EXCEPT !.saved = Node], Waiting("expr")>>,
                   K, L, code, placed, insert, Append(src, k))
      BY <2>2, <2>4, <2>5, <2>6, FaithPush
    <2>8. Faith(stack', K, L, code, placed, insert, src') BY <2>1, <2>7
    <2> QED BY <2>1, <2>8 DEF FaithNext
  <1> QED BY <1>1, <1>2

LEMMA FaithIf ==
  ASSUME Building, Rest, Emitting, NEW K, NEW L, Faithful(K, L), NEW hasElse \in BOOLEAN, IfStmt(hasElse)
  PROVE  FaithNext
  <1> DEFINE n == Len(code)
             f == IF hasElse THEN Frame("ifCond", n + 1, n + 2, n + 3, 0)
                             ELSE Frame("ifCond", n + 1, 0, n + 2, 0)
             J == [i \in Nat |-> IF i = Len(Base) + 1 THEN Len(src) + 1 ELSE K[i]]
             tt == Append(Base, f)
  <1>1. PICK m \in Nat : /\ AtStmt /\ src' = Append(src, "if") /\ code' = Blocks(code, m)
                         /\ stack' = Base \o <<f, Waiting("expr")>> /\ UNCHANGED <<placed, insert>>
    <2>1. 3 \in Nat /\ 2 \in Nat OBVIOUS
    <2> QED BY <2>1 DEF IfStmt, Begin, NBlocks, Base, Visit
  <1>2. /\ Faith(Base, K, L, code, placed, insert, src) /\ Base \in Stacks /\ Graph(code, placed, insert)
        /\ code \in Codes /\ placed \subseteq 1..n /\ insert \in 1..n /\ n \in Nat /\ Len(Base) \in Nat
        /\ ~(src # <<>> /\ src[Len(src)] = "while")
        /\ \A i \in 1..Len(Base) : Base[i].k \notin Joins
        /\ \A i \in 1..Len(Base) : Base[i].k \in Loopers \cup Joins => Base[i].back \in placed
        /\ Struct(Base, K, src) /\ src \in Seq(Kinds)
    BY <1>1, AtBase
  <1>3. f \in Frames /\ f.k = "ifCond"
    BY <1>2 DEF Frame, Frames, FrameKinds
  <1> HIDE DEF f, n
  <1>4. f.k \in Holders("if") /\ "if" \in Opens("if") /\ "if" \in Classes /\ "if" \in Kinds /\ "if" \in Passed
        /\ f.k \notin Loopers /\ f.k \notin Joins /\ f.k # "andRhs" /\ f.k # "orRhs"
    BY <1>3, ClassFacts DEF Classes, Kinds, Passed, Loopers, Joins
  <1>5. /\ \A i \in 1..Len(Base) : J[i] = K[i]
        /\ J[Len(Base) + 1] = Len(src) + 1
    <2>1. \A i \in 1..Len(Base) : i \in Nat /\ i # Len(Base) + 1 BY <1>2
    <2>2. Len(Base) + 1 \in Nat BY <1>2
    <2> QED BY <2>1, <2>2
  <1> HIDE DEF J
  <1>6. Suits(Base, tt, K, J, src, "if", Len(Base)) BY <1>2, <1>3, <1>4, <1>5, SuitsOpen
  <1>7. Shared(Base, tt, K, J, Len(Base)) BY <1>2, <1>3, <1>5, SharedStacks
  <1>8. tt[Len(Base) + 1] = f BY <1>2, <1>3, StackFacts
  <1> HIDE DEF tt
  <1>9. Outgrows(code, Blocks(code, m)) /\ \A b \in 1..Len(code) : Blocks(code, m)[b] = code[b]
    <2>1. Ret({}, 0) \in Instrs BY RetFacts, 0 \in Nat
    <2> QED BY <2>1, <1>2, WritesFacts DEF n
  <1>10. Faith(tt, J, L, Blocks(code, m), placed, insert, Append(src, "if"))
    BY <1>2, <1>4, <1>6, <1>7, <1>8, <1>9, FaithPassed
  <1>11. Blocks(code, m) \in Codes /\ placed \subseteq 1..Len(Blocks(code, m))
    <2>1. Blocks(code, m) \in Codes /\ Len(Blocks(code, m)) = n + m BY <1>2, BlocksFacts DEF n
    <2>2. 1..n \subseteq 1..n + m BY <1>2
    <2> QED BY <2>1, <2>2, <1>2
  <1>12. Faith(Base \o <<f, Waiting("expr")>>, J, L, Blocks(code, m), placed, insert, Append(src, "if"))
    BY <1>2, <1>3, <1>10, <1>11, QuietKinds, FaithPush DEF tt
  <1>13. Faith(stack', J, L, code', placed', insert', src') BY <1>1, <1>12
  <1> QED BY <1>13 DEF FaithNext

(* The block a while statement has just started holds nothing yet.         *)
LEMMA WhileEmpty ==
  ASSUME NEW st, NEW K, NEW L, NEW c, NEW pl, NEW ins, NEW s, Faith(st, K, L, c, pl, ins, s),
         s # <<>>, s[Len(s)] = "while"
  PROVE  c[ins] = <<>>
  <1>1. s \in Seq(Kinds) /\ Opened(st, K, s) /\ Marks(st, K, L, c, ins, s) BY DEF Faith, Struct
  <1>2. Len(s) \in Nat /\ Len(s) \in 1..Len(s) BY <1>1, EmptySeq
  <1>3. s[Len(s)] \in Opens("while") BY ClassFacts
  <1>4. \A e \in Len(s) + 1..Len(s) : FALSE BY <1>2
  <1>5. PICK i \in 1..Len(st) : st[i].k \in Holders("while") /\ K[i] = Len(s)
    BY <1>1, <1>2, <1>3, <1>4 DEF Opened
  <1>6. st[i].k \in Loopers BY <1>5, ClassFacts DEF Loopers
  <1>7. Marked(st[i], K[i], L, c, ins, s) BY <1>1 DEF Marks
  <1> QED BY <1>2, <1>5, <1>6, <1>7 DEF Marked

(* A value is computed or stored.                                          *)
LEMMA FaithEmits ==
  ASSUME Building, Emitting, Walking, NEW K, NEW L, Faithful(K, L), Top.k \in Quiet, stack' = Popped \o <<>>,
         NEW k \in {"leaf", "op", "store"}, src' = Append(src, k), Top.k = "expr" => k = "leaf",
         k = "store" => Top.k \notin ExprKinds,
         NEW i \in Instrs, code' = Add(code, insert, i), UNCHANGED <<placed, insert>>, i.node = Len(src) + 1,
         k = "store" => i.op = "store",
         k \in {"leaf", "op"} => i.op = "eval" /\ i.def = Len(src) + 1
  PROVE  FaithNext
  <1> DEFINE d == Add(code, insert, i)
             t == Append(src, k)
             p == Len(Popped)
  <1>1. /\ Faith(Popped, K, L, code, placed, insert, src) /\ Popped \in Stacks /\ Graph(code, placed, insert)
        /\ code \in Codes /\ placed \subseteq 1..Len(code) /\ insert \in 1..Len(code)
        /\ Top.k # "expr" => ~(src # <<>> /\ src[Len(src)] = "while")
        /\ Top.k \notin ExprKinds => \A h \in 1..Len(Popped) : Popped[h].k \notin Joins
        /\ \A h \in 1..Len(Popped) : h \in 1..Len(stack) /\ Popped[h] = stack[h]
        /\ \A h \in 1..Len(stack) : stack[h].k \in Loopers \cup Joins => stack[h].back \in placed
    BY AtTop
  <1>2. k \in Plain /\ k \in Kinds BY DEF Plain, Kinds
  <1>3. Struct(Popped, K, src) /\ Labels(L, placed, src) BY <1>1 DEF Faith
  <1>4. Suits(Popped, Popped, K, K, src, k, p)
    <2>1. \A h \in 1..Len(Popped) : Popped[h].k \in Joins => k \in Exprs BY <1>1 DEF Exprs
    <2>2. src # <<>> /\ src[Len(src)] = "while" => k = "leaf" BY <1>1
    <2> QED BY <1>1, <1>2, <1>3, <2>1, <2>2, SuitsVisit
  <1>5. Shared(Popped, Popped, K, K, p) BY <1>1, SharedStacks
  <1>6. Writes(code, d, insert, i) /\ d \in Codes /\ Len(d) = Len(code)
    <2>1. 0 \in Nat OBVIOUS
    <2>2. Writes(code, d, insert, i) /\ Len(d) = Len(code) BY <1>1, <2>1, WritesFacts
    <2> HIDE DEF d
    <2> QED BY <2>2 DEF Writes
  <1>7. p \in Nat /\ \A h \in 1..p : h # p + 1 BY <1>1, StackFacts, Beyond
  <1>8. p # p + 1 BY <1>7
  <1>9. src # <<>> /\ src[Len(src)] = "while" => d[insert] # <<>> /\ d[insert][1].op = "eval"
    <2> SUFFICES ASSUME src # <<>> /\ src[Len(src)] = "while" PROVE d[insert] # <<>> /\ d[insert][1].op = "eval"
      OBVIOUS
    <2>1. code[insert] = <<>> BY <1>1, WhileEmpty
    <2>2. Len(code[insert]) = 0 BY <2>1
    <2>3. Len(d[insert]) = 1 /\ d[insert][1] = i BY <2>2, <1>6 DEF Writes
    <2>4. k = "leaf" BY <1>1
    <2>5. insert \in 1..Len(d) BY <1>1, <1>6
    <2>6. d[insert] # <<>> BY <2>3
    <2> QED BY <2>3, <2>4, <2>6
  <1>10. Meant(Popped, K, L, d, placed, t, insert, Len(code[insert]) + 1)
    <2>1. /\ i.op \in {"eval", "store", "ret", "condbr"} /\ i.op # "ret" /\ i.op # "condbr"
          /\ i.op = "eval" => k \in {"leaf", "op"} /\ i.def = Len(src) + 1
          /\ i.op = "store" => k \in {"param", "store"}
      OBVIOUS
    <2> QED BY <1>1, <1>2, <1>6, <2>1, MeantPlain
  <1>11. placed \cup {insert} = placed BY <1>1 DEF Graph
  <1>12. k \notin {"else", "break", "continue", "endwhile"} OBVIOUS
  <1>13. \A h \in 1..p : Popped[h].k \in Loopers \cup Joins => Popped[h].back \in placed BY <1>1
  <1> HIDE DEF d
  <1>14. Faith(Popped, K, L, d, placed \cup {insert}, insert, t)
    BY <1>1, <1>2, <1>4, <1>5, <1>6, <1>7, <1>8, <1>9, <1>10, <1>11, <1>12, <1>13, FaithWrite
  <1>15. placed \subseteq 1..Len(d) BY <1>1, <1>6
  <1>16. Faith(Popped, K, L, d, placed, insert, t) BY <1>11, <1>14
  <1>17. Faith(Popped \o <<>>, K, L, d, placed, insert, t) BY <1>1, <1>6, <1>15, <1>16, FaithPush
  <1>18. Faith(stack', K, L, code', placed', insert', src') BY <1>17 DEF d
  <1> QED BY <1>18 DEF FaithNext

LEMMA FaithValues ==
  ASSUME Building, Rest, Emitting, NEW K, NEW L, Faithful(K, L),
         LocalInit \/ Operator \/ \E slot \in Visible \cup {0} : Leaf(slot),
         Visible \subseteq slots
  PROVE  FaithNext
  <1>1. Node \in Nat /\ value \in Nat /\ Node = Len(src) + 1 BY NodeFacts DEF Rest, Node
  <1>2. CASE LocalInit
    <2> DEFINE i == Store(value, Top.saved, Node)
    <2>1. /\ Walking /\ Top.k = "init" /\ src' = Append(src, "store") /\ stack' = Popped \o <<>>
          /\ code' = Add(code, insert, i) /\ UNCHANGED <<placed, insert>>
      BY <1>2 DEF LocalInit, At, Visit, Replace
    <2>2. Top.k \in Quiet /\ Top.k \notin ExprKinds /\ Top.k # "expr" BY <2>1, QuietKinds DEF ExprKinds
    <2>3. Top.saved \in Nat BY <2>1, TopFacts DEF Frames
    <2>4. i \in Instrs /\ i.node = Node /\ i.op = "store" BY <1>1, <2>3, StoreFacts DEF Store, Instr
    <2> HIDE DEF i
    <2>5. "store" \in {"leaf", "op", "store"} OBVIOUS
    <2> QED BY <1>1, <2>1, <2>2, <2>4, <2>5, FaithEmits
  <1>3. CASE Operator
    <2> DEFINE i == Eval(Node, {Top.saved, value})
    <2>1. /\ Walking /\ Top.k = "opRhs" /\ src' = Append(src, "op") /\ stack' = Popped \o <<>>
          /\ code' = Add(code, insert, i) /\ UNCHANGED <<placed, insert>>
      BY <1>3 DEF Operator, At, Visit, Replace
    <2>2. Top.k \in Quiet /\ Top.k # "expr" BY <2>1, QuietKinds
    <2>3. Top.saved \in Nat BY <2>1, TopFacts DEF Frames
    <2>4. i \in Instrs /\ i.node = Node /\ i.op = "eval" /\ i.def = Node
      BY <1>1, <2>3, EvalFacts DEF Eval, Instr
    <2> HIDE DEF i
    <2>5. "op" \in {"leaf", "op", "store"} OBVIOUS
    <2> QED BY <1>1, <2>1, <2>2, <2>4, <2>5, FaithEmits
  <1>4. CASE \E slot \in Visible \cup {0} : Leaf(slot)
    <2>1. PICK slot \in Visible \cup {0} : Leaf(slot) BY <1>4
    <2> DEFINE i == Eval(Node, {slot} \ {0})
    <2>2. /\ Walking /\ Top.k = "expr" /\ src' = Append(src, "leaf") /\ stack' = Popped \o <<>>
          /\ code' = Add(code, insert, i) /\ UNCHANGED <<placed, insert>>
      BY <2>1 DEF Leaf, At, Visit, Replace
    <2>3. Top.k \in Quiet BY <2>2, QuietKinds
    <2>4. slot \in Nat
      <3>1. Len(src) \in Nat BY NodeFacts
      <3>2. slots \subseteq Nat BY <3>1 DEF Rest
      <3> QED BY <3>2
    <2>5. i \in Instrs /\ i.node = Node /\ i.op = "eval" /\ i.def = Node
      BY <1>1, <2>4, EvalFacts DEF Eval, Instr
    <2> HIDE DEF i
    <2>6. "leaf" \in {"leaf", "op", "store"} OBVIOUS
    <2> QED BY <1>1, <2>2, <2>3, <2>5, <2>6, FaithEmits
  <1> QED BY <1>2, <1>3, <1>4

LEMMA DirectFrom ==
  ASSUME NEW t, NEW w, NEW n, NEW z, z = n - 1, w \in 1..z, t[w] = "while", w + 1 <= Len(t), t[w + 1] = "leaf",
         \A j \in w + 1..z :
           /\ ~(t[j] = "endwhile" /\ Nest(t, "while", j) = Nest(t, "while", w))
           /\ t[j] = "while" => \E e \in j + 1..z : Shut(t, "while", j, e)
  PROVE  Direct(t, w, n)
  BY DEF Direct

(* A node in the body, or at the end, of the innermost while.              *)
LEMMA DirectNow ==
  ASSUME NEW st \in Stacks, NEW K, NEW s, Struct(st, K, s), NEW i \in 1..Len(st), st[i].k \in Loopers,
         \A j \in i + 1..Len(st) : st[j].k \notin Loopers,
         ~(s # <<>> /\ s[Len(s)] = "while"), NEW k \in Kinds
  PROVE  /\ Direct(Append(s, k), K[i], Len(s) + 1) /\ K[i] \in 1..Len(s) /\ K[i] < Len(s)
         /\ Rank(st, "while", i) = Rank(st, "while", Len(st))
  <1> DEFINE t == Append(s, k)
             n == Len(s)
             w == K[i]
  <1>1. s \in Seq(Kinds) /\ Opened(st, K, s) BY DEF Struct
  <1>2. n \in Nat /\ Len(t) = n + 1 /\ (\A j \in 1..n : t[j] = s[j]) /\ Follows(s, t) /\ t[n + 1] = k
    BY <1>1, FollowsAppend DEF Follows
  <1>3. Holders("while") = Loopers /\ Opens("while") = {"while"} BY DEF Holders, Opens
  <1>4. Pending(s, "while", w, Rank(st, "while", i)) /\ Stands(st[i], w, s) BY <1>1, <1>3 DEF Opened
  <1>5. w \in 1..n /\ s[w] = "while" /\ (w < n => s[w + 1] = "leaf") BY <1>4 DEF Pending, Stands
  <1>6. n # 0 => s # <<>> BY <1>1, EmptySeq
  <1>7. w < n /\ s[w + 1] = "leaf" BY <1>2, <1>5, <1>6
  <1>8. ASSUME NEW j \in w + 1..n
        PROVE  /\ ~(t[j] = "endwhile" /\ Nest(t, "while", j) = Nest(t, "while", w))
               /\ t[j] = "while" => \E e \in j + 1..n : Shut(t, "while", j, e)
    <2>1. j \in 1..n BY <1>2, <1>5
    <2>2. /\ t[j] = s[j] /\ Nest(t, "while", j) = Nest(s, "while", j)
          /\ Nest(t, "while", w) = Nest(s, "while", w)
      BY <1>2, <1>5, <2>1, NestSame
    <2>3. s[j] = "endwhile" => Nest(s, "while", j) # Nest(s, "while", w)
      <3>1. "endwhile" \in Ends("while") BY DEF Ends, Closes
      <3>2. Nest(s, "while", w) = Rank(st, "while", i) BY <1>4 DEF Pending
      <3>3. s[j] = "endwhile" => Nest(s, "while", j) > Rank(st, "while", i) BY <1>4, <3>1 DEF Pending
      <3>4. Rank(st, "while", i) \in Nat
        <4>1. i \in Nat BY StackFacts
        <4> QED BY <4>1, RankFacts
      <3> QED BY <3>2, <3>3, <3>4
    <2>4. ASSUME s[j] = "while" PROVE \E e \in j + 1..n : Shut(t, "while", j, e)
      <3>1. \/ \E e \in j + 1..n : Shut(s, "while", j, e)
            \/ \E h \in 1..Len(st) : st[h].k \in Loopers /\ K[h] = j
        BY <1>1, <1>3, <2>1, <2>4 DEF Opened
      <3>2. ASSUME NEW h \in 1..Len(st), st[h].k \in Loopers, K[h] = j PROVE FALSE
        <4>1. h <= i
          <5>1. ~(h \in i + 1..Len(st)) BY <3>2
          <5>2. Len(st) \in Nat BY StackFacts
          <5> QED BY <5>1, <5>2
        <4>2. h < i => K[h] < K[i] BY <1>1, <1>3, <3>2 DEF Opened
        <4>3. K[h] > K[i] BY <3>2, <1>5, <1>2
        <4>4. Len(st) \in Nat /\ K[h] \in Int /\ K[i] \in Int BY <3>2, <1>2, <1>5, StackFacts
        <4> QED BY <4>1, <4>2, <4>3, <4>4
      <3>3. PICK e \in j + 1..n : Shut(s, "while", j, e) BY <3>1, <3>2
      <3>4. Shut(t, "while", j, e) BY <1>2, <2>1, <3>3, MetKept DEF Shut
      <3> QED BY <3>4
    <2> QED BY <2>2, <2>3, <2>4
  <1>9. t[w] = "while" /\ t[w + 1] = "leaf" /\ w + 1 <= Len(t) /\ w \in 1..n + 1 - 1 /\ n + 1 - 1 = n
    <2>1. w + 1 \in 1..n BY <1>2, <1>5, <1>7
    <2> QED BY <1>2, <1>5, <1>7, <2>1
  <1>10. Direct(t, w, n + 1)
    <2> HIDE DEF w, t, n
    <2>1. n = (n + 1) - 1 BY <1>2
    <2>2. w \in 1..n BY <1>9
    <2>3. \A j \in w + 1..n :
           /\ ~(t[j] = "endwhile" /\ Nest(t, "while", j) = Nest(t, "while", w))
           /\ t[j] = "while" => \E e \in j + 1..n : Shut(t, "while", j, e)
      BY <1>8
    <2>4. t[w] = "while" /\ w + 1 <= Len(t) /\ t[w + 1] = "leaf" BY <1>9
    <2> HIDE DEF n, t, w
    <2> QED BY <2>1, <2>2, <2>3, <2>4, DirectFrom, ZenonT(60)
  <1>11. Rank(st, "while", i) = Rank(st, "while", Len(st))
    <2>1. Len(st) \in Nat /\ i \in Nat /\ i <= Len(st) BY StackFacts
    <2>2. \A j \in i + 1..Len(st) : KindsOf(st)[j] \notin Holders("while")
      <3>1. \A j \in i + 1..Len(st) : j \in 1..Len(st) BY <2>1
      <3> QED BY <1>3, <3>1 DEF KindsOf
    <2>3. {j \in 1..i : KindsOf(st)[j] \in Holders("while")} = {j \in 1..Len(st) : KindsOf(st)[j] \in Holders("while")}
      <3>1. \A j \in 1..Len(st) : j \in 1..i \/ j \in i + 1..Len(st) BY <2>1
      <3>2. 1..i \subseteq 1..Len(st) BY <2>1
      <3> QED BY <2>2, <3>1, <3>2
    <2> QED BY <2>3 DEF Rank, Tally
  <1> QED BY <1>5, <1>7, <1>10, <1>11

(* The block a loop goes back to begins with the while's first leaf.       *)
LEMMA LoopBack ==
  ASSUME NEW st \in Stacks, NEW K, NEW L, NEW c, NEW pl, NEW ins, NEW s, Faith(st, K, L, c, pl, ins, s),
         NEW i \in 1..Len(st), st[i].k \in Loopers,
         \A j \in i + 1..Len(st) : st[j].k \notin Loopers,
         ~(s # <<>> /\ s[Len(s)] = "while"), NEW k \in Kinds
  PROVE  /\ Direct(Append(s, k), K[i], Len(s) + 1) /\ K[i] \in 1..Len(s)
         /\ L[st[i].back] = K[i] + 1 /\ c[st[i].back] # <<>> /\ c[st[i].back][1].op = "eval"
  <1>1. Struct(st, K, s) /\ Marks(st, K, L, c, ins, s) /\ s \in Seq(Kinds) BY DEF Faith, Struct
  <1>2. Direct(Append(s, k), K[i], Len(s) + 1) /\ K[i] \in 1..Len(s) /\ K[i] < Len(s) BY <1>1, DirectNow
  <1>3. Marked(st[i], K[i], L, c, ins, s) BY <1>1 DEF Marks
  <1> QED BY <1>2, <1>3 DEF Marked

LEMMA GoesBack ==
  ASSUME NEW t, NEW w \in Nat, NEW m \in 1..Len(t), Direct(t, w, m), t[m] \in {"continue", "endwhile"},
         NEW d, NEW ql, NEW y \in ql, NEW M, M[y] = w + 1, d[y] # <<>>, d[y][1].op = "eval"
  PROVE  \A tt, J, f : Goes(tt, J, M, d, ql, t, f, m, y)
  <1>1. M[y] - 1 = w OBVIOUS
  <1> QED BY <1>1 DEF Goes

(* Block x begins at node n.                                               *)
Begins(L, x, n) == [b \in Nat |-> IF b = x THEN n ELSE L[b]]

LEMMA BeginsFacts ==
  ASSUME NEW L, NEW x \in Nat, NEW n
  PROVE  /\ Begins(L, x, n)[x] = n
         /\ \A b \in Nat : b # x => Begins(L, x, n)[b] = L[b]
  BY DEF Begins

(* One that ends its block and goes on in block x.                         *)
LEMMA FaithMoves ==
  ASSUME NEW st, NEW tt, NEW K, NEW J, NEW L, NEW c, NEW d, NEW pl, NEW s, NEW k \in Kinds, NEW p,
         NEW ins, NEW x \in Nat, NEW i, Faith(st, K, L, c, pl, ins, s), Shared(st, tt, K, J, p),
         Suits(st, tt, K, J, s, k, p), Graph(c, pl, ins), Writes(c, d, ins, i),
         x \in (2..Len(d)) \ pl, d[x] = <<>>, \A h \in 1..p : x \notin Owed(st[h]),
         \A m \in 1..Len(s) : \A y :
           Len(st) = p + 1 /\ Owner(st, K, s, m, p + 1, y) =>
             /\ y \in pl \cup {x} /\ Dest(Append(s, k), m, Begins(L, x, Len(s) + 2)[y])
             /\ s[m] \notin {"and", "or"},
         Meant(tt, J, Begins(L, x, Len(s) + 2), d, pl \cup {x}, Append(s, k), ins, Len(c[ins]) + 1),
         k \in {"else", "break"} =>
           \E h \in 1..Len(tt) : \E y \in {tt[h].alt, tt[h].end} : Owner(tt, J, Append(s, k), Len(s) + 1, h, y),
         k \in {"continue", "endwhile"} => \E w \in 1..Len(s) : Direct(Append(s, k), w, Len(s) + 1),
         s # <<>> /\ s[Len(s)] = "while" => d[ins] # <<>> /\ d[ins][1].op = "eval",
         \A h \in 1..p : st[h].k \in Loopers \cup Joins => st[h].back \in pl,
         \A h \in 1..Len(tt) : h = p + 1 => Marked(tt[h], J[h], Begins(L, x, Len(s) + 2), d, x, Append(s, k))
  PROVE  Faith(tt, J, Begins(L, x, Len(s) + 2), d, pl \cup {x}, x, Append(s, k))
  <1> DEFINE M == Begins(L, x, Len(s) + 2)
  <1>1. M[x] = Len(s) + 2 /\ \A b \in pl : M[b] = L[b]
    <2>1. pl \subseteq Nat BY DEF Graph
    <2>2. \A b \in pl : b \in Nat /\ b # x BY <2>1
    <2> QED BY <2>2, BeginsFacts
  <1> HIDE DEF M
  <1>2. Faith(tt, J, M, d, pl \cup {x}, x, Append(s, k))
    <2>1. \A m \in 1..Len(s) : \A y :
           Len(st) = p + 1 /\ Owner(st, K, s, m, p + 1, y) =>
             y \in pl \cup {x} /\ Dest(Append(s, k), m, M[y]) /\ s[m] \notin {"and", "or"}
      BY DEF M
    <2>2. Meant(tt, J, M, d, pl \cup {x}, Append(s, k), ins, Len(c[ins]) + 1) BY DEF M
    <2>3. \A h \in 1..Len(tt) : h = p + 1 => Marked(tt[h], J[h], M, d, x, Append(s, k)) BY DEF M
    <2> QED BY <1>1, <2>1, <2>2, <2>3, FaithWrite
  <1> QED BY <1>2 DEF M

LEMMA DeadFacts ==
  ASSUME NEW st \in Stacks, NEW c, NEW pl, NEW ins, Graph(c, pl, ins), Owes(st, Len(c), pl, {}),
         NEW i \in Instrs, NEW d, d = Add(Blocks(c, 1), ins, i), NEW x, x = Len(c) + 1
  PROVE  /\ Writes(c, d, ins, i) /\ Outgrows(c, d) /\ d \in Codes /\ pl \cup {x} \subseteq 1..Len(d)
         /\ x \in Nat /\ x \in (2..Len(d)) \ pl /\ d[x] = <<>>
         /\ \A h \in 1..Len(st) : x \notin Owed(st[h])
         /\ ins # x /\ ins \in Nat /\ \A b \in pl : b \in Nat /\ b # x
  <1>1. c \in Codes /\ Len(c) \in Nat /\ ins \in 1..Len(c) /\ pl \subseteq 1..Len(c) /\ Open(c[ins])
    BY CodeFacts DEF Graph
  <1>2. Writes(c, d, ins, i) /\ Len(d) = Len(c) + 1 /\ \A b \in Len(c) + 1..Len(c) + 1 : d[b] = <<>>
    <2>1. 1 \in Nat OBVIOUS
    <2> QED BY <1>1, <2>1, WritesFacts
  <1>3. Outgrows(c, d) BY <1>1, <1>2, WritesOutgrows
  <1>4. d \in Codes BY <1>2 DEF Writes
  <1>5. x \in Nat /\ x \in (2..Len(d)) \ pl /\ x \in Len(c) + 1..Len(c) + 1 /\ ins # x /\ ins \in Nat
    BY <1>1, <1>2
  <1>6. \A h \in 1..Len(st) : x \notin Owed(st[h])
    <2>1. \A h \in 1..Len(st) : Owed(st[h]) \subseteq 2..Len(c) BY DEF Owes, FrameOK
    <2>2. x \notin 2..Len(c) BY <1>1
    <2> QED BY <2>1, <2>2
  <1>7. pl \cup {x} \subseteq 1..Len(d)
    <2>1. 1..Len(c) \subseteq 1..Len(d) /\ x \in 1..Len(d) BY <1>1, <1>2
    <2> QED BY <1>1, <2>1
  <1>8. \A b \in pl : b \in Nat /\ b # x BY <1>1
  <1> QED BY <1>2, <1>3, <1>4, <1>5, <1>6, <1>7, <1>8

(* A statement that ends its block.                                        *)
LEMMA FaithDead ==
  ASSUME NEW st \in Stacks, NEW K, NEW L, NEW c, NEW pl, NEW ins, NEW s, Faith(st, K, L, c, pl, ins, s),
         Graph(c, pl, ins), Owes(st, Len(c), pl, {}), ~(s # <<>> /\ s[Len(s)] = "while"),
         \A h \in 1..Len(st) : st[h].k \notin Joins,
         \A h \in 1..Len(st) : st[h].k \in Loopers \cup Joins => st[h].back \in pl,
         NEW k \in {"break", "continue", "return", "retval"}, NEW i \in Instrs,
         NEW d, d = Add(Blocks(c, 1), ins, i), NEW x, x = Len(c) + 1,
         Meant(st, K, Begins(L, x, Len(s) + 2), d, pl \cup {x}, Append(s, k), ins, Len(c[ins]) + 1),
         k = "break" => \E h \in 1..Len(st) : \E y \in {st[h].alt, st[h].end} :
                          Owner(st, K, Append(s, k), Len(s) + 1, h, y),
         k = "continue" => \E w \in 1..Len(s) : Direct(Append(s, k), w, Len(s) + 1)
  PROVE  Faith(st \o <<>>, K, Begins(L, x, Len(s) + 2), d, pl \cup {x}, x, Append(s, k))
  <1> DEFINE M == Begins(L, x, Len(s) + 2)
             p == Len(st)
  <1>1. /\ Writes(c, d, ins, i) /\ d \in Codes /\ pl \cup {x} \subseteq 1..Len(d)
        /\ x \in Nat /\ x \in (2..Len(d)) \ pl /\ d[x] = <<>> /\ \A h \in 1..p : x \notin Owed(st[h])
    BY DeadFacts
  <1>2. k \in Plain /\ k \in Kinds BY DEF Plain, Kinds
  <1>3. Struct(st, K, s) BY DEF Faith
  <1>4. Suits(st, st, K, K, s, k, p) BY <1>2, <1>3, SuitsVisit
  <1>5. Shared(st, st, K, K, p) BY SharedStacks
  <1>6. p \in Nat /\ p # p + 1 /\ \A h \in 1..p : h # p + 1 BY StackFacts, Beyond
  <1>7. k # "else" /\ k # "endwhile" OBVIOUS
  <1> HIDE DEF p
  <1>8. Faith(st, K, Begins(L, x, Len(s) + 2), d, pl \cup {x}, x, Append(s, k))
    <2>1. \A m \in 1..Len(s) : \A y :
           Len(st) = p + 1 /\ Owner(st, K, s, m, p + 1, y) =>
             /\ y \in pl \cup {x} /\ Dest(Append(s, k), m, Begins(L, x, Len(s) + 2)[y])
             /\ s[m] \notin {"and", "or"}
      BY <1>6 DEF p
    <2>2. k \in {"else", "break"} =>
           \E h \in 1..Len(st) : \E y \in {st[h].alt, st[h].end} : Owner(st, K, Append(s, k), Len(s) + 1, h, y)
      BY <1>7
    <2>3. k \in {"continue", "endwhile"} => \E w \in 1..Len(s) : Direct(Append(s, k), w, Len(s) + 1)
      BY <1>7
    <2>4. s # <<>> /\ s[Len(s)] = "while" => d[ins] # <<>> /\ d[ins][1].op = "eval" OBVIOUS
    <2>5. \A h \in 1..p : st[h].k \in Loopers \cup Joins => st[h].back \in pl BY DEF p
    <2>6. \A h \in 1..Len(st) : h = p + 1 => Marked(st[h], K[h], Begins(L, x, Len(s) + 2), d, x, Append(s, k))
      BY <1>6 DEF p
    <2> QED BY <1>1, <1>2, <1>4, <1>5, <2>1, <2>2, <2>3, <2>4, <2>5, <2>6, FaithMoves
  <1> QED BY <1>1, <1>8, FaithPush

(* The loop a statement would break.                                       *)
LEMMA AtLoop ==
  ASSUME Building, Emitting, AtStmt, LoopDepth > 0
  PROVE  \E h \in 1..Len(Base) :
           /\ Base[h].k = "bodyEnd" /\ loops[Len(loops)] = LoopOf(Base[h])
           /\ \A j \in h + 1..Len(Base) : Base[j].k \notin Loopers
  <1>1. PICK h \in 1..Len(stack) : /\ stack[h].k = "bodyEnd" /\ loops[Len(loops)] = LoopOf(stack[h])
                                   /\ \A j \in h + 1..Len(stack) : stack[j].k # "bodyEnd"
    BY InnermostFrame
  <1>2. Walking /\ Top.k \in {"body", "stmt"} /\ stack # <<>> BY DEF AtStmt, StmtFrames, Walking
  <1>3. stack \in Stacks /\ Len(stack) \in Nat BY <1>2, StackTop, StackFacts
  <1>4. Fed(Base) BY BaseFacts
  <1>5. /\ Len(Base) <= Len(stack) /\ Len(Base) \in Nat /\ h \in 1..Len(Base)
        /\ \A j \in 1..Len(Base) : Base[j] = stack[j]
    <2>1. CASE Top.k = "body" BY <2>1, <1>3 DEF Base
    <2>2. CASE Top.k # "body"
      <3>1. Base = SubSeq(stack, 1, Len(stack) - 1) BY <2>2 DEF Base, Popped
      <3>2. Len(Base) = Len(stack) - 1 /\ \A j \in 1..Len(stack) - 1 : Base[j] = stack[j]
        BY <1>2, <1>3, <3>1, StackFacts
      <3>3. h # Len(stack) BY <1>1, <1>2 DEF Top
      <3> QED BY <1>3, <3>2, <3>3
    <2> QED BY <2>1, <2>2
  <1>6. \A j \in h + 1..Len(Base) : Base[j].k \notin Loopers
    <2>1. \A j \in h + 1..Len(Base) : j \in 1..Len(Base) /\ j \in h + 1..Len(stack) BY <1>3, <1>5
    <2>2. \A j \in 1..Len(Base) : Base[j].k # "whileCond" BY <1>4 DEF Fed, Hungry, Eaters
    <2> QED BY <1>1, <1>5, <2>1, <2>2 DEF Loopers
  <1> QED BY <1>1, <1>5, <1>6

LEMMA FaithJumps ==
  ASSUME Building, Rest, Emitting, NEW K, NEW L, Faithful(K, L), BreakStmt \/ ContinueStmt
  PROVE  FaithNext
  <1>1. PICK k, b :
          /\ k \in {"break", "continue"}
          /\ AtStmt /\ LoopDepth > 0 /\ stack' = Base \o <<>> /\ src' = Append(src, k)
          /\ EndAndStartDead(Br(b))
          /\ b = IF k = "break" THEN loops[Len(loops)].breakTo ELSE loops[Len(loops)].continueTo
    BY DEF BreakStmt, ContinueStmt, Begin, Base, Visit
  <1> DEFINE d == Add(Blocks(code, 1), insert, Br(b))
             x == Len(code) + 1
             t == Append(src, k)
             M == Begins(L, x, Len(src) + 2)
             ql == placed \cup {x}
  <1>2. code' = d /\ placed' = ql /\ insert' = x BY <1>1 DEF EndAndStartDead, StartBlock, NBlocks
  <1>3. /\ Faith(Base, K, L, code, placed, insert, src) /\ Graph(code, placed, insert)
        /\ placed \subseteq 1..Len(code) /\ Base \in Stacks /\ Len(Base) \in Nat
        /\ ~(src # <<>> /\ src[Len(src)] = "while")
        /\ \A i \in 1..Len(Base) : Base[i].k \notin Joins
        /\ \A i \in 1..Len(Base) : Base[i].k \in Loopers \cup Joins => Base[i].back \in placed
        /\ Owes(Base, Len(code), placed, {})
        /\ Struct(Base, K, src) /\ src \in Seq(Kinds)
    BY <1>1, AtBase
  <1>4. PICK h \in 1..Len(Base) : /\ Base[h].k = "bodyEnd" /\ loops[Len(loops)] = LoopOf(Base[h])
                                  /\ \A j \in h + 1..Len(Base) : Base[j].k \notin Loopers
    BY <1>1, AtLoop
  <1>5. Base[h].k \in Loopers /\ Base[h].back \in placed BY <1>3, <1>4 DEF Loopers
  <1>6. k \in Kinds /\ k \in Plain BY <1>1 DEF Kinds, Plain
  <1>7. b = IF k = "break" THEN Base[h].end ELSE Base[h].back BY <1>1, <1>4 DEF LoopOf
  <1>8. Br(b) \in Instrs BY <1>1, JumpKept
  <1>9. Br(b).op = "br" /\ Br(b).to[1] = b BY DEF Br, Instr
  <1> HIDE DEF d, x
  <1>10. /\ Writes(code, d, insert, Br(b)) /\ Outgrows(code, d) /\ x \in Nat
         /\ insert # x /\ insert \in Nat /\ \A y \in placed : y \in Nat /\ y # x
    BY <1>3, <1>8, DeadFacts DEF d, x
  <1>11. M[insert] = L[insert] /\ \A y \in placed : M[y] = L[y] BY <1>10, BeginsFacts
  <1> HIDE DEF M
  <1>12. Rank(Base, "while", h) = Rank(Base, "while", Len(Base)) BY <1>3, <1>4, <1>5, <1>6, DirectNow
  <1>13. k = "break" => Owner(Base, K, t, Len(src) + 1, h, b) /\ b \notin ql
    <2> SUFFICES ASSUME k = "break" PROVE Owner(Base, K, t, Len(src) + 1, h, b) /\ b \notin ql OBVIOUS
    <2>1. Suits(Base, Base, K, K, src, k, Len(Base)) BY <1>3, <1>6, SuitsVisit
    <2>2. "while" \in Classes /\ k \notin Closes("while") BY ClassFacts DEF Classes
    <2>3. Levels(Base, src) BY <1>3 DEF Struct
    <2>4. Pending(t, "while", Len(src) + 1, Rank(Base, "while", Len(Base)))
      BY <1>3, <1>6, <2>1, <2>2, <2>3, PendingNew
    <2>5. t[Len(src) + 1] = "break" BY <1>3, <1>6, FollowsAppend
    <2>6. Owner(Base, K, t, Len(src) + 1, h, b) BY <1>4, <1>7, <1>12, <2>4, <2>5 DEF Owner
    <2>7. FrameOK(Base[h], Len(code)) /\ Owed(Base[h]) \cap placed = {} BY <1>3 DEF Owes
    <2>8. b # 0 /\ b = Base[h].end BY <1>4, <1>7, <2>7 DEF FrameOK
    <2>9. b \in Owed(Base[h]) BY <2>8 DEF Owed
    <2>10. \A g \in 1..Len(Base) : x \notin Owed(Base[g]) BY <1>3, <1>8, DeadFacts DEF d, x
    <2> QED BY <2>6, <2>7, <2>9, <2>10
  <1>14. k = "continue" => /\ \A f : Goes(Base, K, M, d, ql, t, f, Len(src) + 1, b)
                           /\ \E w \in 1..Len(src) : Direct(t, w, Len(src) + 1)
    <2> SUFFICES ASSUME k = "continue"
                 PROVE  /\ \A f : Goes(Base, K, M, d, ql, t, f, Len(src) + 1, b)
                        /\ \E w \in 1..Len(src) : Direct(t, w, Len(src) + 1)
      OBVIOUS
    <2>1. b = Base[h].back BY <1>7
    <2>2. /\ Direct(t, K[h], Len(src) + 1) /\ K[h] \in 1..Len(src)
          /\ L[b] = K[h] + 1 /\ code[b] # <<>> /\ code[b][1].op = "eval"
      BY <1>3, <1>4, <1>5, <1>6, <2>1, LoopBack
    <2>3. b \in placed /\ b \in 1..Len(code) /\ M[b] = L[b] BY <1>3, <1>5, <1>11, <2>1
    <2>4. d[b] # <<>> /\ d[b][1].op = "eval" BY <1>10, <2>2, <2>3, OutgrowsFacts
    <2>5. Len(src) + 1 \in 1..Len(t) /\ t[Len(src) + 1] = "continue" /\ K[h] \in Nat
      <3>1. Len(t) = Len(src) + 1 /\ t[Len(src) + 1] = k /\ Len(src) \in Nat BY <1>3, <1>6, FollowsAppend DEF Follows
      <3> QED BY <3>1, <2>2
    <2>6. b \in ql BY <2>3
    <2> HIDE DEF ql, t
    <2>7. \A f : Goes(Base, K, M, d, ql, t, f, Len(src) + 1, b) BY <2>2, <2>3, <2>4, <2>5, <2>6, GoesBack
    <2> QED BY <2>2, <2>7
  <1>15. k = "break" => \A f : Goes(Base, K, M, d, ql, t, f, Len(src) + 1, b)
    <2>1. t[Len(src) + 1] = k /\ Len(src) + 1 \in 1..Len(t)
      <3>1. Len(t) = Len(src) + 1 /\ t[Len(src) + 1] = k /\ Len(src) \in Nat BY <1>3, <1>6, FollowsAppend DEF Follows
      <3> QED BY <3>1
    <2>2. k = "break" => Far(Base, K, M, d, ql, t, Len(src) + 1, b) BY <1>13 DEF Far
    <2> QED BY <2>1, <2>2 DEF Goes
  <1>16. Meant(Base, K, M, d, ql, t, insert, Len(code[insert]) + 1)
    <2>1. \A f : f # Len(src) + 2 => Goes(Base, K, M, d, ql, t, f, Len(src) + 1, Br(b).to[1])
      BY <1>1, <1>9, <1>14, <1>15
    <2>2. Len(src) + 1 \in {Len(src) + 1, Len(src) + 2} /\ Len(src) + 1 # Len(src) + 2
      <3>1. Len(src) \in Nat BY NodeFacts
      <3> QED BY <3>1
    <2> HIDE DEF ql
    <2> QED BY <1>3, <1>6, <1>9, <1>10, <1>11, <2>1, <2>2, MeantBr
  <1>17. k = "break" => \E g \in 1..Len(Base) : \E y \in {Base[g].alt, Base[g].end} :
                          Owner(Base, K, t, Len(src) + 1, g, y)
    <2>1. k = "break" => b \in {Base[h].alt, Base[h].end} BY <1>7
    <2> QED BY <1>13, <2>1
  <1>18. Faith(Base \o <<>>, K, M, d, ql, x, t)
    <2>1. k \in {"break", "continue", "return", "retval"} BY <1>1
    <2> QED BY <1>3, <1>8, <1>14, <1>16, <1>17, <2>1, FaithDead DEF M, d, x
  <1>19. Faith(stack', K, M, code', placed', insert', src') BY <1>1, <1>2, <1>18
  <1> QED BY <1>19 DEF FaithNext

LEMMA FaithRet ==
  ASSUME NEW st \in Stacks, NEW K, NEW L, NEW c, NEW pl, NEW ins, NEW s, Faith(st, K, L, c, pl, ins, s),
         Graph(c, pl, ins), Owes(st, Len(c), pl, {}), ~(s # <<>> /\ s[Len(s)] = "while"),
         \A h \in 1..Len(st) : st[h].k \notin Joins,
         \A h \in 1..Len(st) : st[h].k \in Loopers \cup Joins => st[h].back \in pl,
         NEW k \in {"return", "retval"}, NEW i \in Instrs, i.op = "ret", i.node = Len(s) + 1,
         \/ k = "return" /\ i.use = {}
         \/ k = "retval" /\ i.use = {Len(s)} /\ Len(s) >= 1,
         NEW d, d = Add(Blocks(c, 1), ins, i), NEW x, x = Len(c) + 1
  PROVE  Faith(st \o <<>>, K, Begins(L, x, Len(s) + 2), d, pl \cup {x}, x, Append(s, k))
  <1> DEFINE M == Begins(L, x, Len(s) + 2)
             ql == pl \cup {x}
  <1>1. Writes(c, d, ins, i) /\ x \in Nat /\ ins # x /\ ins \in Nat BY DeadFacts
  <1>2. M[ins] = L[ins] BY <1>1, BeginsFacts
  <1>3. k \in Kinds BY DEF Kinds
  <1> HIDE DEF M, ql
  <1>4. Meant(st, K, M, d, ql, Append(s, k), ins, Len(c[ins]) + 1)
    <2>1. /\ i.op \in {"eval", "store", "ret", "condbr"} /\ i.op # "eval" /\ i.op # "store" /\ i.op # "condbr"
      OBVIOUS
    <2> QED BY <1>1, <1>2, <1>3, <2>1, MeantPlain
  <1>5. k \in {"break", "continue", "return", "retval"} /\ k # "break" /\ k # "continue" OBVIOUS
  <1> QED BY <1>4, <1>5, FaithDead DEF M, ql

LEMMA FaithReturns ==
  ASSUME Building, Rest, Emitting, NEW K, NEW L, Faithful(K, L),
         ReturnVoid \/ \E isVoid \in BOOLEAN : ReturnValue(isVoid)
  PROVE  FaithNext
  <1>1. Node \in Nat /\ value \in Nat /\ Node = Len(src) + 1 BY NodeFacts DEF Rest, Node
  <1>2. CASE ReturnVoid
    <2> DEFINE i == Ret({}, Node)
               x == Len(code) + 1
    <2>1. /\ AtStmt /\ src' = Append(src, "return") /\ stack' = Base \o <<>>
          /\ code' = Add(Blocks(code, 1), insert, i) /\ placed' = placed \cup {x} /\ insert' = x
      BY <1>2 DEF ReturnVoid, Begin, Base, Visit, EndAndStartDead, StartBlock, NBlocks
    <2>2. i \in Instrs /\ i.op = "ret" /\ i.node = Len(src) + 1 /\ i.use = {}
      <3>1. i \in Instrs BY <1>1, RetFacts
      <3> QED BY <1>1, <3>1 DEF Ret, Instr
    <2> HIDE DEF i, x
    <2>3. Faith(Base \o <<>>, K, Begins(L, x, Len(src) + 2), Add(Blocks(code, 1), insert, i),
                placed \cup {x}, x, Append(src, "return"))
      <3>1. /\ Faith(Base, K, L, code, placed, insert, src) /\ Graph(code, placed, insert) /\ Base \in Stacks
            /\ ~(src # <<>> /\ src[Len(src)] = "while")
            /\ \A j \in 1..Len(Base) : Base[j].k \notin Joins
            /\ \A j \in 1..Len(Base) : Base[j].k \in Loopers \cup Joins => Base[j].back \in placed
            /\ Owes(Base, Len(code), placed, {})
        BY <2>1, AtBase
      <3>2. "return" \in {"return", "retval"} OBVIOUS
      <3> QED BY <2>2, <3>1, <3>2, FaithRet DEF x
    <2>4. Faith(stack', K, Begins(L, x, Len(src) + 2), code', placed', insert', src') BY <2>1, <2>3
    <2> QED BY <2>4 DEF FaithNext
  <1>3. CASE \E isVoid \in BOOLEAN : ReturnValue(isVoid)
    <2>0. PICK isVoid \in BOOLEAN : ReturnValue(isVoid) BY <1>3
    <2> DEFINE u == IF isVoid THEN {} ELSE {value}
               i == Ret(u, Node)
               x == Len(code) + 1
               k == IF isVoid THEN "return" ELSE "retval"
    <2>1. /\ Walking /\ Top.k = "return" /\ src' = Append(src, k) /\ stack' = Popped \o <<>>
          /\ code' = Add(Blocks(code, 1), insert, i) /\ placed' = placed \cup {x} /\ insert' = x
      BY <2>0 DEF ReturnValue, At, Visit, Replace, EndAndStartDead, StartBlock, NBlocks
    <2>2. i \in Instrs /\ i.op = "ret" /\ i.node = Len(src) + 1 /\ i.use = u
      <3>1. u \in SUBSET Nat BY <1>1
      <3> HIDE DEF u
      <3>2. i \in Instrs BY <1>1, <3>1, RetFacts
      <3> QED BY <1>1, <3>2 DEF Ret, Instr
    <2>3. Top.k \in Quiet /\ Top.k # "expr" /\ Top.k \notin ExprKinds /\ Top.k \in Hungry
      BY <2>1, QuietKinds DEF ExprKinds, Hungry, Eaters
    <2>4. /\ Faith(Popped, K, L, code, placed, insert, src) /\ Graph(code, placed, insert) /\ Popped \in Stacks
          /\ ~(src # <<>> /\ src[Len(src)] = "while")
          /\ \A j \in 1..Len(Popped) : Popped[j].k \notin Joins
          /\ \A j \in 1..Len(Popped) : j \in 1..Len(stack) /\ Popped[j] = stack[j]
          /\ \A j \in 1..Len(stack) : stack[j].k \in Loopers \cup Joins => stack[j].back \in placed
          /\ Owes(Popped, Len(code), placed, Owed(Top))
          /\ value = Len(src) /\ Len(src) >= 1
      BY <2>1, <2>3, AtTop
    <2>5. Owes(Popped, Len(code), placed, {}) BY <2>1, <2>4, PopBase
    <2>6. \A j \in 1..Len(Popped) : Popped[j].k \in Loopers \cup Joins => Popped[j].back \in placed BY <2>4
    <2>7. \/ k = "return" /\ u = {}
          \/ k = "retval" /\ u = {Len(src)} /\ Len(src) >= 1
      BY <2>4
    <2>8. k \in {"return", "retval"} OBVIOUS
    <2> HIDE DEF i, x, u, k
    <2>9. Faith(Popped \o <<>>, K, Begins(L, x, Len(src) + 2), Add(Blocks(code, 1), insert, i),
                placed \cup {x}, x, Append(src, k))
      BY <2>2, <2>4, <2>5, <2>6, <2>7, <2>8, FaithRet DEF x
    <2>10. Faith(stack', K, Begins(L, x, Len(src) + 2), code', placed', insert', src') BY <2>1, <2>9
    <2> QED BY <2>10 DEF FaithNext
  <1> QED BY <1>2, <1>3

(* A step goes on in a block the innermost activation owed.                *)
LEMMA MoveFacts ==
  ASSUME Building, Walking, NEW i \in Instrs, NEW x \in Owed(Top), NEW d, d = Add(code, insert, i)
  PROVE  /\ Writes(code, d, insert, i) /\ d \in Codes /\ Len(d) = Len(code) /\ placed \cup {x} \subseteq 1..Len(d)
         /\ x \in Nat /\ x \in (2..Len(d)) \ placed /\ d[x] = <<>>
         /\ \A h \in 1..Len(Popped) : x \notin Owed(stack[h])
         /\ insert # x /\ insert \in Nat /\ insert \in placed /\ \A b \in placed : b \in Nat /\ b # x
         /\ \A y \in Owed(Top) : y \in Nat /\ y \notin placed
  <1>1. /\ Graph(code, placed, insert) /\ code \in Codes /\ placed \subseteq 1..Len(code) /\ insert \in 1..Len(code)
        /\ Owes(stack, Len(code), placed, {}) /\ Len(code) \in Nat /\ stack # <<>> /\ stack \in Stacks
    BY BuilderFacts DEF Builder, Building, Walking
  <1>2. /\ Len(stack) \in Nat /\ Len(Popped) = Len(stack) - 1 /\ \A h \in 1..Len(Popped) : Popped[h] = stack[h]
    BY <1>1, StackFacts DEF Popped
  <1>3. Owes(Popped, Len(code), placed, Owed(Top)) BY <1>1, OwesPop DEF Popped, Top
  <1>4. \A h \in 1..Len(Popped) : x \notin Owed(stack[h]) BY <1>2, <1>3 DEF Owes
  <1>5. Owed(Top) \subseteq (2..Len(code)) \ placed BY <1>3 DEF Owes
  <1>6. Writes(code, d, insert, i) /\ Len(d) = Len(code)
    <2>1. 0 \in Nat OBVIOUS
    <2> QED BY <1>1, <2>1, WritesFacts
  <1>7. insert \in placed /\ insert # x BY <1>1, <1>5 DEF Graph
  <1>8. code[x] = <<>> /\ x \in 1..Len(code)
    <2>1. x \in (1..Len(code)) \ placed BY <1>1, <1>5
    <2> QED BY <2>1, <1>1 DEF Graph
  <1>9. d \in Codes /\ d[x] = <<>> BY <1>6, <1>7, <1>8 DEF Writes
  <1>10. \A b \in placed : b \in Nat /\ b # x BY <1>1, <1>5
  <1>11. \A y \in Owed(Top) : y \in Nat /\ y \notin placed BY <1>5
  <1>12. placed \cup {x} \subseteq 1..Len(d) /\ insert \in Nat BY <1>1, <1>6, <1>8
  <1>13. x \in (2..Len(d)) \ placed BY <1>5, <1>6
  <1>14. x \in Nat BY <1>11
  <1> QED BY <1>4, <1>6, <1>7, <1>9, <1>10, <1>11, <1>12, <1>13, <1>14

(* The innermost activation waits for the next part of its statement.      *)
LEMMA FaithSwap ==
  ASSUME Building, Emitting, Walking, NEW K, NEW L, Faithful(K, L), Top.k \notin ExprKinds,
         NEW z \in Classes, Top.k \in Holders(z), NEW g \in Frames, g.k \in Holders(z), g.k \notin Joins,
         NEW k \in Kinds, k \in Plain \/ (k = "else" /\ z = "if"), k \notin {"break", "continue", "endwhile"},
         NEW i \in Instrs, NEW x \in Owed(Top), NEW d, d = Add(code, insert, i),
         \A m \in 1..Len(src) : \A y :
           Owner(stack, K, src, m, Len(stack), y) =>
             /\ y \in placed \cup {x} /\ Dest(Append(src, k), m, Begins(L, x, Len(src) + 2)[y])
             /\ src[m] \notin {"and", "or"},
         Meant(Append(Popped, g), K, Begins(L, x, Len(src) + 2), d, placed \cup {x}, Append(src, k),
               insert, Len(code[insert]) + 1),
         k = "else" =>
           \E h \in 1..Len(stack) : \E y \in {Append(Popped, g)[h].alt, Append(Popped, g)[h].end} :
             Owner(Append(Popped, g), K, Append(src, k), Len(src) + 1, h, y),
         Marked(g, K[Len(stack)], Begins(L, x, Len(src) + 2), d, x, Append(src, k))
  PROVE  Faith(Popped \o <<g, Waiting("stmt")>>, K, Begins(L, x, Len(src) + 2), d, placed \cup {x}, x, Append(src, k))
  <1> DEFINE tt == Append(Popped, g)
             p == Len(Popped)
             M == Begins(L, x, Len(src) + 2)
             t == Append(src, k)
             ql == placed \cup {x}
  <1>1. /\ Faith(stack, K, L, code, placed, insert, src) /\ Graph(code, placed, insert)
        /\ stack \in Stacks /\ stack # <<>> /\ Popped \in Stacks
        /\ Len(stack) \in Nat /\ p = Len(stack) - 1 /\ Len(stack) = p + 1 /\ p \in Nat /\ Top = stack[p + 1]
        /\ \A h \in 1..p : h \in 1..Len(stack) /\ Popped[h] = stack[h]
        /\ Top.k # "expr" => ~(src # <<>> /\ src[Len(src)] = "while")
        /\ Top.k \notin ExprKinds => \A h \in 1..p : Popped[h].k \notin Joins
        /\ \A h \in 1..Len(stack) : stack[h].k \in Loopers \cup Joins => stack[h].back \in placed
        /\ Struct(stack, K, src)
    BY AtTop
  <1>2. Top.k # "expr" BY DEF ExprKinds
  <1>3. /\ Writes(code, d, insert, i) /\ d \in Codes /\ ql \subseteq 1..Len(d)
        /\ x \in Nat /\ x \in (2..Len(d)) \ placed /\ d[x] = <<>> /\ \A h \in 1..p : x \notin Owed(stack[h])
    BY MoveFacts
  <1>4. tt \in Stacks /\ Len(tt) = p + 1 /\ tt[p + 1] = g BY <1>1, StackFacts
  <1>5. Suits(stack, tt, K, K, src, k, p)
    <2>1. stack[Len(stack)].k \in Holders(z) BY <1>1
    <2>2. \A h \in 1..Len(stack) - 1 : stack[h].k \in Joins => k \in Exprs BY <1>1
    <2>3. Suits(stack, Append(SubSeq(stack, 1, Len(stack) - 1), g), K, K, src, k, Len(stack) - 1)
      BY <1>1, <1>2, <2>1, <2>2, SuitsSwap
    <2> QED BY <1>1, <2>3 DEF Popped
  <1>6. Shared(stack, tt, K, K, p)
    <2>1. Shared(stack, Append(SubSeq(stack, 1, Len(stack) - 1), g), K, K, Len(stack) - 1)
      BY <1>1, SharedStacks
    <2> QED BY <1>1, <2>1 DEF Popped
  <1>7. Faith(tt, K, M, d, ql, x, t)
    <2>1. \A m \in 1..Len(src) : \A y :
           Len(stack) = p + 1 /\ Owner(stack, K, src, m, p + 1, y) =>
             /\ y \in ql /\ Dest(t, m, M[y])
             /\ src[m] \notin {"and", "or"}
      BY <1>1
    <2>2. k \in {"else", "break"} =>
           \E h \in 1..Len(tt) : \E y \in {tt[h].alt, tt[h].end} : Owner(tt, K, t, Len(src) + 1, h, y)
      BY <1>1, <1>4
    <2>3. k \in {"continue", "endwhile"} => \E w \in 1..Len(src) : Direct(t, w, Len(src) + 1) OBVIOUS
    <2>4. src # <<>> /\ src[Len(src)] = "while" => d[insert] # <<>> /\ d[insert][1].op = "eval" BY <1>1, <1>2
    <2>5. \A h \in 1..p : stack[h].k \in Loopers \cup Joins => stack[h].back \in placed BY <1>1
    <2>6. \A h \in 1..Len(tt) : h = p + 1 => Marked(tt[h], K[h], M, d, x, t) BY <1>1, <1>4
    <2>7. Meant(tt, K, M, d, ql, t, insert, Len(code[insert]) + 1) OBVIOUS
    <2> HIDE DEF tt, p
    <2> QED BY <1>1, <1>3, <1>5, <1>6, <2>1, <2>2, <2>3, <2>4, <2>5, <2>6, <2>7, FaithMoves
  <1>8. "stmt" \in Quiet BY QuietKinds
  <1> HIDE DEF M, ql, t
  <1>9. Faith(Popped \o <<g, Waiting("stmt")>>, K, M, d, ql, x, t) BY <1>1, <1>3, <1>7, <1>8, FaithPush
  <1> QED BY <1>9 DEF M, ql, t

(* The innermost activation is done.                                       *)
LEMMA FaithShut ==
  ASSUME Building, Emitting, Walking, NEW K, NEW L, Faithful(K, L), Top.k \notin ExprKinds,
         NEW z \in Classes, Top.k \in Holders(z), NEW k \in Kinds, k \in Closes(z), k \in {"endif", "endwhile"},
         NEW i \in Instrs, NEW x \in Owed(Top), NEW d, d = Add(code, insert, i),
         \A m \in 1..Len(src) : \A y :
           Owner(stack, K, src, m, Len(stack), y) =>
             /\ y \in placed \cup {x} /\ Dest(Append(src, k), m, Begins(L, x, Len(src) + 2)[y])
             /\ src[m] \notin {"and", "or"},
         Meant(Popped, K, Begins(L, x, Len(src) + 2), d, placed \cup {x}, Append(src, k),
               insert, Len(code[insert]) + 1),
         k = "endwhile" => \E w \in 1..Len(src) : Direct(Append(src, k), w, Len(src) + 1)
  PROVE  Faith(Popped \o <<>>, K, Begins(L, x, Len(src) + 2), d, placed \cup {x}, x, Append(src, k))
  <1> DEFINE p == Len(Popped)
             M == Begins(L, x, Len(src) + 2)
             t == Append(src, k)
             ql == placed \cup {x}
  <1>1. /\ Faith(stack, K, L, code, placed, insert, src) /\ Graph(code, placed, insert)
        /\ stack \in Stacks /\ stack # <<>> /\ Popped \in Stacks
        /\ Len(stack) \in Nat /\ p = Len(stack) - 1 /\ Len(stack) = p + 1 /\ p \in Nat /\ Top = stack[p + 1]
        /\ \A h \in 1..p : h \in 1..Len(stack) /\ Popped[h] = stack[h]
        /\ Top.k # "expr" => ~(src # <<>> /\ src[Len(src)] = "while")
        /\ Top.k \notin ExprKinds => \A h \in 1..p : Popped[h].k \notin Joins
        /\ \A h \in 1..Len(stack) : stack[h].k \in Loopers \cup Joins => stack[h].back \in placed
        /\ Struct(stack, K, src)
    BY AtTop
  <1>2. Top.k # "expr" BY DEF ExprKinds
  <1>3. /\ Writes(code, d, insert, i) /\ d \in Codes /\ ql \subseteq 1..Len(d)
        /\ x \in Nat /\ x \in (2..Len(d)) \ placed /\ d[x] = <<>> /\ \A h \in 1..p : x \notin Owed(stack[h])
    BY MoveFacts
  <1>5. Suits(stack, Popped, K, K, src, k, p)
    <2>1. stack[Len(stack)].k \in Holders(z) BY <1>1
    <2>2. \A h \in 1..Len(stack) - 1 : stack[h].k \in Joins => k \in Exprs BY <1>1
    <2>3. Suits(stack, SubSeq(stack, 1, Len(stack) - 1), K, K, src, k, Len(stack) - 1)
      BY <1>1, <1>2, <2>1, <2>2, SuitsShut
    <2> QED BY <1>1, <2>3 DEF Popped
  <1>6. Shared(stack, Popped, K, K, p)
    <2>1. Shared(stack, SubSeq(stack, 1, Len(stack) - 1), K, K, Len(stack) - 1)
      BY <1>1, SharedStacks
    <2> QED BY <1>1, <2>1 DEF Popped
  <1>7. Faith(Popped, K, M, d, ql, x, t)
    <2>1. \A m \in 1..Len(src) : \A y :
           Len(stack) = p + 1 /\ Owner(stack, K, src, m, p + 1, y) =>
             /\ y \in ql /\ Dest(t, m, M[y])
             /\ src[m] \notin {"and", "or"}
      BY <1>1
    <2>2. k \notin {"else", "break"} OBVIOUS
    <2>3. k \in {"continue", "endwhile"} => \E w \in 1..Len(src) : Direct(t, w, Len(src) + 1) OBVIOUS
    <2>4. src # <<>> /\ src[Len(src)] = "while" => d[insert] # <<>> /\ d[insert][1].op = "eval" BY <1>1, <1>2
    <2>5. \A h \in 1..p : stack[h].k \in Loopers \cup Joins => stack[h].back \in placed BY <1>1
    <2>6. \A h \in 1..Len(Popped) : h = p + 1 => Marked(Popped[h], K[h], M, d, x, t)
      <3>1. \A h \in 1..p : h # p + 1 BY <1>1, Beyond
      <3> QED BY <3>1
    <2>7. Meant(Popped, K, M, d, ql, t, insert, Len(code[insert]) + 1) OBVIOUS
    <2> HIDE DEF p
    <2> QED BY <1>1, <1>3, <1>5, <1>6, <2>1, <2>2, <2>3, <2>4, <2>5, <2>6, <2>7, FaithMoves
  <1> HIDE DEF M, ql, t
  <1>8. Faith(Popped \o <<>>, K, M, d, ql, x, t) BY <1>1, <1>3, <1>7, FaithPush
  <1> QED BY <1>8 DEF M, ql, t

LEMMA CondBrFields ==
  ASSUME NEW v, NEW x, NEW y, NEW n
  PROVE  LET i == CondBr(v, x, y, n)
         IN  /\ i.op = "condbr" /\ i.use = {v} /\ i.node = n /\ Len(i.to) = 2 /\ i.to[1] = x /\ i.to[2] = y
  <1> DEFINE i == CondBr(v, x, y, n)
             to == i.to
  <1>1. to = <<x, y>> /\ i.op = "condbr" /\ i.use = {v} /\ i.node = n BY DEF CondBr, Instr
  <1>2. Len(to) = 2 /\ to[1] = x /\ to[2] = y BY <1>1
  <1> QED BY <1>1, <1>2

LEMMA BrFields ==
  ASSUME NEW x
  PROVE  Br(x).op = "br" /\ Br(x).to[1] = x
  BY DEF Br, Instr

(* The branch at the end of a condition.                                   *)
LEMMA MeantCond ==
  ASSUME NEW st \in Stacks, NEW K, NEW L, NEW c, NEW pl, NEW s, NEW ins, Faith(st, K, L, c, pl, ins, s),
         NEW k \in {"then", "do"}, NEW tt, NEW J, NEW p, Suits(st, tt, K, J, s, k, p), Len(tt) \in 1..Len(tt),
         NEW d, NEW x \in Nat, NEW y \in Nat, NEW i, i = CondBr(Len(s), x, y, Len(s) + 1), Writes(c, d, ins, i),
         Len(s) >= 1, x # y, y \notin pl, ins # x, ins \in Nat,
         k = "then" => /\ tt[Len(tt)].k = "thenEnd"
                       /\ y = (IF tt[Len(tt)].alt # 0 THEN tt[Len(tt)].alt ELSE tt[Len(tt)].end),
         k = "do" => tt[Len(tt)].k = "bodyEnd" /\ y = tt[Len(tt)].end
  PROVE  Meant(tt, J, Begins(L, x, Len(s) + 2), d, pl \cup {x}, Append(s, k), ins, Len(c[ins]) + 1)
  <1> DEFINE M == Begins(L, x, Len(s) + 2)
             t == Append(s, k)
             n == Len(s)
             ql == pl \cup {x}
  <1>1. M[x] = n + 2 /\ M[ins] = L[ins] BY BeginsFacts
  <1>2. Levels(st, s) /\ s \in Seq(Kinds) BY DEF Faith, Struct
  <1>3. n \in Nat /\ Len(t) = n + 1 /\ t[n + 1] = k /\ k \in Kinds /\ k \in Plain
    <2>1. k \in Kinds /\ k \in Plain BY DEF Kinds, Plain
    <2> QED BY <1>2, <2>1, FollowsAppend DEF Follows
  <1>4. i.op = "condbr" /\ i.use = {n} /\ i.node = n + 1 /\ Len(i.to) = 2 /\ i.to[1] = x /\ i.to[2] = y
    BY CondBrFields
  <1> HIDE DEF M
  <1>5. Owner(tt, J, t, n + 1, Len(tt), y)
    <2>1. CASE k = "then"
      <3>1. "if" \in Classes BY DEF Classes
      <3>2. k \notin Closes("if") BY <3>1, <1>3, PlainFacts
      <3>3. Pending(t, "if", n + 1, Rank(tt, "if", Len(tt))) BY <1>2, <1>3, <3>1, <3>2, PendingNew
      <3>4. t[n + 1] = "then" BY <1>3, <2>1
      <3>5. /\ tt[Len(tt)].k = "thenEnd"
            /\ y = (IF tt[Len(tt)].alt # 0 THEN tt[Len(tt)].alt ELSE tt[Len(tt)].end)
        BY <2>1
      <3> HIDE DEF t, n
      <3> QED BY <3>3, <3>4, <3>5 DEF Owner
    <2>2. CASE k = "do"
      <3>1. "while" \in Classes BY DEF Classes
      <3>2. k \notin Closes("while") BY <3>1, <1>3, PlainFacts
      <3>3. Pending(t, "while", n + 1, Rank(tt, "while", Len(tt))) BY <1>2, <1>3, <3>1, <3>2, PendingNew
      <3>4. t[n + 1] = "do" BY <1>3, <2>2
      <3>5. tt[Len(tt)].k = "bodyEnd" /\ y = tt[Len(tt)].end BY <2>2
      <3> HIDE DEF t, n
      <3> QED BY <3>3, <3>4, <3>5 DEF Owner
    <2> QED BY <2>1, <2>2
  <1>6. Near(t, i) = x /\ Away(t, i) = y
    <2>1. t[i.node] # "or" BY <1>3, <1>4
    <2> HIDE DEF t
    <2> QED BY <2>1, <1>4 DEF Near, Away
  <1>7. Branching(tt, J, M, d, ql, t, i)
    <2>1. y \notin ql /\ x \in ql OBVIOUS
    <2>2. Far(tt, J, M, d, ql, t, i.node, y) BY <2>1, <1>4, <1>5 DEF Far
    <2>3. i.use = {i.node - 1} /\ i.node >= 2 /\ M[x] = i.node + 1
      <3>1. (n + 1) - 1 = n /\ n + 1 >= 2 /\ (n + 1) + 1 = n + 2 BY <1>3
      <3> QED BY <3>1, <1>1, <1>4
    <2>4. t[i.node] \in {"then", "do", "and", "or"} BY <1>3, <1>4
    <2> HIDE DEF t, ql, n
    <2> QED BY <1>4, <1>6, <2>1, <2>2, <2>3, <2>4 DEF Branching
  <1> HIDE DEF ql
  <1>8. i.op \in {"eval", "store", "ret", "condbr"} /\ i.op \notin {"eval", "store", "ret"} BY <1>4
  <1>9. Meant(tt, J, M, d, ql, t, ins, Len(c[ins]) + 1) BY <1>1, <1>3, <1>4, <1>7, <1>8, MeantPlain
  <1> QED BY <1>9 DEF M, ql

LEMMA FaithIfCond ==
  ASSUME Building, Rest, Emitting, NEW K, NEW L, Faithful(K, L), IfCond
  PROVE  FaithNext
  <1> DEFINE x == Top.next
             y == IF Top.alt # 0 THEN Top.alt ELSE Top.end
             i == CondBr(value, x, y, Node)
             g == Frame("thenEnd", 0, Top.alt, Top.end, 0)
             d == Add(code, insert, i)
             tt == Append(Popped, g)
             M == Begins(L, x, Len(src) + 2)
             ql == placed \cup {x}
  <1>1. /\ Walking /\ Top.k = "ifCond" /\ code' = d /\ placed' = ql /\ insert' = x
        /\ stack' = Popped \o <<g, Waiting("stmt")>> /\ src' = Append(src, "then")
    BY DEF IfCond, At, StartBlock, Replace, Visit
  <1>2. FrameOK(Top, Len(code)) /\ Len(code) \in Nat /\ Top \in Frames BY <1>1, TopFacts
  <1>3. /\ x \in Nat /\ Top.alt \in Nat /\ Top.end \in Nat /\ x # 0 /\ Top.end # 0
        /\ {x, Top.alt, Top.end} \ {0} \subseteq 2..Len(code)
        /\ Owed(Top) = {x, Top.alt, Top.end} \ {0}
        /\ y \in Nat /\ y # x /\ y # 0
    BY <1>1, <1>2 DEF FrameOK, Frames, Owed
  <1>4. x \in 2..Len(code) /\ y \in 2..Len(code) /\ x \in Owed(Top) /\ y \in Owed(Top) BY <1>3
  <1>5. value \in Nat /\ Node \in Nat BY NodeFacts DEF Rest
  <1>6. g.k = "thenEnd" /\ g.alt = Top.alt /\ g.end = Top.end /\ g \in Frames
    <2>1. "thenEnd" \in FrameKinds /\ 0 \in Nat BY DEF FrameKinds
    <2> QED BY <1>3, <2>1 DEF Frame, Frames
  <1>7. y = (IF g.alt # 0 THEN g.alt ELSE g.end) BY <1>6
  <1> HIDE DEF x, y, g
  <1>8. i \in Instrs BY <1>3, <1>4, <1>5, CondBrFacts
  <1>9. Top.k \notin ExprKinds /\ Top.k \in Hungry /\ Top.k \in Holders("if") /\ "if" \in Classes
        /\ g.k \in Holders("if") /\ g.k \notin Joins /\ g.k \notin Loopers
        /\ "then" \in Kinds /\ "then" \in Plain /\ "then" \notin {"break", "continue", "endwhile"}
    BY <1>1, <1>6, ClassFacts DEF ExprKinds, Hungry, Eaters, Classes, Joins, Loopers, Kinds, Plain
  <1>10. /\ Faith(stack, K, L, code, placed, insert, src)
         /\ stack \in Stacks /\ stack # <<>> /\ Popped \in Stacks /\ Len(stack) \in Nat
         /\ Len(Popped) = Len(stack) - 1 /\ Len(stack) = Len(Popped) + 1 /\ Len(Popped) \in Nat
         /\ value = Len(src) /\ Len(src) >= 1 /\ Top = stack[Len(stack)]
         /\ ~(src # <<>> /\ src[Len(src)] = "while")
         /\ \A h \in 1..Len(Popped) : Popped[h].k \notin Joins /\ Popped[h] = stack[h]
         /\ Struct(stack, K, src)
    BY <1>1, <1>9, AtTop DEF Top
  <1>11. /\ Writes(code, d, insert, i) /\ insert # x /\ insert \in Nat /\ y \notin placed
    BY <1>1, <1>4, <1>8, MoveFacts
  <1>12. tt \in Stacks /\ Len(tt) = Len(Popped) + 1 /\ tt[Len(tt)] = g /\ Len(tt) \in 1..Len(tt)
    <2>1. tt \in Stacks /\ Len(tt) = Len(Popped) + 1 /\ tt[Len(Popped) + 1] = g BY <1>6, <1>10, StackFacts
    <2> QED BY <2>1, <1>10
  <1>13. Suits(stack, tt, K, K, src, "then", Len(stack) - 1)
    <2>1. stack[Len(stack)].k \in Holders("if") BY <1>9, <1>10
    <2>2. \A h \in 1..Len(stack) - 1 : stack[h].k \in Joins => "then" \in Exprs BY <1>10
    <2>3. Suits(stack, Append(SubSeq(stack, 1, Len(stack) - 1), g), K, K, src, "then", Len(stack) - 1)
      BY <1>6, <1>9, <1>10, <2>1, <2>2, SuitsSwap
    <2> QED BY <2>3 DEF Popped
  <1> HIDE DEF tt
  <1>14. Meant(tt, K, M, d, ql, Append(src, "then"), insert, Len(code[insert]) + 1)
    <2>1. i = CondBr(Len(src), x, y, Len(src) + 1) BY <1>10 DEF Node
    <2>2. "then" \in {"then", "do"} /\ "then" # "do" OBVIOUS
    <2>3. /\ tt[Len(tt)].k = "thenEnd"
          /\ y = (IF tt[Len(tt)].alt # 0 THEN tt[Len(tt)].alt ELSE tt[Len(tt)].end)
      BY <1>6, <1>7, <1>12
    <2> HIDE DEF i, d
    <2> QED BY <1>3, <1>10, <1>11, <1>12, <1>13, <2>1, <2>2, <2>3, MeantCond
  <1>15. \A m \in 1..Len(src) : \A z : ~Owner(stack, K, src, m, Len(stack), z)
    <2>1. stack[Len(stack)].k = "ifCond" BY <1>1, <1>10
    <2> QED BY <2>1 DEF Owner, Joins
  <1> HIDE DEF i
  <1>16. Marked(g, K[Len(stack)], M, d, x, Append(src, "then")) BY <1>9 DEF Marked
  <1> HIDE DEF M, d, ql
  <1>17. Faith(Popped \o <<g, Waiting("stmt")>>, K, M, d, ql, x, Append(src, "then"))
    <2>1. "then" # "else" OBVIOUS
    <2>2. d = Add(code, insert, i) BY DEF d
    <2>3. Meant(Append(Popped, g), K, M, d, ql, Append(src, "then"), insert, Len(code[insert]) + 1)
      BY <1>14 DEF tt
    <2>4. Faith(Popped \o <<g, Waiting("stmt")>>, K, Begins(L, x, Len(src) + 2), d, placed \cup {x}, x, Append(src, "then"))
      BY <1>1, <1>4, <1>6, <1>8, <1>9, <1>15, <1>16, <2>1, <2>2, <2>3, FaithSwap DEF M, ql
    <2> QED BY <2>4 DEF M, ql
  <1>18. Faith(stack', K, M, code', placed', insert', src') BY <1>1, <1>17
  <1> QED BY <1>18 DEF FaithNext

(* Where the innermost activation was to go is the end that is met now.    *)
LEMMA OwnerMet ==
  ASSUME NEW st \in Stacks, NEW K, NEW s \in Seq(Kinds), Levels(st, s), NEW k \in {"else", "endif", "endwhile"},
         NEW f, f = st[Len(st)], NEW m \in 1..Len(s), NEW y, Owner(st, K, s, m, Len(st), y),
         k = "else" => f.k = "thenEnd",
         k = "endif" => f.k \in {"thenEnd", "elseEnd"},
         k = "endwhile" => f.k = "bodyEnd"
  PROVE  /\ y = (IF f.k = "thenEnd" /\ f.alt # 0 THEN f.alt ELSE f.end)
         /\ Dest(Append(s, k), m, Len(s) + 2) /\ s[m] \notin {"and", "or"}
  <1> DEFINE t == Append(s, k)
             n == Len(s)
  <1>1. k \in Kinds BY DEF Kinds
  <1>2. n \in Nat /\ t[m] = s[m] /\ (n + 2) - 1 = n + 1
    <2>1. n \in Nat /\ \A j \in 1..n : t[j] = s[j] BY <1>1, FollowsAppend DEF Follows
    <2> QED BY <2>1
  <1>3. f.k \notin Joins BY DEF Joins
  <1>4. /\ Ends("if") = {"else", "endif"} /\ Opens("if") = {"if"} /\ Ends("while") = {"endwhile"}
        /\ Opens("while") = {"while"} /\ "if" \in Classes /\ "while" \in Classes
    BY ClassFacts DEF Classes
  <1>5. CASE s[m] = "then"
    <2>1. /\ f.k = "thenEnd" /\ y = (IF f.alt # 0 THEN f.alt ELSE f.end)
          /\ Pending(s, "if", m, Rank(st, "if", Len(st)))
      BY <1>5 DEF Owner
    <2>2. k \in {"else", "endif"} /\ k \notin Opens("if") /\ {"else", "endif"} \subseteq Ends("if") BY <2>1, <1>4
    <2>3. Met(t, "if", {"else", "endif"}, m, n + 1) BY <1>1, <1>4, <2>1, <2>2, MetNow
    <2> HIDE DEF t, n
    <2>4. Dest(t, m, n + 2) BY <1>2, <1>5, <2>3 DEF Dest
    <2> QED BY <1>5, <2>1, <2>4 DEF t, n
  <1>6. CASE s[m] = "else"
    <2>1. f.k = "elseEnd" /\ y = f.end /\ Pending(s, "if", m, Rank(st, "if", Len(st)))
      BY <1>6 DEF Owner
    <2>2. k \in {"endif"} /\ k \notin Opens("if") /\ {"endif"} \subseteq Ends("if") BY <2>1, <1>4
    <2>3. Met(t, "if", {"endif"}, m, n + 1) BY <1>1, <1>4, <2>1, <2>2, MetNow
    <2> HIDE DEF t, n
    <2>4. Dest(t, m, n + 2) BY <1>2, <1>6, <2>3 DEF Dest
    <2> QED BY <1>6, <2>1, <2>4 DEF t, n
  <1>7. CASE s[m] \in {"do", "break"}
    <2>1. f.k = "bodyEnd" /\ y = f.end /\ Pending(s, "while", m, Rank(st, "while", Len(st)))
      BY <1>7 DEF Owner
    <2>2. k \in {"endwhile"} /\ k \notin Opens("while") /\ {"endwhile"} \subseteq Ends("while") BY <2>1, <1>4
    <2>3. Met(t, "while", {"endwhile"}, m, n + 1) BY <1>1, <1>4, <2>1, <2>2, MetNow
    <2> HIDE DEF t, n
    <2>4. Dest(t, m, n + 2) BY <1>2, <1>7, <2>3 DEF Dest
    <2> QED BY <1>7, <2>1, <2>4 DEF t, n
  <1>8. s[m] \in {"then", "else", "do", "break"} BY <1>3 DEF Owner
  <1> QED BY <1>5, <1>6, <1>7, <1>8

(* A branch to the block control goes on in.                               *)
LEMMA MeantNext ==
  ASSUME NEW st, NEW K, NEW L, NEW c, NEW pl, NEW s, NEW ins, Faith(st, K, L, c, pl, ins, s),
         NEW k \in Kinds, k \in Passed, NEW d, NEW x \in Nat, Writes(c, d, ins, Br(x)), NEW tt, NEW J,
         ins # x, ins \in Nat
  PROVE  Meant(tt, J, Begins(L, x, Len(s) + 2), d, pl \cup {x}, Append(s, k), ins, Len(c[ins]) + 1)
  <1> DEFINE M == Begins(L, x, Len(s) + 2)
             t == Append(s, k)
             ql == pl \cup {x}
             i == Br(x)
  <1>1. M[x] = Len(s) + 2 /\ M[ins] = L[ins] BY BeginsFacts
  <1>2. i.op = "br" /\ i.to[1] = x BY BrFields
  <1>3. x \in ql /\ Len(s) + 2 \in {Len(s) + 1, Len(s) + 2} OBVIOUS
  <1> HIDE DEF M, ql, i, t
  <1>4. \A f : f # Len(s) + 2 => Goes(tt, J, M, d, ql, t, f, Len(s) + 2, i.to[1])
    BY <1>1, <1>2, <1>3 DEF Goes
  <1>5. Writes(c, d, ins, i) BY DEF i
  <1>6. Meant(tt, J, M, d, ql, t, ins, Len(c[ins]) + 1)
    BY <1>1, <1>2, <1>3, <1>4, <1>5, MeantBr DEF t
  <1> QED BY <1>6 DEF M, ql, t

LEMMA FaithJoins ==
  ASSUME Building, Rest, Emitting, NEW K, NEW L, Faithful(K, L), ThenEnd \/ ElseEnd
  PROVE  FaithNext
  <1> DEFINE x == Top.end
             i == Br(x)
             d == Add(code, insert, i)
             M == Begins(L, x, Len(src) + 2)
             ql == placed \cup {x}
  <1>1. /\ Walking /\ Top.k \in {"thenEnd", "elseEnd"}
        /\ Top.k = "thenEnd" => Top.alt = 0
        /\ code' = BranchTo(code, x) /\ placed' = ql /\ insert' = x
        /\ stack' = Popped \o <<>> /\ src' = Append(src, "endif")
    BY DEF ThenEnd, ElseEnd, At, StartBlock, Replace, Visit
  <1>2. FrameOK(Top, Len(code)) /\ Len(code) \in Nat /\ Top \in Frames BY <1>1, TopFacts
  <1>3. x \in Nat /\ x # 0 /\ x \in Owed(Top) /\ x \in 2..Len(code)
    <2>1. x \in Nat /\ x # 0 BY <1>1, <1>2 DEF FrameOK, Frames
    <2>2. x \in Owed(Top) BY <2>1 DEF Owed
    <2> QED BY <2>1, <2>2, <1>2 DEF FrameOK
  <1>4. (IF Top.k = "thenEnd" /\ Top.alt # 0 THEN Top.alt ELSE Top.end) = x BY <1>1
  <1> HIDE DEF x
  <1>5. i \in Instrs /\ code' = d BY <1>1, <1>3, BrFacts, BranchToFacts
  <1>6. /\ Top.k \notin ExprKinds /\ Top.k \in Holders("if") /\ "if" \in Classes
        /\ "endif" \in Closes("if") /\ "endif" \in {"endif", "endwhile"} /\ "endif" \in Kinds
    BY <1>1, ClassFacts DEF ExprKinds, Classes, Kinds
  <1>7. /\ Faith(stack, K, L, code, placed, insert, src) /\ stack \in Stacks
        /\ Top = stack[Len(stack)] /\ Levels(stack, src) /\ src \in Seq(Kinds)
    BY <1>1, AtTop DEF Top, Struct
  <1>8. /\ Writes(code, d, insert, i) /\ insert # x /\ insert \in Nat
    BY <1>1, <1>3, <1>5, MoveFacts
  <1>9. Meant(Popped, K, M, d, ql, Append(src, "endif"), insert, Len(code[insert]) + 1)
    <2>1. "endif" \in Passed BY DEF Passed
    <2>2. Writes(code, d, insert, Br(x)) BY <1>8
    <2>3. Faith(stack, K, L, code, placed, insert, src) BY <1>7
    <2>4. "endif" \in Kinds BY <1>6
    <2>5. x \in Nat /\ insert # x /\ insert \in Nat BY <1>3, <1>8
    <2> HIDE DEF d, i
    <2> QED BY <2>1, <2>2, <2>3, <2>4, <2>5, MeantNext, ZenonT(60)
  <1>10. M[x] = Len(src) + 2
    <2>1. x \in Nat BY <1>3
    <2>2. ASSUME NEW n PROVE Begins(L, x, n)[x] = n BY <2>1, BeginsFacts
    <2> QED BY <2>2
  <1> HIDE DEF M, d, i
  <1>11. \A m \in 1..Len(src) : \A y :
           Owner(stack, K, src, m, Len(stack), y) =>
             /\ y \in ql /\ Dest(Append(src, "endif"), m, M[y])
             /\ src[m] \notin {"and", "or"}
    <2> SUFFICES ASSUME NEW m \in 1..Len(src), NEW y, Owner(stack, K, src, m, Len(stack), y)
                 PROVE  /\ y \in ql /\ Dest(Append(src, "endif"), m, M[y])
                        /\ src[m] \notin {"and", "or"}
      OBVIOUS
    <2>1. "endif" \in {"else", "endif", "endwhile"} OBVIOUS
    <2>2. /\ y = (IF Top.k = "thenEnd" /\ Top.alt # 0 THEN Top.alt ELSE Top.end)
          /\ Dest(Append(src, "endif"), m, Len(src) + 2) /\ src[m] \notin {"and", "or"}
      BY <1>1, <1>7, <2>1, OwnerMet
    <2>3. y = x BY <2>2, <1>4
    <2> QED BY <2>2, <2>3, <1>10
  <1> HIDE DEF ql
  <1>12. Faith(Popped \o <<>>, K, M, d, ql, x, Append(src, "endif"))
    <2>1. d = Add(code, insert, i) BY DEF d
    <2>2. "endif" # "endwhile" OBVIOUS
    <2>3. Faith(Popped \o <<>>, K, Begins(L, x, Len(src) + 2), d, placed \cup {x}, x, Append(src, "endif"))
      BY <1>1, <1>3, <1>5, <1>6, <1>9, <1>11, <2>1, <2>2, FaithShut DEF M, ql
    <2> QED BY <2>3 DEF M, ql
  <1>13. Faith(stack', K, M, code', placed', insert', src') BY <1>1, <1>5, <1>12 DEF ql
  <1> QED BY <1>13 DEF FaithNext

(* A branch over the else, to where the if statement ends.                 *)
LEMMA MeantElse ==
  ASSUME NEW st \in Stacks, NEW K, NEW L, NEW c, NEW pl, NEW s, NEW ins, Faith(st, K, L, c, pl, ins, s),
         NEW tt, NEW J, NEW p, Suits(st, tt, K, J, s, "else", p), Len(tt) \in 1..Len(tt),
         tt[Len(tt)].k = "elseEnd", NEW y \in Nat, y = tt[Len(tt)].end,
         NEW d, Writes(c, d, ins, Br(y)), NEW ql, y \notin ql, NEW M, M[ins] = L[ins]
  PROVE  /\ Meant(tt, J, M, d, ql, Append(s, "else"), ins, Len(c[ins]) + 1)
         /\ Owner(tt, J, Append(s, "else"), Len(s) + 1, Len(tt), y)
  <1> DEFINE t == Append(s, "else")
             n == Len(s)
             i == Br(y)
  <1>1. i.op = "br" /\ i.to[1] = y BY BrFields
  <1>2. Levels(st, s) /\ s \in Seq(Kinds) BY DEF Faith, Struct
  <1>3. n \in Nat /\ Len(t) = n + 1 /\ t[n + 1] = "else" /\ "else" \in Kinds
    <2>1. "else" \in Kinds BY DEF Kinds
    <2> QED BY <1>2, <2>1, FollowsAppend DEF Follows
  <1>4. Owner(tt, J, t, n + 1, Len(tt), y)
    <2>1. "if" \in Classes /\ "else" \notin Closes("if") BY ClassFacts DEF Classes
    <2>2. Pending(t, "if", n + 1, Rank(tt, "if", Len(tt))) BY <1>2, <1>3, <2>1, PendingNew
    <2>3. t[n + 1] = "else" BY <1>3
    <2> HIDE DEF t, n
    <2> QED BY <2>2, <2>3 DEF Owner
  <1>5. n + 1 \in 1..Len(t) /\ n + 1 # n + 2 BY <1>3
  <1> HIDE DEF t
  <1>6. Far(tt, J, M, d, ql, t, n + 1, y) BY <1>4 DEF Far
  <1> HIDE DEF i
  <1>7. \A f : f # Len(s) + 2 => Goes(tt, J, M, d, ql, t, f, n + 1, i.to[1])
    BY <1>1, <1>3, <1>5, <1>6 DEF Goes
  <1>8. Writes(c, d, ins, i) BY DEF i
  <1>9. Meant(tt, J, M, d, ql, t, ins, Len(c[ins]) + 1)
    <2>1. n + 1 \in {Len(s) + 1, Len(s) + 2} OBVIOUS
    <2>2. n + 1 = Len(s) + 2 => "else" \in Passed BY <1>5
    <2> QED BY <1>1, <1>3, <1>7, <1>8, <2>1, <2>2, MeantBr DEF t
  <1> QED BY <1>4, <1>9 DEF t

LEMMA FaithElse ==
  ASSUME Building, Rest, Emitting, NEW K, NEW L, Faithful(K, L), ElseStart
  PROVE  FaithNext
  <1> DEFINE x == Top.alt
             y == Top.end
             i == Br(y)
             g == Frame("elseEnd", 0, 0, Top.end, 0)
             d == Add(code, insert, i)
             tt == Append(Popped, g)
             M == Begins(L, x, Len(src) + 2)
             ql == placed \cup {x}
  <1>1. /\ Walking /\ Top.k = "thenEnd" /\ x # 0 /\ code' = BranchTo(code, y) /\ placed' = ql /\ insert' = x
        /\ stack' = Popped \o <<g, Waiting("stmt")>> /\ src' = Append(src, "else")
    BY DEF ElseStart, At, StartBlock, Replace, Visit
  <1>2. FrameOK(Top, Len(code)) /\ Len(code) \in Nat /\ Top \in Frames BY <1>1, TopFacts
  <1>3. /\ x \in Nat /\ y \in Nat /\ y # 0 /\ x \in Owed(Top) /\ y \in Owed(Top) /\ x # y
        /\ y \in 2..Len(code)
    <2>1. x \in Nat /\ y \in Nat /\ x # 0 /\ y # 0 /\ x # y BY <1>1, <1>2 DEF FrameOK, Frames
    <2>2. x \in Owed(Top) /\ y \in Owed(Top) BY <2>1 DEF Owed
    <2> QED BY <2>1, <2>2, <1>2 DEF FrameOK
  <1>4. g.k = "elseEnd" /\ g.end = y /\ g \in Frames
    <2>1. "elseEnd" \in FrameKinds /\ 0 \in Nat BY DEF FrameKinds
    <2> QED BY <1>3, <2>1 DEF Frame, Frames
  <1>5. (IF Top.k = "thenEnd" /\ Top.alt # 0 THEN Top.alt ELSE Top.end) = x BY <1>1
  <1> HIDE DEF x, y, g
  <1>6. i \in Instrs /\ code' = d BY <1>1, <1>3, BrFacts, BranchToFacts
  <1>7. /\ Top.k \notin ExprKinds /\ Top.k \in Holders("if") /\ "if" \in Classes
        /\ g.k \in Holders("if") /\ g.k \notin Joins /\ g.k \notin Loopers
        /\ "else" \in Kinds /\ "else" \notin {"break", "continue", "endwhile"}
    BY <1>1, <1>4, ClassFacts DEF ExprKinds, Classes, Joins, Loopers, Kinds
  <1>8. /\ Faith(stack, K, L, code, placed, insert, src)
        /\ stack \in Stacks /\ stack # <<>> /\ Popped \in Stacks /\ Len(stack) \in Nat
        /\ Len(Popped) = Len(stack) - 1 /\ Len(stack) = Len(Popped) + 1 /\ Len(Popped) \in Nat
        /\ Top = stack[Len(stack)]
        /\ ~(src # <<>> /\ src[Len(src)] = "while")
        /\ \A h \in 1..Len(Popped) : Popped[h].k \notin Joins /\ Popped[h] = stack[h]
        /\ Struct(stack, K, src) /\ Levels(stack, src) /\ src \in Seq(Kinds)
    <2>1. Top.k # "expr" BY <1>1
    <2> QED BY <1>1, <1>7, <2>1, AtTop DEF Top, Struct
  <1>9. /\ Writes(code, d, insert, i) /\ insert # x /\ insert \in Nat /\ y \notin placed
    BY <1>1, <1>3, <1>6, MoveFacts
  <1>10. tt \in Stacks /\ Len(tt) = Len(stack) /\ tt[Len(tt)] = g /\ Len(tt) \in 1..Len(tt)
    <2>1. tt \in Stacks /\ Len(tt) = Len(Popped) + 1 /\ tt[Len(Popped) + 1] = g BY <1>4, <1>8, StackFacts
    <2> QED BY <2>1, <1>8
  <1>11. Suits(stack, tt, K, K, src, "else", Len(stack) - 1)
    <2>1. stack[Len(stack)].k \in Holders("if") BY <1>7, <1>8
    <2>2. \A h \in 1..Len(stack) - 1 : stack[h].k \in Joins => "else" \in Exprs BY <1>8
    <2>3. Suits(stack, Append(SubSeq(stack, 1, Len(stack) - 1), g), K, K, src, "else", Len(stack) - 1)
      BY <1>4, <1>7, <1>8, <2>1, <2>2, SuitsSwap
    <2> QED BY <2>3 DEF Popped
  <1>12. M[x] = Len(src) + 2 /\ M[insert] = L[insert]
    <2>1. x \in Nat /\ insert # x /\ insert \in Nat BY <1>3, <1>9
    <2>2. ASSUME NEW n PROVE Begins(L, x, n)[x] = n /\ Begins(L, x, n)[insert] = L[insert] BY <2>1, BeginsFacts
    <2> QED BY <2>2
  <1> HIDE DEF tt, M
  <1>13. /\ Meant(tt, K, M, d, ql, Append(src, "else"), insert, Len(code[insert]) + 1)
         /\ Owner(tt, K, Append(src, "else"), Len(src) + 1, Len(tt), y)
    <2>1. tt[Len(tt)].k = "elseEnd" /\ y = tt[Len(tt)].end BY <1>4, <1>10
    <2>2. y \notin ql BY <1>3, <1>9
    <2>3. Writes(code, d, insert, Br(y)) BY <1>9
    <2> HIDE DEF ql, d
    <2> QED BY <1>3, <1>8, <1>10, <1>11, <1>12, <2>1, <2>2, <2>3, MeantElse
  <1>14. \A m \in 1..Len(src) : \A z :
           Owner(stack, K, src, m, Len(stack), z) =>
             /\ z \in ql /\ Dest(Append(src, "else"), m, M[z])
             /\ src[m] \notin {"and", "or"}
    <2> SUFFICES ASSUME NEW m \in 1..Len(src), NEW z, Owner(stack, K, src, m, Len(stack), z)
                 PROVE  /\ z \in ql /\ Dest(Append(src, "else"), m, M[z])
                        /\ src[m] \notin {"and", "or"}
      OBVIOUS
    <2>1. "else" \in {"else", "endif", "endwhile"} OBVIOUS
    <2>2. /\ z = (IF Top.k = "thenEnd" /\ Top.alt # 0 THEN Top.alt ELSE Top.end)
          /\ Dest(Append(src, "else"), m, Len(src) + 2) /\ src[m] \notin {"and", "or"}
      <3>1. stack \in Stacks /\ src \in Seq(Kinds) /\ Levels(stack, src) /\ Top = stack[Len(stack)] BY <1>8
      <3>2. Top.k = "thenEnd" /\ "else" # "endif" /\ "else" # "endwhile" BY <1>1
      <3> QED BY <2>1, <3>1, <3>2, OwnerMet, SMTT(60)
    <2>3. z = x BY <2>2, <1>5
    <2> QED BY <2>2, <2>3, <1>12
  <1>15. Marked(g, K[Len(stack)], M, d, x, Append(src, "else")) BY <1>7 DEF Marked
  <1>16. \E h \in 1..Len(stack) : \E z \in {tt[h].alt, tt[h].end} : Owner(tt, K, Append(src, "else"), Len(src) + 1, h, z)
    <2>1. Len(tt) \in 1..Len(stack) /\ y \in {tt[Len(tt)].alt, tt[Len(tt)].end} BY <1>4, <1>10
    <2> QED BY <2>1, <1>13
  <1> HIDE DEF d, ql, i
  <1>17. Faith(Popped \o <<g, Waiting("stmt")>>, K, M, d, ql, x, Append(src, "else"))
    <2>1. d = Add(code, insert, i) BY DEF d
    <2>2. Faith(Popped \o <<g, Waiting("stmt")>>, K, Begins(L, x, Len(src) + 2), d, placed \cup {x}, x, Append(src, "else"))
      BY <1>1, <1>3, <1>4, <1>6, <1>7, <1>13, <1>14, <1>15, <1>16, <2>1, FaithSwap DEF M, ql, tt
    <2> QED BY <2>2 DEF M, ql
  <1>18. Faith(stack', K, M, code', placed', insert', src') BY <1>1, <1>6, <1>17 DEF ql
  <1> QED BY <1>18 DEF FaithNext

LEMMA FaithWhile ==
  ASSUME Building, Rest, Emitting, NEW K, NEW L, Faithful(K, L), WhileStmt
  PROVE  FaithNext
  <1> DEFINE n == Len(code)
             x == n + 1
             f == Frame("whileCond", n + 2, 0, n + 3, n + 1)
             J == [i \in Nat |-> IF i = Len(Base) + 1 THEN Len(src) + 1 ELSE K[i]]
             tt == Append(Base, f)
             i == Br(x)
             d == Add(Blocks(code, 3), insert, i)
             M == Begins(L, x, Len(src) + 2)
             ql == placed \cup {x}
             t == Append(src, "while")
  <1>1. /\ AtStmt /\ src' = t /\ code' = d /\ placed' = ql /\ insert' = x
        /\ stack' = Base \o <<f, Waiting("expr")>>
    BY DEF WhileStmt, Begin, NBlocks, Base, Visit, StartBlock
  <1>2. /\ Faith(Base, K, L, code, placed, insert, src) /\ Base \in Stacks /\ Graph(code, placed, insert)
        /\ code \in Codes /\ placed \subseteq 1..n /\ insert \in 1..n /\ n \in Nat /\ Len(Base) \in Nat
        /\ ~(src # <<>> /\ src[Len(src)] = "while")
        /\ \A h \in 1..Len(Base) : Base[h].k \notin Joins
        /\ \A h \in 1..Len(Base) : Base[h].k \in Loopers \cup Joins => Base[h].back \in placed
        /\ Owes(Base, n, placed, {})
        /\ Struct(Base, K, src) /\ src \in Seq(Kinds)
    BY <1>1, AtBase
  <1>3. f \in Frames /\ f.k = "whileCond" /\ f.back = x
    BY <1>2 DEF Frame, Frames, FrameKinds
  <1>4. x \in Nat /\ x \in 2..n + 3 /\ x \notin placed /\ insert # x /\ insert \in Nat /\ x \in 2..x
        /\ x \in n + 1..n + 3
    <2>1. x \in Nat /\ x \in 2..n + 3 /\ x \notin 1..n /\ x \in n + 1..n + 3 /\ x \in 2..x BY <1>2
    <2> QED BY <2>1, <1>2
  <1>5. \A h \in 1..Len(Base) : x \notin Owed(Base[h])
    <2>1. x \notin 2..n BY <1>2
    <2> QED BY <2>1, <1>2 DEF Owes, FrameOK
  <1>6. i \in Instrs BY <1>4, BrFacts
  <1> HIDE DEF f, i
  <1>7. Writes(code, d, insert, i) /\ Len(d) = n + 3 /\ d[x] = <<>> /\ d \in Codes
    <2>1. 3 \in Nat OBVIOUS
    <2>2. /\ Writes(code, d, insert, i) /\ Len(d) = n + 3
          /\ \A b \in n + 1..n + 3 : d[b] = <<>>
      BY <1>2, <1>6, <2>1, WritesFacts
    <2> QED BY <2>2, <1>4 DEF Writes
  <1> HIDE DEF n, x, d
  <1>8. f.k \in Holders("while") /\ "while" \in Opens("while") /\ "while" \in Classes /\ "while" \in Kinds /\ "while" \in Passed
        /\ f.k \in Loopers /\ f.k \notin Joins /\ f.k # "andRhs" /\ f.k # "orRhs"
    BY <1>3, ClassFacts DEF Classes, Kinds, Passed, Loopers, Joins
  <1>9. /\ \A h \in 1..Len(Base) : J[h] = K[h]
        /\ J[Len(Base) + 1] = Len(src) + 1
    <2>1. \A h \in 1..Len(Base) : h \in Nat /\ h # Len(Base) + 1 BY <1>2
    <2>2. Len(Base) + 1 \in Nat BY <1>2
    <2> QED BY <2>1, <2>2
  <1> HIDE DEF J
  <1>10. Suits(Base, tt, K, J, src, "while", Len(Base)) BY <1>2, <1>3, <1>8, <1>9, SuitsOpen
  <1>11. Shared(Base, tt, K, J, Len(Base)) BY <1>2, <1>3, <1>9, SharedStacks
  <1>12. tt[Len(Base) + 1] = f /\ tt \in Stacks BY <1>2, <1>3, StackFacts
  <1> HIDE DEF tt
  <1>13. M[x] = Len(src) + 2
    <2>1. ASSUME NEW b PROVE Begins(L, x, b)[x] = b BY <1>4, BeginsFacts
    <2> QED BY <2>1
  <1>14. Meant(tt, J, M, d, ql, t, insert, Len(code[insert]) + 1)
    <2>1. Writes(code, d, insert, Br(x)) BY <1>7 DEF i
    <2>2. Faith(Base, K, L, code, placed, insert, src) BY <1>2
    <2> QED BY <1>4, <1>8, <2>1, <2>2, MeantNext
  <1>15. Marked(f, Len(src) + 1, M, d, x, t)
    <2>1. Len(t) = Len(src) + 1 /\ Len(src) \in Nat BY <1>2, <1>8, FollowsAppend DEF Follows
    <2>2. M[f.back] = (Len(src) + 1) + 1 /\ x = f.back /\ d[x] = <<>> /\ ~(Len(src) + 1 < Len(t))
      BY <2>1, <1>3, <1>7, <1>13
    <2> HIDE DEF M, t
    <2> QED BY <2>2, <1>8 DEF Marked
  <1> HIDE DEF M, ql, t
  <1>16. Faith(tt, J, M, d, ql, x, t)
    <2>1. ~(Len(Base) = Len(Base) + 1) BY <1>2
    <2>2. "while" \notin {"else", "break"} /\ "while" \notin {"continue", "endwhile"} OBVIOUS
    <2>3. \A h \in 1..Len(tt) : h = Len(Base) + 1 => Marked(tt[h], J[h], M, d, x, t) BY <1>9, <1>12, <1>15
    <2>4. x \in (2..Len(d)) \ placed BY <1>4, <1>7
    <2>5. \A m \in 1..Len(src) : \A y :
           Len(Base) = Len(Base) + 1 /\ Owner(Base, K, src, m, Len(Base) + 1, y) =>
             /\ y \in placed \cup {x} /\ Dest(Append(src, "while"), m, Begins(L, x, Len(src) + 2)[y])
             /\ src[m] \notin {"and", "or"}
      BY <2>1
    <2>6. /\ Meant(tt, J, Begins(L, x, Len(src) + 2), d, placed \cup {x}, Append(src, "while"), insert, Len(code[insert]) + 1)
          /\ \A h \in 1..Len(tt) : h = Len(Base) + 1 => Marked(tt[h], J[h], Begins(L, x, Len(src) + 2), d, x, Append(src, "while"))
      BY <1>14, <2>3 DEF M, ql, t
    <2>7. Faith(tt, J, Begins(L, x, Len(src) + 2), d, placed \cup {x}, x, Append(src, "while"))
      BY <1>2, <1>4, <1>5, <1>7, <1>8, <1>10, <1>11, <2>2, <2>4, <2>5, <2>6, FaithMoves
    <2> QED BY <2>7 DEF M, ql, t
  <1>17. Faith(Base \o <<f, Waiting("expr")>>, J, M, d, ql, x, t)
    <2>1. ql \subseteq 1..Len(d)
      <3>1. x \in 1..n + 3 /\ 1..n \subseteq 1..n + 3 BY <1>2, <1>4
      <3> QED BY <3>1, <1>2, <1>7 DEF ql
    <2>2. "expr" \in Quiet BY QuietKinds
    <2> QED BY <1>2, <1>3, <1>7, <1>16, <2>1, <2>2, FaithPush DEF tt
  <1>18. Faith(stack', J, M, code', placed', insert', src') BY <1>1, <1>17
  <1> QED BY <1>18 DEF FaithNext

(* The innermost activation is a loop's.                                   *)
LEMMA LoopTop ==
  ASSUME Building, Emitting, Walking, NEW K, NEW L, Faithful(K, L), Top.k \in Loopers,
         NEW i \in Instrs, NEW x \in Owed(Top), NEW d, d = Add(code, insert, i), NEW M, M = Begins(L, x, Len(src) + 2),
         NEW k \in Kinds
  PROVE  /\ Direct(Append(src, k), K[Len(stack)], Len(src) + 1) /\ K[Len(stack)] \in 1..Len(src)
         /\ Top.back \in placed /\ Top.back \in Nat
         /\ M[Top.back] = K[Len(stack)] + 1 /\ d[Top.back] # <<>> /\ d[Top.back][1].op = "eval"
         /\ M[x] = Len(src) + 2 /\ M[insert] = L[insert]
  <1> DEFINE b == Top.back
             h == Len(stack)
  <1>1. Top.k # "expr" BY DEF Loopers
  <1>2. /\ Faith(stack, K, L, code, placed, insert, src) /\ stack \in Stacks /\ Len(stack) \in Nat
        /\ h \in 1..Len(stack) /\ Top = stack[h] /\ ~(src # <<>> /\ src[Len(src)] = "while")
        /\ \A j \in 1..Len(stack) : stack[j].k \in Loopers \cup Joins => stack[j].back \in placed
        /\ Graph(code, placed, insert) /\ placed \subseteq 1..Len(code) /\ code \in Codes
    BY <1>1, AtTop DEF Top
  <1>3. \A j \in h + 1..Len(stack) : stack[j].k \notin Loopers BY <1>2
  <1>4. stack[h].k \in Loopers BY <1>2
  <1>5. /\ Direct(Append(src, k), K[h], Len(src) + 1) /\ K[h] \in 1..Len(src)
        /\ L[stack[h].back] = K[h] + 1 /\ code[stack[h].back] # <<>> /\ code[stack[h].back][1].op = "eval"
    BY <1>2, <1>3, <1>4, LoopBack
  <1>6. b \in placed /\ b = stack[h].back BY <1>2, <1>4
  <1>7. /\ Writes(code, d, insert, i) /\ insert # x /\ insert \in Nat /\ x \in Nat
        /\ \A y \in placed : y \in Nat /\ y # x
    BY MoveFacts
  <1>8. Open(code[insert]) BY <1>2 DEF Graph
  <1>9. Outgrows(code, d) BY <1>7, <1>8, WritesOutgrows
  <1>10. b \in 1..Len(code) BY <1>2, <1>6
  <1>11. d[b] # <<>> /\ d[b][1].op = "eval"
    <2>1. code[b] # <<>> => d[b] # <<>> /\ d[b][1] = code[b][1] BY <1>9, <1>10, OutgrowsFacts
    <2> QED BY <2>1, <1>5, <1>6
  <1>12. b \in Nat /\ b # x BY <1>6, <1>7
  <1>13. M[b] = L[b] /\ M[x] = Len(src) + 2 /\ M[insert] = L[insert]
    <2>1. ASSUME NEW n PROVE Begins(L, x, n)[b] = L[b] /\ Begins(L, x, n)[x] = n /\ Begins(L, x, n)[insert] = L[insert]
      BY <1>7, <1>12, BeginsFacts
    <2> QED BY <2>1
  <1> QED BY <1>5, <1>6, <1>11, <1>12, <1>13

LEMMA FaithWhileCond ==
  ASSUME Building, Rest, Emitting, NEW K, NEW L, Faithful(K, L), WhileCond
  PROVE  FaithNext
  <1> DEFINE x == Top.next
             y == Top.end
             i == CondBr(value, x, y, Node)
             g == Frame("bodyEnd", 0, 0, Top.end, Top.back)
             d == Add(code, insert, i)
             tt == Append(Popped, g)
             M == Begins(L, x, Len(src) + 2)
             ql == placed \cup {x}
  <1>1. /\ Walking /\ Top.k = "whileCond" /\ code' = d /\ placed' = ql /\ insert' = x
        /\ stack' = Popped \o <<g, Waiting("stmt")>> /\ src' = Append(src, "do")
    BY DEF WhileCond, At, StartBlock, Replace, Visit
  <1>2. FrameOK(Top, Len(code)) /\ Len(code) \in Nat /\ Top \in Frames BY <1>1, TopFacts
  <1>3. /\ x \in Nat /\ y \in Nat /\ x # 0 /\ y # 0 /\ y # x /\ Top.back \in Nat
        /\ {x, y} \subseteq 2..Len(code)
        /\ {x, y} \subseteq Owed(Top)
    BY <1>1, <1>2 DEF FrameOK, Frames, Owed
  <1>4. x \in 2..Len(code) /\ y \in 2..Len(code) /\ x \in Owed(Top) /\ y \in Owed(Top) BY <1>3
  <1>5. value \in Nat /\ Node \in Nat BY NodeFacts DEF Rest
  <1>6. g.k = "bodyEnd" /\ g.end = y /\ g \in Frames /\ g.back = Top.back
    <2>1. "bodyEnd" \in FrameKinds /\ 0 \in Nat BY DEF FrameKinds
    <2> QED BY <1>3, <2>1 DEF Frame, Frames
  <1> HIDE DEF x, y, g
  <1>8. i \in Instrs BY <1>3, <1>4, <1>5, CondBrFacts
  <1>9. Top.k \notin ExprKinds /\ Top.k \in Hungry /\ Top.k \in Holders("while") /\ "while" \in Classes
        /\ g.k \in Holders("while") /\ g.k \notin Joins /\ Top.k \in Loopers
        /\ "do" \in Kinds /\ "do" \in Plain /\ "do" \notin {"break", "continue", "endwhile"}
    BY <1>1, <1>6, ClassFacts DEF ExprKinds, Hungry, Eaters, Classes, Joins, Loopers, Kinds, Plain
  <1>10. /\ Faith(stack, K, L, code, placed, insert, src)
         /\ stack \in Stacks /\ stack # <<>> /\ Popped \in Stacks /\ Len(stack) \in Nat
         /\ Len(Popped) = Len(stack) - 1 /\ Len(stack) = Len(Popped) + 1 /\ Len(Popped) \in Nat
         /\ value = Len(src) /\ Len(src) >= 1 /\ Top = stack[Len(stack)] /\ Len(src) \in Nat
         /\ ~(src # <<>> /\ src[Len(src)] = "while")
         /\ \A h \in 1..Len(Popped) : Popped[h].k \notin Joins /\ Popped[h] = stack[h]
         /\ Struct(stack, K, src) /\ src \in Seq(Kinds)
    BY <1>1, <1>9, AtTop, LenProperties DEF Top
  <1>11. /\ Writes(code, d, insert, i) /\ insert # x /\ insert \in Nat /\ y \notin placed
    BY <1>1, <1>4, <1>8, MoveFacts
  <1>12. tt \in Stacks /\ Len(tt) = Len(Popped) + 1 /\ tt[Len(tt)] = g /\ Len(tt) \in 1..Len(tt)
    <2>1. tt \in Stacks /\ Len(tt) = Len(Popped) + 1 /\ tt[Len(Popped) + 1] = g BY <1>6, <1>10, StackFacts
    <2> QED BY <2>1, <1>10
  <1>13. Suits(stack, tt, K, K, src, "do", Len(stack) - 1)
    <2>1. stack[Len(stack)].k \in Holders("while") BY <1>9, <1>10
    <2>2. \A h \in 1..Len(stack) - 1 : stack[h].k \in Joins => "do" \in Exprs BY <1>10
    <2>3. Suits(stack, Append(SubSeq(stack, 1, Len(stack) - 1), g), K, K, src, "do", Len(stack) - 1)
      BY <1>6, <1>9, <1>10, <2>1, <2>2, SuitsSwap
    <2> QED BY <2>3 DEF Popped
  <1> HIDE DEF tt
  <1>14. Meant(tt, K, M, d, ql, Append(src, "do"), insert, Len(code[insert]) + 1)
    <2>1. i = CondBr(Len(src), x, y, Len(src) + 1) BY <1>10 DEF Node
    <2>2. "do" \in {"then", "do"} /\ "do" # "then" OBVIOUS
    <2>3. tt[Len(tt)].k = "bodyEnd" /\ y = tt[Len(tt)].end BY <1>6, <1>12
    <2> HIDE DEF i, d
    <2> QED BY <1>3, <1>10, <1>11, <1>12, <1>13, <2>1, <2>2, <2>3, MeantCond
  <1>15. \A m \in 1..Len(src) : \A z : ~Owner(stack, K, src, m, Len(stack), z)
    <2>1. stack[Len(stack)].k = "whileCond" BY <1>1, <1>10
    <2> QED BY <2>1 DEF Owner, Joins
  <1> HIDE DEF i, M, d
  <1>16. Marked(g, K[Len(stack)], M, d, x, Append(src, "do"))
    <2>1. d = Add(code, insert, i) /\ M = Begins(L, x, Len(src) + 2) BY DEF d, M
    <2>2. /\ K[Len(stack)] \in 1..Len(src) /\ M[Top.back] = K[Len(stack)] + 1
          /\ d[Top.back] # <<>> /\ d[Top.back][1].op = "eval"
      BY <1>1, <1>4, <1>8, <1>9, <2>1, LoopTop
    <2>3. Len(Append(src, "do")) = Len(src) + 1 BY <1>9, <1>10, FollowsAppend
    <2>4. K[Len(stack)] < Len(Append(src, "do")) BY <1>10, <2>2, <2>3
    <2> QED BY <1>6, <1>9, <2>2, <2>4 DEF Marked
  <1> HIDE DEF ql
  <1>17. Faith(Popped \o <<g, Waiting("stmt")>>, K, M, d, ql, x, Append(src, "do"))
    <2>1. "do" # "else" OBVIOUS
    <2>2. d = Add(code, insert, i) BY DEF d
    <2>3. Meant(Append(Popped, g), K, M, d, ql, Append(src, "do"), insert, Len(code[insert]) + 1)
      BY <1>14 DEF tt
    <2>4. Faith(Popped \o <<g, Waiting("stmt")>>, K, Begins(L, x, Len(src) + 2), d, placed \cup {x}, x, Append(src, "do"))
      BY <1>1, <1>4, <1>6, <1>8, <1>9, <1>15, <1>16, <2>1, <2>2, <2>3, FaithSwap DEF M, ql
    <2> QED BY <2>4 DEF M, ql
  <1>18. Faith(stack', K, M, code', placed', insert', src') BY <1>1, <1>17 DEF d, ql, i
  <1> QED BY <1>18 DEF FaithNext

LEMMA FaithBodyEnd ==
  ASSUME Building, Rest, Emitting, NEW K, NEW L, Faithful(K, L), BodyEnd
  PROVE  FaithNext
  <1> DEFINE x == Top.end
             b == Top.back
             i == Br(b)
             d == Add(code, insert, i)
             M == Begins(L, x, Len(src) + 2)
             ql == placed \cup {x}
             t == Append(src, "endwhile")
             n == Len(src)
  <1>1. /\ Walking /\ Top.k = "bodyEnd"
        /\ code' = BranchTo(code, b) /\ placed' = ql /\ insert' = x
        /\ stack' = Popped \o <<>> /\ src' = t
    BY DEF BodyEnd, At, StartBlock, Replace, Visit
  <1>2. FrameOK(Top, Len(code)) /\ Len(code) \in Nat /\ Top \in Frames BY <1>1, TopFacts
  <1>3. x \in Nat /\ x # 0 /\ x \in Owed(Top) /\ x \in 2..Len(code) /\ b \in Nat /\ b \in 2..Len(code)
    <2>1. x \in Nat /\ x # 0 /\ b \in Nat /\ b \in 2..Len(code) BY <1>1, <1>2 DEF FrameOK, Frames
    <2>2. x \in Owed(Top) BY <2>1 DEF Owed
    <2> QED BY <2>1, <2>2, <1>2 DEF FrameOK
  <1>4. (IF Top.k = "thenEnd" /\ Top.alt # 0 THEN Top.alt ELSE Top.end) = x BY <1>1
  <1> HIDE DEF x
  <1>5. i \in Instrs /\ code' = d BY <1>1, <1>3, BrFacts, BranchToFacts
  <1>6. /\ Top.k \notin ExprKinds /\ Top.k \in Holders("while") /\ "while" \in Classes /\ Top.k \in Loopers
        /\ "endwhile" \in Closes("while") /\ "endwhile" \in {"endif", "endwhile"} /\ "endwhile" \in Kinds
    BY <1>1, ClassFacts DEF ExprKinds, Classes, Kinds, Loopers
  <1>7. /\ Faith(stack, K, L, code, placed, insert, src) /\ stack \in Stacks
        /\ Top = stack[Len(stack)] /\ Levels(stack, src) /\ src \in Seq(Kinds)
    BY <1>1, AtTop DEF Top, Struct
  <1>8. Writes(code, d, insert, i) BY <1>1, <1>3, <1>5, MoveFacts
  <1>9. /\ Direct(t, K[Len(stack)], n + 1) /\ K[Len(stack)] \in 1..n
        /\ b \in placed /\ M[b] = K[Len(stack)] + 1 /\ d[b] # <<>> /\ d[b][1].op = "eval"
        /\ M[x] = n + 2 /\ M[insert] = L[insert]
    BY <1>1, <1>3, <1>5, <1>6, LoopTop
  <1> HIDE DEF b, M
  <1>10. n \in Nat /\ Len(t) = n + 1 /\ t[n + 1] = "endwhile" BY <1>6, <1>7, FollowsAppend DEF Follows
  <1>11. Meant(Popped, K, M, d, ql, t, insert, Len(code[insert]) + 1)
    <2>1. i.op = "br" /\ i.to[1] = b BY BrFields
    <2> HIDE DEF i, d, t
    <2>2. \A f : f # n + 2 => Goes(Popped, K, M, d, ql, t, f, n + 1, i.to[1])
      <3>1. K[Len(stack)] \in Nat /\ n + 1 \in 1..Len(t) /\ b \in ql /\ t[n + 1] \in {"continue", "endwhile"}
        BY <1>9, <1>10
      <3>2. \A tt, J, f : Goes(tt, J, M, d, ql, t, f, n + 1, b) BY <1>9, <3>1, GoesBack
      <3> QED BY <2>1, <3>2
    <2>3. n + 1 \in {Len(src) + 1, Len(src) + 2} /\ (n + 1 = Len(src) + 2 => "endwhile" \in Passed) BY <1>10
    <2> HIDE DEF ql
    <2> QED BY <1>6, <1>7, <1>8, <1>9, <2>1, <2>2, <2>3, MeantBr DEF t
  <1> HIDE DEF d, i
  <1>12. \A m \in 1..Len(src) : \A y :
           Owner(stack, K, src, m, Len(stack), y) =>
             /\ y \in ql /\ Dest(t, m, M[y])
             /\ src[m] \notin {"and", "or"}
    <2> SUFFICES ASSUME NEW m \in 1..Len(src), NEW y, Owner(stack, K, src, m, Len(stack), y)
                 PROVE  /\ y \in ql /\ Dest(t, m, M[y])
                        /\ src[m] \notin {"and", "or"}
      OBVIOUS
    <2>1. "endwhile" \in {"else", "endif", "endwhile"} OBVIOUS
    <2>2. /\ y = (IF Top.k = "thenEnd" /\ Top.alt # 0 THEN Top.alt ELSE Top.end)
          /\ Dest(t, m, Len(src) + 2) /\ src[m] \notin {"and", "or"}
      BY <1>1, <1>7, <2>1, OwnerMet
    <2>3. y = x BY <2>2, <1>4
    <2> QED BY <2>2, <2>3, <1>9
  <1> HIDE DEF ql
  <1>13. \E w \in 1..Len(src) : Direct(t, w, Len(src) + 1) BY <1>9
  <1>14. Faith(Popped \o <<>>, K, M, d, ql, x, t)
    <2>1. d = Add(code, insert, i) BY DEF d
    <2>2. Faith(Popped \o <<>>, K, Begins(L, x, Len(src) + 2), d, placed \cup {x}, x, Append(src, "endwhile"))
      BY <1>1, <1>3, <1>5, <1>6, <1>11, <1>12, <1>13, <2>1, FaithShut DEF M, ql, t
    <2> QED BY <2>2 DEF M, ql, t
  <1>15. Faith(stack', K, M, code', placed', insert', src') BY <1>1, <1>5, <1>14 DEF ql
  <1> QED BY <1>15 DEF FaithNext

(* The branch between the operands of && and ||.                           *)
LEMMA MeantFork ==
  ASSUME NEW st \in Stacks, NEW K, NEW L, NEW c, NEW pl, NEW s, NEW ins, Faith(st, K, L, c, pl, ins, s),
         NEW k \in {"and", "or"}, NEW tt, NEW J, Len(tt) \in 1..Len(tt),
         tt[Len(tt)].k \in Joins, J[Len(tt)] = Len(s) + 1,
         NEW d, NEW x \in Nat, NEW y \in Nat, y = tt[Len(tt)].end, NEW i,
         i = (IF k = "and" THEN CondBr(Len(s), x, y, Len(s) + 1) ELSE CondBr(Len(s), y, x, Len(s) + 1)),
         Writes(c, d, ins, i), Len(s) >= 1, x # y, y \notin pl, ins # x, ins \in Nat
  PROVE  Meant(tt, J, Begins(L, x, Len(s) + 2), d, pl \cup {x}, Append(s, k), ins, Len(c[ins]) + 1)
  <1> DEFINE M == Begins(L, x, Len(s) + 2)
             t == Append(s, k)
             n == Len(s)
             ql == pl \cup {x}
  <1>1. M[x] = n + 2 /\ M[ins] = L[ins]
    <2>1. ASSUME NEW b PROVE Begins(L, x, b)[x] = b /\ Begins(L, x, b)[ins] = L[ins] BY BeginsFacts
    <2> QED BY <2>1
  <1>2. s \in Seq(Kinds) BY DEF Faith, Struct
  <1>3. n \in Nat /\ Len(t) = n + 1 /\ t[n + 1] = k /\ k \in Kinds
    <2>1. k \in Kinds BY DEF Kinds
    <2> QED BY <1>2, <2>1, FollowsAppend DEF Follows
  <1>4. /\ i.op = "condbr" /\ i.use = {n} /\ i.node = n + 1 /\ Len(i.to) = 2
        /\ k = "and" => i.to[1] = x /\ i.to[2] = y
        /\ k = "or" => i.to[1] = y /\ i.to[2] = x
    <2>1. CASE k = "and"
      <3>1. i = CondBr(n, x, y, n + 1) BY <2>1
      <3> QED BY <2>1, <3>1, CondBrFields
    <2>2. CASE k = "or"
      <3>1. i = CondBr(n, y, x, n + 1) BY <2>2
      <3> QED BY <2>2, <3>1, CondBrFields
    <2> QED BY <2>1, <2>2
  <1> HIDE DEF M
  <1>5. Owner(tt, J, t, n + 1, Len(tt), y)
    <2>1. t[n + 1] \notin {"then", "else", "do", "break"} BY <1>3
    <2> HIDE DEF t
    <2> QED BY <2>1 DEF Owner
  <1>6. Near(t, i) = x /\ Away(t, i) = y
    <2>1. t[i.node] = k BY <1>3, <1>4
    <2> HIDE DEF t
    <2> QED BY <2>1, <1>4 DEF Near, Away
  <1>7. Branching(tt, J, M, d, ql, t, i)
    <2>1. y \notin ql /\ x \in ql OBVIOUS
    <2>2. Far(tt, J, M, d, ql, t, i.node, y) BY <2>1, <1>4, <1>5 DEF Far
    <2>3. i.use = {i.node - 1} /\ i.node >= 2 /\ M[x] = i.node + 1
      <3>1. (n + 1) - 1 = n /\ n + 1 >= 2 /\ (n + 1) + 1 = n + 2 BY <1>3
      <3> QED BY <3>1, <1>1, <1>4
    <2>4. t[i.node] \in {"then", "do", "and", "or"} BY <1>3, <1>4
    <2> HIDE DEF t, ql, n
    <2> QED BY <1>4, <1>6, <2>1, <2>2, <2>3, <2>4 DEF Branching
  <1> HIDE DEF ql
  <1>8. i.op \in {"eval", "store", "ret", "condbr"} /\ i.op \notin {"eval", "store", "ret"} BY <1>4
  <1>9. Meant(tt, J, M, d, ql, t, ins, Len(c[ins]) + 1) BY <1>1, <1>3, <1>4, <1>7, <1>8, MeantPlain
  <1> QED BY <1>9 DEF M, ql

(* The branch is the last instruction of the block the left operand ends in. *)
LEMMA ForkEnd ==
  ASSUME NEW c, NEW d, NEW s \in Seq(Kinds), NEW ins, NEW k \in {"and", "or"}, NEW x \in Nat, NEW y \in Nat, NEW i,
         i = (IF k = "and" THEN CondBr(Len(s), x, y, Len(s) + 1) ELSE CondBr(Len(s), y, x, Len(s) + 1)),
         Writes(c, d, ins, i)
  PROVE  /\ d[ins] # <<>> /\ LastOf(d[ins]).op = "condbr" /\ LastOf(d[ins]).node = Len(s) + 1
         /\ Away(Append(s, k), LastOf(d[ins])) = y
  <1> DEFINE n == Len(s)
             t == Append(s, k)
  <1>1. t[n + 1] = k
    <2>1. k \in Kinds BY DEF Kinds
    <2> QED BY <2>1, FollowsAppend DEF Follows
  <1>2. n \in Nat BY LenProperties
  <1>3. /\ i.op = "condbr" /\ i.node = n + 1
        /\ k = "and" => i.to[2] = y
        /\ k = "or" => i.to[1] = y
    <2>1. CASE k = "and"
      <3>1. i = CondBr(n, x, y, n + 1) BY <2>1
      <3> QED BY <1>2, <2>1, <3>1, CondBrFields
    <2>2. CASE k = "or"
      <3>1. i = CondBr(n, y, x, n + 1) BY <2>2
      <3> QED BY <1>2, <2>2, <3>1, CondBrFields
    <2> QED BY <2>1, <2>2
  <1>4. Away(t, i) = y
    <2>1. t[i.node] = k BY <1>1, <1>3
    <2> HIDE DEF t
    <2> QED BY <2>1, <1>3 DEF Away
  <1>5. d[ins] # <<>> /\ LastOf(d[ins]) = i
    <2>1. Len(d[ins]) = Len(c[ins]) + 1 /\ d[ins][Len(c[ins]) + 1] = i /\ c \in Codes /\ ins \in 1..Len(c)
      BY DEF Writes
    <2>2. Len(c[ins]) \in Nat BY <2>1, CodeFacts
    <2> QED BY <2>1, <2>2 DEF LastOf
  <1> QED BY <1>3, <1>4, <1>5

LEMMA FaithLogicalLhs ==
  ASSUME Building, Rest, Emitting, NEW K, NEW L, Faithful(K, L), LogicalLhs
  PROVE  FaithNext
  <1> DEFINE n == Len(code)
             x == n + 1
             y == n + 2
             k == Top.k
             f == Frame(IF Top.k = "and" THEN "andRhs" ELSE "orRhs", 0, 0, y, insert)
             p == Len(Popped)
             J == [i \in Nat |-> IF i = p + 1 THEN Len(src) + 1 ELSE K[i]]
             tt == Append(Popped, f)
             i == IF Top.k = "and" THEN CondBr(value, x, y, Node) ELSE CondBr(value, y, x, Node)
             d == Add(Blocks(code, 2), insert, i)
             M == Begins(L, x, Len(src) + 2)
             ql == placed \cup {x}
             t == Append(src, k)
  <1>1. /\ Walking /\ k \in {"and", "or"} /\ src' = t /\ code' = d /\ placed' = ql /\ insert' = x
        /\ stack' = Popped \o <<f, Waiting("expr")>>
    BY DEF LogicalLhs, NBlocks, Replace, Visit, StartBlock
  <1>2. Top.k \in Quiet /\ Top.k # "expr" /\ Top.k \in Hungry BY <1>1, QuietKinds DEF Quiet, FrameKinds, Hungry, Eaters
  <1>3. /\ Faith(Popped, K, L, code, placed, insert, src) /\ Popped \in Stacks /\ Graph(code, placed, insert)
        /\ code \in Codes /\ placed \subseteq 1..n /\ insert \in 1..n /\ n \in Nat /\ p \in Nat
        /\ ~(src # <<>> /\ src[Len(src)] = "while")
        /\ \A h \in 1..p : h \in 1..Len(stack) /\ Popped[h] = stack[h]
        /\ \A h \in 1..Len(stack) : stack[h].k \in Loopers \cup Joins => stack[h].back \in placed
        /\ Owes(Popped, n, placed, Owed(Top))
        /\ value = Len(src) /\ Len(src) >= 1
    BY <1>1, <1>2, AtTop
  <1>4. Struct(Popped, K, src) /\ src \in Seq(Kinds) BY <1>3 DEF Faith, Struct
  <1>5. \A h \in 1..p : Popped[h].k \in Loopers \cup Joins => Popped[h].back \in placed BY <1>3
  <1>6. /\ f \in Frames /\ f.k = (IF k = "and" THEN "andRhs" ELSE "orRhs") /\ f.back = insert /\ f.end = y
        /\ insert \in Nat
    <2>1. "andRhs" \in FrameKinds /\ "orRhs" \in FrameKinds /\ 0 \in Nat BY DEF FrameKinds
    <2>2. insert \in Nat /\ y \in Nat BY <1>3
    <2> QED BY <2>1, <2>2 DEF Frame, Frames
  <1>7. /\ x \in Nat /\ y \in Nat /\ x \in 2..n + 2 /\ x \notin placed /\ y \notin placed /\ insert # x
        /\ x # y /\ x \in 2..y /\ y \in 2..y /\ x \in n + 1..n + 2
    <2>1. /\ x \in Nat /\ y \in Nat /\ x \in 2..n + 2 /\ x \notin 1..n /\ y \notin 1..n
          /\ x # y /\ x \in 2..y /\ y \in 2..y /\ x \in n + 1..n + 2
      BY <1>3
    <2> QED BY <2>1, <1>3
  <1>8. \A h \in 1..p : x \notin Owed(Popped[h])
    <2>1. x \notin 2..n BY <1>3
    <2> QED BY <2>1, <1>3 DEF Owes, FrameOK
  <1>9. Len(src) \in Nat /\ value \in Nat /\ Node \in Nat BY <1>4, NodeFacts DEF Rest
  <1>10. i \in Instrs
    <2>1. CondBr(value, x, y, Node) \in Instrs BY <1>7, <1>9, CondBrFacts
    <2>2. CondBr(value, y, x, Node) \in Instrs BY <1>7, <1>9, CondBrFacts
    <2> QED BY <2>1, <2>2
  <1>11. i = (IF k = "and" THEN CondBr(Len(src), x, y, Len(src) + 1) ELSE CondBr(Len(src), y, x, Len(src) + 1))
    BY <1>3 DEF Node
  <1> HIDE DEF f, i
  <1>12. Writes(code, d, insert, i) /\ Len(d) = n + 2 /\ d[x] = <<>> /\ d \in Codes
    <2>1. 2 \in Nat OBVIOUS
    <2>2. /\ Writes(code, d, insert, i) /\ Len(d) = n + 2
          /\ \A b \in n + 1..n + 2 : d[b] = <<>>
      BY <1>3, <1>10, <2>1, WritesFacts
    <2> QED BY <2>2, <1>7 DEF Writes
  <1> HIDE DEF n, x, y, d
  <1>13. f.k \in Holders("logic") /\ k \in Opens("logic") /\ "logic" \in Classes /\ k \in Kinds /\ k \in Exprs
        /\ f.k \in Joins /\ f.k \notin Loopers /\ (f.k = "andRhs" => k = "and") /\ (f.k = "orRhs" => k = "or")
        /\ k \notin {"else", "break"} /\ k \notin {"continue", "endwhile"}
    BY <1>1, <1>6, ClassFacts DEF Classes, Kinds, Loopers, Joins, Exprs
  <1>14. /\ \A h \in 1..p : J[h] = K[h]
         /\ J[p + 1] = Len(src) + 1
    <2>1. \A h \in 1..p : h \in Nat /\ h # p + 1 BY <1>3
    <2>2. p + 1 \in Nat BY <1>3
    <2> QED BY <2>1, <2>2
  <1> HIDE DEF J
  <1>15. Suits(Popped, tt, K, J, src, k, p) BY <1>3, <1>4, <1>6, <1>13, <1>14, SuitsOpen
  <1>16. Shared(Popped, tt, K, J, p) BY <1>3, <1>6, <1>14, SharedStacks
  <1>17. tt[p + 1] = f /\ tt \in Stacks /\ Len(tt) = p + 1 /\ tt[Len(tt)] = f /\ Len(tt) \in 1..Len(tt)
    <2>1. tt[p + 1] = f /\ tt \in Stacks /\ Len(tt) = p + 1 BY <1>3, <1>6, StackFacts
    <2> QED BY <2>1, <1>3
  <1> HIDE DEF tt
  <1>18. /\ Meant(tt, J, M, d, ql, t, insert, Len(code[insert]) + 1)
         /\ d[insert] # <<>> /\ LastOf(d[insert]).op = "condbr" /\ LastOf(d[insert]).node = Len(src) + 1
         /\ Away(t, LastOf(d[insert])) = y
    <2>1. tt[Len(tt)].k \in Joins /\ J[Len(tt)] = Len(src) + 1 /\ y = tt[Len(tt)].end BY <1>6, <1>13, <1>14, <1>17
    <2>2. k \in {"and", "or"} BY <1>1
    <2>3. Popped \in Stacks /\ Faith(Popped, K, L, code, placed, insert, src) /\ Len(src) >= 1 BY <1>3
    <2>4. x \in Nat /\ y \in Nat /\ x # y /\ y \notin placed /\ insert # x /\ insert \in Nat BY <1>6, <1>7
    <2>5. Writes(code, d, insert, i) /\ Len(tt) \in 1..Len(tt) BY <1>12, <1>17
    <2>6. i = (IF k = "and" THEN CondBr(Len(src), x, y, Len(src) + 1) ELSE CondBr(Len(src), y, x, Len(src) + 1))
      BY <1>11
    <2> HIDE DEF k, M, ql, t, p
    <2>7. Meant(tt, J, Begins(L, x, Len(src) + 2), d, placed \cup {x}, Append(src, k), insert, Len(code[insert]) + 1)
      BY <2>1, <2>2, <2>3, <2>4, <2>5, <2>6, MeantFork
    <2>8. /\ d[insert] # <<>> /\ LastOf(d[insert]).op = "condbr" /\ LastOf(d[insert]).node = Len(src) + 1
          /\ Away(Append(src, k), LastOf(d[insert])) = y
      <3>1. src \in Seq(Kinds) BY <1>4
      <3> QED BY <2>2, <2>4, <2>5, <2>6, <3>1, ForkEnd
    <2> QED BY <2>7, <2>8 DEF M, ql, t
  <1> HIDE DEF M, k
  <1>19. Marked(f, Len(src) + 1, M, d, x, t)
    <2> HIDE DEF t
    <2> QED BY <1>6, <1>13, <1>18 DEF Marked
  <1> HIDE DEF ql, t, p
  <1>20. Faith(tt, J, M, d, ql, x, t)
    <2>1. ~(p = p + 1) BY <1>3
    <2>2. Len(Popped) = p BY DEF p
    <2>3. \A h \in 1..Len(tt) : h = p + 1 => Marked(tt[h], J[h], M, d, x, t) BY <1>14, <1>17, <1>19
    <2>4. x \in (2..Len(d)) \ placed BY <1>7, <1>12
    <2>5. \A m \in 1..Len(src) : \A z :
           Len(Popped) = p + 1 /\ Owner(Popped, K, src, m, p + 1, z) =>
             /\ z \in placed \cup {x} /\ Dest(Append(src, k), m, Begins(L, x, Len(src) + 2)[z])
             /\ src[m] \notin {"and", "or"}
      BY <2>1, <2>2
    <2>6. /\ Meant(tt, J, Begins(L, x, Len(src) + 2), d, placed \cup {x}, Append(src, k), insert, Len(code[insert]) + 1)
          /\ \A h \in 1..Len(tt) : h = p + 1 => Marked(tt[h], J[h], Begins(L, x, Len(src) + 2), d, x, Append(src, k))
      BY <1>18, <2>3 DEF M, ql, t
    <2>7. Faith(tt, J, Begins(L, x, Len(src) + 2), d, placed \cup {x}, x, Append(src, k))
      BY <1>3, <1>5, <1>7, <1>8, <1>12, <1>13, <1>15, <1>16, <2>4, <2>5, <2>6, FaithMoves
    <2> QED BY <2>7 DEF M, ql, t
  <1>21. Faith(Popped \o <<f, Waiting("expr")>>, J, M, d, ql, x, t)
    <2>1. ql \subseteq 1..Len(d)
      <3>1. x \in 1..n + 2 /\ 1..n \subseteq 1..n + 2 BY <1>3, <1>7
      <3> QED BY <3>1, <1>3, <1>12 DEF ql
    <2>2. "expr" \in Quiet BY QuietKinds
    <2> QED BY <1>3, <1>6, <1>12, <1>20, <2>1, <2>2, FaithPush DEF tt
  <1>22. Faith(stack', J, M, code', placed', insert', src') BY <1>1, <1>21
  <1> QED BY <1>22 DEF FaithNext

LEMMA OutgrowsTwice ==
  ASSUME NEW c, NEW d, NEW e, Outgrows(c, d), Outgrows(d, e)
  PROVE  Outgrows(c, e)
  <1>1. Len(c) \in Nat /\ Len(d) \in Nat /\ Len(e) \in Nat /\ c \in Codes /\ e \in Codes /\ Len(c) <= Len(e)
    BY CodeFacts DEF Outgrows
  <1>2. ASSUME NEW b \in 1..Len(c)
        PROVE  /\ Len(c[b]) <= Len(e[b])
               /\ \A j \in 1..Len(c[b]) : e[b][j] = c[b][j]
               /\ IsTerminated(c[b]) => e[b] = c[b]
    <2>1. /\ b \in 1..Len(d) /\ Len(c[b]) \in Nat /\ Len(d[b]) \in Nat /\ Len(c[b]) <= Len(d[b])
          /\ \A j \in 1..Len(c[b]) : d[b][j] = c[b][j]
      BY OutgrowsFacts
    <2>2. /\ Len(e[b]) \in Nat /\ Len(d[b]) <= Len(e[b])
          /\ \A j \in 1..Len(d[b]) : e[b][j] = d[b][j]
      BY <2>1, OutgrowsFacts
    <2>3. \A j \in 1..Len(c[b]) : j \in 1..Len(d[b]) BY <2>1
    <2>4. IsTerminated(c[b]) => d[b] = c[b] BY DEF Outgrows
    <2>5. IsTerminated(d[b]) => e[b] = d[b] BY <2>1 DEF Outgrows
    <2>6. IsTerminated(c[b]) => e[b] = c[b] BY <2>4, <2>5
    <2>7. Len(c[b]) <= Len(e[b]) BY <2>1, <2>2
    <2> QED BY <2>1, <2>2, <2>3, <2>6, <2>7
  <1> QED BY <1>1, <1>2 DEF Outgrows

(* The operands of && and || join.                                         *)
LEMMA Closing ==
  ASSUME NEW st \in Stacks, NEW K, NEW s, Struct(st, K, s), NEW p \in Nat, Len(st) = p + 1,
         NEW f, f = st[p + 1], f.k \in Joins
  PROVE  /\ K[p + 1] \in 1..Len(s) /\ s[K[p + 1]] \in {"and", "or"} /\ (f.k = "orRhs" <=> s[K[p + 1]] = "or")
         /\ Shut(Append(s, "endlogic"), "logic", K[p + 1], Len(s) + 1)
         /\ \A m, y : Owner(st, K, s, m, p + 1, y) => m = K[p + 1] /\ y = f.end
  <1>1. p + 1 \in 1..Len(st) /\ s \in Seq(Kinds) /\ Levels(st, s) BY DEF Struct
  <1>2. "logic" \in Classes /\ f.k \in Holders("logic") /\ Opens("logic") = {"and", "or"}
        /\ Ends("logic") = {"endlogic"} /\ Closes("logic") = {"endlogic"} /\ "endlogic" \in Kinds
    BY ClassFacts DEF Classes, Joins, Kinds
  <1>3. Pending(s, "logic", K[p + 1], Rank(st, "logic", p + 1)) /\ Stands(st[p + 1], K[p + 1], s)
    BY <1>1, <1>2 DEF Struct, Opened
  <1>4. K[p + 1] \in 1..Len(s) BY <1>3 DEF Pending
  <1>5. s[K[p + 1]] \in {"and", "or"} /\ (f.k = "orRhs" <=> s[K[p + 1]] = "or") BY <1>3 DEF Stands, Joins
  <1>6. Met(Append(s, "endlogic"), "logic", {"endlogic"}, K[p + 1], Len(s) + 1)
    <2>1. Pending(s, "logic", K[p + 1], Rank(st, "logic", Len(st))) BY <1>3
    <2>2. {"endlogic"} \subseteq Ends("logic") /\ "endlogic" \in {"endlogic"} /\ "endlogic" \notin Opens("logic")
      BY <1>2
    <2> QED BY <1>1, <1>2, <2>1, <2>2, MetNow
  <1>7. \A m, y : Owner(st, K, s, m, p + 1, y) => m = K[p + 1] /\ y = f.end
    BY DEF Owner, Joins
  <1>8. Shut(Append(s, "endlogic"), "logic", K[p + 1], Len(s) + 1) BY <1>2, <1>6 DEF Shut
  <1> QED BY <1>4, <1>5, <1>7, <1>8

LEMMA JoinedBy ==
  ASSUME NEW L, NEW c, NEW s, NEW b, NEW i, NEW n \in 1..i.node - 1, NEW x \in 1..Len(c), NEW y \in 1..Len(c),
         /\ s[n] \in {"and", "or"} /\ Shut(s, "logic", n, i.node)
         /\ i.phi = {Incoming(x, 0, s[n] = "or"), Incoming(y, i.node - 1, FALSE)}
         /\ c[x] # <<>> /\ LastOf(c[x]).op = "condbr" /\ LastOf(c[x]).node = n /\ Away(s, LastOf(c[x])) = b
         /\ c[y] # <<>> /\ LastOf(c[y]).op = "br"
  PROVE  Joined(L, c, s, b, i)
  BY DEF Joined

(* The activation that goes, the block it owed and the phi of that block.  *)
Closer(f, x, i, s, ins) ==
  /\ f.k \in Joins /\ x = f.end
  /\ i = Phi(Len(s) + 1, {Incoming(f.back, 0, f.k = "orRhs"), Incoming(ins, Len(s), FALSE)})

LEMMA FaithCloses ==
  ASSUME NEW st, NEW tt, NEW K, NEW L, NEW c, NEW d, NEW e, NEW pl, NEW s, NEW ins, NEW p \in Nat,
         Faith(st, K, L, c, pl, ins, s), Graph(c, pl, ins), Shared(st, tt, K, K, p), Len(st) = p + 1, Len(tt) = p,
         Suits(st, tt, K, K, s, "endlogic", p), NEW f, st[p + 1] = f,
         NEW x \in Nat, x \notin pl, x \in 1..Len(c), c[x] = <<>>, NEW i \in Instrs,
         Closer(f, x, i, s, ins),
         Writes(c, d, ins, Br(x)), Writes(d, e, x, i), f.back \in pl, f.back # ins,
         \A h \in 1..p : x \notin Owed(st[h]),
         \A h \in 1..p : st[h].k \in Loopers \cup Joins => st[h].back \in pl,
         ~(s # <<>> /\ s[Len(s)] = "while")
  PROVE  Faith(tt, K, Begins(L, x, Len(s) + 1), e, pl \cup {x}, x, Append(s, "endlogic"))
  <1> DEFINE M == Begins(L, x, Len(s) + 1)
             t == Append(s, "endlogic")
             n == Len(s)
             k == K[p + 1]
             ql == pl \cup {x}
             j == Len(c[ins]) + 1
             in == {Incoming(f.back, 0, f.k = "orRhs"), Incoming(ins, Len(s), FALSE)}
  <1>1. Struct(st, K, s) /\ Labels(L, pl, s) /\ s \in Seq(Kinds) /\ st \in Stacks BY DEF Faith, Struct, Shared
  <1>2. /\ n \in Nat /\ Len(t) = n + 1 /\ t[n + 1] = "endlogic" /\ (n + 1) - 1 = n /\ "endlogic" \in Kinds
        /\ \A h \in 1..n : t[h] = s[h]
    <2>1. "endlogic" \in Kinds BY DEF Kinds
    <2> QED BY <1>1, <2>1, FollowsAppend DEF Follows
  <1>3. k \in 1..n /\ s[k] \in {"and", "or"} /\ (f.k = "orRhs" <=> s[k] = "or") /\ Shut(t, "logic", k, n + 1)
        /\ \A m, y : Owner(st, K, s, m, p + 1, y) => m = k /\ y = x
    <2>1. f.k \in Joins /\ x = f.end BY DEF Closer
    <2> QED BY <1>1, <2>1, Closing
  <1>4. pl \subseteq 1..Len(c) /\ 1 \in pl /\ ins \in pl /\ Open(c[ins]) /\ c \in Codes /\ Len(c) \in Nat
    BY CodeFacts DEF Graph
  <1>5. ins # x /\ f.back # x /\ \A b \in pl : b \in Nat /\ b # x
    <2>1. pl \subseteq 1..Len(c) /\ ins \in pl BY <1>4
    <2>2. \A b \in pl : b \in Nat BY <2>1
    <2>3. \A b \in pl : b # x BY Zenon
    <2>4. ins # x /\ f.back # x BY <2>1, <2>3
    <2> QED BY <2>2, <2>3, <2>4
  <1>6. M[x] = n + 1 /\ \A b \in pl : M[b] = L[b]
    <2>1. ASSUME NEW a PROVE Begins(L, x, a)[x] = a /\ \A b \in Nat : b # x => Begins(L, x, a)[b] = L[b]
      BY BeginsFacts
    <2> QED BY <2>1, <1>5
  <1>7. d[x] = <<>> /\ x \in 1..Len(d) /\ d \in Codes /\ e \in Codes /\ Len(c) <= Len(e) /\ Len(e) \in Nat
    <2>1. d[x] = <<>> BY <1>5 DEF Writes
    <2>2. Len(d) \in Nat /\ Len(e) \in Nat /\ d \in Codes /\ e \in Codes BY CodeFacts DEF Writes
    <2> QED BY <1>4, <2>1, <2>2 DEF Writes
  <1>8. Outgrows(c, d) BY <1>4, WritesOutgrows
  <1>9. Outgrows(d, e)
    <2>1. Open(d[x]) BY <1>7 DEF Open
    <2> QED BY <2>1, WritesOutgrows
  <1>10. Outgrows(c, e) BY <1>8, <1>9, OutgrowsTwice
  <1>11. Len(e[x]) = 1 /\ e[x][1] = i
    <2>1. Len(d[x]) = 0 BY <1>7
    <2> QED BY <2>1 DEF Writes
  <1>12. i.op = "phi" /\ i.node = n + 1 /\ i.def = n + 1 /\ i.phi = in
    <2> HIDE DEF in
    <2>1. i = Phi(n + 1, in) BY DEF in, Closer
    <2>2. Phi(n + 1, in).node = n + 1 BY DEF Phi, Instr
    <2> QED BY <2>1, <2>2, PhiParts
  <1>13. e[ins] = d[ins] /\ \A b \in pl : b # ins => e[b] = c[b]
    <2>1. ins \in 1..Len(d) /\ \A b \in pl : b \in 1..Len(c) /\ b \in 1..Len(d) BY <1>4, <1>7 DEF Writes
    <2> QED BY <1>5, <2>1 DEF Writes
  <1>14. /\ From(M, d, ins, j) = Begun(L, c, ins) /\ Begun(L, c, ins) \in 1..n + 1
         /\ Calm(t, Begun(L, c, ins), n + 1) /\ d[ins][j] = Br(x) /\ j \in 1..Len(d[ins])
    <2>1. M[ins] = L[ins] BY <1>4, <1>6
    <2> HIDE DEF M
    <2> QED BY <1>2, <2>1, BegunFacts
  <1>15. Br(x).op = "br" /\ Br(x).to[1] = x BY BrFields
  <1>16. Len(c[ins]) \in Nat /\ Len(d[ins]) = j /\ j \in Nat BY <1>4, CodeFacts DEF Writes
  <1> HIDE DEF M, t, n, k, ql, in
  <1>17. Meant(tt, K, M, e, ql, t, ins, j)
    <2>1. From(M, e, ins, j) = Begun(L, c, ins) BY <1>13, <1>14 DEF From
    <2>2. e[ins][j] = Br(x) BY <1>13, <1>14
    <2>3. e[x] # <<>> /\ e[x][1].op # "br" BY <1>11, <1>12
    <2>4. x \in ql BY DEF ql
    <2>5. n + 1 \in Begun(L, c, ins)..Len(t) + 1 BY <1>2, <1>14
    <2>6. Goes(tt, K, M, e, ql, t, Begun(L, c, ins), n + 1, x) BY <2>3, <2>4, <1>6 DEF Goes
    <2> HIDE DEF j
    <2> QED BY <2>1, <2>2, <2>5, <2>6, <1>14, <1>15 DEF Meant
  <1>18. Meant(tt, K, M, e, ql, t, x, 1)
    <2>1. From(M, e, x, 1) = n + 1 BY <1>6 DEF From
    <2>2. n + 1 \in n + 1..Len(t) /\ Calm(t, n + 1, n + 1)
      <3>1. \A h \in n + 1..(n + 1) - 1 : FALSE BY <1>2
      <3> QED BY <1>2, <3>1 DEF Calm
    <2>3. Joined(M, e, t, x, i)
      <3>1. k \in 1..i.node - 1 BY <1>2, <1>3, <1>12
      <3>2. f.back \in 1..Len(e) /\ ins \in 1..Len(e) BY <1>4, <1>7
      <3>3. t[k] = s[k] BY <1>2, <1>3
      <3>4. in = {Incoming(f.back, 0, t[k] = "or"), Incoming(ins, i.node - 1, FALSE)}
        BY <1>2, <1>3, <1>12, <3>3 DEF in, n
      <3>5. e[f.back] # <<>> /\ LastOf(e[f.back]).op = "condbr" /\ LastOf(e[f.back]).node = k
            /\ Away(t, LastOf(e[f.back])) = x
        <4>1. p + 1 \in 1..Len(st) OBVIOUS
        <4>2. Marked(f, k, L, c, ins, s) BY <4>1 DEF Faith, Marks, k
        <4>0. f.k \in Joins /\ x = f.end BY DEF Closer
        <4>3. c[f.back] # <<>> /\ LastOf(c[f.back]).op = "condbr" /\ LastOf(c[f.back]).node = k
              /\ Away(s, LastOf(c[f.back])) = x
          BY <4>0, <4>2 DEF Marked
        <4>4. e[f.back] = c[f.back] BY <1>13
        <4> QED BY <3>3, <4>3, <4>4 DEF Away
      <3>6. e[ins] # <<>> /\ LastOf(e[ins]).op = "br"
        <4>1. LastOf(e[ins]) = Br(x) /\ Len(e[ins]) # 0 BY <1>13, <1>14, <1>16 DEF LastOf
        <4> QED BY <4>1, <1>15
      <3>7. t[k] \in {"and", "or"} /\ Shut(t, "logic", k, i.node) BY <1>3, <1>12, <3>3
      <3>8. /\ t[k] \in {"and", "or"} /\ Shut(t, "logic", k, i.node)
            /\ i.phi = {Incoming(f.back, 0, t[k] = "or"), Incoming(ins, i.node - 1, FALSE)}
            /\ e[f.back] # <<>> /\ LastOf(e[f.back]).op = "condbr" /\ LastOf(e[f.back]).node = k
            /\ Away(t, LastOf(e[f.back])) = x
            /\ e[ins] # <<>> /\ LastOf(e[ins]).op = "br"
        BY <1>12, <3>4, <3>5, <3>6, <3>7
      <3> QED BY <3>1, <3>2, <3>8, JoinedBy
    <2> QED BY <1>2, <1>6, <1>11, <1>12, <2>1, <2>2, <2>3 DEF Meant
  <1>19. Carries(st, tt, K, K, L, M, c, e, pl, ql, s, t, p)
    <2>1. \A h \in 1..p : \A y \in {st[h].alt, st[h].end} : y \in ql => y \in pl
      <3> SUFFICES ASSUME NEW h \in 1..p, NEW y \in {st[h].alt, st[h].end}, y \in ql, y \notin pl PROVE FALSE
        OBVIOUS
      <3>1. y = x /\ x # 0 /\ x \notin Owed(st[h]) BY DEF ql
      <3> QED BY <3>1 DEF Owed
    <2>2. \A h \in 1..Len(st) : \A m \in 1..Len(s) : \A y \in {st[h].alt, st[h].end} :
            h = p + 1 /\ Owner(st, K, s, m, h, y) =>
              /\ y \in ql /\ Dest(t, m, M[y])
              /\ s[m] \in {"and", "or"} => e[y] # <<>> /\ e[y][1].op = "phi" /\ e[y][1].node = M[y]
      <3> SUFFICES ASSUME NEW m \in 1..Len(s), NEW y, Owner(st, K, s, m, p + 1, y)
                   PROVE  y \in ql /\ Dest(t, m, M[y]) /\ e[y] # <<>> /\ e[y][1].op = "phi" /\ e[y][1].node = M[y]
        OBVIOUS
      <3>1. m = k /\ y = x BY <1>3
      <3>2. t[k] = s[k] /\ s[k] \notin {"then", "else", "do", "break"} BY <1>2, <1>3
      <3>3. Met(t, "logic", {"endlogic"}, k, n + 1) BY <1>3, ClassFacts DEF Shut
      <3>4. Dest(t, k, n + 1) BY <3>2, <3>3 DEF Dest
      <3> QED BY <3>1, <3>4, <1>6, <1>11, <1>12 DEF ql
    <2>3. pl \subseteq ql BY DEF ql
    <2> HIDE DEF ql, M
    <2> QED BY <1>1, <1>2, <1>4, <1>6, <1>10, <2>1, <2>2, <2>3, CarriesStep, ZenonT(60) DEF t
  <1>20. Labels(M, ql, t)
    <2>1. \A b \in pl : M[b] \in 1..n + 1 BY <1>1, <1>6 DEF Labels, n
    <2>2. M[1] = 1 BY <1>1, <1>4, <1>6 DEF Labels
    <2>3. \A b \in ql : M[b] \in 1..n + 2 BY <2>1, <1>2, <1>6 DEF ql
    <2> QED BY <1>2, <2>2, <2>3 DEF Labels
  <1>21. ASSUME NEW b \in ql, NEW h \in 1..Len(e[b])
         PROVE  \/ b \in pl /\ h \in 1..Len(c[b])
                \/ Meant(tt, K, M, e, ql, t, b, h)
    <2>1. CASE b = x
      <3>1. h = 1 BY <2>1, <1>11
      <3> QED BY <2>1, <3>1, <1>18
    <2>2. CASE b = ins
      <3>1. h \in 1..Len(c[ins]) \/ h = j BY <2>2, <1>13, <1>16
      <3> QED BY <2>2, <3>1, <1>4, <1>17
    <2>3. CASE b # x /\ b # ins
      <3>1. b \in pl /\ e[b] = c[b] BY <2>3, <1>13 DEF ql
      <3> QED BY <3>1
    <2> QED BY <2>1, <2>2, <2>3
  <1>22. Begun(M, e, x) \in 1..n + 2 /\ Calm(t, Begun(M, e, x), n + 2)
    <2>1. Begun(M, e, x) = i.node + 1 BY <1>11 DEF Begun, From
    <2>2. Begun(M, e, x) = n + 2 BY <2>1, <1>2, <1>12
    <2>3. \A h \in n + 2..(n + 2) - 1 : FALSE BY <1>2
    <2> QED BY <2>2, <2>3, <1>2 DEF Calm
  <1> HIDE DEF j
  <1>23. Faith(tt, K, M, e, ql, x, t)
    <2>1. \A h \in 1..Len(tt) : h = p + 1 => Marked(tt[h], K[h], M, e, x, t)
      <3>1. \A h \in 1..p : h # p + 1 BY Beyond
      <3> QED BY <3>1
    <2>2. "endlogic" \in Kinds BY <1>2
    <2>3. "endlogic" \notin {"else", "break"} /\ "endlogic" \notin {"continue", "endwhile"} OBVIOUS
    <2> QED BY <1>19, <1>20, <1>21, <1>22, <2>1, <2>2, <2>3, FaithStep DEF t, n
  <1> QED BY <1>23 DEF M, ql, t

LEMMA FaithLogicalRhs ==
  ASSUME Building, Rest, Emitting, NEW K, NEW L, Faithful(K, L), LogicalRhs
  PROVE  FaithNext
  <1> DEFINE x == Top.end
             c == Add(code, insert, Br(x))
             in == {Incoming(Top.back, 0, Top.k = "orRhs"), Incoming(insert, value, FALSE)}
             i == Phi(Node, in)
             e == Add(c, x, i)
             p == Len(Popped)
             t == Append(src, "endlogic")
             M == Begins(L, x, Len(src) + 1)
             ql == placed \cup {x}
  <1>1. /\ Walking /\ Top.k \in Joins /\ code' = e /\ src' = t
        /\ placed' = ql /\ insert' = x /\ stack' = Popped \o <<>>
    BY DEF LogicalRhs, StartBlock, Replace, Visit, Joins
  <1>2. Top.k \in Hungry /\ Top.k # "expr" BY <1>1 DEF Hungry, Eaters, Joins
  <1>3. /\ Faith(stack, K, L, code, placed, insert, src) /\ Graph(code, placed, insert)
        /\ code \in Codes /\ placed \subseteq 1..Len(code) /\ insert \in 1..Len(code) /\ Len(code) \in Nat
        /\ stack \in Stacks /\ stack # <<>> /\ Popped \in Stacks /\ Top \in Frames
        /\ Len(stack) = p + 1 /\ Top = stack[p + 1] /\ p \in Nat /\ p = Len(stack) - 1
        /\ \A h \in 1..p : h \in 1..Len(stack) /\ Popped[h] = stack[h]
        /\ ~(src # <<>> /\ src[Len(src)] = "while")
        /\ \A h \in 1..Len(stack) : stack[h].k \in Loopers \cup Joins => stack[h].back \in placed
        /\ Owes(Popped, Len(code), placed, Owed(Top)) /\ FrameOK(Top, Len(code))
        /\ value = Len(src)
        /\ Struct(stack, K, src)
    BY <1>1, <1>2, AtTop
  <1>4. /\ c[x] = <<>> /\ x \notin placed /\ Top.back # insert /\ Top.back \in placed
    BY <1>1, RhsGraph
  <1>5. x \in Nat /\ x # 0 /\ x \in Owed(Top) /\ x \in 2..Len(code) /\ x \in 1..Len(code)
    <2>1. x \in Nat /\ x # 0 BY <1>1, <1>3 DEF FrameOK, Frames, Joins
    <2>2. x \in Owed(Top) BY <2>1 DEF Owed
    <2>3. x \in 2..Len(code) BY <2>1, <2>2, <1>3 DEF FrameOK
    <2> QED BY <2>1, <2>2, <2>3
  <1>6. \A h \in 1..p : x \notin Owed(stack[h]) BY <1>3, <1>5 DEF Owes
  <1>7. Br(x) \in Instrs BY <1>5, BrFacts
  <1>8. i \in Instrs
    <2>1. value \in Nat /\ Node \in Nat /\ insert \in Nat BY <1>3, NodeFacts DEF Rest
    <2>2. (Top.k = "orRhs") \in BOOLEAN /\ Top.back \in Nat BY <1>3 DEF Frames
    <2>3. in \in SUBSET [from: Nat, v: Nat, const: BOOLEAN] BY <2>1, <2>2 DEF Incoming
    <2> HIDE DEF in
    <2> QED BY <2>1, <2>3, PhiFacts
  <1>9. i = Phi(Len(src) + 1, {Incoming(Top.back, 0, Top.k = "orRhs"), Incoming(insert, Len(src), FALSE)})
    BY <1>3 DEF Node
  <1> HIDE DEF x, i
  <1>10. Writes(code, c, insert, Br(x)) /\ Len(c) = Len(code)
    <2>1. 0 \in Nat OBVIOUS
    <2> QED BY <1>3, <1>7, <2>1, WritesFacts
  <1>11. insert # x BY <1>3, <1>4 DEF Graph
  <1>12. code[x] = <<>> BY <1>4, <1>5, <1>10, <1>11 DEF Writes
  <1>13. c \in Codes BY <1>10 DEF Writes
  <1> HIDE DEF c
  <1>14. Writes(c, e, x, i) /\ Len(e) = Len(c)
    <2>1. 0 \in Nat /\ x \in 1..Len(c) BY <1>5, <1>10
    <2> QED BY <1>5, <1>8, <1>10, <1>13, <2>1, WritesFacts
  <1> HIDE DEF e
  <1>15. Shared(stack, Popped, K, K, p)
    <2>1. Shared(stack, SubSeq(stack, 1, Len(stack) - 1), K, K, Len(stack) - 1)
      BY <1>3, SharedStacks
    <2> QED BY <1>3, <2>1 DEF Popped
  <1>16. Suits(stack, Popped, K, K, src, "endlogic", p)
    <2>1. "logic" \in Classes /\ stack[Len(stack)].k \in Holders("logic") /\ "endlogic" \in Closes("logic")
          /\ "endlogic" \in Kinds /\ "endlogic" \in Exprs
      BY <1>1, <1>3, ClassFacts DEF Classes, Joins, Kinds, Exprs
    <2>2. Suits(stack, SubSeq(stack, 1, Len(stack) - 1), K, K, src, "endlogic", Len(stack) - 1)
      BY <1>3, <2>1, SuitsShut
    <2> QED BY <1>3, <2>2 DEF Popped
  <1>17. \A h \in 1..p : stack[h].k \in Loopers \cup Joins => stack[h].back \in placed BY <1>3
  <1>18. Faith(Popped, K, M, e, ql, x, t)
    <2>1. Len(Popped) = p BY DEF p
    <2>2. Closer(Top, x, i, src, insert) BY <1>1, <1>9 DEF Closer, x
    <2> HIDE DEF p
    <2>3. /\ Faith(stack, K, L, code, placed, insert, src) /\ Graph(code, placed, insert)
          /\ Len(stack) = p + 1 /\ stack[p + 1] = Top /\ p \in Nat
          /\ ~(src # <<>> /\ src[Len(src)] = "while")
      BY <1>3
    <2>4. x \in Nat /\ x \in 1..Len(code) /\ x \notin placed /\ Top.back # insert /\ Top.back \in placed
      BY <1>4, <1>5
    <2>5. Faith(Popped, K, Begins(L, x, Len(src) + 1), e, placed \cup {x}, x, Append(src, "endlogic"))
      BY <1>6, <1>8, <1>9, <1>10, <1>12, <1>14, <1>15, <1>16, <1>17, <2>1, <2>2, <2>3, <2>4, FaithCloses
    <2> QED BY <2>5
  <1>19. e \in Codes /\ ql \subseteq 1..Len(e)
    <2>1. e \in Codes BY <1>14 DEF Writes
    <2> QED BY <2>1, <1>3, <1>5, <1>10, <1>14
  <1> HIDE DEF ql, M, t
  <1>20. Faith(Popped \o <<>>, K, M, e, ql, x, t) BY <1>3, <1>18, <1>19, FaithPush
  <1>21. Faith(stack', K, M, code', placed', insert', src') BY <1>1, <1>20
  <1> QED BY <1>21 DEF FaithNext

-----------------------------------------------------------------------------
(* Functions.                                                              *)

LEMMA TallyNone ==
  ASSUME NEW s, NEW S, NEW n \in Nat, \A k \in 1..n : s[k] \notin S
  PROVE  Tally(s, S, n) = 0
  <1>1. {m \in 1..n : s[m] \in S} = {} OBVIOUS
  <1> QED BY <1>1, FS_EmptySet DEF Tally

(* A function starts with its parameters.                                  *)
LEMMA StructStart ==
  ASSUME NEW s \in Seq(Kinds), \A k \in 1..Len(s) : s[k] = "param", NEW st \in Stacks, NEW K,
         \A h \in 1..Len(st) : st[h].k = "body"
  PROVE  Struct(st, K, s)
  <1>1. Len(s) \in Nat /\ Len(st) \in Nat BY LenProperties, StackFacts
  <1>2. ASSUME NEW x \in Classes
        PROVE  /\ "param" \notin Opens(x) /\ "param" \notin Closes(x) /\ "body" \notin Holders(x)
    BY ClassFacts DEF Classes
  <1>3. Levels(st, s)
    <2> SUFFICES ASSUME NEW x \in Classes
                 PROVE  Tally(s, Opens(x), Len(s)) - Tally(s, Closes(x), Len(s)) = Rank(st, x, Len(st))
      BY DEF Levels
    <2>1. Tally(s, Opens(x), Len(s)) = 0 BY <1>1, <1>2, TallyNone
    <2>2. Tally(s, Closes(x), Len(s)) = 0 BY <1>1, <1>2, TallyNone
    <2>3. \A h \in 1..Len(st) : KindsOf(st)[h] = "body" BY DEF KindsOf
    <2>4. \A h \in 1..Len(st) : KindsOf(st)[h] \notin Holders(x) BY <1>2, <2>3
    <2>5. Rank(st, x, Len(st)) = 0 BY <1>1, <2>4, TallyNone DEF Rank
    <2> QED BY <2>1, <2>2, <2>5
  <1>4. Opened(st, K, s)
    <2>1. {"while", "logic"} \subseteq Classes BY DEF Classes
    <2> QED BY <1>2, <2>1 DEF Opened
  <1>5. Nests(s) BY DEF Nests
  <1> QED BY <1>3, <1>4, <1>5 DEF Struct

LEMMA FaithStart ==
  ASSUME NEW s \in Seq(Kinds), \A k \in 1..Len(s) : s[k] = "param", NEW st \in Stacks, NEW K,
         \A h \in 1..Len(st) : st[h].k = "body", NEW c, Len(c[1]) = Len(s),
         \A j \in 1..Len(s) : c[1][j].op = "store" /\ c[1][j].node = j, NEW L, L[1] = 1
  PROVE  Faith(st, K, L, c, {1}, 1, s)
  <1>1. Len(s) \in Nat BY LenProperties
  <1>2. Struct(st, K, s) BY StructStart
  <1>3. Labels(L, {1}, s) BY <1>1 DEF Labels
  <1>4. ASSUME NEW j \in 1..Len(s) + 1 PROVE From(L, c, 1, j) = j
    <2>1. j # 1 => j - 1 \in 1..Len(s) /\ (j - 1) + 1 = j BY <1>1
    <2>2. j # 1 => c[1][j - 1].node = j - 1 BY <2>1
    <2> QED BY <2>1, <2>2 DEF From
  <1>5. ASSUME NEW j \in 1..Len(s) PROVE Meant(st, K, L, c, {1}, s, 1, j)
    <2>1. From(L, c, 1, j) = j /\ j \in Nat BY <1>1, <1>4
    <2>2. c[1][j].op = "store" /\ c[1][j].node = j /\ s[j] = "param" OBVIOUS
    <2>3. j \in j..Len(s) /\ \A h \in j..j - 1 : FALSE BY <1>1
    <2>4. Calm(s, j, j) BY <2>3 DEF Calm
    <2> QED BY <2>1, <2>2, <2>3, <2>4 DEF Meant
  <1>6. Linked(st, K, s) BY DEF Linked
  <1>7. Begun(L, c, 1) = Len(s) + 1 BY <1>1, <1>4 DEF Begun
  <1>8. Len(s) + 1 \in 1..Len(s) + 1 /\ Calm(s, Len(s) + 1, Len(s) + 1)
    <2>1. \A h \in Len(s) + 1..(Len(s) + 1) - 1 : FALSE BY <1>1
    <2> QED BY <1>1, <2>1 DEF Calm
  <1>9. Marks(st, K, L, c, 1, s) BY DEF Marks, Marked, Loopers, Joins
  <1> QED BY <1>2, <1>3, <1>5, <1>6, <1>7, <1>8, <1>9 DEF Faith

LEMMA FaithEmitFunction ==
  ASSUME NEW params \in Nat, EmitFunction(params)
  PROVE  /\ \E K, L : Faith(stack', K, L, code', placed', insert', src')
         /\ Ready(stack', src', value')
  <1> DEFINE entry == [p \in 1..params |-> Store(p, p, p)]
             s == [p \in 1..params |-> "param"]
             K == [i \in Nat |-> 0]
             L == [b \in Nat |-> 1]
             body == Waiting("body")
  <1>1. code' = <<entry>> /\ placed' = {1} /\ insert' = 1 /\ src' = s /\ stack' = <<body>>
    BY DEF EmitFunction
  <1>2. body \in Frames /\ body.k = "body"
    <2>1. "body" \in Quiet /\ 0 \in Nat BY QuietKinds
    <2> QED BY <2>1, WaitingHeld
  <1>3. s \in Seq(Kinds) /\ Len(s) = params /\ \A k \in 1..params : s[k] = "param"
    <2>1. "param" \in Kinds BY DEF Kinds
    <2>2. s \in [1..params -> Kinds] BY <2>1
    <2>3. \A k \in 1..params : s[k] = "param" OBVIOUS
    <2> HIDE DEF s
    <2>4. s \in Seq(Kinds) BY <2>2, SeqDef
    <2>5. Len(s) = params BY <2>2, <2>4, LenProperties
    <2> QED BY <2>3, <2>4, <2>5
  <1>4. \A p \in 1..params : Store(p, p, p).op = "store" /\ Store(p, p, p).node = p BY DEF Store, Instr
  <1>5. Len(entry) = params /\ \A p \in 1..params : entry[p] = Store(p, p, p)
    <2>1. \A p \in 1..params : Store(p, p, p) \in Instrs BY StoreFacts
    <2> QED BY <2>1
  <1>6. L[1] = 1 OBVIOUS
  <1> HIDE DEF entry, s, K, L, body
  <1>7. <<body>> \in Stacks /\ Len(<<body>>) = 1 /\ <<body>>[1] = body BY <1>2 DEF Stacks
  <1>8. <<entry>>[1] = entry OBVIOUS
  <1>9. Faith(<<body>>, K, L, <<entry>>, {1}, 1, s)
    <2>1. \A h \in 1..Len(<<body>>) : <<body>>[h].k = "body" BY <1>2, <1>7
    <2>2. Len(<<entry>>[1]) = Len(s) /\ \A k \in 1..Len(s) : s[k] = "param" BY <1>3, <1>5, <1>8
    <2>3. \A j \in 1..Len(s) : <<entry>>[1][j].op = "store" /\ <<entry>>[1][j].node = j
      BY <1>3, <1>4, <1>5, <1>8
    <2> QED BY <1>3, <1>6, <1>7, <2>1, <2>2, <2>3, FaithStart
  <1>10. Ready(<<body>>, s, value')
    <2>1. "body" \notin Hungry BY DEF Hungry, Eaters
    <2>2. s # <<>> => s[Len(s)] = "param"
      <3>1. s # <<>> => Len(s) \in 1..Len(s) BY <1>3, EmptySeq
      <3> QED BY <3>1, <1>3
    <2> QED BY <1>2, <1>7, <2>1, <2>2 DEF Ready
  <1> QED BY <1>1, <1>9, <1>10

(* And ends with a return.                                                 *)
LEMMA WholeAtEnd ==
  ASSUME NEW K, NEW L, NEW c, NEW d, NEW s, NEW ins, NEW i, Faith(<<>>, K, L, c, 1..Len(c), ins, s),
         Graph(c, 1..Len(c), ins), Writes(c, d, ins, i), Len(d) = Len(c), i = Ret({}, Len(s) + 1)
  PROVE  Whole(K, L, d, s)
  <1> DEFINE pl == 1..Len(c)
             st == <<>>
  <1>1. Struct(st, K, s) /\ Labels(L, pl, s) /\ Linked(st, K, s) /\ s \in Seq(Kinds) BY DEF Faith, Struct
  <1>2. Len(s) \in Nat BY <1>1, LenProperties
  <1>3. c \in Codes /\ Len(c) \in Nat /\ ins \in 1..Len(c) /\ Len(c[ins]) \in Nat /\ Open(c[ins])
    BY CodeFacts DEF Graph, Writes
  <1>4. Outgrows(c, d) BY <1>3, WritesOutgrows
  <1>5. st \in Stacks /\ Len(st) = 0
    <2>1. <<>> \in Seq(Frames) /\ Len(<<>>) = 0 OBVIOUS
    <2> QED BY <2>1 DEF Stacks
  <1>6. Carries(st, st, K, K, L, L, c, d, pl, pl, s, s, 0)
    <2>1. Shared(st, st, K, K, 0)
      <3>1. \A h \in 1..0 : FALSE OBVIOUS
      <3> QED BY <1>5, <3>1 DEF Shared
    <2>2. Follows(s, s) BY <1>1, <1>2 DEF Follows
    <2>3. \A h \in 1..0 : FALSE OBVIOUS
    <2> HIDE DEF st, pl
    <2> QED BY <1>4, <1>5, <2>1, <2>2, <2>3 DEF Carries, pl
  <1>7. i.op = "ret" /\ i.use = {} /\ i.node = Len(s) + 1 BY DEF Ret, Instr
  <1>8. ASSUME NEW b \in 1..Len(d), NEW j \in 1..Len(d[b])
        PROVE  Meant(st, K, L, d, pl, s, b, j) \/ LastRet(L, d, s, b, j)
    <2>1. b \in 1..Len(c) OBVIOUS
    <2>2. CASE j \in 1..Len(c[b])
      <3>1. Meant(st, K, L, c, pl, s, b, j) BY <2>1, <2>2 DEF Faith
      <3>2. From(L, c, b, j) \in Nat \ {0}
        <4>1. L[b] \in Nat \ {0} BY <1>1, <1>2, <2>1 DEF Labels
        <4>2. j \in 1..Len(c[b]) + 1 BY <1>3, <2>1, <2>2, CodeFacts
        <4> QED BY <1>3, <2>1, <4>1, <4>2, FromFacts
      <3>3. b \in pl BY <2>1
      <3> HIDE DEF pl, st
      <3>4. Meant(st, K, L, d, pl, s, b, j) BY <1>1, <1>6, <2>2, <3>1, <3>2, <3>3, MeantKept
      <3> QED BY <3>4
    <2>3. CASE j \notin 1..Len(c[b])
      <3>1. b = ins /\ j = Len(c[ins]) + 1
        <4>1. b = ins BY <2>1, <2>3 DEF Writes
        <4> QED BY <4>1, <1>3, <2>3 DEF Writes
      <3>2. d[b][j] = i BY <3>1 DEF Writes
      <3>3. From(L, d, b, j) = Begun(L, c, ins)
        <4>1. j # 1 => j - 1 \in 1..Len(c[ins]) /\ j - 1 = (Len(c[ins]) + 1) - 1 BY <1>3, <3>1
        <4>2. j # 1 => d[ins][j - 1] = c[ins][j - 1] BY <4>1 DEF Writes
        <4> QED BY <3>1, <4>2 DEF From, Begun
      <3>4. Begun(L, c, ins) \in 1..Len(s) + 1 /\ Calm(s, Begun(L, c, ins), Len(s) + 1) BY DEF Faith
      <3> QED BY <1>7, <3>2, <3>3, <3>4 DEF LastRet
    <2> QED BY <2>2, <2>3
  <1> QED BY <1>1, <1>8 DEF Whole

LEMMA FaithFinishFunction ==
  ASSUME IInv, Emitting, NEW K, NEW L, Faithful(K, L), FinishFunction
  PROVE  Whole(K, L, code', src') /\ phase' = "done"
  <1> DEFINE i == Ret({}, Node)
             d == Add(code, insert, i)
  <1>1. /\ Walking /\ Top.k = "body" /\ Len(stack) = 1 /\ Building /\ Rest
        /\ UNCHANGED <<placed, insert, src>>
        /\ code' = IF IsTerminated(code[insert]) THEN code ELSE d
        /\ phase' = "done"
    BY DEF FinishFunction, At, Walking, IInv
  <1>2. /\ Faith(Popped, K, L, code, placed, insert, src) /\ Graph(code, placed, insert)
        /\ code \in Codes /\ insert \in 1..Len(code) /\ Len(Popped) = Len(stack) - 1 /\ Popped \in Stacks
    <2>1. Top.k \in Quiet BY <1>1, QuietKinds
    <2> QED BY <1>1, <2>1, AtTop
  <1>3. Popped = <<>> BY <1>1, <1>2, EmptySeq DEF Stacks
  <1>4. Finished(code', placed', insert') BY FinishFunctionStep
  <1>5. Node \in Nat /\ {} \in SUBSET Nat BY <1>1, NodeFacts
  <1>6. i \in Instrs BY <1>5, RetFacts
  <1> HIDE DEF i
  <1>7. Writes(code, d, insert, i) /\ Len(d) = Len(code)
    <2>1. 0 \in Nat OBVIOUS
    <2> QED BY <1>2, <1>6, <2>1, WritesFacts
  <1>8. code' = d
    <2>1. Open(code[insert]) BY <1>2 DEF Graph
    <2>2. code[insert] # <<>> => Len(code[insert]) \in 1..Len(code[insert]) BY <1>2, CodeFacts
    <2>3. ~IsTerminated(code[insert]) BY <2>1, <2>2 DEF Open, IsTerminated
    <2> QED BY <1>1, <2>3
  <1> HIDE DEF d
  <1>9. placed = 1..Len(code) BY <1>1, <1>4, <1>7, <1>8 DEF Finished
  <1>10. Faith(<<>>, K, L, code, 1..Len(code), insert, src) /\ Graph(code, 1..Len(code), insert)
    BY <1>2, <1>3, <1>9
  <1>11. i = Ret({}, Len(src) + 1) BY DEF i, Node
  <1>12. Whole(K, L, d, src) BY <1>7, <1>10, <1>11, WholeAtEnd
  <1> QED BY <1>1, <1>8, <1>12

-----------------------------------------------------------------------------
(* What waits for a value gets the one computed last.                      *)

LEMMA ReadyOn ==
  ASSUME NEW st \in Stacks, NEW h, NEW g \in Quiet, g \notin Hungry, NEW s, NEW v,
         s # <<>> /\ s[Len(s)] = "while" => g = "expr"
  PROVE  Ready(st \o <<Waiting(g)>>, s, v) /\ Ready(st \o <<h, Waiting(g)>>, s, v)
  <1> DEFINE w == Waiting(g)
  <1>1. w \in Frames /\ w.k = g BY WaitingHeld, 0 \in Nat
  <1> HIDE DEF w
  <1>2. st \in Seq(Frames \cup {h}) /\ w \in Frames \cup {h} /\ h \in Frames \cup {h} BY <1>1 DEF Stacks
  <1> DEFINE F == Frames \cup {h}
  <1> HIDE DEF F
  <1>3. st \in Seq(F) /\ <<w>> \in Seq(F) /\ <<h, w>> \in Seq(F) BY <1>2 DEF F
  <1>4. /\ Len(st \o <<w>>) = Len(st) + 1 /\ (st \o <<w>>)[Len(st) + 1] = w
        /\ Len(st \o <<h, w>>) = Len(st) + 2 /\ (st \o <<h, w>>)[Len(st) + 2] = w
    BY <1>3
  <1> QED BY <1>1, <1>4 DEF Ready, w

LEMMA ReadyFed ==
  ASSUME NEW st \in Stacks, Fed(st), NEW s, NEW v, ~(s # <<>> /\ s[Len(s)] = "while")
  PROVE  Ready(st \o <<>>, s, v)
  <1>1. st \o <<>> = st BY ConcatEmptySeq DEF Stacks
  <1>2. st # <<>> => Len(st) \in 1..Len(st) BY EmptySeq DEF Stacks
  <1> QED BY <1>1, <1>2 DEF Ready, Fed

LEMMA ReadyValue ==
  ASSUME NEW st \in Stacks, NEW s \in Seq(Kinds), NEW k \in Kinds, k # "while"
  PROVE  Ready(st \o <<>>, Append(s, k), Len(s) + 1)
  <1>1. Len(Append(s, k)) = Len(s) + 1 /\ Append(s, k)[Len(s) + 1] = k /\ Len(s) \in Nat
    BY FollowsAppend, LenProperties
  <1> QED BY <1>1 DEF Ready

LEMMA Visited ==
  ASSUME NEW s \in Seq(Kinds), NEW k \in Kinds, k # "while"
  PROVE  ~(Append(s, k) # <<>> /\ Append(s, k)[Len(Append(s, k))] = "while")
  <1>1. Len(Append(s, k)) = Len(s) + 1 /\ Append(s, k)[Len(s) + 1] = k BY FollowsAppend
  <1> QED BY <1>1

LEMMA ReadyBegins ==
  ASSUME Building, Rest, Emitting, NEW K, NEW L, Faithful(K, L),
         \/ NullStmt \/ ExprStmt \/ ReturnStmt \/ CompoundStmt \/ WhileStmt
         \/ BreakStmt \/ ContinueStmt \/ ReturnVoid
         \/ (\E hasInit \in BOOLEAN : DeclStmt(hasInit)) \/ (\E hasElse \in BOOLEAN : IfStmt(hasElse))
  PROVE  Ready(stack', src', value')
  <1>1. {"body", "stmt", "expr"} \subseteq Quiet /\ {"body", "stmt", "expr"} \cap Hungry = {}
    BY QuietKinds DEF Hungry, Eaters
  <1>2. src \in Seq(Kinds) BY DEF Rest
  <1>3. {"drop", "store", "decl", "{", "if", "then", "else", "endif", "do", "endwhile", "break", "continue",
         "return", "retval"} \subseteq Kinds
    BY DEF Kinds
  <1>0. AtStmt
    BY DEF NullStmt, ExprStmt, ReturnStmt, CompoundStmt, WhileStmt, BreakStmt, ContinueStmt, ReturnVoid, DeclStmt, IfStmt
  <1>4. QED
    <2>0. Base \in Stacks /\ Fed(Base) /\ ~(src # <<>> /\ src[Len(src)] = "while") BY <1>0, AtBase
    <2>1. CASE NullStmt
      <3>1. stack' = Base \o <<>> /\ src' = src BY <2>1 DEF NullStmt, Begin, Base
      <3> QED BY <3>1, <2>0, ReadyFed
    <2>2. CASE ExprStmt \/ ReturnStmt
      <3>1. PICK h : stack' = Base \o <<h, Waiting("expr")>> /\ src' = src
        BY <2>2 DEF ExprStmt, ReturnStmt, Begin, Base
      <3> QED BY <3>1, <2>0, <1>1, ReadyOn
    <2>3. ASSUME NEW hasInit \in BOOLEAN, DeclStmt(hasInit) PROVE Ready(stack', src', value')
      <3>1. src' = Append(src, "decl") BY <2>3 DEF DeclStmt, Visit
      <3>2. ~(src' # <<>> /\ src'[Len(src')] = "while") BY <3>1, <1>2, <1>3, Visited
      <3>3. CASE hasInit
        <4>1. PICK h : stack' = Base \o <<h, Waiting("expr")>> BY <2>3, <3>3 DEF DeclStmt, Begin, Base
        <4> QED BY <4>1, <2>0, <3>2, <1>1, ReadyOn
      <3>4. CASE ~hasInit
        <4>1. stack' = Base \o <<>> BY <2>3, <3>4 DEF DeclStmt, Begin, Base
        <4> QED BY <4>1, <2>0, <3>2, ReadyFed
      <3> QED BY <3>3, <3>4
    <2>4. CASE CompoundStmt
      <3>1. src' = Append(src, "{") /\ stack' = Base \o <<Waiting("body")>>
        BY <2>4 DEF CompoundStmt, Visit, Begin, Base
      <3>2. ~(src' # <<>> /\ src'[Len(src')] = "while") BY <3>1, <1>2, <1>3, Visited
      <3> QED BY <3>1, <3>2, <2>0, <1>1, ReadyOn
    <2>5. ASSUME NEW hasElse \in BOOLEAN, IfStmt(hasElse) PROVE Ready(stack', src', value')
      <3>1. PICK h : src' = Append(src, "if") /\ stack' = Base \o <<h, Waiting("expr")>>
        BY <2>5 DEF IfStmt, Visit, Begin, Base
      <3> QED BY <3>1, <2>0, <1>1, ReadyOn
    <2>6. CASE WhileStmt
      <3>1. PICK h : stack' = Base \o <<h, Waiting("expr")>> BY <2>6 DEF WhileStmt, Begin, Base
      <3> QED BY <3>1, <2>0, <1>1, ReadyOn
    <2>7. CASE BreakStmt \/ ContinueStmt \/ ReturnVoid
      <3>1. PICK k \in {"break", "continue", "return"} : src' = Append(src, k) /\ stack' = Base \o <<>>
        BY <2>7 DEF BreakStmt, ContinueStmt, ReturnVoid, Visit, Begin, Base
      <3>2. ~(src' # <<>> /\ src'[Len(src')] = "while") BY <3>1, <1>2, <1>3, Visited
      <3> QED BY <3>1, <3>2, <2>0, ReadyFed
    <2> QED BY <2>1, <2>2, <2>3, <2>4, <2>5, <2>6, <2>7

LEMMA ReadyEnds ==
  ASSUME Building, Rest, Emitting, NEW K, NEW L, Faithful(K, L),
         \/ Drop \/ LocalInit \/ CompoundEnd \/ IfCond \/ ThenEnd \/ ElseStart \/ ElseEnd
         \/ WhileCond \/ BodyEnd \/ (\E isVoid \in BOOLEAN : ReturnValue(isVoid))
  PROVE  Ready(stack', src', value')
  <1>1. "stmt" \in Quiet /\ "stmt" \notin Hungry BY QuietKinds DEF Hungry, Eaters
  <1>2. src \in Seq(Kinds) BY DEF Rest
  <1>3. {"drop", "store", "then", "else", "endif", "do", "endwhile", "return", "retval"} \subseteq Kinds
    BY DEF Kinds
  <1>4. /\ Walking /\ Top.k \notin ExprKinds /\ Top.k # "expr"
        /\ \/ CompoundEnd
           \/ \E k \in {"drop", "store", "then", "else", "endif", "do", "endwhile", "return", "retval"} : Visit(k)
        /\ \/ Replace(<<>>)
           \/ \E h : Replace(<<h, Waiting("stmt")>>)
    BY DEF Drop, LocalInit, CompoundEnd, IfCond, ThenEnd, ElseStart, ElseEnd, WhileCond, BodyEnd, ReturnValue, At,
           ExprKinds
  <1>5. /\ Popped \in Stacks /\ Fed(Popped) /\ ~(src # <<>> /\ src[Len(src)] = "while")
    BY <1>4, AtTop
  <1>6. ~(src' # <<>> /\ src'[Len(src')] = "while")
    <2>1. CASE CompoundEnd BY <2>1, <1>5 DEF CompoundEnd
    <2>2. ASSUME NEW k \in {"drop", "store", "then", "else", "endif", "do", "endwhile", "return", "retval"}, Visit(k)
          PROVE  ~(src' # <<>> /\ src'[Len(src')] = "while")
      <3>1. k \in Kinds /\ k # "while" /\ src' = Append(src, k) BY <1>3, <2>2 DEF Visit
      <3> QED BY <3>1, <1>2, Visited
    <2> QED BY <2>1, <2>2, <1>4
  <1>7. CASE Replace(<<>>) BY <1>5, <1>6, <1>7, ReadyFed DEF Replace
  <1>8. ASSUME NEW h, Replace(<<h, Waiting("stmt")>>) PROVE Ready(stack', src', value')
    <2>1. stack' = Popped \o <<h, Waiting("stmt")>> BY <1>8 DEF Replace
    <2> QED BY <2>1, <1>1, <1>5, <1>6, ReadyOn
  <1> QED BY <1>4, <1>7, <1>8

LEMMA ReadyExpr ==
  ASSUME Building, Rest, Emitting, NEW K, NEW L, Faithful(K, L), ExprStep
  PROVE  Ready(stack', src', value')
  <1>1. "expr" \in Quiet /\ "expr" \notin Hungry BY QuietKinds DEF Hungry, Eaters
  <1>2. src \in Seq(Kinds) BY DEF Rest
  <1>3. {"leaf", "op", "endlogic"} \subseteq Kinds BY DEF Kinds
  <1>4. CASE Operands \/ OperatorLhs \/ LogicalLhs \/ \E k \in {"and", "or"} : Logical(k)
    <2>1. Walking /\ \E h : stack' = Popped \o <<h, Waiting("expr")>>
      BY <1>4 DEF Operands, OperatorLhs, LogicalLhs, Logical, Replace, At
    <2>2. Popped \in Stacks BY <2>1, AtTop
    <2> QED BY <2>1, <2>2, <1>1, ReadyOn
  <1>5. CASE Operator \/ LogicalRhs \/ \E slot \in Visible \cup {0} : Leaf(slot)
    <2>1. /\ Walking /\ stack' = Popped \o <<>> /\ value' = Len(src) + 1
          /\ \E k \in {"leaf", "op", "endlogic"} : src' = Append(src, k)
      BY <1>5 DEF Operator, LogicalRhs, Leaf, Replace, At, Visit, Node, Return
    <2>2. Popped \in Stacks BY <2>1, AtTop
    <2> QED BY <2>1, <2>2, <1>2, <1>3, ReadyValue
  <1> QED BY <1>4, <1>5 DEF ExprStep

LEMMA ReadyStmt ==
  ASSUME Building, Rest, Emitting, NEW K, NEW L, Faithful(K, L), StmtStep
  PROVE  Ready(stack', src', value')
  BY ReadyBegins, ReadyEnds DEF StmtStep

-----------------------------------------------------------------------------
(* The walk emits what the nodes mean.                                     *)

Sense ==
  /\ phase = "emit" => \E K, L : Faithful(K, L)
  /\ phase = "done" => \E K, L : Whole(K, L, code, src)

LEMMA FaithStmt ==
  ASSUME Building, Rest, Emitting, NEW K, NEW L, Faithful(K, L), StmtStep, Visible \subseteq slots
  PROVE  FaithNext
  <1>1. CASE NullStmt \/ ExprStmt \/ CompoundEnd \/ ReturnStmt BY <1>1, FaithWaits
  <1>2. CASE Drop \/ CompoundStmt \/ \E hasInit \in BOOLEAN : DeclStmt(hasInit) BY <1>2, FaithQuietVisits
  <1>3. CASE \E hasElse \in BOOLEAN : IfStmt(hasElse)
    <2>1. PICK hasElse \in BOOLEAN : IfStmt(hasElse) BY <1>3
    <2> QED BY <2>1, FaithIf
  <1>4. CASE LocalInit BY <1>4, FaithValues
  <1>5. CASE BreakStmt \/ ContinueStmt BY <1>5, FaithJumps
  <1>6. CASE ReturnVoid \/ \E isVoid \in BOOLEAN : ReturnValue(isVoid) BY <1>6, FaithReturns
  <1>7. CASE IfCond BY <1>7, FaithIfCond
  <1>8. CASE ThenEnd \/ ElseEnd BY <1>8, FaithJoins
  <1>9. CASE ElseStart BY <1>9, FaithElse
  <1>10. CASE WhileStmt BY <1>10, FaithWhile
  <1>11. CASE WhileCond BY <1>11, FaithWhileCond
  <1>12. CASE BodyEnd BY <1>12, FaithBodyEnd
  <1> QED BY <1>1, <1>2, <1>3, <1>4, <1>5, <1>6, <1>7, <1>8, <1>9, <1>10, <1>11, <1>12 DEF StmtStep

LEMMA FaithExpr ==
  ASSUME Building, Rest, Emitting, NEW K, NEW L, Faithful(K, L), ExprStep, Visible \subseteq slots
  PROVE  FaithNext
  <1>1. CASE Operands \/ OperatorLhs \/ \E k \in {"and", "or"} : Logical(k) BY <1>1, FaithWaits
  <1>2. CASE Operator \/ \E slot \in Visible \cup {0} : Leaf(slot) BY <1>2, FaithValues
  <1>3. CASE LogicalLhs BY <1>3, FaithLogicalLhs
  <1>4. CASE LogicalRhs BY <1>4, FaithLogicalRhs
  <1> QED BY <1>1, <1>2, <1>3, <1>4 DEF ExprStep

LEMMA SenseStep == IInv /\ SSA /\ Sense /\ [Next]_vars => Sense'
  <1> SUFFICES ASSUME IInv, SSA, Sense, [Next]_vars PROVE Sense' OBVIOUS
  <1>1. ASSUME NEW params \in 0..MaxParams, EmitFunction(params) PROVE Sense'
    <2>1. params \in Nat BY BoundsAssumption
    <2>2. /\ \E K, L : Faith(stack', K, L, code', placed', insert', src')
          /\ Ready(stack', src', value')
      BY <1>1, <2>1, FaithEmitFunction
    <2>3. phase' = "emit" BY <1>1 DEF EmitFunction
    <2> QED BY <2>2, <2>3 DEF Sense, Faithful
  <1>2. CASE FinishFunction
    <2>1. phase = "emit" BY <1>2 DEF FinishFunction, At, Walking
    <2>2. Emitting BY <2>1 DEF SSA
    <2>3. PICK K, L : Faithful(K, L) BY <2>1 DEF Sense
    <2>4. Whole(K, L, code', src') /\ phase' = "done" BY <1>2, <2>2, <2>3, FaithFinishFunction
    <2> QED BY <2>4 DEF Sense
  <1>3. CASE NextFunction
    <2>1. phase' = "idle" BY <1>3 DEF NextFunction
    <2> QED BY <2>1 DEF Sense
  <1>4. CASE StmtStep \/ ExprStep
    <2>1. phase = "emit" /\ phase' = "emit"
      BY <1>4 DEF StmtStep, ExprStep, AtStmt, At, Walking, NullStmt, ExprStmt, Drop, LocalInit,
         DeclStmt, CompoundStmt, CompoundEnd, IfStmt, IfCond, ThenEnd, ElseStart, ElseEnd,
         WhileStmt, WhileCond, BodyEnd, BreakStmt, ContinueStmt, ReturnVoid, ReturnStmt,
         ReturnValue, Leaf, Operands, OperatorLhs, Operator, Logical, LogicalLhs, LogicalRhs
    <2>2. Building /\ Rest /\ Emitting /\ Visible \subseteq slots BY <2>1 DEF IInv, SSA
    <2>3. PICK K, L : Faithful(K, L) BY <2>1 DEF Sense
    <2>4. FaithNext BY <1>4, <2>2, <2>3, FaithStmt, FaithExpr
    <2>5. Ready(stack', src', value')
      <3>1. CASE StmtStep BY <2>2, <2>3, <3>1, ReadyStmt
      <3>2. CASE ExprStep BY <2>2, <2>3, <3>2, ReadyExpr
      <3> QED BY <1>4, <3>1, <3>2
    <2> QED BY <2>1, <2>4, <2>5 DEF Sense, Faithful, FaithNext
  <1>5. CASE UNCHANGED vars
    <2>1. UNCHANGED <<phase, code, placed, insert, stack, value, src>> BY <1>5 DEF vars
    <2> QED BY <2>1 DEF Sense, Faithful
  <1> QED BY <1>1, <1>2, <1>3, <1>4, <1>5 DEF Next

(* The inductive invariant of emission: for some labels, each instruction  *)
(* of a body does what its node calls for and control comes to it only by  *)
(* nodes it passes; and for some nodes the activations that wait were      *)
(* started for, what they are yet to start stands where control will look  *)
(* for it.  A finished function has no such debts.                         *)
THEOREM StaysFaithful == Spec => []Sense
  <1>1. Init => IInv /\ SSA /\ Sense BY IInvInit, SSAInit DEF Init, Sense
  <1>2. (IInv /\ SSA /\ Sense) /\ [Next]_vars => (IInv /\ SSA /\ Sense)' BY IInvStep, SSAStep, SenseStep
  <1> QED BY <1>1, <1>2, PTL DEF Spec

-----------------------------------------------------------------------------
(* A run of a function.                                                    *)

(* Control came to block b from block p as the values say.                 *)
Came(c, e, p, b) ==
  LET i == LastOf(c[p])
  IN  \/ i.op = "br" /\ i.to[1] = b
      \/ i.op = "condbr" /\ i.to[IF e[i.node - 1] THEN 1 ELSE 2] = b

(* The right operand of n, which ends at m, is evaluated only when the     *)
(* left one does not decide.                                               *)
Undecided(L, c, s, e, b, j, p) ==
  \A n, m \in 2..Len(s) : s[n] \in {"and", "or"} /\ Shut(s, "logic", n, m) =>
    LET f == From(L, c, b, j)
    IN  n < f /\ (f < m \/ (f = m /\ ~(c[b][j].op = "phi" /\ LastOf(c[p]).op = "condbr" /\ LastOf(c[p]).node = n)))
          => e[n - 1] # (s[n] = "or")

(* A function that runs.                                                   *)
Running(K, L) ==
  /\ Whole(K, L, code, src)
  /\ blk # 0 => /\ phase = "done" /\ blk \in Block /\ ip \in 1..Len(code[blk])
                /\ env \in [1..Len(src) -> BOOLEAN]
                /\ ip = 1 => (blk = 1 /\ prev = 0) \/ (prev \in Block /\ Came(code, env, prev, blk))
                /\ Undecided(L, code, src, env, blk, ip, prev)

-----------------------------------------------------------------------------
(* The text as module Source reads it.                                     *)

LEMMA CountTally ==
  ASSUME NEW S, NEW n
  PROVE  Meaning!Count(S, n) = Tally(src, S, n)
  BY DEF Meaning!Count, Tally, Meaning!Cardinality, Cardinality

LEMMA LevelNest ==
  ASSUME NEW x, NEW n
  PROVE  Meaning!Level(Opens(x), Closes(x), n) = Nest(src, x, n)
  BY CountTally DEF Meaning!Level, Nest

LEMMA PartnerMet ==
  ASSUME NEW x, NEW E, NEW n \in Nat, NEW e, Met(src, x, E, n, e), Len(src) \in Nat
  PROVE  Meaning!Partner(n, Opens(x), Closes(x), E) = e
  <1> DEFINE P(m) == m \in n + 1..Len(src) /\ Met(src, x, E, n, m)
  <1>1. \A m : P(m) <=> m = e
    <2>1. e \in n + 1..Len(src) BY DEF Met
    <2> QED BY <2>1, MetOnce
  <1>2. \A m \in n + 1..Len(src) :
          P(m) <=> /\ src[m] \in E
                   /\ Meaning!Level(Opens(x), Closes(x), m) = Meaning!Level(Opens(x), Closes(x), n)
                   /\ \A k \in n + 1..m - 1 :
                        ~(src[k] \in E
                          /\ Meaning!Level(Opens(x), Closes(x), k) = Meaning!Level(Opens(x), Closes(x), n))
    BY LevelNest DEF Met
  <1>3. e \in n + 1..Len(src) BY DEF Met
  <1> HIDE DEF P
  <1> QED BY <1>1, <1>2, <1>3 DEF Meaning!Partner

LEMMA PartnersMet ==
  ASSUME NEW n \in Nat, NEW e, Len(src) \in Nat
  PROVE  /\ Met(src, "if", {"else", "endif"}, n, e) => Meaning!ElseOrEndif(n) = e
         /\ Met(src, "if", {"endif"}, n, e) => Meaning!Endif(n) = e
         /\ Met(src, "while", {"endwhile"}, n, e) => Meaning!EndWhile(n) = e
         /\ Met(src, "logic", {"endlogic"}, n, e) => Meaning!EndLogic(n) = e
  <1>1. ASSUME Met(src, "if", {"else", "endif"}, n, e) PROVE Meaning!ElseOrEndif(n) = e
    <2>1. Meaning!Partner(n, Opens("if"), Closes("if"), {"else", "endif"}) = e BY <1>1, PartnerMet
    <2>2. Opens("if") = {"if"} /\ Closes("if") = {"endif"} BY ClassFacts
    <2>3. Meaning!Partner(n, {"if"}, {"endif"}, {"else", "endif"}) = e BY <2>1, <2>2
    <2> QED BY <2>3 DEF Meaning!ElseOrEndif
  <1>2. ASSUME Met(src, "if", {"endif"}, n, e) PROVE Meaning!Endif(n) = e
    <2>1. Meaning!Partner(n, Opens("if"), Closes("if"), {"endif"}) = e BY <1>2, PartnerMet
    <2>2. Opens("if") = {"if"} /\ Closes("if") = {"endif"} BY ClassFacts
    <2>3. Meaning!Partner(n, {"if"}, {"endif"}, {"endif"}) = e BY <2>1, <2>2
    <2> QED BY <2>3 DEF Meaning!Endif
  <1>3. ASSUME Met(src, "while", {"endwhile"}, n, e) PROVE Meaning!EndWhile(n) = e
    <2>1. Meaning!Partner(n, Opens("while"), Closes("while"), {"endwhile"}) = e BY <1>3, PartnerMet
    <2>2. Opens("while") = {"while"} /\ Closes("while") = {"endwhile"} BY ClassFacts
    <2>3. Meaning!Partner(n, {"while"}, {"endwhile"}, {"endwhile"}) = e BY <2>1, <2>2
    <2> QED BY <2>3 DEF Meaning!EndWhile
  <1>4. ASSUME Met(src, "logic", {"endlogic"}, n, e) PROVE Meaning!EndLogic(n) = e
    <2>1. Meaning!Partner(n, Opens("logic"), Closes("logic"), {"endlogic"}) = e BY <1>4, PartnerMet
    <2>2. Opens("logic") = {"and", "or"} /\ Closes("logic") = {"endlogic"} BY ClassFacts
    <2>3. Meaning!Partner(n, {"and", "or"}, {"endlogic"}, {"endlogic"}) = e BY <2>1, <2>2
    <2> QED BY <2>3 DEF Meaning!EndLogic
  <1> QED BY <1>1, <1>2, <1>3, <1>4

LEMMA WhileOfDirect ==
  ASSUME NEW K, Struct(<<>>, K, src), NEW n \in 1..Len(src), NEW w, Direct(src, w, n)
  PROVE  Meaning!WhileOf(n) = w
  <1>1. src \in Seq(Kinds) /\ Opened(<<>>, K, src) BY DEF Struct
  <1>2. Len(src) \in Nat BY <1>1, LenProperties
  <1>3. w \in 1..n - 1 /\ src[w] = "while" BY DEF Direct
  <1>4. ASSUME NEW m \in 1..Len(src), src[m] = "while"
        PROVE  \E e \in m + 1..Len(src) : Shut(src, "while", m, e) /\ Meaning!EndWhile(m) = e
    <2>1. src[m] \in Opens("while") /\ "while" \in {"while", "logic"} BY <1>4, ClassFacts
    <2>2. \A i \in 1..Len(<<>>) : FALSE OBVIOUS
    <2>3. PICK e \in m + 1..Len(src) : Shut(src, "while", m, e) BY <1>1, <2>1, <2>2 DEF Opened
    <2>4. m \in Nat BY <1>2
    <2>5. Met(src, "while", {"endwhile"}, m, e) BY <2>3, ClassFacts DEF Shut
    <2>6. Meaning!EndWhile(m) = e BY <1>2, <2>4, <2>5, PartnersMet
    <2> QED BY <2>3, <2>6
  <1>5. Meaning!EndWhile(w) >= n
    <2>1. w \in 1..Len(src) BY <1>2, <1>3
    <2>2. PICK e \in w + 1..Len(src) : Shut(src, "while", w, e) /\ Meaning!EndWhile(w) = e BY <1>3, <1>4, <2>1
    <2>3. src[e] = "endwhile" /\ Nest(src, "while", e) = Nest(src, "while", w)
      BY <2>2, ClassFacts DEF Shut, Met
    <2>4. e \notin w + 1..n - 1 BY <2>3 DEF Direct
    <2> QED BY <1>2, <1>3, <2>1, <2>2, <2>4
  <1>6. \A k \in w + 1..n - 1 : src[k] = "while" => Meaning!EndWhile(k) < n
    <2> SUFFICES ASSUME NEW k \in w + 1..n - 1, src[k] = "while" PROVE Meaning!EndWhile(k) < n OBVIOUS
    <2>1. PICK e \in k + 1..n - 1 : Shut(src, "while", k, e) BY DEF Direct
    <2>2. Met(src, "while", {"endwhile"}, k, e) BY <2>1, ClassFacts DEF Shut
    <2>3. k \in Nat BY <1>2, <1>3
    <2>4. Meaning!EndWhile(k) = e BY <1>2, <2>2, <2>3, PartnersMet
    <2> QED BY <1>2, <2>1, <2>3, <2>4
  <1>7. ASSUME NEW m \in 1..n - 1, src[m] = "while", Meaning!EndWhile(m) >= n,
               \A k \in m + 1..n - 1 : src[k] = "while" => Meaning!EndWhile(k) < n
        PROVE  m = w
    <2>1. m \in 1..Len(src) /\ w \in 1..Len(src) BY <1>2, <1>3
    <2>2. Meaning!EndWhile(m) \in Nat /\ Meaning!EndWhile(w) \in Nat BY <1>2, <1>3, <1>4, <1>7, <2>1
    <2>3. ~(m < w)
      <3>1. m < w => w \in m + 1..n - 1 BY <1>2, <1>3
      <3> QED BY <1>2, <1>3, <1>5, <1>7, <2>2, <3>1
    <2>4. ~(w < m)
      <3>1. w < m => m \in w + 1..n - 1 BY <1>2, <1>3
      <3> QED BY <1>2, <1>6, <1>7, <2>2, <3>1
    <2> QED BY <1>2, <2>1, <2>3, <2>4
  <1> QED BY <1>3, <1>5, <1>6, <1>7 DEF Meaning!WhileOf

-----------------------------------------------------------------------------
(* Where control settles.                                                  *)

Winds(N, S, T) == \A n \in S : n \in 1..N /\ T[n] \in 1..N + 1 /\ (T[n] > n \/ T[n] \notin S)

(* A recursion that moves forward, or once to where it stops.              *)
LEMMA Unwinds ==
  ASSUME NEW N \in Nat, NEW S, NEW T,
         Winds(N, S, T)
  PROVE  \E r : r = [n \in 1..N + 1 |-> IF n \in S THEN r[T[n]] ELSE n]
  <1> DEFINE Ok(f, n) == f[n] = IF n \in S THEN IF T[n] > n THEN f[T[n]] ELSE T[n] ELSE n
             Has(k) == \E f \in [k..N + 1 -> 1..N + 1] : \A n \in k..N + 1 : Ok(f, n)
             B == {d \in 0..N : ~Has(N + 1 - d)}
  <1>0. \A n \in S : n \in 1..N /\ T[n] \in 1..N + 1 /\ (T[n] > n \/ T[n] \notin S) BY DEF Winds
  <1>1. Has(N + 1)
    <2> DEFINE f == [n \in N + 1..N + 1 |-> N + 1]
    <2>1. f \in [N + 1..N + 1 -> 1..N + 1] OBVIOUS
    <2>2. \A n \in N + 1..N + 1 : f[n] = n /\ n \notin S
      <3>1. \A n \in N + 1..N + 1 : n = N + 1 /\ n \notin 1..N OBVIOUS
      <3> QED BY <1>0, <3>1
    <2> QED BY <2>1, <2>2
  <1>2. ASSUME NEW k \in 1..N, Has(k + 1) PROVE Has(k)
    <2>1. PICK g \in [k + 1..N + 1 -> 1..N + 1] : \A n \in k + 1..N + 1 : Ok(g, n) BY <1>2
    <2> DEFINE v == IF k \in S THEN IF T[k] > k THEN g[T[k]] ELSE T[k] ELSE k
               f == [n \in k..N + 1 |-> IF n = k THEN v ELSE g[n]]
    <2>2. k \in 1..N + 1 /\ k \in Nat /\ \A n \in k..N + 1 : n = k \/ n \in k + 1..N + 1 OBVIOUS
    <2>3. k \in S /\ T[k] > k => T[k] \in k + 1..N + 1 BY <1>0
    <2>4. v \in 1..N + 1 BY <1>0, <2>2, <2>3
    <2> HIDE DEF v
    <2>5. f \in [k..N + 1 -> 1..N + 1] BY <2>2, <2>4
    <2>6. k \in k..N + 1 /\ \A n \in k + 1..N + 1 : n \in k..N + 1 /\ n # k /\ n > k OBVIOUS
    <2>7. f[k] = v /\ \A n \in k + 1..N + 1 : f[n] = g[n] BY <2>6
    <2> HIDE DEF f
    <2>8. Ok(f, k) BY <2>3, <2>7 DEF v
    <2>9. ASSUME NEW n \in k + 1..N + 1 PROVE Ok(f, n)
      <3>1. Ok(g, n) /\ f[n] = g[n] BY <2>1, <2>7
      <3>2. n \in S /\ T[n] > n => T[n] \in k + 1..N + 1 BY <1>0
      <3>3. n \in S /\ T[n] > n => f[T[n]] = g[T[n]] BY <2>7, <3>2
      <3> QED BY <3>1, <3>3
    <2> QED BY <2>2, <2>5, <2>8, <2>9
  <1>3. B = {}
    <2> SUFFICES ASSUME B # {} PROVE FALSE OBVIOUS
    <2>0. B \subseteq Nat OBVIOUS
    <2>1. PICK d \in B : \A e \in B : <<e, d>> \notin OpToRel(<, Nat)
      <3> HIDE DEF B
      <3> QED BY <2>0, WFMin, NatLessThanWellFounded
    <2>2. d # 0
      <3>1. N + 1 - 0 = N + 1 OBVIOUS
      <3> QED BY <1>1, <3>1
    <2>3. d - 1 \in 0..N /\ d - 1 \in Nat /\ d \in Nat /\ d - 1 < d BY <2>2
    <2>4. <<d - 1, d>> \in OpToRel(<, Nat) BY <2>3 DEF OpToRel
    <2>5. Has(N + 1 - (d - 1)) BY <2>1, <2>3, <2>4
    <2>6. N + 1 - d \in 1..N /\ N + 1 - (d - 1) = (N + 1 - d) + 1 BY <2>2
    <2>7. Has(N + 1 - d)
      <3> DEFINE k == N + 1 - d
      <3>1. k \in 1..N BY <2>6
      <3>2. Has(k + 1) BY <2>5, <2>6
      <3> HIDE DEF k, Has
      <3>3. Has(k) BY <1>2, <3>1, <3>2
      <3> QED BY <3>3 DEF k
    <2> QED BY <2>7
  <1>4. Has(1)
    <2>1. N \in 0..N OBVIOUS
    <2>2. N + 1 - N = 1 OBVIOUS
    <2>3. Has(N + 1 - N) BY <1>3, <2>1
    <2> QED BY <2>2, <2>3
  <1>5. PICK f \in [1..N + 1 -> 1..N + 1] : \A n \in 1..N + 1 : Ok(f, n) BY <1>4
  <1>6. ASSUME NEW n \in 1..N + 1 PROVE f[n] = IF n \in S THEN f[T[n]] ELSE n
    <2>1. Ok(f, n) BY <1>5
    <2>2. CASE n \in S /\ ~(T[n] > n)
      <3>1. T[n] \in 1..N + 1 /\ T[n] \notin S BY <1>0, <2>2
      <3>2. Ok(f, T[n]) BY <1>5, <3>1
      <3> QED BY <2>1, <2>2, <3>1, <3>2
    <2> QED BY <2>1, <2>2
  <1>7. f = [n \in 1..N + 1 |-> f[n]] OBVIOUS
  <1>8. f = [n \in 1..N + 1 |-> IF n \in S THEN f[T[n]] ELSE n] BY <1>6, <1>7
  <1> QED BY <1>8

(* The nodes that control moves on from, and where it moves.               *)
Moving == {n \in 1..Len(src) : src[n] \in Passed \cup {"else", "endwhile", "continue", "break"}}
Aim == [n \in Moving |->
          CASE src[n] \in Passed -> n + 1
            [] src[n] = "else" -> Meaning!Endif(n) + 1
            [] src[n] \in {"endwhile", "continue"} -> Meaning!WhileOf(n) + 1
            [] OTHER -> Meaning!EndWhile(n) + 1]

LEMMA AimIs ==
  ASSUME NEW n \in Moving
  PROVE  /\ src[n] \in Passed => Aim[n] = n + 1
         /\ src[n] = "else" => Aim[n] = Meaning!Endif(n) + 1
         /\ src[n] \in {"endwhile", "continue"} => Aim[n] = Meaning!WhileOf(n) + 1
         /\ src[n] = "break" => Aim[n] = Meaning!EndWhile(n) + 1
  BY DEF Aim, Passed

(* Where control moves on to.                                              *)
LEMMA AimFacts ==
  ASSUME NEW K, Struct(<<>>, K, src), Linked(<<>>, K, src), NEW n \in Moving
  PROVE  /\ n \in 1..Len(src) /\ Aim[n] \in 1..Len(src) + 1 /\ (Aim[n] > n \/ Aim[n] \notin Moving)
         /\ src[n] \in Passed => Aim[n] = n + 1
         /\ \A l \in Nat : src[n] \in {"else", "break"} /\ Dest(src, n, l) => Aim[n] = l
         /\ \A w \in Nat : src[n] \in {"endwhile", "continue"} /\ Direct(src, w, n) => Aim[n] = w + 1
  <1>1. src \in Seq(Kinds) BY DEF Struct
  <1>2. Len(src) \in Nat BY <1>1, LenProperties
  <1>3. n \in 1..Len(src) /\ src[n] \in Passed \cup {"else", "endwhile", "continue", "break"} /\ n \in Nat
    BY <1>2 DEF Moving
  <1>4. CASE src[n] \in Passed
    <2>1. Aim[n] = n + 1 BY <1>4, AimIs
    <2>2. src[n] \notin {"else", "endwhile", "continue", "break"} BY <1>4 DEF Passed
    <2> QED BY <1>2, <1>3, <2>1, <2>2
  <1>5. CASE src[n] \in {"else", "break"}
    <2>0. src[n] \notin Passed /\ src[n] \notin {"endwhile", "continue"} BY <1>5 DEF Passed
    <2>1. ASSUME NEW l \in Nat, Dest(src, n, l) PROVE Aim[n] = l /\ l - 1 \in n + 1..Len(src)
      <3>1. CASE src[n] = "else"
        <4>1. Met(src, "if", {"endif"}, n, l - 1) BY <2>1, <3>1 DEF Dest
        <4>2. Meaning!Endif(n) = l - 1 BY <1>2, <1>3, <4>1, PartnersMet
        <4>3. Aim[n] = (l - 1) + 1 BY <3>1, <4>2, AimIs
        <4>4. l - 1 \in n + 1..Len(src) BY <4>1 DEF Met
        <4> QED BY <4>3, <4>4
      <3>2. CASE src[n] = "break"
        <4>1. Met(src, "while", {"endwhile"}, n, l - 1) BY <2>1, <3>2 DEF Dest
        <4>2. Meaning!EndWhile(n) = l - 1 BY <1>2, <1>3, <4>1, PartnersMet
        <4>3. Aim[n] = (l - 1) + 1 BY <3>2, <4>2, AimIs
        <4>4. l - 1 \in n + 1..Len(src) BY <4>1 DEF Met
        <4> QED BY <4>3, <4>4
      <3> QED BY <1>5, <3>1, <3>2
    <2>2. \A i \in 1..Len(<<>>) : FALSE OBVIOUS
    <2>3. PICK l \in 1..Len(src) + 1 : Dest(src, n, l) BY <1>3, <1>5, <2>2 DEF Linked
    <2>4. l \in Nat BY <1>2
    <2>5. Aim[n] = l /\ l - 1 \in n + 1..Len(src) BY <2>1, <2>3, <2>4
    <2>6. Aim[n] \in 1..Len(src) + 1 /\ Aim[n] > n BY <1>2, <1>3, <2>4, <2>5
    <2> QED BY <1>3, <2>0, <2>1, <2>6
  <1>6. CASE src[n] \in {"endwhile", "continue"}
    <2>0. src[n] \notin Passed /\ src[n] \notin {"else", "break"} BY <1>6 DEF Passed
    <2>1. ASSUME NEW w, Direct(src, w, n) PROVE Aim[n] = w + 1
      <3>1. Meaning!WhileOf(n) = w BY <1>3, <2>1, WhileOfDirect
      <3> QED BY <1>6, <3>1, AimIs
    <2>2. PICK w \in 1..n - 1 : Direct(src, w, n) BY <1>3, <1>6 DEF Linked
    <2>3. Aim[n] = w + 1 /\ w + 1 <= Len(src) /\ src[w + 1] = "leaf" BY <2>1, <2>2 DEF Direct
    <2>4. "leaf" \notin Passed \cup {"else", "endwhile", "continue", "break"} BY DEF Passed
    <2>5. Aim[n] \notin Moving BY <2>3, <2>4 DEF Moving
    <2>6. Aim[n] \in 1..Len(src) + 1 BY <1>2, <1>3, <2>2, <2>3
    <2> QED BY <1>3, <2>0, <2>1, <2>5, <2>6
  <1> QED BY <1>3, <1>4, <1>5, <1>6

LEMMA SettledIs ==
  ASSUME NEW K, Struct(<<>>, K, src), Linked(<<>>, K, src)
  PROVE  \A n \in 1..Len(src) + 1 :
           Meaning!Settled[n] = IF n \in Moving THEN Meaning!Settled[Aim[n]] ELSE n
  <1> DEFINE at[n \in 1..Len(src) + 1] ==
               IF n = Len(src) + 1 THEN n
               ELSE CASE src[n] \in {"decl", "drop", "{", "if", "while", "endif"} -> at[n + 1]
                      [] src[n] = "else" -> at[Meaning!Endif(n) + 1]
                      [] src[n] \in {"endwhile", "continue"} -> at[Meaning!WhileOf(n) + 1]
                      [] src[n] = "break" -> at[Meaning!EndWhile(n) + 1]
                      [] OTHER -> n
             F(r, n) ==
               IF n = Len(src) + 1 THEN n
               ELSE CASE src[n] \in {"decl", "drop", "{", "if", "while", "endif"} -> r[n + 1]
                      [] src[n] = "else" -> r[Meaning!Endif(n) + 1]
                      [] src[n] \in {"endwhile", "continue"} -> r[Meaning!WhileOf(n) + 1]
                      [] src[n] = "break" -> r[Meaning!EndWhile(n) + 1]
                      [] OTHER -> n
  <1>1. Meaning!Settled = at BY DEF Meaning!Settled
  <1>2. src \in Seq(Kinds) BY DEF Struct
  <1>3. Len(src) \in Nat BY <1>2, LenProperties
  <1>4. ASSUME NEW r, NEW n \in 1..Len(src) + 1 PROVE F(r, n) = IF n \in Moving THEN r[Aim[n]] ELSE n
    <2>1. CASE n = Len(src) + 1
      <3>1. n \notin Moving BY <1>3, <2>1 DEF Moving
      <3> QED BY <2>1, <3>1
    <2>2. CASE n # Len(src) + 1
      <3>1. n \in 1..Len(src) BY <1>3, <2>2
      <3>2. CASE n \notin Moving
        <4>1. src[n] \notin {"decl", "drop", "{", "if", "while", "endif"}
              /\ src[n] # "else" /\ src[n] \notin {"endwhile", "continue"} /\ src[n] # "break"
          BY <3>1, <3>2 DEF Moving, Passed
        <4> QED BY <2>2, <3>2, <4>1
      <3>3. CASE n \in Moving
        <4>1. CASE src[n] \in Passed
          <5>1. Aim[n] = n + 1 BY <3>3, <4>1, AimIs
          <5> QED BY <2>2, <3>3, <4>1, <5>1 DEF Passed
        <4>2. CASE src[n] = "else"
          <5>1. Aim[n] = Meaning!Endif(n) + 1 BY <3>3, <4>2, AimIs
          <5> QED BY <2>2, <3>3, <4>2, <5>1
        <4>3. CASE src[n] \in {"endwhile", "continue"}
          <5>1. Aim[n] = Meaning!WhileOf(n) + 1 BY <3>3, <4>3, AimIs
          <5> QED BY <2>2, <3>3, <4>3, <5>1
        <4>4. CASE src[n] = "break"
          <5>1. Aim[n] = Meaning!EndWhile(n) + 1 BY <3>3, <4>4, AimIs
          <5> QED BY <2>2, <3>3, <4>4, <5>1
        <4> QED BY <3>3, <4>1, <4>2, <4>3, <4>4 DEF Moving
      <3> QED BY <3>2, <3>3
    <2> QED BY <2>1, <2>2
  <1>5. \E r : r = [n \in 1..Len(src) + 1 |-> IF n \in Moving THEN r[Aim[n]] ELSE n]
    <2>1. \A n \in Moving : /\ n \in 1..Len(src)
                            /\ Aim[n] \in 1..Len(src) + 1
                            /\ Aim[n] > n \/ Aim[n] \notin Moving
      BY AimFacts
    <2> DEFINE N == Len(src)
               S == Moving
               T == Aim
    <2>2. N \in Nat BY <1>3
    <2>3. Winds(N, S, T)
      <3>1. \A n \in S : n \in 1..N /\ T[n] \in 1..N + 1 /\ (T[n] > n \/ T[n] \notin S)
        BY <2>1
      <3> QED BY <3>1 DEF Winds
    <2> HIDE DEF N, S, T
    <2>4. \E r : r = [n \in 1..N + 1 |-> IF n \in S THEN r[T[n]] ELSE n] BY <2>2, <2>3, Unwinds
    <2> QED BY <2>4 DEF N, S, T
  <1>6. PICK r : r = [n \in 1..Len(src) + 1 |-> IF n \in Moving THEN r[Aim[n]] ELSE n] BY <1>5
  <1>7. [n \in 1..Len(src) + 1 |-> IF n \in Moving THEN r[Aim[n]] ELSE n] = [n \in 1..Len(src) + 1 |-> F(r, n)]
    BY <1>4
  <1>8. r = [n \in 1..Len(src) + 1 |-> F(r, n)] BY <1>6, <1>7
  <1>11. at = CHOOSE x : x = [n \in 1..Len(src) + 1 |-> F(x, n)] OBVIOUS
  <1> HIDE DEF at
  <1>9. at = [n \in 1..Len(src) + 1 |-> F(at, n)] BY <1>8, <1>11
  <1>10. \A n \in 1..Len(src) + 1 : at[n] = F(at, n)
    <2> HIDE DEF F
    <2> QED BY <1>9
  <1> HIDE DEF F
  <1> QED BY <1>1, <1>4, <1>10

(* The text of a finished function.                                        *)
LEMMA WholeText ==
  ASSUME NEW K, NEW L, Whole(K, L, code, src)
  PROVE  /\ Struct(<<>>, K, src) /\ Linked(<<>>, K, src) /\ Labels(L, 1..Len(code), src)
         /\ src \in Seq(Kinds) /\ Len(src) \in Nat
  <1>1. Struct(<<>>, K, src) /\ Linked(<<>>, K, src) /\ Labels(L, 1..Len(code), src) BY DEF Whole
  <1>2. src \in Seq(Kinds) BY <1>1 DEF Struct
  <1> QED BY <1>1, <1>2, LenProperties

LEMMA SettledStops ==
  ASSUME NEW K, NEW L, Whole(K, L, code, src), NEW n \in 1..Len(src) + 1, n \notin Moving
  PROVE  Meaning!Settled[n] = n
  BY WholeText, SettledIs

LEMMA SettledCalm ==
  ASSUME NEW K, NEW L, Whole(K, L, code, src), NEW f \in 1..Len(src) + 1, NEW m \in f..Len(src) + 1,
         Calm(src, f, m)
  PROVE  Meaning!Settled[f] = Meaning!Settled[m]
  <1> DEFINE B == {d \in 0..m - f : Meaning!Settled[m - d] # Meaning!Settled[m]}
  <1>1. Len(src) \in Nat /\ Struct(<<>>, K, src) /\ Linked(<<>>, K, src) BY WholeText
  <1>2. f \in Nat /\ m \in Nat /\ m - f \in Nat BY <1>1
  <1>3. ASSUME NEW k \in f..m - 1 PROVE Meaning!Settled[k] = Meaning!Settled[k + 1]
    <2>1. src[k] \in Passed BY DEF Calm
    <2>2. k \in 1..Len(src) /\ k \in 1..Len(src) + 1 BY <1>1, <1>2
    <2>3. k \in Moving BY <2>1, <2>2 DEF Moving
    <2>4. Aim[k] = k + 1 BY <2>1, <2>3, AimIs
    <2> QED BY <1>1, <2>2, <2>3, <2>4, SettledIs
  <1>4. B = {}
    <2> SUFFICES ASSUME B # {} PROVE FALSE OBVIOUS
    <2>0. B \subseteq Nat BY <1>2
    <2>1. PICK d \in B : \A e \in B : <<e, d>> \notin OpToRel(<, Nat)
      <3> HIDE DEF B
      <3> QED BY <2>0, WFMin, NatLessThanWellFounded
    <2>2. d # 0
      <3>1. m - 0 = m BY <1>2
      <3>2. d = 0 => m - d = m BY <3>1
      <3> QED BY <3>2
    <2>3. d - 1 \in 0..m - f /\ d - 1 \in Nat /\ d \in Nat /\ d - 1 < d BY <1>2, <2>2
    <2>4. <<d - 1, d>> \in OpToRel(<, Nat) BY <2>3 DEF OpToRel
    <2>5. Meaning!Settled[m - (d - 1)] = Meaning!Settled[m] BY <2>1, <2>3, <2>4
    <2>6. m - d \in f..m - 1 /\ m - (d - 1) = (m - d) + 1 BY <1>2, <2>2
    <2>7. Meaning!Settled[m - d] = Meaning!Settled[(m - d) + 1] BY <1>3, <2>6
    <2> QED BY <2>5, <2>6, <2>7
  <1>5. m - f \in 0..m - f BY <1>2
  <1>6. m - (m - f) = f BY <1>2
  <1>7. Meaning!Settled[m - (m - f)] = Meaning!Settled[m] BY <1>4, <1>5
  <1> QED BY <1>6, <1>7

(* A branch goes where the node it is met at goes.                         *)
LEMMA SettledGoes ==
  ASSUME NEW K, NEW L, Whole(K, L, code, src), Len(code) \in Nat, NEW f \in 1..Len(src) + 1,
         NEW m \in f..Len(src) + 1, NEW y, Goes(<<>>, K, L, code, 1..Len(code), src, f, m, y)
  PROVE  /\ y \in 1..Len(code) /\ L[y] \in 1..Len(src) + 1 /\ Meaning!Settled[L[y]] = Meaning!Settled[m]
         /\ \/ L[y] = m /\ (m = f => code[y][1].op # "br")
            \/ code[y][1].op = "eval" /\ src[L[y] - 1] = "while" /\ L[y] - 1 \in 1..Len(src)
            \/ L[y] > m /\ src[L[y] - 1] \in {"endif", "endwhile"} /\ L[y] - 1 \in 1..Len(src)
  <1>1. /\ Len(src) \in Nat /\ Struct(<<>>, K, src) /\ Linked(<<>>, K, src) /\ Labels(L, 1..Len(code), src)
    BY WholeText
  <1>2. \A b \in 1..Len(code) : L[b] \in 1..Len(src) + 1 BY <1>1 DEF Labels
  <1>3. CASE /\ m \in 1..Len(src) /\ src[m] \in {"continue", "endwhile"}
             /\ y \in 1..Len(code) /\ Direct(src, L[y] - 1, m) /\ code[y] # <<>> /\ code[y][1].op = "eval"
    <2>1. m \in Moving /\ m \in 1..Len(src) + 1 BY <1>1, <1>3 DEF Moving
    <2>2. L[y] - 1 \in 1..m - 1 /\ src[L[y] - 1] = "while" BY <1>3 DEF Direct
    <2>3. L[y] \in 1..Len(src) + 1 BY <1>2, <1>3
    <2>4. L[y] - 1 \in Nat BY <1>1, <2>2, <2>3
    <2>5. Aim[m] = (L[y] - 1) + 1 BY <1>1, <1>3, <2>1, <2>4, AimFacts
    <2>6. Aim[m] = L[y] BY <1>1, <2>3, <2>5
    <2>7. Meaning!Settled[m] = Meaning!Settled[L[y]] BY <1>1, <2>1, <2>6, SettledIs
    <2>8. L[y] - 1 \in 1..Len(src) BY <1>1, <2>2, <2>3
    <2> QED BY <1>3, <2>2, <2>3, <2>7, <2>8
  <1>4. CASE m \in 1..Len(src) /\ src[m] \in {"else", "break"} /\ Far(<<>>, K, L, code, 1..Len(code), src, m, y)
    <2>1. m \in Moving /\ m \in 1..Len(src) + 1 BY <1>1, <1>4 DEF Moving
    <2>2. \A i \in 1..Len(<<>>) : FALSE OBVIOUS
    <2>3. y \in 1..Len(code) /\ Dest(src, m, L[y]) BY <1>4, <2>2 DEF Far
    <2>4. L[y] \in 1..Len(src) + 1 /\ L[y] \in Nat BY <1>1, <1>2, <2>3
    <2>5. Aim[m] = L[y] BY <1>1, <1>4, <2>1, <2>3, <2>4, AimFacts
    <2>6. Meaning!Settled[m] = Meaning!Settled[L[y]] BY <1>1, <2>1, <2>5, SettledIs
    <2>7. L[y] - 1 \in m + 1..Len(src) /\ src[L[y] - 1] \in {"endif", "endwhile"} BY <1>4, <2>3 DEF Dest, Met
    <2>8. L[y] > m /\ L[y] - 1 \in 1..Len(src) BY <1>1, <1>4, <2>4, <2>7
    <2> QED BY <2>3, <2>4, <2>6, <2>7, <2>8
  <1>5. CASE y \in 1..Len(code) /\ L[y] = m /\ (m = f => code[y] # <<>> /\ code[y][1].op # "br")
    BY <1>1, <1>2, <1>5
  <1> QED BY <1>3, <1>4, <1>5 DEF Goes

-----------------------------------------------------------------------------
(* The position.                                                           *)

(* The instruction at j of block b is for the node control settles at.     *)
LEMMA MeantSettled ==
  ASSUME NEW K, NEW L, Whole(K, L, code, src), code \in Codes, NEW b \in 1..Len(code), NEW j \in 1..Len(code[b])
  PROVE  LET f == From(L, code, b, j)
             i == code[b][j]
         IN  /\ f \in 1..Len(src) + 1
             /\ i.op # "br" => i.node \in f..Len(src) + 1 /\ Calm(src, f, i.node) /\ Meaning!Settled[f] = i.node
             /\ i.op = "br" =>
                  \E m \in f..Len(src) + 1 : /\ Calm(src, f, m) /\ Meaning!Settled[f] = Meaning!Settled[m]
                                             /\ Goes(<<>>, K, L, code, 1..Len(code), src, f, m, i.to[1])
  <1> DEFINE f == From(L, code, b, j)
             i == code[b][j]
  <1>1. Len(src) \in Nat /\ Labels(L, 1..Len(code), src) BY WholeText
  <1>2. f \in Nat \ {0}
    <2>1. L[b] \in Nat \ {0} BY <1>1 DEF Labels
    <2>2. j \in 1..Len(code[b]) + 1
      <3>1. Len(code[b]) \in Nat BY CodeFacts
      <3> QED BY <3>1
    <2> QED BY <2>1, <2>2, FromFacts
  <1>3. Meant(<<>>, K, L, code, 1..Len(code), src, b, j) \/ LastRet(L, code, src, b, j) BY DEF Whole
  <1>4. i \in Instrs BY CodeFacts
  <1>5. CASE LastRet(L, code, src, b, j)
    <2>1. i.op = "ret" /\ i.node = Len(src) + 1 /\ f \in 1..Len(src) + 1 /\ Calm(src, f, i.node)
      BY <1>5 DEF LastRet
    <2>2. i.node \in f..Len(src) + 1 /\ i.node \in 1..Len(src) + 1 BY <1>1, <2>1
    <2>3. i.node \notin Moving BY <1>1, <2>1 DEF Moving
    <2>4. Meaning!Settled[f] = Meaning!Settled[i.node] BY <2>1, <2>2, SettledCalm
    <2>5. Meaning!Settled[i.node] = i.node BY <2>2, <2>3, SettledStops
    <2> QED BY <2>1, <2>2, <2>4, <2>5
  <1>6. CASE Meant(<<>>, K, L, code, 1..Len(code), src, b, j) /\ i.op # "br"
    <2>1. i.node \in f..Len(src) /\ Calm(src, f, i.node) BY <1>6 DEF Meant
    <2>2. src[i.node] \in {"leaf", "op", "param", "store", "endlogic", "return", "retval", "then", "do", "and", "or"}
      <3>1. i.op \in Ops BY <1>4 DEF Instrs
      <3>2. i.op \in {"eval", "store", "phi", "ret", "condbr"} BY <3>1, <1>6 DEF Ops, Terminators
      <3>3. /\ i.op = "eval" => src[i.node] \in {"leaf", "op"}
            /\ i.op = "store" => src[i.node] \in {"param", "store"}
            /\ i.op = "phi" => src[i.node] = "endlogic"
            /\ i.op = "ret" => src[i.node] \in {"return", "retval"}
            /\ i.op = "condbr" => src[i.node] \in {"then", "do", "and", "or"}
        BY <1>6 DEF Meant, Branching
      <3> QED BY <3>2, <3>3
    <2>3. i.node \notin Moving BY <2>2 DEF Moving, Passed
    <2>4. /\ f \in 1..Len(src) + 1 /\ i.node \in f..Len(src) + 1 /\ i.node \in 1..Len(src) + 1
      BY <1>1, <1>2, <2>1
    <2>5. Meaning!Settled[f] = Meaning!Settled[i.node] BY <2>1, <2>4, SettledCalm
    <2>6. Meaning!Settled[i.node] = i.node BY <2>3, <2>4, SettledStops
    <2> QED BY <1>6, <2>1, <2>4, <2>5, <2>6
  <1>7. CASE Meant(<<>>, K, L, code, 1..Len(code), src, b, j) /\ i.op = "br"
    <2>1. PICK m \in f..Len(src) + 1 : /\ Calm(src, f, m)
                                       /\ Goes(<<>>, K, L, code, 1..Len(code), src, f, m, i.to[1])
      BY <1>7 DEF Meant
    <2>2. f \in 1..Len(src) + 1 BY <1>1, <1>2
    <2>3. Meaning!Settled[f] = Meaning!Settled[m] BY <2>1, <2>2, SettledCalm
    <2> QED BY <1>7, <2>1, <2>2, <2>3
  <1> QED BY <1>3, <1>5, <1>6, <1>7

(* The node each place of the graph stands for, as Position has it.        *)
Sites ==
  LET at[p \in Points] ==
        LET i == code[p[1]][p[2]] IN IF i.op = "br" THEN at[<<i.to[1], 1>>] ELSE i.node
  IN  at

(* It is what Position looks up.                                           *)
LEMMA PositionAt == Position = IF blk = 0 THEN 0 ELSE Sites[<<blk, ip>>]
  BY DEF Position, Sites

(* A finished function has no empty block.                                 *)
Filled == code \in Codes /\ Len(code) \in Nat /\ \A b \in 1..Len(code) : Len(code[b]) \in Nat /\ code[b] # <<>>

LEMMA PointFacts ==
  /\ \A b, j : b \in 1..Len(code) /\ j \in 1..Len(code[b]) => <<b, j>> \in Points
  /\ \A p \in Points : p[1] \in 1..Len(code) /\ p[2] \in 1..Len(code[p[1]]) /\ p = <<p[1], p[2]>>
  <1>1. ASSUME NEW b \in 1..Len(code), NEW j \in 1..Len(code[b]) PROVE <<b, j>> \in Points
    <2>1. <<b, j>> \in {b} \X (1..Len(code[b])) OBVIOUS
    <2> QED BY <2>1 DEF Points, Block, NBlocks
  <1>2. ASSUME NEW p \in Points
        PROVE  p[1] \in 1..Len(code) /\ p[2] \in 1..Len(code[p[1]]) /\ p = <<p[1], p[2]>>
    <2>1. PICK b \in 1..Len(code) : p \in {b} \X (1..Len(code[b])) BY DEF Points, Block, NBlocks
    <2> QED BY <2>1
  <1> QED BY <1>1, <1>2

(* What a branch reaches is behind it, or no branch.                       *)
LEMMA BranchReaches ==
  ASSUME NEW K, NEW L, Whole(K, L, code, src), Filled, NEW b \in 1..Len(code), NEW j \in 1..Len(code[b]),
         code[b][j].op = "br"
  PROVE  LET y == code[b][j].to[1]
             f == From(L, code, b, j)
         IN  /\ y \in 1..Len(code) /\ 1 \in 1..Len(code[y]) /\ From(L, code, y, 1) = L[y] /\ f \in 1..Len(src) + 1
             /\ L[y] \in 1..Len(src) + 1
             /\ Meaning!Settled[f] = Meaning!Settled[L[y]]
             /\ code[y][1].op # "br" \/ L[y] > f
  <1> DEFINE y == code[b][j].to[1]
             f == From(L, code, b, j)
  <1>0. Len(src) \in Nat /\ Len(code) \in Nat BY WholeText DEF Filled
  <1>1. /\ f \in 1..Len(src) + 1
        /\ \E m \in f..Len(src) + 1 : /\ Calm(src, f, m) /\ Meaning!Settled[f] = Meaning!Settled[m]
                                      /\ Goes(<<>>, K, L, code, 1..Len(code), src, f, m, y)
    BY MeantSettled DEF Filled
  <1>2. PICK m \in f..Len(src) + 1 : /\ Calm(src, f, m) /\ Meaning!Settled[f] = Meaning!Settled[m]
                                     /\ Goes(<<>>, K, L, code, 1..Len(code), src, f, m, y)
    BY <1>1
  <1> HIDE DEF y, f
  <1>3. /\ y \in 1..Len(code) /\ L[y] \in 1..Len(src) + 1 /\ Meaning!Settled[L[y]] = Meaning!Settled[m]
        /\ \/ L[y] = m /\ (m = f => code[y][1].op # "br")
           \/ code[y][1].op = "eval"
           \/ L[y] > m
    BY <1>0, <1>1, <1>2, SettledGoes
  <1>4. code[y][1].op # "br" \/ L[y] > f
    <2>1. f \in Nat /\ m \in Nat /\ L[y] \in Nat /\ f <= m BY <1>0, <1>1, <1>3
    <2> QED BY <1>3, <2>1
  <1>5. 1 \in 1..Len(code[y])
    <2>1. code[y] # <<>> /\ Len(code[y]) \in Nat /\ code[y] \in Seq(Instrs) BY <1>3, CodeFacts DEF Filled
    <2> QED BY <2>1, EmptySeq
  <1>6. From(L, code, y, 1) = L[y] BY DEF From
  <1> QED BY <1>1, <1>2, <1>3, <1>4, <1>5, <1>6 DEF y, f

LEMMA AtEquation ==
  ASSUME NEW K, NEW L, Whole(K, L, code, src), Filled
  PROVE  \A p \in Points : Sites[p] = LET i == code[p[1]][p[2]]
                                     IN  IF i.op = "br" THEN Sites[<<i.to[1], 1>>] ELSE i.node
  <1> DEFINE at[p \in Points] == LET i == code[p[1]][p[2]] IN IF i.op = "br" THEN at[<<i.to[1], 1>>] ELSE i.node
             G(r, p) == LET i == code[p[1]][p[2]] IN IF i.op = "br" THEN r[<<i.to[1], 1>>] ELSE i.node
             r == [p \in Points |-> Meaning!Settled[From(L, code, p[1], p[2])]]
  <1>1. Sites = at BY DEF Sites
  <1>2. at = CHOOSE x : x = [p \in Points |-> G(x, p)] OBVIOUS
  <1> HIDE DEF at
  <1>3. ASSUME NEW p \in Points PROVE r[p] = G(r, p)
    <2> DEFINE b == p[1]
               j == p[2]
               i == code[b][j]
    <2>1. b \in 1..Len(code) /\ j \in 1..Len(code[b]) BY PointFacts
    <2>2. r[p] = Meaning!Settled[From(L, code, b, j)] OBVIOUS
    <2>5. G(r, p) = IF i.op = "br" THEN r[<<i.to[1], 1>>] ELSE i.node OBVIOUS
    <2> HIDE DEF b, j, G
    <2>3. CASE i.op = "br"
      <3> DEFINE y == i.to[1]
      <3>1. /\ y \in 1..Len(code) /\ 1 \in 1..Len(code[y]) /\ From(L, code, y, 1) = L[y]
            /\ Meaning!Settled[From(L, code, b, j)] = Meaning!Settled[L[y]]
        BY <2>1, <2>3, BranchReaches
      <3>2. <<y, 1>> \in Points BY <3>1, PointFacts
      <3>3. r[<<y, 1>>] = Meaning!Settled[From(L, code, y, 1)] BY <3>2
      <3>4. G(r, p) = r[<<y, 1>>] BY <2>3, <2>5
      <3> QED BY <2>2, <3>1, <3>3, <3>4
    <2>4. CASE i.op # "br"
      <3>1. Meaning!Settled[From(L, code, b, j)] = i.node BY <2>1, <2>4, MeantSettled DEF Filled
      <3>2. G(r, p) = i.node BY <2>4, <2>5
      <3> QED BY <2>2, <3>1, <3>2
    <2> QED BY <2>3, <2>4
  <1>4. r = [p \in Points |-> G(r, p)]
    <2>1. r = [p \in Points |-> r[p]] OBVIOUS
    <2> HIDE DEF r, G
    <2> QED BY <1>3, <2>1
  <1> HIDE DEF r
  <1>5. at = [p \in Points |-> G(at, p)] BY <1>2, <1>4
  <1>6. \A p \in Points : at[p] = G(at, p)
    <2> HIDE DEF G
    <2> QED BY <1>5
  <1> QED BY <1>1, <1>6

LEMMA AtSettled ==
  ASSUME NEW K, NEW L, Whole(K, L, code, src), Filled
  PROVE  \A p \in Points : Sites[p] = Meaning!Settled[From(L, code, p[1], p[2])]
  <1> DEFINE N == Len(src) + 1
             F(p) == From(L, code, p[1], p[2])
             Off(p) == Sites[p] # Meaning!Settled[F(p)]
             B == {d \in 0..N : \E p \in Points : d = N - F(p) /\ Off(p)}
  <1>0. Len(src) \in Nat BY WholeText
  <1>1. ASSUME NEW p \in Points PROVE F(p) \in 1..N
    BY PointFacts, MeantSettled DEF Filled
  <1>2. ASSUME NEW p \in Points, Off(p)
        PROVE  \E q \in Points : Off(q) /\ F(q) > F(p)
    <2> DEFINE b == p[1]
               j == p[2]
               i == code[b][j]
               y == i.to[1]
    <2>1. b \in 1..Len(code) /\ j \in 1..Len(code[b]) BY PointFacts
    <2>2. Sites[p] = IF i.op = "br" THEN Sites[<<y, 1>>] ELSE i.node BY AtEquation
    <2>0. F(p) = From(L, code, b, j) OBVIOUS
    <2>10. Sites[p] # Meaning!Settled[From(L, code, b, j)] BY <1>2
    <2> HIDE DEF b, j, F, Off
    <2>3. i.op = "br"
      <3>1. i.op # "br" => Meaning!Settled[From(L, code, b, j)] = i.node BY <2>1, MeantSettled DEF Filled
      <3> QED BY <2>10, <2>2, <3>1
    <2>4. /\ y \in 1..Len(code) /\ 1 \in 1..Len(code[y]) /\ From(L, code, y, 1) = L[y]
          /\ Meaning!Settled[From(L, code, b, j)] = Meaning!Settled[L[y]]
          /\ code[y][1].op # "br" \/ L[y] > From(L, code, b, j)
      BY <2>1, <2>3, BranchReaches
    <2>5. <<y, 1>> \in Points /\ <<y, 1>>[1] = y /\ <<y, 1>>[2] = 1 BY <2>4, PointFacts
    <2> HIDE DEF y
    <2>6. F(<<y, 1>>) = L[y] BY <2>4, <2>5 DEF F
    <2>11. Sites[<<y, 1>>] # Meaning!Settled[F(<<y, 1>>)] BY <2>10, <2>2, <2>3, <2>4, <2>6
    <2>7. Off(<<y, 1>>) BY <2>11 DEF Off
    <2>8. code[y][1].op = "br"
      <3>1. code[y][1].op # "br" => Meaning!Settled[From(L, code, y, 1)] = code[y][1].node
        BY <2>4, MeantSettled DEF Filled
      <3>2. code[y][1].op # "br" => Sites[<<y, 1>>] = code[y][1].node BY <2>5, AtEquation
      <3> QED BY <2>6, <2>11, <2>4, <3>1, <3>2
    <2>9. F(<<y, 1>>) > F(p) BY <2>0, <2>4, <2>6, <2>8
    <2> QED BY <2>5, <2>7, <2>9
  <1>3. B = {}
    <2> SUFFICES ASSUME B # {} PROVE FALSE OBVIOUS
    <2>0. B \subseteq Nat BY <1>0
    <2>1. PICK d \in B : \A e \in B : <<e, d>> \notin OpToRel(<, Nat)
      <3> HIDE DEF B
      <3> QED BY <2>0, WFMin, NatLessThanWellFounded
    <2>2. PICK p \in Points : d = N - F(p) /\ Off(p) BY <2>1
    <2>3. PICK q \in Points : Off(q) /\ F(q) > F(p) BY <1>2, <2>2
    <2> DEFINE e == N - F(q)
    <2> HIDE DEF F
    <2>4. F(p) \in 1..N /\ F(q) \in 1..N BY <1>1
    <2> HIDE DEF Off
    <2>5. e \in 0..N /\ e \in Nat /\ d \in Nat /\ e < d BY <1>0, <2>2, <2>3, <2>4
    <2>6. e \in B BY <2>3, <2>5
    <2>7. <<e, d>> \in OpToRel(<, Nat) BY <2>5 DEF OpToRel
    <2> QED BY <2>1, <2>6, <2>7
  <1>4. ASSUME NEW p \in Points, Off(p) PROVE FALSE
    <2> HIDE DEF F, Off
    <2>1. F(p) \in 1..N BY <1>1
    <2>2. N - F(p) \in 0..N BY <1>0, <2>1
    <2>3. N - F(p) \in B BY <1>4, <2>2
    <2> QED BY <1>3, <2>3
  <1> QED BY <1>4

-----------------------------------------------------------------------------
(* The operands of && and || that control is behind.                       *)

LEMMA UndecidedSkips ==
  ASSUME NEW K, NEW s, Struct(<<>>, K, s), NEW L, NEW c, NEW y, NEW e, NEW p,
         L[y] \in 1..Len(s) + 1, L[y] - 1 \in 1..Len(s), s[L[y] - 1] \notin Exprs
  PROVE  Undecided(L, c, s, e, y, 1, p)
  <1> DEFINE g == L[y]
  <1>0. s \in Seq(Kinds) /\ Nests(s) BY DEF Struct
  <1>1. Len(s) \in Nat BY <1>0, LenProperties
  <1>2. g \in Nat /\ g - 1 \in 1..Len(s) /\ s[g - 1] \notin Exprs BY <1>1
  <1>3. From(L, c, y, 1) = g BY DEF From
  <1> HIDE DEF g
  <1>4. ASSUME NEW n \in 2..Len(s), NEW m \in 2..Len(s), s[n] \in {"and", "or"}, Shut(s, "logic", n, m), n < g, g <= m
        PROVE  FALSE
    <2>1. n \in 1..Len(s) /\ m \in 1..Len(s) BY <1>1
    <2>2. Inner(s, n, m) BY <1>0, <1>4, <2>1 DEF Nests
    <2>3. n # g - 1
      <3>1. {"and", "or"} \subseteq Exprs BY DEF Exprs
      <3> QED BY <1>2, <1>4, <3>1
    <2>4. g - 1 \in n + 1..m - 1 BY <1>1, <1>2, <1>4, <2>1, <2>3
    <2> QED BY <1>2, <2>2, <2>4 DEF Inner
  <1>5. \A m \in 2..Len(s) : g < m \/ g = m => g <= m BY <1>1, <1>2
  <1> QED BY <1>3, <1>4, <1>5 DEF Undecided

LEMMA UndecidedOn ==
  ASSUME NEW s \in Seq(Kinds), NEW L, NEW c, NEW e, NEW b, NEW j, NEW p, Undecided(L, c, s, e, b, j, p),
         From(L, c, b, j) \in 1..Len(s) + 1, NEW k \in From(L, c, b, j)..Len(s) + 1,
         Calm(s, From(L, c, b, j), k), c[b][j].op # "phi",
         NEW y, L[y] \in k..k + 1,
         L[y] = k + 1 /\ s[k] \in {"and", "or"} => e[k - 1] # (s[k] = "or")
  PROVE  Undecided(L, c, s, e, y, 1, b)
  <1> DEFINE f == From(L, c, b, j)
             g == L[y]
  <1>1. Len(s) \in Nat BY LenProperties
  <1>2. f \in Nat /\ k \in Nat /\ g \in Nat /\ f <= k /\ g \in k..k + 1 BY <1>1
  <1>3. From(L, c, y, 1) = g BY DEF From
  <1>4. \A n \in f..k - 1 : s[n] \in Passed BY DEF Calm
  <1>5. g = k + 1 /\ s[k] \in {"and", "or"} => e[k - 1] # (s[k] = "or") OBVIOUS
  <1>6. \A n, m \in 2..Len(s) : s[n] \in {"and", "or"} /\ Shut(s, "logic", n, m) =>
          (n < f /\ (f < m \/ f = m) => e[n - 1] # (s[n] = "or"))
    BY DEF Undecided
  <1> HIDE DEF f, g
  <1>7. ASSUME NEW n \in 2..Len(s), NEW m \in 2..Len(s), s[n] \in {"and", "or"}, Shut(s, "logic", n, m), n < g, g <= m
        PROVE  e[n - 1] # (s[n] = "or")
    <2>1. CASE n = k
      <3>1. g = k + 1 BY <1>2, <1>7, <2>1
      <3> QED BY <1>5, <1>7, <2>1, <3>1
    <2>2. CASE n # k
      <3>1. n \in Nat /\ m \in Nat BY <1>1
      <3>2. n < k BY <1>2, <1>7, <2>2, <3>1
      <3>3. n \notin f..k - 1
        <4>1. {"and", "or"} \cap Passed = {} BY DEF Passed
        <4> QED BY <1>4, <1>7, <4>1
      <3>4. n < f BY <1>2, <3>1, <3>2, <3>3
      <3>5. f < m \/ f = m BY <1>2, <1>7, <3>1
      <3> QED BY <1>6, <1>7, <3>4, <3>5
    <2> QED BY <2>1, <2>2
  <1>8. \A m \in 2..Len(s) : g < m \/ g = m => g <= m BY <1>1, <1>2
  <1> QED BY <1>3, <1>7, <1>8 DEF Undecided

LEMMA UndecidedAway ==
  ASSUME NEW K, NEW s, Struct(<<>>, K, s), NEW L, NEW c, NEW e, NEW b, NEW j, NEW p, Undecided(L, c, s, e, b, j, p),
         From(L, c, b, j) \in 1..Len(s) + 1, NEW k \in From(L, c, b, j)..Len(s), Calm(s, From(L, c, b, j), k),
         s[k] \in {"and", "or"}, NEW y, Shut(s, "logic", k, L[y]), L[y] \in Nat, c[y][1].op = "phi",
         LastOf(c[b]).op = "condbr", LastOf(c[b]).node = k
  PROVE  Undecided(L, c, s, e, y, 1, b)
  <1> DEFINE f == From(L, c, b, j)
             g == L[y]
  <1>0. s \in Seq(Kinds) /\ Nests(s) BY DEF Struct
  <1>1. Len(s) \in Nat BY <1>0, LenProperties
  <1>2. f \in Nat /\ k \in Nat /\ g \in Nat /\ f <= k /\ k \in 1..Len(s) BY <1>1
  <1>3. From(L, c, y, 1) = g BY DEF From
  <1>4. \A n \in f..k - 1 : s[n] \in Passed BY DEF Calm
  <1>5. \A n, m \in 2..Len(s) : s[n] \in {"and", "or"} /\ Shut(s, "logic", n, m) =>
          (n < f /\ f < m => e[n - 1] # (s[n] = "or"))
    BY DEF Undecided
  <1>6. Shut(s, "logic", k, g) OBVIOUS
  <1> HIDE DEF f, g
  <1>7. g \in k + 1..Len(s) /\ g \in 1..Len(s) BY <1>1, <1>2, <1>6 DEF Shut, Met
  <1>8. Inner(s, k, g) BY <1>0, <1>2, <1>6, <1>7 DEF Nests
  <1>9. ASSUME NEW n \in 2..Len(s), NEW m \in 2..Len(s), s[n] \in {"and", "or"}, Shut(s, "logic", n, m),
               n < g, g < m \/ (g = m /\ n # k)
        PROVE  e[n - 1] # (s[n] = "or")
    <2>0. n \in Nat /\ m \in Nat /\ n \in 1..Len(s) BY <1>1
    <2>1. n # k
      <3>1. n = k => m = g BY <1>1, <1>6, <1>9, <2>0, MetOnce DEF Shut
      <3> QED BY <1>2, <1>9, <3>1
    <2>2. ~(n > k)
      <3> SUFFICES ASSUME n > k PROVE FALSE OBVIOUS
      <3>1. n \in k + 1..g - 1 BY <1>2, <1>9, <2>0
      <3>2. PICK d \in n + 1..g - 1 : Shut(s, "logic", n, d) BY <1>8, <1>9, <3>1 DEF Inner
      <3>3. m = d BY <1>1, <1>9, <2>0, <3>2, MetOnce DEF Shut
      <3> QED BY <1>2, <1>9, <2>0, <3>2, <3>3
    <2>3. n \notin f..k - 1
      <3>1. {"and", "or"} \cap Passed = {} BY DEF Passed
      <3> QED BY <1>4, <1>9, <3>1
    <2>4. n < f BY <1>2, <2>0, <2>1, <2>2, <2>3
    <2>5. f < m BY <1>2, <1>7, <1>9, <2>0
    <2> QED BY <1>5, <1>9, <2>4, <2>5
  <1>10. ASSUME NEW n \in 2..Len(s), NEW m \in 2..Len(s),
                g < m \/ (g = m /\ ~(c[y][1].op = "phi" /\ LastOf(c[b]).op = "condbr" /\ LastOf(c[b]).node = n))
         PROVE  g < m \/ (g = m /\ n # k)
    BY <1>10
  <1> QED BY <1>3, <1>9, <1>10 DEF Undecided

LEMMA UndecidedAdvances ==
  ASSUME NEW s \in Seq(Kinds), NEW L, NEW c, NEW e, NEW b, NEW j, NEW p, Undecided(L, c, s, e, b, j, p),
         j \in Nat \ {0}, From(L, c, b, j) \in 1..Len(s) + 1, NEW k \in From(L, c, b, j)..Len(s),
         Calm(s, From(L, c, b, j), k), c[b][j].node = k, s[k] \notin {"and", "or"},
         NEW d, \A h \in 1..Len(s) : h # k => d[h] = e[h]
  PROVE  Undecided(L, c, s, d, b, j + 1, p)
  <1> DEFINE f == From(L, c, b, j)
  <1>1. Len(s) \in Nat BY LenProperties
  <1>2. f \in Nat /\ k \in Nat /\ f <= k /\ k \in 1..Len(s) BY <1>1
  <1>3. From(L, c, b, j + 1) = k + 1
    <2>1. j + 1 # 1 /\ (j + 1) - 1 = j OBVIOUS
    <2> QED BY <2>1 DEF From
  <1>4. \A n \in f..k - 1 : s[n] \in Passed BY DEF Calm
  <1>5. \A n, m \in 2..Len(s) : s[n] \in {"and", "or"} /\ Shut(s, "logic", n, m) =>
          (n < f /\ f < m => e[n - 1] # (s[n] = "or"))
    BY DEF Undecided
  <1> HIDE DEF f
  <1>6. ASSUME NEW n \in 2..Len(s), NEW m \in 2..Len(s), s[n] \in {"and", "or"}, Shut(s, "logic", n, m),
               n < k + 1, k + 1 < m \/ k + 1 = m
        PROVE  d[n - 1] # (s[n] = "or")
    <2>1. n \in Nat /\ m \in Nat BY <1>1
    <2>2. n < k
      <3>1. n # k BY <1>6
      <3> QED BY <1>2, <1>6, <2>1, <3>1
    <2>3. n \notin f..k - 1
      <3>1. {"and", "or"} \cap Passed = {} BY DEF Passed
      <3> QED BY <1>4, <1>6, <3>1
    <2>4. n < f /\ f < m BY <1>2, <1>6, <2>1, <2>2, <2>3
    <2>5. n - 1 \in 1..Len(s) /\ n - 1 # k BY <1>1, <1>2, <2>1, <2>2
    <2> QED BY <1>5, <1>6, <2>4, <2>5
  <1> QED BY <1>3, <1>6 DEF Undecided

-----------------------------------------------------------------------------
(* The function runs.                                                      *)

LEMMA DoneFilled ==
  ASSUME IInv, phase = "done"
  PROVE  /\ Filled /\ 1 \in 1..Len(code)
         /\ \A b \in 1..Len(code) : \A j \in 1..Len(code[b]) : IsTerminator(code[b][j]) <=> j = Len(code[b])
         /\ \A b \in 1..Len(code) : Len(code[b]) \in 1..Len(code[b])
  <1>1. Finished(code, placed, insert) BY DEF IInv
  <1>2. code \in Codes /\ insert \in 1..Len(code) /\ \A b \in 1..Len(code) : Ended(code[b]) BY <1>1 DEF Finished
  <1>3. Len(code) \in Nat /\ \A b \in 1..Len(code) : Len(code[b]) \in Nat /\ code[b] \in Seq(Instrs) BY <1>2, CodeFacts
  <1>4. Filled BY <1>2, <1>3 DEF Filled, Ended
  <1>5. \A b \in 1..Len(code) : Len(code[b]) \in 1..Len(code[b])
    <2>1. \A b \in 1..Len(code) : code[b] # <<>> BY <1>2 DEF Ended
    <2> QED BY <1>3, <2>1, EmptySeq
  <1> QED BY <1>2, <1>3, <1>4, <1>5 DEF Ended

LEMMA RunFacts ==
  ASSUME IInv, NEW K, NEW L, Running(K, L), blk # 0
  PROVE  /\ Whole(K, L, code, src) /\ Filled /\ blk \in 1..Len(code) /\ ip \in 1..Len(code[blk])
         /\ Current = code[blk][ip] /\ Current \in Instrs
         /\ IsTerminator(Current) <=> ip = Len(code[blk])
         /\ IsTerminator(Current) => LastOf(code[blk]) = Current
         /\ From(L, code, blk, ip) \in 1..Len(src) + 1
         /\ Position = Meaning!Settled[From(L, code, blk, ip)]
         /\ Current.op # "br" => /\ Position = Current.node /\ Calm(src, From(L, code, blk, ip), Current.node)
                                 /\ Current.node \in From(L, code, blk, ip)..Len(src) + 1
         /\ env \in [1..Len(src) -> BOOLEAN] /\ Undecided(L, code, src, env, blk, ip, prev)
         /\ Struct(<<>>, K, src) /\ src \in Seq(Kinds) /\ Len(src) \in Nat
  <1>1. /\ Whole(K, L, code, src) /\ phase = "done" /\ blk \in Block /\ ip \in 1..Len(code[blk])
        /\ env \in [1..Len(src) -> BOOLEAN] /\ Undecided(L, code, src, env, blk, ip, prev)
    BY DEF Running
  <1>2. blk \in 1..Len(code) BY <1>1 DEF Block, NBlocks
  <1>3. /\ Filled
        /\ \A b \in 1..Len(code) : \A j \in 1..Len(code[b]) : IsTerminator(code[b][j]) <=> j = Len(code[b])
    BY <1>1, DoneFilled
  <1>4. Current = code[blk][ip] /\ Current \in Instrs BY <1>1, <1>2, <1>3, CodeFacts DEF Current, Filled
  <1>5. <<blk, ip>> \in Points /\ <<blk, ip>>[1] = blk /\ <<blk, ip>>[2] = ip BY <1>1, <1>2, PointFacts
  <1>6. Position = Meaning!Settled[From(L, code, blk, ip)]
    <2>1. Position = Sites[<<blk, ip>>] BY PositionAt
    <2>2. Sites[<<blk, ip>>] = Meaning!Settled[From(L, code, <<blk, ip>>[1], <<blk, ip>>[2])]
      BY <1>1, <1>3, <1>5, AtSettled
    <2> QED BY <2>1, <2>2, <1>5
  <1>7. /\ From(L, code, blk, ip) \in 1..Len(src) + 1
        /\ code[blk][ip].op # "br" => /\ Meaning!Settled[From(L, code, blk, ip)] = code[blk][ip].node
                                      /\ code[blk][ip].node \in From(L, code, blk, ip)..Len(src) + 1
                                      /\ Calm(src, From(L, code, blk, ip), code[blk][ip].node)
    BY <1>1, <1>2, <1>3, MeantSettled DEF Filled
  <1>8. IsTerminator(Current) => LastOf(code[blk]) = Current BY <1>1, <1>2, <1>3, <1>4 DEF LastOf
  <1>9. Struct(<<>>, K, src) /\ src \in Seq(Kinds) /\ Len(src) \in Nat BY <1>1, WholeText
  <1> QED BY <1>1, <1>2, <1>3, <1>4, <1>6, <1>7, <1>8, <1>9

(* Where control arrives.                                                  *)
LEMMA Arrives ==
  ASSUME NEW K, NEW L, Whole(K, L, code, src), Filled, code' = code,
         blk' \in 1..Len(code), ip' \in 1..Len(code[blk'])
  PROVE  Position' = Meaning!Settled[From(L, code, blk', ip')]
  <1>1. Sites' = Sites BY DEF Sites, Points, Block, NBlocks
  <1>2. blk' # 0
    <2>1. Len(code) \in Nat BY DEF Filled
    <2> QED BY <2>1
  <1>3. Position' = Sites'[<<blk', ip'>>] BY <1>2 DEF Position, Sites
  <1>4. <<blk', ip'>> \in Points /\ <<blk', ip'>>[1] = blk' /\ <<blk', ip'>>[2] = ip' BY PointFacts
  <1>5. Sites[<<blk', ip'>>] = Meaning!Settled[From(L, code, <<blk', ip'>>[1], <<blk', ip'>>[2])] BY <1>4, AtSettled
  <1> QED BY <1>1, <1>3, <1>4, <1>5

(* What computes or stores.                                                *)
LEMMA RunAdvances ==
  ASSUME IInv, NEW K, NEW L, Running(K, L), blk # 0, UNCHANGED vars, Advance,
         Current.op \notin Terminators, env' \in [1..Len(src) -> BOOLEAN],
         \A h \in 1..Len(src) : h # Current.node => env'[h] = env[h]
  PROVE  /\ Running(K, L)' /\ Current.node \in 1..Len(src) /\ Position = Current.node
         /\ Position' = Meaning!Settled[Current.node + 1] /\ src' = src
  <1> DEFINE n == Current.node
  <1>1. code' = code /\ src' = src /\ phase' = phase BY DEF vars
  <1>2. blk' = blk /\ ip' = ip + 1 /\ prev' = prev BY DEF Advance
  <1>3. /\ Whole(K, L, code, src) /\ Filled /\ blk \in 1..Len(code) /\ ip \in 1..Len(code[blk])
        /\ Current = code[blk][ip] /\ Current \in Instrs
        /\ IsTerminator(Current) <=> ip = Len(code[blk])
        /\ From(L, code, blk, ip) \in 1..Len(src) + 1
        /\ Undecided(L, code, src, env, blk, ip, prev)
        /\ src \in Seq(Kinds) /\ Len(src) \in Nat
    BY RunFacts
  <1>4. Current.op # "br" BY DEF Terminators
  <1>5. Position = n /\ Calm(src, From(L, code, blk, ip), n) /\ n \in From(L, code, blk, ip)..Len(src) + 1
    BY <1>4, RunFacts
  <1>6. ip + 1 \in 1..Len(code[blk])
    <2>1. Len(code[blk]) \in Nat BY <1>3 DEF Filled
    <2>2. ~IsTerminator(Current) BY DEF IsTerminator
    <2> QED BY <1>3, <2>1, <2>2
  <1>7. n \in From(L, code, blk, ip)..Len(src) /\ src[n] \in {"leaf", "op", "param", "store", "endlogic"}
    <2>1. ~LastRet(L, code, src, blk, ip)
      <3>1. Current.op # "ret" BY DEF Terminators
      <3> QED BY <1>3, <3>1 DEF LastRet
    <2>2. Meant(<<>>, K, L, code, 1..Len(code), src, blk, ip) BY <1>3, <2>1 DEF Whole
    <2>3. Current.op \in {"eval", "store", "phi"}
      <3>1. Current.op \in Ops BY <1>3 DEF Instrs
      <3> QED BY <3>1 DEF Ops
    <2>4. /\ n \in From(L, code, blk, ip)..Len(src)
          /\ Current.op = "eval" => src[n] \in {"leaf", "op"}
          /\ Current.op = "store" => src[n] \in {"param", "store"}
          /\ Current.op = "phi" => src[n] = "endlogic"
      BY <1>3, <1>4, <2>2 DEF Meant
    <2> QED BY <2>3, <2>4
  <1>8. n \in 1..Len(src) BY <1>3, <1>7
  <1>9. From(L, code, blk, ip + 1) = n + 1
    <2>1. ip + 1 # 1 /\ (ip + 1) - 1 = ip
      <3>1. ip \in Nat \ {0} BY <1>3 DEF Filled
      <3> QED BY <3>1
    <2> QED BY <1>3, <2>1 DEF From
  <1>10. Position' = Meaning!Settled[n + 1]
    <2>1. Position' = Meaning!Settled[From(L, code, blk', ip')] BY <1>1, <1>2, <1>3, <1>6, Arrives
    <2> QED BY <1>2, <1>9, <2>1
  <1>11. Undecided(L, code, src, env', blk, ip + 1, prev)
    <2>1. ip \in Nat \ {0} BY <1>3 DEF Filled
    <2>2. src[n] \notin {"and", "or"} BY <1>7
    <2>3. code[blk][ip].node = n BY <1>3
    <2>4. \A h \in 1..Len(src) : h # n => env'[h] = env[h] OBVIOUS
    <2> HIDE DEF n
    <2> QED BY <1>3, <1>5, <1>7, <2>1, <2>2, <2>3, <2>4, UndecidedAdvances
  <1>12. Running(K, L)'
    <2>1. phase = "done" /\ blk \in Block BY DEF Running
    <2>2. blk' # 0 /\ ip' # 1
      <3>1. ip \in Nat \ {0} BY <1>3 DEF Filled
      <3> QED BY <1>2, <3>1
    <2>3. Block' = Block BY <1>1 DEF Block, NBlocks
    <2> QED BY <1>1, <1>2, <1>3, <1>6, <1>11, <2>1, <2>2, <2>3 DEF Running
  <1> QED BY <1>1, <1>5, <1>8, <1>10, <1>12

LEMMA RunJumps ==
  ASSUME IInv, NEW K, NEW L, Running(K, L), blk # 0, UNCHANGED vars, NEW y, Jump(y),
         y \in 1..Len(code), Came(code, env, blk, y), Undecided(L, code, src, env, y, 1, blk)
  PROVE  /\ Running(K, L)' /\ Position' = Meaning!Settled[L[y]]
         /\ src' = src /\ env' = env /\ result' = result
  <1>1. code' = code /\ src' = src /\ phase' = phase BY DEF vars
  <1>2. blk' = y /\ ip' = 1 /\ prev' = blk /\ env' = env /\ result' = result BY DEF Jump
  <1>3. Whole(K, L, code, src) /\ Filled /\ blk \in 1..Len(code) BY RunFacts
  <1>4. 1 \in 1..Len(code[y])
    <2>1. code[y] # <<>> /\ code[y] \in Seq(Instrs) BY <1>3, CodeFacts DEF Filled
    <2> QED BY <2>1, EmptySeq
  <1>5. Position' = Meaning!Settled[L[y]]
    <2>1. Position' = Meaning!Settled[From(L, code, blk', ip')] BY <1>1, <1>2, <1>3, <1>4, Arrives
    <2>2. From(L, code, y, 1) = L[y] BY DEF From
    <2> QED BY <1>2, <2>1, <2>2
  <1>6. Running(K, L)'
    <2>1. phase = "done" /\ blk \in Block /\ env \in [1..Len(src) -> BOOLEAN] BY DEF Running
    <2>2. Block' = Block /\ Block = 1..Len(code) BY <1>1 DEF Block, NBlocks
    <2> QED BY <1>1, <1>2, <1>3, <1>4, <2>1, <2>2 DEF Running
  <1> QED BY <1>1, <1>2, <1>5, <1>6

(* A plain branch is no step of the source.                                *)
LEMMA RunBr ==
  ASSUME IInv, NEW K, NEW L, Running(K, L), blk # 0, UNCHANGED vars, ExecBr
  PROVE  Running(K, L)' /\ UNCHANGED (Meaning!vars)
  <1> DEFINE f == From(L, code, blk, ip)
             y == Current.to[1]
  <1>1. /\ Whole(K, L, code, src) /\ Filled /\ blk \in 1..Len(code) /\ ip \in 1..Len(code[blk])
        /\ Current = code[blk][ip] /\ f \in 1..Len(src) + 1
        /\ Position = Meaning!Settled[f]
        /\ IsTerminator(Current) => LastOf(code[blk]) = Current
        /\ Undecided(L, code, src, env, blk, ip, prev)
        /\ Struct(<<>>, K, src) /\ src \in Seq(Kinds) /\ Len(src) \in Nat
    BY RunFacts
  <1>2. Current.op = "br" /\ Jump(y) BY DEF ExecBr
  <1>3. LastOf(code[blk]) = Current BY <1>1, <1>2 DEF IsTerminator, Terminators
  <1>4. PICK m \in f..Len(src) + 1 : /\ Calm(src, f, m) /\ Meaning!Settled[f] = Meaning!Settled[m]
                                     /\ Goes(<<>>, K, L, code, 1..Len(code), src, f, m, y)
    BY <1>1, <1>2, MeantSettled DEF Filled
  <1>5. /\ y \in 1..Len(code) /\ L[y] \in 1..Len(src) + 1 /\ Meaning!Settled[L[y]] = Meaning!Settled[m]
        /\ \/ L[y] = m
           \/ src[L[y] - 1] \in {"while", "endif", "endwhile"} /\ L[y] - 1 \in 1..Len(src)
    <2> HIDE DEF f, y
    <2>1. Len(code) \in Nat BY <1>1 DEF Filled
    <2>2. /\ y \in 1..Len(code) /\ L[y] \in 1..Len(src) + 1 /\ Meaning!Settled[L[y]] = Meaning!Settled[m]
          /\ \/ L[y] = m /\ (m = f => code[y][1].op # "br")
             \/ code[y][1].op = "eval" /\ src[L[y] - 1] = "while" /\ L[y] - 1 \in 1..Len(src)
             \/ L[y] > m /\ src[L[y] - 1] \in {"endif", "endwhile"} /\ L[y] - 1 \in 1..Len(src)
      BY <1>1, <1>4, <2>1, SettledGoes
    <2> QED BY <2>2
  <1>6. Came(code, env, blk, y) BY <1>2, <1>3 DEF Came
  <1>7. Undecided(L, code, src, env, y, 1, blk)
    <2>1. CASE L[y] = m
      <3>1. code[blk][ip].op # "phi" BY <1>1, <1>2
      <3>2. L[y] \in m..m + 1 /\ L[y] # m + 1 BY <1>1, <1>4, <2>1
      <3> HIDE DEF y
      <3> QED BY <1>1, <1>4, <3>1, <3>2, UndecidedOn
    <2>2. CASE src[L[y] - 1] \in {"while", "endif", "endwhile"} /\ L[y] - 1 \in 1..Len(src)
      <3>1. src[L[y] - 1] \notin Exprs BY <2>2 DEF Exprs
      <3> HIDE DEF y
      <3> QED BY <1>1, <1>5, <2>2, <3>1, UndecidedSkips
    <2> QED BY <1>5, <2>1, <2>2
  <1>8. /\ Running(K, L)' /\ Position' = Meaning!Settled[L[y]]
        /\ src' = src /\ env' = env /\ result' = result
    <2> HIDE DEF y
    <2> QED BY <1>2, <1>5, <1>6, <1>7, RunJumps
  <1>9. Position' = Position BY <1>1, <1>4, <1>5, <1>8
  <1> QED BY <1>8, <1>9 DEF Meaning!vars

LEMMA RunMeant ==
  ASSUME IInv, NEW K, NEW L, Running(K, L), blk # 0, Current.op # "br"
  PROVE  LET n == Current.node
         IN  /\ Current.op # "ret" => n \in From(L, code, blk, ip)..Len(src) /\ n \in 1..Len(src)
             /\ Current.op = "eval" => src[n] \in {"leaf", "op"} /\ Current.def = n
             /\ Current.op = "store" => src[n] \in {"param", "store"}
             /\ Current.op = "phi" => /\ ip = 1 /\ L[blk] = n /\ Current.def = n /\ src[n] = "endlogic"
                                      /\ Joined(L, code, src, blk, Current)
             /\ Current.op = "ret" => \/ n \in 1..Len(src) /\ src[n] = "return" /\ Current.use = {}
                                      \/ n \in 1..Len(src) /\ src[n] = "retval" /\ Current.use = {n - 1} /\ n >= 2
                                      \/ n = Len(src) + 1 /\ Current.use = {}
             /\ Current.op = "condbr" => Branching(<<>>, K, L, code, 1..Len(code), src, Current)
  <1> DEFINE n == Current.node
  <1>1. /\ Whole(K, L, code, src) /\ Filled /\ blk \in 1..Len(code) /\ ip \in 1..Len(code[blk])
        /\ Current = code[blk][ip]
        /\ From(L, code, blk, ip) \in 1..Len(src) + 1 /\ Len(src) \in Nat
    BY RunFacts
  <1>2. Meant(<<>>, K, L, code, 1..Len(code), src, blk, ip) \/ LastRet(L, code, src, blk, ip) BY <1>1 DEF Whole
  <1>3. CASE LastRet(L, code, src, blk, ip)
    <2>1. Current.op = "ret" /\ Current.use = {} /\ n = Len(src) + 1 BY <1>1, <1>3 DEF LastRet
    <2> QED BY <2>1
  <1>4. CASE Meant(<<>>, K, L, code, 1..Len(code), src, blk, ip)
    <2>1. /\ n \in From(L, code, blk, ip)..Len(src)
          /\ Current.op = "eval" => src[n] \in {"leaf", "op"} /\ Current.def = n
          /\ Current.op = "store" => src[n] \in {"param", "store"}
          /\ Current.op = "phi" => /\ ip = 1 /\ L[blk] = n /\ Current.def = n /\ src[n] = "endlogic"
                                   /\ Joined(L, code, src, blk, Current)
          /\ Current.op = "ret" => \/ src[n] = "return" /\ Current.use = {}
                                   \/ src[n] = "retval" /\ Current.use = {n - 1} /\ n >= 2
          /\ Current.op = "condbr" => Branching(<<>>, K, L, code, 1..Len(code), src, Current)
      BY <1>1, <1>4 DEF Meant
    <2>2. n \in 1..Len(src) BY <1>1, <2>1
    <2> QED BY <2>1, <2>2
  <1> QED BY <1>2, <1>3, <1>4

LEMMA RunEval ==
  ASSUME IInv, NEW K, NEW L, Running(K, L), blk # 0, UNCHANGED vars, ExecEval
  PROVE  Running(K, L)' /\ Meaning!Next
  <1> DEFINE n == Current.node
  <1>1. PICK v \in BOOLEAN : env' = [env EXCEPT ![Current.def] = v] BY DEF ExecEval
  <1>2. Current.op = "eval" /\ Advance BY DEF ExecEval
  <1>3. n \in 1..Len(src) /\ src[n] \in {"leaf", "op"} /\ Current.def = n BY <1>2, RunMeant
  <1>4. env \in [1..Len(src) -> BOOLEAN] BY RunFacts
  <1>5. env' = [env EXCEPT ![n] = v] BY <1>1, <1>3
  <1> HIDE DEF n
  <1>6. env' \in [1..Len(src) -> BOOLEAN] /\ \A h \in 1..Len(src) : h # n => env'[h] = env[h] BY <1>4, <1>5
  <1>7. Current.op \notin Terminators BY <1>2 DEF Terminators
  <1>8. /\ Running(K, L)' /\ Position = n /\ Position' = Meaning!Settled[n + 1] /\ src' = src
    BY <1>2, <1>6, <1>7, RunAdvances DEF n
  <1>9. Meaning!Compute
    <2>1. result' = result BY <1>2 DEF Advance
    <2> QED BY <1>3, <1>5, <1>8, <2>1 DEF Meaning!Compute, Meaning!Goto
  <1> QED BY <1>3, <1>8, <1>9 DEF Meaning!Next, Meaning!Running

LEMMA RunStore ==
  ASSUME IInv, NEW K, NEW L, Running(K, L), blk # 0, UNCHANGED vars, ExecStore
  PROVE  Running(K, L)' /\ Meaning!Next
  <1> DEFINE n == Current.node
  <1>1. Current.op = "store" /\ Advance /\ env' = env BY DEF ExecStore
  <1>2. n \in 1..Len(src) /\ src[n] \in {"param", "store"} BY <1>1, RunMeant
  <1>3. env \in [1..Len(src) -> BOOLEAN] BY RunFacts
  <1>4. Current.op \notin Terminators BY <1>1 DEF Terminators
  <1> HIDE DEF n
  <1>5. /\ Running(K, L)' /\ Position = n /\ Position' = Meaning!Settled[n + 1] /\ src' = src
    BY <1>1, <1>3, <1>4, RunAdvances DEF n
  <1>6. Meaning!Initialize
    <2>1. result' = result BY <1>1 DEF Advance
    <2> QED BY <1>1, <1>2, <1>5, <2>1 DEF Meaning!Initialize, Meaning!Goto
  <1> QED BY <1>2, <1>5, <1>6 DEF Meaning!Next, Meaning!Running

(* The predecessor the phi asks for tells how the left operand decided.    *)
LEMMA RunPhi ==
  ASSUME IInv, NEW K, NEW L, Running(K, L), blk # 0, UNCHANGED vars, ExecPhi
  PROVE  Running(K, L)' /\ Meaning!Next
  <1> DEFINE n == Current.node
  <1>1. PICK in \in Current.phi :
          in.from = prev /\ env' = [env EXCEPT ![Current.def] = IF in.v = 0 THEN in.const ELSE env[in.v]]
    BY DEF ExecPhi
  <1>2. Current.op = "phi" /\ Advance BY DEF ExecPhi
  <1>3. /\ n \in 1..Len(src) /\ src[n] = "endlogic" /\ Current.def = n /\ ip = 1 /\ L[blk] = n
        /\ Joined(L, code, src, blk, Current)
    BY <1>2, RunMeant
  <1>4. /\ env \in [1..Len(src) -> BOOLEAN] /\ Len(src) \in Nat /\ src \in Seq(Kinds)
        /\ Whole(K, L, code, src) /\ Filled /\ blk \in 1..Len(code) /\ Current = code[blk][ip]
        /\ Undecided(L, code, src, env, blk, ip, prev)
    BY RunFacts
  <1> DEFINE v == IF in.v = 0 THEN in.const ELSE env[in.v]
  <1>5. PICK k \in 1..n - 1, x, y \in 1..Len(code) :
          /\ src[k] \in {"and", "or"} /\ Shut(src, "logic", k, n)
          /\ Current.phi = {Incoming(x, 0, src[k] = "or"), Incoming(y, n - 1, FALSE)}
          /\ code[x] # <<>> /\ LastOf(code[x]).op = "condbr" /\ LastOf(code[x]).node = k
          /\ Away(src, LastOf(code[x])) = blk
          /\ code[y] # <<>> /\ LastOf(code[y]).op = "br"
    BY <1>3 DEF Joined
  <1>6. prev \in 1..Len(code) /\ Came(code, env, prev, blk)
    <2>1. (blk = 1 /\ prev = 0) \/ (prev \in Block /\ Came(code, env, prev, blk)) BY <1>3 DEF Running
    <2>2. prev # 0
      <3>1. in.from \in {x, y} BY <1>1, <1>5 DEF Incoming
      <3>2. x # 0 /\ y # 0 BY <1>4 DEF Filled
      <3> QED BY <1>1, <3>1, <3>2
    <2> QED BY <2>1, <2>2 DEF Block, NBlocks
  <1> HIDE DEF n
  <1>7. k \in 2..Len(src) /\ n \in 2..Len(src) /\ k < n /\ k \in Nat /\ n \in Nat
    <2>1. LastOf(code[x]) = code[x][Len(code[x])] /\ Len(code[x]) \in 1..Len(code[x]) BY <1>4, <1>5, EmptySeq, CodeFacts DEF LastOf, Filled
    <2>2. ~LastRet(L, code, src, x, Len(code[x])) BY <1>5, <2>1 DEF LastRet
    <2>3. Meant(<<>>, K, L, code, 1..Len(code), src, x, Len(code[x])) BY <1>4, <2>1, <2>2 DEF Whole
    <2>4. k >= 2 BY <1>5, <2>1, <2>3 DEF Meant, Branching
    <2> QED BY <1>3, <1>4, <1>5, <2>4
  <1>8. v = IF env[k - 1] = (src[k] = "or") THEN env[k - 1] ELSE env[n - 1]
    <2>0. env[k - 1] \in BOOLEAN /\ env[n - 1] \in BOOLEAN
      <3>1. k - 1 \in 1..Len(src) /\ n - 1 \in 1..Len(src) BY <1>4, <1>7
      <3> QED BY <1>4, <3>1
    <2>1. CASE in = Incoming(x, 0, src[k] = "or")
      <3>1. in.from = x /\ in.v = 0 /\ in.const = (src[k] = "or") BY <2>1 DEF Incoming
      <3>2. LastOf(code[x]).to[IF env[k - 1] THEN 1 ELSE 2] = blk BY <1>1, <1>5, <1>6, <3>1 DEF Came
      <3>3. Near(src, LastOf(code[x])) # Away(src, LastOf(code[x]))
        <4>1. LastOf(code[x]) = code[x][Len(code[x])] /\ Len(code[x]) \in 1..Len(code[x])
          BY <1>4, <1>5, EmptySeq, CodeFacts DEF LastOf, Filled
        <4>2. ~LastRet(L, code, src, x, Len(code[x])) BY <1>5, <4>1 DEF LastRet
        <4>3. Meant(<<>>, K, L, code, 1..Len(code), src, x, Len(code[x])) BY <1>4, <4>1, <4>2 DEF Whole
        <4> QED BY <1>5, <4>1, <4>3 DEF Meant, Branching
      <3>4. env[k - 1] = (src[k] = "or") BY <1>5, <2>0, <3>2, <3>3 DEF Near, Away
      <3> QED BY <3>1, <3>4
    <2>2. CASE in = Incoming(y, n - 1, FALSE)
      <3>1. in.from = y /\ in.v = n - 1 /\ n - 1 # 0 BY <1>7, <2>2 DEF Incoming
      <3>2. From(L, code, blk, ip) = n BY <1>3 DEF From, n
      <3>3. ~(code[blk][ip].op = "phi" /\ LastOf(code[prev]).op = "condbr" /\ LastOf(code[prev]).node = k)
        BY <1>1, <1>5, <3>1
      <3>4. env[k - 1] # (src[k] = "or") BY <1>4, <1>5, <1>7, <3>2, <3>3 DEF Undecided
      <3> QED BY <3>1, <3>4
    <2> QED BY <1>1, <1>5, <2>1, <2>2
  <1>9. env' = [env EXCEPT ![n] = v] BY <1>1, <1>3 DEF n
  <1>10. v \in BOOLEAN
    <2>1. k - 1 \in 1..Len(src) /\ n - 1 \in 1..Len(src) BY <1>4, <1>7
    <2> QED BY <1>4, <1>8, <2>1
  <1> HIDE DEF v
  <1>11. env' \in [1..Len(src) -> BOOLEAN] /\ \A h \in 1..Len(src) : h # n => env'[h] = env[h]
    BY <1>4, <1>9, <1>10
  <1>12. Current.op \notin Terminators BY <1>2 DEF Terminators
  <1>13. /\ Running(K, L)' /\ Position = n /\ Position' = Meaning!Settled[n + 1] /\ src' = src
    BY <1>2, <1>11, <1>12, RunAdvances DEF n
  <1>14. Meaning!EndLogic(k) = n
    <2>1. Met(src, "logic", {"endlogic"}, k, n) BY <1>5, ClassFacts DEF Shut, n
    <2> QED BY <1>4, <1>7, <2>1, PartnersMet
  <1>15. Meaning!Combine
    <2>1. result' = result BY <1>2 DEF Advance
    <2>2. src[n] = "endlogic" BY <1>3 DEF n
    <2>3. k \in 1..n - 1 BY <1>5 DEF n
    <2>4. env' = [env EXCEPT ![n] = IF Meaning!Decides(k) THEN env[k - 1] ELSE env[n - 1]]
      BY <1>8, <1>9 DEF Meaning!Decides
    <2> QED BY <1>5, <1>13, <1>14, <2>1, <2>2, <2>3, <2>4 DEF Meaning!Combine, Meaning!Goto
  <1> QED BY <1>4, <1>7, <1>13, <1>15 DEF Meaning!Next, Meaning!Running

(* A condition, or the left operand of && or ||.                           *)
LEMMA RunCondBr ==
  ASSUME IInv, NEW K, NEW L, Running(K, L), blk # 0, UNCHANGED vars, ExecCondBr
  PROVE  Running(K, L)' /\ Meaning!Next
  <1> DEFINE n == Current.node
             f == From(L, code, blk, ip)
             near == Near(src, Current)
             away == Away(src, Current)
             on == IF src[n] = "or" THEN ~env[n - 1] ELSE env[n - 1]
             y == IF on THEN near ELSE away
  <1>1. Current.op = "condbr" /\ Jump(Current.to[IF Operand THEN 1 ELSE 2]) BY DEF ExecCondBr
  <1>2. /\ Branching(<<>>, K, L, code, 1..Len(code), src, Current)
        /\ n \in f..Len(src) /\ n \in 1..Len(src)
    BY <1>1, RunMeant
  <1>3. /\ env \in [1..Len(src) -> BOOLEAN] /\ Len(src) \in Nat /\ src \in Seq(Kinds)
        /\ Whole(K, L, code, src) /\ Filled /\ blk \in 1..Len(code) /\ Current = code[blk][ip]
        /\ IsTerminator(Current) => LastOf(code[blk]) = Current
        /\ f \in 1..Len(src) + 1 /\ Struct(<<>>, K, src)
        /\ Undecided(L, code, src, env, blk, ip, prev)
    BY RunFacts
  <1>4. Position = n /\ Calm(src, f, n)
    <2>1. Current.op # "br" BY <1>1
    <2> QED BY <2>1, RunFacts
  <1>5. LastOf(code[blk]) = Current BY <1>1, <1>3 DEF IsTerminator, Terminators
  <1>6. /\ src[n] \in {"then", "do", "and", "or"} /\ Current.use = {n - 1} /\ n >= 2
        /\ near \in 1..Len(code) /\ L[near] = n + 1 /\ near # away
        /\ Far(<<>>, K, L, code, 1..Len(code), src, n, away)
    BY <1>2 DEF Branching
  <1>7. /\ away \in 1..Len(code) /\ Dest(src, n, L[away])
        /\ src[n] \in {"and", "or"} => code[away][1].op = "phi"
    <2>1. \A i \in 1..Len(<<>>) : FALSE OBVIOUS
    <2> QED BY <1>6, <2>1 DEF Far
  <1>8. n - 1 \in 1..Len(src) /\ env[n - 1] \in BOOLEAN /\ n \in Nat
    <2>1. n - 1 \in 1..Len(src) /\ n \in Nat BY <1>2, <1>3, <1>6
    <2> QED BY <1>3, <2>1
  <1>9. Operand = env[n - 1]
    <2>1. (CHOOSE v \in {n - 1} : TRUE) = n - 1 OBVIOUS
    <2> QED BY <1>6, <2>1 DEF Operand
  <1>10. Current.to[IF Operand THEN 1 ELSE 2] = y BY <1>8, <1>9 DEF Near, Away
  <1>11. L[away] \in 1..Len(src) + 1 /\ L[away] \in Nat
    <2>1. Labels(L, 1..Len(code), src) BY <1>3, WholeText
    <2> QED BY <1>3, <1>7, <2>1 DEF Labels
  <1>12. /\ src[n] = "then" => Met(src, "if", {"else", "endif"}, n, L[away] - 1)
         /\ src[n] = "do" => Met(src, "while", {"endwhile"}, n, L[away] - 1)
         /\ src[n] \in {"and", "or"} => Met(src, "logic", {"endlogic"}, n, L[away])
    BY <1>7 DEF Dest
  <1>13. Came(code, env, blk, y) BY <1>1, <1>5, <1>9, <1>10 DEF Came
  <1> HIDE DEF n, f, near, away
  <1>14. Undecided(L, code, src, env, y, 1, blk)
    <2>1. CASE on
      <3>1. y = near /\ L[y] = n + 1 BY <1>6, <2>1
      <3>2. src[n] \in {"and", "or"} => env[n - 1] # (src[n] = "or") BY <1>8, <2>1
      <3>3. L[y] \in n..n + 1 /\ n \in f..Len(src) + 1 BY <1>2, <1>3, <1>8, <3>1
      <3>4. code[blk][ip].op # "phi" BY <1>1, <1>3
      <3> HIDE DEF y
      <3> QED BY <1>3, <1>4, <3>2, <3>3, <3>4, UndecidedOn DEF f
    <2>2. CASE ~on /\ src[n] \in {"then", "do"}
      <3>1. y = away BY <2>2
      <3>2. L[away] - 1 \in 1..Len(src) /\ src[L[away] - 1] \in {"else", "endif", "endwhile"}
        <4>1. L[away] - 1 \in n + 1..Len(src) /\ src[L[away] - 1] \in {"else", "endif", "endwhile"}
          BY <1>12, <2>2 DEF Met
        <4> QED BY <1>3, <1>8, <4>1
      <3>3. src[L[away] - 1] \notin Exprs BY <3>2 DEF Exprs
      <3> HIDE DEF y
      <3> QED BY <1>3, <1>11, <3>1, <3>2, <3>3, UndecidedSkips
    <2>3. CASE ~on /\ src[n] \in {"and", "or"}
      <3>1. y = away BY <2>3
      <3>2. Shut(src, "logic", n, L[away]) BY <1>12, <2>3, ClassFacts DEF Shut
      <3>3. LastOf(code[blk]).op = "condbr" /\ LastOf(code[blk]).node = n BY <1>1, <1>5 DEF n
      <3> HIDE DEF y
      <3> QED BY <1>2, <1>3, <1>4, <1>7, <1>11, <2>3, <3>1, <3>2, <3>3, UndecidedAway DEF f
    <2> QED BY <1>6, <2>1, <2>2, <2>3
  <1>15. /\ Running(K, L)' /\ Position' = Meaning!Settled[L[y]]
         /\ src' = src /\ env' = env /\ result' = result
    <2>1. y \in 1..Len(code) BY <1>6, <1>7
    <2>2. Jump(y) BY <1>1, <1>10
    <2> HIDE DEF y
    <2> QED BY <1>13, <1>14, <2>1, <2>2, RunJumps
  <1>16. /\ src[n] = "then" => L[away] = Meaning!ElseOrEndif(n) + 1
         /\ src[n] = "do" => L[away] = Meaning!EndWhile(n) + 1
         /\ src[n] \in {"and", "or"} => L[away] = Meaning!EndLogic(n)
    <2>1. /\ src[n] = "then" => Meaning!ElseOrEndif(n) = L[away] - 1
          /\ src[n] = "do" => Meaning!EndWhile(n) = L[away] - 1
          /\ src[n] \in {"and", "or"} => Meaning!EndLogic(n) = L[away]
      BY <1>3, <1>8, <1>12, PartnersMet
    <2>2. (L[away] - 1) + 1 = L[away] BY <1>11
    <2> QED BY <2>1, <2>2
  <1>17. CASE src[n] = "then"
    <2>1. L[y] = IF env[n - 1] THEN n + 1 ELSE Meaning!ElseOrEndif(n) + 1 BY <1>6, <1>16, <1>17
    <2>2. Meaning!If BY <1>4, <1>15, <1>17, <2>1 DEF Meaning!If, Meaning!Goto
    <2> QED BY <1>2, <1>4, <1>15, <2>2 DEF Meaning!Next, Meaning!Running, n
  <1>18. CASE src[n] = "do"
    <2>1. L[y] = IF env[n - 1] THEN n + 1 ELSE Meaning!EndWhile(n) + 1 BY <1>6, <1>16, <1>18
    <2>2. Meaning!While BY <1>4, <1>15, <1>18, <2>1 DEF Meaning!While, Meaning!Goto
    <2> QED BY <1>2, <1>4, <1>15, <2>2 DEF Meaning!Next, Meaning!Running, n
  <1>19. CASE src[n] \in {"and", "or"}
    <2>1. L[y] = IF Meaning!Decides(n) THEN Meaning!EndLogic(n) ELSE n + 1
      BY <1>6, <1>8, <1>16, <1>19 DEF Meaning!Decides
    <2>2. Meaning!ShortCircuit BY <1>4, <1>15, <1>19, <2>1 DEF Meaning!ShortCircuit, Meaning!Goto
    <2> QED BY <1>2, <1>4, <1>15, <2>2 DEF Meaning!Next, Meaning!Running, n
  <1> QED BY <1>6, <1>17, <1>18, <1>19

LEMMA RunRet ==
  ASSUME IInv, NEW K, NEW L, Running(K, L), blk # 0, UNCHANGED vars, ExecRet
  PROVE  Running(K, L)' /\ Meaning!Next
  <1> DEFINE n == Current.node
  <1>1. /\ Current.op = "ret" /\ blk' = 0 /\ result' = {env[v] : v \in Current.use} /\ env' = env
        /\ code' = code /\ src' = src
    BY DEF ExecRet, vars
  <1>2. \/ n \in 1..Len(src) /\ src[n] = "return" /\ Current.use = {}
        \/ n \in 1..Len(src) /\ src[n] = "retval" /\ Current.use = {n - 1} /\ n >= 2
        \/ n = Len(src) + 1 /\ Current.use = {}
    BY <1>1, RunMeant
  <1>3. Position = n
    <2>1. Current.op # "br" BY <1>1
    <2> QED BY <2>1, RunFacts
  <1>4. Position' = 0 BY <1>1 DEF Position
  <1>5. Running(K, L)'
    <2>1. Whole(K, L, code, src) BY DEF Running
    <2> QED BY <1>1, <2>1 DEF Running
  <1> HIDE DEF n
  <1>6. CASE n \in 1..Len(src) /\ src[n] = "return" /\ Current.use = {}
    <2>1. result' = {} BY <1>1, <1>6
    <2> QED BY <1>1, <1>3, <1>4, <1>5, <1>6, <2>1 DEF Meaning!Next, Meaning!Running, Meaning!Return
  <1>7. CASE n \in 1..Len(src) /\ src[n] = "retval" /\ Current.use = {n - 1}
    <2>1. result' = {env[n - 1]} BY <1>1, <1>7
    <2> QED BY <1>1, <1>3, <1>4, <1>5, <1>7, <2>1 DEF Meaning!Next, Meaning!Running, Meaning!Return
  <1>8. CASE n = Len(src) + 1 /\ Current.use = {}
    <2>1. result' = {} BY <1>1, <1>8
    <2> QED BY <1>1, <1>3, <1>4, <1>5, <1>8, <2>1 DEF Meaning!Next, Meaning!FallOff
  <1> QED BY <1>2, <1>6, <1>7, <1>8

LEMMA RunEnter ==
  ASSUME IInv, NEW K, NEW L, Whole(K, L, code, src), CallFunction, UNCHANGED vars
  PROVE  Running(K, L)' /\ Meaning!Next
  <1>1. /\ phase = "done" /\ blk = 0 /\ blk' = 1 /\ ip' = 1 /\ prev' = 0
        /\ env' = [n \in 1..Len(src) |-> FALSE] /\ result' = {}
        /\ code' = code /\ src' = src /\ phase' = phase
    BY DEF CallFunction, vars
  <1>2. Filled /\ 1 \in 1..Len(code) BY <1>1, DoneFilled
  <1>3. 1 \in 1..Len(code[1])
    <2>1. code[1] # <<>> /\ code[1] \in Seq(Instrs) BY <1>2, CodeFacts DEF Filled
    <2> QED BY <2>1, EmptySeq
  <1>4. L[1] = 1 /\ Len(src) \in Nat
    <2>1. Labels(L, 1..Len(code), src) /\ Len(src) \in Nat BY WholeText
    <2> QED BY <2>1 DEF Labels
  <1>5. From(L, code, 1, 1) = 1 BY <1>4 DEF From
  <1>6. Position = 0 BY <1>1 DEF Position
  <1>7. Position' = Meaning!Settled[1]
    <2>1. Position' = Meaning!Settled[From(L, code, blk', ip')] BY <1>1, <1>2, <1>3, Arrives
    <2> QED BY <1>1, <1>5, <2>1
  <1>8. Undecided(L, code, src, env', 1, 1, 0)
    <2>1. \A n \in 2..Len(src) : ~(n < 1) BY <1>4
    <2> QED BY <1>5, <2>1 DEF Undecided
  <1>9. Running(K, L)'
    <2>1. Block' = 1..Len(code) BY <1>1 DEF Block, NBlocks
    <2>2. env' \in [1..Len(src) -> BOOLEAN] BY <1>1
    <2> QED BY <1>1, <1>2, <1>3, <1>8, <2>1, <2>2 DEF Running
  <1> QED BY <1>1, <1>6, <1>7, <1>9 DEF Meaning!Next, Meaning!Enter

-----------------------------------------------------------------------------
(* Emission preserves meaning.                                             *)

ExecInv == IInv /\ SSA /\ Sense /\ (blk # 0 => \E K, L : Running(K, L))

LEMMA ExecStarts == ExecInit => ExecInv /\ Meaning!Init
  <1> SUFFICES ASSUME ExecInit PROVE ExecInv /\ Meaning!Init OBVIOUS
  <1>1. Init /\ blk = 0 /\ env = <<>> /\ result = {} BY DEF ExecInit
  <1>2. phase = "idle" /\ src = <<>> BY <1>1 DEF Init
  <1>3. IInv /\ SSA BY <1>1, IInvInit, SSAInit
  <1>4. Sense BY <1>2 DEF Sense
  <1>5. Meaning!Init BY <1>1, <1>2 DEF Meaning!Init, Position
  <1> QED BY <1>1, <1>3, <1>4, <1>5 DEF ExecInv

LEMMA WalkKept == IInv /\ SSA /\ Sense /\ [Next]_vars => (IInv /\ SSA /\ Sense)'
  BY IInvStep, SSAStep, SenseStep

LEMMA ExecStep == ExecInv /\ [ExecNext]_allVars => ExecInv' /\ [Meaning!Next]_(Meaning!vars)
  <1> SUFFICES ASSUME ExecInv, [ExecNext]_allVars PROVE ExecInv' /\ [Meaning!Next]_(Meaning!vars) OBVIOUS
  <1>0. IInv /\ SSA /\ Sense BY DEF ExecInv
  <1>1. CASE Emit
    <2>1. [Next]_vars /\ blk = 0 /\ blk' = 0 BY <1>1 DEF Emit, exec
    <2>2. (IInv /\ SSA /\ Sense)' BY <1>0, <2>1, WalkKept
    <2>3. Meaning!Write BY <1>1 DEF Emit, exec, Meaning!Write, Position
    <2> QED BY <2>1, <2>2, <2>3 DEF ExecInv, Meaning!Next
  <1>2. CASE CallFunction /\ UNCHANGED vars
    <2>1. phase = "done" BY <1>2 DEF CallFunction
    <2>2. PICK K, L : Whole(K, L, code, src) BY <1>0, <2>1 DEF Sense
    <2>3. Running(K, L)' /\ Meaning!Next BY <1>0, <1>2, <2>2, RunEnter
    <2>4. (IInv /\ SSA /\ Sense)' BY <1>0, <1>2, WalkKept
    <2> QED BY <2>3, <2>4 DEF ExecInv
  <1>3. CASE Execute
    <2>1. blk # 0 /\ UNCHANGED vars BY <1>3 DEF Execute
    <2>2. PICK K, L : Running(K, L) BY <2>1 DEF ExecInv
    <2>3. (IInv /\ SSA /\ Sense)' BY <1>0, <2>1, WalkKept
    <2>4. Running(K, L)' /\ [Meaning!Next]_(Meaning!vars)
      <3>1. CASE ExecEval BY <1>0, <2>1, <2>2, <3>1, RunEval
      <3>2. CASE ExecStore BY <1>0, <2>1, <2>2, <3>2, RunStore
      <3>3. CASE ExecPhi BY <1>0, <2>1, <2>2, <3>3, RunPhi
      <3>4. CASE ExecBr BY <1>0, <2>1, <2>2, <3>4, RunBr
      <3>5. CASE ExecCondBr BY <1>0, <2>1, <2>2, <3>5, RunCondBr
      <3>6. CASE ExecRet BY <1>0, <2>1, <2>2, <3>6, RunRet
      <3> QED BY <1>3, <3>1, <3>2, <3>3, <3>4, <3>5, <3>6 DEF Execute
    <2> QED BY <2>3, <2>4 DEF ExecInv
  <1>4. CASE UNCHANGED allVars
    <2>1. UNCHANGED vars /\ UNCHANGED <<blk, ip, prev, env, result>> BY <1>4 DEF allVars, exec
    <2>2. code' = code /\ src' = src /\ phase' = phase BY <2>1 DEF vars
    <2>3. (IInv /\ SSA /\ Sense)' BY <1>0, <2>1, WalkKept
    <2>4. blk' # 0 => (\E K, L : Running(K, L))'
      <3>1. ASSUME NEW K, NEW L, Running(K, L) PROVE Running(K, L)'
        <4>1. Block' = Block BY <2>2 DEF Block, NBlocks
        <4> QED BY <2>1, <2>2, <3>1, <4>1 DEF Running
      <3> QED BY <2>1, <3>1 DEF ExecInv
    <2>5. Position' = Position BY <2>1, <2>2 DEF Position, Points, Block, NBlocks
    <2> QED BY <2>1, <2>2, <2>3, <2>4, <2>5 DEF ExecInv, Meaning!vars
  <1> QED BY <1>1, <1>2, <1>3, <1>4 DEF ExecNext

(* The inductive invariant of the run: besides the graph's, that values    *)
(* and the way control came agree with the operands that decided.          *)
THEOREM StaysOnCourse == ExecSpec => []ExecInv
  <1>1. ExecInit => ExecInv BY ExecStarts
  <1>2. ExecInv /\ [ExecNext]_allVars => ExecInv' BY ExecStep
  <1> QED BY <1>1, <1>2, PTL DEF ExecSpec

(* Emission preserves meaning, for bodies of any size, whatever values the *)
(* leaves take: each step of the graph evaluates, stores, decides, joins   *)
(* or returns what the source does next, and a plain branch does nothing.  *)
THEOREM Refines == ExecSpec => ImplementsSource
  <1>1. ExecInit => ExecInv /\ Meaning!Init BY ExecStarts
  <1>2. ExecInv /\ [ExecNext]_allVars => ExecInv' /\ [Meaning!Next]_(Meaning!vars) BY ExecStep
  <1> QED BY <1>1, <1>2, PTL DEF ExecSpec, ImplementsSource, Meaning!Spec
=============================================================================
