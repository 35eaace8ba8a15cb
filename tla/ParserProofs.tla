---------------------------- MODULE ParserProofs ----------------------------
(***************************************************************************)
(* The parser, over texts of any length: it stays in its text, reports no  *)
(* token twice, and ends every block and initializer list at its own brace *)
(* unless recovery skipped a brace inside.                                 *)
(***************************************************************************)
EXTENDS Parser, SequenceLemmas

(* What an activation may have left to do, and what its frame remembers.   *)
Rules ==
    {"Run", "DeclSpec", "ExternalDecl", "ExternalDeclarator", "FunctionRest",
     "ExternalComma", "LocalComma", "LocalDeclarator", "FinishVarDecl", "Initializer",
     "InitList", "InitComma", "Compound", "Block", "BlockEnd", "Statement", "ReturnValue",
     "Condition", "Else", "Assignment", "Binary", "Unary", "SizeOf", "TypeName", "Postfix",
     "Args", "ArgsRest", "Primary", "Strings", "SyncTopLevel", "SyncStatement", "Expect",
     "Semi", "Emit"}
Syms ==
    {"", ")", "]", "function", "init", "expr", "return value", "while", "if else", "=",
     "cast", "index", "sizeof", "sizeof type", "plus", "minus", "not", "deref", "addrof"}
    \cup Kinds

(* Frames whose n is where a loop of the parser began, whose n is an open  *)
(* brace, and that are on top of the stack or nowhere.                     *)
Frames    == [rule : Rules, n : Nat, sym : Syms]
Syncs     == {"SyncTopLevel", "SyncStatement"}
TopOnly   == Syncs \cup {"Compound", "FinishVarDecl"}
Openers   == {"InitList", "InitComma", "BlockEnd"}
Loops     == {"Run", "Block"}

FrameOK(f, p) ==
    /\ f.rule \in Loops => f.n <= p
    /\ f.rule \in Openers => f.n \in 1..p
    /\ f.rule = "FinishVarDecl" => p > 0
    /\ f.rule = "Expect" => f.sym \in {")", "]"}

(* f calls back to g. *)
Above(f, g) ==
    /\ f.rule # "Run" /\ g.rule \notin TopOnly
    /\ f.rule = "Block" => g.rule = "BlockEnd"
    /\ f.rule = "SyncStatement" => g.rule = "Block"
    /\ f.rule = "SyncTopLevel" => g.rule = "Run"
    /\ f.rule = "DeclSpec" => g.rule \in {"ExternalDecl", "LocalDeclarator", "TypeName"}

StackOK(st, p) ==
    /\ st \in Seq(Frames)
    /\ st # <<>> => st[Len(st)].rule = "Run"
    /\ \A i \in 1..Len(st) : FrameOK(st[i], p)
    /\ \A i \in 1..Len(st) - 1 : Above(st[i], st[i + 1])
    /\ \A i, j \in 1..Len(st) :
         i < j /\ st[i].rule \in Openers /\ st[j].rule \in Openers => st[i].n > st[j].n

Open(st) == {st[i].n : i \in {j \in 1..Len(st) : st[j].rule \in Openers}}

Plain ==
    {f \in Frames : /\ f.rule \notin TopOnly \cup Openers \cup Loops \cup {"DeclSpec"}
                    /\ f.rule = "Expect" => f.sym \in {")", "]"}}

-----------------------------------------------------------------------------
(* The stack.                                                              *)

LEMMA StackFacts ==
  ASSUME NEW st, NEW p, StackOK(st, p), st # <<>>
  PROVE  /\ Len(st) \in Nat \ {0} /\ st[1] \in Frames /\ Head(st) = st[1]
         /\ st[1].n \in Nat /\ Tail(st) \in Seq(Frames) /\ Len(Tail(st)) = Len(st) - 1
         /\ \A i \in 1..Len(st) - 1 : Tail(st)[i] = st[i + 1]
         /\ \A i \in 1..Len(st) : st[i] \in Frames /\ st[i].n \in Nat
         /\ st[1].rule = "Run" <=> Len(st) = 1
         /\ Len(st) > 1 => Above(st[1], st[2])
  <1>1. st \in Seq(Frames) BY DEF StackOK
  <1>2. Len(st) \in Nat \ {0} BY <1>1, EmptySeq
  <1>3. \A i \in 1..Len(st) : st[i] \in Frames /\ st[i].n \in Nat
    <2>1. \A i \in 1..Len(st) : st[i] \in Frames BY <1>1, ElementOfSeq
    <2> QED BY <2>1 DEF Frames
  <1>4. Tail(st) \in Seq(Frames) /\ Len(Tail(st)) = Len(st) - 1
        /\ \A i \in 1..Len(Tail(st)) : Tail(st)[i] = st[i + 1]
    BY <1>1, HeadTailProperties
  <1>5. Head(st) = st[1] BY DEF Head
  <1>6. 1 \in 1..Len(st) BY <1>2
  <1>7. Len(st) > 1 => Above(st[1], st[2])
    <2>1. Len(st) > 1 => 1 \in 1..Len(st) - 1 BY <1>2
    <2>2. \A i \in 1..Len(st) - 1 : Above(st[i], st[i + 1]) BY DEF StackOK
    <2>3. 1 + 1 = 2 OBVIOUS
    <2>4. 1 \in 1..Len(st) - 1 => Above(st[1], st[2]) BY <2>2, <2>3
    <2> QED BY <2>1, <2>4, Zenon
  <1>8. Len(st) = 1 \/ Len(st) > 1
    <2>1. \A l \in Nat \ {0} : l = 1 \/ l > 1 OBVIOUS
    <2> QED BY <2>1, <1>2, Zenon
  <1>9. st[1].rule = "Run" <=> Len(st) = 1
    <2>1. Len(st) = 1 => st[1].rule = "Run" BY DEF StackOK
    <2>2. Len(st) > 1 => st[1].rule # "Run" BY <1>7 DEF Above
    <2> QED BY <2>1, <2>2, <1>2, <1>8
  <1> QED BY <1>2, <1>3, <1>4, <1>5, <1>6, <1>7, <1>9

(* What holds at a position holds at a later one.                          *)
LEMMA StackLater ==
  ASSUME NEW p \in Nat, NEW q \in Nat, p <= q, NEW st, StackOK(st, p)
  PROVE  StackOK(st, q)
  <1>1. \A i \in 1..Len(st) : st[i].n \in Nat
    <2>1. \A i \in 1..Len(st) : st[i] \in Frames BY ElementOfSeq DEF StackOK
    <2> QED BY <2>1 DEF Frames
  <1>2. \A i \in 1..Len(st) : FrameOK(st[i], q)
    <2> SUFFICES ASSUME NEW i \in 1..Len(st) PROVE FrameOK(st[i], q)
      OBVIOUS
    <2>1. FrameOK(st[i], p) /\ st[i].n \in Nat BY <1>1 DEF StackOK
    <2> QED BY <2>1 DEF FrameOK
  <1> QED BY <1>2 DEF StackOK

(* A call.                                                                 *)
LEMMA Pushed ==
  ASSUME NEW p \in Nat, NEW st, StackOK(st, p), NEW f \in Frames, FrameOK(f, p),
         IF st = <<>> THEN f.rule = "Run" ELSE Above(f, st[1]),
         f.rule \in Openers => \A x \in Open(st) : f.n > x
  PROVE  /\ StackOK(<<f>> \o st, p) /\ <<f>> \o st # <<>> /\ (<<f>> \o st)[1] = f
         /\ Open(<<f>> \o st) = Open(st) \cup (IF f.rule \in Openers THEN {f.n} ELSE {})
         /\ Len(<<f>> \o st) = Len(st) + 1 /\ \A i \in 1..Len(st) : (<<f>> \o st)[i + 1] = st[i]
  <1> DEFINE new == <<f>> \o st
  <1>1. st \in Seq(Frames) /\ Len(st) \in Nat BY LenProperties DEF StackOK
  <1>2. <<f>> \in Seq(Frames) /\ Len(<<f>>) = 1 /\ <<f>>[1] = f OBVIOUS
  <1>3. /\ new \in Seq(Frames) /\ Len(new) = 1 + Len(st)
        /\ \A i \in 1..1 + Len(st) : new[i] = IF i <= 1 THEN <<f>>[i] ELSE st[i - 1]
    BY <1>1, <1>2, ConcatProperties
  <1> HIDE DEF new
  <1>4. new[1] = f /\ \A i \in 1..Len(st) : new[i + 1] = st[i] /\ i + 1 \in 1..Len(new)
    BY <1>1, <1>2, <1>3
  <1>5. \A i \in 1..Len(new) : i = 1 \/ (i - 1 \in 1..Len(st) /\ new[i] = st[i - 1])
    BY <1>1, <1>3
  <1>6. new[Len(new)].rule = "Run"
    <2>1. CASE st = <<>> BY <2>1, <1>3, <1>4
    <2>2. CASE st # <<>>
      <3>1. Len(st) \in 1..Len(st) BY <2>2, <1>1, EmptySeq
      <3>2. new[Len(new)] = st[Len(st)] BY <3>1, <1>1, <1>3, <1>4
      <3> QED BY <3>2, <2>2 DEF StackOK
    <2> QED BY <2>1, <2>2
  <1>7. \A i \in 1..Len(new) : FrameOK(new[i], p) BY <1>4, <1>5 DEF StackOK
  <1>8. ASSUME NEW i \in 1..Len(new) - 1 PROVE Above(new[i], new[i + 1])
    <2>1. CASE i = 1
      <3>1. st # <<>> /\ 1 \in 1..Len(st) BY <1>3, <1>1, <2>1
      <3> QED BY <3>1, <2>1, <1>4
    <2>2. CASE i # 1
      <3>1. i - 1 \in 1..Len(st) - 1 /\ i - 1 \in 1..Len(st) /\ i \in 1..Len(st)
            /\ (i - 1) + 1 = i
        BY <2>2, <1>1, <1>3
      <3>2. new[(i - 1) + 1] = st[i - 1] /\ new[i + 1] = st[i] BY <3>1, <1>4
      <3>3. Above(st[i - 1], st[(i - 1) + 1]) BY <3>1 DEF StackOK
      <3> QED BY <3>1, <3>2, <3>3
    <2> QED BY <2>1, <2>2
  <1>9. ASSUME NEW i \in 1..Len(new), NEW j \in 1..Len(new), i < j,
               new[i].rule \in Openers, new[j].rule \in Openers
        PROVE  new[i].n > new[j].n
    <2>1. j - 1 \in 1..Len(st) /\ new[j] = st[j - 1] BY <1>5, <1>9
    <2>2. CASE i = 1
      <3>1. st[j - 1].n \in Open(st) BY <2>1, <1>9 DEF Open
      <3> QED BY <3>1, <2>1, <2>2, <1>4, <1>9
    <2>3. CASE i # 1
      <3>1. i - 1 \in 1..Len(st) /\ new[i] = st[i - 1] BY <1>5, <2>3
      <3>2. i - 1 < j - 1 BY <3>1, <2>1, <1>9, <1>1
      <3> QED BY <3>1, <3>2, <2>1, <1>9 DEF StackOK
    <2> QED BY <2>2, <2>3
  <1>10. StackOK(new, p) BY <1>3, <1>6, <1>7, <1>8, <1>9 DEF StackOK
  <1>11. Open(new) = Open(st) \cup (IF f.rule \in Openers THEN {f.n} ELSE {})
    <2> DEFINE more == IF f.rule \in Openers THEN {f.n} ELSE {}
    <2>1. ASSUME NEW x \in Open(new) PROVE x \in Open(st) \cup more
      <3>1. PICK i \in 1..Len(new) : new[i].rule \in Openers /\ x = new[i].n
        BY <2>1 DEF Open
      <3>2. CASE i = 1 BY <3>1, <3>2, <1>4
      <3>3. CASE i # 1
        <4>1. i - 1 \in 1..Len(st) /\ new[i] = st[i - 1] BY <3>3, <1>5
        <4> QED BY <4>1, <3>1 DEF Open
      <3> QED BY <3>2, <3>3
    <2>2. ASSUME NEW x \in Open(st) PROVE x \in Open(new)
      <3>1. PICK i \in 1..Len(st) : st[i].rule \in Openers /\ x = st[i].n
        BY <2>2 DEF Open
      <3> QED BY <3>1, <1>4 DEF Open
    <2>3. 1 \in 1..Len(new) BY <1>1, <1>3
    <2>4. \A x \in more : x \in Open(new) BY <2>3, <1>4 DEF Open
    <2> QED BY <2>1, <2>2, <2>4
  <1>12. new # <<>> BY <1>1, <1>3
  <1> QED BY <1>1, <1>3, <1>4, <1>10, <1>11, <1>12 DEF new

(* A return.                                                               *)
LEMMA Returned ==
  ASSUME NEW p, NEW st, StackOK(st, p), st # <<>>
  PROVE  /\ StackOK(Tail(st), p) /\ Open(Tail(st)) \subseteq Open(st)
         /\ st[1].rule \notin Openers => Open(Tail(st)) = Open(st)
         /\ st[1].rule \in Openers =>
              /\ Open(Tail(st)) = Open(st) \ {st[1].n} /\ st[1].n \in Open(st)
              /\ \A x \in Open(Tail(st)) : x < st[1].n
         /\ IF st[1].rule = "Run" THEN Tail(st) = <<>>
            ELSE Tail(st) # <<>> /\ Tail(st)[1] = st[2] /\ Above(st[1], Tail(st)[1])
  <1> DEFINE r == Tail(st)
             N == Len(st)
  <1>1. /\ N \in Nat \ {0} /\ r \in Seq(Frames) /\ Len(r) = N - 1
        /\ \A i \in 1..N - 1 : r[i] = st[i + 1]
        /\ \A i \in 1..N : st[i] \in Frames /\ st[i].n \in Nat
    BY StackFacts
  <1>2. (st[1].rule = "Run" <=> N = 1) /\ (N > 1 => Above(st[1], st[2])) BY StackFacts
  <1> HIDE DEF r
  <1>3. \A i \in 1..Len(r) : i + 1 \in 1..N /\ r[i] = st[i + 1] /\ i \in 1..N - 1 BY <1>1
  <1>4. /\ StackOK(st, p) => st[N].rule = "Run"
        /\ \A i \in 1..N : FrameOK(st[i], p)
        /\ \A i \in 1..N - 1 : Above(st[i], st[i + 1])
        /\ \A i, j \in 1..N :
             i < j /\ st[i].rule \in Openers /\ st[j].rule \in Openers => st[i].n > st[j].n
    BY DEF StackOK
  <1>5. StackOK(r, p)
    <2>1. r # <<>> => r[Len(r)].rule = "Run"
      <3> SUFFICES ASSUME r # <<>> PROVE r[Len(r)].rule = "Run"
        OBVIOUS
      <3>1. Len(r) # 0 BY <1>1, EmptySeq
      <3>2. Len(r) \in 1..Len(r) /\ Len(r) + 1 = N BY <3>1, <1>1
      <3>3. r[Len(r)] = st[N] BY <3>2, <1>3
      <3> QED BY <3>3, <1>4
    <2>2. \A i \in 1..Len(r) : FrameOK(r[i], p) BY <1>3, <1>4
    <2>3. ASSUME NEW i \in 1..Len(r) - 1 PROVE Above(r[i], r[i + 1])
      <3>1. i \in 1..Len(r) /\ i + 1 \in 1..Len(r) /\ i + 1 \in 1..N - 1 BY <1>1
      <3>2. r[i] = st[i + 1] /\ r[i + 1] = st[(i + 1) + 1] BY <3>1, <1>3
      <3> QED BY <3>1, <3>2, <1>4
    <2>4. ASSUME NEW i \in 1..Len(r), NEW j \in 1..Len(r), i < j,
                 r[i].rule \in Openers, r[j].rule \in Openers
          PROVE  r[i].n > r[j].n
      <3>1. i + 1 < j + 1 /\ i + 1 \in 1..N /\ j + 1 \in 1..N BY <2>4, <1>1, <1>3
      <3>2. r[i] = st[i + 1] /\ r[j] = st[j + 1] BY <1>3
      <3> QED BY <3>1, <3>2, <2>4, <1>4
    <2> QED BY <2>1, <2>2, <2>3, <2>4, <1>1 DEF StackOK
  <1>6. \A i \in 1..N : i = 1 \/ (i - 1 \in 1..Len(r) /\ r[i - 1] = st[i])
    <2> SUFFICES ASSUME NEW i \in 1..N, i # 1 PROVE i - 1 \in 1..Len(r) /\ r[i - 1] = st[i]
      OBVIOUS
    <2>1. i - 1 \in 1..Len(r) /\ (i - 1) + 1 = i BY <1>1
    <2> QED BY <2>1, <1>3
  <1>7. ASSUME NEW x \in Open(r) PROVE x \in Open(st)
    <2>1. PICK i \in 1..Len(r) : r[i].rule \in Openers /\ x = r[i].n BY <1>7 DEF Open
    <2> QED BY <2>1, <1>3 DEF Open
  <1>8. ASSUME NEW x \in Open(st) PROVE x \in Open(r) \/ (st[1].rule \in Openers /\ x = st[1].n)
    <2>1. PICK i \in 1..N : st[i].rule \in Openers /\ x = st[i].n BY <1>8 DEF Open
    <2>2. CASE i = 1 BY <2>1, <2>2
    <2>3. CASE i # 1
      <3>1. i - 1 \in 1..Len(r) /\ r[i - 1] = st[i] BY <2>3, <1>6
      <3> QED BY <3>1, <2>1 DEF Open
    <2> QED BY <2>2, <2>3
  <1>9. 1 \in 1..N BY <1>1
  <1>10. ASSUME st[1].rule \in Openers, NEW x \in Open(r) PROVE x < st[1].n /\ x \in Nat
    <2>1. PICK i \in 1..Len(r) : r[i].rule \in Openers /\ x = r[i].n BY <1>10 DEF Open
    <2>2. 1 < i + 1 /\ i + 1 \in 1..N /\ r[i] = st[i + 1] BY <2>1, <1>1, <1>3
    <2>3. st[1].n > st[i + 1].n BY <2>1, <2>2, <1>4, <1>9, <1>10
    <2>4. st[1].n \in Nat /\ st[i + 1].n \in Nat BY <2>2, <1>1, <1>9
    <2> QED BY <2>1, <2>2, <2>3, <2>4
  <1>11. st[1].rule \in Openers => st[1].n \in Open(st) /\ st[1].n \notin Open(r)
    <2>1. st[1].rule \in Openers => st[1].n \in Open(st) BY <1>9 DEF Open
    <2>2. st[1].n \in Nat BY <1>1, <1>9
    <2> QED BY <2>1, <2>2, <1>10
  <1>12. IF st[1].rule = "Run" THEN r = <<>>
         ELSE r # <<>> /\ r[1] = st[2] /\ Above(st[1], r[1])
    <2>1. CASE st[1].rule = "Run"
      <3>0. \A l \in Nat : l = 1 => l - 1 = 0 OBVIOUS
      <3>1. Len(r) = 0 BY <3>0, <2>1, <1>1, <1>2, Zenon
      <3> QED BY <3>1, <2>1, <1>1, EmptySeq
    <2>2. CASE st[1].rule # "Run"
      <3>1. N # 1 BY <2>2, <1>2
      <3>2. N > 1 /\ 1 \in 1..Len(r) BY <3>1, <1>1
      <3>3. r[1] = st[1 + 1] /\ 1 + 1 = 2 BY <3>2, <1>3
      <3>4. r # <<>> BY <3>2
      <3> QED BY <2>2, <3>2, <3>3, <3>4, <1>2
    <2> QED BY <2>1, <2>2
  <1> QED BY <1>5, <1>7, <1>8, <1>10, <1>11, <1>12 DEF r

(* What recovery leaves of the stack.                                      *)
LEMMA Unwound ==
  ASSUME NEW p, NEW st, StackOK(st, p), NEW i \in 1..Len(st)
  PROVE  LET r == SubSeq(st, i, Len(st))
         IN  /\ StackOK(r, p) /\ r # <<>> /\ r[1] = st[i]
             /\ Open(r) \subseteq Open(st)
             /\ \A x \in Open(st) \ Open(r), y \in Open(r) : x > y
             /\ st[i].rule = "Run" => Open(r) = {}
  <1> DEFINE r == SubSeq(st, i, Len(st))
             N == Len(st)
  <1>1. st \in Seq(Frames) /\ N \in Nat BY LenProperties DEF StackOK
  <1>2. /\ st # <<>> => st[N].rule = "Run"
        /\ \A k \in 1..N : FrameOK(st[k], p)
        /\ \A k \in 1..N - 1 : Above(st[k], st[k + 1])
        /\ \A k, j \in 1..N :
             k < j /\ st[k].rule \in Openers /\ st[j].rule \in Openers => st[k].n > st[j].n
    BY DEF StackOK
  <1>3. /\ r \in Seq(Frames) /\ Len(r) = N - i + 1
        /\ \A k \in 1..N - i + 1 : r[k] = st[i + k - 1]
    <2>1. \A k \in i..N : st[k] \in Frames
      <3>1. \A k \in 1..N : st[k] \in Frames BY <1>1, ElementOfSeq
      <3>2. \A k \in i..N : k \in 1..N BY <1>1
      <3> QED BY <3>1, <3>2
    <2>2. i <= N /\ i \in Int /\ N \in Int BY <1>1
    <2> QED BY <2>1, <2>2, SubSeqProperties
  <1> HIDE DEF r
  <1>4. \A k \in 1..Len(r) : i + k - 1 \in 1..N /\ r[k] = st[i + k - 1] BY <1>1, <1>3
  <1>5. \A k \in i..N : k - i + 1 \in 1..Len(r) /\ r[k - i + 1] = st[k]
    <2> SUFFICES ASSUME NEW k \in i..N PROVE k - i + 1 \in 1..Len(r) /\ r[k - i + 1] = st[k]
      OBVIOUS
    <2>1. k - i + 1 \in 1..Len(r) /\ i + (k - i + 1) - 1 = k BY <1>1, <1>3
    <2> QED BY <2>1, <1>4
  <1>6. r # <<>> /\ r[1] = st[i]
    <2>1. i \in i..N /\ i - i + 1 = 1 BY <1>1
    <2>2. 1 \in 1..Len(r) BY <1>1, <1>3
    <2> QED BY <2>1, <2>2, <1>5
  <1>7. StackOK(r, p)
    <2>1. r[Len(r)].rule = "Run"
      <3>1. N \in i..N /\ N - i + 1 = Len(r) /\ st # <<>> BY <1>1, <1>3
      <3> QED BY <3>1, <1>2, <1>5
    <2>2. \A k \in 1..Len(r) : FrameOK(r[k], p) BY <1>2, <1>4
    <2>3. ASSUME NEW k \in 1..Len(r) - 1 PROVE Above(r[k], r[k + 1])
      <3>1. k \in 1..Len(r) /\ k + 1 \in 1..Len(r) /\ i + k - 1 \in 1..N - 1
            /\ (i + k - 1) + 1 = i + (k + 1) - 1
        BY <1>1, <1>3
      <3>2. r[k] = st[i + k - 1] /\ r[k + 1] = st[i + (k + 1) - 1] BY <3>1, <1>4
      <3>3. Above(st[i + k - 1], st[(i + k - 1) + 1]) BY <3>1, <1>2
      <3> QED BY <3>1, <3>2, <3>3
    <2>4. ASSUME NEW k \in 1..Len(r), NEW j \in 1..Len(r), k < j,
                 r[k].rule \in Openers, r[j].rule \in Openers
          PROVE  r[k].n > r[j].n
      <3>1. i + k - 1 < i + j - 1 /\ i + k - 1 \in 1..N /\ i + j - 1 \in 1..N
        BY <2>4, <1>1, <1>3
      <3>2. r[k] = st[i + k - 1] /\ r[j] = st[i + j - 1] BY <1>4
      <3> QED BY <3>1, <3>2, <2>4, <1>2
    <2> QED BY <2>1, <2>2, <2>3, <2>4, <1>3 DEF StackOK
  <1>8. Open(r) \subseteq Open(st)
    <2> SUFFICES ASSUME NEW x \in Open(r) PROVE x \in Open(st)
      OBVIOUS
    <2>1. PICK k \in 1..Len(r) : r[k].rule \in Openers /\ x = r[k].n BY DEF Open
    <2> QED BY <2>1, <1>4 DEF Open
  <1>9. ASSUME NEW x \in Open(st) \ Open(r), NEW y \in Open(r) PROVE x > y
    <2>1. PICK k \in 1..N : st[k].rule \in Openers /\ x = st[k].n BY DEF Open
    <2>2. PICK j \in 1..Len(r) : r[j].rule \in Openers /\ y = r[j].n BY DEF Open
    <2>3. k \notin i..N BY <2>1, <1>5, <1>9 DEF Open
    <2>4. k < i + j - 1 /\ i + j - 1 \in 1..N BY <2>3, <1>1, <1>3
    <2>5. r[j] = st[i + j - 1] BY <1>4
    <2> QED BY <2>1, <2>2, <2>4, <2>5, <1>2
  <1>10. ASSUME st[i].rule = "Run" PROVE Open(r) = {}
    <2>1. i \notin 1..N - 1 BY <1>2, <1>10 DEF Above
    <2>2. i = N BY <2>1, <1>1
    <2>3. \A k \in 1..Len(r) : k = 1 BY <2>2, <1>3, <1>1
    <2> QED BY <2>3, <1>6, <1>10 DEF Open, Openers
  <1> QED BY <1>6, <1>7, <1>8, <1>9, <1>10 DEF r

(* Calls whose frames keep no number.                                      *)
LEMMA PlainPushed ==
  ASSUME NEW p \in Nat, NEW st, StackOK(st, p), st # <<>>, st[1].rule \notin TopOnly,
         NEW front \in Seq(Plain)
  PROVE  /\ StackOK(front \o st, p) /\ front \o st # <<>>
         /\ Open(front \o st) = Open(st)
         /\ (front \o st)[1].rule \notin TopOnly
         /\ front # <<>> => (front \o st)[1] = front[1]
  <1> DEFINE new == front \o st
             M == Len(front)
             N == Len(st)
  <1>1. st \in Seq(Frames) /\ N \in Nat /\ N >= 1 BY StackFacts DEF StackOK
  <1>2. front \in Seq(Frames) /\ M \in Nat
    <2>1. Plain \subseteq Frames BY DEF Plain
    <2> QED BY <2>1, SeqMonotonic, LenProperties
  <1>3. /\ new \in Seq(Frames) /\ Len(new) = M + N
        /\ \A i \in 1..M + N : new[i] = IF i <= M THEN front[i] ELSE st[i - M]
    BY <1>1, <1>2, ConcatProperties
  <1>4. \A i \in 1..M : front[i] \in Plain BY ElementOfSeq
  <1>5. /\ st[N].rule = "Run"
        /\ \A i \in 1..N : FrameOK(st[i], p)
        /\ \A i \in 1..N - 1 : Above(st[i], st[i + 1])
        /\ \A i, j \in 1..N :
             i < j /\ st[i].rule \in Openers /\ st[j].rule \in Openers => st[i].n > st[j].n
    BY DEF StackOK
  <1> HIDE DEF new, M, N
  <1>6. \A i \in 1..M : i \in 1..Len(new) /\ new[i] \in Plain BY <1>1, <1>2, <1>3, <1>4
  <1>7. \A i \in 1..N : M + i \in 1..Len(new) /\ new[M + i] = st[i]
    <2> SUFFICES ASSUME NEW i \in 1..N PROVE M + i \in 1..Len(new) /\ new[M + i] = st[i]
      OBVIOUS
    <2>1. M + i \in 1..M + N /\ ~(M + i <= M) /\ (M + i) - M = i BY <1>1, <1>2
    <2> QED BY <2>1, <1>3
  <1>8. \A i \in 1..Len(new) : i \in 1..M \/ (i - M \in 1..N /\ M + (i - M) = i)
    BY <1>1, <1>2, <1>3
  <1>9. \A f \in Plain : f.rule \notin TopOnly \cup Openers \cup Loops \cup {"DeclSpec"}
                         /\ \A q \in Nat : FrameOK(f, q)
    BY DEF Plain, FrameOK, TopOnly
  <1>10. \A f \in Plain, g \in Frames : g.rule \notin TopOnly => Above(f, g)
    BY DEF Plain, Above, TopOnly, Syncs, Loops
  <1>11. new[1].rule \notin TopOnly
    <2>1. CASE M = 0
      <3>1. M + 1 = 1 /\ 1 \in 1..N BY <2>1, <1>1
      <3> QED BY <3>1, <1>7
    <2>2. CASE M # 0
      <3>1. 1 \in 1..M BY <2>2, <1>2
      <3> QED BY <3>1, <1>6, <1>9
    <2> QED BY <2>1, <2>2
  <1>12. new[Len(new)].rule = "Run"
    <2>1. N \in 1..N BY <1>1
    <2> QED BY <2>1, <1>3, <1>5, <1>7
  <1>13. \A i \in 1..Len(new) : FrameOK(new[i], p)
    <2> SUFFICES ASSUME NEW i \in 1..Len(new) PROVE FrameOK(new[i], p)
      OBVIOUS
    <2>1. CASE i \in 1..M BY <2>1, <1>6, <1>9
    <2>2. CASE i - M \in 1..N /\ M + (i - M) = i BY <2>2, <1>5, <1>7
    <2> QED BY <2>1, <2>2, <1>8
  <1>14. ASSUME NEW i \in 1..Len(new) - 1 PROVE Above(new[i], new[i + 1])
    <2>1. CASE i \in 1..M
      <3>1. new[i + 1].rule \notin TopOnly /\ new[i + 1] \in Frames
        <4>1. i + 1 \in 1..M \/ (i = M /\ 1 \in 1..N) BY <2>1, <1>1, <1>2
        <4>2. i + 1 \in 1..Len(new) BY <1>1, <1>2, <1>3
        <4>3. CASE i + 1 \in 1..M BY <4>3, <4>2, <1>3, <1>6, <1>9, ElementOfSeq
        <4>4. CASE i = M /\ 1 \in 1..N BY <4>4, <4>2, <1>3, <1>7, ElementOfSeq
        <4> QED BY <4>1, <4>3, <4>4
      <3> QED BY <3>1, <2>1, <1>6, <1>10
    <2>2. CASE i - M \in 1..N /\ M + (i - M) = i
      <3> DEFINE k == i - M
      <3>1. k \in 1..N - 1 /\ k \in 1..N /\ k + 1 \in 1..N /\ M + (k + 1) = i + 1 /\ M + k = i
        BY <2>2, <1>1, <1>2, <1>3
      <3> HIDE DEF k
      <3>2. new[i] = st[k] /\ new[i + 1] = st[k + 1] BY <3>1, <1>7
      <3> QED BY <3>1, <3>2, <1>5
    <2>3. i \in 1..Len(new) BY <1>1, <1>2, <1>3
    <2> QED BY <2>1, <2>2, <2>3, <1>8
  <1>15. \A i \in 1..Len(new) : new[i].rule \in Openers =>
            i - M \in 1..N /\ new[i] = st[i - M]
    <2> SUFFICES ASSUME NEW i \in 1..Len(new), new[i].rule \in Openers
                 PROVE  i - M \in 1..N /\ new[i] = st[i - M]
      OBVIOUS
    <2>1. i \notin 1..M BY <1>6, <1>9
    <2>2. i - M \in 1..N /\ M + (i - M) = i BY <2>1, <1>8
    <2> QED BY <2>2, <1>7
  <1>16. ASSUME NEW i \in 1..Len(new), NEW j \in 1..Len(new), i < j,
                new[i].rule \in Openers, new[j].rule \in Openers
         PROVE  new[i].n > new[j].n
    <2>1. /\ i - M \in 1..N /\ new[i] = st[i - M]
          /\ j - M \in 1..N /\ new[j] = st[j - M]
      BY <1>15, <1>16
    <2>2. i - M < j - M BY <2>1, <1>16, <1>2
    <2> QED BY <2>1, <2>2, <1>5, <1>16
  <1>17. StackOK(new, p) BY <1>3, <1>12, <1>13, <1>14, <1>16 DEF StackOK
  <1>18. Open(new) = Open(st)
    <2>1. ASSUME NEW x \in Open(new) PROVE x \in Open(st)
      <3>1. PICK i \in 1..Len(new) : new[i].rule \in Openers /\ x = new[i].n
        BY <2>1 DEF Open
      <3> QED BY <3>1, <1>15 DEF Open, N
    <2>2. ASSUME NEW x \in Open(st) PROVE x \in Open(new)
      <3>1. PICK i \in 1..N : st[i].rule \in Openers /\ x = st[i].n
        BY <2>2 DEF Open, N
      <3> QED BY <3>1, <1>7 DEF Open
    <2> QED BY <2>1, <2>2
  <1>19. new # <<>> BY <1>1, <1>2, <1>3
  <1>20. front # <<>> => new[1] = front[1]
    <2> SUFFICES ASSUME front # <<>> PROVE new[1] = front[1]
      OBVIOUS
    <2>1. M # 0 BY EmptySeq DEF M
    <2>2. 1 \in 1..M + N /\ 1 <= M BY <2>1, <1>1, <1>2
    <2> QED BY <2>2, <1>3
  <1> QED BY <1>11, <1>17, <1>18, <1>19, <1>20 DEF new

-----------------------------------------------------------------------------
(* SMT cannot read a brace in a string: the facts about them are Zenon's.  *)
LBrace == "{"
RBrace == "}"

LEMMA Unlike == LBrace # RBrace
  BY Zenon DEF LBrace, RBrace

(* The braces of a text tx of which p tokens are consumed: O are the open  *)
(* ones, P the pairs taken to match.  Lost are those recovery skipped.     *)
Count(tx, kind, a, k) == Cardinality({i \in a..k : tx[i] = kind})
Lost(tx, O, P, a, k)  == {i \in a..k : tx[i] = LBrace /\ i \notin O /\ \A q \in P : q[1] # i}
Deeper(O, a)          == {x \in O : x >= a}
Matched(tx, a, b) ==
    /\ Count(tx, LBrace, a, b) = Count(tx, RBrace, a, b)
    /\ \A k \in a..(b - 1) : Count(tx, LBrace, a, k) # Count(tx, RBrace, a, k)

Opened(tx, p, O, P, a) ==
    /\ \A k \in a..p : Lost(tx, O, P, a, k) = {} => Count(tx, LBrace, a, k) > Count(tx, RBrace, a, k)
    /\ Lost(tx, O, P, a, p) = {} =>
         Count(tx, LBrace, a, p) = Count(tx, RBrace, a, p) + Cardinality(Deeper(O, a))

Closed(tx, O, P, q) ==
    Matched(tx, q[1], q[2]) \/ Lost(tx, O, P, q[1], q[2]) # {}

Kept(tx, p, O, P) ==
    /\ O \subseteq 1..p /\ P \subseteq (1..p) \X (1..p)
    /\ \A q \in P : q[1] \notin O
    /\ \A a \in O : Opened(tx, p, O, P, a)
    /\ \A q \in P : Closed(tx, O, P, q)

LEMMA CountNext ==
  ASSUME NEW tx, NEW kind, NEW a \in Nat, NEW k \in Nat
  PROVE  /\ Count(tx, kind, a, k) \in Nat
         /\ a <= k + 1 => Count(tx, kind, a, k + 1)
                          = Count(tx, kind, a, k) + (IF tx[k + 1] = kind THEN 1 ELSE 0)
         /\ a = k + 1 => Count(tx, kind, a, k) = 0
  <1> DEFINE S == {i \in a..k : tx[i] = kind}
             T == {i \in a..k + 1 : tx[i] = kind}
  <1>1. IsFiniteSet(S) /\ Cardinality(S) \in Nat
    <2>1. IsFiniteSet(a..k) BY FS_Interval
    <2>2. S \in SUBSET (a..k) OBVIOUS
    <2>3. IsFiniteSet(S) BY <2>1, <2>2, FS_Subset
    <2> QED BY <2>3, FS_CardinalityType
  <1>2. k + 1 \notin S OBVIOUS
  <1>3. ASSUME a <= k + 1
        PROVE  Cardinality(T) = Cardinality(S) + (IF tx[k + 1] = kind THEN 1 ELSE 0)
    <2>1. CASE tx[k + 1] = kind
      <3>1. T = S \cup {k + 1} BY <2>1, <1>3
      <3>2. Cardinality(S \cup {k + 1}) = Cardinality(S) + 1 BY <1>1, <1>2, FS_AddElement
      <3> QED BY <2>1, <3>1, <3>2
    <2>2. CASE tx[k + 1] # kind
      <3>1. T = S BY <2>2
      <3>2. Cardinality(S) + 0 = Cardinality(S) BY <1>1
      <3> QED BY <2>2, <3>1, <3>2
    <2> QED BY <2>1, <2>2
  <1>4. ASSUME a = k + 1 PROVE Cardinality(S) = 0
    <2>1. S = {} BY <1>4
    <2> QED BY <2>1, FS_EmptySet
  <1> QED BY <1>1, <1>3, <1>4 DEF Count

LEMMA CountSame ==
  ASSUME NEW p \in Nat, NEW tx, NEW ux, \A i \in 1..p : tx[i] = ux[i],
         NEW kind, NEW a \in 1..p, NEW k \in 0..p
  PROVE  Count(tx, kind, a, k) = Count(ux, kind, a, k)
  <1>1. {i \in a..k : tx[i] = kind} = {i \in a..k : ux[i] = kind}
    <2>1. a..k \subseteq 1..p OBVIOUS
    <2> QED BY <2>1
  <1> QED BY <1>1 DEF Count

(* An open brace is one.                                                   *)
LEMMA OpenIsBrace ==
  ASSUME NEW p \in Nat, NEW tx, NEW O, NEW P, Kept(tx, p, O, P), NEW x \in O
  PROVE  tx[x] = LBrace
  <1>1. x \in 1..p /\ Opened(tx, p, O, P, x) BY DEF Kept
  <1>2. x \in x..p /\ x \in Nat BY <1>1
  <1>3. Lost(tx, O, P, x, x) = {}
    <2>1. \A i \in x..x : i = x BY <1>2
    <2> QED BY <2>1 DEF Lost
  <1>4. Count(tx, LBrace, x, x) > Count(tx, RBrace, x, x) BY <1>1, <1>2, <1>3 DEF Opened
  <1>5. Count(tx, RBrace, x, x) \in Nat BY <1>2, CountNext
  <1>6. ASSUME tx[x] # LBrace PROVE Count(tx, LBrace, x, x) = 0
    <2>1. \A i \in x..x : i = x BY <1>2
    <2>2. {i \in x..x : tx[i] = LBrace} = {} BY <2>1, <1>6
    <2> QED BY <2>2, FS_EmptySet DEF Count
  <1>7. \A l, m \in Nat : l = 0 => ~(l > m) OBVIOUS
  <1>8. Count(tx, LBrace, x, x) \in Nat BY <1>2, CountNext
  <1> QED BY <1>4, <1>5, <1>6, <1>7, <1>8, Zenon

(* What the braces do not depend on.                                       *)
LEMMA KeptText ==
  ASSUME NEW p \in Nat, NEW tx, NEW ux, \A i \in 1..p : tx[i] = ux[i],
         NEW O, NEW P, Kept(tx, p, O, P)
  PROVE  Kept(ux, p, O, P)
  <1>1. \A a \in 1..p : \A k \in 0..p : \A kind : Count(tx, kind, a, k) = Count(ux, kind, a, k)
    BY CountSame
  <1>2. ASSUME NEW a \in 1..p, NEW k \in 0..p
        PROVE  Lost(tx, O, P, a, k) = Lost(ux, O, P, a, k)
    <2>1. a..k \subseteq 1..p BY <1>2
    <2> QED BY <2>1 DEF Lost
  <1>3. O \subseteq 1..p /\ P \subseteq (1..p) \X (1..p) BY DEF Kept
  <1>4. ASSUME NEW a \in O PROVE Opened(ux, p, O, P, a)
    <2>1. a \in 1..p /\ p \in 0..p /\ \A k \in a..p : k \in 0..p BY <1>3
    <2>2. Opened(tx, p, O, P, a) BY DEF Kept
    <2> QED BY <2>1, <2>2, <1>1, <1>2 DEF Opened
  <1>5. ASSUME NEW q \in P PROVE Closed(ux, O, P, q)
    <2>1. q[1] \in 1..p /\ q[2] \in 1..p BY <1>3
    <2>2. q[2] \in 0..p /\ \A k \in q[1]..(q[2] - 1) : k \in 0..p BY <2>1
    <2>3. Closed(tx, O, P, q) BY DEF Kept
    <2>4. Matched(tx, q[1], q[2]) => Matched(ux, q[1], q[2])
      BY <2>1, <2>2, <1>1 DEF Matched
    <2> QED BY <2>1, <2>2, <2>3, <2>4, <1>2 DEF Closed
  <1> QED BY <1>4, <1>5 DEF Kept

(* Recovery gives up the innermost open braces.                            *)
LEMMA KeptDrop ==
  ASSUME NEW p \in Nat, NEW tx, NEW O, NEW P, Kept(tx, p, O, P),
         NEW Q, Q \subseteq O, \A x \in O \ Q : \A y \in Q : x > y
  PROVE  Kept(tx, p, Q, P)
  <1>1. O \subseteq 1..p BY DEF Kept
  <1>2. \A a, k : Lost(tx, O, P, a, k) \subseteq Lost(tx, Q, P, a, k) BY DEF Lost
  <1>3. ASSUME NEW a \in Q PROVE Opened(tx, p, Q, P, a)
    <2>1. Opened(tx, p, O, P, a) BY DEF Kept
    <2>2. \A k \in a..p : Lost(tx, Q, P, a, k) = {} => Count(tx, LBrace, a, k) > Count(tx, RBrace, a, k)
      <3> SUFFICES ASSUME NEW k \in a..p, Lost(tx, Q, P, a, k) = {}
                   PROVE  Count(tx, LBrace, a, k) > Count(tx, RBrace, a, k)
        OBVIOUS
      <3>1. Lost(tx, O, P, a, k) = {} BY <1>2
      <3> QED BY <2>1, <3>1 DEF Opened
    <2>3. ASSUME Lost(tx, Q, P, a, p) = {}
          PROVE  Count(tx, LBrace, a, p) = Count(tx, RBrace, a, p) + Cardinality(Deeper(Q, a))
      <3>1. Lost(tx, O, P, a, p) = {} BY <1>2, <2>3
      <3>2. Deeper(Q, a) = Deeper(O, a)
        <4>1. ASSUME NEW x \in O, x >= a, x \notin Q PROVE FALSE
          <5>1. x \in a..p BY <1>1, <4>1
          <5>2. tx[x] = LBrace BY OpenIsBrace
          <5>3. \A q \in P : q[1] # x BY DEF Kept
          <5>4. x \in Lost(tx, Q, P, a, p) BY <5>1, <5>2, <5>3, <4>1 DEF Lost
          <5> QED BY <5>4, <2>3
        <4> QED BY <4>1 DEF Deeper
      <3> QED BY <2>1, <3>1, <3>2 DEF Opened
    <2> QED BY <2>2, <2>3 DEF Opened
  <1>4. ASSUME NEW q \in P PROVE Closed(tx, Q, P, q)
    <2>1. Closed(tx, O, P, q) BY DEF Kept
    <2>2. Lost(tx, O, P, q[1], q[2]) # {} => Lost(tx, Q, P, q[1], q[2]) # {} BY <1>2
    <2> QED BY <2>1, <2>2 DEF Closed
  <1>5. /\ Q \subseteq 1..p /\ P \subseteq (1..p) \X (1..p)
        /\ \A q \in P : q[1] \notin Q
    BY DEF Kept
  <1> QED BY <1>3, <1>4, <1>5 DEF Kept

LEMMA DeeperFinite ==
  ASSUME NEW p \in Nat, NEW O, O \subseteq 1..p, NEW a
  PROVE  IsFiniteSet(Deeper(O, a)) /\ Cardinality(Deeper(O, a)) \in Nat
  <1>1. IsFiniteSet(1..p) BY FS_Interval
  <1>2. Deeper(O, a) \in SUBSET (1..p) BY DEF Deeper
  <1> QED BY <1>1, <1>2, FS_Subset, FS_CardinalityType

(* A token is consumed that opens and closes nothing.                      *)
LEMMA KeptSkip ==
  ASSUME NEW p \in Nat, NEW tx, NEW O, NEW P, Kept(tx, p, O, P), tx[p + 1] # RBrace \/ O = {}
  PROVE  Kept(tx, p + 1, O, P)
  <1>1. /\ O \subseteq 1..p /\ P \subseteq (1..p) \X (1..p)
        /\ \A q \in P : q[1] \notin O
        /\ \A q \in P : Closed(tx, O, P, q)
    BY DEF Kept
  <1>2. ASSUME NEW a \in O PROVE Opened(tx, p + 1, O, P, a)
    <2>1. a \in 1..p /\ a \in Nat /\ p \in a..p /\ a <= p + 1 /\ p + 1 \in Nat BY <1>1
    <2>2. Opened(tx, p, O, P, a) BY DEF Kept
    <2>3. Lost(tx, O, P, a, p) \subseteq Lost(tx, O, P, a, p + 1) BY <2>1 DEF Lost
    <2>4. tx[p + 1] # RBrace OBVIOUS
    <2>5. /\ Count(tx, LBrace, a, p + 1) = Count(tx, LBrace, a, p) + (IF tx[p + 1] = LBrace THEN 1 ELSE 0)
          /\ Count(tx, RBrace, a, p + 1) = Count(tx, RBrace, a, p)
          /\ Count(tx, LBrace, a, p) \in Nat /\ Count(tx, RBrace, a, p) \in Nat
      <3>1. Count(tx, LBrace, a, p) \in Nat /\ Count(tx, RBrace, a, p) \in Nat BY <2>1, CountNext
      <3>2. Count(tx, LBrace, a, p + 1) = Count(tx, LBrace, a, p) + (IF tx[p + 1] = LBrace THEN 1 ELSE 0)
        BY <2>1, CountNext
      <3>3. Count(tx, RBrace, a, p + 1) = Count(tx, RBrace, a, p) + (IF tx[p + 1] = RBrace THEN 1 ELSE 0)
        BY <2>1, CountNext
      <3> QED BY <3>1, <3>2, <3>3, <2>4
    <2>6. Lost(tx, O, P, a, p) = {} => Count(tx, LBrace, a, p + 1) > Count(tx, RBrace, a, p + 1)
      <3>1. Lost(tx, O, P, a, p) = {} => Count(tx, LBrace, a, p) > Count(tx, RBrace, a, p)
        BY <2>1, <2>2 DEF Opened
      <3> HIDE DEF Lost, Count
      <3> QED BY <3>1, <2>5
    <2>7. Lost(tx, O, P, a, p + 1) = {} => tx[p + 1] # LBrace
      <3>1. p + 1 \in a..p + 1 /\ p + 1 \notin O /\ \A q \in P : q[1] # p + 1 BY <1>1, <2>1
      <3> QED BY <3>1 DEF Lost
    <2>8. ASSUME NEW k \in a..p + 1, Lost(tx, O, P, a, k) = {}
          PROVE  Count(tx, LBrace, a, k) > Count(tx, RBrace, a, k)
      <3>1. k \in a..p \/ k = p + 1 BY <2>1
      <3>2. CASE k \in a..p BY <3>2, <2>2, <2>8 DEF Opened
      <3>3. CASE k = p + 1 BY <3>3, <2>3, <2>6, <2>8
      <3> QED BY <3>1, <3>2, <3>3
    <2>9. ASSUME Lost(tx, O, P, a, p + 1) = {}
          PROVE  Count(tx, LBrace, a, p + 1) = Count(tx, RBrace, a, p + 1) + Cardinality(Deeper(O, a))
      <3>1. Lost(tx, O, P, a, p) = {} /\ tx[p + 1] # LBrace BY <2>3, <2>7, <2>9
      <3>2. Count(tx, LBrace, a, p) = Count(tx, RBrace, a, p) + Cardinality(Deeper(O, a))
        BY <2>2, <3>1 DEF Opened
      <3>3. Count(tx, LBrace, a, p + 1) = Count(tx, LBrace, a, p) BY <3>1, <2>5
      <3> QED BY <3>2, <3>3, <2>5
    <2> QED BY <2>8, <2>9 DEF Opened
  <1> QED BY <1>1, <1>2 DEF Kept

(* A brace is opened.                                                      *)
LEMMA KeptOpen ==
  ASSUME NEW p \in Nat, NEW tx, NEW O, NEW P, Kept(tx, p, O, P), tx[p + 1] = LBrace
  PROVE  Kept(tx, p + 1, O \cup {p + 1}, P)
  <1> DEFINE Q == O \cup {p + 1}
  <1>1. /\ O \subseteq 1..p /\ P \subseteq (1..p) \X (1..p)
        /\ \A q \in P : q[1] \notin O
    BY DEF Kept
  <1>2. \A a : \A k \in 0..p : Lost(tx, Q, P, a, k) = Lost(tx, O, P, a, k) BY DEF Lost
  <1>3. \A a \in Nat : Lost(tx, Q, P, a, p + 1) = Lost(tx, O, P, a, p) BY Unlike DEF Lost
  <1>4. ASSUME NEW a \in O PROVE Opened(tx, p + 1, Q, P, a)
    <2>1. a \in 1..p /\ a \in Nat /\ p \in a..p /\ a <= p + 1 /\ p + 1 \in Nat BY <1>1
    <2>2. Opened(tx, p, O, P, a) BY DEF Kept
    <2>3. /\ Count(tx, LBrace, a, p) \in Nat /\ Count(tx, RBrace, a, p) \in Nat
          /\ Count(tx, LBrace, a, p + 1) = Count(tx, LBrace, a, p) + 1
          /\ Count(tx, RBrace, a, p + 1) = Count(tx, RBrace, a, p)
      <3>1. Count(tx, LBrace, a, p) \in Nat /\ Count(tx, RBrace, a, p) \in Nat BY <2>1, CountNext
      <3>2. Count(tx, LBrace, a, p + 1) = Count(tx, LBrace, a, p) + (IF tx[p + 1] = LBrace THEN 1 ELSE 0)
        BY <2>1, CountNext
      <3>3. Count(tx, RBrace, a, p + 1) = Count(tx, RBrace, a, p) + (IF tx[p + 1] = RBrace THEN 1 ELSE 0)
        BY <2>1, CountNext
      <3> QED BY <3>1, <3>2, <3>3, Unlike
    <2>4. Cardinality(Deeper(Q, a)) = Cardinality(Deeper(O, a)) + 1
          /\ Cardinality(Deeper(O, a)) \in Nat
      <3>1. Deeper(Q, a) = Deeper(O, a) \cup {p + 1} BY <2>1 DEF Deeper
      <3>2. p + 1 \notin Deeper(O, a) BY <1>1 DEF Deeper
      <3>3. IsFiniteSet(Deeper(O, a)) /\ Cardinality(Deeper(O, a)) \in Nat
        BY <1>1, DeeperFinite
      <3>4. Cardinality(Deeper(O, a) \cup {p + 1}) = Cardinality(Deeper(O, a)) + 1
        BY <3>2, <3>3, FS_AddElement
      <3> QED BY <3>1, <3>3, <3>4
    <2>5. ASSUME NEW k \in a..p + 1, Lost(tx, Q, P, a, k) = {}
          PROVE  Count(tx, LBrace, a, k) > Count(tx, RBrace, a, k)
      <3>1. k \in a..p \/ k = p + 1 BY <2>1
      <3>2. CASE k \in a..p
        <4>1. k \in 0..p BY <3>2, <2>1
        <4> QED BY <3>2, <4>1, <1>2, <2>2, <2>5 DEF Opened
      <3>3. CASE k = p + 1
        <4>1. Lost(tx, O, P, a, p) = {} BY <3>3, <1>3, <2>1, <2>5
        <4>2. Count(tx, LBrace, a, p) > Count(tx, RBrace, a, p) BY <4>1, <2>1, <2>2 DEF Opened
        <4> QED BY <4>2, <3>3, <2>3
      <3> QED BY <3>1, <3>2, <3>3
    <2>6. ASSUME Lost(tx, Q, P, a, p + 1) = {}
          PROVE  Count(tx, LBrace, a, p + 1) = Count(tx, RBrace, a, p + 1) + Cardinality(Deeper(Q, a))
      <3>1. Lost(tx, O, P, a, p) = {} BY <1>3, <2>1, <2>6
      <3>2. Count(tx, LBrace, a, p) = Count(tx, RBrace, a, p) + Cardinality(Deeper(O, a))
        BY <3>1, <2>2 DEF Opened
      <3>3. \A c, d, n \in Nat : c = d + n => c + 1 = d + (n + 1) OBVIOUS
      <3>4. Count(tx, LBrace, a, p) + 1 = Count(tx, RBrace, a, p) + (Cardinality(Deeper(O, a)) + 1)
        BY <3>2, <3>3, <2>3, <2>4, Zenon
      <3> QED BY <3>4, <2>3, <2>4
    <2> QED BY <2>5, <2>6 DEF Opened
  <1>5. Opened(tx, p + 1, Q, P, p + 1)
    <2>1. p + 1 \in Nat /\ \A k \in p + 1..p + 1 : k = p + 1 OBVIOUS
    <2>2. Count(tx, LBrace, p + 1, p + 1) = 1 /\ Count(tx, RBrace, p + 1, p + 1) = 0
      <3>1. {i \in p + 1..p + 1 : tx[i] = LBrace} = {p + 1} BY <2>1
      <3>2. {i \in p + 1..p + 1 : tx[i] = RBrace} = {} BY <2>1, Unlike
      <3> QED BY <3>1, <3>2, FS_Singleton, FS_EmptySet DEF Count
    <2>3. Deeper(Q, p + 1) = {p + 1}
      <3>1. \A x \in O : ~(x >= p + 1) BY <1>1
      <3>2. p + 1 >= p + 1 OBVIOUS
      <3> QED BY <3>1, <3>2 DEF Deeper
    <2>4. Cardinality(Deeper(Q, p + 1)) = 1 BY <2>3, FS_Singleton
    <2> QED BY <2>1, <2>2, <2>4 DEF Opened
  <1>6. ASSUME NEW q \in P PROVE Closed(tx, Q, P, q)
    <2>1. q[2] \in 0..p BY <1>1
    <2>2. Closed(tx, O, P, q) BY DEF Kept
    <2>3. Lost(tx, Q, P, q[1], q[2]) = Lost(tx, O, P, q[1], q[2]) BY <2>1, <1>2
    <2> QED BY <2>2, <2>3 DEF Closed
  <1>7. /\ Q \subseteq 1..p + 1 /\ P \subseteq (1..p + 1) \X (1..p + 1)
        /\ \A q \in P : q[1] \notin Q
    BY <1>1
  <1> QED BY <1>4, <1>5, <1>6, <1>7 DEF Kept

(* The innermost open brace is closed.                                     *)
LEMMA KeptPair ==
  ASSUME NEW p \in Nat, NEW tx, NEW O, NEW P, Kept(tx, p, O, P), tx[p + 1] = RBrace,
         NEW o \in O, \A x \in O \ {o} : x < o
  PROVE  Kept(tx, p + 1, O \ {o}, P \cup {<<o, p + 1>>})
  <1> DEFINE Q == O \ {o}
             R == P \cup {<<o, p + 1>>}
  <1>1. /\ O \subseteq 1..p /\ P \subseteq (1..p) \X (1..p)
        /\ \A q \in P : q[1] \notin O
    BY DEF Kept
  <1>2. \A a, k : Lost(tx, Q, R, a, k) = Lost(tx, O, P, a, k)
    <2>1. \A i : (i \notin Q /\ \A q \in R : q[1] # i) <=> (i \notin O /\ \A q \in P : q[1] # i)
      <3>1. <<o, p + 1>>[1] = o OBVIOUS
      <3> QED BY <3>1
    <2> HIDE DEF Q, R
    <2> QED BY <2>1 DEF Lost
  <1>3. \A a \in Nat : Lost(tx, O, P, a, p + 1) = Lost(tx, O, P, a, p) BY Unlike DEF Lost
  <1>4. \A a \in O : a \in 1..p /\ a \in Nat /\ p \in a..p /\ a <= p + 1 BY <1>1
  <1>5. ASSUME NEW a \in O
        PROVE  /\ Count(tx, LBrace, a, p) \in Nat /\ Count(tx, RBrace, a, p) \in Nat
               /\ Count(tx, LBrace, a, p + 1) = Count(tx, LBrace, a, p)
               /\ Count(tx, RBrace, a, p + 1) = Count(tx, RBrace, a, p) + 1
    <2>1. a \in Nat /\ a <= p + 1 BY <1>4
    <2>2. Count(tx, LBrace, a, p) \in Nat /\ Count(tx, RBrace, a, p) \in Nat BY <2>1, CountNext
    <2>3. Count(tx, LBrace, a, p + 1) = Count(tx, LBrace, a, p) + (IF tx[p + 1] = LBrace THEN 1 ELSE 0)
      BY <2>1, CountNext
    <2>4. Count(tx, RBrace, a, p + 1) = Count(tx, RBrace, a, p) + (IF tx[p + 1] = RBrace THEN 1 ELSE 0)
      BY <2>1, CountNext
    <2> QED BY <2>2, <2>3, <2>4, Unlike
  <1>6. \A a \in O : Opened(tx, p, O, P, a) BY DEF Kept
  <1>7. ASSUME NEW a \in Q PROVE Opened(tx, p + 1, Q, R, a)
    <2>1. a \in O /\ a < o /\ o \in Nat /\ a \in Nat BY <1>4
    <2>2. /\ Cardinality(Deeper(Q, a)) \in Nat \ {0}
          /\ Cardinality(Deeper(O, a)) = Cardinality(Deeper(Q, a)) + 1
      <3> DEFINE D == Deeper(Q, a)
      <3>1. Deeper(O, a) = D \cup {o} BY <2>1 DEF Deeper
      <3>2. o \notin D /\ a \in D BY <2>1 DEF Deeper
      <3>3. IsFiniteSet(D) /\ Cardinality(D) \in Nat BY <1>1, DeeperFinite
      <3> HIDE DEF D
      <3>4. Cardinality(D) # 0 BY <3>2, <3>3, FS_EmptySet
      <3>5. Cardinality(D \cup {o}) = Cardinality(D) + 1 BY <3>2, <3>3, FS_AddElement
      <3>6. Cardinality(D) \in Nat \ {0} BY <3>3, <3>4
      <3> QED BY <3>1, <3>5, <3>6 DEF D
    <2>3. ASSUME Lost(tx, Q, R, a, p + 1) = {}
          PROVE  Count(tx, LBrace, a, p + 1) = Count(tx, RBrace, a, p + 1) + Cardinality(Deeper(Q, a))
      <3>1. Lost(tx, O, P, a, p) = {} BY <2>1, <2>3, <1>2, <1>3
      <3>2. Count(tx, LBrace, a, p) = Count(tx, RBrace, a, p) + Cardinality(Deeper(O, a))
        BY <2>1, <3>1, <1>6 DEF Opened
      <3>3. \A c, d, n \in Nat : c = d + (n + 1) => c = (d + 1) + n OBVIOUS
      <3>4. /\ Count(tx, LBrace, a, p) \in Nat /\ Count(tx, RBrace, a, p) \in Nat
            /\ Cardinality(Deeper(Q, a)) \in Nat
        BY <2>1, <2>2, <1>5
      <3>5. Count(tx, LBrace, a, p)
              = Count(tx, RBrace, a, p) + (Cardinality(Deeper(Q, a)) + 1)
        BY <3>2, <2>2
      <3> HIDE DEF Q
      <3>6. Count(tx, LBrace, a, p) = (Count(tx, RBrace, a, p) + 1) + Cardinality(Deeper(Q, a))
        BY <3>3, <3>4, <3>5, ZenonT(60)
      <3> QED BY <3>6, <2>1, <1>5
    <2>4. ASSUME NEW k \in a..p + 1, Lost(tx, Q, R, a, k) = {}
          PROVE  Count(tx, LBrace, a, k) > Count(tx, RBrace, a, k)
      <3>1. k \in a..p \/ k = p + 1 BY <2>1
      <3>2. CASE k \in a..p BY <3>2, <2>1, <2>4, <1>2, <1>6 DEF Opened
      <3>3. CASE k = p + 1
        <4>1. Count(tx, LBrace, a, k) = Count(tx, RBrace, a, k) + Cardinality(Deeper(Q, a))
          BY <3>3, <2>3, <2>4
        <4>2. Count(tx, RBrace, a, k) \in Nat BY <3>3, <2>1, <1>5
        <4>3. \A c : \A d \in Nat : \A n \in Nat \ {0} : c = d + n => c > d OBVIOUS
        <4> QED BY <4>1, <4>2, <4>3, <2>2
      <3> QED BY <3>1, <3>2, <3>3
    <2> QED BY <2>3, <2>4 DEF Opened
  <1>8. Closed(tx, Q, R, <<o, p + 1>>)
    <2>1. <<o, p + 1>>[1] = o /\ <<o, p + 1>>[2] = p + 1 OBVIOUS
    <2>2. ASSUME Lost(tx, O, P, o, p) = {} PROVE Matched(tx, o, p + 1)
      <3>1. o \in 1..p /\ o \in Nat /\ p + 1 - 1 = p BY <1>4
      <3>2. Deeper(O, o) = {o}
        <4>1. \A x \in O : x >= o => x = o BY <1>4
        <4>2. o >= o BY <3>1
        <4> QED BY <4>1, <4>2 DEF Deeper
      <3>3. Count(tx, LBrace, o, p) = Count(tx, RBrace, o, p) + 1
        <4>1. Cardinality(Deeper(O, o)) = 1 BY <3>2, FS_Singleton
        <4>2. Count(tx, LBrace, o, p) = Count(tx, RBrace, o, p) + Cardinality(Deeper(O, o))
          BY <2>2, <1>6 DEF Opened
        <4> QED BY <4>1, <4>2
      <3>4. Count(tx, LBrace, o, p + 1) = Count(tx, RBrace, o, p + 1) BY <3>3, <1>5
      <3>5. ASSUME NEW k \in o..(p + 1 - 1)
            PROVE  Count(tx, LBrace, o, k) # Count(tx, RBrace, o, k)
        <4>1. k \in o..p /\ k \in Nat BY <3>1
        <4>2. Lost(tx, O, P, o, k) \subseteq Lost(tx, O, P, o, p) BY <4>1, <3>1 DEF Lost
        <4>3. Count(tx, LBrace, o, k) > Count(tx, RBrace, o, k) BY <4>1, <4>2, <2>2, <1>6 DEF Opened
        <4>4. Count(tx, LBrace, o, k) \in Nat /\ Count(tx, RBrace, o, k) \in Nat
          BY <3>1, <4>1, CountNext
        <4> QED BY <4>3, <4>4
      <3> QED BY <3>4, <3>5 DEF Matched
    <2>3. Lost(tx, Q, R, o, p + 1) = Lost(tx, O, P, o, p) BY <1>2, <1>3, <1>4
    <2> QED BY <2>1, <2>2, <2>3 DEF Closed
  <1>9. \A q \in P : Closed(tx, Q, R, q)
    <2>1. \A q \in P : Closed(tx, O, P, q) BY DEF Kept
    <2> QED BY <2>1, <1>2 DEF Closed
  <1>10. /\ Q \subseteq 1..p + 1 /\ R \subseteq (1..p + 1) \X (1..p + 1)
         /\ \A q \in R : q[1] \notin Q
    <2>1. o \in 1..p + 1 /\ p + 1 \in 1..p + 1 BY <1>4
    <2> QED BY <2>1, <1>1
  <1> QED BY <1>7, <1>8, <1>9, <1>10 DEF Kept

-----------------------------------------------------------------------------
(* The invariant.                                                          *)

Place(src, tx, p, st) ==
    /\ src \in DOMAIN Sources /\ tx \in Seq(Kinds)
    /\ p \in 0..Len(tx) /\ (p > 0 => tx[p] # "eof")
    /\ StackOK(st, p)
    /\ st # <<>> /\ st[1].rule = "Compound" => p < Len(tx) /\ tx[p + 1] = LBrace

(* A token that was reported is behind the parser, or is skipped or        *)
(* matched next, or is the end of the text.                                *)
Leaves(tx, p, st) ==
    \/ tx[p + 1] = "eof"
    \/ st # <<>> /\ st[1].rule \in Syncs
    \/ st # <<>> /\ st[1].rule \in {"Block", "BlockEnd"} /\ tx[p + 1] = RBrace

Reports(tx, p, st, ds) ==
    /\ ds \in Seq(1..Len(tx))
    /\ \A i \in 1..Len(ds) :
         /\ ds[i] <= p \/ (ds[i] = p + 1 /\ Leaves(tx, p, st))
         /\ st # <<>> /\ st[1].rule = "FinishVarDecl" => ds[i] < p
    /\ \A i, j \in 1..Len(ds) : i # j /\ ds[i] = ds[j] => tx[ds[i]] = "eof"

ParserInv ==
    /\ Place(source, text, pos, stack)
    /\ Reports(text, pos, stack, diags)
    /\ Kept(text, pos, Open(stack), pairs)

(* A step that reports nothing.                                            *)
LEMMA Moved ==
  ASSUME NEW src, NEW tx, NEW p, NEW st, NEW ds, NEW n \in {0, 1}, NEW new,
         Place(src, tx, p, st), Reports(tx, p, st, ds), p + 1 <= Len(tx),
         StackOK(new, p + n),
         n = 1 => tx[p + 1] # "eof",
         n = 0 /\ Leaves(tx, p, st) => Leaves(tx, p, new),
         new # <<>> /\ new[1].rule = "Compound" => n = 0 /\ tx[p + 1] = LBrace,
         new # <<>> /\ new[1].rule = "FinishVarDecl" => n = 1 /\ ~Leaves(tx, p, st)
  PROVE  Place(src, tx, p + n, new) /\ Reports(tx, p + n, new, ds)
  <1>1. p \in Nat /\ Len(tx) \in Nat /\ p + n \in 0..Len(tx) BY LenProperties DEF Place
  <1>2. Place(src, tx, p + n, new)
    <2>1. p + n > 0 => tx[p + n] # "eof"
      <3>1. CASE n = 0
        <4>1. p + n = p BY <3>1, <1>1
        <4> QED BY <4>1 DEF Place
      <3>2. CASE n = 1 BY <3>2
      <3> QED BY <3>1, <3>2
    <2>2. new # <<>> /\ new[1].rule = "Compound" => p + n < Len(tx) /\ tx[p + n + 1] = LBrace
      <3> SUFFICES ASSUME new # <<>> /\ new[1].rule = "Compound"
                   PROVE  p + n < Len(tx) /\ tx[p + n + 1] = LBrace
        OBVIOUS
      <3>1. n = 0 /\ tx[p + 1] = LBrace OBVIOUS
      <3>2. p + n < Len(tx) /\ p + n + 1 = p + 1 BY <3>1, <1>1
      <3> QED BY <3>1, <3>2
    <2> QED BY <2>1, <2>2, <1>1 DEF Place
  <1>3. ds \in Seq(1..Len(tx)) BY DEF Reports
  <1>4. ASSUME NEW i \in 1..Len(ds)
        PROVE  /\ ds[i] <= p + n \/ (ds[i] = p + n + 1 /\ Leaves(tx, p + n, new))
               /\ new # <<>> /\ new[1].rule = "FinishVarDecl" => ds[i] < p + n
    <2>1. ds[i] <= p \/ (ds[i] = p + 1 /\ Leaves(tx, p, st)) BY DEF Reports
    <2>2. ds[i] \in 1..Len(tx) BY <1>3, ElementOfSeq
    <2>3. CASE n = 0
      <3>1. p + n = p /\ ~(new # <<>> /\ new[1].rule = "FinishVarDecl") BY <2>3, <1>1
      <3> QED BY <3>1, <2>1, <2>3
    <2>4. CASE n = 1
      <3>1. ds[i] <= p + n BY <2>1, <2>2, <2>4, <1>1
      <3>2. ~Leaves(tx, p, st) => ds[i] < p + n BY <2>1, <2>2, <2>4, <1>1
      <3> QED BY <3>1, <3>2, <2>4
    <2> QED BY <2>3, <2>4
  <1>5. \A i, j \in 1..Len(ds) : i # j /\ ds[i] = ds[j] => tx[ds[i]] = "eof" BY DEF Reports
  <1> QED BY <1>2, <1>3, <1>4, <1>5 DEF Reports

Moves(n, front) ==
    /\ pos' = pos + n /\ stack' = front \o Tail(stack)
    /\ source' = source /\ text' = text /\ diags' = diags /\ pairs' = pairs

Ordinary == Tok # "eof" /\ Tok # LBrace /\ Tok # RBrace

LEMMA DoMoves ==
  ASSUME NEW n, NEW front, NEW nodes, Do(n, front, nodes)
  PROVE  Moves(n, front)
  BY DEF Do, Step, Moves

(* What the steps start from.                                              *)
LEMMA Before ==
  ASSUME ParserInv, Ready
  PROVE  /\ stack # <<>> /\ pos \in Nat /\ pos + 1 <= Len(text) /\ Len(text) \in Nat
         /\ StackOK(stack, pos) /\ stack \in Seq(Frames) /\ Top = stack[1]
         /\ Top \in Frames /\ Top.n \in Nat /\ Top.sym \in Syms
         /\ FrameOK(Top, pos) /\ Tok \in Kinds
         /\ Top.rule = "Run" <=> Tail(stack) = <<>>
         /\ Tail(stack) # <<>> => /\ Tail(stack)[1] = stack[2] /\ Above(Top, stack[2])
                                  /\ stack[2] \in Frames /\ Len(stack) > 1
         /\ StackOK(Tail(stack), pos)
         /\ Top.rule \notin Openers => Open(Tail(stack)) = Open(stack)
  <1>1. stack # <<>> /\ StackOK(stack, pos) /\ pos \in 0..Len(text) /\ text \in Seq(Kinds)
    BY DEF Ready, ParserInv, Place
  <1>2. Len(text) \in Nat /\ pos \in Nat BY <1>1, LenProperties
  <1>3. pos + 1 <= Len(text) BY <1>2 DEF Ready, Ahead
  <1>4. Tok \in Kinds
    <2>1. pos + 1 \in 1..Len(text) BY <1>2, <1>3
    <2> QED BY <2>1, <1>1, ElementOfSeq DEF Tok
  <1>5. /\ Len(stack) \in Nat \ {0} /\ Top = stack[1] /\ Top \in Frames /\ Top.n \in Nat
        /\ \A i \in 1..Len(stack) : stack[i] \in Frames
        /\ Top.rule = "Run" <=> Len(stack) = 1
    BY <1>1, StackFacts DEF Top
  <1>6. Top.sym \in Syms BY <1>5 DEF Frames
  <1>7. FrameOK(Top, pos)
    <2>1. 1 \in 1..Len(stack) BY <1>5
    <2> QED BY <2>1, <1>1, <1>5 DEF StackOK
  <1>8. /\ StackOK(Tail(stack), pos)
        /\ stack[1].rule \notin Openers => Open(Tail(stack)) = Open(stack)
        /\ IF stack[1].rule = "Run" THEN Tail(stack) = <<>>
           ELSE Tail(stack) # <<>> /\ Tail(stack)[1] = stack[2] /\ Above(stack[1], Tail(stack)[1])
    BY <1>1, Returned
  <1>9. Tail(stack) # <<>> => 2 \in 1..Len(stack) /\ Len(stack) > 1
    <2>1. Tail(stack) # <<>> => Len(stack) # 1 BY <1>5, <1>8
    <2> QED BY <2>1, <1>5
  <1> QED BY <1>1, <1>2, <1>3, <1>4, <1>5, <1>6, <1>7, <1>8, <1>9 DEF StackOK

(* A step of the innermost activation that reports nothing and pairs       *)
(* nothing.                                                                *)
LEMMA Stepped ==
  ASSUME ParserInv, Ready, NEW n \in {0, 1}, NEW front, Moves(n, front),
         StackOK(front \o Tail(stack), pos + n),
         Kept(text, pos + n, Open(front \o Tail(stack)), pairs),
         n = 1 => Tok # "eof",
         n = 0 /\ Leaves(text, pos, stack) => Leaves(text, pos, front \o Tail(stack)),
         front # <<>> => /\ (front \o Tail(stack))[1] = front[1]
                         /\ front[1].rule = "Compound" => n = 0 /\ Tok = LBrace
                         /\ front[1].rule = "FinishVarDecl" => n = 1 /\ ~Leaves(text, pos, stack),
         front = <<>> => front \o Tail(stack) = Tail(stack)
  PROVE  ParserInv'
  <1> DEFINE new == front \o Tail(stack)
  <1>1. pos + 1 <= Len(text) BY Before
  <1>2. Place(source, text, pos, stack) /\ Reports(text, pos, stack, diags) BY DEF ParserInv
  <1>3. new # <<>> => \/ front # <<>>
                      \/ new[1].rule \notin TopOnly
    <2> SUFFICES ASSUME front = <<>>, new # <<>> PROVE new[1].rule \notin TopOnly
      OBVIOUS
    <2>1. Tail(stack) # <<>> /\ new[1] = Tail(stack)[1] OBVIOUS
    <2>2. Tail(stack)[1] = stack[2] /\ Above(Top, stack[2]) BY <2>1, Before
    <2> QED BY <2>1, <2>2 DEF Above
  <1>4. /\ new # <<>> /\ new[1].rule = "Compound" => n = 0 /\ Tok = LBrace
        /\ new # <<>> /\ new[1].rule = "FinishVarDecl" => n = 1 /\ ~Leaves(text, pos, stack)
    BY <1>3 DEF TopOnly
  <1>5. StackOK(new, pos + n) /\ Kept(text, pos + n, Open(new), pairs)
        /\ (n = 0 /\ Leaves(text, pos, stack) => Leaves(text, pos, new))
    OBVIOUS
  <1>6. pos' = pos + n /\ stack' = new /\ source' = source /\ text' = text /\ diags' = diags
        /\ pairs' = pairs
    BY DEF Moves
  <1> HIDE DEF new
  <1>7. Place(source, text, pos + n, new) /\ Reports(text, pos + n, new, diags)
    BY <1>1, <1>2, <1>4, <1>5, Moved DEF Tok
  <1> QED BY <1>5, <1>6, <1>7 DEF ParserInv

(* An activation that is no loop and holds no brace goes on.               *)
Midway == Top.rule \notin Syncs \cup Loops \cup Openers

Goes ==
    \E n \in {0, 1} : \E front \in Seq(Plain) : Moves(n, front) /\ (n = 1 => Ordinary)

LEMMA GoesOn ==
  ASSUME ParserInv, Ready, Midway, Goes
  PROVE  ParserInv'
  <1>1. PICK n \in {0, 1} : \E front \in Seq(Plain) : Moves(n, front) /\ (n = 1 => Ordinary)
    BY DEF Goes
  <1>2. PICK front \in Seq(Plain) : Moves(n, front) /\ (n = 1 => Ordinary) BY <1>1
  <1> DEFINE rest == Tail(stack)
  <1>3. /\ pos \in Nat /\ StackOK(rest, pos) /\ rest # <<>> /\ rest[1].rule \notin TopOnly
        /\ Open(rest) = Open(stack) /\ pos + n \in Nat /\ pos <= pos + n
    BY Before, SMTT(60) DEF Midway, Loops, Above
  <1> HIDE DEF rest
  <1>4. /\ StackOK(front \o rest, pos) /\ Open(front \o rest) = Open(rest)
        /\ (front # <<>> => (front \o rest)[1] = front[1])
    BY <1>3, PlainPushed
  <1>5. StackOK(front \o rest, pos + n) BY <1>3, <1>4, StackLater
  <1>6. Kept(text, pos + n, Open(front \o rest), pairs)
    <2>1. Kept(text, pos, Open(front \o rest), pairs) BY <1>3, <1>4 DEF ParserInv
    <2>2. CASE n = 0
      <3>1. pos + n = pos BY <2>2, <1>3
      <3> QED BY <3>1, <2>1
    <2>3. CASE n = 1
      <3>1. text[pos + 1] # RBrace BY <2>3, <1>2 DEF Ordinary, Tok
      <3>2. Kept(text, pos + 1, Open(front \o rest), pairs) BY <2>1, <3>1, <1>3, KeptSkip
      <3> QED BY <3>2, <2>3
    <2> QED BY <2>2, <2>3
  <1>7. Leaves(text, pos, stack) => Leaves(text, pos, front \o rest)
    <2>1. Leaves(text, pos, stack) => text[pos + 1] = "eof"
      BY Before DEF Leaves, Midway, Loops, Openers
    <2> QED BY <2>1 DEF Leaves
  <1>8. front # <<>> => front[1].rule \notin TopOnly
    <2> SUFFICES ASSUME front # <<>> PROVE front[1].rule \notin TopOnly
      OBVIOUS
    <2>1. 1 \in 1..Len(front) BY EmptySeq
    <2>2. front[1] \in Plain BY <2>1, ElementOfSeq
    <2> QED BY <2>2 DEF Plain
  <1>9. front = <<>> => front \o rest = rest
    <2>1. rest \in Seq(Frames) BY <1>3 DEF StackOK
    <2> QED BY <2>1, ConcatEmptySeq
  <1>10. /\ n = 1 => Tok # "eof"
         /\ front[1].rule \notin TopOnly =>
              front[1].rule # "Compound" /\ front[1].rule # "FinishVarDecl"
    BY <1>2 DEF Ordinary, TopOnly
  <1> QED BY <1>2, <1>4, <1>5, <1>6, <1>7, <1>8, <1>9, <1>10, Stepped DEF rest

(* An error, and what synchronize does before it looks for the next        *)
(* statement or declaration.                                               *)
Breaks == \E n \in {0, 1} : Fail(n, pos + 1) /\ (n = 1 => Ordinary)

LEMMA FrameFacts ==
  ASSUME NEW r \in Rules, NEW n \in Nat, NEW s \in Syms
  PROVE  /\ Frame(r, n, s) \in Frames
         /\ Frame(r, n, s).rule = r /\ Frame(r, n, s).n = n /\ Frame(r, n, s).sym = s
  BY DEF Frame, Frames

LEMMA CallFacts ==
  ASSUME NEW r \in Rules
  PROVE  F(r) \in Frames /\ F(r).rule = r /\ F(r).n = 0
  <1>1. "" \in Syms BY Zenon DEF Syms
  <1>2. \A s \in Syms : Frame(r, 0, s) \in Frames /\ Frame(r, 0, s).rule = r /\ Frame(r, 0, s).n = 0
    BY FrameFacts
  <1> QED BY <1>1, <1>2, Zenon DEF F

LEMMA Recovers ==
  ASSUME ParserInv, Ready, NEW n \in {0, 1}, NEW at, Fail(n, at)
  PROVE  \E i \in 1..Len(stack) :
           /\ stack[i].rule \in Loops
           /\ \/ pos' = pos + n
              \/ /\ pos' = pos + n + 1 /\ pos + n = stack[i].n
                 /\ Tok # "eof" /\ (stack[i].rule = "Run" \/ Tok # RBrace)
           /\ stack' = <<F(IF stack[i].rule = "Run" THEN "SyncTopLevel" ELSE "SyncStatement")>>
                       \o SubSeq(stack, i, Len(stack))
           /\ diags' = Append(diags, at)
           /\ source' = source /\ text' = text /\ pairs' = pairs
  <1> DEFINE I == {j \in 1..Len(stack) : stack[j].rule \in {"Run", "Block"}}
             i == SelectInSeq(stack, LAMBDA f : f.rule \in {"Run", "Block"})
  <1>1. i \in I
    <2>1. Len(stack) \in I
      <3>1. stack # <<>> /\ StackOK(stack, pos) BY Before
      <3>2. Len(stack) \in Nat \ {0} BY <3>1, StackFacts
      <3> QED BY <3>1, <3>2 DEF StackOK
    <2>2. \E j \in I : \A k \in I : j <= k
      <3>1. Len(stack) \in Nat BY <2>1
      <3>2. I \subseteq Nat /\ I # {} BY <2>1
      <3>3. PICK j \in I : \A k \in I : <<k, j>> \notin OpToRel(<, Nat)
        BY <3>2, WFMin, NatLessThanWellFounded
      <3>4. ASSUME NEW k \in I PROVE j <= k
        <4>1. k \in Nat /\ j \in Nat BY <3>2
        <4>2. <<k, j>> \in Nat \X Nat /\ <<k, j>>[1] = k /\ <<k, j>>[2] = j BY <4>1
        <4>3. <<k, j>> \notin OpToRel(<, Nat) BY <3>3, <3>4
        <4>4. ~(k < j) BY <4>2, <4>3 DEF OpToRel
        <4> QED BY <4>1, <4>4
      <3> QED BY <3>4
    <2>3. i = CHOOSE j \in I : \A k \in I : j <= k BY <2>1, Zenon DEF SelectInSeq, Min
    <2> QED BY <2>2, <2>3, Zenon
  <1>2. /\ pos' = IF pos + n = stack[i].n
                     /\ Tok \notin ({"eof"} \cup IF stack[i].rule = "Run" THEN {} ELSE {"}"})
                  THEN pos + n + 1 ELSE pos + n
        /\ stack' = <<F(IF stack[i].rule = "Run" THEN "SyncTopLevel" ELSE "SyncStatement")>>
                    \o SubSeq(stack, i, Len(stack))
        /\ diags' = Append(diags, at)
        /\ source' = source /\ text' = text /\ pairs' = pairs
    BY Zenon DEF Fail
  <1> HIDE DEF i
  <1>3. \/ pos' = pos + n
        \/ /\ pos' = pos + n + 1 /\ pos + n = stack[i].n
           /\ Tok # "eof" /\ (stack[i].rule = "Run" \/ Tok # RBrace)
    BY <1>2, Zenon DEF RBrace
  <1>4. i \in 1..Len(stack) /\ stack[i].rule \in Loops BY <1>1 DEF Loops
  <1> QED BY <1>2, <1>3, <1>4, Zenon

LEMMA Broken ==
  ASSUME ParserInv, Ready, NEW n \in {0, 1}, NEW at, Fail(n, at), n = 1 => Ordinary,
         \/ at = pos + 1 /\ (Leaves(text, pos, stack) => Tok = "eof")
         \/ at = pos /\ At("FinishVarDecl")
  PROVE  ParserInv'
  <1>1. PICK i \in 1..Len(stack) :
           /\ stack[i].rule \in Loops
           /\ \/ pos' = pos + n
              \/ /\ pos' = pos + n + 1 /\ pos + n = stack[i].n
                 /\ Tok # "eof" /\ (stack[i].rule = "Run" \/ Tok # RBrace)
           /\ stack' = <<F(IF stack[i].rule = "Run" THEN "SyncTopLevel" ELSE "SyncStatement")>>
                       \o SubSeq(stack, i, Len(stack))
           /\ diags' = Append(diags, at)
           /\ source' = source /\ text' = text /\ pairs' = pairs
    BY Recovers
  <1> DEFINE rest == SubSeq(stack, i, Len(stack))
             sync == F(IF stack[i].rule = "Run" THEN "SyncTopLevel" ELSE "SyncStatement")
             m == IF pos' = pos THEN 0 ELSE 1
  <1>2. /\ pos \in Nat /\ pos + 1 <= Len(text) /\ Len(text) \in Nat /\ StackOK(stack, pos)
        /\ stack # <<>> /\ Top = stack[1] /\ FrameOK(Top, pos)
    BY Before
  <1>3. stack[i].n \in Nat /\ stack[i].n <= pos
    <2>1. FrameOK(stack[i], pos) BY <1>2 DEF StackOK
    <2>2. stack[i].n \in Nat BY <1>2, StackFacts
    <2> QED BY <2>1, <2>2, <1>1 DEF FrameOK
  <1>4. /\ m \in {0, 1} /\ pos' = pos + m
        /\ m = 1 => Tok # "eof" /\ (Tok # RBrace \/ stack[i].rule = "Run")
    <2>1. CASE n = 0
      <3>1. pos + n = pos BY <2>1, <1>2
      <3> QED BY <3>1, <1>1, <1>2
    <2>2. CASE n = 1
      <3>1. pos + n # stack[i].n BY <2>2, <1>2, <1>3
      <3>2. pos' = pos + 1 /\ Ordinary BY <3>1, <2>2, <1>1
      <3> QED BY <3>2, <1>2 DEF Ordinary
    <2> QED BY <2>1, <2>2
  <1>5. /\ StackOK(rest, pos) /\ rest # <<>> /\ rest[1] = stack[i]
        /\ Open(rest) \subseteq Open(stack)
        /\ \A x \in Open(stack) \ Open(rest), y \in Open(rest) : x > y
        /\ stack[i].rule = "Run" => Open(rest) = {}
    BY <1>2, Unwound
  <1> HIDE DEF rest, m
  <1>6. /\ sync \in Frames
        /\ sync.rule = IF stack[i].rule = "Run" THEN "SyncTopLevel" ELSE "SyncStatement"
    <2> DEFINE r == IF stack[i].rule = "Run" THEN "SyncTopLevel" ELSE "SyncStatement"
    <2>1. r \in Rules BY DEF Rules
    <2> HIDE DEF r
    <2>2. F(r) \in Frames /\ F(r).rule = r BY <2>1, CallFacts
    <2> QED BY <2>2 DEF r
  <1>7. /\ StackOK(<<sync>> \o rest, pos) /\ <<sync>> \o rest # <<>>
        /\ (<<sync>> \o rest)[1] = sync /\ Open(<<sync>> \o rest) = Open(rest)
    <2>1. sync \in Frames /\ sync.rule \in Syncs BY <1>6 DEF Syncs
    <2>2. FrameOK(sync, pos) /\ sync.rule \notin Openers
      BY <2>1 DEF FrameOK, Syncs, Loops, Openers
    <2>3. Above(sync, rest[1]) BY <1>1, <1>5, <1>6 DEF Above, Loops, TopOnly, Syncs
    <2> HIDE DEF sync
    <2>4. <<sync>> \o rest # <<>> /\ StackOK(<<sync>> \o rest, pos)
          /\ (<<sync>> \o rest)[1] = sync
          /\ Open(<<sync>> \o rest)
               = Open(rest) \cup (IF sync.rule \in Openers THEN {sync.n} ELSE {})
      BY <2>1, <2>2, <2>3, <1>2, <1>5, Pushed
    <2> QED BY <2>2, <2>4
  <1> DEFINE new == <<sync>> \o rest
  <1>8. new # <<>> /\ new[1].rule \in Syncs BY <1>6, <1>7 DEF Syncs
  <1>9. stack' = new BY <1>1 DEF rest
  <1>10. Kept(text, pos + m, Open(new), pairs)
    <2>1. Kept(text, pos, Open(stack), pairs) BY DEF ParserInv
    <2>2. Kept(text, pos, Open(rest), pairs) BY <2>1, <1>2, <1>5, KeptDrop
    <2>3. CASE m = 0
      <3>1. pos + m = pos BY <2>3, <1>2
      <3> QED BY <3>1, <2>2, <1>7
    <2>4. CASE m = 1
      <3>1. text[pos + 1] # RBrace \/ Open(rest) = {} BY <2>4, <1>4, <1>5 DEF Tok
      <3>2. Kept(text, pos + 1, Open(rest), pairs) BY <3>1, <2>2, <1>2, KeptSkip
      <3> QED BY <3>2, <2>4, <1>7
    <2> QED BY <2>3, <2>4, <1>4
  <1>11. StackOK(new, pos + m)
    <2>1. pos + m \in Nat /\ pos <= pos + m BY <1>2, <1>4
    <2> QED BY <2>1, <1>2, <1>7, StackLater
  <1> HIDE DEF new
  <1>12. Place(source, text, pos, stack) /\ Reports(text, pos, stack, diags) BY DEF ParserInv
  <1>13. Place(source, text, pos + m, new)
    <2>1. pos + m \in 0..Len(text) BY <1>2, <1>4
    <2>2. pos + m > 0 => text[pos + m] # "eof"
      <3>1. CASE m = 0
        <4>1. pos + m = pos BY <3>1, <1>2
        <4> QED BY <4>1, <1>12 DEF Place
      <3>2. CASE m = 1 BY <3>2, <1>4 DEF Tok
      <3> QED BY <3>1, <3>2, <1>4
    <2>3. new[1].rule # "Compound" BY <1>8 DEF Syncs
    <2> QED BY <2>1, <2>2, <2>3, <1>11, <1>12 DEF Place
  <1>14. Reports(text, pos + m, new, Append(diags, at))
    <2> DEFINE ds == Append(diags, at)
    <2>1. diags \in Seq(1..Len(text)) BY <1>12 DEF Reports
    <2>2. at \in 1..Len(text) BY <1>2 DEF FrameOK, At
    <2>3. /\ ds \in Seq(1..Len(text)) /\ Len(ds) = Len(diags) + 1 /\ Len(diags) \in Nat
          /\ \A k \in 1..Len(diags) : ds[k] = diags[k]
          /\ ds[Len(diags) + 1] = at
      BY <2>1, <2>2, AppendProperties, LenProperties
    <2> HIDE DEF ds
    <2>4. \A k \in 1..Len(diags) : /\ diags[k] <= pos \/ (diags[k] = pos + 1 /\ Leaves(text, pos, stack))
                                   /\ Top.rule = "FinishVarDecl" => diags[k] < pos
                                   /\ diags[k] \in 1..Len(text)
      <3>1. \A k \in 1..Len(diags) : diags[k] \in 1..Len(text) BY <2>1, ElementOfSeq
      <3> QED BY <3>1, <1>2, <1>12 DEF Reports
    <2>5. \A k \in 1..Len(ds) : k \in 1..Len(diags) \/ (k = Len(diags) + 1 /\ ds[k] = at)
      BY <2>3
    <2>6. ASSUME NEW k \in 1..Len(ds) PROVE ds[k] <= pos + m \/ ds[k] = pos + m + 1
      <3>1. at \in Nat /\ at <= pos + 1 BY <1>2, <2>2
      <3>2. \A l \in 1..Len(diags) : diags[l] \in Nat /\ diags[l] <= pos + 1 BY <2>4, <1>2
      <3>3. ds[k] \in Nat /\ ds[k] <= pos + 1 BY <3>1, <3>2, <2>3, <2>5
      <3> QED BY <3>3, <1>2, <1>4
    <2>7. ASSUME NEW k \in 1..Len(diags), diags[k] = at PROVE text[at] = "eof"
      <3>1. CASE at = pos + 1 /\ (Leaves(text, pos, stack) => Tok = "eof")
        <4>1. ~(diags[k] <= pos) BY <3>1, <2>7, <1>2
        <4> QED BY <4>1, <3>1, <2>4, <2>7 DEF Tok
      <3>2. CASE at = pos /\ At("FinishVarDecl")
        <4>1. diags[k] < pos BY <3>2, <2>4 DEF At
        <4> QED BY <4>1, <3>2, <2>7, <1>2
      <3> QED BY <3>1, <3>2
    <2>8. ASSUME NEW k \in 1..Len(ds), NEW l \in 1..Len(ds), k # l, ds[k] = ds[l]
          PROVE  text[ds[k]] = "eof"
      <3>1. CASE k \in 1..Len(diags) /\ l \in 1..Len(diags)
        BY <3>1, <2>3, <2>8, <1>12 DEF Reports
      <3>2. CASE k \in 1..Len(diags) /\ l \notin 1..Len(diags)
        BY <3>2, <2>3, <2>5, <2>7, <2>8
      <3>3. CASE k \notin 1..Len(diags) /\ l \in 1..Len(diags)
        BY <3>3, <2>3, <2>5, <2>7, <2>8
      <3> QED BY <3>1, <3>2, <3>3, <2>5, <2>8
    <2>9. new[1].rule # "FinishVarDecl" /\ Leaves(text, pos + m, new)
      BY <1>8 DEF Syncs, Leaves
    <2> QED BY <2>3, <2>6, <2>8, <2>9 DEF Reports, ds
  <1> QED BY <1>1, <1>4, <1>9, <1>10, <1>13, <1>14 DEF ParserInv

-----------------------------------------------------------------------------
(* The methods whose frames are plain.                                     *)

LEMMA PlainFrames ==
  /\ \A r \in {"ExternalDecl", "ExternalDeclarator", "FunctionRest", "ExternalComma",
               "LocalComma", "LocalDeclarator", "Initializer", "Statement", "ReturnValue",
               "Condition", "Else", "Assignment", "Binary", "Unary", "SizeOf", "TypeName",
               "Postfix", "Args", "ArgsRest", "Primary", "Strings", "Semi", "Emit"} :
       F(r) \in Plain /\ \A n \in Nat : \A s \in Syms : Frame(r, n, s) \in Plain
  /\ Expect(")") \in Plain /\ Expect("]") \in Plain
  /\ \A s \in Syms : Emit(s) \in Plain /\ Semi(s) \in Plain
  <1> DEFINE R == Rules \ (TopOnly \cup Openers \cup Loops \cup {"DeclSpec", "Expect"})
  <1>1. \A r \in R : F(r) \in Plain /\ \A n \in Nat : \A s \in Syms : Frame(r, n, s) \in Plain
    <2> SUFFICES ASSUME NEW r \in R
                 PROVE  F(r) \in Plain /\ \A n \in Nat : \A s \in Syms : Frame(r, n, s) \in Plain
      OBVIOUS
    <2>1. \A f \in Frames : f.rule = r => f \in Plain BY DEF Plain
    <2>2. \A n \in Nat : \A s \in Syms : Frame(r, n, s) \in Frames /\ Frame(r, n, s).rule = r
      BY FrameFacts
    <2>3. F(r) \in Frames /\ F(r).rule = r BY CallFacts
    <2> QED BY <2>1, <2>2, <2>3
  <1>2. /\ "ExternalDecl" \in R /\ "ExternalDeclarator" \in R /\ "FunctionRest" \in R
        /\ "ExternalComma" \in R /\ "LocalComma" \in R /\ "LocalDeclarator" \in R
        /\ "Initializer" \in R /\ "Statement" \in R /\ "ReturnValue" \in R
        /\ "Condition" \in R /\ "Else" \in R /\ "Assignment" \in R /\ "Binary" \in R
        /\ "Unary" \in R /\ "SizeOf" \in R /\ "TypeName" \in R /\ "Postfix" \in R
        /\ "Args" \in R /\ "ArgsRest" \in R /\ "Primary" \in R /\ "Strings" \in R
        /\ "Semi" \in R /\ "Emit" \in R
    BY DEF Rules, TopOnly, Syncs, Openers, Loops
  <1>3. Expect(")") \in Plain /\ Expect("]") \in Plain
    <2>1. /\ \A s \in Syms : /\ Frame("Expect", 0, s) \in Frames
                             /\ Frame("Expect", 0, s).rule = "Expect"
                             /\ Frame("Expect", 0, s).sym = s
      <3>1. "Expect" \in Rules BY DEF Rules
      <3> QED BY <3>1, FrameFacts
    <2>2. ")" \in Syms /\ "]" \in Syms BY Zenon DEF Syms
    <2>3. \A f \in Frames : f.rule = "Expect" /\ f.sym \in {")", "]"} => f \in Plain
      BY DEF Plain, TopOnly, Syncs, Openers, Loops
    <2> QED BY <2>1, <2>2, <2>3 DEF Expect
  <1> HIDE DEF R
  <1>4. \A s \in Syms : Emit(s) \in Plain /\ Semi(s) \in Plain BY <1>1, <1>2 DEF Emit, Semi
  <1> QED BY <1>1, <1>2, <1>3, <1>4

LEMMA PlainLists ==
  /\ <<>> \in Seq(Plain) /\ Expr \in Seq(Plain)
  /\ \A a \in Plain : <<a>> \in Seq(Plain) /\ Expr \o <<a>> \in Seq(Plain)
  /\ \A a \in Plain : \A b \in Plain : <<a, b>> \in Seq(Plain)
  /\ \A a \in Plain : \A b \in Plain : \A c \in Plain :
       <<a, b, c>> \in Seq(Plain) /\ Expr \o <<a, b, c>> \in Seq(Plain)
  /\ \A a \in Plain : \A b \in Plain : \A c \in Plain : \A d \in Plain :
       <<a, b, c, d>> \in Seq(Plain)
  <1>1. <<>> \in Seq(Plain) OBVIOUS
  <1>2. \A a \in Plain : <<a>> \in Seq(Plain) OBVIOUS
  <1>3. \A a \in Plain : \A b \in Plain : <<a, b>> \in Seq(Plain) OBVIOUS
  <1>4. \A a \in Plain : \A b \in Plain : \A c \in Plain : <<a, b, c>> \in Seq(Plain) OBVIOUS
  <1>5. \A a \in Plain : \A b \in Plain : \A c \in Plain : \A d \in Plain :
          <<a, b, c, d>> \in Seq(Plain)
    OBVIOUS
  <1>6. Expr \in Seq(Plain)
    <2>1. "" \in Syms BY Zenon DEF Syms
    <2>2. \A s \in Syms : Frame("Binary", 1, s) \in Plain BY PlainFrames
    <2>3. Frame("Binary", 1, "") \in Plain BY <2>1, <2>2, Zenon
    <2>4. F("Unary") \in Plain /\ F("Assignment") \in Plain BY PlainFrames
    <2> QED BY <2>3, <2>4, <1>4, Zenon DEF Expr
  <1>7. \A s \in Seq(Plain) : Expr \o s \in Seq(Plain) BY <1>6, ConcatProperties
  <1> QED BY <1>1, <1>2, <1>3, <1>4, <1>5, <1>6, <1>7

LEMMA SixLevels ==
  ASSUME NEW a, NEW b, NEW c, NEW d, NEW e, NEW f, NEW L, L = <<a, b, c, d, e, f>>
  PROVE  DOMAIN L = 1..6 /\ \A l \in DOMAIN L : L[l] \in {a, b, c, d, e, f}
  <1>1. DOMAIN L = 1..6 OBVIOUS
  <1>2. ASSUME NEW l \in 1..6 PROVE L[l] \in {a, b, c, d, e, f}
    <2>1. l = 1 \/ l = 2 \/ l = 3 \/ l = 4 \/ l = 5 \/ l = 6 OBVIOUS
    <2>2. /\ L[1] = a /\ L[2] = b /\ L[3] = c /\ L[4] = d /\ L[5] = e /\ L[6] = f
      OBVIOUS
    <2> QED BY <2>1, <2>2
  <1> QED BY <1>1, <1>2

LEMMA Operators ==
  /\ BinaryOps \subseteq {"||", "&&", "==", "!=", "<", ">", "<=", ">=", "+", "-", "*", "/", "%"}
  /\ \A kind \in BinaryOps : BinaryInfo(kind) \in Nat
  <1>1. /\ DOMAIN Levels = 1..6
        /\ \A l \in DOMAIN Levels :
             Levels[l] \in {{"||"}, {"&&"}, {"==", "!="}, {"<", ">", "<=", ">="}, {"+", "-"},
                           {"*", "/", "%"}}
    BY SixLevels, Zenon DEF Levels
  <1>2. BinaryOps \subseteq {"||", "&&", "==", "!=", "<", ">", "<=", ">=", "+", "-", "*", "/", "%"}
    <2> SUFFICES ASSUME NEW kind \in BinaryOps
                 PROVE  kind \in {"||", "&&", "==", "!=", "<", ">", "<=", ">=", "+", "-", "*",
                                 "/", "%"}
      BY Zenon
    <2>1. PICK l \in DOMAIN Levels : kind \in Levels[l] BY Zenon DEF BinaryOps
    <2>2. \/ Levels[l] = {"||"} \/ Levels[l] = {"&&"} \/ Levels[l] = {"==", "!="}
          \/ Levels[l] = {"<", ">", "<=", ">="} \/ Levels[l] = {"+", "-"}
          \/ Levels[l] = {"*", "/", "%"}
      BY <1>1, Zenon
    <2>3. \/ kind \in {"||"} \/ kind \in {"&&"} \/ kind \in {"==", "!="}
          \/ kind \in {"<", ">", "<=", ">="} \/ kind \in {"+", "-"} \/ kind \in {"*", "/", "%"}
      BY <2>1, <2>2, Zenon
    <2> QED BY <2>3, Zenon
  <1>3. ASSUME NEW kind \in BinaryOps PROVE BinaryInfo(kind) \in Nat
    <2>1. PICK l \in DOMAIN Levels : kind \in Levels[l] BY <1>3, Zenon DEF BinaryOps
    <2>2. BinaryInfo(kind) \in DOMAIN Levels BY <2>1, Zenon DEF BinaryInfo
    <2>3. \A m \in 1..6 : m \in Nat OBVIOUS
    <2> QED BY <1>1, <2>2, <2>3, Zenon
  <1> QED BY <1>2, <1>3

LEMMA OrdinaryKinds ==
  ASSUME Tok \in {"int", "void", "const", "x", "f()", "1", "1e", "s", "s!", "(", ")", "[",
                  "]", ",", ";", "=", "sizeof", "else", "if", "while", "return", "break",
                  "continue"} \cup BinaryOps \cup UnaryOps
  PROVE  Ordinary
  BY Operators, Zenon DEF Ordinary, LBrace, RBrace, UnaryOps

LEMMA GoesBy ==
  ASSUME NEW n \in {0, 1}, NEW front \in Seq(Plain), NEW nodes, Do(n, front, nodes),
         n = 1 => Ordinary
  PROVE  Goes
  BY DoMoves DEF Goes

LEMMA BreaksOff ==
  ASSUME ParserInv, Ready, Midway, Breaks
  PROVE  ParserInv'
  <1>1. PICK n \in {0, 1} : Fail(n, pos + 1) /\ (n = 1 => Ordinary) BY DEF Breaks
  <1>2. Leaves(text, pos, stack) => Tok = "eof"
    BY Before DEF Leaves, Midway, Loops, Openers, Tok
  <1> QED BY <1>1, <1>2, Broken

(* Expressions.                                                            *)
LEMMA PlainExpressions ==
  ASSUME ParserInv, Ready,
         \/ Assignment \/ Binary \/ TypeName \/ Postfix \/ Args \/ ArgsRest \/ Primary \/ Strings
  PROVE  Midway /\ (Goes \/ Breaks)
  <1>1. Midway
    <2>1. Top.rule \in {"Assignment", "Binary", "TypeName", "Postfix", "Args", "ArgsRest",
                        "Primary", "Strings"}
      BY Zenon DEF Assignment, Binary, TypeName, Postfix, Args, ArgsRest, Primary, Strings, At
    <2> QED BY <2>1 DEF Midway, Syncs, Loops, Openers
  <1>2. 0 \in {0, 1} /\ 1 \in {0, 1} /\ 0 # 1 OBVIOUS
  <1>3. "" \in Syms BY Zenon DEF Syms
  <1>4. Top \in Frames /\ Top.n \in Nat /\ Tok \in Syms BY Before DEF Syms
  <1>5. At("TypeName") \/ At("Strings") \/ At("Binary") => Top \in Plain
    BY <1>4 DEF Plain, TopOnly, Syncs, Openers, Loops, At
  <1>6. CASE Assignment
    <2>1. \/ Tok = "=" /\ Do(1, Expr \o <<Emit("=")>>, <<>>)
          \/ Do(0, <<>>, <<>>)
      BY <1>6, Zenon DEF Assignment
    <2>2. Emit("=") \in Plain
      <3>1. "=" \in Syms BY Zenon DEF Syms
      <3> QED BY <3>1, PlainFrames, Zenon
    <2>3. Expr \o <<Emit("=")>> \in Seq(Plain) /\ <<>> \in Seq(Plain) BY <2>2, PlainLists, Zenon
    <2>4. Tok = "=" => Ordinary BY OrdinaryKinds, Zenon
    <2> QED BY <2>1, <2>3, <2>4, <1>1, <1>2, GoesBy, Zenon
  <1>7. CASE Binary
    <2> DEFINE next == Frame("Binary", BinaryInfo(Tok) + 1, "")
    <2>1. \/ /\ Tok \in BinaryOps
             /\ Do(1, <<F("Unary"), next, Emit(Tok), Top>>, <<>>)
          \/ Do(0, <<>>, <<>>)
      BY <1>7, Zenon DEF Binary
    <2>2. At("Binary") BY <1>7 DEF Binary
    <2>3. Tok \in BinaryOps => next \in Plain
      <3>1. \A n \in Nat : n + 1 \in Nat OBVIOUS
      <3>2. Tok \in BinaryOps => BinaryInfo(Tok) + 1 \in Nat BY <3>1, Operators, Zenon
      <3> QED BY <3>2, <1>3, PlainFrames, Zenon
    <2> HIDE DEF next
    <2>4. F("Unary") \in Plain /\ Emit(Tok) \in Plain /\ Top \in Plain
      BY <2>2, <1>4, <1>5, PlainFrames, Zenon
    <2>5. Tok \in BinaryOps => <<F("Unary"), next, Emit(Tok), Top>> \in Seq(Plain)
      BY <2>3, <2>4, PlainLists, Zenon
    <2>6. <<>> \in Seq(Plain) BY PlainLists
    <2>7. Tok \in BinaryOps => Ordinary BY OrdinaryKinds, Zenon
    <2> QED BY <2>1, <2>5, <2>6, <2>7, <1>1, <1>2, GoesBy, Zenon
  <1>8. CASE TypeName
    <2>1. \/ Tok = "*" /\ Do(1, <<Top>>, <<"pointer">>)
          \/ Tok = "const" /\ Do(1, <<Top>>, <<>>)
          \/ Tok \in {"x", "f()"} /\ Fail(1, pos + 1)
          \/ Do(0, <<>>, <<Top.sym>>)
      BY <1>8, Zenon DEF TypeName
    <2>2. At("TypeName") BY <1>8 DEF TypeName
    <2>3. <<Top>> \in Seq(Plain) /\ <<>> \in Seq(Plain) BY <2>2, <1>5, PlainLists
    <2>4. Tok = "*" \/ Tok = "const" \/ Tok \in {"x", "f()"} => Ordinary
      BY OrdinaryKinds, Zenon DEF UnaryOps
    <2>5. Fail(1, pos + 1) /\ Ordinary => Breaks BY <1>2 DEF Breaks
    <2> QED BY <2>1, <2>3, <2>4, <2>5, <1>1, <1>2, GoesBy, Zenon
  <1>9. CASE Postfix
    <2>1. \/ Tok = "(" /\ Do(1, <<F("Args"), F("Postfix")>>, <<"callee">>)
          \/ Tok = "[" /\ Do(1, Expr \o <<Expect("]"), Emit("index"), F("Postfix")>>, <<>>)
          \/ Do(0, <<>>, <<>>)
      BY <1>9, Zenon DEF Postfix
    <2>2. F("Args") \in Plain /\ F("Postfix") \in Plain /\ Expect("]") \in Plain
      BY PlainFrames, Zenon
    <2>3. Emit("index") \in Plain
      <3>1. "index" \in Syms BY Zenon DEF Syms
      <3> QED BY <3>1, PlainFrames, Zenon
    <2>4. /\ <<F("Args"), F("Postfix")>> \in Seq(Plain)
          /\ Expr \o <<Expect("]"), Emit("index"), F("Postfix")>> \in Seq(Plain)
          /\ <<>> \in Seq(Plain)
      BY <2>2, <2>3, PlainLists, Zenon
    <2>5. Tok = "(" \/ Tok = "[" => Ordinary BY OrdinaryKinds, Zenon
    <2> QED BY <2>1, <2>4, <2>5, <1>1, <1>2, GoesBy, Zenon
  <1>10. CASE Args
    <2>1. \/ Tok = ")" /\ Do(1, <<>>, <<"call">>)
          \/ Do(0, Expr \o <<F("ArgsRest")>>, <<>>)
      BY <1>10, Zenon DEF Args
    <2>2. F("ArgsRest") \in Plain BY PlainFrames, Zenon
    <2>3. Expr \o <<F("ArgsRest")>> \in Seq(Plain) /\ <<>> \in Seq(Plain)
      BY <2>2, PlainLists, Zenon
    <2>4. Tok = ")" => Ordinary BY OrdinaryKinds, Zenon
    <2> QED BY <2>1, <2>3, <2>4, <1>1, <1>2, GoesBy, Zenon
  <1>11. CASE ArgsRest
    <2>1. \/ Tok = "," /\ Do(1, Expr \o <<F("ArgsRest")>>, <<>>)
          \/ Tok = ")" /\ Do(1, <<>>, <<"call">>)
          \/ Fail(0, pos + 1)
      BY <1>11, Zenon DEF ArgsRest
    <2>2. F("ArgsRest") \in Plain BY PlainFrames, Zenon
    <2>3. Expr \o <<F("ArgsRest")>> \in Seq(Plain) /\ <<>> \in Seq(Plain)
      BY <2>2, PlainLists, Zenon
    <2>4. Tok = "," \/ Tok = ")" => Ordinary BY OrdinaryKinds, Zenon
    <2>5. Fail(0, pos + 1) => Breaks BY <1>2 DEF Breaks
    <2> QED BY <2>1, <2>3, <2>4, <2>5, <1>1, <1>2, GoesBy, Zenon
  <1>12. CASE Primary
    <2>1. \/ Tok \in {"x", "f()", "1"} /\ Do(1, <<>>, <<Tok>>)
          \/ Tok = "s" /\ Do(1, <<F("Strings")>>, <<>>)
          \/ Tok \in {"1e", "s!"} /\ Fail(1, pos + 1)
          \/ Tok = "(" /\ Do(1, Expr \o <<Expect(")")>>, <<>>)
          \/ Fail(0, pos + 1)
      BY <1>12, Zenon DEF Primary
    <2>2. F("Strings") \in Plain /\ Expect(")") \in Plain BY PlainFrames, Zenon
    <2>3. /\ <<F("Strings")>> \in Seq(Plain) /\ <<>> \in Seq(Plain)
          /\ Expr \o <<Expect(")")>> \in Seq(Plain)
      BY <2>2, PlainLists, Zenon
    <2>4. Tok \in {"x", "f()", "1"} \/ Tok = "s" \/ Tok \in {"1e", "s!"} \/ Tok = "(" => Ordinary
      BY OrdinaryKinds, Zenon
    <2>5. /\ Fail(1, pos + 1) /\ Ordinary => Breaks
          /\ Fail(0, pos + 1) => Breaks
      BY <1>2 DEF Breaks
    <2> QED BY <2>1, <2>3, <2>4, <2>5, <1>1, <1>2, GoesBy, Zenon
  <1>13. CASE Strings
    <2>1. \/ Tok = "s" /\ Do(1, <<Top>>, <<>>)
          \/ Tok = "s!" /\ Fail(1, pos + 1)
          \/ Do(0, <<>>, <<"s">>)
      BY <1>13, Zenon DEF Strings
    <2>2. At("Strings") BY <1>13 DEF Strings
    <2>3. <<Top>> \in Seq(Plain) /\ <<>> \in Seq(Plain) BY <2>2, <1>5, PlainLists
    <2>4. Tok = "s" \/ Tok = "s!" => Ordinary BY OrdinaryKinds, Zenon
    <2>5. Fail(1, pos + 1) /\ Ordinary => Breaks BY <1>2 DEF Breaks
    <2> QED BY <2>1, <2>3, <2>4, <2>5, <1>1, <1>2, GoesBy, Zenon
  <1> QED BY <1>1, <1>6, <1>7, <1>8, <1>9, <1>10, <1>11, <1>12, <1>13

(* Declarations and statements.                                            *)
LEMMA PlainStatements ==
  ASSUME ParserInv, Ready,
         \/ ExternalDecl \/ ExternalComma \/ LocalComma \/ ReturnValue \/ Condition \/ Else
         \/ Expected \/ Semicolon \/ MakeNode
  PROVE  Midway /\ (Goes \/ Breaks)
  <1>1. Midway
    <2>1. Top.rule \in {"ExternalDecl", "ExternalComma", "LocalComma", "ReturnValue",
                        "Condition", "Else", "Expect", "Semi", "Emit"}
      BY Zenon DEF ExternalDecl, ExternalComma, LocalComma, Comma, ReturnValue, Condition,
                   Else, Expected, Semicolon, MakeNode, At
    <2> QED BY <2>1 DEF Midway, Syncs, Loops, Openers
  <1>2. 0 \in {0, 1} /\ 1 \in {0, 1} /\ 0 # 1 /\ 0 \in Nat /\ 1 \in Nat OBVIOUS
  <1>3. Top.sym \in Syms BY Before
  <1>4. <<>> \in Seq(Plain) BY PlainLists
  <1>5. Fail(0, pos + 1) => Breaks BY <1>2 DEF Breaks
  <1>6. CASE ExternalDecl
    <2>1. \/ Tok = ";" /\ Do(1, <<>>, <<>>)
          \/ Do(0, <<Frame("ExternalDeclarator", 1, Top.sym)>>, <<>>)
      BY <1>6, Zenon DEF ExternalDecl
    <2>2. Frame("ExternalDeclarator", 1, Top.sym) \in Plain BY <1>2, <1>3, PlainFrames, Zenon
    <2>3. <<Frame("ExternalDeclarator", 1, Top.sym)>> \in Seq(Plain) BY <2>2, PlainLists, Zenon
    <2>4. Tok = ";" => Ordinary BY OrdinaryKinds, Zenon
    <2> QED BY <2>1, <2>3, <2>4, <1>1, <1>2, <1>4, GoesBy, Zenon
  <1>7. CASE ExternalComma \/ LocalComma
    <2>1. \E rule \in {"ExternalDeclarator", "LocalDeclarator"} :
            \/ Tok = "," /\ Do(1, <<Frame(rule, 0, Top.sym)>>, <<>>)
            \/ Tok = ";" /\ Do(1, <<>>, <<"declaration">>)
            \/ Fail(0, pos + 1)
      BY <1>7, Zenon DEF ExternalComma, LocalComma, Comma
    <2>2. \A rule \in {"ExternalDeclarator", "LocalDeclarator"} : Frame(rule, 0, Top.sym) \in Plain
      BY <1>2, <1>3, PlainFrames, Zenon
    <2>3. \A rule \in {"ExternalDeclarator", "LocalDeclarator"} :
            <<Frame(rule, 0, Top.sym)>> \in Seq(Plain)
      BY <2>2, PlainLists, Zenon
    <2>4. Tok = "," \/ Tok = ";" => Ordinary BY OrdinaryKinds, Zenon
    <2> QED BY <2>1, <2>3, <2>4, <1>1, <1>2, <1>4, <1>5, GoesBy, Zenon
  <1>8. CASE ReturnValue
    <2>1. \/ Tok = ";" /\ Do(1, <<>>, <<"return">>)
          \/ Do(0, Expr \o <<Semi("return value")>>, <<>>)
      BY <1>8, Zenon DEF ReturnValue
    <2>2. Semi("return value") \in Plain
      <3>1. "return value" \in Syms BY Zenon DEF Syms
      <3> QED BY <3>1, PlainFrames, Zenon
    <2>3. Expr \o <<Semi("return value")>> \in Seq(Plain) BY <2>2, PlainLists, Zenon
    <2>4. Tok = ";" => Ordinary BY OrdinaryKinds, Zenon
    <2> QED BY <2>1, <2>3, <2>4, <1>1, <1>2, <1>4, GoesBy, Zenon
  <1>9. CASE Condition
    <2>1. \/ Tok = "(" /\ Do(1, Expr \o <<Expect(")")>>, <<>>)
          \/ Fail(0, pos + 1)
      BY <1>9, Zenon DEF Condition
    <2>2. Expr \o <<Expect(")")>> \in Seq(Plain)
      <3>1. Expect(")") \in Plain BY PlainFrames, Zenon
      <3> QED BY <3>1, PlainLists, Zenon
    <2>3. Tok = "(" => Ordinary BY OrdinaryKinds, Zenon
    <2> QED BY <2>1, <2>2, <2>3, <1>1, <1>2, <1>5, GoesBy, Zenon
  <1>10. CASE Else
    <2>1. \/ Tok = "else" /\ Do(1, <<F("Statement"), Emit("if else")>>, <<>>)
          \/ Do(0, <<>>, <<"if">>)
      BY <1>10, Zenon DEF Else
    <2>2. <<F("Statement"), Emit("if else")>> \in Seq(Plain)
      <3>1. "if else" \in Syms BY Zenon DEF Syms
      <3>2. F("Statement") \in Plain /\ Emit("if else") \in Plain BY <3>1, PlainFrames, Zenon
      <3> QED BY <3>2, PlainLists, Zenon
    <2>3. Tok = "else" => Ordinary BY OrdinaryKinds, Zenon
    <2> QED BY <2>1, <2>2, <2>3, <1>1, <1>2, <1>4, GoesBy, Zenon
  <1>11. CASE Expected
    <2>1. (Tok = Top.sym /\ Do(1, <<>>, <<>>)) \/ Fail(0, pos + 1) BY <1>11, Zenon DEF Expected
    <2>2. Top.sym \in {")", "]"}
      <3>1. FrameOK(Top, pos) BY Before
      <3>2. Top.rule = "Expect" BY <1>11, Zenon DEF Expected, At
      <3> QED BY <3>1, <3>2, Zenon DEF FrameOK
    <2>3. Tok = Top.sym => Ordinary BY <2>2, OrdinaryKinds, Zenon
    <2> QED BY <2>1, <2>3, <1>1, <1>2, <1>4, <1>5, GoesBy, Zenon
  <1>12. CASE Semicolon
    <2>1. (Tok = ";" /\ Do(1, <<>>, <<Top.sym>>)) \/ Fail(0, pos + 1)
      BY <1>12, Zenon DEF Semicolon
    <2>2. Tok = ";" => Ordinary BY OrdinaryKinds, Zenon
    <2> QED BY <2>1, <2>2, <1>1, <1>2, <1>4, <1>5, GoesBy, Zenon
  <1>13. CASE MakeNode
    <2>1. Do(0, <<>>, <<Top.sym>>) BY <1>13, Zenon DEF MakeNode
    <2> QED BY <2>1, <1>1, <1>2, <1>4, GoesBy, Zenon
  <1> QED BY <1>1, <1>6, <1>7, <1>8, <1>9, <1>10, <1>11, <1>12, <1>13

(* A frame that is not plain is called above plain ones.                   *)
Calls(n, f, front) ==
    /\ Moves(n, <<f>> \o front)
    /\ f \in Frames /\ FrameOK(f, pos + n)
    /\ f.rule \in {"DeclSpec", "Compound", "FinishVarDecl"}
    /\ n = 1 => Ordinary
    /\ f.rule = "Compound" => n = 0 /\ Tok = LBrace
    /\ f.rule = "FinishVarDecl" => n = 1
    /\ f.rule = "DeclSpec" =>
         (front \o Tail(stack))[1].rule \in {"ExternalDecl", "LocalDeclarator", "TypeName"}

LEMMA CallsOn ==
  ASSUME ParserInv, Ready, Midway, NEW n \in {0, 1}, NEW f, NEW front \in Seq(Plain),
         Calls(n, f, front)
  PROVE  ParserInv'
  <1> DEFINE rest == Tail(stack)
             below == front \o rest
             new == <<f>> \o below
  <1>1. /\ pos \in Nat /\ StackOK(rest, pos) /\ rest # <<>> /\ rest[1].rule \notin TopOnly
        /\ Open(rest) = Open(stack) /\ pos + n \in Nat /\ pos <= pos + n
    BY Before, SMTT(60) DEF Midway, Loops, Above
  <1> HIDE DEF rest
  <1>2. /\ StackOK(below, pos) /\ Open(below) = Open(rest) /\ below # <<>>
        /\ below[1].rule \notin TopOnly
    BY <1>1, PlainPushed
  <1>3. StackOK(below, pos + n) BY <1>1, <1>2, StackLater
  <1>4. /\ f \in Frames /\ FrameOK(f, pos + n)
        /\ f.rule \in {"DeclSpec", "Compound", "FinishVarDecl"}
        /\ f.rule = "DeclSpec" => below[1].rule \in {"ExternalDecl", "LocalDeclarator", "TypeName"}
    BY DEF Calls, rest
  <1>5. (<<f>> \o front) \o rest = new
    <2>1. <<f>> \in Seq(Frames) BY <1>4
    <2>2. front \in Seq(Frames)
      <3>1. Plain \subseteq Frames BY DEF Plain
      <3> QED BY <3>1, SeqMonotonic
    <2>3. rest \in Seq(Frames) BY <1>1 DEF StackOK
    <2> QED BY <2>1, <2>2, <2>3, ConcatAssociative
  <1> HIDE DEF below
  <1>6. Above(f, below[1]) BY <1>2, <1>4 DEF Above
  <1>7. f.rule \notin Openers BY <1>4 DEF Openers
  <1>8. StackOK(new, pos + n) /\ new # <<>> /\ new[1] = f /\ Open(new) = Open(below)
    <2>1. /\ StackOK(new, pos + n) /\ new # <<>> /\ new[1] = f
          /\ Open(new) = Open(below) \cup (IF f.rule \in Openers THEN {f.n} ELSE {})
      BY <1>1, <1>2, <1>3, <1>4, <1>6, <1>7, Pushed
    <2> QED BY <2>1, <1>7
  <1>9. Kept(text, pos + n, Open(new), pairs)
    <2>1. Kept(text, pos, Open(new), pairs) BY <1>1, <1>2, <1>8 DEF ParserInv
    <2>2. CASE n = 0
      <3>1. pos + n = pos BY <2>2, <1>1
      <3> QED BY <3>1, <2>1
    <2>3. CASE n = 1
      <3>1. text[pos + 1] # RBrace BY <2>3 DEF Calls, Ordinary, Tok
      <3>2. Kept(text, pos + 1, Open(new), pairs) BY <2>1, <3>1, <1>1, KeptSkip
      <3> QED BY <3>2, <2>3
    <2> QED BY <2>2, <2>3
  <1>10. Leaves(text, pos, stack) => Tok = "eof"
    BY Before DEF Leaves, Midway, Loops, Openers, Tok
  <1>11. Leaves(text, pos, stack) => Leaves(text, pos, new) BY <1>10 DEF Leaves, Tok
  <1>12. /\ n = 1 => Tok # "eof"
         /\ f.rule = "Compound" => n = 0 /\ Tok = LBrace
         /\ f.rule = "FinishVarDecl" => n = 1 /\ ~Leaves(text, pos, stack)
    BY <1>10 DEF Calls, Ordinary
  <1>13. <<f>> \o front # <<>> /\ (<<f>> \o front)[1] = f
    <2>1. <<f>> \in Seq(Frames) /\ Len(<<f>>) = 1 /\ <<f>>[1] = f BY <1>4
    <2>2. front \in Seq(Frames) /\ Len(front) \in Nat
      <3>1. Plain \subseteq Frames BY DEF Plain
      <3> QED BY <3>1, SeqMonotonic, LenProperties
    <2>3. Len(<<f>> \o front) = 1 + Len(front)
          /\ \A i \in 1..1 + Len(front) : (<<f>> \o front)[i] = IF i <= 1 THEN <<f>>[i] ELSE front[i - 1]
      BY <2>1, <2>2, ConcatProperties
    <2>4. 1 \in 1..1 + Len(front) /\ 1 <= 1 BY <2>2
    <2>5. (<<f>> \o front)[1] = f BY <2>1, <2>3, <2>4
    <2>6. <<f>> \o front # <<>>
      <3>1. 1 + Len(front) # 0 BY <2>2
      <3> QED BY <3>1, <2>3
    <2> QED BY <2>5, <2>6
  <1>14. Moves(n, <<f>> \o front) BY DEF Calls
  <1> DEFINE all == <<f>> \o front
  <1>15. /\ all # <<>> /\ all[1] = f /\ Moves(n, all) /\ all \o Tail(stack) = new
    BY <1>5, <1>13, <1>14 DEF rest
  <1> HIDE DEF all, new
  <1> QED BY <1>8, <1>9, <1>11, <1>12, <1>15, Stepped

LEMMA FrontSplit ==
  ASSUME NEW S, NEW a \in S, NEW b \in S, NEW c \in S, NEW d \in S, NEW e \in S
  PROVE  /\ <<a>> = <<a>> \o <<>> /\ <<a, b>> = <<a>> \o <<b>>
         /\ <<a, b, c>> = <<a>> \o <<b, c>>
         /\ <<a, b, c, d>> = <<a>> \o <<b, c, d>>
         /\ <<a, b, c, d, e>> = <<a>> \o <<b, c, d, e>>
  <1>1. <<a>> \in Seq(S) /\ Len(<<a>>) = 1 /\ <<a>>[1] = a OBVIOUS
  <1>2. <<a>> = <<a>> \o <<>> BY <1>1, ConcatEmptySeq
  <1>3. \A s \in Seq(S) : \A t \in Seq(S) :
          /\ Len(t) = Len(s) + 1 /\ t[1] = a
          /\ \A i \in 1..Len(s) : t[i + 1] = s[i]
          => t = <<a>> \o s
    <2> SUFFICES ASSUME NEW s \in Seq(S), NEW t \in Seq(S), Len(t) = Len(s) + 1, t[1] = a,
                        \A i \in 1..Len(s) : t[i + 1] = s[i]
                 PROVE  t = <<a>> \o s
      OBVIOUS
    <2> DEFINE u == <<a>> \o s
    <2>1. /\ u \in Seq(S) /\ Len(u) = 1 + Len(s)
          /\ \A i \in 1..1 + Len(s) : u[i] = IF i <= 1 THEN <<a>>[i] ELSE s[i - 1]
      BY <1>1, ConcatProperties
    <2>2. Len(s) \in Nat BY LenProperties
    <2> HIDE DEF u
    <2>3. ASSUME NEW i \in 1..Len(t) PROVE t[i] = u[i]
      <3>1. CASE i = 1 BY <3>1, <1>1, <2>1, <2>2
      <3>2. CASE i # 1
        <4>1. i - 1 \in 1..Len(s) /\ (i - 1) + 1 = i /\ ~(i <= 1) /\ i \in 1..1 + Len(s)
          BY <3>2, <2>2
        <4> QED BY <4>1, <2>1
      <3> QED BY <3>1, <3>2
    <2>4. Len(t) = Len(u) BY <2>1, <2>2
    <2>5. t = u BY <2>1, <2>3, <2>4, SeqEqual
    <2> QED BY <2>5 DEF u
  <1>4. <<a, b>> = <<a>> \o <<b>>
    <2> DEFINE s == <<b>>
               t == <<a, b>>
    <2>1. s \in Seq(S) /\ t \in Seq(S) /\ Len(t) = 2 /\ Len(s) = 1 /\ t[1] = a /\ t[2] = s[1]
      OBVIOUS
    <2> HIDE DEF s, t
    <2>2. Len(t) = Len(s) + 1 /\ \A i \in 1..Len(s) : t[i + 1] = s[i] BY <2>1
    <2>3. t = <<a>> \o s BY <2>1, <2>2, <1>3, Zenon
    <2> QED BY <2>3 DEF s, t
  <1>5. <<a, b, c, d>> = <<a>> \o <<b, c, d>>
    <2> DEFINE s == <<b, c, d>>
               t == <<a, b, c, d>>
    <2>1. s \in Seq(S) /\ t \in Seq(S) /\ Len(t) = 4 /\ Len(s) = 3 /\ t[1] = a OBVIOUS
    <2>2. t[2] = s[1] /\ t[3] = s[2] /\ t[4] = s[3] OBVIOUS
    <2>3. \A i \in 1..3 : i = 1 \/ i = 2 \/ i = 3 OBVIOUS
    <2> HIDE DEF s, t
    <2>4. \A i \in 1..Len(s) : t[i + 1] = s[i] BY <2>1, <2>2, <2>3
    <2>5. Len(t) = Len(s) + 1 BY <2>1
    <2>6. t = <<a>> \o s BY <2>1, <2>4, <2>5, <1>3, Zenon
    <2> QED BY <2>6 DEF s, t
  <1>6. <<a, b, c, d, e>> = <<a>> \o <<b, c, d, e>>
    <2> DEFINE s == <<b, c, d, e>>
               t == <<a, b, c, d, e>>
    <2>1. s \in Seq(S) /\ t \in Seq(S) /\ Len(t) = 5 /\ Len(s) = 4 /\ t[1] = a OBVIOUS
    <2>2. t[2] = s[1] /\ t[3] = s[2] /\ t[4] = s[3] /\ t[5] = s[4] OBVIOUS
    <2>3. \A i \in 1..4 : i = 1 \/ i = 2 \/ i = 3 \/ i = 4 OBVIOUS
    <2> HIDE DEF s, t
    <2>4. \A i \in 1..Len(s) : t[i + 1] = s[i] BY <2>1, <2>2, <2>3
    <2>5. Len(t) = Len(s) + 1 BY <2>1
    <2>6. t = <<a>> \o s BY <2>1, <2>4, <2>5, <1>3, Zenon
    <2> QED BY <2>6 DEF s, t
  <1>7. <<a, b, c>> = <<a>> \o <<b, c>>
    <2> DEFINE s == <<b, c>>
               t == <<a, b, c>>
    <2>1. s \in Seq(S) /\ t \in Seq(S) /\ Len(t) = 3 /\ Len(s) = 2 /\ t[1] = a OBVIOUS
    <2>2. t[2] = s[1] /\ t[3] = s[2] OBVIOUS
    <2>3. \A i \in 1..2 : i = 1 \/ i = 2 OBVIOUS
    <2> HIDE DEF s, t
    <2>4. \A i \in 1..Len(s) : t[i + 1] = s[i] BY <2>1, <2>2, <2>3
    <2>5. Len(t) = Len(s) + 1 BY <2>1
    <2>6. t = <<a>> \o s BY <2>1, <2>4, <2>5, <1>3, Zenon
    <2> QED BY <2>6 DEF s, t
  <1> QED BY <1>2, <1>4, <1>5, <1>6, <1>7

(* The same for four values at once, of whatever kind.                     *)
LEMMA FourSplit ==
  ASSUME NEW a, NEW b, NEW c, NEW d
  PROVE  <<a, b, c, d>> = <<a>> \o <<b, c, d>>
  <1> DEFINE S == {a, b, c, d}
  <1>1. a \in S /\ b \in S /\ c \in S /\ d \in S OBVIOUS
  <1> HIDE DEF S
  <1> QED BY <1>1, FrontSplit

(* Where a frame that is not plain is called, and returned to.             *)
LEMMA CallsBy ==
  ASSUME ParserInv, Ready, Midway, NEW n \in {0, 1}, NEW nodes, n = 1 => Ordinary
  PROVE  /\ \A g \in Plain : \A s \in Syms :
              Do(n, <<Frame("FinishVarDecl", 0, s), g>>, nodes) /\ n = 1 => ParserInv'
         /\ \A front \in Seq(Plain) :
              Do(n, <<F("Compound")>> \o front, nodes) /\ n = 0 /\ Tok = LBrace => ParserInv'
         /\ \A front \in Seq(Plain) :
              /\ front # <<>> /\ front[1].rule \in {"LocalDeclarator", "TypeName"}
              /\ Do(n, <<F("DeclSpec")>> \o front, nodes)
              => ParserInv'
         /\ \A f \in Frames : f.rule = "DeclSpec" /\ At("DeclSpec") /\ Do(n, <<f>>, nodes) => ParserInv'
  <1>1. pos \in Nat /\ pos + n \in Nat BY Before
  <1>2. "DeclSpec" \in Rules /\ "Compound" \in Rules /\ "FinishVarDecl" \in Rules BY DEF Rules
  <1>3. \A f \in Frames : f.rule \in {"DeclSpec", "Compound"} => FrameOK(f, pos + n)
    BY DEF FrameOK, Loops, Openers
  <1>4. \A f \in Frames : f.rule = "FinishVarDecl" /\ n = 1 => FrameOK(f, pos + n)
    BY <1>1 DEF FrameOK, Loops, Openers
  <1>5. ASSUME NEW g \in Plain, NEW s \in Syms,
               Do(n, <<Frame("FinishVarDecl", 0, s), g>>, nodes), n = 1
        PROVE  ParserInv'
    <2> DEFINE f == Frame("FinishVarDecl", 0, s)
    <2>1. f \in Frames /\ f.rule = "FinishVarDecl" BY <1>2, FrameFacts
    <2> HIDE DEF f
    <2>2. <<f, g>> = <<f>> \o <<g>>
      <3>1. g \in Frames BY DEF Plain
      <3> QED BY <3>1, <2>1, FrontSplit
    <2>3. Moves(n, <<f>> \o <<g>>) BY <1>5, <2>2, DoMoves DEF f
    <2>4. Calls(n, f, <<g>>) BY <2>1, <2>3, <1>4, <1>5 DEF Calls
    <2>5. <<g>> \in Seq(Plain) BY PlainLists
    <2> QED BY <2>4, <2>5, CallsOn
  <1>6. ASSUME NEW front \in Seq(Plain), Do(n, <<F("Compound")>> \o front, nodes), n = 0,
               Tok = LBrace
        PROVE  ParserInv'
    <2>1. F("Compound") \in Frames /\ F("Compound").rule = "Compound" BY <1>2, CallFacts
    <2>2. Moves(n, <<F("Compound")>> \o front) BY <1>6, DoMoves
    <2>3. Calls(n, F("Compound"), front) BY <2>1, <2>2, <1>3, <1>6 DEF Calls
    <2> QED BY <2>3, CallsOn
  <1>7. ASSUME NEW front \in Seq(Plain), front # <<>>,
               front[1].rule \in {"LocalDeclarator", "TypeName"},
               Do(n, <<F("DeclSpec")>> \o front, nodes)
        PROVE  ParserInv'
    <2>1. F("DeclSpec") \in Frames /\ F("DeclSpec").rule = "DeclSpec" BY <1>2, CallFacts
    <2>2. Moves(n, <<F("DeclSpec")>> \o front) BY <1>7, DoMoves
    <2>3. (front \o Tail(stack))[1] = front[1]
      <3>1. StackOK(Tail(stack), pos) /\ Tail(stack) # <<>> /\ Tail(stack)[1].rule \notin TopOnly
        BY Before DEF Midway, Loops, Above
      <3> QED BY <3>1, <1>1, <1>7, PlainPushed
    <2>4. Calls(n, F("DeclSpec"), front) BY <2>1, <2>2, <2>3, <1>3, <1>7 DEF Calls
    <2> QED BY <2>4, CallsOn
  <1>8. ASSUME NEW f \in Frames, f.rule = "DeclSpec", At("DeclSpec"), Do(n, <<f>>, nodes)
        PROVE  ParserInv'
    <2>1. <<f>> = <<f>> \o <<>> BY FrontSplit
    <2>2. Moves(n, <<f>> \o <<>>) BY <1>8, <2>1, DoMoves
    <2>3. (<<>> \o Tail(stack))[1].rule \in {"ExternalDecl", "LocalDeclarator", "TypeName"}
      <3>1. Tail(stack) # <<>> /\ Tail(stack)[1] = stack[2] /\ Above(Top, stack[2])
            /\ Tail(stack) \in Seq(Frames)
        BY Before DEF Midway, Loops, StackOK
      <3>2. <<>> \o Tail(stack) = Tail(stack) BY <3>1, ConcatEmptySeq
      <3> QED BY <3>1, <3>2, <1>8 DEF Above, At
    <2>4. Calls(n, f, <<>>) BY <2>2, <2>3, <1>3, <1>8 DEF Calls
    <2> QED BY <2>4, CallsOn, PlainLists
  <1> QED BY <1>5, <1>6, <1>7, <1>8

(* The base type is known: back to the method that called                  *)
(* parseDeclarationSpecifiers.                                             *)
LEMMA SpecReturns ==
  ASSUME ParserInv, Ready, At("DeclSpec"),
         stack' = <<[stack[2] EXCEPT !.sym = Top.sym]>> \o SubSeq(stack, 3, Len(stack)),
         UNCHANGED <<source, text, pos, diags, pairs>>
  PROVE  ParserInv'
  <1> DEFINE g == [stack[2] EXCEPT !.sym = Top.sym]
             one == Tail(stack)
             two == Tail(one)
             new == <<g>> \o two
  <1>1. /\ stack # <<>> /\ StackOK(stack, pos) /\ stack \in Seq(Frames) /\ Top = stack[1]
        /\ Top.sym \in Syms /\ Top.rule = "DeclSpec" /\ pos \in Nat /\ pos + 1 <= Len(text)
    BY Before DEF At
  <1>2. /\ StackOK(one, pos) /\ one # <<>> /\ one[1] = stack[2] /\ Above(Top, stack[2])
        /\ Open(one) = Open(stack) /\ stack[2] \in Frames /\ Len(stack) > 1
    BY <1>1, Before DEF Openers
  <1>3. stack[2].rule \in {"ExternalDecl", "LocalDeclarator", "TypeName"} BY <1>1, <1>2 DEF Above
  <1> HIDE DEF one
  <1>4. /\ StackOK(two, pos) /\ two # <<>> /\ Open(two) = Open(one)
        /\ two[1].rule \notin TopOnly
    <2>1. /\ StackOK(two, pos)
          /\ one[1].rule \notin Openers => Open(two) = Open(one)
          /\ IF one[1].rule = "Run" THEN two = <<>>
             ELSE two # <<>> /\ two[1] = one[2] /\ Above(one[1], two[1])
      BY <1>2, Returned
    <2> QED BY <2>1, <1>2, <1>3 DEF Openers, Above
  <1>5. SubSeq(stack, 3, Len(stack)) = two
    <2>1. Len(stack) \in Nat /\ Len(stack) > 1 BY <1>1, <1>2, StackFacts
    <2>2. one = SubSeq(stack, 2, Len(stack)) BY <1>1, TailIsSubSeq DEF one
    <2>3. 2 \in 1..Len(stack) /\ Len(stack) \in 2..Len(stack) /\ 2 + 1 = 3 BY <2>1
    <2>4. Tail(SubSeq(stack, 2, Len(stack))) = SubSeq(stack, 2 + 1, Len(stack))
      BY <2>3, <1>1, HeadTailOfSubSeq
    <2> QED BY <2>2, <2>3, <2>4
  <1>6. g \in Frames /\ g.rule = stack[2].rule
    BY <1>1, <1>2 DEF Frames
  <1>7. g \in Plain BY <1>3, <1>6 DEF Plain, TopOnly, Syncs, Openers, Loops
  <1>8. stack' = new BY <1>5
  <1> HIDE DEF g, two
  <1>9. /\ StackOK(new, pos) /\ new # <<>> /\ Open(new) = Open(two)
        /\ new[1].rule \notin TopOnly
    <2>1. <<g>> \in Seq(Plain) BY <1>7, PlainLists
    <2> QED BY <2>1, <1>1, <1>4, PlainPushed
  <1>10. Kept(text, pos, Open(new), pairs) BY <1>2, <1>4, <1>9 DEF ParserInv
  <1>11. Place(source, text, pos, stack) /\ Reports(text, pos, stack, diags) BY DEF ParserInv
  <1> HIDE DEF new
  <1>12. Leaves(text, pos, stack) => Leaves(text, pos, new)
    BY <1>1 DEF Leaves, Syncs
  <1>13. Place(source, text, pos, new) /\ Reports(text, pos, new, diags)
    <2>1. new[1].rule # "Compound" /\ new[1].rule # "FinishVarDecl" BY <1>9 DEF TopOnly
    <2>2. pos + 0 = pos /\ 0 \in {0, 1} /\ 0 # 1 BY <1>1
    <2> QED BY <2>1, <2>2, <1>1, <1>9, <1>11, <1>12, Moved
  <1> QED BY <1>8, <1>10, <1>13 DEF ParserInv

LEMMA Specifiers ==
  ASSUME ParserInv, Ready, DeclSpec
  PROVE  ParserInv'
  <1>1. /\ At("DeclSpec")
        /\ \/ Tok = "const" /\ Do(1, <<Top>>, <<>>)
           \/ Tok \in BaseTypes /\ Do(1, <<[Top EXCEPT !.sym = Tok]>>, <<>>)
           \/ Tok \in BaseTypes /\ Fail(1, pos + 1)
           \/ Fail(0, pos + 1)
           \/ /\ stack' = <<[stack[2] EXCEPT !.sym = Top.sym]>> \o SubSeq(stack, 3, Len(stack))
              /\ UNCHANGED <<source, text, pos, tree, diags, pairs>>
    BY Zenon DEF DeclSpec
  <1>2. Midway BY <1>1 DEF Midway, At, Syncs, Loops, Openers
  <1>3. Tok = "const" \/ Tok \in BaseTypes => Ordinary BY OrdinaryKinds, Zenon DEF BaseTypes
  <1>4. 0 \in {0, 1} /\ 1 \in {0, 1} /\ 0 # 1 OBVIOUS
  <1>5. Top \in Frames /\ Top.rule = "DeclSpec" /\ Tok \in Syms
    BY <1>1, Before DEF At, Syms
  <1>6. [Top EXCEPT !.sym = Tok] \in Frames /\ [Top EXCEPT !.sym = Tok].rule = "DeclSpec"
    BY <1>5 DEF Frames
  <1>7. ASSUME Tok = "const", Do(1, <<Top>>, <<>>) PROVE ParserInv'
    BY <1>1, <1>2, <1>3, <1>4, <1>5, <1>7, CallsBy
  <1>8. ASSUME Tok \in BaseTypes, Do(1, <<[Top EXCEPT !.sym = Tok]>>, <<>>) PROVE ParserInv'
    <2> DEFINE f == [Top EXCEPT !.sym = Tok]
    <2>1. f \in Frames /\ f.rule = "DeclSpec" /\ Do(1, <<f>>, <<>>) BY <1>6, <1>8
    <2> HIDE DEF f
    <2> QED BY <2>1, <1>1, <1>2, <1>3, <1>4, <1>8, CallsBy
  <1>9. ASSUME (Tok \in BaseTypes /\ Fail(1, pos + 1)) \/ Fail(0, pos + 1) PROVE ParserInv'
    <2>1. Breaks BY <1>3, <1>4, <1>9 DEF Breaks
    <2> QED BY <2>1, <1>2, BreaksOff
  <1>10. ASSUME stack' = <<[stack[2] EXCEPT !.sym = Top.sym]>> \o SubSeq(stack, 3, Len(stack)),
                UNCHANGED <<source, text, pos, tree, diags, pairs>>
         PROVE  ParserInv'
    <2>1. UNCHANGED <<source, text, pos, diags, pairs>> BY <1>10
    <2> QED BY <2>1, <1>1, <1>10, SpecReturns
  <1> QED BY <1>1, <1>7, <1>8, <1>9, <1>10

(* The methods that call one whose frame is not plain.                     *)
LEMMA Callers ==
  ASSUME ParserInv, Ready,
         \/ ExternalDeclarator \/ LocalDeclarator \/ FunctionRest \/ FinishVarDecl
         \/ Statement \/ Unary \/ SizeOf
  PROVE  ParserInv'
  <1>1. Midway
    <2>1. Top.rule \in {"ExternalDeclarator", "LocalDeclarator", "FunctionRest",
                        "FinishVarDecl", "Statement", "Unary", "SizeOf"}
      BY Zenon DEF ExternalDeclarator, LocalDeclarator, FunctionRest, FinishVarDecl,
                   Statement, Unary, SizeOf, At
    <2> QED BY <2>1 DEF Midway, Syncs, Loops, Openers
  <1>2. 0 \in {0, 1} /\ 1 \in {0, 1} /\ 0 # 1 /\ 1 # 0 /\ 0 \in Nat /\ 1 \in Nat OBVIOUS
  <1>3. Top.sym \in Syms /\ Top.n \in Nat /\ Tok \in Syms BY Before DEF Syms
  <1>4. <<>> \in Seq(Plain) BY PlainLists
  <1>5. Fail(0, pos + 1) => ParserInv'
    <2>1. Fail(0, pos + 1) => Breaks BY <1>2 DEF Breaks
    <2> QED BY <2>1, <1>1, BreaksOff
  <1>6. Fail(1, pos + 1) /\ Ordinary => ParserInv'
    <2>1. Fail(1, pos + 1) /\ Ordinary => Breaks BY <1>2 DEF Breaks
    <2> QED BY <2>1, <1>1, BreaksOff
  <1>7. ASSUME NEW n \in {0, 1}, NEW front \in Seq(Plain), NEW nodes, Do(n, front, nodes),
               n = 1 => Ordinary
        PROVE  ParserInv'
    BY <1>1, <1>7, GoesBy, GoesOn
  <1>8. /\ F("LocalDeclarator") \in Plain /\ F("LocalDeclarator").rule = "LocalDeclarator"
        /\ F("TypeName") \in Plain /\ F("TypeName").rule = "TypeName"
        /\ F("DeclSpec") \in Frames /\ F("Compound") \in Frames
    <2>1. /\ "LocalDeclarator" \in Rules /\ "TypeName" \in Rules /\ "DeclSpec" \in Rules
          /\ "Compound" \in Rules
      BY DEF Rules
    <2> QED BY <2>1, PlainFrames, CallFacts
  <1>9. Plain \subseteq Frames BY DEF Plain
  <1>10. CASE ExternalDeclarator \/ LocalDeclarator
    <2>1. \/ \E g \in {"ExternalComma", "LocalComma"} :
               Tok = "x" /\ Do(1, <<Frame("FinishVarDecl", 0, Top.sym),
                                    Frame(g, 0, Top.sym)>>, <<"x">>)
          \/ Tok = "f()" /\ Do(1, <<Frame("FunctionRest", Top.n, Top.sym)>>, <<"f()">>)
          \/ Tok = "f()" /\ Fail(1, pos + 1)
          \/ Fail(0, pos + 1)
      BY <1>10, Zenon DEF ExternalDeclarator, LocalDeclarator
    <2>2. Tok = "x" \/ Tok = "f()" => Ordinary BY OrdinaryKinds, Zenon
    <2>3. \A g \in {"ExternalComma", "LocalComma"} : Frame(g, 0, Top.sym) \in Plain
      BY <1>2, <1>3, PlainFrames, Zenon
    <2>4. <<Frame("FunctionRest", Top.n, Top.sym)>> \in Seq(Plain)
      <3>1. Frame("FunctionRest", Top.n, Top.sym) \in Plain BY <1>3, PlainFrames, Zenon
      <3> QED BY <3>1, PlainLists, Zenon
    <2>5. ASSUME NEW g \in Plain,
                 Tok = "x", Do(1, <<Frame("FinishVarDecl", 0, Top.sym), g>>, <<"x">>)
          PROVE  ParserInv'
      BY <2>2, <2>5, <1>1, <1>2, <1>3, CallsBy
    <2> QED BY <2>1, <2>2, <2>3, <2>4, <2>5, <1>2, <1>5, <1>6, <1>7, Zenon
  <1>11. CASE FunctionRest
    <2>1. \/ Tok = LBrace /\ Do(0, <<F("Compound"), Emit("function")>>, <<>>)
          \/ Do(0, <<Frame("ExternalComma", 0, Top.sym)>>, <<"prototype">>)
      BY <1>11, Zenon DEF FunctionRest, LBrace
    <2>2. Emit("function") \in Plain
      <3>1. "function" \in Syms BY Zenon DEF Syms
      <3> QED BY <3>1, PlainFrames, Zenon
    <2>3. /\ <<F("Compound"), Emit("function")>> = <<F("Compound")>> \o <<Emit("function")>>
          /\ <<Emit("function")>> \in Seq(Plain)
      BY <2>2, <1>8, <1>9, FrontSplit, PlainLists
    <2>4. ASSUME Tok = LBrace, Do(0, <<F("Compound"), Emit("function")>>, <<>>)
          PROVE  ParserInv'
      <3>1. Do(0, <<F("Compound")>> \o <<Emit("function")>>, <<>>) BY <2>3, <2>4
      <3> QED BY <3>1, <2>3, <2>4, <1>1, <1>2, CallsBy
    <2>5. <<Frame("ExternalComma", 0, Top.sym)>> \in Seq(Plain)
      <3>1. Frame("ExternalComma", 0, Top.sym) \in Plain BY <1>2, <1>3, PlainFrames, Zenon
      <3> QED BY <3>1, PlainLists, Zenon
    <2> QED BY <2>1, <2>4, <2>5, <1>2, <1>7, Zenon
  <1>12. CASE FinishVarDecl
    <2>1. \/ At("FinishVarDecl") /\ Fail(0, pos)
          \/ Tok = "=" /\ Do(1, <<F("Initializer"), Emit("init")>>, <<>>)
          \/ Do(0, <<>>, <<"var">>)
      BY <1>12, Zenon DEF FinishVarDecl
    <2>2. <<F("Initializer"), Emit("init")>> \in Seq(Plain)
      <3>1. "init" \in Syms BY Zenon DEF Syms
      <3>2. F("Initializer") \in Plain /\ Emit("init") \in Plain BY <3>1, PlainFrames, Zenon
      <3> QED BY <3>2, PlainLists, Zenon
    <2>3. Tok = "=" => Ordinary BY OrdinaryKinds, Zenon
    <2>4. At("FinishVarDecl") /\ Fail(0, pos) => ParserInv' BY <1>2, Broken
    <2> QED BY <2>1, <2>2, <2>3, <2>4, <1>2, <1>4, <1>7, Zenon
  <1>13. CASE Statement
    <2>1. \/ Tok = LBrace /\ Do(0, <<F("Compound")>>, <<>>)
          \/ Tok = ";" /\ Do(1, <<>>, <<"null">>)
          \/ Tok \in {"break", "continue"} /\ Do(1, <<Semi(Tok)>>, <<>>)
          \/ Tok = "return" /\ Do(1, <<F("ReturnValue")>>, <<>>)
          \/ Tok = "if" /\ Do(1, <<F("Condition"), F("Statement"), F("Else")>>, <<>>)
          \/ Tok = "while" /\ Do(1, <<F("Condition"), F("Statement"), Emit("while")>>, <<>>)
          \/ Do(0, <<F("DeclSpec"), F("LocalDeclarator")>>, <<>>)
          \/ Do(0, Expr \o <<Semi("expr")>>, <<>>)
      BY <1>13, Zenon DEF Statement, LBrace
    <2>2. Tok = ";" \/ Tok \in {"break", "continue"} \/ Tok = "return" \/ Tok = "if"
          \/ Tok = "while" => Ordinary
      BY OrdinaryKinds, Zenon
    <2>3. ASSUME Tok = LBrace, Do(0, <<F("Compound")>>, <<>>) PROVE ParserInv'
      <3>1. <<F("Compound")>> = <<F("Compound")>> \o <<>> BY <1>8, FrontSplit
      <3>2. Do(0, <<F("Compound")>> \o <<>>, <<>>) BY <2>3, <3>1
      <3> QED BY <3>2, <2>3, <1>1, <1>2, <1>4, CallsBy
    <2>4. ASSUME Do(0, <<F("DeclSpec"), F("LocalDeclarator")>>, <<>>) PROVE ParserInv'
      <3>1. <<F("DeclSpec"), F("LocalDeclarator")>> = <<F("DeclSpec")>> \o <<F("LocalDeclarator")>>
        BY <1>8, <1>9, FrontSplit
      <3>2. Do(0, <<F("DeclSpec")>> \o <<F("LocalDeclarator")>>, <<>>) BY <2>4, <3>1
      <3>3. <<F("LocalDeclarator")>> \in Seq(Plain) BY <1>8, PlainLists
      <3>4. <<F("LocalDeclarator")>> # <<>>
            /\ <<F("LocalDeclarator")>>[1].rule \in {"LocalDeclarator", "TypeName"}
        BY <1>8
      <3> QED BY <3>2, <3>3, <3>4, <1>1, <1>2, CallsBy
    <2>5. /\ "while" \in Syms /\ "expr" \in Syms BY Zenon DEF Syms
    <2>6. /\ Emit("while") \in Plain /\ Semi("expr") \in Plain /\ Semi(Tok) \in Plain
          /\ F("ReturnValue") \in Plain /\ F("Condition") \in Plain /\ F("Statement") \in Plain
          /\ F("Else") \in Plain
      BY <2>5, <1>3, PlainFrames, Zenon
    <2>7. /\ <<Semi(Tok)>> \in Seq(Plain) /\ <<F("ReturnValue")>> \in Seq(Plain)
          /\ <<F("Condition"), F("Statement"), F("Else")>> \in Seq(Plain)
          /\ <<F("Condition"), F("Statement"), Emit("while")>> \in Seq(Plain)
          /\ Expr \o <<Semi("expr")>> \in Seq(Plain)
      BY <2>6, PlainLists, Zenon
    <2> QED BY <2>1, <2>2, <2>3, <2>4, <2>7, <1>2, <1>4, <1>7, Zenon
  <1>14. CASE Unary
    <2>1. \/ Tok \in UnaryOps /\ Do(1, <<F("Unary"), Emit(UnaryNode(Tok))>>, <<>>)
          \/ Tok = "sizeof" /\ Do(1, <<F("SizeOf")>>, <<>>)
          \/ Tok = "(" /\ Do(1, <<F("DeclSpec"), F("TypeName"), Expect(")"), F("Unary"),
                                  Emit("cast")>>, <<>>)
          \/ Do(0, <<F("Primary"), F("Postfix")>>, <<>>)
      BY <1>14, Zenon DEF Unary, TypeInParens
    <2>2. Tok \in UnaryOps \/ Tok = "sizeof" \/ Tok = "(" => Ordinary BY OrdinaryKinds, Zenon
    <2>3. /\ F("Unary") \in Plain /\ F("SizeOf") \in Plain /\ F("Primary") \in Plain
          /\ F("Postfix") \in Plain /\ Expect(")") \in Plain /\ Emit("cast") \in Plain
      <3>1. "cast" \in Syms BY Zenon DEF Syms
      <3> QED BY <3>1, PlainFrames, Zenon
    <2>4. Tok \in UnaryOps => Emit(UnaryNode(Tok)) \in Plain
      <3>1. Tok \in UnaryOps => UnaryNode(Tok) \in {"plus", "minus", "not", "deref", "addrof"}
        BY Zenon DEF UnaryOps, UnaryNode
      <3>2. {"plus", "minus", "not", "deref", "addrof"} \subseteq Syms BY Zenon DEF Syms
      <3> QED BY <3>1, <3>2, PlainFrames, Zenon
    <2>5. /\ Tok \in UnaryOps => <<F("Unary"), Emit(UnaryNode(Tok))>> \in Seq(Plain)
          /\ <<F("SizeOf")>> \in Seq(Plain) /\ <<F("Primary"), F("Postfix")>> \in Seq(Plain)
      BY <2>3, <2>4, PlainLists, Zenon
    <2>6. ASSUME Tok = "(", Do(1, <<F("DeclSpec"), F("TypeName"), Expect(")"), F("Unary"),
                                    Emit("cast")>>, <<>>)
          PROVE  ParserInv'
      <3> DEFINE front == <<F("TypeName"), Expect(")"), F("Unary"), Emit("cast")>>
      <3>1. <<F("DeclSpec"), F("TypeName"), Expect(")"), F("Unary"), Emit("cast")>>
              = <<F("DeclSpec")>> \o front
        BY <2>3, <1>8, <1>9, FrontSplit
      <3>2. Do(1, <<F("DeclSpec")>> \o front, <<>>) BY <2>6, <3>1
      <3>3. front \in Seq(Plain) BY <2>3, <1>8, PlainLists, Zenon
      <3>4. front # <<>> /\ front[1] = F("TypeName") BY Zenon, <3>3
      <3>5. front[1].rule \in {"LocalDeclarator", "TypeName"} BY <3>4, <1>8
      <3> HIDE DEF front
      <3> QED BY <3>2, <3>3, <3>4, <3>5, <2>2, <2>6, <1>1, <1>2, CallsBy
    <2> QED BY <2>1, <2>2, <2>5, <2>6, <1>2, <1>7, Zenon
  <1>15. CASE SizeOf
    <2>1. \/ Tok = "(" /\ Do(1, <<F("DeclSpec"), F("TypeName"), Expect(")"),
                                  Emit("sizeof type")>>, <<>>)
          \/ Do(0, <<F("Unary"), Emit("sizeof")>>, <<>>)
      BY <1>15, Zenon DEF SizeOf, TypeInParens
    <2>2. Tok = "(" => Ordinary BY OrdinaryKinds, Zenon
    <2>3. /\ F("Unary") \in Plain /\ Expect(")") \in Plain /\ Emit("sizeof type") \in Plain
          /\ Emit("sizeof") \in Plain
      <3>1. "sizeof" \in Syms /\ "sizeof type" \in Syms BY Zenon DEF Syms
      <3> QED BY <3>1, PlainFrames, Zenon
    <2>4. <<F("Unary"), Emit("sizeof")>> \in Seq(Plain) BY <2>3, PlainLists, Zenon
    <2>5. ASSUME Tok = "(", Do(1, <<F("DeclSpec"), F("TypeName"), Expect(")"),
                                    Emit("sizeof type")>>, <<>>)
          PROVE  ParserInv'
      <3> DEFINE last == Emit("sizeof type")
                 front == <<F("TypeName"), Expect(")"), last>>
      <3>0. last \in Plain BY <2>3
      <3>1. Do(1, <<F("DeclSpec"), F("TypeName"), Expect(")"), last>>, <<>>) BY <2>5
      <3> HIDE DEF last
      <3>2. <<F("DeclSpec"), F("TypeName"), Expect(")"), last>> = <<F("DeclSpec")>> \o front
        <4> DEFINE x1 == F("DeclSpec")
                   x2 == F("TypeName")
                   x3 == Expect(")")
        <4> HIDE DEF x1, x2, x3
        <4>1. <<x1, x2, x3, last>> = <<x1>> \o <<x2, x3, last>> BY FourSplit
        <4> QED BY <4>1 DEF x1, x2, x3
      <3>3. Do(1, <<F("DeclSpec")>> \o front, <<>>) BY <3>1, <3>2
      <3>4. front \in Seq(Plain) BY <3>0, <2>3, <1>8, PlainLists, Zenon
      <3>5. front # <<>> /\ front[1] = F("TypeName") BY <3>4
      <3>6. front[1].rule \in {"LocalDeclarator", "TypeName"} BY <3>5, <1>8
      <3> HIDE DEF front
      <3> QED BY <3>3, <3>4, <3>5, <3>6, <2>2, <2>5, <1>1, <1>2, CallsBy
    <2> QED BY <2>1, <2>2, <2>4, <2>5, <1>2, <1>7, Zenon
  <1> QED BY <1>10, <1>11, <1>12, <1>13, <1>14, <1>15

-----------------------------------------------------------------------------
(* The loops, the braces and the recovery.                                 *)

LEMMA Pops ==
  ASSUME ParserInv, Ready, NEW n \in {0, 1}, NEW nodes, Do(n, <<>>, nodes),
         Top.rule \notin Openers,
         n = 1 => Tok # "eof" /\ (Tok # RBrace \/ Open(stack) = {}),
         n = 0 => (Leaves(text, pos, stack) => Leaves(text, pos, Tail(stack)))
  PROVE  ParserInv'
  <1> DEFINE rest == Tail(stack)
  <1>1. /\ pos \in Nat /\ pos + n \in Nat /\ pos <= pos + n /\ StackOK(rest, pos)
        /\ Open(rest) = Open(stack)
    BY Before
  <1> HIDE DEF rest
  <1>2. <<>> \o rest = rest
    <2>1. rest \in Seq(Frames) BY <1>1 DEF StackOK
    <2> QED BY <2>1, ConcatEmptySeq
  <1>3. StackOK(rest, pos + n) BY <1>1, StackLater
  <1>4. Kept(text, pos + n, Open(rest), pairs)
    <2>1. Kept(text, pos, Open(rest), pairs) BY <1>1 DEF ParserInv
    <2>2. CASE n = 0
      <3>1. pos + n = pos BY <2>2, <1>1
      <3> QED BY <3>1, <2>1
    <2>3. CASE n = 1
      <3>1. text[pos + 1] # RBrace \/ Open(rest) = {} BY <2>3, <1>1 DEF Tok
      <3>2. Kept(text, pos + 1, Open(rest), pairs) BY <2>1, <3>1, <1>1, KeptSkip
      <3> QED BY <3>2, <2>3
    <2> QED BY <2>2, <2>3
  <1>5. Moves(n, <<>>) BY DoMoves
  <1> DEFINE front == <<>>
  <1>6. front = <<>> /\ front \o rest = rest /\ Moves(n, front) BY <1>2, <1>5
  <1> HIDE DEF front
  <1> QED BY <1>3, <1>4, <1>6, Stepped DEF rest

(* A step to a stack whose top calls nothing by name.                      *)
LEMMA Lands ==
  ASSUME ParserInv, Ready, NEW n \in {0, 1}, NEW front, NEW nodes, Do(n, front, nodes),
         NEW new, new = front \o Tail(stack), StackOK(new, pos + n),
         Kept(text, pos + n, Open(new), pairs),
         n = 1 => Tok # "eof",
         n = 0 /\ Leaves(text, pos, stack) => Leaves(text, pos, new),
         new # <<>>, new[1].rule \notin {"Compound", "FinishVarDecl"}
  PROVE  ParserInv'
  <1>1. Place(source, text, pos, stack) /\ Reports(text, pos, stack, diags)
        /\ pos + 1 <= Len(text)
    BY Before DEF ParserInv
  <1>2. Moves(n, front) BY DoMoves
  <1>3. pos' = pos + n /\ stack' = new /\ source' = source /\ text' = text /\ diags' = diags
        /\ pairs' = pairs
    BY <1>2 DEF Moves
  <1>4. Place(source, text, pos + n, new) /\ Reports(text, pos + n, new, diags)
    BY <1>1, Moved DEF Tok
  <1> QED BY <1>3, <1>4 DEF ParserInv

LEMMA Running ==
  ASSUME ParserInv, Ready, Run
  PROVE  ParserInv'
  <1>1. /\ At("Run")
        /\ \/ Tok = "eof" /\ Do(0, <<>>, <<>>)
           \/ Tok # "eof" /\ Do(0, <<F("DeclSpec"), F("ExternalDecl"), Frame("Run", pos, "")>>, <<>>)
    BY Zenon DEF Run
  <1>2. Top.rule = "Run" /\ Top.rule \notin Openers BY <1>1 DEF At, Openers
  <1>3. 0 \in {0, 1} /\ 0 # 1 OBVIOUS
  <1>4. CASE Tok = "eof" /\ Do(0, <<>>, <<>>)
    <2>1. Leaves(text, pos, Tail(stack)) BY <1>4 DEF Leaves, Tok
    <2> QED BY <2>1, <1>2, <1>3, <1>4, Pops
  <1>5. CASE Tok # "eof" /\ Do(0, <<F("DeclSpec"), F("ExternalDecl"), Frame("Run", pos, "")>>, <<>>)
    <2> DEFINE spec == F("DeclSpec")
               decl == F("ExternalDecl")
               run == Frame("Run", pos, "")
               front == <<spec, decl, run>>
               rest == Tail(stack)
               s1 == <<run>> \o rest
               s2 == <<decl>> \o s1
               s3 == <<spec>> \o s2
    <2>1. pos \in Nat /\ pos + 0 = pos /\ rest = <<>> /\ StackOK(rest, pos)
          /\ Open(rest) = Open(stack)
      BY <1>2, Before
    <2>2. /\ run \in Frames /\ run.rule = "Run" /\ run.n = pos
          /\ spec \in Frames /\ spec.rule = "DeclSpec"
          /\ decl \in Frames /\ decl.rule = "ExternalDecl"
      <3>1. "" \in Syms BY Zenon DEF Syms
      <3>2. "Run" \in Rules /\ "DeclSpec" \in Rules /\ "ExternalDecl" \in Rules BY DEF Rules
      <3>3. \A s \in Syms : Frame("Run", pos, s) \in Frames /\ Frame("Run", pos, s).rule = "Run"
                            /\ Frame("Run", pos, s).n = pos
        BY <3>2, <2>1, FrameFacts
      <3>4. run \in Frames /\ run.rule = "Run" /\ run.n = pos BY <3>1, <3>3, Zenon
      <3> QED BY <3>2, <3>4, CallFacts
    <2>3. Do(0, front, <<>>) BY <1>5
    <2>4. front = <<spec>> \o (<<decl>> \o <<run>>)
      <3> HIDE DEF run, spec, decl
      <3>1. <<spec, decl, run>> = <<spec>> \o <<decl, run>> BY <2>2, FrontSplit
      <3>2. <<decl, run>> = <<decl>> \o <<run>> BY <2>2, FrontSplit
      <3> QED BY <3>1, <3>2
    <2>5. front \o rest = s3
      <3> HIDE DEF run, spec, decl, front
      <3>1. rest \in Seq(Frames) BY <2>1 DEF StackOK
      <3>2. /\ <<run>> \in Seq(Frames) /\ <<decl>> \in Seq(Frames) /\ <<spec>> \in Seq(Frames)
        BY <2>2
      <3>3. <<decl>> \o <<run>> \in Seq(Frames) BY <3>2, ConcatProperties
      <3>4. (<<spec>> \o (<<decl>> \o <<run>>)) \o rest = <<spec>> \o ((<<decl>> \o <<run>>) \o rest)
        BY <3>1, <3>2, <3>3, ConcatAssociative
      <3>5. (<<decl>> \o <<run>>) \o rest = <<decl>> \o (<<run>> \o rest)
        BY <3>1, <3>2, ConcatAssociative
      <3> QED BY <2>4, <3>4, <3>5
    <2> HIDE DEF run, spec, decl, rest, front
    <2>6. StackOK(s1, pos) /\ s1 # <<>> /\ s1[1] = run /\ Open(s1) = Open(rest)
      <3>1. /\ FrameOK(run, pos) /\ run.rule \notin Openers
            /\ IF rest = <<>> THEN run.rule = "Run" ELSE Above(run, rest[1])
        BY <2>1, <2>2 DEF FrameOK, Loops, Openers
      <3>2. /\ StackOK(s1, pos) /\ s1 # <<>> /\ s1[1] = run
            /\ Open(s1) = Open(rest) \cup (IF run.rule \in Openers THEN {run.n} ELSE {})
        <4>1. StackOK(rest, pos) /\ pos \in Nat /\ run \in Frames BY <2>1, <2>2
        <4> QED BY <4>1, <3>1, Pushed
      <3> QED BY <3>1, <3>2
    <2> HIDE DEF s1
    <2>7. StackOK(s2, pos) /\ s2 # <<>> /\ s2[1] = decl /\ Open(s2) = Open(s1)
      <3>1. FrameOK(decl, pos) /\ decl.rule \notin Openers /\ Above(decl, s1[1])
        BY <2>2, <2>6 DEF FrameOK, Loops, Openers, Above, TopOnly, Syncs
      <3>2. /\ StackOK(s2, pos) /\ s2 # <<>> /\ s2[1] = decl
            /\ Open(s2) = Open(s1) \cup (IF decl.rule \in Openers THEN {decl.n} ELSE {})
        BY <2>1, <2>2, <2>6, <3>1, Pushed
      <3> QED BY <3>1, <3>2
    <2> HIDE DEF s2
    <2>8. StackOK(s3, pos) /\ s3 # <<>> /\ s3[1] = spec /\ Open(s3) = Open(s2)
      <3>1. FrameOK(spec, pos) /\ spec.rule \notin Openers /\ Above(spec, s2[1])
        BY <2>2, <2>7 DEF FrameOK, Loops, Openers, Above, TopOnly, Syncs
      <3>2. /\ StackOK(s3, pos) /\ s3 # <<>> /\ s3[1] = spec
            /\ Open(s3) = Open(s2) \cup (IF spec.rule \in Openers THEN {spec.n} ELSE {})
        BY <2>1, <2>2, <2>7, <3>1, Pushed
      <3> QED BY <3>1, <3>2
    <2> HIDE DEF s3
    <2>9. Kept(text, pos, Open(s3), pairs) BY <2>1, <2>6, <2>7, <2>8 DEF ParserInv
    <2>10. ~Leaves(text, pos, stack) BY <1>2, <1>5, Before DEF Leaves, Syncs, Tok
    <2>11. s3 = front \o Tail(stack) BY <2>5 DEF rest
    <2>12. s3[1].rule \notin {"Compound", "FinishVarDecl"} BY <2>2, <2>8
    <2>13. StackOK(s3, pos + 0) /\ Kept(text, pos + 0, Open(s3), pairs) BY <2>1, <2>8, <2>9
    <2> QED BY <2>3, <2>8, <2>10, <2>11, <2>12, <2>13, <1>3, Lands
  <1> QED BY <1>1, <1>4, <1>5

(* A frame takes the place of the innermost one: it opens a brace, goes on *)
(* inside the same brace, or holds none.                                   *)
LEMMA OpensBrace ==
  ASSUME ParserInv, Ready, Top.rule \notin Openers \cup {"Run"}, Tok = LBrace,
         NEW f \in Frames, f.rule \in {"InitList", "BlockEnd"}, f.n = pos + 1
  PROVE  /\ StackOK(<<f>> \o Tail(stack), pos + 1) /\ <<f>> \o Tail(stack) # <<>>
         /\ (<<f>> \o Tail(stack))[1] = f
         /\ Kept(text, pos + 1, Open(<<f>> \o Tail(stack)), pairs)
  <1> DEFINE rest == Tail(stack)
  <1>1. /\ pos \in Nat /\ pos + 1 \in Nat /\ pos <= pos + 1 /\ StackOK(rest, pos) /\ rest # <<>>
        /\ Open(rest) = Open(stack) /\ rest[1].rule \notin TopOnly
    BY Before DEF Above
  <1>2. Kept(text, pos, Open(rest), pairs) BY <1>1 DEF ParserInv
  <1> HIDE DEF rest
  <1>3. Kept(text, pos + 1, Open(rest) \cup {pos + 1}, pairs) BY <1>1, <1>2, KeptOpen DEF Tok
  <1>4. StackOK(rest, pos + 1) BY <1>1, StackLater
  <1>5. f.rule \in Openers /\ FrameOK(f, pos + 1) /\ Above(f, rest[1])
    BY <1>1 DEF Openers, FrameOK, Loops, Above
  <1>6. \A x \in Open(rest) : f.n > x
    <2>1. Open(rest) \subseteq 1..pos BY <1>2 DEF Kept
    <2> QED BY <2>1, <1>1
  <1>7. /\ StackOK(<<f>> \o rest, pos + 1) /\ <<f>> \o rest # <<>> /\ (<<f>> \o rest)[1] = f
        /\ Open(<<f>> \o rest) = Open(rest) \cup (IF f.rule \in Openers THEN {f.n} ELSE {})
    BY <1>1, <1>4, <1>5, <1>6, Pushed
  <1>8. Open(<<f>> \o rest) = Open(rest) \cup {pos + 1} BY <1>5, <1>7
  <1> QED BY <1>3, <1>7, <1>8 DEF rest

LEMMA StaysInBrace ==
  ASSUME ParserInv, Ready, Top.rule \in Openers,
         NEW f \in Frames, f.rule \in Openers, f.n = Top.n
  PROVE  /\ StackOK(<<f>> \o Tail(stack), pos) /\ <<f>> \o Tail(stack) # <<>>
         /\ (<<f>> \o Tail(stack))[1] = f /\ Open(<<f>> \o Tail(stack)) = Open(stack)
  <1> DEFINE rest == Tail(stack)
  <1>1. /\ pos \in Nat /\ StackOK(stack, pos) /\ stack # <<>> /\ Top = stack[1]
        /\ FrameOK(Top, pos) /\ Top.rule # "Run"
    BY Before DEF Openers
  <1>2. /\ StackOK(rest, pos) /\ rest # <<>> /\ Above(Top, rest[1])
        /\ Open(rest) = Open(stack) \ {Top.n} /\ Top.n \in Open(stack)
        /\ \A x \in Open(rest) : x < Top.n
    BY <1>1, Returned
  <1> HIDE DEF rest
  <1>3. FrameOK(f, pos) /\ Above(f, rest[1])
    BY <1>1, <1>2 DEF FrameOK, Openers, Loops, Above
  <1>4. \A x \in Open(rest) : f.n > x
    <2>1. f.n \in Nat BY DEF Frames
    <2>2. Kept(text, pos, Open(stack), pairs) BY DEF ParserInv
    <2>3. \A x \in Open(rest) : x \in Nat BY <1>2, <2>2 DEF Kept
    <2> QED BY <2>1, <2>3, <1>2
  <1>5. /\ StackOK(<<f>> \o rest, pos) /\ <<f>> \o rest # <<>> /\ (<<f>> \o rest)[1] = f
        /\ Open(<<f>> \o rest) = Open(rest) \cup (IF f.rule \in Openers THEN {f.n} ELSE {})
    BY <1>1, <1>2, <1>3, <1>4, Pushed
  <1>6. Open(<<f>> \o rest) = Open(stack) BY <1>2, <1>5
  <1> QED BY <1>5, <1>6 DEF rest

(* The "}" of the innermost open brace.                                    *)
LEMMA Pairs ==
  ASSUME ParserInv, Ready, Top.rule \in Openers, NEW nodes, Pair(Top.n, nodes)
  PROVE  ParserInv'
  <1> DEFINE rest == Tail(stack)
             o == Top.n
  <1>1. /\ Tok = RBrace /\ pos' = pos + 1 /\ stack' = <<>> \o rest
        /\ source' = source /\ text' = text /\ diags' = diags
        /\ pairs' = pairs \cup {<<o, pos + 1>>}
    BY Zenon DEF Pair, Step, RBrace
  <1>2. /\ pos \in Nat /\ pos + 1 <= Len(text) /\ StackOK(stack, pos) /\ stack # <<>>
        /\ Top = stack[1] /\ Top.rule # "Run"
    BY Before DEF Openers
  <1>3. /\ StackOK(rest, pos) /\ rest # <<>> /\ Above(Top, rest[1])
        /\ Open(rest) = Open(stack) \ {o} /\ o \in Open(stack)
        /\ \A x \in Open(rest) : x < o
    BY <1>2, Returned
  <1>4. Kept(text, pos, Open(stack), pairs)
        /\ Place(source, text, pos, stack) /\ Reports(text, pos, stack, diags)
    BY DEF ParserInv
  <1> HIDE DEF rest, o
  <1>5. Kept(text, pos + 1, Open(rest), pairs \cup {<<o, pos + 1>>})
    BY <1>1, <1>2, <1>3, <1>4, KeptPair DEF Tok
  <1>6. StackOK(rest, pos + 1) BY <1>2, <1>3, StackLater
  <1>7. <<>> \o rest = rest
    <2>1. rest \in Seq(Frames) BY <1>3 DEF StackOK
    <2> QED BY <2>1, ConcatEmptySeq
  <1>8. rest[1].rule \notin TopOnly BY <1>3 DEF Above
  <1>9. Tok # "eof"
    <2>1. RBrace # "eof" BY Zenon DEF RBrace
    <2> QED BY <2>1, <1>1
  <1>10. Place(source, text, pos + 1, rest) /\ Reports(text, pos + 1, rest, diags)
    <2>1. rest[1].rule # "Compound" /\ rest[1].rule # "FinishVarDecl"
      BY <1>8 DEF TopOnly
    <2>2. 1 \in {0, 1} /\ 1 # 0 OBVIOUS
    <2> QED BY <2>1, <2>2, <1>2, <1>3, <1>4, <1>6, <1>9, Moved DEF Tok
  <1> QED BY <1>1, <1>5, <1>7, <1>10 DEF ParserInv

LEMMA Lists ==
  ASSUME ParserInv, Ready, Initializer \/ InitList \/ InitComma
  PROVE  ParserInv'
  <1>1. 0 \in {0, 1} /\ 1 \in {0, 1} /\ 0 # 1 /\ 1 # 0 OBVIOUS
  <1>2. /\ pos \in Nat /\ Top.n \in Nat /\ "InitList" \in Rules /\ "InitComma" \in Rules
        /\ "InitList" \in Openers /\ "InitComma" \in Openers
    BY Before DEF Rules, Openers
  <1>3. "" \in Syms BY Zenon DEF Syms
  <1>4. \A n \in Nat : \A s \in Syms :
          /\ Frame("InitList", n, s) \in Frames /\ Frame("InitList", n, s).rule = "InitList"
          /\ Frame("InitList", n, s).n = n
          /\ Frame("InitComma", n, s) \in Frames /\ Frame("InitComma", n, s).rule = "InitComma"
          /\ Frame("InitComma", n, s).n = n
    BY <1>2, FrameFacts
  <1>5. CASE Initializer
    <2>1. /\ At("Initializer")
          /\ \/ Tok = LBrace /\ Do(1, <<Frame("InitList", pos + 1, "")>>, <<"list">>)
             \/ Do(0, Expr, <<>>)
      BY <1>5, Zenon DEF Initializer, LBrace
    <2>2. Midway /\ Top.rule \notin Openers \cup {"Run"}
      BY <2>1 DEF Midway, At, Syncs, Loops, Openers
    <2>3. ASSUME Do(0, Expr, <<>>) PROVE ParserInv'
      <3>1. Goes BY <2>3, <1>1, PlainLists, GoesBy
      <3> QED BY <3>1, <2>2, GoesOn
    <2>4. ASSUME Tok = LBrace, Do(1, <<Frame("InitList", pos + 1, "")>>, <<"list">>)
          PROVE  ParserInv'
      <3> DEFINE f == Frame("InitList", pos + 1, "")
                 new == <<f>> \o Tail(stack)
      <3>1. f \in Frames /\ f.rule = "InitList" /\ f.n = pos + 1
        <4>1. pos + 1 \in Nat BY <1>2
        <4> QED BY <4>1, <1>3, <1>4, Zenon
      <3>2. \E nodes : Do(1, <<f>>, nodes) BY <2>4, Zenon
      <3> HIDE DEF f
      <3>3. /\ StackOK(new, pos + 1) /\ new # <<>> /\ new[1] = f
            /\ Kept(text, pos + 1, Open(new), pairs)
        BY <3>1, <2>2, <2>4, OpensBrace
      <3>4. Tok # "eof"
        <4>1. LBrace # "eof" BY Zenon DEF LBrace
        <4> QED BY <4>1, <2>4
      <3>5. new = <<f>> \o Tail(stack) OBVIOUS
      <3> HIDE DEF new
      <3> QED BY <3>1, <3>2, <3>3, <3>4, <3>5, <1>1, Lands
    <2> QED BY <2>1, <2>3, <2>4
  <1>6. CASE InitList
    <2>1. /\ At("InitList")
          /\ \/ \E nodes : Pair(Top.n, nodes)
             \/ Do(0, <<F("Initializer"), Frame("InitComma", Top.n, "")>>, <<>>)
      BY <1>6, Zenon DEF InitList
    <2>2. Top.rule \in Openers /\ Top.rule \notin {"Block", "BlockEnd"} \cup Syncs
      BY <2>1 DEF At, Openers, Syncs
    <2>3. ASSUME Do(0, <<F("Initializer"), Frame("InitComma", Top.n, "")>>, <<>>)
          PROVE  ParserInv'
      <3> DEFINE g == F("Initializer")
                 f == Frame("InitComma", Top.n, "")
                 s1 == <<f>> \o Tail(stack)
                 s2 == <<g>> \o s1
                 front == <<g, f>>
      <3>1. f \in Frames /\ f.rule = "InitComma" /\ f.n = Top.n BY <1>2, <1>3, <1>4, Zenon
      <3>2. g \in Plain /\ g \in Frames BY PlainFrames DEF Plain
      <3>3. Do(0, front, <<>>) BY <2>3
      <3> HIDE DEF f, g
      <3>4. front \o Tail(stack) = s2
        <4>1. front = <<g>> \o <<f>> BY <3>1, <3>2, FrontSplit
        <4>2. <<f>> \in Seq(Frames) /\ <<g>> \in Seq(Frames) BY <3>1, <3>2
        <4>3. Tail(stack) \in Seq(Frames) BY Before DEF StackOK
        <4> QED BY <4>1, <4>2, <4>3, ConcatAssociative
      <3> HIDE DEF front
      <3>5. StackOK(s1, pos) /\ s1 # <<>> /\ s1[1] = f /\ Open(s1) = Open(stack)
        <4>1. f.rule \in Openers BY <3>1, <1>2
        <4> QED BY <4>1, <3>1, <2>2, StaysInBrace
      <3> HIDE DEF s1
      <3>6. /\ StackOK(s2, pos) /\ s2 # <<>> /\ Open(s2) = Open(s1)
            /\ s2[1].rule \notin TopOnly
        <4>1. <<g>> \in Seq(Plain) BY <3>2, PlainLists
        <4>2. s1[1].rule \notin TopOnly BY <3>1, <3>5 DEF TopOnly, Syncs
        <4> QED BY <4>1, <4>2, <3>5, <1>2, PlainPushed
      <3> HIDE DEF s2
      <3>7. Kept(text, pos, Open(s2), pairs) BY <3>5, <3>6 DEF ParserInv
      <3>8. Leaves(text, pos, stack) => Leaves(text, pos, s2)
        BY <2>2, Before DEF Leaves
      <3>9. pos + 0 = pos /\ s2[1].rule \notin {"Compound", "FinishVarDecl"}
        BY <1>2, <3>6 DEF TopOnly
      <3> QED BY <3>3, <3>4, <3>6, <3>7, <3>8, <3>9, <1>1, Lands
    <2> QED BY <2>1, <2>2, <2>3, Pairs
  <1>7. CASE InitComma
    <2>1. /\ At("InitComma")
          /\ \/ \E nodes : Pair(Top.n, nodes)
             \/ Tok = "," /\ Do(1, <<Frame("InitList", Top.n, "")>>, <<>>)
             \/ Fail(0, pos + 1)
      BY <1>7, Zenon DEF InitComma
    <2>2. Top.rule \in Openers /\ Top.rule \notin {"Block", "BlockEnd"} \cup Syncs
      BY <2>1 DEF At, Openers, Syncs
    <2>3. ASSUME Tok = ",", Do(1, <<Frame("InitList", Top.n, "")>>, <<>>) PROVE ParserInv'
      <3> DEFINE f == Frame("InitList", Top.n, "")
                 new == <<f>> \o Tail(stack)
      <3>1. f \in Frames /\ f.rule = "InitList" /\ f.n = Top.n BY <1>2, <1>3, <1>4, Zenon
      <3>2. Do(1, <<f>>, <<>>) BY <2>3, Zenon
      <3>3. Ordinary BY <2>3, OrdinaryKinds, Zenon
      <3>4. Tok # "eof" /\ text[pos + 1] # RBrace BY <3>3 DEF Ordinary, Tok
      <3> HIDE DEF f
      <3>5. StackOK(new, pos) /\ new # <<>> /\ new[1] = f /\ Open(new) = Open(stack)
        <4>1. f.rule \in Openers BY <3>1, <1>2
        <4> QED BY <4>1, <3>1, <2>2, StaysInBrace
      <3>6. new = <<f>> \o Tail(stack) OBVIOUS
      <3> HIDE DEF new
      <3>7. StackOK(new, pos + 1)
        <4>1. pos + 1 \in Nat /\ pos <= pos + 1 BY <1>2
        <4> QED BY <4>1, <3>5, <1>2, StackLater
      <3>8. Kept(text, pos + 1, Open(new), pairs)
        <4>1. Kept(text, pos, Open(new), pairs) BY <3>5 DEF ParserInv
        <4> QED BY <4>1, <3>4, <1>2, KeptSkip
      <3>9. new[1].rule \notin {"Compound", "FinishVarDecl"} BY <3>1, <3>5
      <3>10. 1 \in {0, 1} /\ 1 # 0 OBVIOUS
      <3> HIDE <2>3
      <3> QED BY <3>2, <3>4, <3>5, <3>6, <3>7, <3>8, <3>9, <3>10, Lands
    <2>4. ASSUME Fail(0, pos + 1) PROVE ParserInv'
      <3>1. Leaves(text, pos, stack) => Tok = "eof" BY <2>2, Before DEF Leaves, Tok
      <3> QED BY <3>1, <2>4, <1>1, Broken
    <2> QED BY <2>1, <2>2, <2>3, <2>4, Pairs, Zenon
  <1> QED BY <1>5, <1>6, <1>7

LEMMA TwoCalls ==
  ASSUME NEW g \in Frames, NEW f \in Frames, NEW st \in Seq(Frames)
  PROVE  <<g, f>> \o st = <<g>> \o (<<f>> \o st)
  <1>1. <<g, f>> = <<g>> \o <<f>> BY FrontSplit
  <1>2. <<f>> \in Seq(Frames) /\ <<g>> \in Seq(Frames) OBVIOUS
  <1>3. (<<g>> \o <<f>>) \o st = <<g>> \o (<<f>> \o st) BY <1>2, ConcatAssociative
  <1> QED BY <1>1, <1>3

LEMMA Blocks ==
  ASSUME ParserInv, Ready, Compound \/ Block \/ BlockEnd
  PROVE  ParserInv'
  <1>1. 0 \in {0, 1} /\ 1 \in {0, 1} /\ 0 # 1 /\ 1 # 0 OBVIOUS
  <1>2. /\ pos \in Nat /\ pos + 1 \in Nat /\ pos <= pos + 1 /\ pos + 0 = pos
        /\ stack # <<>> /\ Top = stack[1] /\ Tail(stack) \in Seq(Frames)
        /\ StackOK(Tail(stack), pos)
        /\ "Block" \in Rules /\ "BlockEnd" \in Rules /\ "Statement" \in Rules
    <2>1. StackOK(Tail(stack), pos) /\ pos \in Nat /\ stack # <<>> /\ Top = stack[1]
      BY Before
    <2> QED BY <2>1 DEF Rules, StackOK
  <1>3. \A n \in Nat :
          /\ Frame("Block", n, "") \in Frames /\ Frame("Block", n, "").rule = "Block"
          /\ Frame("Block", n, "").n = n
          /\ Frame("BlockEnd", n, "") \in Frames /\ Frame("BlockEnd", n, "").rule = "BlockEnd"
          /\ Frame("BlockEnd", n, "").n = n
    <2>1. "" \in Syms BY Zenon DEF Syms
    <2>2. \A n \in Nat : \A s \in Syms :
            /\ Frame("Block", n, s) \in Frames /\ Frame("Block", n, s).rule = "Block"
            /\ Frame("Block", n, s).n = n
            /\ Frame("BlockEnd", n, s) \in Frames /\ Frame("BlockEnd", n, s).rule = "BlockEnd"
            /\ Frame("BlockEnd", n, s).n = n
      BY <1>2, FrameFacts
    <2> QED BY <2>1, <2>2, Zenon
  <1>4. CASE Compound
    <2> DEFINE f == Frame("BlockEnd", pos + 1, "")
               g == Frame("Block", pos + 1, "")
               s1 == <<f>> \o Tail(stack)
               s2 == <<g>> \o s1
               front == <<g, f>>
    <2>1. At("Compound") /\ \E nodes : Do(1, front, nodes) BY <1>4, Zenon DEF Compound
    <2>2. Top.rule = "Compound" /\ Top.rule \notin Openers \cup {"Run"}
      BY <2>1 DEF At, Openers
    <2>3. Tok = LBrace /\ Tok # "eof"
      <3>1. Tok = LBrace BY <2>2, <1>2 DEF ParserInv, Place, Tok
      <3>2. LBrace # "eof" BY Zenon DEF LBrace
      <3> QED BY <3>1, <3>2
    <2>4. /\ f \in Frames /\ f.rule = "BlockEnd" /\ f.n = pos + 1
          /\ g \in Frames /\ g.rule = "Block" /\ g.n = pos + 1
      BY <1>2, <1>3, Zenon
    <2> HIDE DEF f, g
    <2>5. front \o Tail(stack) = s2
      <3>1. Tail(stack) \in Seq(Frames) BY <1>2
      <3> QED BY <3>1, <2>4, TwoCalls
    <2> HIDE DEF front
    <2>6. /\ StackOK(s1, pos + 1) /\ s1 # <<>> /\ s1[1] = f
          /\ Kept(text, pos + 1, Open(s1), pairs)
      BY <2>2, <2>3, <2>4, OpensBrace
    <2> HIDE DEF s1
    <2>7. StackOK(s2, pos + 1) /\ s2 # <<>> /\ s2[1] = g /\ Open(s2) = Open(s1)
      <3>1. FrameOK(g, pos + 1) /\ g.rule \notin Openers /\ Above(g, s1[1])
        BY <2>4, <2>6, <1>2 DEF FrameOK, Loops, Openers, Above, TopOnly, Syncs
      <3>2. /\ StackOK(s2, pos + 1) /\ s2 # <<>> /\ s2[1] = g
            /\ Open(s2) = Open(s1) \cup (IF g.rule \in Openers THEN {g.n} ELSE {})
        BY <1>2, <2>4, <2>6, <3>1, Pushed
      <3> QED BY <3>1, <3>2
    <2> HIDE DEF s2
    <2>8. Kept(text, pos + 1, Open(s2), pairs) BY <2>6, <2>7
    <2>9. s2[1].rule \notin {"Compound", "FinishVarDecl"} BY <2>4, <2>7
    <2> HIDE <1>4
    <2> QED BY <2>1, <2>3, <2>5, <2>7, <2>8, <2>9, <1>1, Lands
  <1>5. CASE Block
    <2>1. /\ At("Block")
          /\ \/ (Tok = RBrace \/ Tok = "eof") /\ Do(0, <<>>, <<>>)
             \/ /\ Tok # RBrace /\ Tok # "eof"
                /\ Do(0, <<F("Statement"), Frame("Block", pos, "")>>, <<>>)
      BY <1>5, Zenon DEF Block, RBrace
    <2>2. Top.rule = "Block" /\ Top.rule \notin Openers BY <2>1 DEF At, Openers
    <2>3. Tail(stack) # <<>> /\ Tail(stack)[1].rule = "BlockEnd"
      BY <2>2, Before DEF Above
    <2>4. CASE (Tok = RBrace \/ Tok = "eof") /\ Do(0, <<>>, <<>>)
      <3>1. Leaves(text, pos, Tail(stack)) BY <2>3, <2>4 DEF Leaves, Tok
      <3> QED BY <3>1, <2>2, <2>4, <1>1, Pops
    <2>5. CASE /\ Tok # RBrace /\ Tok # "eof"
               /\ Do(0, <<F("Statement"), Frame("Block", pos, "")>>, <<>>)
      <3> DEFINE f == Frame("Block", pos, "")
                 g == F("Statement")
                 s1 == <<f>> \o Tail(stack)
                 s2 == <<g>> \o s1
                 front == <<g, f>>
      <3>1. f \in Frames /\ f.rule = "Block" /\ f.n = pos BY <1>2, <1>3, Zenon
      <3>2. g \in Plain /\ g \in Frames BY PlainFrames DEF Plain
      <3>3. Do(0, front, <<>>) BY <2>5
      <3> HIDE DEF f, g
      <3>4. front \o Tail(stack) = s2
        <4>1. Tail(stack) \in Seq(Frames) BY <1>2
        <4> QED BY <4>1, <3>1, <3>2, TwoCalls
      <3> HIDE DEF front
      <3>5. StackOK(s1, pos) /\ s1 # <<>> /\ s1[1] = f /\ Open(s1) = Open(stack)
        <4>1. FrameOK(f, pos) /\ f.rule \notin Openers /\ Above(f, Tail(stack)[1])
          BY <3>1, <2>3, <1>2 DEF FrameOK, Loops, Openers, Above, TopOnly, Syncs
        <4>2. /\ StackOK(s1, pos) /\ s1 # <<>> /\ s1[1] = f
              /\ Open(s1) = Open(Tail(stack)) \cup (IF f.rule \in Openers THEN {f.n} ELSE {})
          <5> DEFINE rest == Tail(stack)
          <5>1. pos \in Nat /\ StackOK(rest, pos) /\ rest # <<>> BY <1>2, <2>3
          <5>2. FrameOK(f, pos) /\ f.rule \notin Openers /\ Above(f, rest[1]) BY <4>1
          <5>3. s1 = <<f>> \o rest OBVIOUS
          <5> HIDE DEF rest, s1
          <5>4. /\ StackOK(<<f>> \o rest, pos) /\ <<f>> \o rest # <<>>
                /\ (<<f>> \o rest)[1] = f
                /\ Open(<<f>> \o rest) = Open(rest) \cup (IF f.rule \in Openers THEN {f.n} ELSE {})
            BY <5>1, <5>2, <3>1, Pushed
          <5> QED BY <5>3, <5>4 DEF rest
        <4>3. Open(Tail(stack)) = Open(stack) BY <2>2, Before
        <4> QED BY <4>1, <4>2, <4>3
      <3> HIDE DEF s1
      <3>6. StackOK(s2, pos) /\ s2 # <<>> /\ Open(s2) = Open(s1) /\ s2[1].rule \notin TopOnly
        <4>1. <<g>> \in Seq(Plain) BY <3>2, PlainLists
        <4>2. s1[1].rule \notin TopOnly BY <3>1, <3>5 DEF TopOnly, Syncs
        <4> QED BY <4>1, <4>2, <3>5, <1>2, PlainPushed
      <3> HIDE DEF s2
      <3>7. Kept(text, pos, Open(s2), pairs) BY <3>5, <3>6 DEF ParserInv
      <3>8. ~Leaves(text, pos, stack) BY <2>2, <2>5, <1>2 DEF Leaves, Syncs, Tok
      <3>9. s2[1].rule \notin {"Compound", "FinishVarDecl"} BY <3>6 DEF TopOnly
      <3>10. StackOK(s2, pos + 0) /\ Kept(text, pos + 0, Open(s2), pairs) BY <3>6, <3>7, <1>2
      <3> QED BY <3>3, <3>4, <3>6, <3>8, <3>9, <3>10, <1>1, Lands
    <2> QED BY <2>1, <2>4, <2>5
  <1>6. CASE BlockEnd
    <2>1. /\ At("BlockEnd")
          /\ \/ \E nodes : Pair(Top.n, nodes)
             \/ Tok # RBrace /\ Fail(0, pos + 1)
      BY <1>6, Zenon DEF BlockEnd, RBrace
    <2>2. Top.rule \in Openers /\ Top.rule \notin Syncs BY <2>1 DEF At, Openers, Syncs
    <2>3. ASSUME Tok # RBrace, Fail(0, pos + 1) PROVE ParserInv'
      <3>1. Leaves(text, pos, stack) => Tok = "eof" BY <2>2, <2>3, <1>2 DEF Leaves, Tok
      <3> QED BY <3>1, <2>3, <1>1, Broken
    <2> QED BY <2>1, <2>2, <2>3, Pairs
  <1> QED BY <1>4, <1>5, <1>6

(* Recovery skips a token.                                                 *)
LEMMA Skips ==
  ASSUME ParserInv, Ready, Top.rule \in Syncs, NEW f \in Frames, f.rule = Top.rule,
         NEW nodes, Do(1, <<f>>, nodes), Tok # "eof", Tok # RBrace \/ Open(stack) = {}
  PROVE  ParserInv'
  <1> DEFINE rest == Tail(stack)
             new == <<f>> \o rest
  <1>1. /\ pos \in Nat /\ pos + 1 \in Nat /\ pos <= pos + 1 /\ StackOK(rest, pos)
        /\ rest # <<>> /\ Above(Top, rest[1]) /\ Top.rule \notin Openers
        /\ Open(rest) = Open(stack)
    <2>1. Top.rule # "Run" /\ Top.rule \notin Openers BY DEF Syncs, Openers
    <2> QED BY <2>1, Before
  <1>2. Kept(text, pos, Open(rest), pairs) BY <1>1 DEF ParserInv
  <1>3. new = <<f>> \o Tail(stack) OBVIOUS
  <1> HIDE DEF rest
  <1>4. f.rule \notin Openers /\ FrameOK(f, pos) /\ Above(f, rest[1])
    BY <1>1 DEF FrameOK, Syncs, Loops, Openers, Above
  <1>5. /\ StackOK(new, pos) /\ new # <<>> /\ new[1] = f /\ Open(new) = Open(rest)
    <2>1. /\ StackOK(<<f>> \o rest, pos) /\ <<f>> \o rest # <<>> /\ (<<f>> \o rest)[1] = f
          /\ Open(<<f>> \o rest) = Open(rest) \cup (IF f.rule \in Openers THEN {f.n} ELSE {})
      BY <1>1, <1>4, Pushed
    <2> QED BY <2>1, <1>4
  <1> HIDE DEF new
  <1>6. StackOK(new, pos + 1) BY <1>1, <1>5, StackLater
  <1>7. Kept(text, pos + 1, Open(new), pairs)
    <2>1. text[pos + 1] # RBrace \/ Open(rest) = {} BY <1>1 DEF Tok
    <2> QED BY <2>1, <1>1, <1>2, <1>5, KeptSkip
  <1>8. new[1].rule \notin {"Compound", "FinishVarDecl"} BY <1>5 DEF Syncs
  <1>9. 1 \in {0, 1} /\ 1 # 0 OBVIOUS
  <1> QED BY <1>3, <1>5, <1>6, <1>7, <1>8, <1>9, Lands

LEMMA Synchronizes ==
  ASSUME ParserInv, Ready, SyncTopLevel \/ SyncStatement
  PROVE  ParserInv'
  <1>1. 0 \in {0, 1} /\ 1 \in {0, 1} /\ 0 # 1 /\ 1 # 0 OBVIOUS
  <1>2. stack # <<>> /\ Top = stack[1] /\ Top \in Frames /\ Top.n \in Nat BY Before
  <1>3. CASE SyncTopLevel
    <2>1. /\ At("SyncTopLevel")
          /\ \/ Tok = "eof" /\ Do(0, <<>>, <<>>)
             \/ Tok # "eof" /\ Do(1, <<>>, <<>>)
             \/ /\ Tok # "eof"
                /\ \/ Do(1, <<[Top EXCEPT !.n = Top.n + 1]>>, <<>>)
                   \/ Do(1, <<[Top EXCEPT !.n = Top.n]>>, <<>>)
                   \/ ~(Top.n <= 1) /\ Do(1, <<[Top EXCEPT !.n = Top.n - 1]>>, <<>>)
      BY <1>3, Zenon DEF SyncTopLevel
    <2>2. Top.rule = "SyncTopLevel" /\ Top.rule \in Syncs /\ Top.rule \notin Openers
      BY <2>1 DEF At, Syncs, Openers
    <2>3. Open(stack) = {}
      <3> DEFINE rest == Tail(stack)
      <3>1. StackOK(rest, pos) /\ rest # <<>> /\ rest[1].rule = "Run" /\ Open(rest) = Open(stack)
        BY <2>2, Before DEF Above
      <3> HIDE DEF rest
      <3>2. Tail(rest) = <<>> /\ Open(Tail(rest)) = Open(rest)
        BY <3>1, Returned DEF Openers
      <3>3. Open(<<>>) = {} BY DEF Open
      <3> QED BY <3>1, <3>2, <3>3
    <2>4. ASSUME Tok = "eof", Do(0, <<>>, <<>>) PROVE ParserInv'
      <3>1. Leaves(text, pos, Tail(stack)) BY <2>4 DEF Leaves, Tok
      <3> QED BY <3>1, <2>2, <2>4, <1>1, Pops
    <2>5. ASSUME Tok # "eof", Do(1, <<>>, <<>>) PROVE ParserInv'
      BY <2>2, <2>3, <2>5, <1>1, Pops
    <2>6. ASSUME Tok # "eof", NEW d \in Nat, Do(1, <<[Top EXCEPT !.n = d]>>, <<>>)
          PROVE  ParserInv'
      <3>1. [Top EXCEPT !.n = d] \in Frames /\ [Top EXCEPT !.n = d].rule = Top.rule
        BY <1>2 DEF Frames
      <3> QED BY <3>1, <2>2, <2>3, <2>6, Skips
    <2>7. Top.n + 1 \in Nat /\ Top.n \in Nat /\ (~(Top.n <= 1) => Top.n - 1 \in Nat) BY <1>2
    <2> QED BY <2>1, <2>4, <2>5, <2>6, <2>7, Zenon
  <1>4. CASE SyncStatement
    <2>1. /\ At("SyncStatement")
          /\ \/ (Tok = "eof" \/ Tok = RBrace) /\ Do(0, <<>>, <<>>)
             \/ Tok = ";" /\ Do(1, <<>>, <<>>)
             \/ Tok # "eof" /\ Tok # RBrace /\ Do(1, <<Top>>, <<>>)
      BY <1>4, Zenon DEF SyncStatement, RBrace
    <2>2. /\ Top.rule = "SyncStatement" /\ Top.rule \in Syncs /\ Top.rule \notin Openers
      BY <2>1 DEF At, Syncs, Openers
    <2>3. ASSUME Tok = "eof" \/ Tok = RBrace, Do(0, <<>>, <<>>) PROVE ParserInv'
      <3>1. Tail(stack) # <<>> /\ Tail(stack)[1].rule = "Block" BY <2>2, Before DEF Above
      <3>2. Leaves(text, pos, Tail(stack)) BY <3>1, <2>3 DEF Leaves, Tok
      <3> QED BY <3>2, <2>2, <2>3, <1>1, Pops
    <2>4. ASSUME Tok = ";", Do(1, <<>>, <<>>) PROVE ParserInv'
      <3>1. Ordinary BY <2>4, OrdinaryKinds, Zenon
      <3>2. Tok # "eof" /\ Tok # RBrace BY <3>1 DEF Ordinary
      <3>3. Do(1, <<>>, <<>>) BY <2>4, Zenon
      <3> HIDE <2>4
      <3> QED BY <3>2, <3>3, <2>2, <1>1, Pops
    <2>5. ASSUME Tok # "eof", Tok # RBrace, Do(1, <<Top>>, <<>>) PROVE ParserInv'
      BY <2>2, <2>5, <1>2, Skips
    <2> QED BY <2>1, <2>3, <2>4, <2>5, Zenon
  <1> QED BY <1>3, <1>4

-----------------------------------------------------------------------------
(* A token is looked at.                                                   *)

LEMMA NextIsKind ==
  ASSUME source \in DOMAIN Sources, text \in Seq(Kinds), NEW kind \in NextKinds
  PROVE  kind \in Kinds
  <1> DEFINE s == Sources[source]
             here == s.kinds \cup s.stop \cup Range(s.from)
  <1>1. here \subseteq Kinds /\ "eof" \in Kinds
    <2>1. here \subseteq Kinds BY DEF Kinds
    <2>2. "eof" \in Kinds BY Zenon DEF Kinds
    <2> QED BY <2>1, <2>2
  <1>2. \/ Len(text) < Len(s.from) /\ kind = s.from[Len(text) + 1]
        \/ kind = "eof" \/ kind \in s.kinds \/ kind \in s.stop
    BY Zenon DEF NextKinds
  <1>3. Len(text) < Len(s.from) => s.from[Len(text) + 1] \in Range(s.from)
    <2>1. s.from \in Seq(STRING) BY SourcesAssumption
    <2>2. Len(s.from) \in Nat /\ DOMAIN s.from = 1..Len(s.from) /\ Len(text) \in Nat
      BY <2>1, LenProperties
    <2> HIDE DEF s
    <2>3. Len(text) < Len(s.from) => Len(text) + 1 \in DOMAIN s.from BY <2>2
    <2> QED BY <2>3 DEF Range
  <1> QED BY <1>1, <1>2, <1>3, Zenon

LEMMA Scanned ==
  ASSUME ParserInv, Scan
  PROVE  ParserInv'
  <1> DEFINE L == Len(text)
  <1>1. PICK kind \in NextKinds : text' = Append(text, kind) BY DEF Scan
  <1>2. UNCHANGED <<source, pos, stack, tree, diags, pairs>> BY DEF Scan
  <1>3. Place(source, text, pos, stack) /\ Reports(text, pos, stack, diags)
        /\ Kept(text, pos, Open(stack), pairs)
    BY DEF ParserInv
  <1>4. text \in Seq(Kinds) /\ L \in Nat /\ pos \in Nat /\ pos <= L /\ StackOK(stack, pos)
        /\ (pos > 0 => text[pos] # "eof") /\ source \in DOMAIN Sources
        /\ (stack # <<>> /\ stack[1].rule = "Compound" => pos < L /\ text[pos + 1] = LBrace)
    <2>1. text \in Seq(Kinds) /\ L \in Nat BY <1>3, LenProperties DEF Place
    <2> QED BY <2>1, <1>3 DEF Place
  <1>5. kind \in Kinds BY <1>4, NextIsKind
  <1>6. /\ text' \in Seq(Kinds) /\ Len(text') = L + 1
        /\ \A i \in 1..L : text'[i] = text[i]
    BY <1>1, <1>4, <1>5, AppendProperties
  <1> HIDE DEF L
  <1>7. Place(source, text', pos, stack)
    <2>1. pos \in 0..Len(text') BY <1>4, <1>6
    <2>2. pos > 0 => text'[pos] # "eof"
      <3>1. pos > 0 => pos \in 1..L BY <1>4
      <3> QED BY <3>1, <1>4, <1>6
    <2>3. stack # <<>> /\ stack[1].rule = "Compound"
            => pos < Len(text') /\ text'[pos + 1] = LBrace
      <3> SUFFICES ASSUME stack # <<>>, stack[1].rule = "Compound"
                   PROVE  pos < Len(text') /\ text'[pos + 1] = LBrace
        OBVIOUS
      <3>1. pos < L /\ text[pos + 1] = LBrace BY <1>4
      <3>2. pos < L + 1 /\ pos + 1 \in 1..L BY <3>1, <1>4
      <3> QED BY <3>1, <3>2, <1>6
    <2> QED BY <2>1, <2>2, <2>3, <1>4, <1>6 DEF Place
  <1>8. Reports(text', pos, stack, diags)
    <2>1. diags \in Seq(1..L) /\ \A i \in 1..Len(diags) : diags[i] \in 1..L
      <3>1. diags \in Seq(1..L) BY <1>3 DEF Reports, L
      <3> QED BY <3>1, ElementOfSeq
    <2>2. diags \in Seq(1..Len(text'))
      <3>1. 1..L \subseteq 1..Len(text') BY <1>4, <1>6
      <3> QED BY <3>1, <2>1, SeqMonotonic
    <2>3. ASSUME NEW i \in 1..Len(diags)
          PROVE  /\ diags[i] <= pos \/ (diags[i] = pos + 1 /\ Leaves(text', pos, stack))
                 /\ stack # <<>> /\ stack[1].rule = "FinishVarDecl" => diags[i] < pos
      <3>1. /\ diags[i] <= pos \/ (diags[i] = pos + 1 /\ Leaves(text, pos, stack))
            /\ stack # <<>> /\ stack[1].rule = "FinishVarDecl" => diags[i] < pos
        BY <1>3 DEF Reports
      <3>2. diags[i] = pos + 1 => text'[pos + 1] = text[pos + 1] BY <2>1, <1>6
      <3> QED BY <3>1, <3>2 DEF Leaves
    <2>4. ASSUME NEW i \in 1..Len(diags), NEW j \in 1..Len(diags), i # j, diags[i] = diags[j]
          PROVE  text'[diags[i]] = "eof"
      <3>1. text[diags[i]] = "eof" BY <2>4, <1>3 DEF Reports
      <3> QED BY <3>1, <2>1, <1>6
    <2> QED BY <2>2, <2>3, <2>4 DEF Reports
  <1>9. Kept(text', pos, Open(stack), pairs)
    <2>1. \A i \in 1..pos : text[i] = text'[i]
      <3>1. \A i \in 1..pos : i \in 1..L BY <1>4
      <3> QED BY <3>1, <1>6
    <2> QED BY <2>1, <1>3, <1>4, KeptText
  <1> QED BY <1>2, <1>7, <1>8, <1>9 DEF ParserInv

-----------------------------------------------------------------------------
(* The theorems.                                                           *)

LEMMA StartsKept == Init => ParserInv
  <1> SUFFICES ASSUME Init PROVE ParserInv
    OBVIOUS
  <1> DEFINE f == F("Run")
             e == <<>>
  <1>1. /\ source \in DOMAIN Sources /\ text = e /\ pos = 0 /\ diags = e /\ pairs = {}
        /\ stack = <<f>>
    BY DEF Init
  <1>2. f \in Frames /\ f.rule = "Run" /\ f.n = 0
    <2>1. "Run" \in Rules BY DEF Rules
    <2> QED BY <2>1, CallFacts
  <1>3. e \in Seq(Frames) /\ e \in Seq(Kinds) /\ e \in Seq(1..0) /\ Len(e) = 0 OBVIOUS
  <1>4. StackOK(e, 0) /\ Open(e) = {} BY <1>3 DEF StackOK, Open
  <1> HIDE DEF f
  <1>5. <<f>> = <<f>> \o e
    <2>1. <<f>> = <<f>> \o <<>> BY <1>2, FrontSplit
    <2> QED BY <2>1
  <1>6. FrameOK(f, 0) /\ f.rule \notin Openers BY <1>2 DEF FrameOK, Loops, Openers
  <1>7. StackOK(<<f>>, 0) /\ Open(<<f>>) = {} /\ <<f>>[1] = f
    <2>1. 0 \in Nat /\ e = <<>> /\ (IF e = <<>> THEN f.rule = "Run" ELSE Above(f, e[1]))
      BY <1>2
    <2> HIDE DEF e
    <2>2. /\ StackOK(<<f>> \o e, 0) /\ (<<f>> \o e)[1] = f
          /\ Open(<<f>> \o e) = Open(e) \cup (IF f.rule \in Openers THEN {f.n} ELSE {})
      BY <2>1, <1>2, <1>4, <1>6, Pushed, ZenonT(60)
    <2> QED BY <2>2, <1>4, <1>5, <1>6
  <1>8. Place(source, e, 0, <<f>>) BY <1>1, <1>2, <1>3, <1>7 DEF Place
  <1>9. Reports(e, 0, <<f>>, e) BY <1>3 DEF Reports
  <1>10. Kept(e, 0, {}, {}) BY DEF Kept
  <1> QED BY <1>1, <1>7, <1>8, <1>9, <1>10 DEF ParserInv

LEMMA StepsKept == ParserInv /\ [Next]_vars => ParserInv'
  <1> SUFFICES ASSUME ParserInv, [Next]_vars PROVE ParserInv'
    OBVIOUS
  <1>1. CASE Scan BY <1>1, Scanned
  <1>2. CASE Ready /\ Parse
    <2>1. CASE Run BY <1>2, <2>1, Running
    <2>2. CASE DeclSpec BY <1>2, <2>2, Specifiers
    <2>3. CASE \/ ExternalDecl \/ ExternalComma \/ LocalComma \/ ReturnValue \/ Condition
               \/ Else \/ Expected \/ Semicolon \/ MakeNode
      <3>1. Midway /\ (Goes \/ Breaks) BY <1>2, <2>3, PlainStatements
      <3> QED BY <3>1, <1>2, GoesOn, BreaksOff
    <2>4. CASE \/ Assignment \/ Binary \/ TypeName \/ Postfix \/ Args \/ ArgsRest \/ Primary
               \/ Strings
      <3>1. Midway /\ (Goes \/ Breaks) BY <1>2, <2>4, PlainExpressions
      <3> QED BY <3>1, <1>2, GoesOn, BreaksOff
    <2>5. CASE \/ ExternalDeclarator \/ LocalDeclarator \/ FunctionRest \/ FinishVarDecl
               \/ Statement \/ Unary \/ SizeOf
      BY <1>2, <2>5, Callers
    <2>6. CASE Initializer \/ InitList \/ InitComma BY <1>2, <2>6, Lists
    <2>7. CASE Compound \/ Block \/ BlockEnd BY <1>2, <2>7, Blocks
    <2>8. CASE SyncTopLevel \/ SyncStatement BY <1>2, <2>8, Synchronizes
    <2> QED BY <1>2, <2>1, <2>2, <2>3, <2>4, <2>5, <2>6, <2>7, <2>8, Zenon DEF Parse
  <1>3. CASE UNCHANGED vars BY <1>3 DEF ParserInv, vars
  <1> QED BY <1>1, <1>2, <1>3, Zenon DEF Next, Done

(* The invariant: the frames, the reports and the open braces of the       *)
(* parser (Parser.cpp) always are as its recovery needs them.              *)
THEOREM ParserInvariant == Spec => []ParserInv
  <1>1. Init => ParserInv BY StartsKept
  <1>2. ParserInv /\ [Next]_vars => ParserInv' BY StepsKept
  <1> QED BY <1>1, <1>2, PTL DEF Spec

(* The parser never passes the end of its text, every error is at a token  *)
(* it has seen, and every activation is inside Parser::run.                *)
THEOREM StaysInText == Spec => []TypeOK
  <1>1. ParserInv => TypeOK
    <2> SUFFICES ASSUME ParserInv PROVE TypeOK
      OBVIOUS
    <2>1. Place(source, text, pos, stack) /\ Reports(text, pos, stack, diags)
          /\ Kept(text, pos, Open(stack), pairs)
      BY DEF ParserInv
    <2>2. Range(diags) \subseteq 1..Len(text)
      <3>1. diags \in Seq(1..Len(text)) BY <2>1 DEF Reports
      <3>2. DOMAIN diags = 1..Len(diags) /\ \A i \in 1..Len(diags) : diags[i] \in 1..Len(text)
        BY <3>1, ElementOfSeq, LenProperties
      <3> QED BY <3>2 DEF Range
    <2>3. StackOK(stack, pos) BY <2>1 DEF Place
    <2>4. stack # <<>> => Last(stack).rule = "Run" BY <2>3 DEF StackOK, Last
    <2>5. \A i \in DOMAIN stack : stack[i].n \in Nat
      <3>1. stack \in Seq(Frames) BY <2>3 DEF StackOK
      <3>2. DOMAIN stack = 1..Len(stack) /\ \A i \in 1..Len(stack) : stack[i] \in Frames
        BY <3>1, ElementOfSeq, LenProperties
      <3> QED BY <3>2 DEF Frames
    <2>6. /\ source \in DOMAIN Sources /\ text \in Seq(Kinds) /\ pos \in 0..Len(text)
          /\ (pos > 0 => text[pos] # "eof")
      BY <2>1 DEF Place
    <2>7. pairs \subseteq (1..pos) \X (1..pos) BY <2>1 DEF Kept
    <2> QED BY <2>2, <2>4, <2>5, <2>6, <2>7 DEF TypeOK
  <1> QED BY <1>1, ParserInvariant, PTL

(* Parser::synchronize makes progress: the recovery loops of parseCompound *)
(* and run never report a token again, except for the end of the text.     *)
THEOREM ReportsOnce == Spec => []ReportedOnce
  <1>1. ParserInv => ReportedOnce
    <2> SUFFICES ASSUME ParserInv PROVE ReportedOnce
      OBVIOUS
    <2>1. diags \in Seq(1..Len(text))
          /\ \A i, j \in 1..Len(diags) : i # j /\ diags[i] = diags[j] => text[diags[i]] = "eof"
      BY DEF ParserInv, Reports
    <2>2. DOMAIN diags = 1..Len(diags) BY <2>1, LenProperties
    <2> QED BY <2>1, <2>2 DEF ReportedOnce
  <1> QED BY <1>1, ParserInvariant, PTL

(* A "}" that ends a block or an initializer list matches its "{" in the   *)
(* text, whatever was broken in between, unless recovery skipped a "{"     *)
(* there (Parser.cpp:505-520).                                             *)
THEOREM BlocksEnd == Spec => []BlocksKept
  <1>1. ParserInv => BlocksKept
    <2> SUFFICES ASSUME ParserInv, NEW p \in pairs
                 PROVE  \/ IsMatch(p)
                        \/ \E i \in p[1]..p[2] : text[i] = "{" /\ \A q \in pairs : q[1] # i
      BY Zenon DEF BlocksKept
    <2>1. Closed(text, Open(stack), pairs, p) BY DEF ParserInv, Kept
    <2>2. \A i, j : /\ Braces("{", i, j) = Count(text, LBrace, i, j)
                    /\ Braces("}", i, j) = Count(text, RBrace, i, j)
      BY Zenon DEF Braces, Count, LBrace, RBrace
    <2>3. Matched(text, p[1], p[2]) => IsMatch(p)
      BY <2>2, Zenon DEF Matched, IsMatch, Balanced
    <2>4. ASSUME Lost(text, Open(stack), pairs, p[1], p[2]) # {}
          PROVE  \E i \in p[1]..p[2] : text[i] = "{" /\ \A q \in pairs : q[1] # i
      BY <2>4, Zenon DEF Lost, LBrace
    <2> QED BY <2>1, <2>3, <2>4, Zenon DEF Closed
  <1> QED BY <1>1, ParserInvariant, PTL

=============================================================================
