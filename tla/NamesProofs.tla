----------------------------- MODULE NamesProofs ----------------------------
(***************************************************************************)
(* Sema's names, for any program: the stack of scopes holds exactly the    *)
(* declarations that are in force, so that looking a name up in it finds   *)
(* the declaration that C's rules, read off the tree, mean.                *)
(*                                                                         *)
(* What the rules read off the tree is stated here for a tree t, so that   *)
(* the lemmas can compare a tree with the one that has a node more.        *)
(***************************************************************************)
EXTENDS Names, SequenceLemmas

DeclKinds == {"var", "param", "proto", "def"}
FnKinds   == {"proto", "def"}
UseKinds  == {"value", "addr", "call", "sizeof"}
Kinds     == DeclKinds \cup UseKinds
             \cup {"endvar", "close", "open", "if", "while", "loop", "endloop", "jump"}
NodeType  == [k : Kinds, name : Names \cup {NoName}, sym : Nat, ok : BOOLEAN,
              fnType : FnTypes \cup {Object}]
Trees     == Seq(NodeType)

Symbols   == [id : Nat, fnType : FnTypes \cup {Object}, isDefined : BOOLEAN]
ScopeType == UNION {[D -> Symbols] : D \in SUBSET Names}
Awaited   == {"body", "params", "stmt", "init", "expr", "while", "loop"}

BeforeIn(t, q, K)  == {i \in 1..q - 1 : t[i].k \in K /\ t[i].ok}
DepthIn(t, q)      == Cardinality(BeforeIn(t, q, {"def", "open"}))
                        - Cardinality(BeforeIn(t, q, {"close"}))
LoopsIn(t, q)      == Cardinality(BeforeIn(t, q, {"loop"}))
                        - Cardinality(BeforeIn(t, q, {"endloop"}))
ForceIn(t, i, q)   == i < q /\ \A c \in i + 1..q - 1 :
                        t[c].k = "close" => DepthIn(t, c) > DepthIn(t, i)
DeclIn(t, i)       == t[i].k \in DeclKinds /\ t[i].ok
ScopeIn(t, q, name) ==
    {i \in 1..Len(t) : DeclIn(t, i) /\ t[i].name = name /\ ForceIn(t, i, q)}
SameIn(t, j)       == {i \in ScopeIn(t, j, t[j].name) : DepthIn(t, i) = DepthIn(t, j)}
MeantIn(t, q)      == LET all == ScopeIn(t, q, t[q].name)
                      IN  {i \in all : \A j \in all : DepthIn(t, j) <= DepthIn(t, i)}

-----------------------------------------------------------------------------
(* A tree with a node more.                                                *)

LEMMA Grown ==
  ASSUME NEW t \in Trees, NEW n \in NodeType
  PROVE  /\ Append(t, n) \in Trees /\ Len(t) \in Nat
         /\ Len(Append(t, n)) = Len(t) + 1
         /\ \A i \in 1..Len(t) : Append(t, n)[i] = t[i] /\ t[i] \in NodeType
         /\ Append(t, n)[Len(t) + 1] = n
         /\ \A i \in 1..Len(t) + 1 : i \in 1..Len(t) \/ i = Len(t) + 1
  <1>1. Len(t) \in Nat BY LenProperties DEF Trees
  <1>2. \A i \in 1..Len(t) : t[i] \in NodeType BY ElementOfSeq DEF Trees
  <1>3. \A i \in 1..Len(t) + 1 : i \in 1..Len(t) \/ i = Len(t) + 1 BY <1>1
  <1> QED BY <1>1, <1>2, <1>3, AppendProperties DEF Trees

LEMMA BeforeFinite ==
  ASSUME NEW t, NEW q \in Nat, NEW K
  PROVE  IsFiniteSet(BeforeIn(t, q, K)) /\ Cardinality(BeforeIn(t, q, K)) \in Nat
  <1>1. IsFiniteSet(1..q - 1) BY FS_Interval
  <1> QED BY <1>1, FS_Subset, FS_CardinalityType DEF BeforeIn

LEMMA BeforeGrown ==
  ASSUME NEW t \in Trees, NEW n \in NodeType, NEW K
  PROVE  /\ \A q \in 1..Len(t) + 1 : BeforeIn(Append(t, n), q, K) = BeforeIn(t, q, K)
         /\ Cardinality(BeforeIn(Append(t, n), Len(t) + 2, K)) =
              Cardinality(BeforeIn(t, Len(t) + 1, K)) + (IF n.k \in K /\ n.ok THEN 1 ELSE 0)
  <1> DEFINE u == Append(t, n)
             N == Len(t)
  <1>1. /\ N \in Nat /\ Len(u) = N + 1 /\ u[N + 1] = n
        /\ \A i \in 1..N : u[i] = t[i]
    BY Grown
  <1> HIDE DEF u
  <1>2. \A q \in 1..N + 1 : BeforeIn(u, q, K) = BeforeIn(t, q, K)
    <2> SUFFICES ASSUME NEW q \in 1..N + 1 PROVE BeforeIn(u, q, K) = BeforeIn(t, q, K)
      OBVIOUS
    <2>1. \A i \in 1..q - 1 : u[i] = t[i] BY <1>1
    <2> QED BY <2>1 DEF BeforeIn
  <1>3. \A i \in 1..(N + 2) - 1 : i \in 1..(N + 1) - 1 \/ i = N + 1 BY <1>1
  <1>4. (\A i \in 1..(N + 1) - 1 : i \in 1..(N + 2) - 1 /\ i \in 1..N) /\ N + 1 \in 1..(N + 2) - 1
        /\ N + 1 \notin 1..(N + 1) - 1
    BY <1>1
  <1>5. IsFiniteSet(BeforeIn(t, N + 1, K)) /\ Cardinality(BeforeIn(t, N + 1, K)) \in Nat
    BY <1>1, BeforeFinite
  <1>6. CASE n.k \in K /\ n.ok
    <2>1. BeforeIn(u, N + 2, K) = BeforeIn(t, N + 1, K) \cup {N + 1}
      BY <1>1, <1>3, <1>4, <1>6 DEF BeforeIn
    <2>2. N + 1 \notin BeforeIn(t, N + 1, K) BY <1>4 DEF BeforeIn
    <2>3. Cardinality(BeforeIn(u, N + 2, K)) = Cardinality(BeforeIn(t, N + 1, K)) + 1
      BY <2>1, <2>2, <1>5, FS_AddElement
    <2> QED BY <2>3, <1>2, <1>6 DEF u
  <1>7. CASE ~(n.k \in K /\ n.ok)
    <2>1. BeforeIn(u, N + 2, K) = BeforeIn(t, N + 1, K)
      BY <1>1, <1>3, <1>4, <1>7 DEF BeforeIn
    <2> QED BY <2>1, <1>2, <1>5, <1>7 DEF u
  <1> QED BY <1>6, <1>7

(* The nodes that were there keep their depth, and what comes after the    *)
(* new node is as deep as the node says.                                   *)
Opens(n)  == IF n.ok /\ n.k \in {"def", "open"} THEN 1 ELSE 0
Closes(n) == IF n.ok /\ n.k = "close" THEN 1 ELSE 0

LEMMA DepthGrown ==
  ASSUME NEW t \in Trees, NEW n \in NodeType
  PROVE  /\ \A q \in 1..Len(t) + 1 : /\ DepthIn(Append(t, n), q) = DepthIn(t, q)
                                     /\ LoopsIn(Append(t, n), q) = LoopsIn(t, q)
                                     /\ DepthIn(t, q) \in Int /\ LoopsIn(t, q) \in Int
         /\ DepthIn(Append(t, n), Len(t) + 2) =
              DepthIn(t, Len(t) + 1) + Opens(n) - Closes(n)
         /\ LoopsIn(Append(t, n), Len(t) + 2) =
              LoopsIn(t, Len(t) + 1) + (IF n.ok /\ n.k = "loop" THEN 1 ELSE 0)
                - (IF n.ok /\ n.k = "endloop" THEN 1 ELSE 0)
  <1>1. Len(t) \in Nat BY Grown
  <1>2. \A q \in 1..Len(t) + 1 : /\ DepthIn(Append(t, n), q) = DepthIn(t, q)
                                 /\ LoopsIn(Append(t, n), q) = LoopsIn(t, q)
    BY BeforeGrown DEF DepthIn, LoopsIn
  <1>3. ASSUME NEW q \in 1..Len(t) + 1 PROVE DepthIn(t, q) \in Int /\ LoopsIn(t, q) \in Int
    <2>1. q \in Nat BY <1>1
    <2>2. \A K : Cardinality(BeforeIn(t, q, K)) \in Nat BY <2>1, BeforeFinite
    <2> QED BY <2>2 DEF DepthIn, LoopsIn
  <1> DEFINE C(K) == Cardinality(BeforeIn(t, Len(t) + 1, K))
             E(K) == Cardinality(BeforeIn(Append(t, n), Len(t) + 2, K))
  <1>4. \A K : C(K) \in Nat BY <1>1, BeforeFinite
  <1>5. \A K : E(K) = C(K) + (IF n.k \in K /\ n.ok THEN 1 ELSE 0) BY BeforeGrown
  <1>6. n.k \in {"close"} <=> n.k = "close" OBVIOUS
  <1>7. (n.k \in {"loop"} <=> n.k = "loop") /\ (n.k \in {"endloop"} <=> n.k = "endloop") OBVIOUS
  <1>8. /\ C({"def", "open"}) \in Nat /\ C({"close"}) \in Nat
        /\ C({"loop"}) \in Nat /\ C({"endloop"}) \in Nat
    BY <1>4
  <1>9. /\ E({"def", "open"}) = C({"def", "open"}) + Opens(n)
        /\ E({"close"}) = C({"close"}) + Closes(n)
        /\ E({"loop"}) = C({"loop"}) + (IF n.ok /\ n.k = "loop" THEN 1 ELSE 0)
        /\ E({"endloop"}) = C({"endloop"}) + (IF n.ok /\ n.k = "endloop" THEN 1 ELSE 0)
    BY <1>5, <1>6, <1>7, Zenon DEF Opens, Closes
  <1>10. /\ DepthIn(t, Len(t) + 1) = C({"def", "open"}) - C({"close"})
         /\ LoopsIn(t, Len(t) + 1) = C({"loop"}) - C({"endloop"})
         /\ DepthIn(Append(t, n), Len(t) + 2) = E({"def", "open"}) - E({"close"})
         /\ LoopsIn(Append(t, n), Len(t) + 2) = E({"loop"}) - E({"endloop"})
    BY DEF DepthIn, LoopsIn
  <1> HIDE DEF C, E
  <1>11. Opens(n) \in Nat /\ Closes(n) \in Nat BY DEF Opens, Closes
  <1>12. DepthIn(Append(t, n), Len(t) + 2) = DepthIn(t, Len(t) + 1) + Opens(n) - Closes(n)
    BY <1>8, <1>9, <1>10, <1>11
  <1>13. LoopsIn(Append(t, n), Len(t) + 2) =
           LoopsIn(t, Len(t) + 1) + (IF n.ok /\ n.k = "loop" THEN 1 ELSE 0)
                - (IF n.ok /\ n.k = "endloop" THEN 1 ELSE 0)
    BY <1>8, <1>9, <1>10
  <1> QED BY <1>2, <1>3, <1>12, <1>13

LEMMA ForceGrown ==
  ASSUME NEW t \in Trees, NEW n \in NodeType, NEW i \in 1..Len(t)
  PROVE  /\ \A q \in 1..Len(t) + 1 : ForceIn(Append(t, n), i, q) <=> ForceIn(t, i, q)
         /\ ForceIn(Append(t, n), i, Len(t) + 2) <=>
              ForceIn(t, i, Len(t) + 1)
                /\ (n.k = "close" => DepthIn(t, Len(t) + 1) > DepthIn(t, i))
         /\ ForceIn(Append(t, n), Len(t) + 1, Len(t) + 2)
         /\ ~ForceIn(Append(t, n), Len(t) + 1, Len(t) + 1)
  <1> DEFINE u == Append(t, n)
             N == Len(t)
  <1>1. N \in Nat /\ u[N + 1] = n /\ \A j \in 1..N : u[j] = t[j] BY Grown
  <1>2. \A q \in 1..N + 1 : DepthIn(u, q) = DepthIn(t, q) BY DepthGrown
  <1> HIDE DEF u
  <1>3. ASSUME NEW q \in 1..N + 1 PROVE ForceIn(u, i, q) <=> ForceIn(t, i, q)
    <2>1. \A c \in i + 1..q - 1 : c \in 1..N /\ c \in 1..N + 1 BY <1>1
    <2>2. i \in 1..N + 1 BY <1>1
    <2> QED BY <2>1, <2>2, <1>1, <1>2 DEF ForceIn
  <1>4. ForceIn(u, i, N + 2) <=>
          ForceIn(t, i, N + 1) /\ (n.k = "close" => DepthIn(t, N + 1) > DepthIn(t, i))
    <2>1. \A c \in i + 1..(N + 2) - 1 : c \in i + 1..(N + 1) - 1 \/ c = N + 1 BY <1>1
    <2>2. /\ \A c \in i + 1..(N + 1) - 1 : c \in i + 1..(N + 2) - 1 /\ c \in 1..N /\ c \in 1..N + 1
          /\ N + 1 \in i + 1..(N + 2) - 1 /\ i < N + 2 /\ i < N + 1 /\ i \in 1..N + 1
          /\ N + 1 \in 1..N + 1
      BY <1>1
    <2> QED BY <2>1, <2>2, <1>1, <1>2 DEF ForceIn
  <1>5. ForceIn(u, N + 1, N + 2) /\ ~ForceIn(u, N + 1, N + 1)
    <2>1. \A c \in N + 1 + 1..(N + 2) - 1 : FALSE BY <1>1
    <2> QED BY <2>1, <1>1 DEF ForceIn
  <1> QED BY <1>3, <1>4, <1>5 DEF u

LEMMA ScopeGrown ==
  ASSUME NEW t \in Trees, NEW n \in NodeType, NEW name
  PROVE  /\ \A q \in 1..Len(t) + 1 : ScopeIn(Append(t, n), q, name) = ScopeIn(t, q, name)
         /\ ScopeIn(Append(t, n), Len(t) + 2, name) =
              {i \in ScopeIn(t, Len(t) + 1, name) :
                 n.k = "close" => DepthIn(t, Len(t) + 1) > DepthIn(t, i)}
              \cup (IF n.k \in DeclKinds /\ n.ok /\ n.name = name THEN {Len(t) + 1} ELSE {})
         /\ \A q \in 1..Len(t) + 1 : \A i \in ScopeIn(t, q, name) :
              i \in 1..Len(t) /\ DepthIn(Append(t, n), i) = DepthIn(t, i)
  <1> DEFINE u == Append(t, n)
             N == Len(t)
  <1>1. /\ N \in Nat /\ Len(u) = N + 1 /\ u[N + 1] = n
        /\ \A i \in 1..N : u[i] = t[i]
    BY Grown
  <1>2. \A i \in 1..N + 1 : i \in 1..N \/ i = N + 1 BY <1>1
  <1>3. (\A i \in 1..N : i \in 1..N + 1) /\ N + 1 \in 1..N + 1 /\ N + 1 \notin 1..N BY <1>1
  <1>4. \A i \in 1..N : /\ \A q \in 1..N + 1 : ForceIn(u, i, q) <=> ForceIn(t, i, q)
                        /\ ForceIn(u, i, N + 2) <=>
                              ForceIn(t, i, N + 1)
                                /\ (n.k = "close" => DepthIn(t, N + 1) > DepthIn(t, i))
    BY ForceGrown
  <1>5. ForceIn(u, N + 1, N + 2)
    <2>1. \A c \in N + 1 + 1..(N + 2) - 1 : FALSE BY <1>1
    <2> QED BY <2>1, <1>1 DEF ForceIn
  <1>6. \A q \in 1..N + 1 : ~ForceIn(u, N + 1, q) BY <1>1 DEF ForceIn
  <1>7. \A i \in 1..N : DepthIn(u, i) = DepthIn(t, i) BY <1>3, DepthGrown
  <1> HIDE DEF u
  <1>8. ASSUME NEW q \in 1..N + 1 PROVE ScopeIn(u, q, name) = ScopeIn(t, q, name)
    BY <1>1, <1>2, <1>3, <1>4, <1>6 DEF ScopeIn, DeclIn
  <1>9. ScopeIn(u, N + 2, name) =
          {i \in ScopeIn(t, N + 1, name) : n.k = "close" => DepthIn(t, N + 1) > DepthIn(t, i)}
          \cup (IF n.k \in DeclKinds /\ n.ok /\ n.name = name THEN {N + 1} ELSE {})
    <2> DEFINE A == ScopeIn(u, N + 2, name)
               B == {i \in ScopeIn(t, N + 1, name) :
                       n.k = "close" => DepthIn(t, N + 1) > DepthIn(t, i)}
    <2>1. \A i \in 1..N : i \in A <=> i \in B BY <1>1, <1>3, <1>4 DEF ScopeIn, DeclIn
    <2>2. N + 1 \in A <=> n.k \in DeclKinds /\ n.ok /\ n.name = name
      BY <1>1, <1>3, <1>5 DEF ScopeIn, DeclIn
    <2>3. A \subseteq 1..N + 1 /\ B \subseteq 1..N BY <1>1 DEF ScopeIn
    <2> HIDE DEF A, B
    <2>4. A = B \cup (IF n.k \in DeclKinds /\ n.ok /\ n.name = name THEN {N + 1} ELSE {})
      BY <2>1, <2>2, <2>3, <1>2, <1>3
    <2> QED BY <2>4 DEF A, B
  <1>10. \A q \in 1..N + 1 : \A i \in ScopeIn(t, q, name) : i \in 1..N /\ DepthIn(u, i) = DepthIn(t, i)
    BY <1>7 DEF ScopeIn
  <1> QED BY <1>8, <1>9, <1>10 DEF u

-----------------------------------------------------------------------------
(* What the rules say of the nodes that were there does not change.        *)

ScopedAt(t, q) ==
    t[q].k \in UseKinds =>
      /\ MeantIn(t, q) = {} => t[q].sym = None /\ ~t[q].ok
      /\ \A i \in MeantIn(t, q) :
           /\ t[q].sym = t[i].sym
           /\ t[q].k = "call" => (t[q].ok => t[i].k \in FnKinds)
           /\ t[q].k # "call" => (t[q].ok => t[i].k \notin FnKinds)

MayFollow(t, i, j) ==
    /\ t[i].k \in FnKinds /\ t[j].k \in FnKinds
    /\ t[i].fnType = t[j].fnType
    /\ ~(t[i].k = "def" /\ t[j].k = "def")
Fits(t, j) == t[j].name # NoName /\ \A i \in SameIn(t, j) : MayFollow(t, i, j)

OneAt(t, j) ==
    t[j].k \in DeclKinds =>
      IF t[j].k = "var" THEN t[j].ok => Fits(t, j) ELSE t[j].ok <=> Fits(t, j)

ApartAt(t, i, j) ==
    i # j /\ DeclIn(t, i) /\ DeclIn(t, j) =>
      (t[i].sym = t[j].sym <=>
         t[i].k \in FnKinds /\ t[j].k \in FnKinds /\ t[i].name = t[j].name)

JumpAt(t, q) == t[q].k = "jump" => (t[q].ok <=> LoopsIn(t, q) > 0)

LEMMA RulesGrown ==
  ASSUME NEW t \in Trees, NEW n \in NodeType, NEW q \in 1..Len(t)
  PROVE  /\ ScopedAt(Append(t, n), q) <=> ScopedAt(t, q)
         /\ OneAt(Append(t, n), q) <=> OneAt(t, q)
         /\ \A i \in 1..Len(t) : ApartAt(Append(t, n), i, q) <=> ApartAt(t, i, q)
         /\ JumpAt(Append(t, n), q) <=> JumpAt(t, q)
  <1> DEFINE u == Append(t, n)
             N == Len(t)
  <1>1. N \in Nat /\ \A i \in 1..N : u[i] = t[i] BY Grown
  <1>2. q \in 1..N + 1 BY <1>1
  <1>3. DepthIn(u, q) = DepthIn(t, q) /\ LoopsIn(u, q) = LoopsIn(t, q) BY <1>2, DepthGrown
  <1>4. \A name : /\ ScopeIn(u, q, name) = ScopeIn(t, q, name)
                  /\ \A i \in ScopeIn(t, q, name) : i \in 1..N /\ DepthIn(u, i) = DepthIn(t, i)
    BY <1>2, ScopeGrown
  <1> HIDE DEF u
  <1>5. u[q] = t[q] BY <1>1
  <1>6. MeantIn(u, q) = MeantIn(t, q) /\ SameIn(u, q) = SameIn(t, q)
    BY <1>3, <1>4, <1>5 DEF MeantIn, SameIn
  <1>7. /\ \A i \in MeantIn(t, q) : u[i] = t[i]
        /\ \A i \in SameIn(t, q) : u[i] = t[i]
    BY <1>1, <1>4 DEF MeantIn, SameIn
  <1>8. ScopedAt(u, q) <=> ScopedAt(t, q) BY <1>5, <1>6, <1>7 DEF ScopedAt
  <1>9. OneAt(u, q) <=> OneAt(t, q) BY <1>5, <1>6, <1>7 DEF OneAt, Fits, MayFollow
  <1>10. \A i \in 1..N : ApartAt(u, i, q) <=> ApartAt(t, i, q) BY <1>1 DEF ApartAt, DeclIn
  <1>11. JumpAt(u, q) <=> JumpAt(t, q) BY <1>3, <1>5 DEF JumpAt
  <1> QED BY <1>8, <1>9, <1>10, <1>11 DEF u

-----------------------------------------------------------------------------
(* The tree: what was declared has a symbol already handed out, functions  *)
(* are declared at file scope only, and no scope is closed that is not     *)
(* open.                                                                   *)
TreeOK(t, id) ==
    /\ t \in Trees
    /\ \A i \in 1..Len(t) :
          /\ t[i].k \in FnKinds <=> t[i].fnType # Object
          /\ DeclIn(t, i) => t[i].sym \in 1..id - 1
          /\ DeclIn(t, i) /\ t[i].k \in FnKinds => DepthIn(t, i) = 0
          /\ t[i].k = "close" => DepthIn(t, i) > 0

(* The scopes and loops that are open are those the tree has opened.       *)
DepthOK(t, d, loops) ==
    /\ \A q \in 1..Len(t) + 1 : DepthIn(t, q) \in Nat /\ LoopsIn(t, q) \in Nat
    /\ DepthIn(t, Len(t) + 1) = d
    /\ LoopsIn(t, Len(t) + 1) = loops

LEMMA TreeGrown ==
  ASSUME NEW t, NEW id \in Nat, TreeOK(t, id), NEW n \in NodeType,
         NEW more \in Nat, id <= more,
         n.k \in FnKinds <=> n.fnType # Object,
         n.k \in DeclKinds /\ n.ok => n.sym \in 1..more - 1,
         n.k \in FnKinds /\ n.ok => DepthIn(t, Len(t) + 1) = 0,
         n.k = "close" => DepthIn(t, Len(t) + 1) > 0
  PROVE  TreeOK(Append(t, n), more)
  <1> DEFINE u == Append(t, n)
             N == Len(t)
  <1>0. t \in Trees BY DEF TreeOK
  <1>1. /\ N \in Nat /\ Len(u) = N + 1 /\ u[N + 1] = n /\ u \in Trees
        /\ \A i \in 1..N : u[i] = t[i]
        /\ \A i \in 1..N + 1 : i \in 1..N \/ i = N + 1
    BY <1>0, Grown
  <1>2. \A q \in 1..N + 1 : DepthIn(u, q) = DepthIn(t, q) BY <1>0, DepthGrown
  <1> HIDE DEF u
  <1>3. \A x \in 1..id - 1 : x \in 1..more - 1 OBVIOUS
  <1>4. ASSUME NEW i \in 1..Len(u)
        PROVE  /\ u[i].k \in FnKinds <=> u[i].fnType # Object
               /\ DeclIn(u, i) => u[i].sym \in 1..more - 1
               /\ DeclIn(u, i) /\ u[i].k \in FnKinds => DepthIn(u, i) = 0
               /\ u[i].k = "close" => DepthIn(u, i) > 0
    <2>1. CASE i \in 1..N
      <3>1. u[i] = t[i] /\ DepthIn(u, i) = DepthIn(t, i) BY <2>1, <1>1, <1>2
      <3> QED BY <3>1, <2>1, <1>3 DEF TreeOK, DeclIn
    <2>2. CASE i = N + 1
      <3>1. u[i] = n /\ DepthIn(u, i) = DepthIn(t, N + 1) BY <2>2, <1>1, <1>2
      <3> QED BY <3>1 DEF DeclIn
    <2> QED BY <2>1, <2>2, <1>1
  <1>5. TreeOK(u, more) BY <1>1, <1>4 DEF TreeOK
  <1> QED BY <1>5 DEF u

LEMMA DepthOKGrown ==
  ASSUME NEW t \in Trees, NEW d, NEW loops, DepthOK(t, d, loops), NEW n \in NodeType,
         NEW e \in Nat, e = d + Opens(n) - Closes(n),
         NEW inside \in Nat,
         inside = loops + (IF n.ok /\ n.k = "loop" THEN 1 ELSE 0)
                   - (IF n.ok /\ n.k = "endloop" THEN 1 ELSE 0)
  PROVE  DepthOK(Append(t, n), e, inside)
  <1> DEFINE u == Append(t, n)
             N == Len(t)
  <1>1. N \in Nat /\ Len(u) = N + 1 BY Grown
  <1>2. \A q \in 1..N + 1 : DepthIn(u, q) = DepthIn(t, q) /\ LoopsIn(u, q) = LoopsIn(t, q)
    BY DepthGrown
  <1>3. DepthIn(u, N + 2) = e /\ LoopsIn(u, N + 2) = inside BY DepthGrown DEF DepthOK
  <1> HIDE DEF u
  <1>4. \A q \in 1..Len(u) + 1 : q \in 1..N + 1 \/ q = N + 2 BY <1>1
  <1>5. Len(u) + 1 = N + 2 BY <1>1
  <1>6. DepthOK(u, e, inside) BY <1>2, <1>3, <1>4, <1>5 DEF DepthOK
  <1> QED BY <1>6 DEF u

(* A function declared at file scope is never out of force.                *)
LEMMA FunctionsInForce ==
  ASSUME NEW t, NEW id, TreeOK(t, id), NEW i \in 1..Len(t), DeclIn(t, i), t[i].k \in FnKinds
  PROVE  ForceIn(t, i, Len(t) + 1) /\ DepthIn(t, i) = 0
  <1>1. Len(t) \in Nat BY LenProperties DEF TreeOK, Trees
  <1>2. \A c \in i + 1..(Len(t) + 1) - 1 : c \in 1..Len(t) BY <1>1
  <1> QED BY <1>1, <1>2 DEF TreeOK, ForceIn

-----------------------------------------------------------------------------
(* The stack of scopes.                                                    *)

ScopeStacks == Seq(ScopeType) \ {<<>>}

LEMMA ScopeFacts ==
  ASSUME NEW sc \in ScopeStacks
  PROVE  /\ sc \in Seq(ScopeType) /\ Len(sc) \in Nat \ {0}
         /\ \A l \in 1..Len(sc) : /\ sc[l] \in ScopeType /\ DOMAIN sc[l] \subseteq Names
                                  /\ \A x \in DOMAIN sc[l] : sc[l][x] \in Symbols
  <1>1. sc \in Seq(ScopeType) /\ Len(sc) \in Nat \ {0} BY EmptySeq DEF ScopeStacks
  <1>2. \A l \in 1..Len(sc) : sc[l] \in ScopeType BY <1>1, ElementOfSeq
  <1>3. ASSUME NEW l \in 1..Len(sc)
        PROVE  DOMAIN sc[l] \subseteq Names /\ \A x \in DOMAIN sc[l] : sc[l][x] \in Symbols
    <2>1. PICK D \in SUBSET Names : sc[l] \in [D -> Symbols] BY <1>2 DEF ScopeType
    <2> QED BY <2>1
  <1> QED BY <1>1, <1>2, <1>3

LEMMA OpenFacts ==
  ASSUME NEW sc \in ScopeStacks
  PROVE  /\ Append(sc, <<>>) \in ScopeStacks /\ Len(Append(sc, <<>>)) = Len(sc) + 1
         /\ \A l \in 1..Len(sc) : Append(sc, <<>>)[l] = sc[l]
         /\ Append(sc, <<>>)[Len(sc) + 1] = <<>> /\ DOMAIN <<>> = {}
  <1>1. <<>> \in Seq(Symbols) /\ Len(<<>>) = 0 BY EmptySeq
  <1>2. <<>> \in [1..0 -> Symbols] /\ DOMAIN <<>> = 1..0 BY <1>1, LenProperties
  <1>3. 1..0 = {} OBVIOUS
  <1>4. <<>> \in ScopeType BY <1>2, <1>3 DEF ScopeType
  <1>5. sc \in Seq(ScopeType) BY ScopeFacts
  <1> QED BY <1>2, <1>3, <1>4, <1>5, AppendProperties DEF ScopeStacks

LEMMA EmplaceFacts ==
  ASSUME NEW sc \in ScopeStacks, NEW name \in Names, NEW s \in Symbols
  PROVE  LET new == Emplace(sc, name, s)
             L   == Len(sc)
         IN  /\ new \in ScopeStacks /\ Len(new) = L
             /\ \A l \in 1..L : l # L => new[l] = sc[l]
             /\ DOMAIN new[L] = DOMAIN sc[L] \cup {name}
             /\ new[L][name] = s
             /\ \A x \in DOMAIN sc[L] : x # name => new[L][x] = sc[L][x]
  <1> DEFINE L == Len(sc)
             old == sc[L]
             f == [x \in DOMAIN old \cup {name} |-> IF x = name THEN s ELSE old[x]]
             new == [sc EXCEPT ![L] = f]
  <1>1. /\ sc \in Seq(ScopeType) /\ L \in 1..Len(sc) /\ DOMAIN old \subseteq Names
        /\ \A x \in DOMAIN old : old[x] \in Symbols
    BY ScopeFacts
  <1>2. f \in [DOMAIN old \cup {name} -> Symbols] BY <1>1
  <1>3. f \in ScopeType BY <1>1, <1>2 DEF ScopeType
  <1>4. /\ DOMAIN f = DOMAIN old \cup {name} /\ f[name] = s
        /\ \A x \in DOMAIN old : x # name => f[x] = old[x]
    OBVIOUS
  <1>5. Emplace(sc, name, s) = new
    <2>1. L \in DOMAIN sc BY <1>1, LenProperties
    <2> QED BY <2>1 DEF Emplace
  <1> HIDE DEF f
  <1>6. /\ new \in Seq(ScopeType) /\ Len(new) = Len(sc)
        /\ \A l \in 1..L : new[l] = IF l = L THEN f ELSE sc[l]
    BY <1>1, <1>3, ExceptSeq
  <1> HIDE DEF new
  <1>7. new # <<>> /\ new[L] = f BY <1>1, <1>6
  <1> QED BY <1>4, <1>5, <1>6, <1>7 DEF ScopeStacks

(* What scope l holds is what the tree declares in it and what is still in *)
(* force, with the symbol of those declarations.                           *)
Live(t, l, name) == {i \in ScopeIn(t, Len(t) + 1, name) : DepthIn(t, i) = l - 1}

SymbolOf(t, s, D) ==
    /\ D # {}
    /\ \A i \in D : t[i].sym = s.id /\ t[i].fnType = s.fnType
    /\ s.isDefined <=> \E i \in D : t[i].k = "def"

HoldsAt(t, scope, l, name) ==
    IF name \in DOMAIN scope THEN SymbolOf(t, scope[name], Live(t, l, name))
    ELSE Live(t, l, name) = {}

Held(t, sc) ==
    /\ \A l \in 1..Len(sc), name \in Names : HoldsAt(t, sc[l], l, name)
    /\ \A name \in Names : \A i \in ScopeIn(t, Len(t) + 1, name) : DepthIn(t, i) < Len(sc)

LEMMA LiveGrown ==
  ASSUME NEW t \in Trees, NEW n \in NodeType, NEW l \in Nat, NEW name
  PROVE  /\ Live(Append(t, n), l, name) =
              (IF n.k = "close" /\ DepthIn(t, Len(t) + 1) <= l - 1 THEN {} ELSE Live(t, l, name))
              \cup (IF /\ n.k \in DeclKinds /\ n.ok /\ n.name = name
                       /\ DepthIn(t, Len(t) + 1) = l - 1
                    THEN {Len(t) + 1} ELSE {})
         /\ \A i \in Live(t, l, name) : i \in 1..Len(t)
  <1> DEFINE u == Append(t, n)
             N == Len(t)
             S == ScopeIn(t, N + 1, name)
             V == ScopeIn(u, N + 2, name)
  <1>1. N \in Nat /\ Len(u) = N + 1 /\ (Len(u) + 1 = N + 2) BY Grown
  <1>2. N + 1 \in 1..N + 1 BY <1>1
  <1>3. /\ V = {i \in S : n.k = "close" => DepthIn(t, N + 1) > DepthIn(t, i)}
               \cup (IF n.k \in DeclKinds /\ n.ok /\ n.name = name THEN {N + 1} ELSE {})
        /\ \A i \in S : i \in 1..N /\ DepthIn(u, i) = DepthIn(t, i)
    BY <1>2, ScopeGrown
  <1>4. DepthIn(u, N + 1) = DepthIn(t, N + 1) /\ DepthIn(t, N + 1) \in Int
    BY <1>2, DepthGrown
  <1>5. N + 1 \notin S BY <1>1, <1>3
  <1> HIDE DEF u, S, V
  <1>6. Live(u, l, name) = {i \in V : DepthIn(u, i) = l - 1} BY <1>1 DEF Live, V
  <1>7. Live(t, l, name) = {i \in S : DepthIn(t, i) = l - 1} BY DEF Live, S
  <1>8. \A i \in S : i \in {j \in V : DepthIn(u, j) = l - 1} <=>
          DepthIn(t, i) = l - 1 /\ ~(n.k = "close" /\ DepthIn(t, N + 1) <= l - 1)
    <2>1. \A i \in S : i # N + 1 BY <1>5
    <2> QED BY <2>1, <1>3, <1>4
  <1>9. N + 1 \in {j \in V : DepthIn(u, j) = l - 1} <=>
          n.k \in DeclKinds /\ n.ok /\ n.name = name /\ DepthIn(t, N + 1) = l - 1
    BY <1>3, <1>4, <1>5
  <1>10. V \subseteq S \cup {N + 1} BY <1>3
  <1>11. Live(u, l, name) =
              (IF n.k = "close" /\ DepthIn(t, N + 1) <= l - 1 THEN {} ELSE Live(t, l, name))
              \cup (IF /\ n.k \in DeclKinds /\ n.ok /\ n.name = name
                       /\ DepthIn(t, N + 1) = l - 1
                    THEN {N + 1} ELSE {})
    BY <1>5, <1>6, <1>7, <1>8, <1>9, <1>10
  <1>12. \A i \in Live(t, l, name) : i \in 1..N BY <1>3, <1>7
  <1> QED BY <1>11, <1>12 DEF u

(* A symbol goes on standing for nodes that do not change.                 *)
LEMMA SymbolKept ==
  ASSUME NEW t, NEW u, NEW s, NEW D, \A i \in D : u[i] = t[i], SymbolOf(t, s, D)
  PROVE  SymbolOf(u, s, D)
  BY DEF SymbolOf

(* A node that neither declares nor closes leaves the scopes right.        *)
LEMMA HeldPlain ==
  ASSUME NEW t \in Trees, NEW sc \in ScopeStacks, Held(t, sc), NEW n \in NodeType,
         n.k # "close", ~(n.k \in DeclKinds /\ n.ok)
  PROVE  Held(Append(t, n), sc)
  <1> DEFINE u == Append(t, n)
             N == Len(t)
  <1>1. N \in Nat /\ Len(u) = N + 1 /\ Len(u) + 1 = N + 2 /\ \A i \in 1..N : u[i] = t[i] BY Grown
  <1>2. ASSUME NEW name
        PROVE  /\ ScopeIn(u, N + 2, name) = ScopeIn(t, N + 1, name)
               /\ \A i \in ScopeIn(t, N + 1, name) : DepthIn(u, i) = DepthIn(t, i)
    <2>1. N + 1 \in 1..N + 1 BY <1>1
    <2>2. ScopeIn(u, N + 2, name) =
            {i \in ScopeIn(t, N + 1, name) : n.k = "close" => DepthIn(t, N + 1) > DepthIn(t, i)}
            \cup (IF n.k \in DeclKinds /\ n.ok /\ n.name = name THEN {N + 1} ELSE {})
      BY ScopeGrown
    <2>3. \A i \in ScopeIn(t, N + 1, name) : DepthIn(u, i) = DepthIn(t, i)
      BY <2>1, ScopeGrown
    <2> QED BY <2>2, <2>3
  <1>3. ASSUME NEW l \in Nat, NEW name
        PROVE  /\ Live(u, l, name) = Live(t, l, name)
               /\ \A i \in Live(t, l, name) : u[i] = t[i]
    <2>1. /\ Live(u, l, name) =
               (IF n.k = "close" /\ DepthIn(t, N + 1) <= l - 1 THEN {} ELSE Live(t, l, name))
               \cup (IF /\ n.k \in DeclKinds /\ n.ok /\ n.name = name
                        /\ DepthIn(t, N + 1) = l - 1
                     THEN {N + 1} ELSE {})
          /\ \A i \in Live(t, l, name) : i \in 1..N
      BY LiveGrown
    <2> QED BY <2>1, <1>1
  <1> HIDE DEF u
  <1>4. ASSUME NEW l \in 1..Len(sc), NEW name \in Names PROVE HoldsAt(u, sc[l], l, name)
    <2>1. l \in Nat /\ HoldsAt(t, sc[l], l, name) BY ScopeFacts DEF Held
    <2> QED BY <2>1, <1>3, SymbolKept DEF HoldsAt
  <1>5. \A name \in Names : \A i \in ScopeIn(u, Len(u) + 1, name) : DepthIn(u, i) < Len(sc)
    BY <1>1, <1>2 DEF Held
  <1>6. Held(u, sc) BY <1>4, <1>5 DEF Held
  <1> QED BY <1>6 DEF u

(* A scope that opens holds nothing.                                       *)
LEMMA HeldOpened ==
  ASSUME NEW t \in Trees, NEW sc \in ScopeStacks, Held(t, sc)
  PROVE  Held(t, Append(sc, <<>>))
  <1> DEFINE L == Len(sc)
             new == Append(sc, <<>>)
  <1>1. /\ L \in Nat /\ Len(new) = L + 1 /\ \A l \in 1..L : new[l] = sc[l]
        /\ DOMAIN new[L + 1] = {}
    BY ScopeFacts, OpenFacts
  <1> HIDE DEF new
  <1>2. ASSUME NEW l \in 1..Len(new), NEW name \in Names PROVE HoldsAt(t, new[l], l, name)
    <2>1. CASE l \in 1..L BY <2>1, <1>1 DEF Held
    <2>2. CASE l = L + 1
      <3>1. \A i \in ScopeIn(t, Len(t) + 1, name) : DepthIn(t, i) < L BY DEF Held
      <3>2. Live(t, l, name) = {} BY <3>1, <2>2, <1>1 DEF Live
      <3> QED BY <3>2, <2>2, <1>1 DEF HoldsAt
    <2> QED BY <2>1, <2>2, <1>1
  <1>3. ASSUME NEW name \in Names, NEW i \in ScopeIn(t, Len(t) + 1, name)
        PROVE  DepthIn(t, i) < Len(new)
    <2>1. DepthIn(t, i) < L BY DEF Held
    <2>2. i \in 1..Len(t) BY DEF ScopeIn
    <2>3. i \in Nat BY <2>2, LenProperties DEF Trees
    <2>4. DepthIn(t, i) \in Int BY <2>3, BeforeFinite DEF DepthIn
    <2> QED BY <2>1, <2>4, <1>1
  <1>4. Held(t, new) BY <1>2, <1>3 DEF Held
  <1> QED BY <1>4 DEF new

(* The innermost scope closes with its declarations.                       *)
LEMMA HeldClosed ==
  ASSUME NEW t \in Trees, NEW sc \in ScopeStacks, Held(t, sc), Len(sc) > 1,
         NEW n \in NodeType, n.k = "close", DepthIn(t, Len(t) + 1) = Len(sc) - 1
  PROVE  /\ SubSeq(sc, 1, Len(sc) - 1) \in ScopeStacks
         /\ Held(Append(t, n), SubSeq(sc, 1, Len(sc) - 1))
  <1> DEFINE u == Append(t, n)
             N == Len(t)
             L == Len(sc)
             new == SubSeq(sc, 1, L - 1)
  <1>1. N \in Nat /\ Len(u) = N + 1 /\ Len(u) + 1 = N + 2 /\ \A i \in 1..N : u[i] = t[i] BY Grown
  <1>2. /\ sc \in Seq(ScopeType) /\ L \in Nat \ {0} /\ sc # <<>>
    BY ScopeFacts DEF ScopeStacks
  <1>3. new \in Seq(ScopeType) /\ Len(new) = L - 1 /\ \A l \in 1..L - 1 : new[l] = sc[l]
    BY <1>2, FrontFacts
  <1>4. new \in ScopeStacks
    <2>1. L > 1 /\ L \in Nat BY <1>2
    <2> HIDE DEF L
    <2>2. L - 1 # 0 BY <2>1
    <2>3. Len(<<>>) = 0 OBVIOUS
    <2> HIDE DEF new
    <2>4. new # <<>> BY <2>2, <2>3, <1>3
    <2> QED BY <2>4, <1>3 DEF ScopeStacks
  <1>5. \A l \in Nat : \A name :
          /\ Live(u, l, name) = IF L - 1 <= l - 1 THEN {} ELSE Live(t, l, name)
          /\ \A i \in Live(t, l, name) : u[i] = t[i]
    <2> SUFFICES ASSUME NEW l \in Nat, NEW name
                 PROVE  /\ Live(u, l, name) = IF L - 1 <= l - 1 THEN {} ELSE Live(t, l, name)
                        /\ \A i \in Live(t, l, name) : u[i] = t[i]
      OBVIOUS
    <2>1. n.k \notin DeclKinds BY DEF DeclKinds
    <2>2. /\ Live(u, l, name) =
               (IF n.k = "close" /\ DepthIn(t, N + 1) <= l - 1 THEN {} ELSE Live(t, l, name))
               \cup (IF /\ n.k \in DeclKinds /\ n.ok /\ n.name = name
                        /\ DepthIn(t, N + 1) = l - 1
                     THEN {N + 1} ELSE {})
          /\ \A i \in Live(t, l, name) : i \in 1..N
      BY LiveGrown
    <2> QED BY <2>1, <2>2, <1>1
  <1>6. \A name : \A i \in ScopeIn(u, N + 2, name) :
          DepthIn(u, i) = DepthIn(t, i) /\ DepthIn(t, N + 1) > DepthIn(t, i)
    <2>1. N + 1 \in 1..N + 1 /\ n.k \notin DeclKinds BY <1>1 DEF DeclKinds
    <2> QED BY <2>1, ScopeGrown
  <1> HIDE DEF u, new
  <1>7. ASSUME NEW l \in 1..Len(new), NEW name \in Names PROVE HoldsAt(u, new[l], l, name)
    <2>1. l \in Nat /\ l \in 1..L /\ ~(L - 1 <= l - 1) /\ new[l] = sc[l] BY <1>2, <1>3
    <2>2. HoldsAt(t, sc[l], l, name) BY <2>1 DEF Held
    <2> QED BY <2>1, <2>2, <1>5, SymbolKept DEF HoldsAt
  <1>8. ASSUME NEW name \in Names, NEW i \in ScopeIn(u, Len(u) + 1, name)
        PROVE  DepthIn(u, i) < Len(new)
    BY <1>1, <1>3, <1>6
  <1>9. Held(u, new) BY <1>7, <1>8 DEF Held
  <1> QED BY <1>4, <1>9 DEF u, new

(* A declaration enters the innermost scope, with a symbol of its own or   *)
(* with that of the declarations of the same function before it.           *)
LEMMA HeldDeclared ==
  ASSUME NEW t \in Trees, NEW sc \in ScopeStacks, Held(t, sc),
         NEW n \in NodeType, n.k \in DeclKinds, n.ok, n.name \in Names,
         DepthIn(t, Len(t) + 1) = Len(sc) - 1,
         NEW s \in Symbols, s.id = n.sym, s.fnType = n.fnType,
         LET old == sc[Len(sc)]
         IN  IF n.name \in DOMAIN old
             THEN /\ old[n.name].id = s.id /\ old[n.name].fnType = s.fnType
                  /\ s.isDefined <=> old[n.name].isDefined \/ n.k = "def"
             ELSE s.isDefined <=> n.k = "def"
  PROVE  Held(Append(t, n), Emplace(sc, n.name, s))
  <1> DEFINE u == Append(t, n)
             N == Len(t)
             L == Len(sc)
             old == sc[L]
             new == Emplace(sc, n.name, s)
  <1>1. /\ N \in Nat /\ Len(u) = N + 1 /\ Len(u) + 1 = N + 2
        /\ u[N + 1] = n /\ \A i \in 1..N : u[i] = t[i]
    BY Grown
  <1>2. L \in Nat \ {0} BY ScopeFacts
  <1>3. /\ Len(new) = L /\ \A l \in 1..L : l # L => new[l] = sc[l]
        /\ DOMAIN new[L] = DOMAIN old \cup {n.name}
        /\ new[L][n.name] = s
        /\ \A x \in DOMAIN old : x # n.name => new[L][x] = old[x]
    BY EmplaceFacts
  <1>4. n.k # "close" BY DEF DeclKinds
  <1>5. \A l \in Nat : \A name :
          /\ Live(u, l, name) = Live(t, l, name)
                \cup (IF n.name = name /\ L - 1 = l - 1 THEN {N + 1} ELSE {})
          /\ \A i \in Live(t, l, name) : u[i] = t[i]
    <2> SUFFICES ASSUME NEW l \in Nat, NEW name
                 PROVE  /\ Live(u, l, name) = Live(t, l, name)
                              \cup (IF n.name = name /\ L - 1 = l - 1 THEN {N + 1} ELSE {})
                        /\ \A i \in Live(t, l, name) : u[i] = t[i]
      OBVIOUS
    <2>1. /\ Live(u, l, name) =
               (IF n.k = "close" /\ DepthIn(t, N + 1) <= l - 1 THEN {} ELSE Live(t, l, name))
               \cup (IF /\ n.k \in DeclKinds /\ n.ok /\ n.name = name
                        /\ DepthIn(t, N + 1) = l - 1
                     THEN {N + 1} ELSE {})
          /\ \A i \in Live(t, l, name) : i \in 1..N
      BY LiveGrown
    <2> QED BY <2>1, <1>1, <1>4
  <1>6. \A name : \A i \in ScopeIn(u, N + 2, name) :
          i = N + 1 \/ (i \in ScopeIn(t, N + 1, name) /\ DepthIn(u, i) = DepthIn(t, i))
    <2>1. N + 1 \in 1..N + 1 BY <1>1
    <2> QED BY <2>1, ScopeGrown
  <1>7. DepthIn(u, N + 1) = L - 1
    <2>1. N + 1 \in 1..N + 1 BY <1>1
    <2> QED BY <2>1, DepthGrown
  <1> HIDE DEF u, new
  <1>8. ASSUME NEW l \in 1..Len(new), NEW name \in Names PROVE HoldsAt(u, new[l], l, name)
    <2>1. l \in Nat /\ l \in 1..L BY <1>2, <1>3
    <2>2. HoldsAt(t, sc[l], l, name) BY <2>1 DEF Held
    <2>3. CASE ~(n.name = name /\ l = L)
      <3>1. Live(u, l, name) = Live(t, l, name)
        <4>1. ~(n.name = name /\ L - 1 = l - 1) BY <2>1, <2>3, <1>2
        <4>2. Live(u, l, name) = Live(t, l, name)
                \cup (IF n.name = name /\ L - 1 = l - 1 THEN {N + 1} ELSE {})
          BY <2>1, <1>5
        <4> QED BY <4>1, <4>2
      <3>2. name \in DOMAIN new[l] <=> name \in DOMAIN sc[l] BY <2>1, <2>3, <1>3
      <3>3. name \in DOMAIN sc[l] => new[l][name] = sc[l][name] BY <2>1, <2>3, <1>3
      <3> QED BY <3>1, <3>2, <3>3, <2>1, <2>2, <1>5, SymbolKept DEF HoldsAt
    <2>4. CASE n.name = name /\ l = L
      <3>1. Live(u, l, name) = Live(t, l, name) \cup {N + 1} BY <2>1, <2>4, <1>5
      <3>2. \A i \in Live(t, l, name) : u[i] = t[i] BY <2>1, <1>5
      <3>3. name \in DOMAIN new[l] /\ new[l][name] = s BY <2>4, <1>3
      <3>4. CASE name \in DOMAIN old
        <4>1. SymbolOf(t, old[name], Live(t, l, name)) BY <3>4, <2>2, <2>4 DEF HoldsAt
        <4>2. /\ old[name].id = s.id /\ old[name].fnType = s.fnType
              /\ s.isDefined <=> old[name].isDefined \/ n.k = "def"
          BY <3>4, <2>4
        <4>3. SymbolOf(u, s, Live(u, l, name))
          BY <4>1, <4>2, <3>1, <3>2, <1>1 DEF SymbolOf
        <4> QED BY <4>3, <3>3 DEF HoldsAt
      <3>5. CASE name \notin DOMAIN old
        <4>1. Live(t, l, name) = {} BY <3>5, <2>2, <2>4 DEF HoldsAt
        <4>2. s.isDefined <=> n.k = "def" BY <3>5, <2>4
        <4>3. SymbolOf(u, s, Live(u, l, name))
          BY <4>1, <4>2, <3>1, <1>1 DEF SymbolOf
        <4> QED BY <4>3, <3>3 DEF HoldsAt
      <3> QED BY <3>4, <3>5
    <2> QED BY <2>3, <2>4
  <1>9. ASSUME NEW name \in Names, NEW i \in ScopeIn(u, Len(u) + 1, name)
        PROVE  DepthIn(u, i) < Len(new)
    <2>1. CASE i = N + 1 BY <2>1, <1>2, <1>3, <1>7
    <2>2. CASE i \in ScopeIn(t, N + 1, name) /\ DepthIn(u, i) = DepthIn(t, i)
      BY <2>2, <1>3 DEF Held
    <2> QED BY <2>1, <2>2, <1>1, <1>6
  <1>10. Held(u, new) BY <1>8, <1>9 DEF Held
  <1> QED BY <1>10 DEF u, new

-----------------------------------------------------------------------------
(* The walk's state: the tree and the scopes agree, and the rules hold of  *)
(* every node met.                                                         *)

Rules(t) ==
    \A q \in 1..Len(t) : /\ ScopedAt(t, q) /\ OneAt(t, q) /\ JumpAt(t, q)
                         /\ \A i \in 1..Len(t) : ApartAt(t, i, q)

Agree(t, sc, id, d) ==
    /\ id \in Nat \ {0} /\ d \in Nat /\ sc \in ScopeStacks
    /\ TreeOK(t, id) /\ DepthOK(t, Len(sc) - 1, d) /\ Held(t, sc) /\ Rules(t)

LEMMA AgreeFacts ==
  ASSUME NEW t, NEW sc, NEW id, NEW d, Agree(t, sc, id, d)
  PROVE  /\ t \in Trees /\ Len(t) \in Nat /\ id \in Nat \ {0} /\ d \in Nat
         /\ sc \in ScopeStacks /\ Len(sc) \in Nat \ {0} /\ Len(sc) - 1 \in Nat
         /\ DepthIn(t, Len(t) + 1) = Len(sc) - 1 /\ LoopsIn(t, Len(t) + 1) = d
         /\ \A l \in 1..Len(sc) : DOMAIN sc[l] \subseteq Names
         /\ \A l \in 1..Len(sc) : \A x \in DOMAIN sc[l] : sc[l][x] \in Symbols
  <1>1. sc \in ScopeStacks BY DEF Agree
  <1>2. Len(sc) \in Nat \ {0} BY <1>1, ScopeFacts
  <1>3. Len(sc) - 1 \in Nat BY <1>2
  <1> QED BY <1>1, <1>2, <1>3, ScopeFacts, LenProperties DEF Agree, TreeOK, DepthOK, Trees

LEMMA RulesStep ==
  ASSUME NEW t \in Trees, NEW n \in NodeType, Rules(t),
         ScopedAt(Append(t, n), Len(t) + 1), OneAt(Append(t, n), Len(t) + 1),
         JumpAt(Append(t, n), Len(t) + 1),
         \A i \in 1..Len(t) : ApartAt(Append(t, n), i, Len(t) + 1)
  PROVE  Rules(Append(t, n))
  <1> DEFINE u == Append(t, n)
             N == Len(t)
  <1>1. /\ N \in Nat /\ Len(u) = N + 1
        /\ \A i \in 1..N + 1 : i \in 1..N \/ i = N + 1
    BY Grown
  <1>2. \A q \in 1..N : /\ ScopedAt(u, q) /\ OneAt(u, q) /\ JumpAt(u, q)
                        /\ \A i \in 1..N : ApartAt(u, i, q)
    BY RulesGrown DEF Rules
  <1> HIDE DEF u
  <1>3. \A i \in 1..N : ApartAt(u, i, N + 1) /\ ApartAt(u, N + 1, i) BY DEF ApartAt, u
  <1>4. ApartAt(u, N + 1, N + 1) BY DEF ApartAt
  <1>5. ScopedAt(u, N + 1) /\ OneAt(u, N + 1) /\ JumpAt(u, N + 1) BY DEF u
  <1>6. Rules(u) BY <1>1, <1>2, <1>3, <1>4, <1>5 DEF Rules
  <1> QED BY <1>6 DEF u

(* A node that changes no scope and no loop.                               *)
LEMMA NeutralNode ==
  ASSUME NEW t, NEW sc, NEW id, NEW d, Agree(t, sc, id, d), NEW n \in NodeType,
         n.k \notin {"open", "close", "loop", "endloop"}, n.k \in DeclKinds => ~n.ok,
         n.k \in FnKinds <=> n.fnType # Object,
         ScopedAt(Append(t, n), Len(t) + 1), OneAt(Append(t, n), Len(t) + 1),
         n.k = "jump" => (n.ok <=> d > 0)
  PROVE  Agree(Append(t, n), sc, id, d)
  <1> DEFINE u == Append(t, n)
             N == Len(t)
  <1>1. /\ t \in Trees /\ N \in Nat /\ id \in Nat /\ d \in Nat /\ Len(sc) - 1 \in Nat
        /\ LoopsIn(t, N + 1) = d
        /\ TreeOK(t, id) /\ DepthOK(t, Len(sc) - 1, d) /\ Held(t, sc) /\ Rules(t)
        /\ sc \in ScopeStacks
    BY AgreeFacts DEF Agree
  <1>2. u[N + 1] = n BY <1>1, Grown
  <1>3. ~(n.k \in DeclKinds /\ n.ok) /\ n.k # "close" OBVIOUS
  <1>4. ~(n.k \in FnKinds /\ n.ok) BY DEF DeclKinds, FnKinds
  <1>5. Opens(n) = 0 /\ Closes(n) = 0 BY DEF Opens, Closes, DeclKinds
  <1>6. Held(u, sc) BY <1>1, <1>3, HeldPlain
  <1>7. TreeOK(u, id) BY <1>1, <1>3, <1>4, TreeGrown
  <1>8. DepthOK(u, Len(sc) - 1, d)
    <2>1. Len(sc) - 1 = Len(sc) - 1 + Opens(n) - Closes(n) BY <1>1, <1>5
    <2>2. d = d + (IF n.ok /\ n.k = "loop" THEN 1 ELSE 0)
                - (IF n.ok /\ n.k = "endloop" THEN 1 ELSE 0)
      BY <1>1
    <2> QED BY <2>1, <2>2, <1>1, DepthOKGrown
  <1>9. JumpAt(u, N + 1)
    <2>1. N + 1 \in 1..N + 1 BY <1>1
    <2>2. LoopsIn(u, N + 1) = d BY <2>1, <1>1, DepthGrown
    <2> HIDE DEF u
    <2> QED BY <2>2, <1>2 DEF JumpAt
  <1>10. \A i \in 1..N : ApartAt(u, i, N + 1)
    <2> HIDE DEF u
    <2> QED BY <1>2, <1>3 DEF ApartAt, DeclIn
  <1>11. Rules(u) BY <1>1, <1>9, <1>10, RulesStep
  <1> HIDE DEF u
  <1>12. Agree(u, sc, id, d) BY <1>1, <1>6, <1>7, <1>8, <1>11, AgreeFacts DEF Agree
  <1> QED BY <1>12 DEF u

(* A node the rules say nothing of.                                        *)
LEMMA NoRules ==
  ASSUME NEW t \in Trees, NEW n \in NodeType, n.k \notin DeclKinds \cup UseKinds
  PROVE  ScopedAt(Append(t, n), Len(t) + 1) /\ OneAt(Append(t, n), Len(t) + 1)
  <1>1. Append(t, n)[Len(t) + 1] = n BY Grown
  <1> QED BY <1>1 DEF ScopedAt, OneAt

LEMMA PlainNode ==
  ASSUME NEW t, NEW sc, NEW id, NEW d, Agree(t, sc, id, d),
         NEW n \in NodeType, n.k \in {"endvar", "if", "while", "jump"}, n.fnType = Object,
         n.k = "jump" => (n.ok <=> d > 0)
  PROVE  Agree(Append(t, n), sc, id, d)
  <1>1. n.k \notin DeclKinds \cup UseKinds /\ n.k \notin FnKinds BY DEF DeclKinds, UseKinds, FnKinds
  <1>2. t \in Trees BY AgreeFacts
  <1>3. ScopedAt(Append(t, n), Len(t) + 1) /\ OneAt(Append(t, n), Len(t) + 1)
    BY <1>1, <1>2, NoRules
  <1>4. n.k \notin {"open", "close", "loop", "endloop"} OBVIOUS
  <1> QED BY <1>1, <1>3, <1>4, NeutralNode

(* Into a loop's body and out of it.                                       *)
LEMMA LoopNode ==
  ASSUME NEW t, NEW sc, NEW id, NEW d, Agree(t, sc, id, d),
         NEW n \in NodeType, n.ok, n.fnType = Object, NEW e \in Nat,
         \/ n.k = "loop" /\ e = d + 1
         \/ n.k = "endloop" /\ e = d - 1
  PROVE  Agree(Append(t, n), sc, id, e)
  <1> DEFINE u == Append(t, n)
             N == Len(t)
  <1>1. /\ t \in Trees /\ N \in Nat /\ id \in Nat /\ d \in Nat /\ Len(sc) - 1 \in Nat
        /\ TreeOK(t, id) /\ DepthOK(t, Len(sc) - 1, d) /\ Held(t, sc) /\ Rules(t)
        /\ sc \in ScopeStacks
    BY AgreeFacts DEF Agree
  <1>2. u[N + 1] = n BY <1>1, Grown
  <1>3. n.k \notin DeclKinds \cup UseKinds /\ n.k \notin FnKinds /\ n.k # "close" /\ n.k # "jump"
    BY DEF DeclKinds, UseKinds, FnKinds
  <1>4. Opens(n) = 0 /\ Closes(n) = 0 BY DEF Opens, Closes
  <1>5. Held(u, sc) BY <1>1, <1>3, HeldPlain
  <1>6. TreeOK(u, id) BY <1>1, <1>3, TreeGrown
  <1>7. DepthOK(u, Len(sc) - 1, e)
    <2>1. Len(sc) - 1 = Len(sc) - 1 + Opens(n) - Closes(n) BY <1>1, <1>4
    <2>2. e = d + (IF n.ok /\ n.k = "loop" THEN 1 ELSE 0)
                - (IF n.ok /\ n.k = "endloop" THEN 1 ELSE 0)
      BY <1>1
    <2> QED BY <2>1, <2>2, <1>1, DepthOKGrown
  <1>8. ScopedAt(u, N + 1) /\ OneAt(u, N + 1) BY <1>1, <1>3, NoRules
  <1>9. JumpAt(u, N + 1) /\ \A i \in 1..N : ApartAt(u, i, N + 1)
    <2> HIDE DEF u
    <2> QED BY <1>2, <1>3 DEF JumpAt, ApartAt, DeclIn
  <1>10. Rules(u) BY <1>1, <1>8, <1>9, RulesStep
  <1> HIDE DEF u
  <1>11. Agree(u, sc, id, e) BY <1>1, <1>5, <1>6, <1>7, <1>10, AgreeFacts DEF Agree
  <1> QED BY <1>11 DEF u

(* A compound statement opens a scope, the end of a body closes one.       *)
LEMMA OpenNode ==
  ASSUME NEW t, NEW sc, NEW id, NEW d, Agree(t, sc, id, d),
         NEW n \in NodeType, n.k = "open", n.ok, n.fnType = Object
  PROVE  Agree(Append(t, n), Append(sc, <<>>), id, d)
  <1> DEFINE u == Append(t, n)
             N == Len(t)
             new == Append(sc, <<>>)
  <1>1. /\ t \in Trees /\ N \in Nat /\ id \in Nat /\ d \in Nat /\ Len(sc) \in Nat \ {0}
        /\ TreeOK(t, id) /\ DepthOK(t, Len(sc) - 1, d) /\ Held(t, sc) /\ Rules(t)
        /\ sc \in ScopeStacks
    BY AgreeFacts DEF Agree
  <1>2. u[N + 1] = n /\ u \in Trees BY <1>1, Grown
  <1>3. n.k \notin DeclKinds \cup UseKinds /\ n.k \notin FnKinds /\ n.k # "close" /\ n.k # "jump"
    BY DEF DeclKinds, UseKinds, FnKinds
  <1>4. Opens(n) = 1 /\ Closes(n) = 0 BY DEF Opens, Closes
  <1>5. Held(u, sc) BY <1>1, <1>3, HeldPlain
  <1>6. Held(u, new) /\ new \in ScopeStacks /\ Len(new) = Len(sc) + 1
    BY <1>1, <1>2, <1>5, HeldOpened, OpenFacts
  <1>7. TreeOK(u, id) BY <1>1, <1>3, TreeGrown
  <1>8. DepthOK(u, Len(new) - 1, d)
    <2>1. Len(new) - 1 \in Nat /\ Len(new) - 1 = Len(sc) - 1 + Opens(n) - Closes(n)
      BY <1>1, <1>4, <1>6
    <2>2. d = d + (IF n.ok /\ n.k = "loop" THEN 1 ELSE 0)
                - (IF n.ok /\ n.k = "endloop" THEN 1 ELSE 0)
      BY <1>1
    <2> QED BY <2>1, <2>2, <1>1, DepthOKGrown
  <1>9. ScopedAt(u, N + 1) /\ OneAt(u, N + 1) BY <1>1, <1>3, NoRules
  <1>10. JumpAt(u, N + 1) /\ \A i \in 1..N : ApartAt(u, i, N + 1)
    <2> HIDE DEF u
    <2> QED BY <1>2, <1>3 DEF JumpAt, ApartAt, DeclIn
  <1>11. Rules(u) BY <1>1, <1>9, <1>10, RulesStep
  <1> HIDE DEF u, new
  <1>12. Agree(u, new, id, d) BY <1>1, <1>6, <1>7, <1>8, <1>11, AgreeFacts DEF Agree
  <1> QED BY <1>12 DEF u, new

LEMMA CloseNode ==
  ASSUME NEW t, NEW sc, NEW id, NEW d, Agree(t, sc, id, d), Len(sc) > 1,
         NEW n \in NodeType, n.k = "close", n.ok, n.fnType = Object
  PROVE  Agree(Append(t, n), SubSeq(sc, 1, Len(sc) - 1), id, d)
  <1> DEFINE u == Append(t, n)
             N == Len(t)
             new == SubSeq(sc, 1, Len(sc) - 1)
  <1>1. /\ t \in Trees /\ N \in Nat /\ id \in Nat /\ d \in Nat /\ Len(sc) \in Nat \ {0}
        /\ TreeOK(t, id) /\ DepthOK(t, Len(sc) - 1, d) /\ Held(t, sc) /\ Rules(t)
        /\ sc \in ScopeStacks /\ DepthIn(t, N + 1) = Len(sc) - 1
    BY AgreeFacts DEF Agree
  <1>2. u[N + 1] = n BY <1>1, Grown
  <1>3. n.k \notin DeclKinds \cup UseKinds /\ n.k \notin FnKinds /\ n.k # "jump"
    BY DEF DeclKinds, UseKinds, FnKinds
  <1>4. Opens(n) = 0 /\ Closes(n) = 1 BY DEF Opens, Closes
  <1>5. Held(u, new) /\ new \in ScopeStacks BY <1>1, HeldClosed
  <1>6. Len(new) = Len(sc) - 1
    <2>1. sc \in Seq(ScopeType) /\ sc # <<>> BY <1>1 DEF ScopeStacks
    <2> QED BY <2>1, FrontFacts
  <1>7. TreeOK(u, id)
    <2>1. DepthIn(t, N + 1) > 0 BY <1>1
    <2> QED BY <2>1, <1>1, <1>3, TreeGrown
  <1>8. DepthOK(u, Len(new) - 1, d)
    <2>1. Len(new) - 1 \in Nat /\ Len(new) - 1 = Len(sc) - 1 + Opens(n) - Closes(n)
      <3> HIDE DEF new
      <3> QED BY <1>1, <1>4, <1>6
    <2>2. d = d + (IF n.ok /\ n.k = "loop" THEN 1 ELSE 0)
                - (IF n.ok /\ n.k = "endloop" THEN 1 ELSE 0)
      BY <1>1
    <2> QED BY <2>1, <2>2, <1>1, DepthOKGrown
  <1>9. ScopedAt(u, N + 1) /\ OneAt(u, N + 1) BY <1>1, <1>3, NoRules
  <1>10. JumpAt(u, N + 1) /\ \A i \in 1..N : ApartAt(u, i, N + 1)
    <2> HIDE DEF u
    <2> QED BY <1>2, <1>3 DEF JumpAt, ApartAt, DeclIn
  <1>11. Rules(u) BY <1>1, <1>9, <1>10, RulesStep
  <1> HIDE DEF u, new
  <1>12. Agree(u, new, id, d) BY <1>1, <1>5, <1>7, <1>8, <1>11, AgreeFacts DEF Agree
  <1> QED BY <1>12 DEF u, new

-----------------------------------------------------------------------------
(* Names used.  What lookup finds in a stack of scopes.                    *)
HoldingIn(sc, name) == {i \in 1..Len(sc) : name \in DOMAIN sc[i]}
Found(sc, name) ==
    {sc[i][name] : i \in {j \in HoldingIn(sc, name) : \A m \in HoldingIn(sc, name) : m <= j}}

(* The new node's name means the declarations in force now.                *)
LEMMA MeantNow ==
  ASSUME NEW t \in Trees, NEW n \in NodeType
  PROVE  LET N == Len(t)
             all == ScopeIn(t, N + 1, n.name)
         IN  /\ MeantIn(Append(t, n), N + 1) =
                  {i \in all : \A j \in all : DepthIn(t, j) <= DepthIn(t, i)}
             /\ SameIn(Append(t, n), N + 1) =
                  {i \in all : DepthIn(t, i) = DepthIn(t, N + 1)}
             /\ \A i \in all : i \in 1..N /\ DepthIn(t, i) \in Int
  <1> DEFINE u == Append(t, n)
             N == Len(t)
             all == ScopeIn(t, N + 1, n.name)
  <1>1. N \in Nat /\ u[N + 1] = n BY Grown
  <1>2. N + 1 \in 1..N + 1 BY <1>1
  <1>3. ScopeIn(u, N + 1, n.name) = all BY <1>2, ScopeGrown
  <1>4. \A i \in all : i \in 1..N /\ DepthIn(u, i) = DepthIn(t, i) BY <1>2, ScopeGrown
  <1>5. \A i \in 1..N + 1 : DepthIn(u, i) = DepthIn(t, i) /\ DepthIn(t, i) \in Int BY DepthGrown
  <1>6. \A i \in all : i \in 1..N + 1 BY <1>1, <1>4
  <1> HIDE DEF u, all
  <1>7. MeantIn(u, N + 1) = {i \in all : \A j \in all : DepthIn(t, j) <= DepthIn(t, i)}
    BY <1>1, <1>3, <1>4 DEF MeantIn
  <1>8. SameIn(u, N + 1) = {i \in all : DepthIn(t, i) = DepthIn(t, N + 1)}
    BY <1>1, <1>2, <1>3, <1>4, <1>5 DEF SameIn
  <1> QED BY <1>4, <1>5, <1>6, <1>7, <1>8 DEF u, all

(* Nothing is found only if no scope holds the name.                       *)
LEMMA FoundNothing ==
  ASSUME NEW sc \in ScopeStacks, NEW name, Found(sc, name) = {}
  PROVE  HoldingIn(sc, name) = {}
  <1>1. SUFFICES ASSUME HoldingIn(sc, name) # {} PROVE FALSE
    OBVIOUS
  <1>2. Len(sc) \in Nat /\ HoldingIn(sc, name) \in SUBSET (1..Len(sc))
    BY ScopeFacts DEF HoldingIn
  <1>3. PICK i \in HoldingIn(sc, name) : \A j \in HoldingIn(sc, name) : j <= i
    BY <1>1, <1>2, LastPlace
  <1> QED BY <1>3 DEF Found

(* lookup finds the declarations that the rules mean.                      *)
LEMMA FoundIsMeant ==
  ASSUME NEW t, NEW sc, NEW id, NEW d, Agree(t, sc, id, d),
         NEW n \in NodeType, n.name \in Names
  PROVE  LET M == MeantIn(Append(t, n), Len(t) + 1)
         IN  /\ Found(sc, n.name) = {} => M = {}
             /\ \A s \in Found(sc, n.name) :
                  /\ M # {} /\ s \in Symbols
                  /\ \A i \in M : /\ i \in 1..Len(t)
                                  /\ t[i].sym = s.id /\ t[i].fnType = s.fnType
  <1> DEFINE N == Len(t)
             name == n.name
             all == ScopeIn(t, N + 1, name)
             M == {i \in all : \A j \in all : DepthIn(t, j) <= DepthIn(t, i)}
             H == HoldingIn(sc, name)
  <1>1. /\ t \in Trees /\ sc \in ScopeStacks /\ Len(sc) \in Nat \ {0} /\ N \in Nat
        /\ \A l \in 1..Len(sc) : \A x \in DOMAIN sc[l] : sc[l][x] \in Symbols
    BY AgreeFacts
  <1>2. M = MeantIn(Append(t, n), N + 1) BY <1>1, MeantNow
  <1>3. \A i \in all : i \in 1..N /\ DepthIn(t, i) \in Int BY <1>1, MeantNow
  <1>4. \A i \in all : DepthIn(t, i) \in Nat /\ DepthIn(t, i) < Len(sc)
    <2>1. \A i \in all : i \in 1..N + 1 BY <1>1, <1>3
    <2> HIDE DEF all
    <2>2. \A i \in all : DepthIn(t, i) \in Nat BY <2>1 DEF Agree, DepthOK
    <2>3. \A i \in all : DepthIn(t, i) < Len(sc) BY DEF Agree, Held, all
    <2> QED BY <2>2, <2>3
  <1>5. \A l \in 1..Len(sc) : HoldsAt(t, sc[l], l, name) BY DEF Agree, Held
  <1>6. \A l : Live(t, l, name) = {i \in all : DepthIn(t, i) = l - 1} BY DEF Live
  <1> HIDE DEF all
  <1>7. \A i \in all : DepthIn(t, i) + 1 \in H
    <2> SUFFICES ASSUME NEW i \in all PROVE DepthIn(t, i) + 1 \in H
      OBVIOUS
    <2> DEFINE l == DepthIn(t, i) + 1
    <2>1. l \in 1..Len(sc) /\ DepthIn(t, i) = l - 1 BY <1>1, <1>4
    <2> HIDE DEF l
    <2>2. i \in Live(t, l, name) BY <2>1, <1>6
    <2>3. l \in H BY <2>1, <2>2, <1>5 DEF HoldsAt, HoldingIn
    <2> QED BY <2>3 DEF l
  <1>8. ASSUME NEW j \in H, \A m \in H : m <= j
        PROVE  M = Live(t, j, name) /\ SymbolOf(t, sc[j][name], Live(t, j, name))
    <2>1. j \in 1..Len(sc) /\ name \in DOMAIN sc[j] BY <1>8 DEF HoldingIn
    <2>2. SymbolOf(t, sc[j][name], Live(t, j, name)) BY <2>1, <1>5 DEF HoldsAt
    <2>3. PICK k \in all : DepthIn(t, k) = j - 1 BY <2>2, <1>6 DEF SymbolOf
    <2>4. \A i \in all : DepthIn(t, i) <= j - 1
      <3> HIDE DEF H
      <3>1. \A i \in all : DepthIn(t, i) + 1 <= j BY <1>7, <1>8
      <3>2. j \in Nat BY <2>1
      <3> QED BY <3>1, <3>2, <1>4
    <2>5. \A i \in M : DepthIn(t, i) = j - 1
      <3>1. \A i \in M : i \in all /\ DepthIn(t, k) <= DepthIn(t, i) OBVIOUS
      <3>2. j \in Nat BY <2>1
      <3> QED BY <3>1, <3>2, <2>3, <2>4, <1>4
    <2>6. \A i \in all : DepthIn(t, i) = j - 1 => i \in M BY <2>4
    <2>7. M = Live(t, j, name) BY <2>5, <2>6, <1>6
    <2> QED BY <2>2, <2>7
  <1>9. ASSUME Found(sc, name) = {} PROVE M = {}
    <2>1. H = {} BY <1>1, <1>9, FoundNothing
    <2> QED BY <2>1, <1>7
  <1>10. ASSUME NEW s \in Found(sc, name)
         PROVE  /\ M # {} /\ s \in Symbols
                /\ \A i \in M : i \in 1..N /\ t[i].sym = s.id /\ t[i].fnType = s.fnType
    <2>1. PICK j \in H : (\A m \in H : m <= j) /\ s = sc[j][name] BY <1>10 DEF Found
    <2>2. M = Live(t, j, name) /\ SymbolOf(t, s, Live(t, j, name)) BY <2>1, <1>8
    <2>3. s \in Symbols BY <2>1, <1>1 DEF HoldingIn
    <2>4. \A i \in M : i \in 1..N BY <1>3
    <2> HIDE DEF M
    <2> QED BY <2>2, <2>3, <2>4 DEF SymbolOf
  <1> HIDE DEF M
  <1> QED BY <1>2, <1>9, <1>10

LEMMA UseNode ==
  ASSUME NEW t, NEW sc, NEW id, NEW d, Agree(t, sc, id, d),
         NEW n \in NodeType, n.k \in UseKinds, n.name \in Names, n.fnType = Object,
         IF Found(sc, n.name) = {} THEN n.sym = None /\ ~n.ok
         ELSE \E s \in Found(sc, n.name) :
                n.sym = s.id /\ (n.ok => (n.k = "call" <=> s.fnType # Object))
  PROVE  Agree(Append(t, n), sc, id, d)
  <1> DEFINE u == Append(t, n)
             N == Len(t)
             M == MeantIn(u, N + 1)
  <1>1. t \in Trees /\ TreeOK(t, id) BY AgreeFacts DEF Agree
  <1>2. u[N + 1] = n /\ \A i \in 1..N : u[i] = t[i] BY <1>1, Grown
  <1>3. /\ n.k \notin {"open", "close", "loop", "endloop"} /\ n.k \notin DeclKinds
        /\ n.k \notin FnKinds /\ n.k # "jump"
    BY DEF UseKinds, DeclKinds, FnKinds
  <1>4. ScopedAt(u, N + 1)
    <2>1. CASE Found(sc, n.name) = {}
      <3>1. M = {} BY <2>1, FoundIsMeant
      <3>2. n.sym = None /\ ~n.ok BY <2>1
      <3> HIDE DEF u
      <3> QED BY <3>1, <3>2, <1>2 DEF ScopedAt
    <2>2. CASE Found(sc, n.name) # {}
      <3>1. PICK s \in Found(sc, n.name) :
              n.sym = s.id /\ (n.ok => (n.k = "call" <=> s.fnType # Object))
        BY <2>2
      <3>2. M # {} /\ \A i \in M : i \in 1..N /\ t[i].sym = s.id /\ t[i].fnType = s.fnType
        BY FoundIsMeant
      <3>3. \A i \in M : /\ u[i] = t[i] /\ t[i].sym = s.id
                         /\ t[i].k \in FnKinds <=> s.fnType # Object
        BY <3>2, <1>1, <1>2 DEF TreeOK
      <3> HIDE DEF u
      <3> QED BY <3>1, <3>2, <3>3, <1>2 DEF ScopedAt
    <2> QED BY <2>1, <2>2
  <1>5. OneAt(u, N + 1)
    <2> HIDE DEF u
    <2> QED BY <1>2, <1>3 DEF OneAt
  <1> QED BY <1>3, <1>4, <1>5, NeutralNode

-----------------------------------------------------------------------------
(* Declarations.                                                           *)

(* What a new node's scope declares under its name is what the innermost   *)
(* scope holds.                                                            *)
LEMMA SameNow ==
  ASSUME NEW t, NEW sc, NEW id, NEW d, Agree(t, sc, id, d), NEW n \in NodeType
  PROVE  /\ SameIn(Append(t, n), Len(t) + 1) = Live(t, Len(sc), n.name)
         /\ \A i \in Live(t, Len(sc), n.name) : i \in 1..Len(t) /\ DeclIn(t, i) /\ t[i].name = n.name
         /\ n.name \in Names => HoldsAt(t, sc[Len(sc)], Len(sc), n.name)
  <1>1. t \in Trees /\ DepthIn(t, Len(t) + 1) = Len(sc) - 1 /\ Len(sc) \in 1..Len(sc)
    BY AgreeFacts
  <1>2. SameIn(Append(t, n), Len(t) + 1) =
          {i \in ScopeIn(t, Len(t) + 1, n.name) : DepthIn(t, i) = DepthIn(t, Len(t) + 1)}
    BY <1>1, MeantNow
  <1>3. SameIn(Append(t, n), Len(t) + 1) = Live(t, Len(sc), n.name) BY <1>1, <1>2 DEF Live
  <1>4. \A i \in Live(t, Len(sc), n.name) : i \in 1..Len(t) /\ DeclIn(t, i) /\ t[i].name = n.name
    BY DEF Live, ScopeIn
  <1> QED BY <1>1, <1>3, <1>4 DEF Agree, Held

LEMMA RefusedObject ==
  ASSUME NEW t, NEW sc, NEW id, NEW d, Agree(t, sc, id, d),
         NEW n \in NodeType, n.k \in {"var", "param"}, ~n.ok, n.fnType = Object,
         n.k = "param" => n.name = NoName \/ n.name \in DOMAIN sc[Len(sc)]
  PROVE  Agree(Append(t, n), sc, id, d)
  <1> DEFINE u == Append(t, n)
             N == Len(t)
             L == Len(sc)
  <1>1. t \in Trees /\ L \in 1..Len(sc) /\ DOMAIN sc[L] \subseteq Names BY AgreeFacts
  <1>2. u[N + 1] = n BY <1>1, Grown
  <1>3. /\ n.k \notin {"open", "close", "loop", "endloop"} /\ n.k \notin UseKinds
        /\ n.k \notin FnKinds /\ n.k # "jump"
    BY DEF UseKinds, FnKinds
  <1>4. ScopedAt(u, N + 1)
    <2> HIDE DEF u
    <2> QED BY <1>2, <1>3 DEF ScopedAt
  <1>5. OneAt(u, N + 1)
    <2>1. CASE n.k = "var"
      <3> HIDE DEF u
      <3> QED BY <2>1, <1>2 DEF OneAt
    <2>2. CASE n.k = "param" /\ n.name = NoName
      <3> HIDE DEF u
      <3> QED BY <2>2, <1>2 DEF OneAt, Fits
    <2>3. CASE n.k = "param" /\ n.name \in DOMAIN sc[L]
      <3>1. HoldsAt(t, sc[L], L, n.name) BY <2>3, <1>1, SameNow
      <3>2. SameIn(u, N + 1) # {}
        BY <3>1, <2>3, SameNow DEF HoldsAt, SymbolOf
      <3> HIDE DEF u
      <3> QED BY <3>2, <1>2, <1>3 DEF OneAt, Fits, MayFollow
    <2> QED BY <2>1, <2>2, <2>3
  <1> QED BY <1>3, <1>4, <1>5, NeutralNode

(* Whether the declarations of a function before it let one pass.          *)
ConflictIn(sc, name, t, hasBody) ==
    /\ name \in DOMAIN sc[1]
    /\ sc[1][name].fnType # t \/ (sc[1][name].isDefined /\ hasBody)

LEMMA FitsFunction ==
  ASSUME NEW t, NEW sc, NEW id, NEW d, Agree(t, sc, id, d), Len(sc) = 1,
         NEW n \in NodeType, n.k \in FnKinds, n.fnType # Object, n.name \in Names
  PROVE  Fits(Append(t, n), Len(t) + 1) <=> ~ConflictIn(sc, n.name, n.fnType, n.k = "def")
  <1> DEFINE u == Append(t, n)
             N == Len(t)
             D == Live(t, 1, n.name)
  <1>1. t \in Trees /\ TreeOK(t, id) BY AgreeFacts DEF Agree
  <1>2. u[N + 1] = n /\ \A i \in 1..N : u[i] = t[i] BY <1>1, Grown
  <1>3. /\ SameIn(u, N + 1) = D
        /\ \A i \in D : i \in 1..N
        /\ HoldsAt(t, sc[1], 1, n.name)
    <2>1. Len(sc) = 1 OBVIOUS
    <2>2. SameIn(u, N + 1) = Live(t, Len(sc), n.name) BY SameNow, SMTT(60)
    <2>3. \A i \in Live(t, Len(sc), n.name) : i \in 1..N BY SameNow
    <2>4. HoldsAt(t, sc[Len(sc)], Len(sc), n.name) BY SameNow
    <2> QED BY <2>1, <2>2, <2>3, <2>4
  <1>4. \A i \in D : u[i] = t[i] /\ (t[i].k \in FnKinds <=> t[i].fnType # Object)
    BY <1>1, <1>2, <1>3 DEF TreeOK
  <1>5. n.name # NoName BY NamesAssumption
  <1> HIDE DEF u, D
  <1>6. Fits(u, N + 1) <=>
          \A i \in D : t[i].fnType = n.fnType /\ ~(t[i].k = "def" /\ n.k = "def")
    BY <1>2, <1>3, <1>4, <1>5 DEF Fits, MayFollow
  <1>7. CASE n.name \in DOMAIN sc[1]
    <2>1. SymbolOf(t, sc[1][n.name], D) BY <1>3, <1>7 DEF HoldsAt, D
    <2> QED BY <2>1, <1>6, <1>7 DEF SymbolOf, ConflictIn, u
  <1>8. CASE n.name \notin DOMAIN sc[1]
    <2>1. D = {} BY <1>3, <1>8 DEF HoldsAt, D
    <2> QED BY <2>1, <1>6, <1>8 DEF ConflictIn, u
  <1> QED BY <1>7, <1>8

LEMMA RefusedFunction ==
  ASSUME NEW t, NEW sc, NEW id, NEW d, Agree(t, sc, id, d), Len(sc) = 1,
         NEW n \in NodeType, n.k \in FnKinds, ~n.ok, n.fnType # Object, n.name \in Names,
         ConflictIn(sc, n.name, n.fnType, n.k = "def")
  PROVE  Agree(Append(t, n), sc, id, d)
  <1> DEFINE u == Append(t, n)
             N == Len(t)
  <1>1. t \in Trees BY AgreeFacts
  <1>2. u[N + 1] = n BY <1>1, Grown
  <1>3. /\ n.k \notin {"open", "close", "loop", "endloop"} /\ n.k \notin UseKinds
        /\ n.k # "var" /\ n.k # "jump"
    BY DEF UseKinds, FnKinds
  <1>4. ~Fits(u, N + 1) BY FitsFunction
  <1>5. ScopedAt(u, N + 1) /\ OneAt(u, N + 1)
    <2> HIDE DEF u
    <2> QED BY <1>2, <1>3, <1>4 DEF ScopedAt, OneAt
  <1> QED BY <1>3, <1>5, NeutralNode

(* A declaration that fits enters the innermost scope.                     *)
LEMMA DeclaredNode ==
  ASSUME NEW t, NEW sc, NEW id, NEW d, Agree(t, sc, id, d),
         NEW n \in NodeType, n.k \in DeclKinds, n.ok, n.name \in Names,
         n.k \in FnKinds <=> n.fnType # Object, n.k \in FnKinds => Len(sc) = 1,
         NEW more \in Nat \ {0}, id <= more, n.sym \in 1..more - 1,
         NEW s \in Symbols, s.id = n.sym, s.fnType = n.fnType,
         LET old == sc[Len(sc)]
         IN  IF n.name \in DOMAIN old
             THEN /\ old[n.name].id = s.id /\ old[n.name].fnType = s.fnType
                  /\ s.isDefined <=> old[n.name].isDefined \/ n.k = "def"
             ELSE s.isDefined <=> n.k = "def",
         Fits(Append(t, n), Len(t) + 1),
         \A i \in 1..Len(t) : DeclIn(t, i) =>
           (t[i].sym = n.sym <=> t[i].k \in FnKinds /\ n.k \in FnKinds /\ t[i].name = n.name)
  PROVE  LET new == Emplace(sc, n.name, s)
         IN  Agree(Append(t, n), IF n.k = "def" THEN Append(new, <<>>) ELSE new, more, d)
  <1> DEFINE u == Append(t, n)
             N == Len(t)
             new == Emplace(sc, n.name, s)
             all == IF n.k = "def" THEN Append(new, <<>>) ELSE new
  <1>1. /\ t \in Trees /\ N \in Nat /\ id \in Nat /\ d \in Nat
        /\ TreeOK(t, id) /\ DepthOK(t, Len(sc) - 1, d) /\ Held(t, sc) /\ Rules(t)
        /\ sc \in ScopeStacks
    BY AgreeFacts DEF Agree
  <1>2. u[N + 1] = n /\ u \in Trees /\ \A i \in 1..N : u[i] = t[i] BY <1>1, Grown
  <1>3. Len(sc) \in Nat \ {0} /\ DepthIn(t, N + 1) = Len(sc) - 1 BY AgreeFacts
  <1>4. Held(u, new) BY <1>1, <1>3, HeldDeclared
  <1>5. new \in ScopeStacks /\ Len(new) = Len(sc) BY <1>1, EmplaceFacts
  <1>6. all \in ScopeStacks /\ Held(u, all) /\ Len(all) = Len(sc) + Opens(n)
    <2>1. CASE n.k = "def"
      <3>1. Opens(n) = 1 BY <2>1 DEF Opens
      <3> HIDE DEF new, u
      <3> QED BY <3>1, <2>1, <1>2, <1>4, <1>5, HeldOpened, OpenFacts
    <2>2. CASE n.k # "def"
      <3>1. Opens(n) = 0 BY <2>2 DEF Opens, DeclKinds
      <3>2. Len(sc) + Opens(n) = Len(sc) BY <3>1, <1>3
      <3> HIDE DEF new, u
      <3> QED BY <3>2, <2>2, <1>4, <1>5
    <2> QED BY <2>1, <2>2
  <1>7. TreeOK(u, more)
    <2>1. n.k # "close" BY DEF DeclKinds
    <2>2. n.k \in FnKinds => DepthIn(t, N + 1) = 0 BY <1>3
    <2> QED BY <2>1, <2>2, <1>1, TreeGrown
  <1>8. DepthOK(u, Len(all) - 1, d)
    <2>1. Closes(n) = 0 /\ Opens(n) \in Nat /\ n.k # "loop" /\ n.k # "endloop"
      BY DEF Opens, Closes, DeclKinds
    <2>2. Len(all) - 1 \in Nat /\ Len(all) - 1 = Len(sc) - 1 + Opens(n) - Closes(n)
      <3> HIDE DEF all
      <3> QED BY <2>1, <1>3, <1>6
    <2>3. d = d + (IF n.ok /\ n.k = "loop" THEN 1 ELSE 0)
                - (IF n.ok /\ n.k = "endloop" THEN 1 ELSE 0)
      BY <2>1, <1>1
    <2> QED BY <2>2, <2>3, <1>1, DepthOKGrown
  <1>9. ScopedAt(u, N + 1) /\ OneAt(u, N + 1) /\ JumpAt(u, N + 1)
    <2>1. Fits(u, N + 1) OBVIOUS
    <2>2. n.k \notin UseKinds /\ n.k # "jump" BY DEF DeclKinds, UseKinds
    <2> HIDE DEF u
    <2> QED BY <2>1, <2>2, <1>2 DEF ScopedAt, OneAt, JumpAt
  <1>10. \A i \in 1..N : ApartAt(u, i, N + 1)
    <2>1. \A i \in 1..N : DeclIn(t, i) =>
            (t[i].sym = n.sym <=> t[i].k \in FnKinds /\ n.k \in FnKinds /\ t[i].name = n.name)
      OBVIOUS
    <2> HIDE DEF u
    <2> QED BY <2>1, <1>2 DEF ApartAt, DeclIn
  <1>11. Rules(u) BY <1>1, <1>9, <1>10, RulesStep
  <1> HIDE DEF u, all
  <1>12. Agree(u, all, more, d) BY <1>1, <1>6, <1>7, <1>8, <1>11 DEF Agree
  <1> QED BY <1>12 DEF u, all

LEMMA DeclaredObject ==
  ASSUME NEW t, NEW sc, NEW id, NEW d, Agree(t, sc, id, d),
         NEW n \in NodeType, n.k \in {"var", "param"}, n.ok, n.fnType = Object,
         n.name \in Names, n.name \notin DOMAIN sc[Len(sc)], n.sym = id
  PROVE  Agree(Append(t, n), Emplace(sc, n.name, Symbol(id, Object, FALSE)), id + 1, d)
  <1> DEFINE s == Symbol(id, Object, FALSE)
             N == Len(t)
  <1>1. t \in Trees /\ TreeOK(t, id) /\ id \in Nat \ {0} BY AgreeFacts DEF Agree
  <1>2. /\ n.k \in DeclKinds /\ n.k \notin FnKinds /\ n.k # "def"
    BY DEF DeclKinds, FnKinds
  <1>3. s \in Symbols /\ s.id = id /\ s.fnType = Object /\ ~s.isDefined
    BY <1>1 DEF Symbol, Symbols
  <1>4. id + 1 \in Nat \ {0} /\ id <= id + 1 /\ id \in 1..(id + 1) - 1 BY <1>1
  <1>5. Fits(Append(t, n), N + 1)
    <2>1. Live(t, Len(sc), n.name) = {} BY SameNow DEF HoldsAt
    <2>2. SameIn(Append(t, n), N + 1) = {} BY <2>1, SameNow
    <2>3. Append(t, n)[N + 1] = n BY <1>1, Grown
    <2>4. n.name # NoName BY NamesAssumption
    <2> QED BY <2>2, <2>3, <2>4 DEF Fits
  <1>6. \A i \in 1..N : DeclIn(t, i) =>
          (t[i].sym = n.sym <=> t[i].k \in FnKinds /\ n.k \in FnKinds /\ t[i].name = n.name)
    <2>1. \A i \in 1..N : DeclIn(t, i) => t[i].sym \in 1..id - 1 BY <1>1 DEF TreeOK
    <2>2. \A x \in 1..id - 1 : x # id BY <1>1
    <2> QED BY <2>1, <2>2, <1>2
  <1> HIDE DEF s
  <1>7. Agree(Append(t, n), IF n.k = "def" THEN Append(Emplace(sc, n.name, s), <<>>)
                            ELSE Emplace(sc, n.name, s), id + 1, d)
    BY <1>2, <1>3, <1>4, <1>5, <1>6, DeclaredNode
  <1> QED BY <1>7, <1>2 DEF s

LEMMA DeclaredFunction ==
  ASSUME NEW t, NEW sc, NEW id, NEW d, Agree(t, sc, id, d), Len(sc) = 1,
         NEW n \in NodeType, n.k \in FnKinds, n.ok, n.fnType # Object, n.name \in Names,
         ~ConflictIn(sc, n.name, n.fnType, n.k = "def"),
         NEW prior \in Symbols,
         prior = IF n.name \in DOMAIN sc[1] THEN sc[1][n.name] ELSE Symbol(id, n.fnType, FALSE),
         n.sym = prior.id,
         NEW more, more = IF n.name \in DOMAIN sc[1] THEN id ELSE id + 1
  PROVE  LET new == Emplace(sc, n.name, [prior EXCEPT !.isDefined = @ \/ n.k = "def"])
         IN  Agree(Append(t, n), IF n.k = "def" THEN Append(new, <<>>) ELSE new, more, d)
  <1> DEFINE s == [prior EXCEPT !.isDefined = @ \/ n.k = "def"]
             N == Len(t)
             D == Live(t, 1, n.name)
  <1>1. /\ t \in Trees /\ TreeOK(t, id) /\ id \in Nat \ {0} /\ N \in Nat /\ Rules(t)
    BY AgreeFacts DEF Agree
  <1>2. n.k \in DeclKinds BY DEF DeclKinds, FnKinds
  <1>3. /\ s \in Symbols /\ s.id = prior.id /\ s.fnType = prior.fnType
        /\ s.isDefined <=> prior.isDefined \/ n.k = "def"
    BY DEF Symbols
  <1>4. Fits(Append(t, n), N + 1) BY FitsFunction
  <1>5. \A i \in 1..N : DeclIn(t, i) => t[i].sym \in 1..id - 1 BY <1>1 DEF TreeOK
  <1>6. more \in Nat \ {0} /\ id <= more BY <1>1
  <1>7. /\ \A i \in D : i \in 1..N /\ DeclIn(t, i) /\ t[i].name = n.name
        /\ HoldsAt(t, sc[1], 1, n.name)
    <2>1. Len(sc) = 1 OBVIOUS
    <2>2. \A i \in Live(t, Len(sc), n.name) :
            i \in 1..N /\ DeclIn(t, i) /\ t[i].name = n.name
      BY DEF Live, ScopeIn
    <2>3. HoldsAt(t, sc[Len(sc)], Len(sc), n.name) BY SameNow
    <2> QED BY <2>1, <2>2, <2>3
  <1>8. \A i \in 1..N : DeclIn(t, i) /\ t[i].k \in FnKinds /\ t[i].name = n.name => i \in D
    <2> SUFFICES ASSUME NEW i \in 1..N, DeclIn(t, i), t[i].k \in FnKinds, t[i].name = n.name
                 PROVE  i \in D
      OBVIOUS
    <2>1. ForceIn(t, i, N + 1) /\ DepthIn(t, i) = 0 BY <1>1, FunctionsInForce
    <2> QED BY <2>1 DEF Live, ScopeIn
  <1>9. CASE n.name \in DOMAIN sc[1]
    <2>1. SymbolOf(t, prior, D) BY <1>7, <1>9 DEF HoldsAt
    <2>2. PICK a \in D : TRUE BY <2>1 DEF SymbolOf
    <2>3. prior.fnType = n.fnType BY <1>9 DEF ConflictIn
    <2>4. a \in 1..N /\ DeclIn(t, a) /\ t[a].name = n.name /\ t[a].sym = n.sym
          /\ t[a].fnType = n.fnType
      BY <2>1, <2>2, <2>3, <1>7 DEF SymbolOf
    <2>5. t[a].k \in FnKinds BY <2>4, <1>1 DEF TreeOK
    <2>6. n.sym \in 1..more - 1 BY <2>4, <1>5, <1>9
    <2>7. ASSUME NEW i \in 1..N, DeclIn(t, i)
          PROVE  t[i].sym = n.sym <=> t[i].k \in FnKinds /\ n.k \in FnKinds /\ t[i].name = n.name
      <3>1. CASE i = a BY <3>1, <2>4, <2>5
      <3>2. CASE i # a
        <4>1. ApartAt(t, a, i) BY <2>4, <1>1 DEF Rules
        <4> QED BY <4>1, <3>2, <2>4, <2>5, <2>7 DEF ApartAt
      <3> QED BY <3>1, <3>2
    <2>8. /\ sc[Len(sc)] = sc[1] /\ prior = sc[1][n.name] /\ s.id = n.sym
          /\ s.fnType = n.fnType /\ (n.k \in FnKinds => Len(sc) = 1)
      BY <2>3, <1>3, <1>9
    <2> HIDE DEF s
    <2>9. IF n.name \in DOMAIN sc[Len(sc)]
           THEN /\ sc[Len(sc)][n.name].id = s.id /\ sc[Len(sc)][n.name].fnType = s.fnType
                /\ s.isDefined <=> sc[Len(sc)][n.name].isDefined \/ n.k = "def"
           ELSE s.isDefined <=> n.k = "def"
      BY <2>8, <1>3, <1>9
    <2>10. Agree(Append(t, n), IF n.k = "def" THEN Append(Emplace(sc, n.name, s), <<>>)
                               ELSE Emplace(sc, n.name, s), more, d)
      BY <2>6, <2>7, <2>8, <2>9, <1>2, <1>3, <1>4, <1>6, DeclaredNode
    <2> QED BY <2>10 DEF s
  <1>10. CASE n.name \notin DOMAIN sc[1]
    <2>1. /\ prior.id = id /\ prior.fnType = n.fnType /\ ~prior.isDefined /\ more = id + 1
      BY <1>10 DEF Symbol
    <2>2. D = {} BY <1>7, <1>10 DEF HoldsAt
    <2>3. n.sym \in 1..more - 1
      <3>1. n.sym = id /\ more = id + 1 BY <2>1
      <3>2. id \in Nat /\ id # 0 BY <1>1
      <3>3. id \in 1..(id + 1) - 1 BY <3>2
      <3> QED BY <3>1, <3>3
    <2>4. \A x \in 1..id - 1 : x # id BY <1>1
    <2>5. ASSUME NEW i \in 1..N, DeclIn(t, i)
          PROVE  t[i].sym = n.sym <=> t[i].k \in FnKinds /\ n.k \in FnKinds /\ t[i].name = n.name
      BY <2>1, <2>2, <2>4, <2>5, <1>5, <1>8
    <2>6. /\ sc[Len(sc)] = sc[1] /\ s.id = n.sym /\ s.fnType = n.fnType
          /\ (s.isDefined <=> n.k = "def") /\ (n.k \in FnKinds => Len(sc) = 1)
      BY <2>1, <1>3
    <2> HIDE DEF s
    <2>7. Agree(Append(t, n), IF n.k = "def" THEN Append(Emplace(sc, n.name, s), <<>>)
                              ELSE Emplace(sc, n.name, s), more, d)
      BY <2>3, <2>5, <2>6, <1>2, <1>3, <1>4, <1>6, <1>10, DeclaredNode
    <2> QED BY <2>7 DEF s
  <1> QED BY <1>9, <1>10

-----------------------------------------------------------------------------
(* The activations that wait are as many as the scopes, but for that of    *)
(* the file, and as the loops they opened.                                 *)

StackOK(st, scopesOpen, loops) ==
    /\ st \in Seq(Awaited)
    /\ scopesOpen = Cardinality(Places(st, "body")) + 1
    /\ loops = Cardinality(Places(st, "loop"))

LEMMA StackFacts ==
  ASSUME NEW st, NEW L, NEW d, StackOK(st, L, d)
  PROVE  /\ st \in Seq(Awaited) /\ L \in Nat \ {0} /\ d \in Nat
         /\ \A i \in 1..Len(st) : /\ st[i] = "body" => L > 1
                                  /\ st[i] = "loop" => d > 0
  <1>1. /\ Cardinality(Places(st, "body")) \in Nat /\ Cardinality(Places(st, "loop")) \in Nat
        /\ \A i \in 1..Len(st) : /\ st[i] = "body" => Cardinality(Places(st, "body")) > 0
                                 /\ st[i] = "loop" => Cardinality(Places(st, "loop")) > 0
    BY PlacesFinite DEF StackOK
  <1> QED BY <1>1 DEF StackOK

LEMMA StackEmpty ==
  ASSUME NEW L, NEW d, StackOK(<<>>, L, d)
  PROVE  L = 1
  <1>1. Places(<<>>, "body") = {} BY DEF Places
  <1>2. Cardinality(Places(<<>>, "body")) = 0 BY <1>1, FS_EmptySet
  <1> QED BY <1>2 DEF StackOK

LEMMA StackPush ==
  ASSUME NEW st, NEW L, NEW d, StackOK(st, L, d),
         NEW f \in Seq(Awaited), \A i \in 1..Len(f) : f[i] \notin {"body", "loop"}
  PROVE  StackOK(st \o f, L, d)
  <1>1. st \in Seq(Awaited) BY DEF StackOK
  <1>2. st \o f \in Seq(Awaited) BY <1>1, ConcatProperties
  <1>3. /\ Places(st \o f, "body") = Places(st, "body")
        /\ Places(st \o f, "loop") = Places(st, "loop")
    BY <1>1, PlacesConcat
  <1> QED BY <1>2, <1>3 DEF StackOK

LEMMA StackEnter ==
  ASSUME NEW st, NEW L, NEW d, StackOK(st, L, d)
  PROVE  StackOK(st \o <<"body">>, L + 1, d) /\ StackOK(st \o <<"loop">>, L, d + 1)
  <1>1. st \in Seq(Awaited) /\ "body" \in Awaited /\ "loop" \in Awaited BY DEF StackOK, Awaited
  <1>2. st \o <<"body">> = Append(st, "body") /\ st \o <<"loop">> = Append(st, "loop")
    BY <1>1, AppendIsConcat
  <1>3. Append(st, "body") \in Seq(Awaited) /\ Append(st, "loop") \in Seq(Awaited)
    BY <1>1, AppendProperties
  <1>4. /\ Cardinality(Places(Append(st, "body"), "body")) =
             Cardinality(Places(st, "body")) + (IF "body" = "body" THEN 1 ELSE 0)
        /\ Cardinality(Places(Append(st, "body"), "loop")) =
             Cardinality(Places(st, "loop")) + (IF "body" = "loop" THEN 1 ELSE 0)
        /\ Cardinality(Places(Append(st, "loop"), "body")) =
             Cardinality(Places(st, "body")) + (IF "loop" = "body" THEN 1 ELSE 0)
        /\ Cardinality(Places(Append(st, "loop"), "loop")) =
             Cardinality(Places(st, "loop")) + (IF "loop" = "loop" THEN 1 ELSE 0)
    BY <1>1, PlacesAppend
  <1>5. Cardinality(Places(st, "body")) \in Nat /\ Cardinality(Places(st, "loop")) \in Nat
    BY <1>1, PlacesFinite
  <1> DEFINE bodies == Cardinality(Places(st, "body"))
             loops == Cardinality(Places(st, "loop"))
  <1>6. /\ Cardinality(Places(Append(st, "body"), "body")) = bodies + 1
        /\ Cardinality(Places(Append(st, "body"), "loop")) = loops
        /\ Cardinality(Places(Append(st, "loop"), "body")) = bodies
        /\ Cardinality(Places(Append(st, "loop"), "loop")) = loops + 1
    BY <1>4, <1>5
  <1>7. L = bodies + 1 /\ d = loops BY DEF StackOK
  <1> HIDE DEF bodies, loops
  <1> QED BY <1>2, <1>3, <1>6, <1>7 DEF StackOK

LEMMA StackPop ==
  ASSUME NEW st, NEW L, NEW d, StackOK(st, L, d), st # <<>>
  PROVE  LET top == st[Len(st)]
         IN  /\ Len(st) \in 1..Len(st) /\ top \in Awaited
             /\ StackOK(SubSeq(st, 1, Len(st) - 1), IF top = "body" THEN L - 1 ELSE L,
                        IF top = "loop" THEN d - 1 ELSE d)
  <1> DEFINE top == st[Len(st)]
             s == SubSeq(st, 1, Len(st) - 1)
  <1>1. st \in Seq(Awaited) /\ Len(st) \in Nat \ {0} /\ top \in Awaited /\ s \in Seq(Awaited)
    BY FrontFacts DEF StackOK
  <1>2. /\ Cardinality(Places(s, "body")) =
             Cardinality(Places(st, "body")) - (IF top = "body" THEN 1 ELSE 0)
        /\ Cardinality(Places(s, "loop")) =
             Cardinality(Places(st, "loop")) - (IF top = "loop" THEN 1 ELSE 0)
    BY <1>1, PlacesFront
  <1>3. Cardinality(Places(st, "body")) \in Nat /\ Cardinality(Places(st, "loop")) \in Nat
    BY <1>1, PlacesFinite
  <1>4. Len(st) \in 1..Len(st) BY <1>1
  <1> HIDE DEF s, top
  <1>5. StackOK(s, IF top = "body" THEN L - 1 ELSE L, IF top = "loop" THEN d - 1 ELSE d)
    BY <1>1, <1>2, <1>3 DEF StackOK
  <1> QED BY <1>1, <1>4, <1>5 DEF s, top

(* What the actions do to the stack.                                       *)
LEMMA BeginKeeps ==
  ASSUME NEW L, NEW d, StackOK(stack, L, d), AtStmt
  PROVE  StackOK(IF Top = "body" THEN stack ELSE Popped, L, d)
  <1>1. stack # <<>> /\ Top \in {"body", "stmt"} BY DEF AtStmt, At
  <1>2. CASE Top = "body" BY <1>2
  <1>3. CASE Top = "stmt"
    <2>1. StackOK(Popped, IF Top = "body" THEN L - 1 ELSE L, IF Top = "loop" THEN d - 1 ELSE d)
      BY <1>1, StackPop DEF Top, Popped
    <2> QED BY <2>1, <1>3
  <1> QED BY <1>1, <1>2, <1>3

LEMMA PopKeeps ==
  ASSUME NEW L, NEW d, StackOK(stack, L, d), stack # <<>>, Top \notin {"body", "loop"}
  PROVE  StackOK(Popped, L, d)
  <1>1. StackOK(Popped, IF Top = "body" THEN L - 1 ELSE L, IF Top = "loop" THEN d - 1 ELSE d)
    BY StackPop DEF Top, Popped
  <1> QED BY <1>1

(* The parts of a statement or a declaration that wait.                    *)
LEMMA PartsFacts ==
  /\ <<>> \in Seq(Awaited) /\ <<"init">> \in Seq(Awaited) /\ <<"expr">> \in Seq(Awaited)
  /\ <<"stmt">> \in Seq(Awaited) /\ <<"params">> \in Seq(Awaited)
  /\ <<"stmt", "expr">> \in Seq(Awaited) /\ <<"while", "expr">> \in Seq(Awaited)
  /\ <<"stmt", "stmt", "expr">> \in Seq(Awaited)
  /\ \A f \in {<<>>, <<"init">>, <<"expr">>, <<"stmt">>, <<"params">>, <<"stmt", "expr">>,
               <<"while", "expr">>, <<"stmt", "stmt", "expr">>} :
       \A i \in 1..Len(f) : f[i] \notin {"body", "loop"}
  <1>1. /\ "init" \in Awaited /\ "expr" \in Awaited /\ "stmt" \in Awaited
        /\ "params" \in Awaited /\ "while" \in Awaited
    BY DEF Awaited
  <1>2. \A f \in {<<>>, <<"init">>, <<"expr">>, <<"stmt">>, <<"params">>, <<"stmt", "expr">>,
               <<"while", "expr">>, <<"stmt", "stmt", "expr">>} :
          \A i \in 1..Len(f) : f[i] \notin {"body", "loop"}
    OBVIOUS
  <1> QED BY <1>1, <1>2

-----------------------------------------------------------------------------
(* The inductive invariant, and every action keeps it.                     *)

WalkInv == /\ Agree(tree, scopes, nextId, loopDepth)
           /\ StackOK(stack, Len(scopes), loopDepth)

LEMMA VarDeclKeeps ==
  ASSUME WalkInv, NEW name \in Names, NEW complete \in BOOLEAN, VarDecl(name, complete)
  PROVE  WalkInv'
  <1> DEFINE refused == ~complete \/ name \in DOMAIN scopes[Len(scopes)]
             base == IF Top = "body" THEN stack ELSE Popped
  <1>1. Agree(tree, scopes, nextId, loopDepth) /\ StackOK(stack, Len(scopes), loopDepth)
    BY DEF WalkInv
  <1>2. nextId \in Nat /\ scopes \in ScopeStacks BY <1>1, AgreeFacts
  <1>3. loopDepth' = loopDepth BY DEF VarDecl
  <1>4. StackOK(IF AtFile THEN <<>> ELSE base, Len(scopes), loopDepth)
    <2>1. CASE AtFile BY <2>1, <1>1 DEF AtFile
    <2>2. CASE ~AtFile
      <3>1. AtStmt BY <2>2 DEF VarDecl
      <3> QED BY <3>1, <2>2, <1>1, BeginKeeps
    <2> QED BY <2>1, <2>2
  <1>5. CASE refused
    <2> DEFINE n == Node("var", name, None, FALSE)
    <2>1. tree' = Append(tree, n) /\ scopes' = scopes /\ nextId' = nextId
      BY <1>5 DEF VarDecl, Meet
    <2>2. n \in NodeType /\ n.k = "var" /\ ~n.ok /\ n.fnType = Object
      BY DEF Node, NodeType, Kinds, DeclKinds, None
    <2> HIDE DEF n
    <2>3. Agree(Append(tree, n), scopes, nextId, loopDepth) BY <2>2, <1>1, RefusedObject
    <2>4. stack' = (IF AtFile THEN <<>> ELSE base) \o <<>>
      <3>1. CASE AtFile
        <4>1. stack' = <<>> BY <3>1, <1>5 DEF VarDecl
        <4>2. <<>> \o <<>> = <<>> OBVIOUS
        <4> QED BY <3>1, <4>1, <4>2
      <3>2. CASE ~AtFile BY <3>2, <1>5 DEF VarDecl, Begin
      <3> QED BY <3>1, <3>2
    <2>5. StackOK(stack', Len(scopes), loopDepth) BY <2>4, <1>4, StackPush, PartsFacts
    <2> QED BY <2>1, <2>3, <2>5, <1>3 DEF WalkInv
  <1>6. CASE ~refused
    <2> DEFINE n == Node("var", name, nextId, TRUE)
    <2>1. /\ tree' = Append(tree, n) /\ nextId' = nextId + 1
          /\ scopes' = Emplace(scopes, name, Symbol(nextId, Object, FALSE))
      BY <1>6 DEF VarDecl, Meet
    <2>2. /\ n \in NodeType /\ n.k = "var" /\ n.ok /\ n.fnType = Object
          /\ n.name = name /\ n.sym = nextId
      BY <1>2 DEF Node, NodeType, Kinds, DeclKinds
    <2> HIDE DEF n
    <2>3. Agree(tree', scopes', nextId', loopDepth)
      BY <2>1, <2>2, <1>1, <1>6, DeclaredObject
    <2>4. stack' = (IF AtFile THEN <<>> ELSE base) \o <<"init">>
      <3>1. CASE AtFile
        <4>1. stack' = <<"init">> BY <3>1, <1>6 DEF VarDecl
        <4>2. <<>> \o <<"init">> = <<"init">> OBVIOUS
        <4> QED BY <3>1, <4>1, <4>2
      <3>2. CASE ~AtFile BY <3>2, <1>6 DEF VarDecl, Begin
      <3> QED BY <3>1, <3>2
    <2>5. StackOK(stack', Len(scopes), loopDepth) BY <2>4, <1>4, StackPush, PartsFacts
    <2>6. Len(scopes') = Len(scopes)
      <3>1. Symbol(nextId, Object, FALSE) \in Symbols BY <1>2 DEF Symbol, Symbols
      <3> QED BY <3>1, <2>1, <1>2, EmplaceFacts
    <2> QED BY <2>3, <2>5, <2>6, <1>3 DEF WalkInv
  <1> QED BY <1>5, <1>6

LEMMA ParamKeeps ==
  ASSUME WalkInv, NEW name \in Names \cup {NoName}, Param(name)
  PROVE  WalkInv'
  <1> DEFINE refused == name = NoName \/ name \in DOMAIN scopes[Len(scopes)]
  <1>1. Agree(tree, scopes, nextId, loopDepth) /\ StackOK(stack, Len(scopes), loopDepth)
    BY DEF WalkInv
  <1>2. nextId \in Nat /\ scopes \in ScopeStacks BY <1>1, AgreeFacts
  <1>3. loopDepth' = loopDepth /\ stack' = stack BY DEF Param
  <1>4. CASE refused
    <2> DEFINE n == Node("param", name, None, FALSE)
    <2>1. tree' = Append(tree, n) /\ scopes' = scopes /\ nextId' = nextId
      BY <1>4 DEF Param, Meet
    <2>2. n \in NodeType /\ n.k = "param" /\ ~n.ok /\ n.fnType = Object /\ n.name = name
      BY DEF Node, NodeType, Kinds, DeclKinds, None
    <2> HIDE DEF n
    <2>3. Agree(Append(tree, n), scopes, nextId, loopDepth)
      BY <2>2, <1>1, <1>4, RefusedObject
    <2> QED BY <2>1, <2>3, <1>1, <1>3 DEF WalkInv
  <1>5. CASE ~refused
    <2> DEFINE n == Node("param", name, nextId, TRUE)
    <2>1. /\ tree' = Append(tree, n) /\ nextId' = nextId + 1 /\ name \in Names
          /\ scopes' = Emplace(scopes, name, Symbol(nextId, Object, FALSE))
      BY <1>5 DEF Param, Meet
    <2>2. /\ n \in NodeType /\ n.k = "param" /\ n.ok /\ n.fnType = Object
          /\ n.name = name /\ n.sym = nextId
      BY <1>2 DEF Node, NodeType, Kinds, DeclKinds
    <2> HIDE DEF n
    <2>3. Agree(tree', scopes', nextId', loopDepth)
      BY <2>1, <2>2, <1>1, <1>5, DeclaredObject
    <2>4. Len(scopes') = Len(scopes)
      <3>1. Symbol(nextId, Object, FALSE) \in Symbols BY <1>2 DEF Symbol, Symbols
      <3> QED BY <3>1, <2>1, <1>2, EmplaceFacts
    <2> QED BY <2>3, <2>4, <1>1, <1>3 DEF WalkInv
  <1> QED BY <1>4, <1>5

LEMMA FunctionDeclKeeps ==
  ASSUME WalkInv, NEW name \in Names, NEW t \in FnTypes, NEW hasBody \in BOOLEAN,
         FunctionDecl(name, t, hasBody)
  PROVE  WalkInv'
  <1> DEFINE kind == IF hasBody THEN "def" ELSE "proto"
             prior == {scopes[1][x] : x \in {name} \cap DOMAIN scopes[1]}
             Declared(sym, ok) == [Node(kind, name, sym, ok) EXCEPT !.fnType = t]
  <1>1. Agree(tree, scopes, nextId, loopDepth) /\ StackOK(stack, Len(scopes), loopDepth)
    BY DEF WalkInv
  <1>2. /\ nextId \in Nat \ {0} /\ scopes \in ScopeStacks
        /\ \A l \in 1..Len(scopes) : \A x \in DOMAIN scopes[l] : scopes[l][x] \in Symbols
    BY <1>1, AgreeFacts
  <1>3. loopDepth' = loopDepth BY DEF FunctionDecl
  <1>11. stack = <<>> BY DEF FunctionDecl, AtFile
  <1>4. Len(scopes) = 1 /\ 1 \in 1..Len(scopes)
    <2>1. StackOK(<<>>, Len(scopes), loopDepth) BY <1>1, <1>11
    <2>2. Len(scopes) = 1 BY <2>1, StackEmpty
    <2> QED BY <2>2
  <1>5. kind \in Kinds /\ kind \in FnKinds /\ (kind = "def" <=> hasBody)
    BY DEF Kinds, DeclKinds, FnKinds
  <1>6. t # Object BY NamesAssumption
  <1>7. Conflict(name, t, hasBody) <=> ConflictIn(scopes, name, t, hasBody)
    BY DEF Conflict, ConflictIn
  <1>8. prior = IF name \in DOMAIN scopes[1] THEN {scopes[1][name]} ELSE {} OBVIOUS
  <1>9. CASE Conflict(name, t, hasBody)
    <2> DEFINE n == Declared(None, FALSE)
    <2>0. 0 \in Nat /\ None = 0 BY DEF None
    <2>1. tree' = Append(tree, n) /\ scopes' = scopes /\ nextId' = nextId /\ stack' = stack
      BY <1>9 DEF FunctionDecl, Meet
    <2>2. n \in NodeType /\ n.k = kind /\ ~n.ok /\ n.fnType = t /\ n.name = name
      BY <2>0, <1>5 DEF Node, NodeType
    <2> HIDE DEF n
    <2>3. Agree(Append(tree, n), scopes, nextId, loopDepth)
      BY <2>2, <1>1, <1>4, <1>5, <1>6, <1>7, <1>9, RefusedFunction
    <2> QED BY <2>1, <2>3, <1>1, <1>3 DEF WalkInv
  <1>10. CASE ~Conflict(name, t, hasBody)
    <2> DEFINE s == IF name \in DOMAIN scopes[1] THEN scopes[1][name]
                    ELSE Symbol(nextId, t, FALSE)
               n == Declared(s.id, TRUE)
               sc == Emplace(scopes, name, [s EXCEPT !.isDefined = @ \/ hasBody])
    <2>1. (IF prior = {} THEN {Symbol(nextId, t, FALSE)} ELSE prior) = {s} BY <1>8
    <2>2. /\ tree' = Append(tree, n)
          /\ scopes' = IF hasBody THEN Append(sc, <<>>) ELSE sc
      BY <2>1, <1>10 DEF FunctionDecl, Meet
    <2>3. /\ nextId' = IF name \in DOMAIN scopes[1] THEN nextId ELSE nextId + 1
          /\ stack' = IF hasBody THEN <<"body", "params">> ELSE <<>>
      BY <1>8, <1>10 DEF FunctionDecl
    <2>4. s \in Symbols
      <3>1. Symbol(nextId, t, FALSE) \in Symbols BY <1>2 DEF Symbol, Symbols
      <3> QED BY <3>1, <1>2, <1>4
    <2>5. n \in NodeType /\ n.k = kind /\ n.ok /\ n.fnType = t /\ n.name = name /\ n.sym = s.id
      <3>1. s.id \in Nat BY <2>4 DEF Symbols
      <3> HIDE DEF s, kind
      <3> QED BY <3>1, <1>5 DEF Node, NodeType
    <2>6. [s EXCEPT !.isDefined = @ \/ hasBody] \in Symbols BY <2>4 DEF Symbols
    <2>7. /\ sc \in ScopeStacks /\ Len(sc) = Len(scopes)
      <3> HIDE DEF s
      <3> QED BY <2>6, <1>2, EmplaceFacts
    <2>8. Len(scopes') = IF hasBody THEN 2 ELSE 1
      <3> HIDE DEF sc, s, n
      <3>1. Len(Append(sc, <<>>)) = Len(sc) + 1 BY <2>7, OpenFacts
      <3>2. Len(sc) = 1 /\ 1 + 1 = 2 BY <2>7, <1>4
      <3> QED BY <3>1, <3>2, <2>2
    <2>9. Agree(tree', scopes', nextId', loopDepth)
      <3> DEFINE more == IF name \in DOMAIN scopes[1] THEN nextId ELSE nextId + 1
                 new(b) == Emplace(scopes, name, [s EXCEPT !.isDefined = @ \/ b])
      <3>1. ~ConflictIn(scopes, n.name, n.fnType, n.k = "def")
        BY <2>5, <1>5, <1>7, <1>10
      <3>2. s = IF n.name \in DOMAIN scopes[1] THEN scopes[1][n.name]
                ELSE Symbol(nextId, n.fnType, FALSE)
        BY <2>5
      <3>3. n.k \in FnKinds /\ n.fnType # Object /\ n.name \in Names /\ n.sym = s.id
            /\ (n.k = "def" <=> hasBody) /\ more = IF n.name \in DOMAIN scopes[1] THEN nextId ELSE nextId + 1
        BY <2>5, <1>5, <1>6
      <3> HIDE DEF n, s, more
      <3>4. Agree(Append(tree, n),
                  IF n.k = "def" THEN Append(Emplace(scopes, n.name,
                                               [s EXCEPT !.isDefined = @ \/ n.k = "def"]), <<>>)
                  ELSE Emplace(scopes, n.name, [s EXCEPT !.isDefined = @ \/ n.k = "def"]),
                  more, loopDepth)
        BY <3>1, <3>2, <3>3, <2>4, <2>5, <1>1, <1>4, DeclaredFunction
      <3>5. (n.k = "def") = hasBody BY <3>3, <2>5, Zenon
      <3>6. Agree(Append(tree, n), IF hasBody THEN Append(sc, <<>>) ELSE sc, more, loopDepth)
        BY <3>4, <3>5, <2>5
      <3> QED BY <3>6, <2>2, <2>3 DEF more
    <2>10. StackOK(stack', Len(scopes'), loopDepth)
      <3>1. CASE hasBody
        <4> DEFINE st == <<>> \o <<"body">>
        <4>1. StackOK(st, 2, loopDepth)
          <5>1. StackOK(<<>>, 1, loopDepth) BY <1>1, <1>11, <1>4
          <5>2. 1 + 1 = 2 OBVIOUS
          <5> QED BY <5>1, <5>2, StackEnter
        <4> HIDE DEF st
        <4>2. StackOK(st \o <<"params">>, 2, loopDepth)
          <5> DEFINE f == <<"params">>
          <5>1. f \in Seq(Awaited) /\ \A i \in 1..Len(f) : f[i] \notin {"body", "loop"}
            BY PartsFacts
          <5> HIDE DEF f
          <5>2. StackOK(st \o f, 2, loopDepth) BY <5>1, <4>1, StackPush
          <5> QED BY <5>2 DEF f
        <4>3. st \o <<"params">> = <<"body", "params">>
          <5>1. /\ <<>> \in Seq(Awaited) /\ "body" \in Awaited /\ "params" \in Awaited
                /\ <<"body", "params">> \in Seq(Awaited)
            BY DEF Awaited
          <5>2. <<>> \o <<"body", "params">> = st \o <<"params">> BY <5>1, PushFacts DEF st
          <5>3. <<>> \o <<"body", "params">> = <<"body", "params">> BY <5>1, ConcatEmptySeq
          <5> QED BY <5>2, <5>3
        <4> QED BY <3>1, <4>2, <4>3, <2>3, <2>8
      <3>2. CASE ~hasBody BY <3>2, <2>3, <2>8, <1>1, <1>11, <1>4
      <3> QED BY <3>1, <3>2
    <2> QED BY <2>9, <2>10, <1>3 DEF WalkInv
  <1> QED BY <1>9, <1>10

(* The actions that meet at most one node that declares nothing.           *)
LEMMA PlainKeeps ==
  ASSUME WalkInv, NEW n \in NodeType, n.k \in {"endvar", "if", "while", "jump"}, n.fnType = Object,
         n.k = "jump" => (n.ok <=> loopDepth > 0),
         tree' = Append(tree, n), UNCHANGED <<scopes, nextId, loopDepth>>,
         StackOK(stack', Len(scopes), loopDepth)
  PROVE  WalkInv'
  <1>1. Agree(Append(tree, n), scopes, nextId, loopDepth) BY PlainNode DEF WalkInv
  <1> QED BY <1>1 DEF WalkInv

LEMMA InitEndKeeps == ASSUME WalkInv, InitEnd PROVE WalkInv'
  <1> DEFINE n == Node("endvar", NoName, None, TRUE)
  <1>1. n \in NodeType /\ n.k = "endvar" /\ n.fnType = Object
    BY DEF Node, NodeType, Kinds, None
  <1>2. stack # <<>> /\ Top = "init" BY DEF InitEnd, At
  <1>3. StackOK(Popped, Len(scopes), loopDepth) BY <1>2, PopKeeps DEF WalkInv
  <1>4. StackOK(Popped \o <<>>, Len(scopes), loopDepth) BY <1>3, StackPush, PartsFacts
  <1>5. tree' = Append(tree, n) /\ stack' = Popped \o <<>> /\ UNCHANGED <<scopes, nextId, loopDepth>>
    BY DEF InitEnd, Replace
  <1> HIDE DEF n
  <1> QED BY <1>1, <1>4, <1>5, PlainKeeps

LEMMA StatementKeeps ==
  ASSUME WalkInv, NEW n \in NodeType, n.k \in {"if", "while", "jump"}, n.fnType = Object,
         n.k = "jump" => (n.ok <=> loopDepth > 0), AtStmt,
         NEW f \in Seq(Awaited), \A i \in 1..Len(f) : f[i] \notin {"body", "loop"},
         tree' = Append(tree, n), Begin(f), UNCHANGED <<scopes, nextId, loopDepth>>
  PROVE  WalkInv'
  <1>1. StackOK(IF Top = "body" THEN stack ELSE Popped, Len(scopes), loopDepth)
    BY BeginKeeps DEF WalkInv
  <1>2. stack' = (IF Top = "body" THEN stack ELSE Popped) \o f BY DEF Begin
  <1>3. StackOK(stack', Len(scopes), loopDepth) BY <1>1, <1>2, StackPush
  <1> QED BY <1>3, PlainKeeps

LEMMA IfStmtKeeps == ASSUME WalkInv, NEW hasElse \in BOOLEAN, IfStmt(hasElse) PROVE WalkInv'
  <1> DEFINE n == Node("if", NoName, None, TRUE)
             f == IF hasElse THEN <<"stmt", "stmt", "expr">> ELSE <<"stmt", "expr">>
  <1>1. n \in NodeType /\ n.k = "if" /\ n.fnType = Object
    BY DEF Node, NodeType, Kinds, None
  <1>2. f \in Seq(Awaited) /\ \A i \in 1..Len(f) : f[i] \notin {"body", "loop"} BY PartsFacts
  <1>3. /\ AtStmt /\ tree' = Append(tree, n) /\ Begin(f)
        /\ UNCHANGED <<scopes, nextId, loopDepth>>
    BY DEF IfStmt, Meet
  <1> HIDE DEF n, f
  <1> QED BY <1>1, <1>2, <1>3, StatementKeeps

LEMMA WhileStmtKeeps == ASSUME WalkInv, WhileStmt PROVE WalkInv'
  <1> DEFINE n == Node("while", NoName, None, TRUE)
             f == <<"while", "expr">>
  <1>1. n \in NodeType /\ n.k = "while" /\ n.fnType = Object
    BY DEF Node, NodeType, Kinds, None
  <1>2. f \in Seq(Awaited) /\ \A i \in 1..Len(f) : f[i] \notin {"body", "loop"} BY PartsFacts
  <1>3. /\ AtStmt /\ tree' = Append(tree, n) /\ Begin(f)
        /\ UNCHANGED <<scopes, nextId, loopDepth>>
    BY DEF WhileStmt, Meet
  <1> HIDE DEF n, f
  <1> QED BY <1>1, <1>2, <1>3, StatementKeeps

LEMMA JumpKeeps == ASSUME WalkInv, Jump PROVE WalkInv'
  <1> DEFINE n == Node("jump", NoName, None, loopDepth # 0)
             f == <<>>
  <1>1. n \in NodeType /\ n.k = "jump" /\ n.fnType = Object /\ n.ok = (loopDepth # 0)
    BY DEF Node, NodeType, Kinds, None
  <1>2. f \in Seq(Awaited) /\ \A i \in 1..Len(f) : f[i] \notin {"body", "loop"} BY PartsFacts
  <1>3. /\ AtStmt /\ tree' = Append(tree, n) /\ Begin(f)
        /\ UNCHANGED <<scopes, nextId, loopDepth>>
    BY DEF Jump, Meet
  <1>4. loopDepth \in Nat BY AgreeFacts DEF WalkInv
  <1> HIDE DEF n, f
  <1>5. n.ok <=> loopDepth > 0
    <2>1. loopDepth # 0 <=> loopDepth > 0 BY <1>4
    <2> QED BY <2>1, <1>1
  <1> QED BY <1>1, <1>2, <1>3, <1>5, StatementKeeps

(* The steps that meet no node.                                            *)
LEMMA SilentKeeps ==
  ASSUME WalkInv, \/ NullStmt \/ ExprStmt \/ ExprEnd \/ ParamsEnd
  PROVE  WalkInv'
  <1>1. UNCHANGED <<scopes, nextId, loopDepth, tree>>
    BY DEF NullStmt, ExprStmt, ExprEnd, ParamsEnd
  <1>2. StackOK(stack, Len(scopes), loopDepth) BY DEF WalkInv
  <1>3. CASE NullStmt \/ ExprStmt
    <2>1. AtStmt BY <1>3 DEF NullStmt, ExprStmt
    <2>2. StackOK(IF Top = "body" THEN stack ELSE Popped, Len(scopes), loopDepth)
      BY <2>1, <1>2, BeginKeeps
    <2>3. \/ stack' = (IF Top = "body" THEN stack ELSE Popped) \o <<>>
          \/ stack' = (IF Top = "body" THEN stack ELSE Popped) \o <<"expr">>
      BY <1>3 DEF NullStmt, ExprStmt, Begin
    <2>4. StackOK(stack', Len(scopes), loopDepth) BY <2>2, <2>3, StackPush, PartsFacts
    <2> QED BY <2>4, <1>1 DEF WalkInv
  <1>4. CASE ExprEnd \/ ParamsEnd
    <2>1. stack # <<>> /\ Top \in {"expr", "params"} BY <1>4 DEF ExprEnd, ParamsEnd, At
    <2>2. StackOK(Popped, Len(scopes), loopDepth) BY <2>1, <1>2, PopKeeps
    <2>3. stack' = Popped \o <<>> BY <1>4 DEF ExprEnd, ParamsEnd, Replace
    <2>4. StackOK(stack', Len(scopes), loopDepth) BY <2>2, <2>3, StackPush, PartsFacts
    <2> QED BY <2>4, <1>1 DEF WalkInv
  <1> QED BY <1>3, <1>4

LEMMA CompoundStmtKeeps == ASSUME WalkInv, CompoundStmt PROVE WalkInv'
  <1> DEFINE n == Node("open", NoName, None, TRUE)
             base == IF Top = "body" THEN stack ELSE Popped
  <1>1. n \in NodeType /\ n.k = "open" /\ n.fnType = Object /\ n.ok
    BY DEF Node, NodeType, Kinds, None
  <1>2. StackOK(base, Len(scopes), loopDepth) BY BeginKeeps DEF WalkInv, CompoundStmt
  <1>3. /\ tree' = Append(tree, n) /\ stack' = base \o <<"body">>
        /\ scopes' = Append(scopes, <<>>) /\ UNCHANGED <<nextId, loopDepth>>
    BY DEF CompoundStmt, Meet, Begin, Open
  <1> HIDE DEF n, base
  <1>4. StackOK(base \o <<"body">>, Len(scopes) + 1, loopDepth) BY <1>2, StackEnter
  <1>5. Agree(Append(tree, n), Append(scopes, <<>>), nextId, loopDepth)
    BY <1>1, OpenNode DEF WalkInv
  <1>6. Len(Append(scopes, <<>>)) = Len(scopes) + 1 BY AgreeFacts, OpenFacts DEF WalkInv
  <1> QED BY <1>3, <1>4, <1>5, <1>6 DEF WalkInv

LEMMA CompoundEndKeeps == ASSUME WalkInv, CompoundEnd PROVE WalkInv'
  <1> DEFINE n == Node("close", NoName, None, TRUE)
             sc == SubSeq(scopes, 1, Len(scopes) - 1)
  <1>1. n \in NodeType /\ n.k = "close" /\ n.fnType = Object /\ n.ok
    BY DEF Node, NodeType, Kinds, None
  <1>2. /\ Agree(tree, scopes, nextId, loopDepth) /\ StackOK(stack, Len(scopes), loopDepth)
        /\ stack # <<>> /\ Top = "body"
    BY DEF WalkInv, CompoundEnd, At
  <1>3. /\ tree' = Append(tree, n) /\ stack' = Popped \o <<>>
        /\ scopes' = sc /\ UNCHANGED <<nextId, loopDepth>>
    BY DEF CompoundEnd, Close, Replace
  <1> HIDE DEF n
  <1>4. StackOK(Popped, Len(scopes) - 1, loopDepth)
    <2>1. StackOK(Popped, IF Top = "body" THEN Len(scopes) - 1 ELSE Len(scopes),
                  IF Top = "loop" THEN loopDepth - 1 ELSE loopDepth)
      BY <1>2, StackPop DEF Top, Popped
    <2> QED BY <2>1, <1>2
  <1>5. StackOK(Popped \o <<>>, Len(scopes) - 1, loopDepth) BY <1>4, StackPush, PartsFacts
  <1>6. Len(scopes) > 1
    <2>1. Len(stack) \in 1..Len(stack) /\ stack[Len(stack)] = "body"
      BY <1>2, StackPop DEF Top
    <2> QED BY <2>1, <1>2, StackFacts
  <1>7. Agree(Append(tree, n), sc, nextId, loopDepth) BY <1>1, <1>2, <1>6, CloseNode
  <1>8. Len(sc) = Len(scopes) - 1
    <2>1. scopes \in Seq(ScopeType) /\ scopes # <<>> BY <1>2, AgreeFacts DEF ScopeStacks
    <2> QED BY <2>1, FrontFacts
  <1> HIDE DEF sc
  <1> QED BY <1>3, <1>5, <1>7, <1>8 DEF WalkInv

LEMMA WhileBodyKeeps == ASSUME WalkInv, WhileBody PROVE WalkInv'
  <1> DEFINE n == Node("loop", NoName, None, TRUE)
  <1>1. n \in NodeType /\ n.k = "loop" /\ n.fnType = Object /\ n.ok
    BY DEF Node, NodeType, Kinds, None
  <1>2. /\ Agree(tree, scopes, nextId, loopDepth) /\ StackOK(stack, Len(scopes), loopDepth)
        /\ stack # <<>> /\ Top = "while"
    BY DEF WalkInv, WhileBody, At
  <1>3. /\ tree' = Append(tree, n) /\ stack' = Popped \o <<"loop", "stmt">>
        /\ UNCHANGED <<scopes, nextId>> /\ loopDepth' = loopDepth + 1
    BY DEF WhileBody, Replace
  <1> HIDE DEF n
  <1>4. StackOK(Popped, Len(scopes), loopDepth) BY <1>2, PopKeeps
  <1> DEFINE inside == Popped \o <<"loop">>
  <1>5. StackOK(inside, Len(scopes), loopDepth + 1) BY <1>4, StackEnter
  <1>6. Popped \o <<"loop", "stmt">> = inside \o <<"stmt">>
    <2>1. Popped \in Seq(Awaited) /\ "loop" \in Awaited /\ "stmt" \in Awaited
      BY <1>4 DEF StackOK, Awaited
    <2> QED BY <2>1, PushFacts
  <1> HIDE DEF inside
  <1>7. StackOK(inside \o <<"stmt">>, Len(scopes), loopDepth + 1)
    BY <1>5, StackPush, PartsFacts
  <1>8. Agree(Append(tree, n), scopes, nextId, loopDepth + 1)
    <2>1. loopDepth + 1 \in Nat BY <1>2, AgreeFacts
    <2> QED BY <2>1, <1>1, <1>2, LoopNode
  <1> QED BY <1>3, <1>6, <1>7, <1>8 DEF WalkInv

LEMMA WhileEndKeeps == ASSUME WalkInv, WhileEnd PROVE WalkInv'
  <1> DEFINE n == Node("endloop", NoName, None, TRUE)
  <1>1. n \in NodeType /\ n.k = "endloop" /\ n.fnType = Object /\ n.ok
    BY DEF Node, NodeType, Kinds, None
  <1>2. /\ Agree(tree, scopes, nextId, loopDepth) /\ StackOK(stack, Len(scopes), loopDepth)
        /\ stack # <<>> /\ Top = "loop"
    BY DEF WalkInv, WhileEnd, At
  <1>3. /\ tree' = Append(tree, n) /\ stack' = Popped \o <<>>
        /\ UNCHANGED <<scopes, nextId>> /\ loopDepth' = loopDepth - 1
    BY DEF WhileEnd, Replace
  <1> HIDE DEF n
  <1>4. StackOK(Popped, Len(scopes), loopDepth - 1)
    <2>1. StackOK(Popped, IF Top = "body" THEN Len(scopes) - 1 ELSE Len(scopes),
                  IF Top = "loop" THEN loopDepth - 1 ELSE loopDepth)
      BY <1>2, StackPop DEF Top, Popped
    <2> QED BY <2>1, <1>2
  <1>5. StackOK(Popped \o <<>>, Len(scopes), loopDepth - 1) BY <1>4, StackPush, PartsFacts
  <1>6. loopDepth > 0
    <2>1. Len(stack) \in 1..Len(stack) /\ stack[Len(stack)] = "loop"
      BY <1>2, StackPop DEF Top
    <2> QED BY <2>1, <1>2, StackFacts
  <1>7. Agree(Append(tree, n), scopes, nextId, loopDepth - 1)
    <2>1. loopDepth \in Nat BY <1>2, AgreeFacts
    <2>2. loopDepth - 1 \in Nat BY <2>1, <1>6
    <2> QED BY <2>2, <1>1, <1>2, LoopNode
  <1> QED BY <1>3, <1>5, <1>7 DEF WalkInv

LEMMA RefKeeps ==
  ASSUME WalkInv, NEW use \in Uses, NEW name \in Names, Ref(use, name)
  PROVE  WalkInv'
  <1>1. use \in UseKinds /\ use \in Kinds BY NamesAssumption DEF UseKinds, Kinds
  <1>2. Lookup(name) = Found(scopes, name) BY DEF Lookup, Found, Holding, HoldingIn
  <1>3. UNCHANGED <<scopes, nextId, loopDepth, stack>> BY DEF Ref
  <1>4. Agree(tree, scopes, nextId, loopDepth) BY DEF WalkInv
  <1>5. CASE Lookup(name) = {}
    <2> DEFINE n == Node(use, name, None, FALSE)
    <2>1. tree' = Append(tree, n) BY <1>5 DEF Ref, Meet
    <2>2. /\ n \in NodeType /\ n.k = use /\ n.name = name /\ n.fnType = Object
          /\ n.sym = None /\ ~n.ok
      BY <1>1 DEF Node, NodeType, None
    <2> HIDE DEF n
    <2>3. Agree(Append(tree, n), scopes, nextId, loopDepth)
      BY <2>2, <1>1, <1>2, <1>4, <1>5, UseNode
    <2> QED BY <2>1, <2>3, <1>3 DEF WalkInv
  <1>6. CASE Lookup(name) # {}
    <2>1. PICK s \in Lookup(name) : Meet(Node(use, name, s.id, Accepted(use, s)))
      BY <1>6 DEF Ref
    <2>2. s \in Symbols
      <3>1. \A l \in 1..Len(scopes) : \A x \in DOMAIN scopes[l] : scopes[l][x] \in Symbols
        BY <1>4, AgreeFacts
      <3> QED BY <2>1, <3>1 DEF Lookup, Holding
    <2>3. Accepted(use, s) \in BOOLEAN /\ (Accepted(use, s) => (use = "call" <=> s.fnType # Object))
      BY <1>1 DEF Accepted, UseKinds, IsFunction
    <2> DEFINE n == Node(use, name, s.id, Accepted(use, s))
    <2>4. tree' = Append(tree, n) BY <2>1 DEF Meet
    <2>5. s.id \in Nat BY <2>2 DEF Symbols
    <2>6. /\ n \in NodeType /\ n.k = use /\ n.name = name /\ n.fnType = Object
          /\ n.sym = s.id /\ n.ok = Accepted(use, s)
      BY <2>3, <2>5, <1>1 DEF Node, NodeType
    <2> HIDE DEF n
    <2>7. \E r \in Found(scopes, n.name) :
            n.sym = r.id /\ (n.ok => (n.k = "call" <=> r.fnType # Object))
      BY <2>1, <2>3, <2>6, <1>2
    <2>8. Agree(Append(tree, n), scopes, nextId, loopDepth)
      BY <2>6, <2>7, <1>1, <1>4, UseNode
    <2> QED BY <2>4, <2>8, <1>3 DEF WalkInv
  <1> QED BY <1>5, <1>6

-----------------------------------------------------------------------------
LEMMA WalkInit == ASSUME Init PROVE WalkInv
  <1>1. /\ scopes = <<<<>>>> /\ nextId = 1 /\ loopDepth = 0 /\ stack = <<>> /\ tree = <<>>
        /\ Len(<<>>) = 0
    BY DEF Init
  <1>2. <<>> \in Trees BY DEF Trees
  <1>3. <<>> \in ScopeType
    <2>1. <<>> \in [1..0 -> Symbols] OBVIOUS
    <2>2. 1..0 = {} OBVIOUS
    <2> QED BY <2>1, <2>2 DEF ScopeType
  <1>4. <<<<>>>> \in ScopeStacks /\ Len(<<<<>>>>) = 1 BY <1>3 DEF ScopeStacks
  <1>5. \A i \in 1..Len(<<>>) : FALSE BY <1>1
  <1>6. \A q \in 1..0 + 1 : DepthIn(<<>>, q) = 0 /\ LoopsIn(<<>>, q) = 0
    <2> SUFFICES ASSUME NEW q \in 1..0 + 1 PROVE DepthIn(<<>>, q) = 0 /\ LoopsIn(<<>>, q) = 0
      OBVIOUS
    <2>1. \A i \in 1..q - 1 : FALSE OBVIOUS
    <2>2. \A K : BeforeIn(<<>>, q, K) = {} BY <2>1 DEF BeforeIn
    <2>3. \A K : Cardinality(BeforeIn(<<>>, q, K)) = 0 BY <2>2, FS_EmptySet
    <2> QED BY <2>3 DEF DepthIn, LoopsIn
  <1>7. TreeOK(<<>>, 1) BY <1>2, <1>5 DEF TreeOK
  <1>8. DepthOK(<<>>, Len(<<<<>>>>) - 1, 0) BY <1>1, <1>4, <1>6 DEF DepthOK
  <1>9. Held(<<>>, <<<<>>>>)
    <2>1. \A q, name : ScopeIn(<<>>, q, name) = {} BY <1>5 DEF ScopeIn
    <2>2. \A l, name : Live(<<>>, l, name) = {} BY <2>1 DEF Live
    <2>3. \A l \in 1..Len(<<<<>>>>) : <<<<>>>>[l] = <<>> BY <1>4
    <2>4. DOMAIN <<>> = {} OBVIOUS
    <2> QED BY <2>1, <2>2, <2>3, <2>4 DEF Held, HoldsAt
  <1>10. Rules(<<>>) BY <1>5 DEF Rules
  <1>11. Agree(<<>>, <<<<>>>>, 1, 0) BY <1>4, <1>7, <1>8, <1>9, <1>10 DEF Agree
  <1>12. StackOK(<<>>, 1, 0)
    <2>1. \A x : Places(<<>>, x) = {} BY <1>5 DEF Places
    <2>2. \A x : Cardinality(Places(<<>>, x)) = 0 BY <2>1, FS_EmptySet
    <2> QED BY <2>2 DEF StackOK
  <1> QED BY <1>1, <1>4, <1>11, <1>12 DEF WalkInv

LEMMA WalkStep == ASSUME WalkInv, [Next]_vars PROVE WalkInv'
  <1>1. CASE \E name \in Names, complete \in BOOLEAN : VarDecl(name, complete)
    BY <1>1, VarDeclKeeps
  <1>2. CASE \E name \in Names, t \in FnTypes, hasBody \in BOOLEAN : FunctionDecl(name, t, hasBody)
    BY <1>2, FunctionDeclKeeps
  <1>3. CASE \E name \in Names \cup {NoName} : Param(name) BY <1>3, ParamKeeps
  <1>4. CASE \E use \in Uses, name \in Names : Ref(use, name) BY <1>4, RefKeeps
  <1>5. CASE \E hasElse \in BOOLEAN : IfStmt(hasElse) BY <1>5, IfStmtKeeps
  <1>6. CASE InitEnd BY <1>6, InitEndKeeps
  <1>7. CASE CompoundEnd BY <1>7, CompoundEndKeeps
  <1>8. CASE NullStmt \/ ExprStmt \/ ExprEnd \/ ParamsEnd BY <1>8, SilentKeeps
  <1>9. CASE CompoundStmt BY <1>9, CompoundStmtKeeps
  <1>10. CASE Jump BY <1>10, JumpKeeps
  <1>11. CASE WhileStmt BY <1>11, WhileStmtKeeps
  <1>12. CASE WhileBody BY <1>12, WhileBodyKeeps
  <1>13. CASE WhileEnd BY <1>13, WhileEndKeeps
  <1>14. CASE UNCHANGED vars BY <1>14 DEF WalkInv, vars
  <1> QED BY <1>1, <1>2, <1>3, <1>4, <1>5, <1>6, <1>7, <1>8, <1>9, <1>10, <1>11, <1>12, <1>13,
             <1>14 DEF Next

-----------------------------------------------------------------------------
(* The rules of the model are those stated of its tree.                    *)
LEMMA ReadOff ==
  /\ \A q, K : Before(q, K) = BeforeIn(tree, q, K)
  /\ \A q : Depth(q) = DepthIn(tree, q) /\ Loops(q) = LoopsIn(tree, q)
  /\ \A i, q : InForce(i, q) <=> ForceIn(tree, i, q)
  /\ \A q, name : InScope(q, name) = ScopeIn(tree, q, name)
  /\ \A q : Meant(q) = MeantIn(tree, q) /\ SameScope(q) = SameIn(tree, q)
  /\ \A i : i \in Decls <=> i \in 1..Len(tree) /\ tree[i].k \in DeclKinds
  /\ \A i : (IsFn(i) <=> tree[i].k \in FnKinds) /\ (IsRef(i) <=> tree[i].k \in UseKinds)
  <1>1. \A q, K : Before(q, K) = BeforeIn(tree, q, K) BY DEF Before, BeforeIn
  <1>2. \A q : Depth(q) = DepthIn(tree, q) /\ Loops(q) = LoopsIn(tree, q)
    BY <1>1 DEF Depth, DepthIn, Loops, LoopsIn
  <1>3. \A i, q : InForce(i, q) <=> ForceIn(tree, i, q) BY <1>2 DEF InForce, ForceIn
  <1>4. \A i : i \in Decls <=> i \in 1..Len(tree) /\ tree[i].k \in DeclKinds
    BY DEF Decls, Nodes, DeclKinds
  <1>5. \A q, name : InScope(q, name) = ScopeIn(tree, q, name)
    BY <1>3, <1>4 DEF InScope, ScopeIn, Declares, DeclIn, Nodes
  <1>6. \A q : Meant(q) = MeantIn(tree, q) /\ SameScope(q) = SameIn(tree, q)
    BY <1>2, <1>5 DEF Meant, MeantIn, SameScope, SameIn
  <1>7. \A i : (IsFn(i) <=> tree[i].k \in FnKinds) /\ (IsRef(i) <=> tree[i].k \in UseKinds)
    BY DEF IsFn, IsRef, FnKinds, UseKinds
  <1> QED BY <1>1, <1>2, <1>3, <1>4, <1>5, <1>6, <1>7

LEMMA RulesHold ==
  ASSUME Rules(tree)
  PROVE  OneDeclaration /\ SymbolsDistinct /\ JumpsInLoops
  <1>1. \A q \in Nodes : /\ ScopedAt(tree, q) /\ OneAt(tree, q) /\ JumpAt(tree, q)
                         /\ \A i \in Nodes : ApartAt(tree, i, q)
    BY DEF Rules, Nodes
  <1>2. \A i \in Decls : i \in Nodes /\ tree[i].k \in DeclKinds BY ReadOff DEF Nodes
  <1>4. OneDeclaration
    <2>1. \A i, j : Redeclares(i, j) <=> MayFollow(tree, i, j)
      BY ReadOff DEF Redeclares, MayFollow
    <2> QED BY <1>1, <1>2, <2>1, ReadOff DEF OneDeclaration, OneAt, Fits
  <1>5. SymbolsDistinct BY <1>1, <1>2, ReadOff DEF SymbolsDistinct, ApartAt, DeclIn
  <1>6. JumpsInLoops BY <1>1, ReadOff DEF JumpsInLoops, JumpAt
  <1> QED BY <1>4, <1>5, <1>6

(* Throughout the walk the stack of scopes holds, for every scope that is  *)
(* open, exactly the declarations the tree has in it, with their symbols;  *)
(* the counters nextId_ and loopDepth_ agree with the tree, and so do the  *)
(* activations that will close a scope or leave a loop.                    *)
THEOREM WalkInvariant == Spec => []WalkInv
  <1>1. Init => WalkInv BY WalkInit
  <1>2. WalkInv /\ [Next]_vars => WalkInv' BY WalkStep
  <1> QED BY <1>1, <1>2, PTL DEF Spec

(* declareVar(), declareFunction() and the parameters of a definition let  *)
(* no scope declare a name twice, except that a function may be declared   *)
(* again with its type.                                                    *)
THEOREM DeclaredOnce == Spec => []OneDeclaration
  <1>1. WalkInv => OneDeclaration BY RulesHold DEF WalkInv, Agree
  <1> QED BY <1>1, WalkInvariant, PTL

(* nextId_ never hands the same symbol to two things, and every            *)
(* declaration of one function gets the symbol of the first.               *)
THEOREM SymbolsApart == Spec => []SymbolsDistinct
  <1>1. WalkInv => SymbolsDistinct BY RulesHold DEF WalkInv, Agree
  <1> QED BY <1>1, WalkInvariant, PTL

(* loopDepth_ lets break and continue through exactly inside the body of a *)
(* loop.                                                                   *)
THEOREM JumpsHaveLoops == Spec => []JumpsInLoops
  <1>1. WalkInv => JumpsInLoops BY RulesHold DEF WalkInv, Agree
  <1> QED BY <1>1, WalkInvariant, PTL

-----------------------------------------------------------------------------
(***************************************************************************)
(* Where code generation finds what names mean, for any program: the nodes *)
(* CodeGen has been at have their addresses in values_, but for a global   *)
(* whose initializer it is still building, and a local variable's slot     *)
(* belongs to the function it is declared in.                              *)
(***************************************************************************)

(* Node i declares a global whose initializer node q stands in or ends.    *)
Initializes(t, i, q) ==
    /\ i \in 1..q - 1 /\ t[i].k = "var" /\ t[i].ok /\ DepthIn(t, i) = 0
    /\ \A c \in i + 1..q - 1 : t[c].k \in UseKinds

Followed(t) ==
    \A q \in 1..Len(t) : \A i \in 1..Len(t) :
      Initializes(t, i, q) => t[q].k \in UseKinds \cup {"endvar"}

(* At the end of the tree such an initializer is all that waits.           *)
Waits(t, st) == \A i \in 1..Len(t) : Initializes(t, i, Len(t) + 1) => st = <<"init">>

Rooted(st) == st = <<>> \/ st = <<"init">> \/ (Len(st) > 0 /\ st[1] = "body")

-----------------------------------------------------------------------------
(* The walk of Sema: nothing but the initializer of a global is open where *)
(* one is.                                                                 *)
LEMMA NewNode ==
  ASSUME NEW t \in Trees, NEW n, Append(t, n) \in Trees
  PROVE  n \in NodeType
  <1>1. t \in Seq(NodeType \cup {n}) BY DEF Trees
  <1>2. /\ Len(t) \in Nat /\ Len(Append(t, n)) = Len(t) + 1
        /\ Append(t, n)[Len(t) + 1] = n
    BY <1>1, AppendProperties, LenProperties
  <1>3. Append(t, n) \in Seq(NodeType) BY DEF Trees
  <1>4. Len(t) + 1 \in 1..Len(Append(t, n)) BY <1>2
  <1>5. Append(t, n)[Len(t) + 1] \in NodeType BY <1>3, <1>4, ElementOfSeq
  <1> QED BY <1>2, <1>5

LEMMA InitializersGrown ==
  ASSUME NEW t \in Trees, NEW n \in NodeType, NEW st, NEW more,
         Followed(t), Waits(t, st),
         st = <<"init">> => n.k \in UseKinds \cup {"endvar"},
         n.k \in UseKinds => more = st,
         n.k = "var" /\ n.ok /\ DepthIn(t, Len(t) + 1) = 0 => more = <<"init">>
  PROVE  Followed(Append(t, n)) /\ Waits(Append(t, n), more)
  <1> DEFINE u == Append(t, n)
             N == Len(t)
  <1>1. /\ N \in Nat /\ Len(u) = N + 1 /\ Len(u) + 1 = N + 2 /\ u[N + 1] = n
        /\ \A i \in 1..N : u[i] = t[i]
        /\ \A i \in 1..N + 1 : i \in 1..N \/ i = N + 1
    BY Grown
  <1>2. \A q \in 1..N + 1 : DepthIn(u, q) = DepthIn(t, q) BY DepthGrown
  <1> HIDE DEF u
  <1>3. ASSUME NEW q \in 1..N + 1, NEW i \in 1..N + 1, Initializes(u, i, q)
        PROVE  i \in 1..N /\ Initializes(t, i, q)
    <2>1. i \in 1..N /\ (\A c \in i + 1..q - 1 : c \in 1..N)
      BY <1>1, <1>3 DEF Initializes
    <2>2. u[i] = t[i] /\ \A c \in i + 1..q - 1 : u[c] = t[c] BY <2>1, <1>1
    <2>3. DepthIn(u, i) = DepthIn(t, i) BY <1>2
    <2> QED BY <2>1, <2>2, <2>3, <1>3 DEF Initializes
  <1>4. Followed(u)
    <2> SUFFICES ASSUME NEW q \in 1..N + 1, NEW i \in 1..N + 1, Initializes(u, i, q)
                 PROVE  u[q].k \in UseKinds \cup {"endvar"}
      BY <1>1 DEF Followed
    <2>1. i \in 1..N /\ Initializes(t, i, q) BY <1>3
    <2>2. CASE q \in 1..N BY <2>1, <2>2, <1>1 DEF Followed
    <2>3. CASE q = N + 1 BY <2>1, <2>3, <1>1 DEF Waits
    <2> QED BY <2>2, <2>3, <1>1
  <1>5. Waits(u, more)
    <2> SUFFICES ASSUME NEW i \in 1..N + 1, Initializes(u, i, N + 2) PROVE more = <<"init">>
      BY <1>1 DEF Waits
    <2>1. CASE i \in 1..N
      <3>1. N + 1 \in i + 1..(N + 2) - 1 /\ i \in 1..(N + 1) - 1 BY <2>1, <1>1
      <3>2. n.k \in UseKinds BY <3>1, <1>1 DEF Initializes
      <3>3. \A c \in i + 1..(N + 1) - 1 : c \in i + 1..(N + 2) - 1 BY <1>1, <2>1
      <3>4. Initializes(u, i, N + 1) BY <3>1, <3>3 DEF Initializes
      <3>5. N + 1 \in 1..N + 1 BY <1>1
      <3>6. Initializes(t, i, N + 1) BY <3>4, <3>5, <1>3
      <3> QED BY <3>2, <3>6, <2>1 DEF Waits
    <2>2. CASE i = N + 1
      <3>1. N + 1 \in 1..N + 1 BY <1>1
      <3> QED BY <3>1, <2>2, <1>1, <1>2 DEF Initializes
    <2> QED BY <2>1, <2>2, <1>1
  <1> QED BY <1>4, <1>5 DEF u

LEMMA RootedPush ==
  ASSUME NEW st \in Seq(Awaited), st # <<>>, st[1] = "body", NEW f \in Seq(Awaited)
  PROVE  Rooted(st \o f)
  <1>1. Len(st) \in Nat \ {0} BY EmptySeq
  <1>2. /\ Len(f) \in Nat /\ Len(st \o f) = Len(st) + Len(f)
        /\ \A i \in 1..Len(st) + Len(f) :
             (st \o f)[i] = IF i <= Len(st) THEN st[i] ELSE f[i - Len(st)]
    BY ConcatProperties, LenProperties
  <1>3. Len(st) + Len(f) > 0 /\ 1 \in 1..Len(st) + Len(f) /\ 1 <= Len(st) BY <1>1, <1>2
  <1> QED BY <1>2, <1>3 DEF Rooted

(* Below what waits in a function is the body of the function.             *)
LEMMA RootedStmt ==
  ASSUME WalkInv, Rooted(stack), stack # <<>>, Top # "init"
  PROVE  /\ stack \in Seq(Awaited) /\ stack[1] = "body" /\ Len(scopes) > 1
         /\ Popped \in Seq(Awaited)
         /\ Top # "body" => Popped # <<>> /\ Popped[1] = "body"
         /\ stack # <<"init">>
  <1>1. StackOK(stack, Len(scopes), loopDepth) BY DEF WalkInv
  <1>2. stack \in Seq(Awaited) BY <1>1 DEF StackOK
  <1>3. /\ Len(stack) \in Nat \ {0} /\ Popped \in Seq(Awaited) /\ Len(Popped) = Len(stack) - 1
        /\ \A i \in 1..Len(stack) - 1 : Popped[i] = stack[i]
    BY <1>2, FrontFacts DEF Popped
  <1>4. <<"init">>[Len(<<"init">>)] = "init" OBVIOUS
  <1>5. stack # <<"init">> /\ stack[1] = "body" BY <1>4 DEF Rooted, Top
  <1>6. 1 \in 1..Len(stack) BY <1>3
  <1>7. Len(scopes) \in Nat \ {0} BY <1>1, StackFacts
  <1>8. Len(scopes) > 1 BY <1>1, <1>5, <1>6, StackFacts
  <1>9. ASSUME Top # "body" PROVE Popped # <<>> /\ Popped[1] = "body"
    <2>1. Len(stack) # 1 BY <1>5, <1>9 DEF Top
    <2>2. 1 \in 1..Len(stack) - 1 BY <2>1, <1>3
    <2>3. Popped[1] = "body" BY <2>2, <1>3, <1>5
    <2>4. Len(Popped) # 0 BY <2>1, <1>3
    <2> QED BY <2>3, <2>4
  <1> QED BY <1>2, <1>3, <1>5, <1>8, <1>9

LEMMA RootedBegin ==
  ASSUME WalkInv, Rooted(stack), AtStmt, NEW f \in Seq(Awaited), Begin(f)
  PROVE  Rooted(stack') /\ stack # <<"init">> /\ Len(scopes) > 1
  <1>1. stack # <<>> /\ Top \in {"body", "stmt"} BY DEF AtStmt, At
  <1>2. /\ stack \in Seq(Awaited) /\ stack[1] = "body" /\ Len(scopes) > 1
        /\ Popped \in Seq(Awaited) /\ (Top # "body" => Popped # <<>> /\ Popped[1] = "body")
        /\ stack # <<"init">>
    BY <1>1, RootedStmt
  <1>3. CASE Top = "body"
    <2>1. Rooted(stack \o f) BY <1>1, <1>2, RootedPush
    <2> QED BY <2>1, <1>2, <1>3 DEF Begin
  <1>4. CASE Top # "body"
    <2>1. Rooted(Popped \o f) BY <1>2, <1>4, RootedPush
    <2> QED BY <2>1, <1>2, <1>4 DEF Begin
  <1> QED BY <1>3, <1>4

LEMMA RootedReplace ==
  ASSUME WalkInv, Rooted(stack), stack # <<>>, Top # "body", Top # "init",
         NEW f \in Seq(Awaited), Replace(f)
  PROVE  Rooted(stack') /\ stack # <<"init">>
  <1>1. /\ Popped \in Seq(Awaited) /\ Popped # <<>> /\ Popped[1] = "body"
        /\ stack # <<"init">>
    BY RootedStmt
  <1>2. Rooted(Popped \o f) BY <1>1, RootedPush
  <1> QED BY <1>1, <1>2 DEF Replace

LEMMA RootedEnd ==
  ASSUME WalkInv, Rooted(stack), stack # <<>>, Replace(<<>>)
  PROVE  Rooted(stack')
  <1>1. stack \in Seq(Awaited) BY DEF WalkInv, StackOK
  <1>2. /\ Len(stack) \in Nat \ {0} /\ Popped \in Seq(Awaited) /\ Len(Popped) = Len(stack) - 1
        /\ \A i \in 1..Len(stack) - 1 : Popped[i] = stack[i]
    BY <1>1, FrontFacts DEF Popped
  <1>3. stack' = Popped
    <2>1. Popped \o <<>> = Popped BY <1>2, ConcatEmptySeq
    <2> QED BY <2>1 DEF Replace
  <1>4. CASE Len(stack) = 1
    <2>1. Len(Popped) = 0 BY <1>2, <1>4
    <2>2. Popped = <<>> BY <2>1, <1>2, EmptySeq
    <2> QED BY <2>2, <1>3 DEF Rooted
  <1>5. CASE Len(stack) # 1
    <2>1. stack # <<"init">>
      <3>1. Len(<<"init">>) = 1 OBVIOUS
      <3> QED BY <3>1, <1>5
    <2>2. stack[1] = "body" BY <2>1 DEF Rooted
    <2>3. 1 \in 1..Len(stack) - 1 /\ Len(Popped) > 0 BY <1>2, <1>5
    <2> QED BY <2>2, <2>3, <1>2, <1>3 DEF Rooted
  <1> QED BY <1>4, <1>5

Shape == Rooted(stack) /\ Followed(tree) /\ Waits(tree, stack)

LEMMA ScopesOpen ==
  ASSUME WalkInv
  PROVE  /\ DepthIn(tree, Len(tree) + 1) = 0 => Len(scopes) = 1
         /\ Len(scopes) > 1 => Len(scopes) # 1
  <1>1. Agree(tree, scopes, nextId, loopDepth) BY DEF WalkInv
  <1>2. DepthIn(tree, Len(tree) + 1) = Len(scopes) - 1 /\ Len(scopes) \in Nat
    BY <1>1, AgreeFacts
  <1>3. \A l \in Nat : (l - 1 = 0 => l = 1) /\ (l > 1 => l # 1) OBVIOUS
  <1> QED BY <1>2, <1>3

LEMMA ShapeMet ==
  ASSUME WalkInv, WalkInv', Shape, Rooted(stack'), NEW n, tree' = Append(tree, n),
         stack = <<"init">> => n.k \in UseKinds \cup {"endvar"},
         n.k \in UseKinds => stack' = stack,
         n.k = "var" /\ n.ok /\ Len(scopes) = 1 => stack' = <<"init">>
  PROVE  Shape'
  <1>1. Agree(tree, scopes, nextId, loopDepth) /\ TreeOK(tree, nextId)'
    BY DEF WalkInv, Agree
  <1>2. tree \in Trees /\ Append(tree, n) \in Trees BY <1>1, AgreeFacts DEF TreeOK
  <1>3. n \in NodeType BY <1>2, NewNode
  <1>5. n.k = "var" /\ n.ok /\ DepthIn(tree, Len(tree) + 1) = 0 => stack' = <<"init">>
    BY ScopesOpen, Zenon
  <1>6. Followed(Append(tree, n)) /\ Waits(Append(tree, n), stack')
    BY <1>2, <1>3, <1>5, InitializersGrown DEF Shape
  <1> QED BY <1>6 DEF Shape

(* A statement that is a node by itself.                                   *)
LEMMA ShapeStmt ==
  ASSUME WalkInv, WalkInv', Shape, AtStmt, NEW n, n.k \notin UseKinds,
         NEW f \in Seq(Awaited), tree' = Append(tree, n), Begin(f)
  PROVE  Shape'
  <1>1. Rooted(stack') /\ stack # <<"init">> /\ Len(scopes) # 1
    <2>1. Rooted(stack') /\ stack # <<"init">> /\ Len(scopes) > 1
      BY RootedBegin DEF Shape
    <2> QED BY <2>1, ScopesOpen, Zenon
  <1> QED BY <1>1, ShapeMet

(* An activation that ends, or begins another part, at a node.             *)
LEMMA ShapePart ==
  ASSUME WalkInv, WalkInv', Shape, stack # <<>>, Top \notin {"init", "stmt"},
         NEW n, n.k \notin UseKinds, n.k # "var",
         NEW f \in Seq(Awaited), tree' = Append(tree, n), Replace(f), f = <<>> \/ Top # "body"
  PROVE  Shape'
  <1>1. Rooted(stack') BY RootedEnd, RootedReplace DEF Shape
  <1>2. stack # <<"init">> BY RootedStmt DEF Shape
  <1> QED BY <1>1, <1>2, ShapeMet

LEMMA ShapeStep == ASSUME WalkInv, WalkInv', Shape, Next PROVE Shape'
  <1>1. ASSUME NEW name \in Names, NEW complete \in BOOLEAN, VarDecl(name, complete)
        PROVE  Shape'
    <2>1. PICK n : \E f \in {<<>>, <<"init">>} :
            /\ n.k = "var" /\ tree' = Append(tree, n) /\ (n.ok <=> f = <<"init">>)
            /\ IF AtFile THEN stack' = f ELSE Begin(f)
      <3>1. <<>> # <<"init">> OBVIOUS
      <3> DEFINE refused == ~complete \/ name \in DOMAIN scopes[Len(scopes)]
                 no == Node("var", name, None, FALSE)
                 yes == Node("var", name, nextId, TRUE)
      <3>4. no.k = "var" /\ ~no.ok /\ yes.k = "var" /\ yes.ok BY DEF Node
      <3> HIDE DEF no, yes
      <3>2. CASE refused
        <4>1. /\ tree' = Append(tree, no)
              /\ IF AtFile THEN stack' = <<>> ELSE Begin(<<>>)
          BY <1>1, <3>2, Zenon DEF VarDecl, Meet, no
        <4>2. ~no.ok /\ <<>> # <<"init">> /\ no.k = "var" BY <3>1, <3>4
        <4> QED BY <4>1, <4>2, Zenon
      <3>3. CASE ~refused
        <4>1. /\ tree' = Append(tree, yes)
              /\ IF AtFile THEN stack' = <<"init">> ELSE Begin(<<"init">>)
          BY <1>1, <3>3, Zenon DEF VarDecl, Meet, yes
        <4>2. yes.ok /\ yes.k = "var" BY <3>4
        <4> QED BY <4>1, <4>2, Zenon
      <3> QED BY <3>2, <3>3
    <2>2. PICK f \in {<<>>, <<"init">>} :
            /\ n.k = "var" /\ tree' = Append(tree, n) /\ (n.ok <=> f = <<"init">>)
            /\ IF AtFile THEN stack' = f ELSE Begin(f)
      BY <2>1
    <2>3. f \in Seq(Awaited) /\ n.k \notin UseKinds BY <2>2, PartsFacts DEF UseKinds
    <2>4. CASE AtFile
      <3>1. stack # <<"init">> BY <2>4 DEF AtFile
      <3>2. Rooted(stack') BY <2>2, <2>4 DEF Rooted
      <3> QED BY <3>1, <3>2, <2>2, <2>3, <2>4, ShapeMet
    <2>5. CASE ~AtFile
      <3>1. AtStmt BY <1>1, <2>5 DEF VarDecl
      <3> QED BY <3>1, <2>2, <2>3, <2>5, ShapeStmt
    <2> QED BY <2>4, <2>5
  <1>2. ASSUME NEW name \in Names, NEW t \in FnTypes, NEW hasBody \in BOOLEAN,
               FunctionDecl(name, t, hasBody)
        PROVE  Shape'
    <2>1. stack = <<>> BY <1>2 DEF FunctionDecl, AtFile
    <2>2. PICK n : n.k \in FnKinds /\ tree' = Append(tree, n)
      <3> DEFINE kind == IF hasBody THEN "def" ELSE "proto"
                 N(id, ok) == [Node(kind, name, id, ok) EXCEPT !.fnType = t]
      <3>1. \A id, ok : N(id, ok).k \in FnKinds BY DEF Node, FnKinds
      <3>2. \E id, ok : tree' = Append(tree, N(id, ok)) BY <1>2 DEF FunctionDecl, Meet
      <3> HIDE DEF N
      <3> QED BY <3>1, <3>2
    <2>3. stack' = <<>> \/ stack' = <<"body", "params">> BY <1>2, <2>1 DEF FunctionDecl
    <2>4. Rooted(stack')
      <3>1. Len(<<"body", "params">>) = 2 /\ <<"body", "params">>[1] = "body" OBVIOUS
      <3> QED BY <3>1, <2>3 DEF Rooted
    <2>5. stack # <<"init">> /\ n.k \notin UseKinds /\ n.k # "var"
      BY <2>1, <2>2 DEF FnKinds, UseKinds
    <2> QED BY <2>2, <2>4, <2>5, ShapeMet
  <1>3. ASSUME NEW name \in Names \cup {NoName}, Param(name) PROVE Shape'
    <2>1. PICK n : n.k = "param" /\ tree' = Append(tree, n) BY <1>3 DEF Param, Meet, Node
    <2>2. stack' = stack /\ stack # <<>> /\ Top = "params" BY <1>3 DEF Param, At
    <2>3. stack # <<"init">> BY <2>2, RootedStmt DEF Shape
    <2>4. Rooted(stack') BY <2>2 DEF Shape
    <2> QED BY <2>1, <2>2, <2>3, <2>4, ShapeMet
  <1>4. ASSUME NEW use \in Uses, NEW name \in Names, Ref(use, name) PROVE Shape'
    <2>1. use \in UseKinds BY NamesAssumption DEF UseKinds
    <2>2. PICK n : n.k = use /\ tree' = Append(tree, n) BY <1>4 DEF Ref, Meet, Node
    <2>3. stack' = stack BY <1>4 DEF Ref
    <2>4. Rooted(stack') BY <2>3 DEF Shape
    <2>5. n.k # "var" BY <2>1, <2>2 DEF UseKinds
    <2> QED BY <2>1, <2>2, <2>3, <2>4, <2>5, ShapeMet
  <1>5. ASSUME NEW hasElse \in BOOLEAN, IfStmt(hasElse) PROVE Shape'
    <2>1. PICK n : n.k = "if" /\ tree' = Append(tree, n) BY <1>5 DEF IfStmt, Meet, Node
    <2>2. PICK f \in Seq(Awaited) : Begin(f) BY <1>5, PartsFacts DEF IfStmt
    <2>3. AtStmt /\ n.k \notin UseKinds BY <1>5, <2>1 DEF IfStmt, UseKinds
    <2> QED BY <2>1, <2>2, <2>3, ShapeStmt
  <1>6. ASSUME InitEnd PROVE Shape'
    <2>1. PICK n : n.k = "endvar" /\ tree' = Append(tree, n) BY <1>6 DEF InitEnd, Node
    <2>2. stack # <<>> /\ Replace(<<>>) BY <1>6 DEF InitEnd, At
    <2>3. Rooted(stack') BY <2>2, RootedEnd DEF Shape
    <2>4. n.k \notin UseKinds BY <2>1 DEF UseKinds
    <2> QED BY <2>1, <2>3, <2>4, ShapeMet
  <1>7. CASE NullStmt \/ ExprStmt \/ ExprEnd \/ ParamsEnd
    <2>1. tree' = tree BY <1>7 DEF NullStmt, ExprStmt, ExprEnd, ParamsEnd
    <2>2. stack # <<"init">> /\ Rooted(stack')
      <3>1. CASE NullStmt \/ ExprStmt
        BY <3>1, RootedBegin, PartsFacts DEF NullStmt, ExprStmt, Shape
      <3>2. CASE ExprEnd \/ ParamsEnd
        BY <3>2, RootedReplace, PartsFacts DEF ExprEnd, ParamsEnd, At, Shape
      <3> QED BY <3>1, <3>2, <1>7
    <2> QED BY <2>1, <2>2 DEF Shape, Waits
  <1>8. ASSUME CompoundStmt PROVE Shape'
    <2>1. PICK n : n.k = "open" /\ tree' = Append(tree, n) BY <1>8 DEF CompoundStmt, Meet, Node
    <2>2. Begin(<<"body">>) /\ AtStmt /\ <<"body">> \in Seq(Awaited)
      BY <1>8 DEF CompoundStmt, Awaited
    <2>3. n.k \notin UseKinds BY <2>1 DEF UseKinds
    <2> QED BY <2>1, <2>2, <2>3, ShapeStmt
  <1>9. ASSUME Jump PROVE Shape'
    <2>1. PICK n : n.k = "jump" /\ tree' = Append(tree, n) BY <1>9 DEF Jump, Meet, Node
    <2>2. Begin(<<>>) /\ AtStmt BY <1>9 DEF Jump
    <2>3. n.k \notin UseKinds BY <2>1 DEF UseKinds
    <2> QED BY <2>1, <2>2, <2>3, ShapeStmt, PartsFacts
  <1>10. ASSUME WhileStmt PROVE Shape'
    <2>1. PICK n : n.k = "while" /\ tree' = Append(tree, n) BY <1>10 DEF WhileStmt, Meet, Node
    <2>2. Begin(<<"while", "expr">>) /\ AtStmt BY <1>10 DEF WhileStmt
    <2>3. n.k \notin UseKinds BY <2>1 DEF UseKinds
    <2> QED BY <2>1, <2>2, <2>3, ShapeStmt, PartsFacts
  <1>11. ASSUME WhileBody PROVE Shape'
    <2>1. PICK n : n.k = "loop" /\ tree' = Append(tree, n) BY <1>11 DEF WhileBody, Node
    <2>2. Replace(<<"loop", "stmt">>) /\ stack # <<>> /\ Top = "while" BY <1>11 DEF WhileBody, At
    <2>3. <<"loop", "stmt">> \in Seq(Awaited) BY DEF Awaited
    <2>4. n.k \notin UseKinds BY <2>1 DEF UseKinds
    <2> QED BY <2>1, <2>2, <2>3, <2>4, ShapePart
  <1>12. ASSUME WhileEnd PROVE Shape'
    <2>1. PICK n : n.k = "endloop" /\ tree' = Append(tree, n) BY <1>12 DEF WhileEnd, Node
    <2>2. Replace(<<>>) /\ stack # <<>> /\ Top = "loop" BY <1>12 DEF WhileEnd, At
    <2>3. n.k \notin UseKinds BY <2>1 DEF UseKinds
    <2> QED BY <2>1, <2>2, <2>3, ShapePart, PartsFacts
  <1>13. ASSUME CompoundEnd PROVE Shape'
    <2>1. PICK n : n.k = "close" /\ tree' = Append(tree, n) BY <1>13 DEF CompoundEnd, Node
    <2>2. Replace(<<>>) /\ stack # <<>> /\ Top = "body" BY <1>13 DEF CompoundEnd, At
    <2>3. n.k \notin UseKinds BY <2>1 DEF UseKinds
    <2> QED BY <2>1, <2>2, <2>3, ShapePart, PartsFacts
  <1> QED BY <1>1, <1>2, <1>3, <1>4, <1>5, <1>6, <1>7, <1>8, <1>9, <1>10, <1>11, <1>12, <1>13
          DEF Next

-----------------------------------------------------------------------------
(* Which uses are reported: a variable at file scope is in globals_, so    *)
(* that in a global's initializer its address is constant.                 *)
GlobalsHold(scope, gl) ==
    \A x \in DOMAIN scope : scope[x].fnType = Object => scope[x].id \in gl

RightIn(t, q, i) ==
    /\ t[q].k = "call" <=> t[i].k \in FnKinds
    /\ DepthIn(t, q) = 0 => t[q].k \in {"addr", "sizeof"}

JudgedAt(t, q) ==
    t[q].k \in UseKinds => \A i \in MeantIn(t, q) : t[q].ok <=> RightIn(t, q, i)

Judged(t) == \A q \in 1..Len(t) : JudgedAt(t, q)

(* The walk, with what was reported of the names used.                     *)
UseInv == /\ WalkInv /\ Shape
          /\ GlobalsHold(scopes[1], globals) /\ Judged(tree)

LEMMA JudgedGrown ==
  ASSUME NEW t \in Trees, NEW n \in NodeType, Judged(t),
         n.k \in UseKinds => JudgedAt(Append(t, n), Len(t) + 1)
  PROVE  Judged(Append(t, n))
  <1> DEFINE u == Append(t, n)
             N == Len(t)
  <1>1. /\ N \in Nat /\ Len(u) = N + 1 /\ u[N + 1] = n
        /\ \A i \in 1..N : u[i] = t[i]
        /\ \A i \in 1..N + 1 : i \in 1..N \/ i = N + 1
    BY Grown
  <1>2. ASSUME NEW q \in 1..N PROVE JudgedAt(u, q)
    <2>1. q \in 1..N + 1 BY <1>1
    <2>2. DepthIn(u, q) = DepthIn(t, q) BY <2>1, DepthGrown
    <2>3. \A name : /\ ScopeIn(u, q, name) = ScopeIn(t, q, name)
                    /\ \A i \in ScopeIn(t, q, name) : i \in 1..N /\ DepthIn(u, i) = DepthIn(t, i)
      BY <2>1, ScopeGrown
    <2> HIDE DEF u
    <2>4. u[q] = t[q] BY <1>1
    <2>5. MeantIn(u, q) = MeantIn(t, q) BY <2>3, <2>4 DEF MeantIn
    <2>6. \A i \in MeantIn(t, q) : u[i] = t[i] BY <1>1, <2>3 DEF MeantIn
    <2>7. JudgedAt(t, q) BY DEF Judged
    <2> QED BY <2>2, <2>4, <2>5, <2>6, <2>7 DEF JudgedAt, RightIn
  <1> HIDE DEF u
  <1>3. JudgedAt(u, N + 1) BY <1>1 DEF JudgedAt, u
  <1>4. Judged(u) BY <1>1, <1>2, <1>3 DEF Judged
  <1> QED BY <1>4 DEF u

(* Outside functions a name is used in a global's initializer only.        *)
LEMMA UseStands ==
  ASSUME UseInv, At("init") \/ At("expr")
  PROVE  GlobalInit <=> DepthIn(tree, Len(tree) + 1) = 0
  <1>1. /\ DepthIn(tree, Len(tree) + 1) = Len(scopes) - 1 /\ Len(scopes) \in Nat
    BY AgreeFacts DEF UseInv, WalkInv
  <1>2. At("expr") => Len(scopes) > 1
    <2> SUFFICES ASSUME At("expr") PROVE Len(scopes) > 1
      OBVIOUS
    <2>1. stack # <<>> /\ Top = "expr" BY DEF At
    <2> QED BY <2>1, RootedStmt DEF UseInv, Shape
  <1>3. \A l \in Nat : (l - 1 = 0 <=> l = 1) /\ (l > 1 => l # 1) OBVIOUS
  <1>4. DepthIn(tree, Len(tree) + 1) = 0 <=> Len(scopes) = 1 BY <1>1, <1>3
  <1>5. Len(scopes) = 1 => ~At("expr") BY <1>1, <1>2, <1>3, Zenon
  <1> QED BY <1>4, <1>5, Zenon DEF GlobalInit

(* What a use needs, in the terms of the symbol that was found.            *)
Needs(use, s, d) ==
    /\ use = "call" <=> s.fnType # Object
    /\ d = 0 => use \in {"addr", "sizeof"}

LEMMA AcceptedRightly ==
  ASSUME UseInv, At("init") \/ At("expr"), NEW use \in UseKinds, NEW name, NEW s \in Lookup(name)
  PROVE  Accepted(use, s) <=> Needs(use, s, DepthIn(tree, Len(tree) + 1))
  <1>1. GlobalInit <=> DepthIn(tree, Len(tree) + 1) = 0 BY UseStands
  <1>2. ASSUME GlobalInit, ~IsFunction(s) PROVE s.id \in globals
    <2>1. Len(scopes) = 1 BY <1>2 DEF GlobalInit
    <2>2. name \in DOMAIN scopes[1] /\ s = scopes[1][name] BY <2>1 DEF Lookup, Holding
    <2> QED BY <2>2, <1>2 DEF UseInv, GlobalsHold, IsFunction
  <1>3. IsFunction(s) <=> s.fnType # Object BY DEF IsFunction
  <1> QED BY <1>1, <1>2, <1>3 DEF Accepted, Needs, UseKinds

LEMMA UseJudged ==
  ASSUME UseInv, NEW use \in Uses, NEW name \in Names, Ref(use, name)
  PROVE  \E n \in NodeType : tree' = Append(tree, n) /\ JudgedAt(Append(tree, n), Len(tree) + 1)
  <1> DEFINE N == Len(tree)
             M(n) == MeantIn(Append(tree, n), N + 1)
  <1>1. use \in UseKinds /\ use \in Kinds BY NamesAssumption DEF UseKinds, Kinds
  <1>2. Lookup(name) = Found(scopes, name) BY DEF Lookup, Found, Holding, HoldingIn
  <1>3. Agree(tree, scopes, nextId, loopDepth) BY DEF UseInv, WalkInv
  <1>4. tree \in Trees /\ TreeOK(tree, nextId) BY <1>3, AgreeFacts DEF Agree
  <1>5. CASE Lookup(name) = {}
    <2> DEFINE n == Node(use, name, None, FALSE)
    <2>1. tree' = Append(tree, n) BY <1>5 DEF Ref, Meet
    <2>2. n \in NodeType /\ n.name = name BY <1>1 DEF Node, NodeType, None
    <2> HIDE DEF n
    <2>3. M(n) = {} BY <2>2, <1>2, <1>3, <1>5, FoundIsMeant
    <2> QED BY <2>1, <2>2, <2>3 DEF JudgedAt
  <1>6. CASE Lookup(name) # {}
    <2>1. PICK s \in Lookup(name) : Meet(Node(use, name, s.id, Accepted(use, s)))
      BY <1>6 DEF Ref
    <2>2. s \in Symbols
      <3>1. \A l \in 1..Len(scopes) : \A x \in DOMAIN scopes[l] : scopes[l][x] \in Symbols
        BY <1>3, AgreeFacts
      <3> QED BY <2>1, <3>1 DEF Lookup, Holding
    <2>3. At("init") \/ At("expr") BY DEF Ref
    <2>4. Accepted(use, s) <=> Needs(use, s, DepthIn(tree, N + 1))
      BY <2>1, <2>3, <1>1, AcceptedRightly
    <2>5. Accepted(use, s) \in BOOLEAN BY <1>1 DEF Accepted, UseKinds, IsFunction
    <2> DEFINE n == Node(use, name, s.id, Accepted(use, s))
    <2>6. tree' = Append(tree, n) BY <2>1 DEF Meet
    <2>7. s.id \in Nat BY <2>2 DEF Symbols
    <2>8. n \in NodeType /\ n.k = use /\ n.name = name /\ n.ok = Accepted(use, s)
      BY <2>5, <2>7, <1>1 DEF Node, NodeType
    <2> DEFINE u == Append(tree, n)
    <2> HIDE DEF n
    <2>9. u[N + 1] = n /\ \A i \in 1..N : u[i] = tree[i] BY <2>8, <1>4, Grown
    <2>10. DepthIn(u, N + 1) = DepthIn(tree, N + 1)
      <3>1. N \in Nat /\ N + 1 \in 1..N + 1 BY <2>8, <1>4, Grown
      <3> QED BY <3>1, <2>8, <1>4, DepthGrown
    <2>11. \A i \in M(n) : i \in 1..N /\ tree[i].fnType = s.fnType
      BY <2>1, <2>8, <1>2, <1>3, FoundIsMeant
    <2>12. \A i \in M(n) : u[i].k \in FnKinds <=> s.fnType # Object
      BY <2>9, <2>11, <1>4 DEF TreeOK
    <2> HIDE DEF u
    <2>13. \A i \in MeantIn(u, N + 1) : u[N + 1].ok <=> RightIn(u, N + 1, i)
      BY <2>4, <2>8, <2>9, <2>10, <2>12 DEF RightIn, Needs, u
    <2> QED BY <2>6, <2>8, <2>13 DEF JudgedAt, u
  <1> QED BY <1>5, <1>6

(* The scope of the file is the only one with globals, and every variable  *)
(* declared in it becomes one.                                             *)
LEMMA GlobalsKeep ==
  ASSUME UseInv, Next
  PROVE  GlobalsHold(scopes[1], globals)'
  <1>1. /\ scopes \in ScopeStacks /\ Len(scopes) \in Nat \ {0} /\ nextId \in Nat
        /\ scopes \in Seq(ScopeType) /\ scopes # <<>>
    BY AgreeFacts, ScopeFacts DEF UseInv, WalkInv, ScopeStacks
  <1>2. GlobalsHold(scopes[1], globals) /\ Rooted(stack) /\ WalkInv
    BY DEF UseInv, Shape
  <1>3. StackOK(stack, Len(scopes), loopDepth) BY <1>2 DEF WalkInv
  <1>14. Len(scopes) > 1 => 1 \in 1..Len(scopes) /\ 1 # Len(scopes)
    <2>1. \A l \in Nat \ {0} : l > 1 => 1 \in 1..l /\ 1 # l OBVIOUS
    <2> QED BY <2>1, <1>1, Zenon
  <1>4. stack = <<>> => Len(scopes) = 1
    <2>1. ASSUME stack = <<>> PROVE Len(scopes) = 1 BY <2>1, <1>3, StackEmpty
    <2> QED BY <2>1
  <1>5. ASSUME NEW name \in Names, NEW complete \in BOOLEAN, VarDecl(name, complete)
        PROVE  GlobalsHold(scopes[1], globals)'
    <2>1. CASE ~complete \/ name \in DOMAIN scopes[Len(scopes)]
      BY <2>1, <1>2, <1>5 DEF VarDecl
    <2>2. CASE ~(~complete \/ name \in DOMAIN scopes[Len(scopes)])
      <3> DEFINE s == Symbol(nextId, Object, FALSE)
      <3>1. s \in Symbols /\ s.id = nextId BY <1>1 DEF Symbol, Symbols
      <3>2. scopes' = Emplace(scopes, name, s) BY <2>2, <1>5 DEF VarDecl
      <3> HIDE DEF s
      <3>3. CASE AtFile
        <4>1. Len(scopes) = 1 /\ globals' = globals \cup {nextId}
          BY <3>3, <2>2, <1>4, <1>5 DEF VarDecl, AtFile
        <4>2. /\ DOMAIN scopes'[1] = DOMAIN scopes[1] \cup {name} /\ scopes'[1][name] = s
              /\ \A x \in DOMAIN scopes[1] : x # name => scopes'[1][x] = scopes[1][x]
          BY <4>1, <3>1, <3>2, <1>1, EmplaceFacts
        <4> QED BY <4>1, <4>2, <3>1, <1>2 DEF GlobalsHold
      <3>4. CASE ~AtFile
        <4>1. AtStmt /\ globals' = globals BY <3>4, <2>2, <1>5 DEF VarDecl
        <4>2. stack # <<>> /\ Top # "init" BY <4>1 DEF AtStmt, At
        <4>3. Len(scopes) > 1 BY <4>2, <1>2, RootedStmt
        <4>4. scopes'[1] = scopes[1]
          <5>1. 1 \in 1..Len(scopes) /\ 1 # Len(scopes) BY <4>3, <1>14, Zenon
          <5>2. \A l \in 1..Len(scopes) : l # Len(scopes) => scopes'[l] = scopes[l]
            BY <3>1, <3>2, <1>1, EmplaceFacts
          <5> QED BY <5>1, <5>2, Zenon
        <4> QED BY <4>1, <4>4, <1>2
      <3> QED BY <3>3, <3>4
    <2> QED BY <2>1, <2>2
  <1>6. ASSUME NEW name \in Names, NEW t \in FnTypes, NEW hasBody \in BOOLEAN,
               FunctionDecl(name, t, hasBody)
        PROVE  GlobalsHold(scopes[1], globals)'
    <2>1. Len(scopes) = 1 /\ globals' = globals BY <1>4, <1>6 DEF FunctionDecl, AtFile
    <2>2. CASE Conflict(name, t, hasBody) BY <2>1, <2>2, <1>2, <1>6 DEF FunctionDecl
    <2>3. CASE ~Conflict(name, t, hasBody)
      <3> DEFINE prior == {scopes[1][x] : x \in {name} \cap DOMAIN scopes[1]}
      <3>1. PICK s \in (IF prior = {} THEN {Symbol(nextId, t, FALSE)} ELSE prior) :
              LET sc == Emplace(scopes, name, [s EXCEPT !.isDefined = @ \/ hasBody])
              IN  scopes' = IF hasBody THEN Append(sc, <<>>) ELSE sc
        BY <2>3, <1>6 DEF FunctionDecl
      <3>2. s \in Symbols /\ s.fnType = t
        <4>1. CASE prior = {}
          <5>1. s = Symbol(nextId, t, FALSE) BY <4>1, <3>1
          <5> QED BY <5>1, <1>1 DEF Symbol, Symbols
        <4>2. CASE prior # {}
          <5>1. s \in prior BY <4>2, <3>1
          <5>2. s.fnType = t BY <5>1, <2>3 DEF Conflict
          <5>3. \A x \in DOMAIN scopes[1] : scopes[1][x] \in Symbols BY <1>1, ScopeFacts
          <5> QED BY <5>1, <5>2, <5>3
        <4> QED BY <4>1, <4>2
      <3> DEFINE r == [s EXCEPT !.isDefined = @ \/ hasBody]
                 sc == Emplace(scopes, name, r)
      <3>3. r \in Symbols /\ r.fnType = t BY <3>2 DEF Symbols
      <3>4. scopes' = IF hasBody THEN Append(sc, <<>>) ELSE sc BY <3>1
      <3> HIDE DEF r
      <3>5. /\ sc \in ScopeStacks /\ Len(sc) = 1
            /\ DOMAIN sc[1] = DOMAIN scopes[1] \cup {name} /\ sc[1][name] = r
            /\ \A x \in DOMAIN scopes[1] : x # name => sc[1][x] = scopes[1][x]
        BY <2>1, <3>3, <1>1, EmplaceFacts
      <3> HIDE DEF sc
      <3>6. scopes'[1] = sc[1] BY <3>4, <3>5, OpenFacts
      <3>7. t # Object BY NamesAssumption
      <3> QED BY <2>1, <3>3, <3>5, <3>6, <3>7, <1>2 DEF GlobalsHold
    <2> QED BY <2>2, <2>3
  <1>7. ASSUME NEW name \in Names \cup {NoName}, Param(name)
        PROVE  GlobalsHold(scopes[1], globals)'
    <2>1. globals' = globals BY <1>7 DEF Param
    <2>2. CASE name = NoName \/ name \in DOMAIN scopes[Len(scopes)]
      BY <2>1, <2>2, <1>2, <1>7 DEF Param
    <2>3. CASE ~(name = NoName \/ name \in DOMAIN scopes[Len(scopes)])
      <3> DEFINE s == Symbol(nextId, Object, FALSE)
      <3>1. s \in Symbols /\ name \in Names BY <2>3, <1>1 DEF Symbol, Symbols
      <3>2. scopes' = Emplace(scopes, name, s) BY <2>3, <1>7 DEF Param
      <3> HIDE DEF s
      <3>3. stack # <<>> /\ Top # "init" BY <1>7 DEF Param, At
      <3>4. Len(scopes) > 1 BY <3>3, <1>2, RootedStmt
      <3>5. 1 \in 1..Len(scopes) /\ 1 # Len(scopes) BY <3>4, <1>14, Zenon
      <3>6. scopes'[1] = scopes[1]
        <4>1. \A l \in 1..Len(scopes) : l # Len(scopes) => scopes'[l] = scopes[l]
          BY <3>1, <3>2, <1>1, EmplaceFacts
        <4> QED BY <3>5, <4>1, Zenon
      <3> QED BY <2>1, <3>6, <1>2
    <2> QED BY <2>2, <2>3
  <1>8. ASSUME CompoundStmt PROVE GlobalsHold(scopes[1], globals)'
    <2>1. globals' = globals /\ scopes' = Append(scopes, <<>>) BY <1>8 DEF CompoundStmt, Open
    <2>2. 1 \in 1..Len(scopes) BY <1>1
    <2>3. scopes'[1] = scopes[1] BY <2>1, <2>2, <1>1, OpenFacts
    <2> QED BY <2>1, <2>3, <1>2
  <1>9. ASSUME CompoundEnd PROVE GlobalsHold(scopes[1], globals)'
    <2>1. globals' = globals /\ scopes' = SubSeq(scopes, 1, Len(scopes) - 1)
      BY <1>9 DEF CompoundEnd, Close
    <2>2. stack # <<>> /\ Top # "init" BY <1>9 DEF CompoundEnd, At
    <2>3. Len(scopes) > 1 BY <2>2, <1>2, RootedStmt
    <2>4. 1 \in 1..Len(scopes) - 1 BY <2>3, <1>1
    <2>5. scopes'[1] = scopes[1] BY <2>1, <2>4, <1>1, FrontFacts
    <2> QED BY <2>1, <2>5, <1>2
  <1>10. CASE UNCHANGED <<scopes, globals>> BY <1>10, <1>2
  <1>11. ASSUME NEW use \in Uses, NEW name \in Names, Ref(use, name)
         PROVE  UNCHANGED <<scopes, globals>>
    BY <1>11 DEF Ref
  <1>12. ASSUME NEW hasElse \in BOOLEAN, IfStmt(hasElse) PROVE UNCHANGED <<scopes, globals>>
    BY <1>12 DEF IfStmt
  <1>13. CASE InitEnd \/ ParamsEnd \/ NullStmt \/ ExprStmt \/ ExprEnd \/ Jump \/ WhileStmt
              \/ WhileBody \/ WhileEnd
    BY <1>13, <1>10 DEF InitEnd, ParamsEnd, NullStmt, ExprStmt, ExprEnd, Jump, WhileStmt,
       WhileBody, WhileEnd
  <1> QED BY <1>5, <1>6, <1>7, <1>8, <1>9, <1>10, <1>11, <1>12, <1>13 DEF Next

(* Every node but a use is judged by its kind.                             *)
LEMMA NodesJudged ==
  ASSUME UseInv, WalkInv', Next
  PROVE  Judged(tree)'
  <1>1. tree \in Trees /\ tree' \in Trees /\ Judged(tree)
    BY AgreeFacts DEF UseInv, WalkInv
  <1>2. ASSUME NEW n, tree' = Append(tree, n), n.k \notin UseKinds PROVE Judged(tree)'
    <2>1. n \in NodeType BY <1>1, <1>2, NewNode
    <2> QED BY <2>1, <1>1, <1>2, JudgedGrown
  <1>3. ASSUME NEW name \in Names, NEW complete \in BOOLEAN, VarDecl(name, complete)
        PROVE  \E n : tree' = Append(tree, n) /\ n.k \notin UseKinds
    <2>1. PICK id, ok : tree' = Append(tree, Node("var", name, id, ok))
      BY <1>3 DEF VarDecl, Meet
    <2>2. Node("var", name, id, ok).k \notin UseKinds BY DEF Node, UseKinds
    <2> QED BY <2>1, <2>2
  <1>4. ASSUME NEW name \in Names, NEW t \in FnTypes, NEW hasBody \in BOOLEAN,
               FunctionDecl(name, t, hasBody)
        PROVE  \E n : tree' = Append(tree, n) /\ n.k \notin UseKinds
    <2> DEFINE kind == IF hasBody THEN "def" ELSE "proto"
               N(id, ok) == [Node(kind, name, id, ok) EXCEPT !.fnType = t]
    <2>1. \A id, ok : N(id, ok).k \notin UseKinds BY DEF Node, UseKinds
    <2>2. \E id, ok : tree' = Append(tree, N(id, ok)) BY <1>4 DEF FunctionDecl, Meet
    <2> HIDE DEF N
    <2> QED BY <2>1, <2>2
  <1>5. ASSUME NEW name \in Names \cup {NoName}, Param(name)
        PROVE  \E n : tree' = Append(tree, n) /\ n.k \notin UseKinds
    <2>1. PICK id, ok : tree' = Append(tree, Node("param", name, id, ok))
      BY <1>5 DEF Param, Meet
    <2>2. Node("param", name, id, ok).k \notin UseKinds BY DEF Node, UseKinds
    <2> QED BY <2>1, <2>2
  <1>6. ASSUME NEW k \in {"endvar", "close", "open", "if", "while", "loop", "endloop", "jump"},
               NEW ok, tree' = Append(tree, Node(k, NoName, None, ok))
        PROVE  \E n : tree' = Append(tree, n) /\ n.k \notin UseKinds
    <2>1. Node(k, NoName, None, ok).k \notin UseKinds BY DEF Node, UseKinds
    <2> QED BY <2>1, <1>6
  <1>7. ASSUME NEW hasElse \in BOOLEAN, IfStmt(hasElse)
        PROVE  \E n : tree' = Append(tree, n) /\ n.k \notin UseKinds
    BY <1>6, <1>7 DEF IfStmt, Meet
  <1>8. CASE InitEnd \/ CompoundEnd \/ CompoundStmt \/ Jump \/ WhileStmt \/ WhileBody \/ WhileEnd
    <2>1. \E n : tree' = Append(tree, n) /\ n.k \notin UseKinds
      BY <1>6, <1>8 DEF InitEnd, CompoundEnd, CompoundStmt, Jump, WhileStmt, WhileBody,
         WhileEnd, Meet
    <2> QED BY <2>1, <1>2
  <1>9. CASE NullStmt \/ ExprStmt \/ ExprEnd \/ ParamsEnd
    BY <1>1, <1>9 DEF NullStmt, ExprStmt, ExprEnd, ParamsEnd
  <1>10. ASSUME NEW use \in Uses, NEW name \in Names, Ref(use, name) PROVE Judged(tree)'
    <2>1. PICK n \in NodeType :
            tree' = Append(tree, n) /\ JudgedAt(Append(tree, n), Len(tree) + 1)
      BY <1>10, UseJudged
    <2> QED BY <2>1, <1>1, JudgedGrown
  <1> QED BY <1>2, <1>3, <1>4, <1>5, <1>7, <1>8, <1>9, <1>10 DEF Next

LEMMA UseStarts == ASSUME Init PROVE UseInv
  <1>1. WalkInv BY WalkInit
  <1>2. tree = <<>> /\ stack = <<>> /\ scopes = <<<<>>>> /\ Len(tree) = 0 BY DEF Init
  <1>3. \A i \in 1..Len(tree) : FALSE BY <1>2
  <1>4. Shape BY <1>2, <1>3 DEF Shape, Rooted, Followed, Waits
  <1>5. GlobalsHold(scopes[1], globals)
    <2>1. scopes[1] = <<>> /\ DOMAIN <<>> = {} BY <1>2
    <2> QED BY <2>1 DEF GlobalsHold
  <1>6. Judged(tree) BY <1>3 DEF Judged
  <1> QED BY <1>1, <1>4, <1>5, <1>6 DEF UseInv

LEMMA UseStep == ASSUME UseInv, [Next]_vars PROVE UseInv'
  <1>1. CASE Next
    <2>1. WalkInv' BY <1>1, WalkStep DEF UseInv
    <2>2. Shape' BY <1>1, <2>1, ShapeStep DEF UseInv
    <2>3. GlobalsHold(scopes[1], globals)' BY <1>1, GlobalsKeep
    <2>4. Judged(tree)' BY <1>1, <2>1, NodesJudged
    <2> QED BY <2>1, <2>2, <2>3, <2>4 DEF UseInv
  <1>2. CASE UNCHANGED vars BY <1>2 DEF UseInv, WalkInv, Shape, vars
  <1> QED BY <1>1, <1>2

LEMMA UsesHold == ASSUME UseInv PROVE LexicalScoping
  <1>1. \A q \in Nodes : ScopedAt(tree, q) /\ JudgedAt(tree, q)
    BY DEF UseInv, WalkInv, Agree, Rules, Judged, Nodes
  <1>2. \A q, i : Rightly(q, i) <=> RightIn(tree, q, i) BY ReadOff DEF Rightly, RightIn
  <1> QED BY <1>1, <1>2, ReadOff DEF LexicalScoping, ScopedAt, JudgedAt

(* Whatever the program and however deeply its scopes nest, lookup() finds *)
(* the declaration C means, and a use is reported exactly when there is    *)
(* none, when it is of the wrong sort, or when a global's initializer uses *)
(* the name other than by its address or size.                             *)
THEOREM NamesResolve == Spec => []LexicalScoping
  <1>1. Init => UseInv BY UseStarts
  <1>2. UseInv /\ [Next]_vars => UseInv' BY UseStep
  <1>3. UseInv => LexicalScoping BY UsesHold
  <1> QED BY <1>1, <1>2, <1>3, PTL DEF Spec

-----------------------------------------------------------------------------
(* What CodeGen reads: a tree Sema reported nothing in.                    *)
Sound(t) ==
    /\ t \in Trees /\ Rules(t) /\ Followed(t)
    /\ \E id \in Nat : TreeOK(t, id)
    /\ \A i \in 1..Len(t) : t[i].ok

LEMMA SoundFacts ==
  ASSUME NEW t, Sound(t)
  PROVE  /\ t \in Trees /\ Len(t) \in Nat
         /\ \A i \in 1..Len(t) : DeclIn(t, i) <=> t[i].k \in DeclKinds
         /\ \A i \in 1..Len(t) : t[i].k \in DeclKinds => t[i].sym \in Nat \ {0}
         /\ \A i \in 1..Len(t) : t[i].k \in FnKinds => DepthIn(t, i) = 0
         /\ \A i \in 1..Len(t), j \in 1..Len(t) :
              /\ i # j /\ t[i].k \in DeclKinds /\ t[j].k \in DeclKinds
              /\ t[i].sym = t[j].sym
              => t[i].k \in FnKinds /\ t[j].k \in FnKinds
         /\ \A q \in 1..Len(t) + 1 : DepthIn(t, q) \in Int
  <1>1. t \in Trees BY DEF Sound
  <1>2. Len(t) \in Nat BY <1>1, LenProperties DEF Trees
  <1>3. \A i \in 1..Len(t) : DeclIn(t, i) <=> t[i].k \in DeclKinds BY DEF Sound, DeclIn
  <1>4. PICK id \in Nat : TreeOK(t, id) BY DEF Sound
  <1>5. \A i \in 1..Len(t) : t[i].k \in DeclKinds => t[i].sym \in Nat \ {0}
    <2>1. \A x \in 1..id - 1 : x \in Nat \ {0} OBVIOUS
    <2> QED BY <2>1, <1>3, <1>4 DEF TreeOK
  <1>6. \A i \in 1..Len(t) : t[i].k \in FnKinds => DepthIn(t, i) = 0
    <2>1. \A i \in 1..Len(t) : t[i].k \in FnKinds => t[i].k \in DeclKinds
      BY DEF FnKinds, DeclKinds
    <2> QED BY <2>1, <1>3, <1>4 DEF TreeOK
  <1>7. \A i \in 1..Len(t), j \in 1..Len(t) :
              /\ i # j /\ t[i].k \in DeclKinds /\ t[j].k \in DeclKinds
              /\ t[i].sym = t[j].sym
              => t[i].k \in FnKinds /\ t[j].k \in FnKinds
    BY <1>3 DEF Sound, Rules, ApartAt
  <1>8. ASSUME NEW q \in 1..Len(t) + 1 PROVE DepthIn(t, q) \in Int
    <2>1. q \in Nat BY <1>2
    <2>2. \A K : Cardinality(BeforeIn(t, q, K)) \in Nat BY <2>1, BeforeFinite
    <2> QED BY <2>2 DEF DepthIn
  <1> QED BY <1>1, <1>2, <1>3, <1>5, <1>6, <1>7, <1>8

(* Where nothing closes, the depth does not fall; where nothing opens      *)
(* either, it stays.                                                       *)
LEMMA Climb ==
  ASSUME NEW t, Sound(t), NEW q \in 1..Len(t) + 1, NEW p \in 1..q,
         \A c \in p..q - 1 : t[c].k # "close"
  PROVE  /\ DepthIn(t, p) <= DepthIn(t, q)
         /\ (\A c \in p..q - 1 : t[c].k \notin {"def", "open"}) => DepthIn(t, p) = DepthIn(t, q)
  <1>1. Len(t) \in Nat BY SoundFacts
  <1>2. q \in Nat /\ p \in Nat BY <1>1
  <1>3. \A i \in 1..q - 1 : i \in 1..p - 1 \/ i \in p..q - 1 BY <1>2
  <1>4. \A i \in 1..p - 1 : i \in 1..q - 1 BY <1>2
  <1>5. \A K : BeforeIn(t, p, K) \subseteq BeforeIn(t, q, K) BY <1>4 DEF BeforeIn
  <1>6. BeforeIn(t, q, {"close"}) = BeforeIn(t, p, {"close"}) BY <1>3, <1>4 DEF BeforeIn
  <1>7. \A K : /\ IsFiniteSet(BeforeIn(t, q, K)) /\ Cardinality(BeforeIn(t, q, K)) \in Nat
               /\ Cardinality(BeforeIn(t, p, K)) \in Nat
    BY <1>2, BeforeFinite
  <1>8. \A K : Cardinality(BeforeIn(t, p, K)) <= Cardinality(BeforeIn(t, q, K))
    BY <1>5, <1>7, FS_Subset
  <1>9. DepthIn(t, p) <= DepthIn(t, q)
    <2> DEFINE a == Cardinality(BeforeIn(t, p, {"def", "open"}))
               b == Cardinality(BeforeIn(t, q, {"def", "open"}))
               c == Cardinality(BeforeIn(t, p, {"close"}))
    <2>1. a \in Nat /\ b \in Nat /\ c \in Nat /\ a <= b BY <1>7, <1>8
    <2>2. DepthIn(t, p) = a - c /\ DepthIn(t, q) = b - c BY <1>6 DEF DepthIn
    <2> HIDE DEF a, b, c
    <2> QED BY <2>1, <2>2
  <1>10. ASSUME \A c \in p..q - 1 : t[c].k \notin {"def", "open"}
         PROVE  DepthIn(t, p) = DepthIn(t, q)
    <2>1. BeforeIn(t, q, {"def", "open"}) = BeforeIn(t, p, {"def", "open"})
      BY <1>3, <1>4, <1>10 DEF BeforeIn
    <2> QED BY <2>1, <1>6 DEF DepthIn
  <1> QED BY <1>9, <1>10

LEMMA Descend ==
  ASSUME NEW t, Sound(t), NEW c \in 1..Len(t), t[c].k = "close"
  PROVE  DepthIn(t, c + 1) = DepthIn(t, c) - 1
  <1>1. Len(t) \in Nat /\ t[c].ok BY SoundFacts DEF Sound
  <1>2. \A i \in 1..(c + 1) - 1 : i \in 1..c - 1 \/ i = c BY <1>1
  <1>3. (\A i \in 1..c - 1 : i \in 1..(c + 1) - 1 /\ i # c) /\ c \in 1..(c + 1) - 1 BY <1>1
  <1>4. BeforeIn(t, c + 1, {"def", "open"}) = BeforeIn(t, c, {"def", "open"})
    BY <1>2, <1>3 DEF BeforeIn
  <1>5. BeforeIn(t, c + 1, {"close"}) = BeforeIn(t, c, {"close"}) \cup {c}
    BY <1>1, <1>2, <1>3 DEF BeforeIn
  <1>6. c \notin BeforeIn(t, c, {"close"}) BY <1>3 DEF BeforeIn
  <1>7. c \in Nat /\ \A K : /\ IsFiniteSet(BeforeIn(t, c, K))
                            /\ Cardinality(BeforeIn(t, c, K)) \in Nat
    BY <1>1, BeforeFinite
  <1>8. Cardinality(BeforeIn(t, c + 1, {"close"})) = Cardinality(BeforeIn(t, c, {"close"})) + 1
    BY <1>5, <1>6, <1>7, FS_AddElement
  <1> DEFINE a == Cardinality(BeforeIn(t, c, {"def", "open"}))
             b == Cardinality(BeforeIn(t, c, {"close"}))
  <1>9. a \in Nat /\ b \in Nat BY <1>7
  <1>10. DepthIn(t, c) = a - b /\ DepthIn(t, c + 1) = a - (b + 1) BY <1>4, <1>8 DEF DepthIn
  <1> HIDE DEF a, b
  <1> QED BY <1>9, <1>10

(* What is in force lies no deeper.                                        *)
LEMMA ForceDepth ==
  ASSUME NEW t, Sound(t), NEW i \in 1..Len(t), t[i].k \in DeclKinds,
         NEW q \in 1..Len(t) + 1, ForceIn(t, i, q)
  PROVE  DepthIn(t, i) <= DepthIn(t, q)
  <1> DEFINE C == {c \in i + 1..q - 1 : t[c].k = "close"}
  <1>1. Len(t) \in Nat /\ i < q /\ i \in 1..q BY SoundFacts DEF ForceIn
  <1>2. t[i].k # "close" BY DEF DeclKinds
  <1>3. CASE C = {}
    <2>1. \A c \in i..q - 1 : c = i \/ c \in i + 1..q - 1 BY <1>1
    <2>2. \A c \in i..q - 1 : t[c].k # "close" BY <2>1, <1>2, <1>3
    <2> QED BY <2>2, <1>1, Climb
  <1>4. CASE C # {}
    <2>1. Len(t) \in Nat /\ C \in SUBSET (1..Len(t)) BY <1>1
    <2> HIDE DEF C
    <2>2. PICK c \in C : \A j \in C : j <= c BY <2>1, <1>4, LastPlace
    <2> USE DEF C
    <2>3. c \in 1..Len(t) /\ c \in i + 1..q - 1 /\ t[c].k = "close" BY <2>1, <2>2
    <2>4. DepthIn(t, c) > DepthIn(t, i) BY <2>3 DEF ForceIn
    <2>5. \A d \in c + 1..q - 1 : t[d].k # "close"
      <3> SUFFICES ASSUME NEW d \in c + 1..q - 1, t[d].k = "close" PROVE FALSE
        OBVIOUS
      <3>1. d \in i + 1..q - 1 /\ ~(d <= c) BY <2>3, <1>1
      <3>2. d \in C BY <3>1
      <3> QED BY <3>1, <3>2, <2>2
    <2>6. c + 1 \in 1..q BY <2>3, <1>1
    <2>7. DepthIn(t, c + 1) <= DepthIn(t, q) BY <2>5, <2>6, Climb
    <2>8. DepthIn(t, c + 1) = DepthIn(t, c) - 1 BY <2>3, Descend
    <2>9. DepthIn(t, i) \in Int /\ DepthIn(t, c) \in Int /\ DepthIn(t, q) \in Int
      <3>1. i \in 1..Len(t) + 1 /\ c \in 1..Len(t) + 1 BY <1>1, <2>3
      <3> QED BY <3>1, SoundFacts
    <2> HIDE DEF C
    <2> QED BY <2>4, <2>7, <2>8, <2>9
  <1> QED BY <1>3, <1>4

-----------------------------------------------------------------------------
(* The walk of CodeGen, at node p.                                         *)

(* d is the last definition before node q, 0 for none.                     *)
LastDef(t, q, d) ==
    /\ d = 0 \/ (d \in 1..q - 1 /\ t[d].k = "def")
    /\ \A c \in d + 1..q - 1 : t[c].k # "def"

IsGlobal(t, i) == t[i].k \in FnKinds \/ DepthIn(t, i) = 0

Filed(t, p, vals) ==
    /\ \A s \in DOMAIN vals : s = 0 \/ \E i \in 1..p - 1 : t[i].k \in DeclKinds /\ t[i].sym = s
    /\ \A i \in 1..p - 1 : t[i].k \in DeclKinds /\ t[i].sym \in DOMAIN vals =>
         IF IsGlobal(t, i) THEN vals[t[i].sym] = 0 ELSE LastDef(t, i, vals[t[i].sym])

Entered(t, p, vals, pend) ==
    \A i \in 1..p - 1 : t[i].k \in DeclKinds => t[i].sym \in DOMAIN vals \/ t[i].sym = pend

Pending(t, p, pend) ==
    pend # 0 => \E i \in 1..Len(t) : Initializes(t, i, p) /\ t[i].sym = pend

GenOK(t, p, vals, f, pend) ==
    /\ p \in 1..Len(t) + 1
    /\ Filed(t, p, vals) /\ Entered(t, p, vals, pend) /\ Pending(t, p, pend)
    /\ LastDef(t, p, f)

BindTo(vals, s, o) == [x \in DOMAIN vals \cup {s} |-> IF x = s THEN o ELSE vals[x]]

LEMMA Next1 ==
  ASSUME NEW t, Sound(t), NEW p \in 1..Len(t)
  PROVE  /\ p + 1 \in 1..Len(t) + 1 /\ p \in Nat
         /\ \A i \in 1..(p + 1) - 1 : i \in 1..p - 1 \/ i = p
         /\ \A i \in 1..p - 1 : i \in 1..(p + 1) - 1 /\ i # p /\ i \in 1..Len(t)
         /\ p \in 1..(p + 1) - 1 /\ p \in 1..Len(t) + 1
  <1>1. Len(t) \in Nat BY SoundFacts
  <1> QED BY <1>1

LEMMA LastDefStep ==
  ASSUME NEW t, Sound(t), NEW p \in 1..Len(t), NEW f, LastDef(t, p, f)
  PROVE  LastDef(t, p + 1, IF t[p].k = "def" THEN p ELSE f)
  <1>1. Len(t) \in Nat /\ p \in Nat BY SoundFacts
  <1>2. CASE t[p].k = "def"
    <2>1. \A c \in p + 1..(p + 1) - 1 : FALSE BY <1>1
    <2>2. p \in 1..(p + 1) - 1 BY <1>1
    <2> QED BY <1>2, <2>1, <2>2 DEF LastDef
  <1>3. CASE t[p].k # "def"
    <2>1. f \in Nat /\ f <= p - 1 BY <1>1 DEF LastDef
    <2>2. \A c \in f + 1..(p + 1) - 1 : c \in f + 1..p - 1 \/ c = p BY <1>1, <2>1
    <2>3. \A c \in 1..p - 1 : c \in 1..(p + 1) - 1 BY <1>1
    <2> QED BY <1>3, <2>2, <2>3 DEF LastDef
  <1> QED BY <1>2, <1>3

(* While a global's initializer is built nothing else comes.               *)
LEMMA PendingFacts ==
  ASSUME NEW t, Sound(t), NEW p \in 1..Len(t), NEW pend, Pending(t, p, pend)
  PROVE  /\ t[p].k \in UseKinds => Pending(t, p + 1, pend)
         /\ t[p].k \notin UseKinds \cup {"endvar"} => pend = 0
         /\ t[p].k = "endvar" /\ DepthIn(t, p) # 0 => pend = 0
         /\ \A i \in 1..p - 1 : t[i].k \in DeclKinds /\ t[i].sym = pend => DepthIn(t, i) = 0
         /\ pend # 0 => \E i \in 1..p - 1 : t[i].k \in DeclKinds /\ t[i].sym = pend
  <1>1. Len(t) \in Nat /\ p \in Nat BY SoundFacts
  <1>2. CASE pend = 0
    <2>1. \A i \in 1..p - 1 : i \in 1..Len(t) BY <1>1
    <2>2. \A i \in 1..p - 1 : t[i].k \in DeclKinds => t[i].sym # 0 BY <2>1, SoundFacts
    <2> QED BY <1>2, <2>2 DEF Pending
  <1>3. CASE pend # 0
    <2>1. PICK i \in 1..Len(t) : Initializes(t, i, p) /\ t[i].sym = pend BY <1>3 DEF Pending
    <2>2. i \in 1..p - 1 /\ t[i].k = "var" /\ DepthIn(t, i) = 0 BY <2>1 DEF Initializes
    <2>3. t[i].k \in DeclKinds BY <2>2 DEF DeclKinds
    <2>4. t[p].k \in UseKinds \cup {"endvar"} BY <2>1 DEF Sound, Followed
    <2>5. DepthIn(t, p) = 0
      <3>1. \A c \in i..p - 1 : c = i \/ c \in i + 1..p - 1 BY <2>2, <1>1
      <3>2. \A c \in i..p - 1 : t[c].k \in UseKinds \cup {"var"}
        BY <3>1, <2>1, <2>2 DEF Initializes
      <3>3. \A c \in i..p - 1 : t[c].k # "close" /\ t[c].k \notin {"def", "open"}
        BY <3>2 DEF UseKinds
      <3>4. i \in 1..p /\ p \in 1..Len(t) + 1 BY <2>2, <1>1
      <3> QED BY <3>3, <3>4, <2>2, Climb
    <2>6. ASSUME t[p].k \in UseKinds PROVE Pending(t, p + 1, pend)
      <3>1. \A c \in i + 1..(p + 1) - 1 : c \in i + 1..p - 1 \/ c = p BY <2>2, <1>1
      <3>2. i \in 1..(p + 1) - 1 BY <2>2, <1>1
      <3>3. Initializes(t, i, p + 1) BY <3>1, <3>2, <2>1, <2>6 DEF Initializes
      <3> QED BY <3>3, <2>1 DEF Pending
    <2>7. ASSUME NEW j \in 1..p - 1, t[j].k \in DeclKinds, t[j].sym = pend
          PROVE  DepthIn(t, j) = 0
      <3>1. CASE j = i BY <3>1, <2>2
      <3>2. CASE j # i
        <4>1. j \in 1..Len(t) BY <1>1
        <4>2. t[j].k \in FnKinds BY <4>1, <3>2, <2>1, <2>3, <2>7, SoundFacts
        <4> QED BY <4>1, <4>2, SoundFacts
      <3> QED BY <3>1, <3>2
    <2> QED BY <2>1, <2>2, <2>3, <2>4, <2>5, <2>6, <2>7, <1>3
  <1> QED BY <1>2, <1>3

(* What values_ holds after a node.                                        *)
LEMMA FiledKept ==
  ASSUME NEW t, Sound(t), NEW p \in 1..Len(t), NEW vals, Filed(t, p, vals),
         t[p].k \in DeclKinds /\ t[p].sym \in DOMAIN vals => t[p].k \in FnKinds
  PROVE  Filed(t, p + 1, vals)
  <1>1. \A i \in 1..(p + 1) - 1 : i \in 1..p - 1 \/ i = p BY Next1
  <1>2. \A i \in 1..p - 1 : i \in 1..(p + 1) - 1 /\ i # p /\ i \in 1..Len(t) BY Next1
  <1>3. \A s \in DOMAIN vals :
          s = 0 \/ \E i \in 1..(p + 1) - 1 : t[i].k \in DeclKinds /\ t[i].sym = s
    BY <1>2 DEF Filed
  <1>4. ASSUME t[p].k \in DeclKinds, t[p].sym \in DOMAIN vals
        PROVE  IsGlobal(t, p) /\ vals[t[p].sym] = 0
    <2>1. IsGlobal(t, p) BY <1>4 DEF IsGlobal
    <2>2. t[p].sym # 0 BY <1>4, SoundFacts
    <2>3. PICK i \in 1..p - 1 : t[i].k \in DeclKinds /\ t[i].sym = t[p].sym
      BY <2>2, <1>4 DEF Filed
    <2>4. i \in 1..Len(t) /\ i # p BY <1>2
    <2>5. t[i].k \in FnKinds BY <2>3, <2>4, <1>4, SoundFacts
    <2> QED BY <2>1, <2>3, <2>5, <1>4 DEF Filed, IsGlobal
  <1>5. \A i \in 1..(p + 1) - 1 : t[i].k \in DeclKinds /\ t[i].sym \in DOMAIN vals =>
          IF IsGlobal(t, i) THEN vals[t[i].sym] = 0 ELSE LastDef(t, i, vals[t[i].sym])
    BY <1>1, <1>4 DEF Filed
  <1> QED BY <1>3, <1>5 DEF Filed

LEMMA FiledBound ==
  ASSUME NEW t, Sound(t), NEW p \in 1..Len(t), NEW vals, Filed(t, p, vals),
         NEW o, t[p].k \in DeclKinds,
         IF IsGlobal(t, p) THEN o = 0 ELSE LastDef(t, p, o)
  PROVE  Filed(t, p + 1, BindTo(vals, t[p].sym, o))
  <1> DEFINE new == BindTo(vals, t[p].sym, o)
             s == t[p].sym
  <1>1. \A i \in 1..(p + 1) - 1 : i \in 1..p - 1 \/ i = p BY Next1
  <1>2. /\ \A i \in 1..p - 1 : i \in 1..(p + 1) - 1 /\ i # p /\ i \in 1..Len(t)
        /\ p \in 1..(p + 1) - 1
    BY Next1
  <1>3. /\ DOMAIN new = DOMAIN vals \cup {s} /\ new[s] = o
        /\ \A x \in DOMAIN vals : x # s => new[x] = vals[x]
    BY DEF BindTo
  <1> HIDE DEF new
  <1>4. \A x \in DOMAIN new :
          x = 0 \/ \E i \in 1..(p + 1) - 1 : t[i].k \in DeclKinds /\ t[i].sym = x
    BY <1>2, <1>3 DEF Filed
  <1>5. ASSUME NEW i \in 1..p - 1, t[i].k \in DeclKinds, t[i].sym \in DOMAIN new
        PROVE  IF IsGlobal(t, i) THEN new[t[i].sym] = 0 ELSE LastDef(t, i, new[t[i].sym])
    <2>1. CASE t[i].sym = s
      <3>1. t[i].k \in FnKinds /\ t[p].k \in FnKinds BY <2>1, <1>2, <1>5, SoundFacts
      <3> QED BY <3>1, <2>1, <1>3 DEF IsGlobal
    <2>2. CASE t[i].sym # s
      <3>1. t[i].sym \in DOMAIN vals /\ new[t[i].sym] = vals[t[i].sym] BY <2>2, <1>3, <1>5
      <3> QED BY <3>1, <1>5 DEF Filed
    <2> QED BY <2>1, <2>2
  <1>6. IF IsGlobal(t, p) THEN new[t[p].sym] = 0 ELSE LastDef(t, p, new[t[p].sym])
    BY <1>3
  <1>7. \A i \in 1..(p + 1) - 1 : t[i].k \in DeclKinds /\ t[i].sym \in DOMAIN new =>
          IF IsGlobal(t, i) THEN new[t[i].sym] = 0 ELSE LastDef(t, i, new[t[i].sym])
    BY <1>1, <1>5, <1>6
  <1>8. Filed(t, p + 1, new) BY <1>4, <1>7 DEF Filed
  <1> QED BY <1>8 DEF new

LEMMA FiledDone ==
  ASSUME NEW t, Sound(t), NEW p \in 1..Len(t), NEW vals, Filed(t, p, vals),
         NEW pend, Pending(t, p, pend), t[p].k = "endvar"
  PROVE  Filed(t, p + 1, BindTo(vals, pend, 0))
  <1> DEFINE new == BindTo(vals, pend, 0)
  <1>1. \A i \in 1..(p + 1) - 1 : i \in 1..p - 1 \/ i = p BY Next1
  <1>2. \A i \in 1..p - 1 : i \in 1..(p + 1) - 1 /\ i # p /\ i \in 1..Len(t) BY Next1
  <1>3. /\ DOMAIN new = DOMAIN vals \cup {pend} /\ new[pend] = 0
        /\ \A x \in DOMAIN vals : x # pend => new[x] = vals[x]
    BY DEF BindTo
  <1>4. /\ pend # 0 => \E i \in 1..p - 1 : t[i].k \in DeclKinds /\ t[i].sym = pend
        /\ \A i \in 1..p - 1 : t[i].k \in DeclKinds /\ t[i].sym = pend => DepthIn(t, i) = 0
    BY PendingFacts
  <1> HIDE DEF new
  <1>5. \A x \in DOMAIN new :
          x = 0 \/ \E i \in 1..(p + 1) - 1 : t[i].k \in DeclKinds /\ t[i].sym = x
    BY <1>2, <1>3, <1>4 DEF Filed
  <1>6. ASSUME NEW i \in 1..p - 1, t[i].k \in DeclKinds, t[i].sym \in DOMAIN new
        PROVE  IF IsGlobal(t, i) THEN new[t[i].sym] = 0 ELSE LastDef(t, i, new[t[i].sym])
    <2>1. CASE t[i].sym = pend
      <3>1. IsGlobal(t, i) BY <2>1, <1>4, <1>6 DEF IsGlobal
      <3> QED BY <3>1, <2>1, <1>3
    <2>2. CASE t[i].sym # pend
      <3>1. t[i].sym \in DOMAIN vals /\ new[t[i].sym] = vals[t[i].sym] BY <2>2, <1>3, <1>6
      <3> QED BY <3>1, <1>6 DEF Filed
    <2> QED BY <2>1, <2>2
  <1>7. t[p].k \notin DeclKinds BY DEF DeclKinds
  <1>8. Filed(t, p + 1, new) BY <1>1, <1>5, <1>6, <1>7 DEF Filed
  <1> QED BY <1>8 DEF new

LEMMA EnteredStep ==
  ASSUME NEW t, Sound(t), NEW p \in 1..Len(t), NEW vals, NEW new, NEW pend, NEW now,
         Entered(t, p, vals, pend), DOMAIN vals \subseteq DOMAIN new,
         pend = now \/ pend = 0 \/ pend \in DOMAIN new,
         t[p].k \in DeclKinds => t[p].sym \in DOMAIN new \/ t[p].sym = now
  PROVE  Entered(t, p + 1, new, now)
  <1>1. \A i \in 1..(p + 1) - 1 : i \in 1..p - 1 \/ i = p BY Next1
  <1>2. \A i \in 1..p - 1 : i \in 1..Len(t) BY Next1
  <1>3. \A i \in 1..p - 1 : t[i].k \in DeclKinds => t[i].sym # 0 BY <1>2, SoundFacts
  <1>4. \A i \in 1..p - 1 : t[i].k \in DeclKinds => t[i].sym \in DOMAIN new \/ t[i].sym = now
    BY <1>3 DEF Entered
  <1> QED BY <1>1, <1>4 DEF Entered

Accepting == AtFile /\ \A i \in 1..Len(tree) : tree[i].ok

Generating == GenOK(tree, pos, values, fn, pending)

NamesInv ==
    /\ WalkInv /\ Shape /\ pos \in Nat
    /\ pos = 0 => values = <<>> /\ fn = 0 /\ pending = 0
    /\ pos # 0 => Accepting /\ Generating

LEMMA SoundTree == ASSUME WalkInv, Shape, Accepting PROVE Sound(tree)
  BY AgreeFacts DEF WalkInv, Agree, Shape, Accepting, Sound

LEMMA BindIs ==
  ASSUME NEW sym, NEW owner, Bind(sym, owner)
  PROVE  /\ values' = BindTo(values, sym, owner)
         /\ DOMAIN values' = DOMAIN values \cup {sym}
  BY DEF Bind, BindTo

(* The names CodeGen's actions read, in terms of the tree.                 *)
LEMMA Here ==
  ASSUME NamesInv, Visit
  PROVE  /\ Sound(tree) /\ pos \in 1..Len(tree) /\ pos' = pos + 1
         /\ pos + 1 \in 1..Len(tree) + 1
         /\ Filed(tree, pos, values) /\ Entered(tree, pos, values, pending)
         /\ Pending(tree, pos, pending) /\ LastDef(tree, pos, fn)
         /\ Depth(pos) = DepthIn(tree, pos)
  <1>1. pos \in 1..Len(tree) /\ pos' = pos + 1 BY DEF Visit, Nodes
  <1>2. pos # 0 BY <1>1
  <1>3. Sound(tree) BY <1>2, SoundTree DEF NamesInv
  <1>4. pos + 1 \in 1..Len(tree) + 1 BY <1>1, <1>3, Next1
  <1> QED BY <1>1, <1>2, <1>3, <1>4, ReadOff DEF NamesInv, Generating, GenOK

LEMMA GlobalKeeps ==
  ASSUME NamesInv, UNCHANGED tree, EmitGlobal PROVE Generating'
  <1>1. Visit /\ tree[pos].k = "var" /\ Depth(pos) = 0 BY DEF EmitGlobal, Current
  <1>2. /\ Sound(tree) /\ pos \in 1..Len(tree) /\ pos' = pos + 1
        /\ pos + 1 \in 1..Len(tree) + 1
        /\ Filed(tree, pos, values) /\ Entered(tree, pos, values, pending)
        /\ Pending(tree, pos, pending) /\ LastDef(tree, pos, fn)
        /\ DepthIn(tree, pos) = 0
    BY <1>1, Here
  <1>3. pending' = tree[pos].sym /\ values' = values /\ fn' = fn BY DEF EmitGlobal, Current
  <1>4. tree[pos].k \in DeclKinds /\ tree[pos].k \notin UseKinds \cup {"endvar"}
        /\ tree[pos].k \notin FnKinds
    BY <1>1 DEF DeclKinds, UseKinds, FnKinds
  <1>5. pending = 0 BY <1>2, <1>4, PendingFacts
  <1>6. tree[pos].sym \notin DOMAIN values
    <2> SUFFICES ASSUME tree[pos].sym \in DOMAIN values PROVE FALSE
      OBVIOUS
    <2>1. tree[pos].sym # 0 BY <1>2, <1>4, SoundFacts
    <2>2. PICK i \in 1..pos - 1 : tree[i].k \in DeclKinds /\ tree[i].sym = tree[pos].sym
      BY <2>1, <1>2 DEF Filed
    <2>3. i \in 1..Len(tree) /\ i # pos BY <1>2, Next1
    <2> QED BY <2>2, <2>3, <1>2, <1>4, SoundFacts
  <1>7. Filed(tree, pos + 1, values) BY <1>2, <1>6, FiledKept
  <1>8. Entered(tree, pos + 1, values, tree[pos].sym) BY <1>2, <1>5, EnteredStep
  <1>9. LastDef(tree, pos + 1, fn)
    <2>1. LastDef(tree, pos + 1, IF tree[pos].k = "def" THEN pos ELSE fn)
      BY <1>2, LastDefStep
    <2> QED BY <2>1, <1>1
  <1>10. Pending(tree, pos + 1, tree[pos].sym)
    <2>1. pos \in 1..(pos + 1) - 1 BY <1>2, Next1
    <2>2. \A c \in pos + 1..(pos + 1) - 1 : FALSE BY <1>2
    <2>3. tree[pos].ok BY <1>2 DEF Sound
    <2>4. Initializes(tree, pos, pos + 1) BY <2>1, <2>2, <2>3, <1>1, <1>2 DEF Initializes
    <2> QED BY <2>4, <1>2 DEF Pending
  <1> QED BY <1>2, <1>3, <1>7, <1>8, <1>9, <1>10 DEF Generating, GenOK

LEMMA DoneKeeps ==
  ASSUME NamesInv, UNCHANGED tree, GlobalDone PROVE Generating'
  <1>1. Visit /\ tree[pos].k = "endvar" BY DEF GlobalDone, Current
  <1>2. /\ Sound(tree) /\ pos \in 1..Len(tree) /\ pos' = pos + 1
        /\ pos + 1 \in 1..Len(tree) + 1
        /\ Filed(tree, pos, values) /\ Entered(tree, pos, values, pending)
        /\ Pending(tree, pos, pending) /\ LastDef(tree, pos, fn)
    BY <1>1, Here
  <1>3. /\ values' = BindTo(values, pending, 0) /\ DOMAIN values' = DOMAIN values \cup {pending}
        /\ pending' = 0 /\ fn' = fn
    BY BindIs DEF GlobalDone
  <1>4. tree[pos].k \notin DeclKinds BY <1>1 DEF DeclKinds
  <1>5. Filed(tree, pos + 1, values') BY <1>1, <1>2, <1>3, FiledDone
  <1>6. Entered(tree, pos + 1, values', 0) BY <1>2, <1>3, <1>4, EnteredStep
  <1>7. LastDef(tree, pos + 1, fn)
    <2>1. LastDef(tree, pos + 1, IF tree[pos].k = "def" THEN pos ELSE fn)
      BY <1>2, LastDefStep
    <2> QED BY <2>1, <1>1
  <1>8. Pending(tree, pos + 1, 0) BY DEF Pending
  <1> QED BY <1>2, <1>3, <1>5, <1>6, <1>7, <1>8 DEF Generating, GenOK

LEMMA FunctionKeeps ==
  ASSUME NamesInv, UNCHANGED tree, EmitFunction PROVE Generating'
  <1>1. Visit /\ tree[pos].k \in FnKinds BY DEF EmitFunction, Current, FnKinds
  <1>2. /\ Sound(tree) /\ pos \in 1..Len(tree) /\ pos' = pos + 1
        /\ pos + 1 \in 1..Len(tree) + 1
        /\ Filed(tree, pos, values) /\ Entered(tree, pos, values, pending)
        /\ Pending(tree, pos, pending) /\ LastDef(tree, pos, fn)
    BY <1>1, Here
  <1>3. pending' = pending /\ fn' = IF tree[pos].k = "def" THEN pos ELSE fn
    BY DEF EmitFunction, Current
  <1>4. /\ tree[pos].k \in DeclKinds /\ tree[pos].k \notin UseKinds \cup {"endvar"}
        /\ IsGlobal(tree, pos)
    BY <1>1 DEF DeclKinds, UseKinds, FnKinds, IsGlobal
  <1>5. pending = 0 BY <1>2, <1>4, PendingFacts
  <1>6. LastDef(tree, pos + 1, fn') BY <1>2, <1>3, LastDefStep
  <1>7. /\ Filed(tree, pos + 1, values')
        /\ DOMAIN values \subseteq DOMAIN values' /\ tree[pos].sym \in DOMAIN values'
    <2>1. CASE tree[pos].sym \in DOMAIN values
      <3>1. values' = values BY <2>1 DEF EmitFunction, Current
      <3>2. Filed(tree, pos + 1, values) BY <1>1, <1>2, FiledKept
      <3> QED BY <3>1, <3>2, <2>1
    <2>2. CASE tree[pos].sym \notin DOMAIN values
      <3>1. Bind(tree[pos].sym, 0) BY <2>2 DEF EmitFunction, Current
      <3>2. values' = BindTo(values, tree[pos].sym, 0)
            /\ DOMAIN values' = DOMAIN values \cup {tree[pos].sym}
        BY <3>1, BindIs
      <3>3. Filed(tree, pos + 1, BindTo(values, tree[pos].sym, 0)) BY <1>2, <1>4, FiledBound
      <3> QED BY <3>2, <3>3
    <2> QED BY <2>1, <2>2
  <1>8. Entered(tree, pos + 1, values', pending) BY <1>2, <1>7, EnteredStep
  <1>9. Pending(tree, pos + 1, pending) BY <1>5 DEF Pending
  <1> QED BY <1>2, <1>3, <1>6, <1>7, <1>8, <1>9 DEF Generating, GenOK

LEMMA SlotKeeps ==
  ASSUME NamesInv, UNCHANGED tree, StackSlot PROVE Generating'
  <1>1. Visit /\ tree[pos].k \in {"var", "param"} /\ Depth(pos) > 0 BY DEF StackSlot, Current
  <1>2. /\ Sound(tree) /\ pos \in 1..Len(tree) /\ pos' = pos + 1
        /\ pos + 1 \in 1..Len(tree) + 1
        /\ Filed(tree, pos, values) /\ Entered(tree, pos, values, pending)
        /\ Pending(tree, pos, pending) /\ LastDef(tree, pos, fn)
        /\ DepthIn(tree, pos) > 0
    BY <1>1, Here
  <1>3. /\ values' = BindTo(values, tree[pos].sym, fn)
        /\ DOMAIN values' = DOMAIN values \cup {tree[pos].sym}
        /\ pending' = pending /\ fn' = fn
    BY BindIs DEF StackSlot, Current
  <1>4. /\ tree[pos].k \in DeclKinds /\ tree[pos].k \notin UseKinds \cup {"endvar"}
        /\ tree[pos].k \notin FnKinds /\ tree[pos].k # "def"
    BY <1>1 DEF DeclKinds, UseKinds, FnKinds
  <1>5. pending = 0 BY <1>2, <1>4, PendingFacts
  <1>6. DepthIn(tree, pos) # 0
    <2>1. DepthIn(tree, pos) \in Int BY <1>2, SoundFacts, Next1
    <2> QED BY <2>1, <1>2
  <1>7. Filed(tree, pos + 1, values')
    <2>1. ~IsGlobal(tree, pos) BY <1>4, <1>6 DEF IsGlobal
    <2> QED BY <2>1, <1>2, <1>3, <1>4, FiledBound
  <1>8. Entered(tree, pos + 1, values', pending) BY <1>2, <1>3, EnteredStep
  <1>9. LastDef(tree, pos + 1, fn)
    <2>1. LastDef(tree, pos + 1, IF tree[pos].k = "def" THEN pos ELSE fn)
      BY <1>2, LastDefStep
    <2> QED BY <2>1, <1>4
  <1>10. Pending(tree, pos + 1, pending) BY <1>5 DEF Pending
  <1> QED BY <1>2, <1>3, <1>7, <1>8, <1>9, <1>10 DEF Generating, GenOK

LEMMA OtherKeeps ==
  ASSUME NamesInv, UNCHANGED tree, ValueOf \/ Other PROVE Generating'
  <1>1. /\ Visit /\ tree[pos].k \notin DeclKinds
        /\ tree[pos].k = "endvar" => Depth(pos) > 0
        /\ UNCHANGED <<values, fn, pending>>
    BY DEF ValueOf, Other, LooksUp, Current, DeclKinds
  <1>2. /\ Sound(tree) /\ pos \in 1..Len(tree) /\ pos' = pos + 1
        /\ pos + 1 \in 1..Len(tree) + 1
        /\ Filed(tree, pos, values) /\ Entered(tree, pos, values, pending)
        /\ Pending(tree, pos, pending) /\ LastDef(tree, pos, fn)
        /\ Depth(pos) = DepthIn(tree, pos)
    BY <1>1, Here
  <1>3. tree[pos].k = "endvar" => DepthIn(tree, pos) # 0
    <2>1. DepthIn(tree, pos) \in Int BY <1>2, SoundFacts, Next1
    <2> QED BY <2>1, <1>1, <1>2
  <1>4. Pending(tree, pos + 1, pending)
    <2>1. CASE tree[pos].k \in UseKinds BY <2>1, <1>2, PendingFacts
    <2>2. CASE tree[pos].k \notin UseKinds
      <3>1. pending = 0 BY <2>2, <1>2, <1>3, PendingFacts
      <3> QED BY <3>1 DEF Pending
    <2> QED BY <2>1, <2>2
  <1>5. Filed(tree, pos + 1, values) BY <1>1, <1>2, FiledKept
  <1>6. Entered(tree, pos + 1, values, pending) BY <1>1, <1>2, EnteredStep
  <1>7. LastDef(tree, pos + 1, fn)
    <2>1. LastDef(tree, pos + 1, IF tree[pos].k = "def" THEN pos ELSE fn)
      BY <1>2, LastDefStep
    <2>2. tree[pos].k # "def" BY <1>1 DEF DeclKinds
    <2> QED BY <2>1, <2>2
  <1> QED BY <1>1, <1>2, <1>4, <1>5, <1>6, <1>7 DEF Generating, GenOK

LEMMA GenerateKeeps ==
  ASSUME WalkInv, Generate, values = <<>> /\ fn = 0 /\ pending = 0, UNCHANGED vars
  PROVE  Accepting' /\ Generating'
  <1>1. /\ pos' = 1 /\ values' = <<>> /\ fn' = 0 /\ pending' = 0 /\ tree' = tree
        /\ stack' = stack
    BY DEF Generate, vars
  <1>2. Accepting /\ Len(tree) \in Nat BY AgreeFacts DEF Generate, Accepting, Nodes, WalkInv
  <1>3. \A i \in 1..1 - 1 : FALSE OBVIOUS
  <1>4. DOMAIN <<>> = {}
    <2>1. DOMAIN <<>> = 1..0 /\ 1..0 = {} OBVIOUS
    <2> QED BY <2>1
  <1>5. Filed(tree, 1, <<>>) /\ Entered(tree, 1, <<>>, 0) BY <1>3, <1>4 DEF Filed, Entered
  <1>6. LastDef(tree, 1, 0)
    <2>1. \A c \in 0 + 1..1 - 1 : FALSE OBVIOUS
    <2> QED BY <2>1 DEF LastDef
  <1>7. Pending(tree, 1, 0) BY DEF Pending
  <1>8. 1 \in 1..Len(tree) + 1 BY <1>2
  <1>9. GenOK(tree, 1, <<>>, 0, 0) BY <1>5, <1>6, <1>7, <1>8 DEF GenOK
  <1> QED BY <1>1, <1>2, <1>9 DEF Accepting, AtFile, Generating

LEMMA NamesStart == ASSUME NamesInit PROVE NamesInv
  <1>1. Init /\ pos = 0 /\ values = <<>> /\ fn = 0 /\ pending = 0 BY DEF NamesInit
  <1>2. WalkInv BY <1>1, WalkInit
  <1>3. tree = <<>> /\ stack = <<>> /\ Len(tree) = 0 BY <1>1 DEF Init
  <1>4. \A i \in 1..Len(tree) : FALSE BY <1>3
  <1>5. Shape BY <1>3, <1>4 DEF Shape, Rooted, Followed, Waits
  <1> QED BY <1>1, <1>2, <1>5 DEF NamesInv

LEMMA NamesStep == ASSUME NamesInv, [NamesNext]_allVars PROVE NamesInv'
  <1>1. CASE Analyze
    <2>1. pos = 0 /\ Next /\ UNCHANGED gen BY <1>1 DEF Analyze
    <2>2. WalkInv' BY <2>1, WalkStep DEF NamesInv
    <2>3. Shape' BY <2>1, <2>2, ShapeStep DEF NamesInv
    <2> QED BY <2>1, <2>2, <2>3 DEF NamesInv, gen
  <1>2. CASE Generate /\ UNCHANGED vars
    <2>1. pos = 0 /\ pos' = 1 BY <1>2 DEF Generate
    <2>2. Accepting' /\ Generating' BY <1>2, <2>1, GenerateKeeps DEF NamesInv
    <2>3. WalkInv' /\ Shape' BY <1>2 DEF NamesInv, WalkInv, Shape, vars
    <2> QED BY <2>1, <2>2, <2>3 DEF NamesInv
  <1>3. CASE Emit /\ UNCHANGED vars
    <2>1. Visit BY <1>3 DEF Emit, EmitGlobal, GlobalDone, EmitFunction, StackSlot, ValueOf, Other
    <2>2. pos \in 1..Len(tree) /\ pos' = pos + 1 BY <2>1 DEF Visit, Nodes
    <2>3. pos \in Nat /\ pos # 0 /\ pos' \in Nat /\ pos' # 0 BY <2>2 DEF NamesInv
    <2>4. UNCHANGED tree /\ UNCHANGED stack BY <1>3 DEF vars
    <2>5. Generating'
      BY <1>3, <2>4, GlobalKeeps, DoneKeeps, FunctionKeeps, SlotKeeps, OtherKeeps DEF Emit
    <2>6. Accepting' BY <2>3, <2>4 DEF NamesInv, Accepting, AtFile
    <2>7. WalkInv' /\ Shape' BY <1>3 DEF NamesInv, WalkInv, Shape, vars
    <2> QED BY <2>3, <2>5, <2>6, <2>7 DEF NamesInv
  <1>4. CASE UNCHANGED allVars
    <2>1. UNCHANGED vars /\ UNCHANGED gen BY <1>4 DEF allVars
    <2>2. WalkInv' /\ Shape' BY <2>1 DEF NamesInv, WalkInv, Shape, vars
    <2> QED BY <2>1, <2>2 DEF NamesInv, Accepting, AtFile, Generating, gen, vars
  <1> QED BY <1>1, <1>2, <1>3, <1>4 DEF NamesNext

-----------------------------------------------------------------------------
(* A name that CodeGen looks up means a declaration it has been at.        *)
LEMMA NameMeans ==
  ASSUME NamesInv, LooksUp
  PROVE  /\ Sound(tree) /\ pos \in 1..Len(tree) /\ Generating
         /\ Depth(pos) = DepthIn(tree, pos)
         /\ \E i \in 1..pos - 1 : /\ tree[i].k \in DeclKinds /\ tree[i].sym = tree[pos].sym
                                  /\ i \in 1..Len(tree) /\ ForceIn(tree, i, pos)
  <1>1. pos \in 1..Len(tree) /\ tree[pos].k \in UseKinds
    BY DEF LooksUp, Current, Nodes, UseKinds
  <1>2. pos # 0 BY <1>1
  <1>3. Sound(tree) /\ Generating BY <1>2, SoundTree DEF NamesInv
  <1>4. Depth(pos) = DepthIn(tree, pos) BY ReadOff
  <1>5. ScopedAt(tree, pos) /\ tree[pos].ok BY <1>1, <1>3 DEF Sound, Rules
  <1>6. PICK i \in MeantIn(tree, pos) : tree[pos].sym = tree[i].sym
    BY <1>1, <1>5 DEF ScopedAt
  <1>7. i \in 1..Len(tree) /\ DeclIn(tree, i) /\ ForceIn(tree, i, pos)
    BY <1>6 DEF MeantIn, ScopeIn
  <1>8. i \in 1..pos - 1 BY <1>7, <1>1 DEF ForceIn
  <1> QED BY <1>1, <1>3, <1>4, <1>6, <1>7, <1>8 DEF DeclIn

LEMMA ItselfHolds == ASSUME NamesInv PROVE UnseenIsItself
  <1> SUFFICES ASSUME Unseen PROVE pending = Current.sym
    BY DEF UnseenIsItself
  <1>1. LooksUp /\ tree[pos].sym \notin DOMAIN values BY DEF Unseen, Current
  <1>2. PICK i \in 1..pos - 1 : tree[i].k \in DeclKinds /\ tree[i].sym = tree[pos].sym
    BY <1>1, NameMeans
  <1>3. Entered(tree, pos, values, pending) BY <1>1, NameMeans DEF Generating, GenOK
  <1> QED BY <1>1, <1>2, <1>3 DEF Entered, Current

LEMMA OwnHolds == ASSUME NamesInv PROVE OwnSlots
  <1> SUFFICES ASSUME LooksUp, ~Unseen
               PROVE  values[Current.sym] \in (IF Depth(pos) = 0 THEN {0} ELSE {0, fn})
    BY DEF OwnSlots
  <1>1. tree[pos].sym \in DOMAIN values BY DEF Unseen, Current
  <1>2. /\ Sound(tree) /\ pos \in 1..Len(tree) /\ Depth(pos) = DepthIn(tree, pos)
        /\ Filed(tree, pos, values) /\ LastDef(tree, pos, fn)
    BY NameMeans DEF Generating, GenOK
  <1>3. PICK i \in 1..pos - 1 : /\ tree[i].k \in DeclKinds /\ tree[i].sym = tree[pos].sym
                                /\ i \in 1..Len(tree) /\ ForceIn(tree, i, pos)
    BY NameMeans
  <1>4. /\ pos \in 1..Len(tree) + 1 /\ i \in 1..Len(tree) + 1
        /\ DepthIn(tree, i) \in Int /\ DepthIn(tree, pos) \in Int
    <2>1. pos \in 1..Len(tree) + 1 /\ i \in 1..Len(tree) + 1 BY <1>2, <1>3, Next1
    <2> QED BY <2>1, <1>2, SoundFacts
  <1>5. DepthIn(tree, i) <= DepthIn(tree, pos) BY <1>2, <1>3, <1>4, ForceDepth
  <1>6. CASE IsGlobal(tree, i) BY <1>1, <1>2, <1>3, <1>6 DEF Filed, Current
  <1>7. CASE ~IsGlobal(tree, i)
    <2> DEFINE o == values[tree[pos].sym]
    <2>1. LastDef(tree, i, o) BY <1>1, <1>2, <1>3, <1>7 DEF Filed
    <2>2. DepthIn(tree, i) # 0 /\ tree[i].k # "def" BY <1>7 DEF IsGlobal, FnKinds
    <2>3. tree[pos].k # "def" BY DEF LooksUp, Current
    <2>4. DepthIn(tree, pos) # 0 /\ DepthIn(tree, i) > 0
      <3>1. DepthIn(tree, i) \in Nat
        <4>1. \A q \in 1..Len(tree) + 1 : DepthIn(tree, q) \in Nat
          BY DEF NamesInv, WalkInv, Agree, DepthOK
        <4> QED BY <4>1, <1>4
      <3> QED BY <3>1, <2>2, <1>4, <1>5
    (* No definition lies between the declaration and the use: it would    *)
    (* lie at depth 0, and what is in force there is no deeper.            *)
    <2>5. \A c \in i + 1..pos - 1 : tree[c].k # "def"
      <3> SUFFICES ASSUME NEW c \in i + 1..pos - 1, tree[c].k = "def" PROVE FALSE
        OBVIOUS
      <3>0. Len(tree) \in Nat BY <1>2, SoundFacts
      <3>1. c \in 1..Len(tree) /\ c \in 1..Len(tree) + 1 BY <3>0, <1>2, <1>3
      <3>2. DepthIn(tree, c) = 0 BY <3>1, <1>2, SoundFacts DEF FnKinds
      <3>3. ForceIn(tree, i, c)
        <4>1. \A d \in i + 1..c - 1 : d \in i + 1..pos - 1 BY <3>0, <3>1, <1>2, <1>3
        <4>2. i < c BY <1>3
        <4> QED BY <4>1, <4>2, <1>3 DEF ForceIn
      <3>4. DepthIn(tree, i) <= DepthIn(tree, c) BY <3>1, <3>3, <1>2, <1>3, ForceDepth
      <3> QED BY <3>2, <3>4, <2>4, <1>4
    <2> HIDE DEF o
    <2>6. Len(tree) \in Nat BY <1>2, SoundFacts
    <2>7. o \in Nat /\ o <= i - 1 /\ (o = 0 \/ tree[o].k = "def")
      BY <2>1, <2>6, <1>3 DEF LastDef
    <2>8. fn \in Nat /\ fn <= pos - 1 /\ (fn = 0 \/ tree[fn].k = "def")
      BY <1>2, <2>6 DEF LastDef
    <2>9. ~(fn > o)
      <3> SUFFICES ASSUME fn > o PROVE FALSE
        OBVIOUS
      <3>1. fn # 0 BY <2>7, <2>8
      <3>2. tree[fn].k = "def" BY <3>1, <2>8
      <3>3. fn \in o + 1..i - 1 \/ fn = i \/ fn \in i + 1..pos - 1
        BY <2>7, <2>8, <2>6, <1>2, <1>3
      <3> QED BY <3>2, <3>3, <2>1, <2>2, <2>5 DEF LastDef
    <2>10. ~(o > fn)
      <3> SUFFICES ASSUME o > fn PROVE FALSE
        OBVIOUS
      <3>1. o # 0 BY <2>7, <2>8
      <3>2. o \in fn + 1..pos - 1 BY <2>7, <2>8, <2>6, <1>2, <1>3
      <3> QED BY <3>1, <3>2, <2>7, <1>2 DEF LastDef
    <2>11. o = fn BY <2>7, <2>8, <2>9, <2>10
    <2>12. values[Current.sym] = fn BY <2>11 DEF o, Current
    <2> QED BY <2>4, <2>12, <1>2
  <1> QED BY <1>6, <1>7

(* The nodes CodeGen has been at have their addresses, but for the global  *)
(* being initialized, each owned by the function it is declared in.        *)
THEOREM NamesInvariant == NamesSpec => []NamesInv
  <1>1. NamesInit => NamesInv BY NamesStart
  <1>2. NamesInv /\ [NamesNext]_allVars => NamesInv' BY NamesStep
  <1> QED BY <1>1, <1>2, PTL DEF NamesSpec

(* The assertion in valueOf, "Sema resolved a name codegen never saw", can *)
(* fail for no name but that of a global in its own initializer.           *)
THEOREM OnlyItselfUnseen == NamesSpec => []UnseenIsItself
  <1>1. NamesInv => UnseenIsItself BY ItselfHolds
  <1> QED BY <1>1, NamesInvariant, PTL

(* Though values_ is never cleared, no function is ever given the address  *)
(* of another function's parameter or local variable.                      *)
THEOREM SlotsOwned == NamesSpec => []OwnSlots
  <1>1. NamesInv => OwnSlots BY OwnHolds
  <1> QED BY <1>1, NamesInvariant, PTL

=============================================================================
