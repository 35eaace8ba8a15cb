--------------------------- MODULE SequenceLemmas ---------------------------
(***************************************************************************)
(* What the proofs need of the stacks the analyzer, the parser and the     *)
(* code generator keep: dropping and pushing an element, and how many      *)
(* elements of a stack are of a kind.                                      *)
(***************************************************************************)
EXTENDS Naturals, TLAPS, FiniteSetTheorems, SequenceTheorems, WellFoundedInduction

(* Dropping the last element.                                              *)
LEMMA FrontFacts ==
  ASSUME NEW S, NEW s \in Seq(S), s # <<>>
  PROVE  /\ Len(s) \in Nat \ {0} /\ s[Len(s)] \in S
         /\ SubSeq(s, 1, Len(s) - 1) \in Seq(S)
         /\ Len(SubSeq(s, 1, Len(s) - 1)) = Len(s) - 1
         /\ \A i \in 1..Len(s) - 1 : SubSeq(s, 1, Len(s) - 1)[i] = s[i]
  <1>1. Len(s) \in Nat \ {0} BY EmptySeq
  <1>2. \A i \in 1..Len(s) : s[i] \in S BY ElementOfSeq
  <1>3. \A i \in 1..Len(s) - 1 : s[i] \in S BY <1>1, <1>2
  <1>4. /\ SubSeq(s, 1, Len(s) - 1) \in Seq(S)
        /\ Len(SubSeq(s, 1, Len(s) - 1)) = IF 1 <= Len(s) - 1 THEN Len(s) - 1 - 1 + 1 ELSE 0
        /\ \A i \in 1..Len(s) - 1 - 1 + 1 : SubSeq(s, 1, Len(s) - 1)[i] = s[1 + i - 1]
    BY <1>1, <1>3, SubSeqProperties, Len(s) - 1 \in Int
  <1>5. Len(SubSeq(s, 1, Len(s) - 1)) = Len(s) - 1
    <2>1. CASE Len(s) = 1 BY <2>1, <1>4
    <2>2. CASE Len(s) # 1
      <3>1. 1 <= Len(s) - 1 /\ Len(s) - 1 - 1 + 1 = Len(s) - 1 BY <2>2, <1>1
      <3> QED BY <3>1, <1>4
    <2> QED BY <2>1, <2>2
  <1>6. ASSUME NEW i \in 1..Len(s) - 1 PROVE SubSeq(s, 1, Len(s) - 1)[i] = s[i]
    <2>1. i \in 1..Len(s) - 1 - 1 + 1 /\ 1 + i - 1 = i BY <1>1
    <2> QED BY <2>1, <1>4
  <1>7. s[Len(s)] \in S BY <1>1, <1>2
  <1> QED BY <1>1, <1>4, <1>5, <1>6, <1>7

(* Pushing none, one or two frames is appending them in turn.              *)
LEMMA PushFacts ==
  ASSUME NEW S, NEW s \in Seq(S), NEW x \in S, NEW y \in S
  PROVE  /\ s \o <<>> = s
         /\ s \o <<x>> = Append(s, x)
         /\ s \o <<x, y>> = Append(Append(s, x), y)
         /\ s \o <<x, y>> = (s \o <<x>>) \o <<y>>
  <1>1. s \o <<>> = s BY ConcatEmptySeq
  <1>2. s \o <<x>> = Append(s, x) BY AppendIsConcat
  <1>3. Append(Append(s, x), y) = (s \o <<x>>) \o <<y>>
    <2>1. Append(s, x) \in Seq(S) BY AppendProperties
    <2> QED BY <2>1, <1>2, AppendIsConcat
  <1>4. <<x>> \in Seq(S) /\ <<y>> \in Seq(S) /\ <<x>> \o <<y>> = <<x, y>>
    <2>1. <<x>> \in Seq(S) /\ <<y>> \in Seq(S) /\ <<x, y>> \in Seq(S) OBVIOUS
    <2>2. Append(<<x>>, y) = <<x, y>>
      <3>1. /\ Len(<<x>>) = 1 /\ Len(<<x, y>>) = 2 /\ <<x>>[1] = x
            /\ <<x, y>>[1] = x /\ <<x, y>>[2] = y
        OBVIOUS
      <3>2. /\ Append(<<x>>, y) \in Seq(S) /\ Len(Append(<<x>>, y)) = Len(<<x>>) + 1
            /\ \A i \in 1..Len(<<x>>) : Append(<<x>>, y)[i] = <<x>>[i]
            /\ Append(<<x>>, y)[Len(<<x>>) + 1] = y
        BY <2>1, AppendProperties
      <3>3. \A i \in 1..2 : i = 1 \/ i = 2 OBVIOUS
      <3>4. \A i \in 1..2 : Append(<<x>>, y)[i] = <<x, y>>[i] BY <3>1, <3>2, <3>3
      <3> DEFINE l == Append(<<x>>, y)
                 r == <<x, y>>
      <3>5. l \in Seq(S) /\ r \in Seq(S) /\ Len(l) = 2 /\ Len(r) = 2
        BY <2>1, <3>1, <3>2
      <3>6. \A i \in 1..2 : l[i] = r[i] BY <3>4
      <3> HIDE DEF l, r
      <3>7. l = r BY <3>5, <3>6, SeqEqual
      <3> QED BY <3>7 DEF l, r
    <2>3. Append(<<x>>, y) = <<x>> \o <<y>> BY <2>1, AppendIsConcat
    <2> QED BY <2>1, <2>2, <2>3
  <1>5. (s \o <<x>>) \o <<y>> = s \o <<x, y>>
    <2>1. (s \o <<x>>) \o <<y>> = s \o (<<x>> \o <<y>>) BY <1>4, ConcatAssociative
    <2> QED BY <2>1, <1>4
  <1> QED BY <1>1, <1>2, <1>3, <1>5

(* The places of a sequence where x stands.                                *)
Places(s, x) == {i \in 1..Len(s) : s[i] = x}

LEMMA PlacesFinite ==
  ASSUME NEW S, NEW s \in Seq(S), NEW x
  PROVE  /\ IsFiniteSet(Places(s, x)) /\ Cardinality(Places(s, x)) \in Nat
         /\ \A i \in 1..Len(s) : s[i] = x => Cardinality(Places(s, x)) > 0
  <1>1. Len(s) \in Nat BY LenProperties
  <1>2. IsFiniteSet(1..Len(s)) BY <1>1, FS_Interval
  <1>3. IsFiniteSet(Places(s, x)) BY <1>2, FS_Subset DEF Places
  <1>4. Cardinality(Places(s, x)) \in Nat BY <1>3, FS_CardinalityType
  <1>5. ASSUME NEW i \in 1..Len(s), s[i] = x PROVE Cardinality(Places(s, x)) > 0
    <2>1. Places(s, x) # {} BY <1>5 DEF Places
    <2>2. Cardinality(Places(s, x)) # 0 BY <2>1, <1>3, FS_EmptySet
    <2> QED BY <2>2, <1>4
  <1> QED BY <1>3, <1>4, <1>5

LEMMA PlacesAppend ==
  ASSUME NEW S, NEW s \in Seq(S), NEW e \in S, NEW x
  PROVE  Cardinality(Places(Append(s, e), x)) =
           Cardinality(Places(s, x)) + (IF e = x THEN 1 ELSE 0)
  <1> DEFINE t == Append(s, e)
  <1>1. /\ Len(s) \in Nat /\ Len(t) = Len(s) + 1
        /\ \A i \in 1..Len(s) : t[i] = s[i]
        /\ t[Len(s) + 1] = e
    BY AppendProperties, LenProperties
  <1> HIDE DEF t
  <1>2. \A i \in 1..Len(t) : i \in 1..Len(s) \/ i = Len(s) + 1 BY <1>1
  <1>3. (\A i \in 1..Len(s) : i \in 1..Len(t)) /\ Len(s) + 1 \in 1..Len(t) BY <1>1
  <1>4. Len(s) + 1 \notin Places(s, x) BY <1>1 DEF Places
  <1>5. IsFiniteSet(Places(s, x)) /\ Cardinality(Places(s, x)) \in Nat BY PlacesFinite
  <1>6. CASE e = x
    <2>1. Places(t, x) = Places(s, x) \cup {Len(s) + 1}
      BY <1>1, <1>2, <1>3, <1>6 DEF Places
    <2>2. Cardinality(Places(t, x)) = Cardinality(Places(s, x)) + 1
      BY <2>1, <1>4, <1>5, FS_AddElement
    <2> QED BY <2>2, <1>6 DEF t
  <1>7. CASE e # x
    <2>1. Places(t, x) = Places(s, x)
      BY <1>1, <1>2, <1>3, <1>7 DEF Places
    <2> QED BY <2>1, <1>5, <1>7 DEF t
  <1> QED BY <1>6, <1>7

LEMMA PlacesFront ==
  ASSUME NEW S, NEW s \in Seq(S), s # <<>>, NEW x
  PROVE  Cardinality(Places(SubSeq(s, 1, Len(s) - 1), x)) =
           Cardinality(Places(s, x)) - (IF s[Len(s)] = x THEN 1 ELSE 0)
  <1> DEFINE t == SubSeq(s, 1, Len(s) - 1)
  <1>1. /\ Len(s) \in Nat \ {0} /\ Len(t) = Len(s) - 1
        /\ \A i \in 1..Len(s) - 1 : t[i] = s[i]
    BY FrontFacts
  <1> HIDE DEF t
  <1>2. \A i \in 1..Len(s) : i \in 1..Len(t) \/ i = Len(s) BY <1>1
  <1>3. \A i \in 1..Len(t) : i \in 1..Len(s) /\ i # Len(s) BY <1>1
  <1>4. IsFiniteSet(Places(s, x)) /\ Cardinality(Places(s, x)) \in Nat BY PlacesFinite
  <1>5. Len(s) \in 1..Len(s) BY <1>1
  <1>6. CASE s[Len(s)] = x
    <2>1. Places(t, x) = Places(s, x) \ {Len(s)} /\ Len(s) \in Places(s, x)
      BY <1>1, <1>2, <1>3, <1>5, <1>6 DEF Places
    <2>2. Cardinality(Places(t, x)) = Cardinality(Places(s, x)) - 1
      BY <2>1, <1>4, FS_RemoveElement
    <2> QED BY <2>2, <1>6 DEF t
  <1>7. CASE s[Len(s)] # x
    <2>1. Places(t, x) = Places(s, x)
      BY <1>1, <1>2, <1>3, <1>7 DEF Places
    <2> QED BY <2>1, <1>4, <1>7 DEF t
  <1> QED BY <1>6, <1>7

(* Pushing other elements changes no count.                                *)
LEMMA PlacesConcat ==
  ASSUME NEW S, NEW s \in Seq(S), NEW f \in Seq(S), NEW x, \A i \in 1..Len(f) : f[i] # x
  PROVE  Places(s \o f, x) = Places(s, x)
  <1> DEFINE t == s \o f
  <1>1. /\ Len(s) \in Nat /\ Len(f) \in Nat /\ Len(t) = Len(s) + Len(f)
        /\ \A i \in 1..Len(s) + Len(f) :
             t[i] = IF i <= Len(s) THEN s[i] ELSE f[i - Len(s)]
    BY ConcatProperties, LenProperties
  <1> HIDE DEF t
  <1>2. \A i \in 1..Len(s) : i \in 1..Len(t) /\ t[i] = s[i] BY <1>1
  <1>3. \A i \in 1..Len(t) : i \in 1..Len(s) \/ t[i] # x
    <2> SUFFICES ASSUME NEW i \in 1..Len(t), i \notin 1..Len(s) PROVE t[i] # x
      OBVIOUS
    <2>1. i - Len(s) \in 1..Len(f) /\ ~(i <= Len(s)) BY <1>1
    <2>2. t[i] = f[i - Len(s)] BY <2>1, <1>1
    <2> QED BY <2>1, <2>2
  <1>4. Places(t, x) = Places(s, x) BY <1>2, <1>3 DEF Places
  <1> QED BY <1>4 DEF t

(* A set of places that is not empty has a last one.                       *)
LEMMA LastPlace ==
  ASSUME NEW n \in Nat, NEW P \in SUBSET (1..n), P # {}
  PROVE  \E i \in P : \A j \in P : j <= i
  <1> DEFINE Q == {n - i : i \in P}
  <1>0. \A i \in P : i \in 1..n /\ i \in Nat /\ i <= n OBVIOUS
  <1>1. Q \subseteq Nat /\ Q # {}
    <2>1. \A i \in P : n - i \in Nat BY <1>0
    <2> QED BY <2>1
  <1>2. PICK q \in Q : \A y \in Q : <<y, q>> \notin OpToRel(<, Nat)
    BY <1>1, WFMin, NatLessThanWellFounded
  <1>3. ASSUME NEW y \in Q PROVE ~(y < q)
    <2>1. y \in Nat /\ q \in Nat BY <1>1
    <2>2. <<y, q>> \in Nat \X Nat /\ <<y, q>>[1] = y /\ <<y, q>>[2] = q BY <2>1
    <2> HIDE DEF Q
    <2>3. <<y, q>> \notin OpToRel(<, Nat) BY <1>2, <1>3
    <2> QED BY <2>2, <2>3 DEF OpToRel
  <1>4. PICK i \in P : q = n - i BY <1>2
  <1>5. \A j \in P : ~(n - j < n - i) BY <1>3, <1>4
  <1>6. \A j \in P : j <= i BY <1>0, <1>5
  <1> QED BY <1>6

=============================================================================
