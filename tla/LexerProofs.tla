---------------------------- MODULE LexerProofs -----------------------------
(***************************************************************************)
(* What the lexer makes of a text, proved of every text: its tokens are    *)
(* C's, the longest there are, what it leaves out of a text it accepts are *)
(* blanks and comments, every location is that of its character, and every *)
(* literal has the value that it spells.                                   *)
(***************************************************************************)
EXTENDS Lexer, SequenceLemmas

-----------------------------------------------------------------------------
(* Characters.                                                             *)

Texted == text \in Seq(STRING \ {"end"})

LEMMA AtFacts ==
  ASSUME Texted
  PROVE  /\ Len(text) \in Nat /\ DOMAIN text = 1..Len(text)
         /\ \A p \in 1..Len(text) : At(p) = text[p] /\ At(p) # "end"
         /\ \A p \in Nat : p > Len(text) => At(p) = "end"
  <1>1. Len(text) \in Nat /\ DOMAIN text = 1..Len(text) BY LenProperties DEF Texted
  <1>2. \A p \in 1..Len(text) : text[p] \in STRING \ {"end"} BY ElementOfSeq DEF Texted
  <1>3. \A p \in 1..Len(text) : p <= Len(text) BY <1>1
  <1>4. \A p \in Nat : p > Len(text) => ~(p <= Len(text)) BY <1>1
  <1> QED BY <1>1, <1>2, <1>3, <1>4 DEF At

Quotes == {"'", "\""}
Marks  == {".", "=", "!", "<", ">", "&", "|", "+", "-", "*", "/", "%", ",", ";", "(", ")", "[", "]", "{", "}"}

LEMMA DigitsAre == Digit = {"0", "1", "2", "3", "4", "5", "6", "7", "8", "9"}
  <1>1. /\ Digits[1] = "0" /\ Digits[2] = "1" /\ Digits[3] = "2" /\ Digits[4] = "3" /\ Digits[5] = "4"
        /\ Digits[6] = "5" /\ Digits[7] = "6" /\ Digits[8] = "7" /\ Digits[9] = "8" /\ Digits[10] = "9"
    BY DEF Digits
  <1>2. \A i \in 1..10 : i \in {1, 2, 3, 4, 5, 6, 7, 8, 9, 10} OBVIOUS
  <1>3. {1, 2, 3, 4, 5, 6, 7, 8, 9, 10} \subseteq 1..10 OBVIOUS
  <1>4. DigitsOf(10) = {Digits[i] : i \in {1, 2, 3, 4, 5, 6, 7, 8, 9, 10}} BY <1>2, <1>3 DEF DigitsOf
  <1> QED BY <1>1, <1>4 DEF Digit

(* What a token, a comment or a blank can start with.                      *)
LEMMA Starts ==
  /\ IdentStart \cap Digit = {} /\ IdentStart \cap Quotes = {} /\ IdentStart \cap Marks = {}
  /\ Digit \cap Quotes = {} /\ Digit \cap Marks = {} /\ Quotes \cap Marks = {}
  /\ "end" \notin IdentStart /\ "end" \notin Digit /\ "end" \notin IdentBody /\ "end" \notin Blanks
  /\ "." \notin IdentBody /\ "+" \notin IdentBody \cup {"."} /\ "-" \notin IdentBody \cup {"."}
  /\ "." \in Marks /\ "/" \in Marks /\ "/" \notin IdentBody \cup {"."}
  /\ Blanks \cap IdentBody = {} /\ Blanks \cap Quotes = {} /\ Blanks \cap Marks = {}
  BY DigitsAre DEF IdentStart, IdentBody, Letters, Blanks, Quotes, Marks

(* The longer punctuators come first.                                      *)
LEMMA PunctuatorFacts ==
  /\ DOMAIN Punctuators = 1..25
  /\ \A k \in 1..25 : /\ Len(Punctuators[k]) = (IF k = 1 THEN 3 ELSE IF k <= 7 THEN 2 ELSE 1)
                      /\ Punctuators[k][1] \in Marks
                      /\ k > 1 => Punctuators[k][1] # "."
  /\ Punctuators[1] = <<".", ".", ".">>
  <1>1. DOMAIN Punctuators = 1..25 BY DEF Punctuators
  <1>2. /\ Punctuators[1] = <<".", ".", ".">> /\ Punctuators[2] = <<"=", "=">> /\ Punctuators[3] = <<"!", "=">>
        /\ Punctuators[4] = <<"<", "=">> /\ Punctuators[5] = <<">", "=">> /\ Punctuators[6] = <<"&", "&">>
        /\ Punctuators[7] = <<"|", "|">>
    BY DEF Punctuators
  <1>3. /\ Punctuators[8] = <<"+">> /\ Punctuators[9] = <<"-">> /\ Punctuators[10] = <<"*">>
        /\ Punctuators[11] = <<"/">> /\ Punctuators[12] = <<"%">> /\ Punctuators[13] = <<"!">>
        /\ Punctuators[14] = <<"=">> /\ Punctuators[15] = <<"&">> /\ Punctuators[16] = <<"<">>
        /\ Punctuators[17] = <<">">> /\ Punctuators[18] = <<",">> /\ Punctuators[19] = <<";">>
    BY DEF Punctuators
  <1>4. /\ Punctuators[20] = <<"(">> /\ Punctuators[21] = <<")">> /\ Punctuators[22] = <<"[">>
        /\ Punctuators[23] = <<"]">> /\ Punctuators[24] = <<"{">> /\ Punctuators[25] = <<"}">>
    BY DEF Punctuators
  <1>5. "." \in Marks BY DEF Marks
  <1> DEFINE Is(k, n) == Len(Punctuators[k]) = n /\ Punctuators[k][1] \in Marks /\ Punctuators[k][1] # "."
  <1>6. ASSUME NEW c \in Marks, c # "."
        PROVE  \A k, d : /\ Punctuators[k] = <<c>> => Is(k, 1)
                         /\ Punctuators[k] = <<c, d>> => Is(k, 2)
    <2>1. Len(<<c>>) = 1 /\ <<c>>[1] = c OBVIOUS
    <2>2. \A d : Len(<<c, d>>) = 2 /\ <<c, d>>[1] = c OBVIOUS
    <2> QED BY <1>6, <2>1, <2>2, Zenon
  <1>7. \A c \in {"=", "!", "<", ">", "&", "|", "+", "-", "*", "/", "%", ",", ";", "(", ")", "[", "]", "{", "}"} :
          c \in Marks /\ c # "."
    BY DEF Marks
  <1> HIDE DEF Is
  <1>10. Len(Punctuators[1]) = 3 /\ Punctuators[1][1] = "." BY <1>2
  <1>11. \A k \in 2..7 : Is(k, 2)
    <2>1. \A k \in 2..7 : k = 2 \/ k = 3 \/ k = 4 \/ k = 5 \/ k = 6 \/ k = 7 OBVIOUS
    <2>2. Is(2, 2) /\ Is(3, 2) /\ Is(4, 2) /\ Is(5, 2) /\ Is(6, 2) /\ Is(7, 2) BY <1>2, <1>6, <1>7
    <2> QED BY <2>1, <2>2, Zenon
  <1>12. \A k \in 8..25 : Is(k, 1)
    <2>1. \A k \in 8..25 : \/ k = 8 \/ k = 9 \/ k = 10 \/ k = 11 \/ k = 12 \/ k = 13 \/ k = 14 \/ k = 15
                             \/ k = 16 \/ k = 17 \/ k = 18 \/ k = 19 \/ k = 20 \/ k = 21 \/ k = 22 \/ k = 23
                             \/ k = 24 \/ k = 25
      OBVIOUS
    <2>2. Is(8, 1) /\ Is(9, 1) /\ Is(10, 1) /\ Is(11, 1) /\ Is(12, 1) /\ Is(13, 1) BY <1>3, <1>6, <1>7
    <2>3. Is(14, 1) /\ Is(15, 1) /\ Is(16, 1) /\ Is(17, 1) /\ Is(18, 1) /\ Is(19, 1) BY <1>3, <1>6, <1>7
    <2>4. Is(20, 1) /\ Is(21, 1) /\ Is(22, 1) /\ Is(23, 1) /\ Is(24, 1) /\ Is(25, 1) BY <1>4, <1>6, <1>7
    <2> QED BY <2>1, <2>2, <2>3, <2>4, Zenon
  <1>13. ASSUME NEW k \in 1..25
         PROVE  /\ Len(Punctuators[k]) = (IF k = 1 THEN 3 ELSE IF k <= 7 THEN 2 ELSE 1)
                /\ Punctuators[k][1] \in Marks
                /\ k > 1 => Punctuators[k][1] # "."
    <2>1. CASE k = 1
      <3>1. ~(k > 1) BY <2>1
      <3> QED BY <1>5, <1>10, <2>1, <3>1, Zenon
    <2>2. CASE k \in 2..7
      <3>1. k # 1 /\ k <= 7 BY <2>2
      <3> QED BY <1>11, <2>2, <3>1 DEF Is
    <2>3. CASE k \in 8..25
      <3>1. k # 1 /\ ~(k <= 7) BY <2>3
      <3> QED BY <1>12, <2>3, <3>1 DEF Is
    <2>4. k = 1 \/ k \in 2..7 \/ k \in 8..25 OBVIOUS
    <2> QED BY <2>1, <2>2, <2>3, <2>4
  <1> QED BY <1>1, <1>2, <1>13

-----------------------------------------------------------------------------
(* Locations.                                                              *)

(* The line breaks before p, and the last of some places.                  *)
Breaks(p) == {r \in 1..p - 1 : text[r] = "\n"}
Latest(B) == CHOOSE r \in B : \A b \in B : b <= r

LEMMA BreaksFinite ==
  ASSUME NEW n \in Nat, NEW B \in SUBSET (1..n)
  PROVE  /\ IsFiniteSet(B) /\ Cardinality(B) \in Nat
         /\ B # {} => Latest(B) \in B /\ \A b \in B : b <= Latest(B)
         /\ \A m \in B : (\A b \in B : b <= m) => Latest(B) = m
  <1>1. IsFiniteSet(1..n) BY FS_Interval
  <1>2. IsFiniteSet(B) BY <1>1, FS_Subset
  <1>3. B # {} => \E r \in B : \A b \in B : b <= r BY LastPlace
  <1>4. \A m, r \in B : m <= r /\ r <= m => m = r OBVIOUS
  <1> QED BY <1>2, <1>3, <1>4, FS_CardinalityType DEF Latest

LEMMA LocationIs ==
  ASSUME NEW p
  PROVE  LocationOf(p) = <<1 + Cardinality(Breaks(p)), IF Breaks(p) = {} THEN p ELSE p - Latest(Breaks(p))>>
  BY DEF LocationOf, Breaks, Latest

LEMMA AdvanceLocates ==
  ASSUME NEW p \in 1..Len(text) + 1, Len(text) \in Nat, pos = p, Here = LocationOf(p),
         NEW q \in p..Len(text) + 1, AdvanceTo(q)
  PROVE  pos' = q /\ <<line', column'>> = LocationOf(q)
  <1> DEFINE C == Breaks(p)
             B == {r \in p..q - 1 : text[r] = "\n"}
             D == Breaks(q)
  <1>1. p \in Nat /\ q \in Nat /\ p >= 1 /\ p <= q /\ q - 1 \in Nat OBVIOUS
  <1>2. D = C \cup B /\ C \cap B = {} /\ \A c \in C : \A b \in B : c <= b BY <1>1 DEF Breaks
  <1>3. B \in SUBSET (1..q - 1) /\ C \in SUBSET (1..q - 1) /\ D \in SUBSET (1..q - 1) BY <1>1 DEF Breaks
  <1>4. line = 1 + Cardinality(C) /\ column = IF C = {} THEN p ELSE p - Latest(C)
    BY LocationIs DEF Here
  <1>5. /\ pos' = q /\ line' = line + Cardinality(B)
        /\ column' = IF B = {} THEN column + q - p ELSE q - Latest(B)
    BY DEF AdvanceTo, Latest
  <1>6. LocationOf(q) = <<1 + Cardinality(D), IF D = {} THEN q ELSE q - Latest(D)>> BY LocationIs
  <1> HIDE DEF B, C, D
  <1>7. IsFiniteSet(B) /\ IsFiniteSet(C) /\ Cardinality(B) \in Nat /\ Cardinality(C) \in Nat
    BY <1>1, <1>3, BreaksFinite
  <1>8. Cardinality(D) = Cardinality(C) + Cardinality(B)
    <2>1. Cardinality(C \cup B) = Cardinality(C) + Cardinality(B) - Cardinality(C \cap B) BY <1>7, FS_Union
    <2>2. Cardinality(C \cap B) = 0 BY <1>2, FS_EmptySet
    <2> QED BY <1>2, <1>7, <2>1, <2>2
  <1>9. line' = 1 + Cardinality(D) BY <1>4, <1>5, <1>7, <1>8
  <1>10. column' = IF D = {} THEN q ELSE q - Latest(D)
    <2>1. CASE B = {}
      <3>1. D = C BY <1>2, <2>1
      <3>2. CASE C = {} BY <1>1, <1>4, <1>5, <2>1, <3>1, <3>2
      <3>3. CASE C # {}
        <4>1. Latest(C) \in Nat
          <5>1. Latest(C) \in C BY <1>1, <1>3, <3>3, BreaksFinite
          <5>2. Latest(C) \in 1..q - 1 BY <1>3, <5>1
          <5> QED BY <5>2
        <4> QED BY <1>1, <1>4, <1>5, <2>1, <3>1, <3>3, <4>1
      <3> QED BY <3>2, <3>3
    <2>2. CASE B # {}
      <3>1. Latest(B) \in B /\ \A b \in B : b <= Latest(B) BY <1>1, <1>3, <2>2, BreaksFinite
      <3>2. Latest(B) \in D /\ \A d \in D : d <= Latest(B) BY <1>2, <3>1
      <3>3. Latest(D) = Latest(B) BY <1>1, <1>3, <3>2, BreaksFinite
      <3>4. D # {} BY <3>2
      <3> QED BY <1>5, <2>2, <3>3, <3>4
    <2> QED BY <2>1, <2>2
  <1> QED BY <1>5, <1>6, <1>9, <1>10

(* Two characters never have the same location.                            *)
LEMMA LocationsApart ==
  ASSUME NEW p \in Nat, NEW q \in Nat, 1 <= p, p < q
  PROVE  LocationOf(p) # LocationOf(q)
  <1> DEFINE C == Breaks(p)
             D == Breaks(q)
  <1>1. C \subseteq D /\ D \in SUBSET (1..q - 1) /\ C \in SUBSET (1..q - 1) BY DEF Breaks
  <1>2. LocationOf(p) = <<1 + Cardinality(C), IF C = {} THEN p ELSE p - Latest(C)>> BY LocationIs
  <1>3. LocationOf(q) = <<1 + Cardinality(D), IF D = {} THEN q ELSE q - Latest(D)>> BY LocationIs
  <1> HIDE DEF C, D
  <1>4. IsFiniteSet(D) /\ Cardinality(D) \in Nat /\ Cardinality(C) \in Nat
    <2>1. q - 1 \in Nat OBVIOUS
    <2> QED BY <1>1, <2>1, BreaksFinite
  <1>5. ASSUME LocationOf(p) = LocationOf(q) PROVE FALSE
    <2>1. 1 + Cardinality(C) = 1 + Cardinality(D)
          /\ (IF C = {} THEN p ELSE p - Latest(C)) = (IF D = {} THEN q ELSE q - Latest(D))
      BY <1>2, <1>3, <1>5
    <2>2. Cardinality(C) = Cardinality(D) BY <1>4, <2>1
    <2>3. C = D BY <1>1, <1>4, <2>2, FS_Subset
    <2>4. CASE D = {} BY <2>1, <2>3, <2>4
    <2>5. CASE D # {}
      <3>1. q - 1 \in Nat OBVIOUS
      <3>2. Latest(D) \in D BY <1>1, <2>5, <3>1, BreaksFinite
      <3>3. Latest(D) \in 1..q - 1 BY <1>1, <3>2
      <3>4. Latest(D) \in Nat BY <3>3
      <3> QED BY <2>1, <2>3, <2>5, <3>4
    <2> QED BY <2>4, <2>5
  <1> QED BY <1>5

-----------------------------------------------------------------------------
(* The sorts of tokens.                                                    *)

LEMMA StartsWithTwo ==
  ASSUME Texted, NEW p \in Nat, p >= 1, NEW c, NEW d
  PROVE  StartsWith(p, <<c, d>>) <=> p + 1 <= Len(text) /\ text[p] = c /\ text[p + 1] = d
  <1>1. Len(text) \in Nat BY AtFacts
  <1>2. Len(<<c, d>>) = 2 /\ <<c, d>>[1] = c /\ <<c, d>>[2] = d OBVIOUS
  <1>3. p + 2 - 1 = p + 1 OBVIOUS
  <1>4. ASSUME p + 1 <= Len(text)
        PROVE  SubSeq(text, p, p + 1) = <<text[p], text[p + 1]>>
    <2> DEFINE s == SubSeq(text, p, p + 1)
               t == <<text[p], text[p + 1]>>
    <2>1. p \in 1..Len(text) + 1 /\ p + 1 \in p - 1..Len(text) BY <1>1, <1>4
    <2>2. /\ s \in Seq(STRING \ {"end"}) /\ Len(s) = 2
          /\ \A i \in 1..2 : s[i] = text[p + i - 1]
      <3>1. Len(s) = p + 1 - p + 1 /\ s \in Seq(STRING \ {"end"}) BY <2>1, SubSeqProperties DEF Texted
      <3>2. p + 1 - p + 1 = 2 OBVIOUS
      <3>3. \A i \in 1..2 : s[i] = text[p + i - 1] BY <1>1, <1>4, <2>1, <3>1, <3>2, SubSeqProperties DEF Texted
      <3> QED BY <3>1, <3>2, <3>3
    <2>3. s[1] = text[p] /\ s[2] = text[p + 1]
      <3>1. 1 \in 1..2 /\ 2 \in 1..2 /\ p + 1 - 1 = p /\ p + 2 - 1 = p + 1 OBVIOUS
      <3> QED BY <2>2, <3>1
    <2>4. t[1] = text[p] /\ t[2] = text[p + 1] /\ Len(t) = 2 OBVIOUS
    <2>5. t \in Seq({text[p], text[p + 1]}) OBVIOUS
    <2> HIDE DEF s, t
    <2>6. \A i \in 1..2 : i = 1 \/ i = 2 OBVIOUS
    <2>7. \A i \in 1..Len(s) : s[i] = t[i] BY <2>2, <2>3, <2>4, <2>6
    <2>8. s = t BY <2>2, <2>4, <2>5, <2>7, SeqEqual
    <2> QED BY <2>8 DEF s, t
  <1>5. \A x, y : <<x, y>> = <<c, d>> <=> x = c /\ y = d OBVIOUS
  <1> QED BY <1>2, <1>3, <1>4, <1>5 DEF StartsWith

LEMMA StartsWithOne ==
  ASSUME Texted, NEW p \in 1..Len(text), NEW S, NEW s \in Seq(S), StartsWith(p, s)
  PROVE  \A m \in 1..Len(s) : p + m - 1 <= Len(text) /\ text[p + m - 1] = s[m]
  <1>1. Len(text) \in Nat /\ Len(s) \in Nat BY AtFacts, LenProperties
  <1>2. p + Len(s) - 1 <= Len(text) /\ SubSeq(text, p, p + Len(s) - 1) = s BY DEF StartsWith
  <1>3. p \in 1..Len(text) + 1 /\ p + Len(s) - 1 \in p - 1..Len(text) BY <1>1, <1>2
  <1>4. \A m \in 1..(p + Len(s) - 1) - p + 1 : SubSeq(text, p, p + Len(s) - 1)[m] = text[p + m - 1]
    BY <1>3, SubSeqProperties DEF Texted
  <1>5. (p + Len(s) - 1) - p + 1 = Len(s) BY <1>1
  <1> QED BY <1>1, <1>2, <1>4, <1>5

Numeric(i) == At(i) \in Digit \/ (At(i) = "." /\ At(i + 1) \in Digit)

LEMMA PunctuatorStarts ==
  ASSUME Texted, NEW i \in 1..Len(text), NEW k \in 1..25, StartsWith(i, Punctuators[k])
  PROVE  /\ At(i) \in Marks /\ ~Numeric(i)
         /\ i + Len(Punctuators[k]) \in i + 1..Len(text) + 1
         /\ SubSeq(text, i, i + Len(Punctuators[k]) - 1) = Punctuators[k]
  <1>1. Len(text) \in Nat BY AtFacts
  <1> DEFINE s == Punctuators[k]
  <1>2. Len(s) \in 1..3 /\ s[1] \in Marks /\ (k > 1 => s[1] # ".")
    <2>1. Len(s) = (IF k = 1 THEN 3 ELSE IF k <= 7 THEN 2 ELSE 1) /\ s[1] \in Marks /\ (k > 1 => s[1] # ".")
      BY PunctuatorFacts
    <2> QED BY <2>1
  <1>3. i + Len(s) - 1 <= Len(text) /\ SubSeq(text, i, i + Len(s) - 1) = s BY DEF StartsWith
  <1>4. \A m \in 1..Len(s) : text[i + m - 1] = s[m]
    <2>1. s \in Seq(STRING \ {"end"})
      <3> DEFINE n == i + Len(s) - 1
      <3>1. n \in Int /\ n <= Len(text) BY <1>2, <1>3
      <3>2. \A x \in 1..Len(text) : text[x] \in STRING \ {"end"} BY ElementOfSeq DEF Texted
      <3> HIDE DEF n
      <3>3. \A x \in i..n : text[x] \in STRING \ {"end"} BY <1>1, <3>1, <3>2
      <3>4. SubSeq(text, i, n) \in Seq(STRING \ {"end"}) BY <3>1, <3>3, SubSeqProperties
      <3> QED BY <1>3, <3>4 DEF n
    <2> QED BY <2>1, StartsWithOne
  <1> HIDE DEF s
  <1>5. text[i] = s[1]
    <2>1. 1 \in 1..Len(s) /\ i + 1 - 1 = i BY <1>2
    <2> QED BY <1>4, <2>1
  <1>6. At(i) = s[1] /\ At(i) \in Marks BY <1>2, <1>5, AtFacts
  <1>7. ~Numeric(i)
    <2>1. At(i) \notin Digit BY <1>6, Starts
    <2>2. ASSUME At(i) = "." PROVE At(i + 1) \notin Digit
      <3>1. k = 1 BY <1>2, <1>6, <2>2
      <3>2. s = <<".", ".", ".">> BY <3>1, PunctuatorFacts DEF s
      <3>3. 2 \in 1..Len(s) /\ i + 2 - 1 = i + 1 /\ s[2] = "." BY <3>2
      <3>4. text[i + 1] = "." BY <1>4, <3>3
      <3>5. i + 1 \in 1..Len(text) BY <1>1, <1>3, <3>2
      <3>6. At(i + 1) = "." BY <3>4, <3>5, AtFacts
      <3> QED BY <3>6, Starts
    <2> QED BY <2>1, <2>2 DEF Numeric
  <1>8. i + Len(s) \in i + 1..Len(text) + 1 BY <1>1, <1>2, <1>3
  <1> QED BY <1>3, <1>6, <1>7, <1>8 DEF s

(* A punctuator is one of the table. *)
LEMMA PunctuatorIs ==
  ASSUME Texted, NEW i \in 1..Len(text), NEW j \in i + 1..Len(text) + 1, IsPunctuator(i, j)
  PROVE  \E k \in 1..25 : StartsWith(i, Punctuators[k]) /\ j = i + Len(Punctuators[k])
  <1>1. Len(text) \in Nat BY AtFacts
  <1>2. PICK k \in 1..25 : SubSeq(text, i, j - 1) = Punctuators[k] BY PunctuatorFacts DEF IsPunctuator
  <1>3. Len(SubSeq(text, i, j - 1)) = j - i
    <2>1. i \in 1..Len(text) + 1 /\ j - 1 \in i - 1..Len(text) BY <1>1
    <2>2. Len(SubSeq(text, i, j - 1)) = (j - 1) - i + 1 BY <2>1, SubSeqProperties DEF Texted
    <2> QED BY <1>1, <2>2
  <1>4. i + Len(Punctuators[k]) - 1 = j - 1 /\ j - 1 <= Len(text) BY <1>1, <1>2, <1>3
  <1>5. StartsWith(i, Punctuators[k]) BY <1>2, <1>4 DEF StartsWith
  <1>6. j = i + Len(Punctuators[k]) BY <1>1, <1>2, <1>3
  <1> QED BY <1>5, <1>6

(* What a token starts with says of which sort it is.                      *)
LEMMA LexemeSorts ==
  ASSUME Texted, NEW i \in 1..Len(text), NEW j \in i + 1..Len(text) + 1
  PROVE  /\ At(i) \in IdentStart => (IsLexeme(i, j) <=> IsWord(i, j))
         /\ Numeric(i) => (IsLexeme(i, j) <=> IsNumber(i, j))
         /\ At(i) \in Quotes => (IsLexeme(i, j) <=> IsQuoted(i, j))
         /\ At(i) \notin IdentStart \cup Quotes /\ ~Numeric(i) => (IsLexeme(i, j) <=> IsPunctuator(i, j))
  <1>1. IsWord(i, j) => At(i) \in IdentStart BY DEF IsWord
  <1>2. IsNumber(i, j) => Numeric(i) BY DEF IsNumber, Numeric
  <1>3. IsQuoted(i, j) => At(i) \in Quotes BY DEF IsQuoted, Quotes
  <1>4. IsPunctuator(i, j) => At(i) \in Marks /\ ~Numeric(i) BY PunctuatorIs, PunctuatorStarts
  <1>5. Numeric(i) => At(i) \in Digit \cup Marks BY Starts DEF Numeric
  <1> QED BY <1>1, <1>2, <1>3, <1>4, <1>5, Starts DEF IsLexeme

LEMMA CommentStarts ==
  ASSUME Texted, NEW i \in 1..Len(text), NEW j, IsComment(i, j)
  PROVE  At(i) = "/"
  <1>1. i \in Nat /\ i >= 1 OBVIOUS
  <1>2. StartsWith(i, <<"/", "/">>) \/ StartsWith(i, <<"/", "*">>) BY DEF IsComment
  <1> QED BY <1>1, <1>2, StartsWithTwo, AtFacts

-----------------------------------------------------------------------------
(* One token.                                                              *)

Longest(i, j) == IsLexeme(i, j) /\ \A m \in j + 1..Len(text) + 1 : ~IsLexeme(i, m)
Stuck(i)      == \A m \in i + 1..Len(text) + 1 : ~IsLexeme(i, m) /\ ~IsComment(i, m)

TokenKinds == {"keyword", "identifier", "int", "float", "char", "string", "punctuator"}

(* The state the next token is looked for in.                              *)
Ahead == Texted /\ pos \in 1..Len(text)

LEMMA FirstPlace ==
  ASSUME NEW P \in SUBSET Nat, P # {}
  PROVE  \E i \in P : \A j \in P : i <= j
  <1>1. PICK i \in P : \A j \in P : <<j, i>> \notin OpToRel(<, Nat)
    BY WFMin, NatLessThanWellFounded
  <1>2. ASSUME NEW j \in P PROVE i <= j
    <2>1. i \in Nat /\ j \in Nat OBVIOUS
    <2>2. <<j, i>> \in Nat \X Nat /\ <<j, i>>[1] = j /\ <<j, i>>[2] = i BY <2>1
    <2>3. ~(j < i) BY <1>1, <2>2 DEF OpToRel
    <2> QED BY <2>1, <2>3
  <1> QED BY <1>2

LEMMA AheadFacts ==
  ASSUME Ahead
  PROVE  /\ Len(text) \in Nat /\ pos \in Nat /\ pos >= 1 /\ pos <= Len(text) /\ Peek = At(pos)
         /\ Peek # "end" /\ (StartsNumber <=> Numeric(pos))
  BY AtFacts DEF Ahead, Peek, StartsNumber, Numeric

LEMMA FirstOutside ==
  ASSUME Ahead, NEW chars, "end" \notin chars
  PROVE  \E q \in pos..Len(text) + 1 : At(q) \notin chars /\ \A r \in pos..q - 1 : At(r) \in chars
  <1> DEFINE P == {q \in pos..Len(text) + 1 : At(q) \notin chars}
  <1>1. Len(text) \in Nat /\ pos \in Nat /\ pos <= Len(text) BY AheadFacts
  <1>2. Len(text) + 1 \in P BY <1>1, AtFacts DEF Ahead
  <1>3. P \in SUBSET Nat BY <1>1
  <1>4. PICK q \in P : \A j \in P : q <= j BY <1>2, <1>3, FirstPlace
  <1>5. ASSUME NEW r \in pos..q - 1 PROVE At(r) \in chars
    <2>1. r \in pos..Len(text) + 1 /\ ~(q <= r) BY <1>1, <1>4
    <2> QED BY <1>4, <2>1
  <1> QED BY <1>4, <1>5

LEMMA WordLongest ==
  ASSUME Ahead, Word
  PROVE  \E q \in pos + 1..Len(text) + 1, kind \in TokenKinds : Make(kind, q) /\ Longest(pos, q)
  <1> DEFINE q == Past(pos, IdentBody)
  <1>1. q \in pos..Len(text) + 1 /\ At(q) \notin IdentBody /\ \A r \in pos..q - 1 : At(r) \in IdentBody
    BY FirstOutside, Starts DEF Past
  <1>2. Len(text) \in Nat /\ pos \in 1..Len(text) /\ At(pos) \in IdentStart BY AheadFacts DEF Word, Ahead
  <1>3. \E kind \in TokenKinds : Make(kind, q)
    <2>1. "keyword" \in TokenKinds /\ "identifier" \in TokenKinds BY DEF TokenKinds
    <2>2. Make("keyword", q) \/ Make("identifier", q) BY DEF Word
    <2> QED BY <2>1, <2>2
  <1> HIDE DEF q
  <1>4. q # pos BY <1>1, <1>2 DEF IdentBody
  <1>5. q \in pos + 1..Len(text) + 1 BY <1>1, <1>2, <1>4
  <1>6. IsWord(pos, q) BY <1>1, <1>2 DEF IsWord
  <1>7. ASSUME NEW m \in q + 1..Len(text) + 1 PROVE ~IsWord(pos, m)
    <2>1. q \in pos..m - 1 BY <1>2, <1>5
    <2> QED BY <1>1, <2>1 DEF IsWord
  <1>8. Longest(pos, q)
    <2>1. \A m \in q + 1..Len(text) + 1 : m \in pos + 1..Len(text) + 1 BY <1>2, <1>5
    <2>2. \A m \in pos + 1..Len(text) + 1 : IsLexeme(pos, m) <=> IsWord(pos, m) BY <1>2, LexemeSorts DEF Ahead
    <2> QED BY <1>5, <1>6, <1>7, <2>1, <2>2 DEF Longest
  <1> QED BY <1>3, <1>5, <1>8

LEMMA PunctuatorLongest ==
  ASSUME Ahead, ~Trivia, Punctuator, At(pos) \notin IdentStart \cup Quotes
  PROVE  \E q \in pos + 1..Len(text) + 1, kind \in TokenKinds : Make(kind, q) /\ Longest(pos, q)
  <1>1. Len(text) \in Nat /\ pos \in 1..Len(text) /\ ~Numeric(pos) BY AheadFacts DEF Punctuator, Ahead
  <1>2. Matches \subseteq 1..25 /\ Matches # {} BY PunctuatorFacts DEF Matches, Punctuator
  <1> DEFINE k == CHOOSE i \in Matches : \A j \in Matches : i <= j
             q == pos + Len(Punctuators[k])
  <1>3. k \in Matches /\ \A j \in Matches : k <= j
    <2>1. Matches \in SUBSET Nat BY <1>2
    <2> QED BY <1>2, <2>1, FirstPlace
  <1>4. Make("punctuator", q) BY DEF Punctuator
  <1> HIDE DEF k
  <1>5. k \in 1..25 /\ StartsWith(pos, Punctuators[k]) BY <1>2, <1>3 DEF Matches
  <1>6. q \in pos + 1..Len(text) + 1 /\ SubSeq(text, pos, q - 1) = Punctuators[k]
    <2>1. Texted BY DEF Ahead
    <2>2. /\ pos + Len(Punctuators[k]) \in pos + 1..Len(text) + 1
          /\ SubSeq(text, pos, pos + Len(Punctuators[k]) - 1) = Punctuators[k]
      BY <1>1, <1>5, <2>1, PunctuatorStarts
    <2>3. q - 1 = pos + (Len(Punctuators[k]) - 1)
      <3>1. Len(Punctuators[k]) = (IF k = 1 THEN 3 ELSE IF k <= 7 THEN 2 ELSE 1) BY <1>5, PunctuatorFacts
      <3>2. Len(Punctuators[k]) \in Nat BY <3>1
      <3> QED BY <1>1, <3>2
    <2> QED BY <2>2, <2>3
  <1>7. IsPunctuator(pos, q)
    <2>1. ~StartsWith(pos, <<"/", "/">>) /\ ~StartsWith(pos, <<"/", "*">>) BY DEF Trivia
    <2> QED BY <1>5, <1>6, <2>1, PunctuatorFacts DEF IsPunctuator
  <1>8. ASSUME NEW m \in q + 1..Len(text) + 1 PROVE ~IsPunctuator(pos, m)
    <2>1. m \in pos + 1..Len(text) + 1 BY <1>1, <1>6
    <2>2. SUFFICES ASSUME IsPunctuator(pos, m) PROVE FALSE OBVIOUS
    <2>3. PICK j \in 1..25 : StartsWith(pos, Punctuators[j]) /\ m = pos + Len(Punctuators[j])
      BY <1>1, <2>1, <2>2, PunctuatorIs DEF Ahead
    <2>4. k <= j BY <1>3, <2>3, PunctuatorFacts DEF Matches
    <2>5. /\ Len(Punctuators[k]) = (IF k = 1 THEN 3 ELSE IF k <= 7 THEN 2 ELSE 1)
          /\ Len(Punctuators[j]) = (IF j = 1 THEN 3 ELSE IF j <= 7 THEN 2 ELSE 1)
      BY <1>5, PunctuatorFacts
    <2>6. Len(Punctuators[j]) <= Len(Punctuators[k]) BY <1>5, <2>4, <2>5
    <2>7. Len(Punctuators[j]) \in Nat /\ Len(Punctuators[k]) \in Nat BY <2>5
    <2> QED BY <1>1, <2>3, <2>6, <2>7
  <1> HIDE DEF q
  <1>9. Longest(pos, q)
    <2>1. \A m \in q + 1..Len(text) + 1 : m \in pos + 1..Len(text) + 1 BY <1>1, <1>6
    <2>2. \A m \in pos + 1..Len(text) + 1 : IsLexeme(pos, m) <=> IsPunctuator(pos, m)
      BY <1>1, LexemeSorts DEF Ahead
    <2> QED BY <1>6, <1>7, <1>8, <2>1, <2>2 DEF Longest
  <1>10. "punctuator" \in TokenKinds BY DEF TokenKinds
  <1> QED BY <1>4, <1>6, <1>9, <1>10

LEMMA UnexpectedStuck ==
  ASSUME Ahead, ~Trivia, Unexpected
  PROVE  Report(pos + 1) /\ Stuck(pos)
  <1>1. Len(text) \in Nat /\ pos \in 1..Len(text) /\ ~Numeric(pos) /\ At(pos) \notin IdentStart \cup Quotes
    BY AheadFacts DEF Unexpected, Ahead, Quotes
  <1>2. ASSUME NEW m \in pos + 1..Len(text) + 1 PROVE ~IsLexeme(pos, m)
    <2>1. SUFFICES ASSUME IsPunctuator(pos, m) PROVE FALSE BY <1>1, LexemeSorts DEF Ahead
    <2>2. PICK k \in 1..25 : StartsWith(pos, Punctuators[k]) BY <1>1, <2>1, PunctuatorIs DEF Ahead
    <2> QED BY <2>2, PunctuatorFacts DEF Unexpected, Matches
  <1>3. \A m : ~IsComment(pos, m) BY DEF IsComment, Trivia
  <1> QED BY <1>2, <1>3 DEF Stuck, Unexpected

-----------------------------------------------------------------------------
(* Loops over the text, written as recursions that move forward.           *)

Forward(a, b, S, T) == \A n \in S : n \in a..b /\ T[n] \in n + 1..b

LEMMA MovesOn ==
  ASSUME NEW a \in Nat, NEW b \in Nat, a <= b, NEW S, NEW T, Forward(a, b, S, T)
  PROVE  \E r : r = [n \in a..b |-> IF n \in S THEN r[T[n]] ELSE n]
  <1> DEFINE Ok(f, n) == f[n] = IF n \in S THEN f[T[n]] ELSE n
             Has(k) == \E f \in [k..b -> a..b] : \A n \in k..b : Ok(f, n)
             P == {d \in 0..b - a : ~Has(b - d)}
  <1>0. \A n \in S : n \in a..b /\ T[n] \in n + 1..b BY DEF Forward
  <1>1. Has(b)
    <2> DEFINE f == [n \in b..b |-> b]
    <2>1. f \in [b..b -> a..b] OBVIOUS
    <2>2. \A n \in b..b : f[n] = n /\ n \notin S
      <3>1. \A n \in b..b : n = b OBVIOUS
      <3>2. b \notin S
        <4>1. SUFFICES ASSUME b \in S PROVE FALSE OBVIOUS
        <4>2. T[b] \in b + 1..b BY <1>0, <4>1
        <4> QED BY <4>2
      <3> QED BY <3>1, <3>2
    <2> QED BY <2>1, <2>2
  <1>2. ASSUME NEW k \in a..b - 1, Has(k + 1) PROVE Has(k)
    <2>1. PICK g \in [k + 1..b -> a..b] : \A n \in k + 1..b : Ok(g, n) BY <1>2
    <2> DEFINE v == IF k \in S THEN g[T[k]] ELSE k
               f == [n \in k..b |-> IF n = k THEN v ELSE g[n]]
    <2>2. k \in a..b /\ k \in Nat /\ \A n \in k..b : n = k \/ n \in k + 1..b OBVIOUS
    <2>3. k \in S => T[k] \in k + 1..b BY <1>0
    <2>4. v \in a..b BY <2>2, <2>3
    <2> HIDE DEF v
    <2>5. f \in [k..b -> a..b] BY <2>2, <2>4
    <2>6. k \in k..b /\ \A n \in k + 1..b : n \in k..b /\ n # k /\ n > k OBVIOUS
    <2>7. f[k] = v /\ \A n \in k + 1..b : f[n] = g[n] BY <2>6
    <2> HIDE DEF f
    <2>8. Ok(f, k) BY <2>3, <2>7 DEF v
    <2>9. ASSUME NEW n \in k + 1..b PROVE Ok(f, n)
      <3>1. Ok(g, n) /\ f[n] = g[n] BY <2>1, <2>7
      <3>2. n \in S => T[n] \in k + 1..b
        <4>1. n \in S => T[n] \in n + 1..b BY <1>0
        <4>2. n \in Int /\ n >= k + 1 OBVIOUS
        <4> QED BY <2>2, <4>1, <4>2
      <3> QED BY <2>7, <3>1, <3>2
    <2>10. \A n \in k..b : Ok(f, n) BY <2>2, <2>8, <2>9
    <2> HIDE DEF Ok
    <2> QED BY <2>5, <2>10
  <1> HIDE DEF Has
  <1>3. P = {}
    <2>1. SUFFICES ASSUME P # {} PROVE FALSE OBVIOUS
    <2>2. P \in SUBSET Nat OBVIOUS
    <2> HIDE DEF P
    <2>3. PICK d \in P : \A e \in P : d <= e BY <2>1, <2>2, FirstPlace
    <2> USE DEF P
    <2>4. d \in 0..b - a /\ ~Has(b - d) BY <2>3
    <2>5. d # 0
      <3>1. b - 0 = b OBVIOUS
      <3> QED BY <1>1, <2>4, <3>1
    <2>6. d - 1 \in 0..b - a /\ d - 1 \notin P BY <2>3, <2>4, <2>5
    <2>7. Has(b - (d - 1)) BY <2>6
    <2>8. b - (d - 1) = (b - d) + 1 /\ b - d \in a..b - 1 BY <2>4, <2>5
    <2> QED BY <1>2, <2>4, <2>7, <2>8
  <1>4. Has(a)
    <2>1. b - a \in 0..b - a /\ b - (b - a) = a OBVIOUS
    <2>2. b - a \notin P BY <1>3
    <2> HIDE DEF P
    <2>3. Has(b - (b - a)) BY <2>1, <2>2 DEF P
    <2> QED BY <2>1, <2>3
  <1>5. PICK f \in [a..b -> a..b] : \A n \in a..b : Ok(f, n) BY <1>4 DEF Has
  <1>6. f = [n \in a..b |-> IF n \in S THEN f[T[n]] ELSE n] BY <1>5
  <1> QED BY <1>6

-----------------------------------------------------------------------------
(* Numbers.                                                                *)

InNumber == IdentBody \cup {"."}
Signed(p) == ~Hex /\ At(p) = "e" /\ At(p + 1) \in {"+", "-"}

(* Where the loop of NumberToken ends when it is at p.                     *)
NumberEnd ==
  LET end[p \in pos..Len(text) + 1] ==
        IF At(p) \notin IdentBody \cup {"."} THEN p
        ELSE IF Signed(p) THEN end[p + 2] ELSE end[p + 1]
  IN  end

LEMMA NumberMade ==
  NumberToken => \E kind \in TokenKinds : Make(kind, NumberEnd[pos])
  BY DEF NumberToken, NumberEnd, Signed, TokenKinds

LEMMA NumberEquation ==
  ASSUME Ahead
  PROVE  \A p \in pos..Len(text) + 1 :
           NumberEnd[p] = IF At(p) \notin InNumber THEN p
                          ELSE IF Signed(p) THEN NumberEnd[p + 2] ELSE NumberEnd[p + 1]
  <1> DEFINE a == pos
             b == Len(text) + 1
             S == {p \in a..b : At(p) \in InNumber}
             T == [p \in S |-> IF Signed(p) THEN p + 2 ELSE p + 1]
  <1>1. Len(text) \in Nat /\ a \in Nat /\ b \in Nat /\ a <= b /\ a >= 1 BY AheadFacts
  <1>2. Forward(a, b, S, T)
    <2>1. ASSUME NEW p \in S PROVE p \in a..b /\ T[p] \in p + 1..b
      <3>1. p \in a..b /\ At(p) \in InNumber OBVIOUS
      <3>2. p # b
        <4>1. SUFFICES ASSUME p = b PROVE FALSE OBVIOUS
        <4>2. At(p) = "end" BY <1>1, <4>1, AtFacts DEF Ahead
        <4> QED BY <3>1, <4>2, Starts DEF InNumber
      <3>3. CASE Signed(p)
        <4>1. p + 1 # b
          <5>1. SUFFICES ASSUME p + 1 = b PROVE FALSE OBVIOUS
          <5>2. At(p + 1) = "end" BY <1>1, <5>1, AtFacts DEF Ahead
          <5> QED BY <3>3, <5>2 DEF Signed
        <4>2. T[p] = p + 2 BY <3>3
        <4> QED BY <1>1, <3>1, <3>2, <4>1, <4>2
      <3>4. CASE ~Signed(p)
        <4>1. T[p] = p + 1 BY <3>4
        <4> QED BY <1>1, <3>1, <3>2, <4>1
      <3> QED BY <3>3, <3>4
    <2> HIDE DEF S, T
    <2> QED BY <2>1 DEF Forward
  <1>3. \E r : r = [p \in a..b |-> IF p \in S THEN r[T[p]] ELSE p]
    <2> HIDE DEF a, b, S, T
    <2> QED BY <1>1, <1>2, MovesOn
  <1>4. ASSUME NEW r
        PROVE  [p \in a..b |-> IF p \in S THEN r[T[p]] ELSE p] =
               [p \in a..b |-> IF At(p) \notin InNumber THEN p
                               ELSE IF Signed(p) THEN r[p + 2] ELSE r[p + 1]]
    OBVIOUS
  <1>5. \E r : r = [p \in a..b |-> IF At(p) \notin InNumber THEN p
                                   ELSE IF Signed(p) THEN r[p + 2] ELSE r[p + 1]]
    <2>1. PICK r : r = [p \in a..b |-> IF p \in S THEN r[T[p]] ELSE p] BY <1>3
    <2> HIDE DEF a, b, S, T
    <2>2. r = [p \in a..b |-> IF At(p) \notin InNumber THEN p
                              ELSE IF Signed(p) THEN r[p + 2] ELSE r[p + 1]]
      BY <1>4, <2>1
    <2> QED BY <2>2
  <1>6. NumberEnd = [p \in a..b |-> IF At(p) \notin InNumber THEN p
                                    ELSE IF Signed(p) THEN NumberEnd[p + 2] ELSE NumberEnd[p + 1]]
    BY <1>5, Zenon DEF NumberEnd, InNumber
  <1> QED BY <1>6

(* From p on there are only characters of a number, with signs where they  *)
(* belong, up to e, where there are none.                                  *)
Signs == {"+", "-"}
NumberTo(p, e) ==
  /\ e \in p..Len(text) + 1 /\ At(e) \notin InNumber
  /\ e > p => ~(At(e) \in Signs /\ At(e - 1) = "e" /\ ~Hex)
  /\ \A r \in p..e - 1 : At(r) \in InNumber \/ (r > p /\ At(r) \in Signs /\ At(r - 1) = "e" /\ ~Hex)

LEMMA NumberRuns ==
  ASSUME Ahead
  PROVE  \A p \in pos..Len(text) + 1 : NumberTo(p, NumberEnd[p])
  <1> DEFINE b == Len(text) + 1
             P == {d \in 0..b - pos : ~NumberTo(b - d, NumberEnd[b - d])}
  <1>1. Len(text) \in Nat /\ pos \in Nat /\ b \in Nat /\ pos <= b /\ pos >= 1 BY AheadFacts
  <1>2. ASSUME NEW p \in pos..b, \A q \in p + 1..b : NumberTo(q, NumberEnd[q])
        PROVE  NumberTo(p, NumberEnd[p])
    <2>0. p \in Nat /\ p <= b BY <1>1
    <2>1. CASE At(p) \notin InNumber
      <3>1. NumberEnd[p] = p BY <2>1, NumberEquation
      <3> QED BY <2>0, <2>1, <3>1 DEF NumberTo
    <2>2. CASE At(p) \in InNumber /\ Signed(p)
      <3> DEFINE e == NumberEnd[p]
      <3>1. e = NumberEnd[p + 2] BY <2>2, NumberEquation
      <3>2. At(p + 1) \in Signs /\ At(p) = "e" /\ ~Hex BY <2>2 DEF Signed, Signs
      <3>3. p + 2 \in p + 1..b
        <4>1. p < b BY <1>1, <2>0, <2>2, AtFacts, Starts DEF Ahead, InNumber
        <4>2. p + 1 # b
          <5>1. SUFFICES ASSUME p + 1 = b PROVE FALSE OBVIOUS
          <5>2. At(p + 1) = "end" BY <1>1, <5>1, AtFacts DEF Ahead
          <5> QED BY <3>2, <5>2 DEF Signs
        <4> QED BY <1>1, <2>0, <4>1, <4>2
      <3>4. NumberTo(p + 2, e) BY <1>2, <3>1, <3>3
      <3> HIDE DEF e
      <3>5. e \in p + 2..b /\ At(e) \notin InNumber /\ e \in Nat BY <1>1, <2>0, <3>4 DEF NumberTo
      <3>6. ~(At(e) \in Signs /\ At(e - 1) = "e" /\ ~Hex)
        <4>1. CASE e > p + 2 BY <3>4, <4>1 DEF NumberTo
        <4>2. CASE e = p + 2
          <5>1. e - 1 = p + 1 BY <2>0, <4>2
          <5> QED BY <3>2, <5>1 DEF Signs
        <4> QED BY <2>0, <3>5, <4>1, <4>2
      <3>7. ASSUME NEW r \in p..e - 1
            PROVE  At(r) \in InNumber \/ (r > p /\ At(r) \in Signs /\ At(r - 1) = "e" /\ ~Hex)
        <4>1. CASE r = p BY <2>2, <4>1
        <4>2. CASE r = p + 1
          <5>1. r - 1 = p /\ r > p BY <2>0, <4>2
          <5> QED BY <3>2, <4>2, <5>1
        <4>3. CASE r > p + 1
          <5>1. r \in p + 2..e - 1 /\ r > p BY <2>0, <3>5, <4>3
          <5> QED BY <3>4, <5>1 DEF NumberTo
        <4> QED BY <2>0, <3>5, <4>1, <4>2, <4>3
      <3>8. e \in p..b BY <2>0, <3>5
      <3> QED BY <3>5, <3>6, <3>7, <3>8 DEF NumberTo, e
    <2>3. CASE At(p) \in InNumber /\ ~Signed(p)
      <3> DEFINE e == NumberEnd[p]
      <3>1. e = NumberEnd[p + 1] BY <2>3, NumberEquation
      <3>3. p + 1 \in p + 1..b
        <4>1. p < b BY <1>1, <2>0, <2>3, AtFacts, Starts DEF Ahead, InNumber
        <4> QED BY <1>1, <2>0, <4>1
      <3>4. NumberTo(p + 1, e) BY <1>2, <3>1, <3>3
      <3> HIDE DEF e
      <3>5. e \in p + 1..b /\ At(e) \notin InNumber /\ e \in Nat BY <1>1, <2>0, <3>4 DEF NumberTo
      <3>6. ~(At(e) \in Signs /\ At(e - 1) = "e" /\ ~Hex)
        <4>1. CASE e > p + 1 BY <3>4, <4>1 DEF NumberTo
        <4>2. CASE e = p + 1
          <5>1. e - 1 = p BY <2>0, <4>2
          <5> QED BY <2>3, <4>2, <5>1 DEF Signs, Signed
        <4> QED BY <2>0, <3>5, <4>1, <4>2
      <3>7. ASSUME NEW r \in p..e - 1
            PROVE  At(r) \in InNumber \/ (r > p /\ At(r) \in Signs /\ At(r - 1) = "e" /\ ~Hex)
        <4>1. CASE r = p BY <2>3, <4>1
        <4>2. CASE r > p
          <5>1. r \in p + 1..e - 1 BY <2>0, <3>5, <4>2
          <5> QED BY <3>4, <4>2, <5>1 DEF NumberTo
        <4> QED BY <2>0, <3>5, <4>1, <4>2
      <3>8. e \in p..b BY <2>0, <3>5
      <3> QED BY <3>5, <3>6, <3>7, <3>8 DEF NumberTo, e
    <2> QED BY <2>1, <2>2, <2>3
  <1>3. P = {}
    <2>1. SUFFICES ASSUME P # {} PROVE FALSE OBVIOUS
    <2>2. P \in SUBSET Nat OBVIOUS
    <2> HIDE DEF P
    <2>3. PICK d \in P : \A e \in P : d <= e BY <2>1, <2>2, FirstPlace
    <2> USE DEF P
    <2>4. d \in 0..b - pos /\ ~NumberTo(b - d, NumberEnd[b - d]) BY <2>3
    <2>5. ASSUME NEW q \in b - d + 1..b PROVE NumberTo(q, NumberEnd[q])
      <3>1. b - q \in 0..b - pos /\ ~(d <= b - q) /\ b - (b - q) = q BY <1>1, <2>4
      <3>2. b - q \notin P BY <2>3, <3>1
      <3> QED BY <3>1, <3>2
    <2>6. b - d \in pos..b BY <1>1, <2>4
    <2>7. \A q \in (b - d) + 1..b : q \in b - d + 1..b BY <1>1, <2>4
    <2> QED BY <1>2, <2>4, <2>5, <2>6, <2>7
  <1>4. ASSUME NEW p \in pos..b PROVE NumberTo(p, NumberEnd[p])
    <2>1. b - p \in 0..b - pos /\ b - (b - p) = p BY <1>1
    <2> QED BY <1>3, <2>1
  <1> QED BY <1>4

LEMMA HexStarts ==
  ASSUME Ahead
  PROVE  Hex <=> StartsWith(pos, <<"0", "x">>)
  <1>1. Len(text) \in Nat /\ pos \in Nat /\ pos >= 1 /\ pos <= Len(text) /\ Peek = At(pos) BY AheadFacts
  <1>2. StartsWith(pos, <<"0", "x">>) <=> pos + 1 <= Len(text) /\ text[pos] = "0" /\ text[pos + 1] = "x"
    BY <1>1, StartsWithTwo DEF Ahead
  <1>3. pos \in 1..Len(text) /\ (pos + 1 <= Len(text) => pos + 1 \in 1..Len(text)) BY <1>1
  <1>4. At(pos + 1) = "x" => pos + 1 <= Len(text)
    <2>1. ~(pos + 1 <= Len(text)) => pos + 1 > Len(text) /\ pos + 1 \in Nat BY <1>1
    <2>2. ~(pos + 1 <= Len(text)) => At(pos + 1) = "end" BY <2>1, AtFacts DEF Ahead
    <2> QED BY <2>2
  <1> QED BY <1>1, <1>2, <1>3, <1>4, AtFacts DEF Hex, Ahead

LEMMA NumberLongest ==
  ASSUME Ahead, NumberToken
  PROVE  \E q \in pos + 1..Len(text) + 1, kind \in TokenKinds : Make(kind, q) /\ Longest(pos, q)
  <1> DEFINE q == NumberEnd[pos]
  <1>1. Len(text) \in Nat /\ pos \in 1..Len(text) /\ pos \in Nat /\ pos <= Len(text) /\ Numeric(pos)
    BY AheadFacts DEF NumberToken, Ahead
  <1>2. NumberTo(pos, q) BY <1>1, NumberRuns
  <1>3. PICK kind \in TokenKinds : Make(kind, q) BY NumberMade
  <1> HIDE DEF q
  <1>4. At(pos) \in InNumber BY <1>1 DEF Numeric, InNumber, IdentBody
  <1>5. q \in pos + 1..Len(text) + 1 BY <1>1, <1>2, <1>4 DEF NumberTo
  <1>6. At(pos) = "." => pos + 1 < q
    <2>1. SUFFICES ASSUME At(pos) = "." PROVE q # pos + 1 BY <1>1, <1>5
    <2>2. At(pos + 1) \in Digit BY <1>1, <2>1, Starts DEF Numeric
    <2>3. At(pos + 1) \in InNumber BY <2>2 DEF InNumber, IdentBody
    <2> QED BY <1>2, <2>3 DEF NumberTo
  <1>7. IsNumber(pos, q)
    <2>1. At(pos) \in Digit \/ (At(pos) = "." /\ pos + 1 < q /\ At(pos + 1) \in Digit) BY <1>1, <1>6 DEF Numeric
    <2>2. \A r \in pos + 1..q - 1 : r \in pos..q - 1 BY <1>1, <1>5
    <2> QED BY <1>2, <2>1, <2>2, HexStarts DEF NumberTo, IsNumber, InNumber, Signs
  <1>8. ASSUME NEW m \in q + 1..Len(text) + 1 PROVE ~IsNumber(pos, m)
    <2>1. q \in pos + 1..m - 1 /\ q > pos BY <1>1, <1>5
    <2>2. At(q) \notin InNumber /\ ~(At(q) \in Signs /\ At(q - 1) = "e" /\ ~Hex) BY <1>2, <2>1 DEF NumberTo
    <2> QED BY <2>1, <2>2, HexStarts DEF IsNumber, InNumber, Signs
  <1>9. Longest(pos, q)
    <2>1. \A m \in q + 1..Len(text) + 1 : m \in pos + 1..Len(text) + 1 BY <1>1, <1>5
    <2>2. \A m \in pos + 1..Len(text) + 1 : IsLexeme(pos, m) <=> IsNumber(pos, m) BY <1>1, LexemeSorts DEF Ahead
    <2> QED BY <1>5, <1>7, <1>8, <2>1, <2>2 DEF Longest
  <1> QED BY <1>3, <1>5, <1>9

-----------------------------------------------------------------------------
(* Characters and strings.                                                 *)

(* What holds of a place when it holds of all places after it, holds.      *)
LEMMA Backwards ==
  ASSUME NEW a \in Nat, NEW b \in Nat, NEW G,
         \A p \in a..b : (\A q \in p + 1..b : q \in G) => p \in G
  PROVE  \A p \in a..b : p \in G
  <1> DEFINE P == {d \in 0..b - a : b - d \notin G}
  <1>1. P = {}
    <2>1. SUFFICES ASSUME P # {} PROVE FALSE OBVIOUS
    <2>2. P \in SUBSET Nat OBVIOUS
    <2> HIDE DEF P
    <2>3. PICK d \in P : \A e \in P : d <= e BY <2>1, <2>2, FirstPlace
    <2> USE DEF P
    <2>4. d \in 0..b - a /\ b - d \notin G BY <2>3
    <2>5. ASSUME NEW q \in (b - d) + 1..b PROVE q \in G
      <3>1. b - q \in 0..b - a /\ ~(d <= b - q) /\ b - (b - q) = q BY <2>4
      <3>2. b - q \notin P BY <2>3, <3>1
      <3> QED BY <3>1, <3>2
    <2>6. b - d \in a..b BY <2>4
    <2> QED BY <2>4, <2>5, <2>6
  <1>2. ASSUME NEW p \in a..b PROVE p \in G
    <2>1. b - p \in 0..b - a /\ b - (b - p) = p OBVIOUS
    <2> QED BY <1>1, <2>1
  <1> QED BY <1>2

(* The backslashes right before r.                                         *)
Slashes(i, r) == {b \in i + 1..r - 1 : \A c \in b..r - 1 : At(c) = "\\"}

LEMMA EscapedNext ==
  ASSUME NEW i \in Nat
  PROVE  /\ ~Escaped(i, i + 1)
         /\ \A p \in Nat : p > i => (Escaped(i, p + 1) <=> At(p) = "\\" /\ ~Escaped(i, p))
  <1>1. \A r : Escaped(i, r) <=> Cardinality(Slashes(i, r)) % 2 = 1 BY DEF Escaped, Slashes
  <1>2. ~Escaped(i, i + 1)
    <2>1. Slashes(i, i + 1) = {} BY DEF Slashes
    <2>2. Cardinality(Slashes(i, i + 1)) = 0 BY <2>1, FS_EmptySet
    <2> QED BY <1>1, <2>2
  <1>3. ASSUME NEW p \in Nat, p > i
        PROVE  Escaped(i, p + 1) <=> At(p) = "\\" /\ ~Escaped(i, p)
    <2>1. CASE At(p) # "\\"
      <3>1. \A b \in i + 1..p + 1 - 1 : p \in b..p + 1 - 1 OBVIOUS
      <3>2. Slashes(i, p + 1) = {} BY <2>1, <3>1 DEF Slashes
      <3>3. Cardinality(Slashes(i, p + 1)) = 0 BY <3>2, FS_EmptySet
      <3> QED BY <1>1, <2>1, <3>3
    <2>2. CASE At(p) = "\\"
      <3>1. Slashes(i, p + 1) = Slashes(i, p) \cup {p}
        <4>1. \A b \in i + 1..p : b \in Nat /\ b <= p /\ (b # p => b \in i + 1..p - 1) OBVIOUS
        <4>2. \A b \in Nat : b <= p => \A c \in b..p : c = p \/ c \in b..p - 1 OBVIOUS
        <4>3. \A b \in i + 1..p - 1 : b \in i + 1..p /\ \A c \in b..p - 1 : c \in b..p OBVIOUS
        <4>4. p + 1 - 1 = p OBVIOUS
        <4>5. p \in i + 1..p /\ \A c \in p..p : c = p
          <5>1. i \in Int /\ p \in Int /\ i + 1 <= p BY <1>3
          <5>2. p \in i + 1..p BY <5>1
          <5>3. \A c \in p..p : c = p BY <5>1
          <5> QED BY <5>2, <5>3
        <4>6. Slashes(i, p + 1) = {b \in i + 1..p : \A c \in b..p : At(c) = "\\"} BY <4>4 DEF Slashes
        <4> QED BY <2>2, <4>1, <4>2, <4>3, <4>5, <4>6 DEF Slashes
      <3>2. p \notin Slashes(i, p) BY DEF Slashes
      <3>3. IsFiniteSet(Slashes(i, p)) /\ Cardinality(Slashes(i, p)) \in Nat
        <4>1. IsFiniteSet(i + 1..p - 1) BY FS_Interval
        <4>2. Slashes(i, p) \subseteq i + 1..p - 1 BY DEF Slashes
        <4>3. IsFiniteSet(Slashes(i, p)) BY <4>1, <4>2, FS_Subset
        <4> QED BY <4>3, FS_CardinalityType
      <3>4. Cardinality(Slashes(i, p + 1)) = Cardinality(Slashes(i, p)) + 1
        BY <3>1, <3>2, <3>3, FS_AddElement
      <3>5. \A n \in Nat : (n + 1) % 2 = 1 <=> ~(n % 2 = 1) OBVIOUS
      <3> QED BY <1>1, <2>2, <3>3, <3>4, <3>5
    <2> QED BY <2>1, <2>2
  <1> QED BY <1>2, <1>3

Stops == {Peek, "\n", "end"}

(* Where the loop of Quoted ends when it is at p.                          *)
Closing ==
  LET close[p \in pos + 1..Len(text) + 1] ==
        IF At(p) \in {Peek, "\n", "end"} THEN p
        ELSE IF At(p) = "\\" /\ p < Len(text) THEN close[p + 2] ELSE close[p + 1]
  IN  close

LEMMA QuotedMade ==
  ASSUME Quoted
  PROVE  /\ Peek \in Quotes
         /\ At(Closing[pos + 1]) # Peek => Report(Closing[pos + 1])
         /\ At(Closing[pos + 1]) = Peek => \E kind \in TokenKinds : Make(kind, Closing[pos + 1] + 1)
  BY DEF Quoted, Closing, TokenKinds, Quotes

LEMMA ClosingEquation ==
  ASSUME Ahead
  PROVE  \A p \in pos + 1..Len(text) + 1 :
           Closing[p] = IF At(p) \in Stops THEN p
                        ELSE IF At(p) = "\\" /\ p < Len(text) THEN Closing[p + 2] ELSE Closing[p + 1]
  <1> DEFINE a == pos + 1
             b == Len(text) + 1
             S == {p \in a..b : At(p) \notin Stops}
             T == [p \in S |-> IF At(p) = "\\" /\ p < Len(text) THEN p + 2 ELSE p + 1]
  <1>1. Len(text) \in Nat /\ a \in Nat /\ b \in Nat /\ a <= b /\ a >= 1 BY AheadFacts
  <1>2. Forward(a, b, S, T)
    <2>1. ASSUME NEW p \in S PROVE p \in a..b /\ T[p] \in p + 1..b
      <3>1. p \in a..b /\ At(p) \notin Stops OBVIOUS
      <3>2. p # b
        <4>1. SUFFICES ASSUME p = b PROVE FALSE OBVIOUS
        <4>2. At(p) = "end" BY <1>1, <4>1, AtFacts DEF Ahead
        <4> QED BY <3>1, <4>2 DEF Stops
      <3>3. CASE At(p) = "\\" /\ p < Len(text)
        <4>1. T[p] = p + 2 BY <3>3
        <4> QED BY <1>1, <3>1, <3>2, <3>3, <4>1
      <3>4. CASE ~(At(p) = "\\" /\ p < Len(text))
        <4>1. T[p] = p + 1 BY <3>4
        <4> QED BY <1>1, <3>1, <3>2, <4>1
      <3> QED BY <3>3, <3>4
    <2> HIDE DEF S, T
    <2> QED BY <2>1 DEF Forward
  <1>3. \E r : r = [p \in a..b |-> IF p \in S THEN r[T[p]] ELSE p]
    <2> HIDE DEF a, b, S, T
    <2> QED BY <1>1, <1>2, MovesOn
  <1>4. ASSUME NEW r
        PROVE  [p \in a..b |-> IF p \in S THEN r[T[p]] ELSE p] =
               [p \in a..b |-> IF At(p) \in Stops THEN p
                               ELSE IF At(p) = "\\" /\ p < Len(text) THEN r[p + 2] ELSE r[p + 1]]
    OBVIOUS
  <1>5. \E r : r = [p \in a..b |-> IF At(p) \in Stops THEN p
                                   ELSE IF At(p) = "\\" /\ p < Len(text) THEN r[p + 2] ELSE r[p + 1]]
    <2>1. PICK r : r = [p \in a..b |-> IF p \in S THEN r[T[p]] ELSE p] BY <1>3
    <2> HIDE DEF a, b, S, T
    <2>2. r = [p \in a..b |-> IF At(p) \in Stops THEN p
                              ELSE IF At(p) = "\\" /\ p < Len(text) THEN r[p + 2] ELSE r[p + 1]]
      BY <1>4, <2>1
    <2> QED BY <2>2
  <1>6. Closing = [p \in a..b |-> IF At(p) \in Stops THEN p
                                  ELSE IF At(p) = "\\" /\ p < Len(text) THEN Closing[p + 2]
                                       ELSE Closing[p + 1]]
    BY <1>5, Zenon DEF Closing, Stops
  <1> QED BY <1>6

(* From p on every quote and line break up to e is escaped, and e is the   *)
(* first one that is not, or the end.                                      *)
QuotedTo(p, e) ==
  /\ e \in p..Len(text) + 1 /\ At(e) \in Stops
  /\ At(e) = "end" \/ ~Escaped(pos, e)
  /\ \A r \in p..e - 1 : At(r) \in {Peek, "\n"} => Escaped(pos, r)

LEMMA QuotedRuns ==
  ASSUME Ahead, Peek \in Quotes
  PROVE  QuotedTo(pos + 1, Closing[pos + 1])
  <1> DEFINE b == Len(text) + 1
             G == {p \in pos + 1..b : (p = b \/ ~Escaped(pos, p)) => QuotedTo(p, Closing[p])}
  <1>1. Len(text) \in Nat /\ pos \in Nat /\ b \in Nat /\ pos < b /\ pos >= 1 /\ pos + 1 \in Nat BY AheadFacts
  <1>2. ASSUME NEW p \in pos + 1..b, \A q \in p + 1..b : q \in G
        PROVE  p \in G
    <2>0. p \in Nat /\ p <= b /\ p > pos BY <1>1
    <2>1. SUFFICES ASSUME p = b \/ ~Escaped(pos, p) PROVE QuotedTo(p, Closing[p]) OBVIOUS
    <2>2. p = b => At(p) = "end" BY <1>1, AtFacts DEF Ahead
    <2>3. CASE At(p) \in Stops
      <3>1. Closing[p] = p BY <2>3, ClosingEquation
      <3>2. p \in p..b /\ \A r \in p..p - 1 : FALSE BY <2>0, <1>1
      <3> QED BY <2>1, <2>2, <2>3, <3>1, <3>2 DEF QuotedTo
    <2>4. CASE At(p) \notin Stops /\ At(p) = "\\" /\ p < Len(text)
      <3> DEFINE e == Closing[p]
      <3>1. e = Closing[p + 2] BY <2>4, ClosingEquation
      <3>2. ~Escaped(pos, p) BY <1>1, <2>1, <2>4
      <3>3. Escaped(pos, p + 1) BY <1>1, <2>0, <2>4, <3>2, EscapedNext
      <3>4. ~Escaped(pos, p + 2)
        <4>1. p + 1 \in Nat /\ p + 1 > pos /\ p + 1 + 1 = p + 2 BY <1>1, <2>0
        <4> QED BY <1>1, <3>3, <4>1, EscapedNext
      <3>5. p + 2 \in p + 1..b BY <1>1, <2>0, <2>4
      <3>6. QuotedTo(p + 2, e) BY <1>2, <3>1, <3>4, <3>5
      <3> HIDE DEF e
      <3>7. e \in p + 2..b /\ e \in Nat BY <1>1, <2>0, <3>6 DEF QuotedTo
      <3>8. ASSUME NEW r \in p..e - 1, At(r) \in {Peek, "\n"} PROVE Escaped(pos, r)
        <4>1. r = p \/ r = p + 1 \/ r \in p + 2..e - 1 BY <2>0, <3>7
        <4>2. r # p BY <2>4, <3>8 DEF Stops
        <4> QED BY <3>3, <3>6, <3>8, <4>1, <4>2 DEF QuotedTo
      <3>9. e \in p..b BY <1>1, <2>0, <3>7
      <3> QED BY <3>6, <3>8, <3>9 DEF QuotedTo, e
    <2>5. CASE At(p) \notin Stops /\ ~(At(p) = "\\" /\ p < Len(text))
      <3> DEFINE e == Closing[p]
      <3>1. e = Closing[p + 1] BY <2>5, ClosingEquation
      <3>2. p # b BY <2>2, <2>5 DEF Stops
      <3>3. p + 1 \in p + 1..b BY <1>1, <2>0, <3>2
      <3>4. p + 1 = b \/ ~Escaped(pos, p + 1)
        <4>1. CASE At(p) = "\\" BY <1>1, <2>0, <2>5, <3>2, <4>1
        <4>2. CASE At(p) # "\\" BY <1>1, <2>0, <4>2, EscapedNext
        <4> QED BY <4>1, <4>2
      <3>6. QuotedTo(p + 1, e) BY <1>2, <3>1, <3>3, <3>4
      <3> HIDE DEF e
      <3>7. e \in p + 1..b /\ e \in Nat BY <1>1, <2>0, <3>6 DEF QuotedTo
      <3>8. ASSUME NEW r \in p..e - 1, At(r) \in {Peek, "\n"} PROVE Escaped(pos, r)
        <4>1. r = p \/ r \in p + 1..e - 1 BY <2>0, <3>7
        <4>2. r # p BY <2>5, <3>8 DEF Stops
        <4> QED BY <3>6, <3>8, <4>1, <4>2 DEF QuotedTo
      <3>9. e \in p..b BY <1>1, <2>0, <3>7
      <3> QED BY <3>6, <3>8, <3>9 DEF QuotedTo, e
    <2> QED BY <2>3, <2>4, <2>5
  <1>3. \A p \in pos + 1..b : p \in G
    <2> HIDE DEF G, b
    <2> QED BY <1>1, <1>2, Backwards
  <1>4. pos + 1 \in pos + 1..b BY <1>1
  <1>5. ~Escaped(pos, pos + 1) BY <1>1, EscapedNext
  <1> QED BY <1>3, <1>4, <1>5

LEMMA QuotedLongest ==
  ASSUME Ahead, Quoted
  PROVE  \/ \E q \in pos + 1..Len(text) + 1, kind \in TokenKinds : Make(kind, q) /\ Longest(pos, q)
         \/ \E q \in pos + 1..Len(text) + 1 : Report(q) /\ Stuck(pos)
  <1> DEFINE e == Closing[pos + 1]
  <1>1. Len(text) \in Nat /\ pos \in 1..Len(text) /\ pos \in Nat /\ Peek = At(pos) BY AheadFacts DEF Ahead
  <1>2. Peek \in Quotes /\ At(pos) \in Quotes BY <1>1, QuotedMade
  <1>3. QuotedTo(pos + 1, e) BY <1>2, QuotedRuns
  <1>4. /\ At(e) # Peek => Report(e)
        /\ At(e) = Peek => \E kind \in TokenKinds : Make(kind, e + 1)
    BY QuotedMade
  <1> HIDE DEF e
  <1>5. e \in pos + 1..Len(text) + 1 /\ e \in Nat BY <1>1, <1>3 DEF QuotedTo
  <1>6. At(e) = "end" <=> e = Len(text) + 1
    <2>1. e = Len(text) + 1 => At(e) = "end" BY <1>1, AtFacts DEF Ahead
    <2>2. e # Len(text) + 1 => e \in 1..Len(text) BY <1>1, <1>5
    <2> QED BY <2>1, <2>2, AtFacts DEF Ahead
  <1>7. \A m \in pos + 1..Len(text) + 1 : IsLexeme(pos, m) <=> IsQuoted(pos, m) BY <1>1, <1>2, LexemeSorts DEF Ahead
  <1>8. Peek # "end" /\ Peek # "\n" BY <1>2 DEF Quotes
  <1>9. CASE At(e) = Peek
    <2>1. e \in pos + 1..Len(text) BY <1>1, <1>5, <1>6, <1>8, <1>9
    <2>2. e + 1 \in pos + 1..Len(text) + 1 /\ e + 1 > pos + 1 /\ (e + 1) - 1 = e BY <1>1, <2>1
    <2>3. ~Escaped(pos, e) BY <1>3, <1>8, <1>9 DEF QuotedTo
    <2>4. IsQuoted(pos, e + 1)
      <3>1. \A r \in pos + 1..(e + 1) - 2 : r \in pos + 1..e - 1 BY <1>1, <2>1
      <3>2. \A r \in pos + 1..(e + 1) - 2 : At(r) \in {At(pos), "\n"} => Escaped(pos, r)
        BY <1>1, <1>3, <3>1 DEF QuotedTo
      <3>3. At((e + 1) - 1) = At(pos) /\ ~Escaped(pos, (e + 1) - 1) BY <1>1, <1>9, <2>2, <2>3
      <3> QED BY <1>2, <2>2, <3>2, <3>3 DEF IsQuoted, Quotes
    <2>5. ASSUME NEW m \in e + 1 + 1..Len(text) + 1 PROVE m \in pos + 1..Len(text) + 1 /\ ~IsQuoted(pos, m)
      <3>1. e \in pos + 1..m - 2 /\ m \in pos + 1..Len(text) + 1 BY <1>1, <2>1
      <3> QED BY <1>1, <1>9, <2>3, <3>1 DEF IsQuoted
    <2>6. Longest(pos, e + 1) BY <1>7, <2>2, <2>4, <2>5 DEF Longest
    <2> QED BY <1>4, <1>9, <2>2, <2>6
  <1>10. CASE At(e) # Peek
    <2>1. ASSUME NEW m \in pos + 1..Len(text) + 1 PROVE ~IsQuoted(pos, m)
      <3>1. SUFFICES ASSUME IsQuoted(pos, m) PROVE FALSE OBVIOUS
      <3>2. m \in pos + 2..Len(text) + 1 /\ At(m - 1) = Peek /\ ~Escaped(pos, m - 1)
        <4>1. m > pos + 1 BY <3>1 DEF IsQuoted
        <4>2. m \in pos + 2..Len(text) + 1 BY <1>1, <4>1
        <4> QED BY <1>1, <3>1, <4>2 DEF IsQuoted
      <3>3. CASE m - 1 < e
        <4>1. m - 1 \in pos + 1..e - 1 BY <1>1, <1>5, <3>2, <3>3
        <4> QED BY <1>3, <3>2, <4>1 DEF QuotedTo
      <3>4. CASE m - 1 = e BY <1>10, <3>2, <3>4
      <3>5. CASE m - 1 > e
        <4>1. e \in pos + 1..m - 2 /\ e # Len(text) + 1 BY <1>1, <1>5, <3>2, <3>5
        <4>2. At(e) = "\n" BY <1>3, <1>6, <1>10, <4>1 DEF QuotedTo, Stops
        <4>3. ~Escaped(pos, e) BY <1>3, <4>2 DEF QuotedTo
        <4> QED BY <3>1, <4>1, <4>2, <4>3 DEF IsQuoted
      <3> QED BY <1>1, <1>5, <3>2, <3>3, <3>4, <3>5
    <2>2. \A m : ~IsComment(pos, m) BY <1>1, <1>2, CommentStarts DEF Ahead, Quotes
    <2>3. Stuck(pos) BY <1>7, <2>1, <2>2 DEF Stuck
    <2> QED BY <1>4, <1>5, <1>10, <2>3
  <1> QED BY <1>9, <1>10

-----------------------------------------------------------------------------
(* Blanks and comments.                                                    *)

(* A piece of trivia from i up to j.                                       *)
Piece(i, j) == (At(i) \in Blanks /\ j = i + 1) \/ (j > i + 1 /\ IsComment(i, j))

LEMMA LineCommentSkips ==
  ASSUME Ahead, LineComment
  PROVE  \E q \in pos + 1..Len(text) + 1 : Skip(q) /\ Piece(pos, q)
  <1> DEFINE Ends(q) == At(q) \in {"\n", "end"} /\ \A r \in pos..q - 1 : At(r) # "\n"
             q == CHOOSE q \in pos..Len(text) + 1 : Ends(q)
             P == {p \in pos..Len(text) + 1 : At(p) \in {"\n", "end"}}
  <1>1. Len(text) \in Nat /\ pos \in Nat /\ pos >= 1 /\ pos <= Len(text) BY AheadFacts
  <1>2. Skip(q) /\ StartsWith(pos, <<"/", "/">>) BY DEF LineComment
  <1>3. \E p \in pos..Len(text) + 1 : Ends(p)
    <2>1. Len(text) + 1 \in P BY <1>1, AtFacts DEF Ahead
    <2>2. P \in SUBSET Nat BY <1>1
    <2>3. PICK p \in P : \A j \in P : p <= j BY <2>1, <2>2, FirstPlace
    <2>4. ASSUME NEW r \in pos..p - 1 PROVE At(r) # "\n"
      <3>1. r \in pos..Len(text) + 1 /\ ~(p <= r) BY <1>1, <2>3
      <3> QED BY <2>3, <3>1
    <2> QED BY <2>3, <2>4
  <1>4. q \in pos..Len(text) + 1 /\ Ends(q)
    <2> HIDE DEF Ends
    <2> QED BY <1>3
  <1> HIDE DEF q
  <1>5. At(pos) = "/" /\ At(pos + 1) = "/"
    <2>1. pos + 1 <= Len(text) /\ text[pos] = "/" /\ text[pos + 1] = "/" BY <1>1, <1>2, StartsWithTwo DEF Ahead
    <2>2. pos \in 1..Len(text) /\ pos + 1 \in 1..Len(text) BY <1>1, <2>1
    <2> QED BY <2>1, <2>2, AtFacts DEF Ahead
  <1>6. q \in pos + 2..Len(text) + 1
    <2>1. q # pos /\ q # pos + 1 BY <1>4, <1>5
    <2> QED BY <1>1, <1>4, <2>1
  <1>7. IsComment(pos, q) BY <1>2, <1>4 DEF IsComment
  <1>8. q \in pos + 1..Len(text) + 1 /\ q > pos + 1 BY <1>1, <1>6
  <1> QED BY <1>2, <1>7, <1>8 DEF Piece

LEMMA BlockCommentSkips ==
  ASSUME Ahead, BlockComment
  PROVE  \/ \E q \in pos + 1..Len(text) + 1 : Skip(q) /\ Piece(pos, q)
         \/ \E q \in pos + 1..Len(text) + 1 : Report(q) /\ Stuck(pos)
  <1> DEFINE f == CHOOSE q \in CommentEnds : \A r \in CommentEnds : q <= r
  <1>1. Len(text) \in Nat /\ pos \in Nat /\ pos >= 1 /\ pos <= Len(text) /\ pos \in 1..Len(text)
    BY AheadFacts DEF Ahead
  <1>2. StartsWith(pos, <<"/", "*">>) BY DEF BlockComment
  <1>3. (CommentEnds = {} => Report(Len(text) + 1)) /\ (CommentEnds # {} => Skip(f + 2)) BY DEF BlockComment
  <1>4. pos + 1 <= Len(text) /\ text[pos] = "/" /\ text[pos + 1] = "*" BY <1>1, <1>2, StartsWithTwo DEF Ahead
  <1>5. ~StartsWith(pos, <<"/", "/">>) BY <1>1, <1>4, StartsWithTwo DEF Ahead
  <1>6. CASE CommentEnds = {}
    <2>1. ASSUME NEW m \in pos + 1..Len(text) + 1 PROVE ~IsComment(pos, m)
      <3>1. SUFFICES ASSUME m >= pos + 4, StartsWith(m - 2, <<"*", "/">>) PROVE FALSE BY <1>5 DEF IsComment
      <3>2. m - 2 \in pos + 2..Len(text) BY <1>1, <3>1
      <3> QED BY <1>6, <3>1, <3>2 DEF CommentEnds
    <2>2. ASSUME NEW m \in pos + 1..Len(text) + 1 PROVE ~IsLexeme(pos, m)
      <3>1. At(pos) = "/" BY <1>1, <1>4, AtFacts DEF Ahead
      <3>2. At(pos) \notin IdentStart \cup Quotes /\ ~Numeric(pos) BY <3>1, Starts DEF Numeric
      <3>3. ~IsPunctuator(pos, m) BY <1>2 DEF IsPunctuator
      <3> QED BY <1>1, <3>2, <3>3, LexemeSorts DEF Ahead
    <2>3. Stuck(pos) BY <2>1, <2>2 DEF Stuck
    <2>4. Len(text) + 1 \in pos + 1..Len(text) + 1 BY <1>1
    <2> QED BY <1>3, <1>6, <2>3, <2>4
  <1>7. CASE CommentEnds # {}
    <2>1. f \in CommentEnds /\ \A r \in CommentEnds : f <= r
      <3>1. CommentEnds \in SUBSET Nat BY <1>1 DEF CommentEnds
      <3> QED BY <1>7, <3>1, FirstPlace
    <2>2. Skip(f + 2) BY <1>3, <1>7
    <2> HIDE DEF f
    <2>3. f \in pos + 2..Len(text) /\ StartsWith(f, <<"*", "/">>) BY <2>1 DEF CommentEnds
    <2>4. f \in Nat /\ f >= 1 BY <1>1, <2>3
    <2>5. f + 1 <= Len(text) BY <2>3, <2>4, StartsWithTwo DEF Ahead
    <2> DEFINE q == f + 2
    <2>6. q \in pos + 1..Len(text) + 1 /\ q >= pos + 4 /\ q > pos + 1 /\ q - 2 = f BY <1>1, <2>3, <2>4, <2>5
    <2>7. ASSUME NEW r \in pos + 2..q - 3 PROVE ~StartsWith(r, <<"*", "/">>)
      <3>1. r \in pos + 2..Len(text) /\ ~(f <= r) BY <1>1, <2>4, <2>5
      <3>2. r \notin CommentEnds BY <2>1, <3>1
      <3> QED BY <3>1, <3>2 DEF CommentEnds
    <2>8. StartsWith(q - 2, <<"*", "/">>) BY <2>3, <2>6
    <2>9. Skip(q) BY <2>2
    <2> HIDE DEF q
    <2>10. IsComment(pos, q) BY <1>2, <2>6, <2>7, <2>8 DEF IsComment
    <2> QED BY <2>6, <2>9, <2>10 DEF Piece
  <1> QED BY <1>6, <1>7

(* One step of the lexer.                                                  *)
LEMMA OneStep ==
  ASSUME Ahead, Lex
  PROVE  \/ \E q \in pos + 1..Len(text) + 1 : Skip(q) /\ Piece(pos, q)
         \/ \E q \in pos + 1..Len(text) + 1, kind \in TokenKinds : Make(kind, q) /\ Longest(pos, q)
         \/ \E q \in pos + 1..Len(text) + 1 : Report(q) /\ Stuck(pos)
  <1>1. Len(text) \in Nat /\ pos \in Nat /\ pos \in 1..Len(text) /\ Peek = At(pos) BY AheadFacts DEF Ahead
  <1>2. CASE Blank
    <2>1. Skip(pos + 1) /\ Piece(pos, pos + 1) BY <1>1, <1>2 DEF Blank, Piece
    <2>2. pos + 1 \in pos + 1..Len(text) + 1 BY <1>1
    <2> QED BY <2>1, <2>2
  <1>3. CASE LineComment BY <1>3, LineCommentSkips
  <1>4. CASE BlockComment BY <1>4, BlockCommentSkips
  <1>5. CASE ~Trivia /\ Word BY <1>5, WordLongest
  <1>6. CASE ~Trivia /\ NumberToken BY <1>6, NumberLongest
  <1>7. CASE ~Trivia /\ Quoted BY <1>7, QuotedLongest
  <1>8. CASE ~Trivia /\ Punctuator
    <2>1. PICK k \in 1..25 : StartsWith(pos, Punctuators[k]) BY <1>8, PunctuatorFacts DEF Punctuator, Matches
    <2>2. At(pos) \in Marks BY <1>1, <2>1, PunctuatorStarts DEF Ahead
    <2>3. At(pos) \notin IdentStart \cup Quotes BY <2>2, Starts
    <2> QED BY <1>8, <2>3, PunctuatorLongest
  <1>9. CASE ~Trivia /\ Unexpected
    <2>1. Report(pos + 1) /\ Stuck(pos) BY <1>9, UnexpectedStuck
    <2>2. pos + 1 \in pos + 1..Len(text) + 1 BY <1>1
    <2> QED BY <2>1, <2>2
  <1> QED BY <1>2, <1>3, <1>4, <1>5, <1>6, <1>7, <1>8, <1>9 DEF Lex, NextToken

-----------------------------------------------------------------------------
(* What is left out, of a text t: as IsTrivia, with the text an argument.  *)

AtIn(t, p) == IF p <= Len(t) THEN t[p] ELSE "end"
StartsIn(t, p, s) == p + Len(s) - 1 <= Len(t) /\ SubSeq(t, p, p + Len(s) - 1) = s
CommentIn(t, i, j) ==
    \/ /\ StartsIn(t, i, <<"/", "/">>) /\ AtIn(t, j) \in {"\n", "end"}
       /\ \A r \in i..j - 1 : AtIn(t, r) # "\n"
    \/ /\ StartsIn(t, i, <<"/", "*">>) /\ j >= i + 4 /\ StartsIn(t, j - 2, <<"*", "/">>)
       /\ \A r \in i + 2..j - 3 : ~StartsIn(t, r, <<"*", "/">>)

SkippedIn(t, i, j) ==
    LET skipped[p \in i..j] ==
            \/ p = j
            \/ p < j /\ AtIn(t, p) \in Blanks /\ skipped[p + 1]
            \/ \E k \in p + 2..j : CommentIn(t, p, k) /\ skipped[k]
    IN  skipped
TriviaIn(t, i, j) == SkippedIn(t, i, j)[i]

LEMMA InText ==
  /\ \A p : At(p) = AtIn(text, p)
  /\ \A i, j : IsComment(i, j) <=> CommentIn(text, i, j)
  /\ \A i, j : IsTrivia(i, j) = TriviaIn(text, i, j)
  <1>1. \A p : At(p) = AtIn(text, p) BY DEF At, AtIn
  <1>2. \A i, j : IsComment(i, j) <=> CommentIn(text, i, j)
    BY DEF IsComment, CommentIn, At, AtIn, StartsWith, StartsIn
  <1>3. ASSUME NEW i, NEW j PROVE IsTrivia(i, j) = TriviaIn(text, i, j)
    BY DEF IsTrivia, TriviaIn, SkippedIn, IsComment, CommentIn, At, AtIn, StartsWith, StartsIn
  <1> QED BY <1>1, <1>2, <1>3

(* That skipped is the one its definition says.                            *)
LEMMA SkippedEquation ==
  ASSUME NEW t, NEW i \in Nat, NEW j \in Nat, NEW p \in i..j
  PROVE  SkippedIn(t, i, j)[p] <=>
            \/ p = j
            \/ p < j /\ AtIn(t, p) \in Blanks /\ SkippedIn(t, i, j)[p + 1]
            \/ \E k \in p + 2..j : CommentIn(t, p, k) /\ SkippedIn(t, i, j)[k]
  <1> DEFINE Reaches(m, X) == \/ m = j
                              \/ m < j /\ AtIn(t, m) \in Blanks /\ m + 1 \in X
                              \/ \E k \in m + 2..j : CommentIn(t, m, k) /\ k \in X
             Closed(X) == \A m \in i..j : Reaches(m, X) => m \in X
             G == {m \in i..j : \A X \in SUBSET (i..j) : Closed(X) => m \in X}
             r == [m \in i..j |-> m \in G]
  <1>1. ASSUME NEW m \in i..j, Reaches(m, G) PROVE m \in G
    <2>1. SUFFICES ASSUME NEW X \in SUBSET (i..j), Closed(X) PROVE m \in X OBVIOUS
    <2>2. \A x \in G : x \in X BY <2>1
    <2> HIDE DEF G
    <2>3. Reaches(m, X) BY <1>1, <2>2
    <2> QED BY <2>1, <2>3
  <1>2. ASSUME NEW m \in G PROVE Reaches(m, G)
    <2>1. SUFFICES ASSUME ~Reaches(m, G) PROVE FALSE OBVIOUS
    <2> DEFINE X == G \ {m}
    <2>2. X \in SUBSET (i..j) OBVIOUS
    <2>3. Closed(X)
      <3>1. SUFFICES ASSUME NEW n \in i..j, Reaches(n, X) PROVE n \in X OBVIOUS
      <3>2. \A x \in X : x \in G OBVIOUS
      <3> HIDE DEF X, G
      <3>3. Reaches(n, G) BY <3>1, <3>2
      <3>4. n \in G BY <1>1, <3>3
      <3>5. n # m BY <2>1, <3>3
      <3> QED BY <3>4, <3>5 DEF X
    <2>4. m \in X
      <3> HIDE DEF X, Closed
      <3> QED BY <2>2, <2>3
    <2> QED BY <2>4
  <1>3. G \subseteq i..j OBVIOUS
  <1> HIDE DEF G
  <1>4. \A m \in i..j : r[m] <=> m \in G OBVIOUS
  <1>5. r = [m \in i..j |-> \/ m = j
                            \/ m < j /\ AtIn(t, m) \in Blanks /\ r[m + 1]
                            \/ \E k \in m + 2..j : CommentIn(t, m, k) /\ r[k]]
    <2>1. ASSUME NEW m \in i..j
          PROVE  (m \in G) <=> \/ m = j
                               \/ m < j /\ AtIn(t, m) \in Blanks /\ r[m + 1]
                               \/ \E k \in m + 2..j : CommentIn(t, m, k) /\ r[k]
      <3>1. m < j => m + 1 \in i..j OBVIOUS
      <3>2. \A k \in m + 2..j : k \in i..j OBVIOUS
      <3>3. (m \in G) <=> Reaches(m, G) BY <1>1, <1>2
      <3> HIDE DEF r
      <3> QED BY <1>4, <3>1, <3>2, <3>3
    <2> DEFINE B(m) == \/ m = j
                       \/ m < j /\ AtIn(t, m) \in Blanks /\ r[m + 1]
                       \/ \E k \in m + 2..j : CommentIn(t, m, k) /\ r[k]
    <2> HIDE DEF r
    <2>2. \A m \in i..j : (m \in G) <=> B(m) BY <2>1
    <2>3. ASSUME NEW m \in i..j PROVE (m \in G) = B(m)
      <3>1. CASE m \in G
        <4>1. B(m) = TRUE BY <2>2, <3>1
        <4>2. (m \in G) = TRUE BY <3>1
        <4> HIDE DEF B
        <4> QED BY <4>1, <4>2
      <3>2. CASE m \notin G
        <4>1. B(m) = FALSE BY <2>2, <3>2
        <4>2. (m \in G) = FALSE BY <3>2
        <4> HIDE DEF B
        <4> QED BY <4>1, <4>2
      <3> QED BY <3>1, <3>2
    <2>4. [m \in i..j |-> m \in G] = [m \in i..j |-> B(m)]
      <3> HIDE DEF B
      <3> QED BY <2>3
    <2> QED BY <2>4 DEF r
  <1> HIDE DEF r
  <1>6. SkippedIn(t, i, j) =
          [m \in i..j |-> \/ m = j
                          \/ m < j /\ AtIn(t, m) \in Blanks /\ SkippedIn(t, i, j)[m + 1]
                          \/ \E k \in m + 2..j : CommentIn(t, m, k) /\ SkippedIn(t, i, j)[k]]
    BY <1>5, Zenon DEF SkippedIn
  <1> DEFINE s == SkippedIn(t, i, j)
  <1>7. s = [m \in i..j |-> \/ m = j
                            \/ m < j /\ AtIn(t, m) \in Blanks /\ s[m + 1]
                            \/ \E k \in m + 2..j : CommentIn(t, m, k) /\ s[k]]
    BY <1>6
  <1> HIDE DEF s
  <1>8. s[p] <=> \/ p = j
                 \/ p < j /\ AtIn(t, p) \in Blanks /\ s[p + 1]
                 \/ \E k \in p + 2..j : CommentIn(t, p, k) /\ s[k]
    BY <1>7, Zenon
  <1> QED BY <1>8 DEF s

(* Trivia grow by pieces.                                                  *)
LEMMA TriviaGrow ==
  ASSUME NEW t, NEW i \in Nat, NEW k \in Nat, NEW j \in Nat, i <= k, k < j,
         TriviaIn(t, i, k),
         (AtIn(t, k) \in Blanks /\ j = k + 1) \/ (j > k + 1 /\ CommentIn(t, k, j))
  PROVE  TriviaIn(t, i, j)
  <1> DEFINE f == SkippedIn(t, i, k)
             g == SkippedIn(t, i, j)
             G == {p \in i..k : f[p] => g[p]}
  <1>1. \A p \in i..k : f[p] <=> \/ p = k
                                 \/ p < k /\ AtIn(t, p) \in Blanks /\ f[p + 1]
                                 \/ \E m \in p + 2..k : CommentIn(t, p, m) /\ f[m]
    BY SkippedEquation
  <1>2. \A p \in i..j : g[p] <=> \/ p = j
                                 \/ p < j /\ AtIn(t, p) \in Blanks /\ g[p + 1]
                                 \/ \E m \in p + 2..j : CommentIn(t, p, m) /\ g[m]
    BY SkippedEquation
  <1>3. f[i] BY DEF TriviaIn
  <1> HIDE DEF f, g
  <1>4. g[k]
    <2>1. j \in i..j /\ k \in i..j OBVIOUS
    <2>2. g[j] BY <1>2, <2>1
    <2>3. j > k + 1 => j \in k + 2..j OBVIOUS
    <2> QED BY <1>2, <2>1, <2>2, <2>3
  <1>5. ASSUME NEW p \in i..k, \A q \in p + 1..k : q \in G PROVE p \in G
    <2>1. SUFFICES ASSUME f[p] PROVE g[p] OBVIOUS
    <2>2. p \in i..j /\ (p < k => p < j /\ p + 1 \in p + 1..k) OBVIOUS
    <2>3. \A m \in p + 2..k : m \in p + 1..k /\ m \in p + 2..j OBVIOUS
    <2>4. \A q \in p + 1..k : f[q] => g[q] BY <1>5
    <2> HIDE DEF G
    <2> QED BY <1>1, <1>2, <1>4, <2>1, <2>2, <2>3, <2>4
  <1>6. \A p \in i..k : p \in G
    <2> HIDE DEF G
    <2> QED BY <1>5, Backwards
  <1>7. i \in i..k OBVIOUS
  <1>8. g[i] BY <1>3, <1>6, <1>7
  <1> QED BY <1>8 DEF g, TriviaIn

LEMMA TriviaEmpty ==
  ASSUME NEW t, NEW i \in Nat
  PROVE  TriviaIn(t, i, i)
  <1>1. i \in i..i OBVIOUS
  <1> QED BY <1>1, SkippedEquation DEF TriviaIn

-----------------------------------------------------------------------------
(* What the lexer keeps true.                                              *)

Tokens == [kind : TokenKinds, begin : Nat, end : Nat, loc : Nat \X Nat]
Sound(r) ==
  /\ r.begin \in 1..Len(text) /\ r.end \in r.begin + 1..Len(text) + 1
  /\ r.loc = LocationOf(r.begin) /\ Longest(r.begin, r.end)
Sounds == {r \in Tokens : Sound(r)}

(* The locations of the characters nothing begins at.                      *)
Blamed == {LocationOf(p) : p \in {m \in 1..Len(text) : Stuck(m)}}

(* Where the last token ends, and where the one before the k-th does.      *)
Since     == IF tokens = <<>> THEN 1 ELSE tokens[Len(tokens)].end
Before(k) == IF k = 1 THEN 1 ELSE tokens[k - 1].end

Gapless ==
  /\ TriviaIn(text, Since, pos)
  /\ \A k \in 1..Len(tokens) : TriviaIn(text, Before(k), tokens[k].begin)

Placed == \E p \in 1..Len(text) + 1 : pos = p /\ Here = LocationOf(p)

LexInv ==
  /\ Texted /\ Placed
  /\ tokens \in Seq(Sounds) /\ Since \in 1..pos
  /\ diags \in Seq(Blamed) /\ (diags = <<>> => Gapless)
  /\ done \in BOOLEAN /\ (done => AtEnd)

(* A step that leaves the text leaves what is said about it.               *)
LEMMA Unmoved ==
  ASSUME text' = text
  PROVE  /\ Texted' <=> Texted
         /\ \A p : LocationOf(p)' = LocationOf(p)
         /\ Sounds' = Sounds /\ Blamed' = Blamed
  <1>1. Texted' <=> Texted BY DEF Texted
  <1>2. \A p : At(p)' = At(p) BY DEF At
  <1>3. \A p, s : StartsWith(p, s)' <=> StartsWith(p, s) BY DEF StartsWith
  <1>4. \A p : LocationOf(p)' = LocationOf(p)
    <2>1. ASSUME NEW p PROVE Breaks(p)' = Breaks(p) BY DEF Breaks
    <2>2. ASSUME NEW p
          PROVE  LocationOf(p)' =
                   <<1 + Cardinality(Breaks(p)'), IF Breaks(p)' = {} THEN p ELSE p - Latest(Breaks(p)')>>
      BY DEF LocationOf, Breaks, Latest
    <2> QED BY <2>1, <2>2, LocationIs
  <1>5. \A i, r : Escaped(i, r)' <=> Escaped(i, r)
    <2>1. ASSUME NEW i, NEW r PROVE Slashes(i, r)' = Slashes(i, r) BY <1>2 DEF Slashes
    <2>2. ASSUME NEW i, NEW r PROVE Escaped(i, r)' <=> Cardinality(Slashes(i, r)') % 2 = 1
      BY DEF Escaped, Slashes
    <2>3. ASSUME NEW i, NEW r PROVE Escaped(i, r) <=> Cardinality(Slashes(i, r)) % 2 = 1
      BY DEF Escaped, Slashes
    <2> QED BY <2>1, <2>2, <2>3
  <1>6. \A i, j : IsWord(i, j)' <=> IsWord(i, j) BY <1>2 DEF IsWord
  <1>7. \A i, j : IsNumber(i, j)' <=> IsNumber(i, j) BY <1>2, <1>3 DEF IsNumber
  <1>8. \A i, j : IsQuoted(i, j)' <=> IsQuoted(i, j) BY <1>2, <1>5 DEF IsQuoted
  <1>9. \A i, j : IsPunctuator(i, j)' <=> IsPunctuator(i, j) BY <1>3 DEF IsPunctuator
  <1>10. \A i, j : IsLexeme(i, j)' <=> IsLexeme(i, j) BY <1>6, <1>7, <1>8, <1>9 DEF IsLexeme
  <1>11. \A i, j : IsComment(i, j)' <=> IsComment(i, j) BY <1>2, <1>3 DEF IsComment
  <1>12. \A i, j : Longest(i, j)' <=> Longest(i, j) BY <1>10 DEF Longest
  <1>13. \A i : Stuck(i)' <=> Stuck(i) BY <1>10, <1>11 DEF Stuck
  <1>14. \A r : Sound(r)' <=> Sound(r) BY <1>4, <1>12 DEF Sound
  <1>15. Sounds' = Sounds BY <1>14 DEF Sounds
  <1>16. Blamed' = Blamed BY <1>4, <1>13 DEF Blamed
  <1> QED BY <1>1, <1>4, <1>15, <1>16

LEMMA LocationType ==
  ASSUME NEW p \in Nat, p >= 1
  PROVE  LocationOf(p) \in Nat \X Nat
  <1> DEFINE B == Breaks(p)
  <1>1. p - 1 \in Nat /\ B \in SUBSET (1..p - 1) BY DEF Breaks
  <1>2. LocationOf(p) = <<1 + Cardinality(B), IF B = {} THEN p ELSE p - Latest(B)>> BY LocationIs
  <1> HIDE DEF B
  <1>3. Cardinality(B) \in Nat /\ (B # {} => Latest(B) \in B) BY <1>1, BreaksFinite
  <1>4. B # {} => p - Latest(B) \in Nat
    <2>1. SUFFICES ASSUME B # {} PROVE p - Latest(B) \in Nat OBVIOUS
    <2>2. Latest(B) \in 1..p - 1 BY <1>1, <1>3, <2>1
    <2> QED BY <2>2
  <1>5. 1 + Cardinality(B) \in Nat BY <1>3
  <1> QED BY <1>2, <1>4, <1>5

LEMMA LexInit == Init => LexInv
  <1> SUFFICES ASSUME Init PROVE LexInv OBVIOUS
  <1>1. Texted BY TextsAssumption DEF Init, Texted
  <1>2. Len(text) \in Nat BY <1>1, AtFacts
  <1>3. pos = 1 /\ line = 1 /\ column = 1 /\ tokens = <<>> /\ diags = <<>> /\ done = FALSE BY DEF Init
  <1>4. Placed
    <2>1. Breaks(1) = {} BY DEF Breaks
    <2>2. Cardinality(Breaks(1)) = 0 BY <2>1, FS_EmptySet
    <2>3. LocationOf(1) = <<1, 1>> BY <2>1, <2>2, LocationIs
    <2>4. 1 \in 1..Len(text) + 1 BY <1>2
    <2> QED BY <1>3, <2>3, <2>4 DEF Placed, Here
  <1>5. tokens \in Seq(Sounds) /\ Len(tokens) = 0 BY <1>3, EmptySeq
  <1>6. diags \in Seq(Blamed) BY <1>3, EmptySeq
  <1>7. Since = 1 BY <1>3 DEF Since
  <1>8. Since \in 1..pos BY <1>3, <1>7
  <1>9. Gapless
    <2>1. TriviaIn(text, 1, 1) BY TriviaEmpty
    <2>2. \A k \in 1..Len(tokens) : FALSE BY <1>5
    <2> QED BY <1>3, <1>7, <2>1, <2>2 DEF Gapless
  <1> QED BY <1>1, <1>3, <1>4, <1>5, <1>6, <1>8, <1>9 DEF LexInv

(* What the three sorts of steps have in common.                           *)
LEMMA StepMoves ==
  ASSUME LexInv, ~AtEnd, text' = text, NEW q \in pos + 1..Len(text) + 1, AdvanceTo(q)
  PROVE  /\ Ahead /\ Here = LocationOf(pos) /\ Here \in Nat \X Nat
         /\ pos' = q /\ Placed' /\ Texted'
         /\ pos \in Nat /\ q \in Nat /\ pos < q /\ pos >= 1
         /\ Sounds' = Sounds /\ Blamed' = Blamed
  <1>1. PICK p \in 1..Len(text) + 1 : pos = p /\ Here = LocationOf(p) BY DEF LexInv, Placed
  <1>2. Texted /\ Len(text) \in Nat BY AtFacts DEF LexInv
  <1>3. Ahead BY <1>1, <1>2 DEF Ahead, AtEnd
  <1>4. q \in p..Len(text) + 1 BY <1>1, <1>2
  <1>5. pos' = q /\ <<line', column'>> = LocationOf(q) BY <1>1, <1>2, <1>4, AdvanceLocates
  <1>6. Here' = LocationOf(q)' BY <1>5, Unmoved DEF Here
  <1>7. Placed'
    <2>1. q \in 1..Len(text') + 1 BY <1>1, <1>2, <1>4
    <2> QED BY <1>5, <1>6, <2>1 DEF Placed
  <1>8. Texted' BY <1>2, Unmoved
  <1>9. Here \in Nat \X Nat BY <1>1, <1>2, LocationType
  <1>10. pos \in Nat /\ q \in Nat /\ pos < q /\ pos >= 1 BY <1>1, <1>2
  <1> QED BY <1>1, <1>3, <1>5, <1>7, <1>8, <1>9, <1>10, Unmoved

LEMMA SkipKeeps ==
  ASSUME LexInv, ~AtEnd, UNCHANGED <<text, done>>, ~done,
         NEW q \in pos + 1..Len(text) + 1, Skip(q), Piece(pos, q)
  PROVE  LexInv'
  <1>1. text' = text /\ done' = done /\ AdvanceTo(q) /\ tokens' = tokens /\ diags' = diags BY DEF Skip
  <1>2. /\ pos' = q /\ Placed' /\ Texted' /\ pos \in Nat /\ q \in Nat /\ pos < q /\ pos >= 1
        /\ Sounds' = Sounds /\ Blamed' = Blamed
    BY <1>1, StepMoves
  <1>3. tokens \in Seq(Sounds) /\ Since \in 1..pos /\ diags \in Seq(Blamed) /\ done \in BOOLEAN BY DEF LexInv
  <1>4. Since' = Since BY <1>1 DEF Since
  <1>5. Since' \in 1..pos' BY <1>2, <1>3, <1>4
  <1>6. diags = <<>> => Gapless'
    <2>1. SUFFICES ASSUME diags = <<>> PROVE Gapless' OBVIOUS
    <2>2. Gapless BY <2>1 DEF LexInv
    <2>3. (AtIn(text, pos) \in Blanks /\ q = pos + 1) \/ (q > pos + 1 /\ CommentIn(text, pos, q))
      BY InText DEF Piece
    <2>4. TriviaIn(text, Since, pos) BY <2>2 DEF Gapless
    <2>5. Since \in Nat /\ Since <= pos BY <1>2, <1>3
    <2>6. TriviaIn(text, Since, q) BY <1>2, <2>3, <2>4, <2>5, TriviaGrow
    <2>7. \A k : Before(k)' = Before(k) BY <1>1 DEF Before
    <2> QED BY <1>1, <1>2, <1>4, <2>2, <2>6, <2>7 DEF Gapless
  <1> QED BY <1>1, <1>2, <1>3, <1>5, <1>6 DEF LexInv

LEMMA ReportKeeps ==
  ASSUME LexInv, ~AtEnd, UNCHANGED <<text, done>>, ~done,
         NEW q \in pos + 1..Len(text) + 1, Report(q), Stuck(pos)
  PROVE  LexInv'
  <1>1. text' = text /\ done' = done /\ AdvanceTo(q) /\ tokens' = tokens /\ diags' = Append(diags, Here)
    BY DEF Report
  <1>2. /\ pos' = q /\ Placed' /\ Texted' /\ pos \in Nat /\ q \in Nat /\ pos < q /\ pos >= 1
        /\ Sounds' = Sounds /\ Blamed' = Blamed /\ Here = LocationOf(pos) /\ Ahead
    BY <1>1, StepMoves
  <1>3. tokens \in Seq(Sounds) /\ Since \in 1..pos /\ diags \in Seq(Blamed) /\ done \in BOOLEAN BY DEF LexInv
  <1>4. Since' = Since BY <1>1 DEF Since
  <1>5. Since' \in 1..pos' BY <1>2, <1>3, <1>4
  <1>6. Here \in Blamed BY <1>2 DEF Blamed, Ahead
  <1>7. diags' \in Seq(Blamed) /\ diags' # <<>> BY <1>1, <1>3, <1>6, AppendProperties
  <1> QED BY <1>1, <1>2, <1>3, <1>5, <1>7 DEF LexInv

LEMMA MakeKeeps ==
  ASSUME LexInv, ~AtEnd, UNCHANGED <<text, done>>, ~done,
         NEW q \in pos + 1..Len(text) + 1, NEW kind \in TokenKinds, Make(kind, q), Longest(pos, q)
  PROVE  LexInv'
  <1> DEFINE e == [kind |-> kind, begin |-> pos, end |-> q, loc |-> Here]
             n == Len(tokens)
  <1>1. text' = text /\ done' = done /\ AdvanceTo(q) /\ tokens' = Append(tokens, e) /\ diags' = diags
    BY DEF Make
  <1>2. /\ pos' = q /\ Placed' /\ Texted' /\ pos \in Nat /\ q \in Nat /\ pos < q /\ pos >= 1
        /\ Sounds' = Sounds /\ Blamed' = Blamed /\ Here = LocationOf(pos) /\ Here \in Nat \X Nat /\ Ahead
    BY <1>1, StepMoves
  <1>3. tokens \in Seq(Sounds) /\ Since \in 1..pos /\ diags \in Seq(Blamed) /\ done \in BOOLEAN BY DEF LexInv
  <1>4. e.begin = pos /\ e.end = q /\ e.loc = Here /\ e \in Tokens BY <1>2 DEF Tokens
  <1> HIDE DEF e
  <1>5. e \in Sounds
    <2>1. pos \in 1..Len(text) BY <1>2 DEF Ahead
    <2> QED BY <1>2, <1>4, <2>1 DEF Sounds, Sound
  <1>6. /\ tokens' \in Seq(Sounds) /\ tokens' # <<>> /\ Len(tokens') = n + 1 /\ n \in Nat
        /\ \A k \in 1..n : tokens'[k] = tokens[k]
        /\ tokens'[n + 1] = e
    BY <1>1, <1>3, <1>5, AppendProperties, LenProperties
  <1>7. Since' = q BY <1>4, <1>6 DEF Since
  <1>8. Since' \in 1..pos' BY <1>2, <1>7
  <1>9. diags = <<>> => Gapless'
    <2>1. SUFFICES ASSUME diags = <<>> PROVE Gapless' OBVIOUS
    <2>2. Gapless BY <2>1 DEF LexInv
    <2>3. TriviaIn(text, q, q) BY <1>2, TriviaEmpty
    <2>4. ASSUME NEW k \in 1..n + 1
          PROVE  TriviaIn(text, (IF k = 1 THEN 1 ELSE tokens'[k - 1].end), tokens'[k].begin)
      <3>1. CASE k = n + 1
        <4>1. tokens'[k].begin = pos BY <1>4, <1>6, <3>1
        <4>2. (IF k = 1 THEN 1 ELSE tokens'[k - 1].end) = Since
          <5>1. CASE n = 0
            <6>1. tokens = <<>> BY <1>3, <5>1, EmptySeq
            <6>2. k = 1 BY <3>1, <5>1
            <6> QED BY <6>1, <6>2 DEF Since
          <5>2. CASE n # 0
            <6>1. tokens # <<>> BY <5>2
            <6>2. k # 1 /\ k - 1 = n /\ n \in 1..n BY <1>6, <3>1, <5>2
            <6> QED BY <1>6, <6>1, <6>2 DEF Since
          <5> QED BY <5>1, <5>2
        <4> QED BY <2>2, <4>1, <4>2 DEF Gapless
      <3>2. CASE k # n + 1
        <4>1. k \in 1..n /\ (k # 1 => k - 1 \in 1..n) BY <1>6, <3>2
        <4>2. (IF k = 1 THEN 1 ELSE tokens'[k - 1].end) = Before(k) BY <1>6, <4>1 DEF Before
        <4> QED BY <1>6, <2>2, <4>1, <4>2 DEF Gapless
      <3> QED BY <3>1, <3>2
    <2>5. \A k \in 1..Len(tokens') : TriviaIn(text', Before(k)', tokens'[k].begin)
      BY <1>1, <1>6, <2>4 DEF Before
    <2>6. TriviaIn(text', Since', pos') BY <1>1, <1>2, <1>7, <2>3
    <2> QED BY <2>5, <2>6 DEF Gapless
  <1> QED BY <1>1, <1>2, <1>3, <1>6, <1>8, <1>9 DEF LexInv

LEMMA LexNext == LexInv /\ [Next]_vars => LexInv'
  <1> SUFFICES ASSUME LexInv, [Next]_vars PROVE LexInv' OBVIOUS
  <1>1. CASE Lex
    <2>1. ~AtEnd /\ UNCHANGED <<text, done>> /\ ~done BY <1>1 DEF Lex, LexInv
    <2>2. Ahead
      <3>1. Texted /\ pos \in 1..Len(text) + 1 /\ Len(text) \in Nat BY AtFacts DEF LexInv, Placed
      <3> QED BY <2>1, <3>1 DEF Ahead, AtEnd
    <2>3. \/ \E q \in pos + 1..Len(text) + 1 : Skip(q) /\ Piece(pos, q)
          \/ \E q \in pos + 1..Len(text) + 1, kind \in TokenKinds : Make(kind, q) /\ Longest(pos, q)
          \/ \E q \in pos + 1..Len(text) + 1 : Report(q) /\ Stuck(pos)
      BY <1>1, <2>2, OneStep
    <2> QED BY <2>1, <2>3, SkipKeeps, ReportKeeps, MakeKeeps
  <1>2. CASE UNCHANGED <<text, cursor, tokens, diags>> /\ (done' = TRUE => AtEnd) /\ done' \in BOOLEAN
    <2>1. text' = text /\ pos' = pos /\ line' = line /\ column' = column /\ tokens' = tokens /\ diags' = diags
      BY <1>2 DEF cursor
    <2>2. Texted' /\ Sounds' = Sounds /\ Blamed' = Blamed BY <2>1, Unmoved DEF LexInv
    <2>3. Placed'
      <3>1. PICK p \in 1..Len(text) + 1 : pos = p /\ Here = LocationOf(p) BY DEF LexInv, Placed
      <3>2. Here' = LocationOf(p)' BY <2>1, <3>1, Unmoved DEF Here
      <3>3. p \in 1..Len(text') + 1 /\ pos' = p BY <2>1, <3>1
      <3> QED BY <3>2, <3>3 DEF Placed
    <2>4. Since' = Since /\ (\A k : Before(k)' = Before(k)) BY <2>1 DEF Since, Before
    <2>5. AtEnd' <=> AtEnd BY <2>1 DEF AtEnd
    <2>6. Gapless => Gapless' BY <2>1, <2>4 DEF Gapless
    <2> QED BY <1>2, <2>1, <2>2, <2>3, <2>4, <2>5, <2>6 DEF LexInv
  <1>3. CASE EndOfFile BY <1>2, <1>3 DEF EndOfFile
  <1>4. CASE UNCHANGED vars
    <2>1. UNCHANGED <<text, cursor, tokens, diags>> /\ done' = done BY <1>4 DEF vars
    <2> QED BY <1>2, <2>1 DEF LexInv
  <1> QED BY <1>1, <1>3, <1>4 DEF Next

(* What the lexer keeps true of its tokens, its errors and what lies       *)
(* between them (Lexer.cpp, next and skipTrivia) stays true.               *)
THEOREM LexInvariant == Spec => []LexInv
  <1> QED BY LexInit, LexNext, PTL DEF Spec

LEMMA ReadLongest == LexInv => LongestTokens
  <1> SUFFICES ASSUME LexInv PROVE LongestTokens OBVIOUS
  <1>1. Texted /\ Len(text) \in Nat /\ DOMAIN text = 1..Len(text) BY AtFacts DEF LexInv
  <1>2. tokens \in Seq(Sounds) /\ diags \in Seq(Blamed) BY DEF LexInv
  <1>3. Len(tokens) \in Nat /\ DOMAIN tokens = 1..Len(tokens) BY <1>2, LenProperties
  <1>4. ASSUME NEW k \in DOMAIN tokens
        PROVE  /\ IsLexeme(tokens[k].begin, tokens[k].end)
               /\ \A j \in tokens[k].end + 1..Len(text) + 1 : ~IsLexeme(tokens[k].begin, j)
    <2>1. tokens[k] \in Sounds BY <1>2, <1>3, ElementOfSeq
    <2> QED BY <2>1 DEF Sounds, Sound, Longest
  <1>5. ASSUME NEW p \in DOMAIN text, LocationOf(p) \in ToSet(diags)
        PROVE  \A j \in p + 1..Len(text) + 1 : ~IsLexeme(p, j) /\ ~IsComment(p, j)
    <2>1. PICK k \in DOMAIN diags : LocationOf(p) = diags[k] BY <1>5 DEF ToSet
    <2>2. diags[k] \in Blamed BY <1>2, <2>1, ElementOfSeq, LenProperties
    <2>3. PICK m \in 1..Len(text) : Stuck(m) /\ LocationOf(m) = LocationOf(p) BY <2>1, <2>2 DEF Blamed
    <2>4. p \in Nat /\ m \in Nat /\ p >= 1 /\ m >= 1 BY <1>1
    <2>5. ~(p < m) /\ ~(m < p) BY <2>3, <2>4, LocationsApart
    <2>6. m = p BY <2>4, <2>5
    <2> QED BY <2>3, <2>6 DEF Stuck
  <1>6. ASSUME done, diags = <<>>, NEW k \in 0..Len(tokens)
        PROVE  IsTrivia(IF k = 0 THEN 1 ELSE tokens[k].end,
                        IF k = Len(tokens) THEN Len(text) + 1 ELSE tokens[k + 1].begin)
    <2> DEFINE i == IF k = 0 THEN 1 ELSE tokens[k].end
               j == IF k = Len(tokens) THEN Len(text) + 1 ELSE tokens[k + 1].begin
    <2>0. k \in Nat /\ (k # Len(tokens) => k < Len(tokens))
      <3>1. \A n \in Nat : \A x \in 0..n : x \in Nat /\ (x # n => x < n) OBVIOUS
      <3> QED BY <1>3, <3>1
    <2>1. Gapless BY <1>6 DEF LexInv
    <2>2. TriviaIn(text, i, j)
      <3>1. CASE k = Len(tokens)
        <4>1. pos = Len(text) + 1 BY <1>1, <1>6 DEF LexInv, Placed, AtEnd
        <4>2. i = Since
          <5>1. (k = 0) <=> (tokens = <<>>) BY <1>2, <3>1, EmptySeq
          <5> QED BY <3>1, <5>1 DEF Since
        <4>3. TriviaIn(text, Since, pos) BY <2>1 DEF Gapless
        <4> QED BY <3>1, <4>1, <4>2, <4>3
      <3>2. CASE k # Len(tokens)
        <4>0. k \in Nat /\ k < Len(tokens) BY <2>0, <3>2
        <4>1. k + 1 \in 1..Len(tokens) /\ (k + 1) - 1 = k /\ (k + 1 = 1 <=> k = 0) BY <1>3, <4>0
        <4>2. i = Before(k + 1) /\ j = tokens[k + 1].begin BY <3>2, <4>1 DEF Before
        <4>3. TriviaIn(text, Before(k + 1), tokens[k + 1].begin) BY <2>1, <4>1 DEF Gapless
        <4> QED BY <4>2, <4>3
      <3> QED BY <3>1, <3>2
    <2> HIDE DEF i, j
    <2>3. IsTrivia(i, j) BY <2>2, InText
    <2> QED BY <2>3 DEF i, j
  <1> QED BY <1>4, <1>5, <1>6 DEF LongestTokens

(* The lexer takes the longest token of C at every place, reports only     *)
(* places where none begins, and of a text it accepts leaves out nothing   *)
(* but blanks and comments.                                                *)
THEOREM TokensLongest == Spec => []LongestTokens
  <1> QED BY LexInvariant, ReadLongest, PTL

LEMMA ReadLocated == LexInv => Located
  <1> SUFFICES ASSUME LexInv PROVE Located OBVIOUS
  <1>1. DOMAIN text = 1..Len(text) BY AtFacts DEF LexInv
  <1>2. tokens \in Seq(Sounds) /\ diags \in Seq(Blamed) BY DEF LexInv
  <1>3. ASSUME NEW k \in DOMAIN tokens PROVE tokens[k].loc = LocationOf(tokens[k].begin)
    <2>1. tokens[k] \in Sounds BY <1>2, ElementOfSeq, LenProperties
    <2> QED BY <2>1 DEF Sounds, Sound
  <1>4. ASSUME NEW k \in DOMAIN diags PROVE \E p \in DOMAIN text : diags[k] = LocationOf(p)
    <2>1. diags[k] \in Blamed BY <1>2, ElementOfSeq, LenProperties
    <2> QED BY <1>1, <2>1 DEF Blamed
  <1> QED BY <1>3, <1>4 DEF Located

(* Every token and every error carries the line and column of its first    *)
(* character (advance keeps line_ and column_ with pos_).                  *)
THEOREM TokensLocated == Spec => []Located
  <1> QED BY LexInvariant, ReadLocated, PTL
-----------------------------------------------------------------------------
(* The values of literals.  First numbers: the recursions on them have     *)
(* solutions, and reading digits from the left gives what their places say.*)

(* What holds of 0 and goes on to the next number, holds.                  *)
LEMMA Upwards ==
  ASSUME NEW n \in Nat, NEW G, 0 \in G, \A i \in 1..n : i - 1 \in G => i \in G
  PROVE  \A i \in 0..n : i \in G
  <1> DEFINE P == {i \in 0..n : i \notin G}
  <1>1. P = {}
    <2>1. SUFFICES ASSUME P # {} PROVE FALSE OBVIOUS
    <2>2. P \in SUBSET Nat OBVIOUS
    <2> HIDE DEF P
    <2>3. PICK d \in P : \A e \in P : d <= e BY <2>1, <2>2, FirstPlace
    <2> USE DEF P
    <2>4. d \in 0..n /\ d \notin G BY <2>3
    <2>5. d # 0 BY <2>4
    <2>6. d \in 1..n /\ d - 1 \in 0..n /\ ~(d <= d - 1) BY <2>4, <2>5
    <2>7. d - 1 \notin P BY <2>3, <2>6
    <2> QED BY <2>4, <2>6, <2>7
  <1> QED BY <1>1

LEMMA Linear == \A x, y, z \in Nat : x * y + z \in Nat
  <1>1. \A x, y \in Nat : x * y \in Nat OBVIOUS
  <1>2. ASSUME NEW x \in Nat, NEW y \in Nat, NEW z \in Nat PROVE x * y + z \in Nat
    <2>1. PICK u \in Nat : u = x * y BY <1>1
    <2>2. u + z \in Nat OBVIOUS
    <2> QED BY <2>1, <2>2
  <1> QED BY <1>2

Solves(f, n, A, B, c) == f = [i \in 0..n |-> IF i = 0 THEN c ELSE f[i - 1] * A[i] + B[i]]

LEMMA LinearSolved ==
  ASSUME NEW n \in Nat, NEW A \in [1..n -> Nat], NEW B \in [1..n -> Nat], NEW c \in Nat
  PROVE  \E f \in [0..n -> Nat] : Solves(f, n, A, B, c)
  <1> DEFINE Ok(f, i) == f[i] = IF i = 0 THEN c ELSE f[i - 1] * A[i] + B[i]
             Has(k) == \E f \in [0..k -> Nat] : \A i \in 0..k : Ok(f, i)
             G == {k \in 0..n : Has(k)}
  <1>1. Has(0)
    <2> DEFINE f == [i \in 0..0 |-> c]
    <2>1. f \in [0..0 -> Nat] /\ \A i \in 0..0 : i = 0 /\ f[i] = c OBVIOUS
    <2> HIDE DEF f
    <2>2. \A i \in 0..0 : Ok(f, i) BY <2>1
    <2> HIDE DEF Ok
    <2> QED BY <2>1, <2>2
  <1>2. ASSUME NEW k \in 1..n, Has(k - 1) PROVE Has(k)
    <2>1. PICK g \in [0..k - 1 -> Nat] : \A i \in 0..k - 1 : Ok(g, i) BY <1>2
    <2> DEFINE v == g[k - 1] * A[k] + B[k]
               f == [i \in 0..k |-> IF i = k THEN v ELSE g[i]]
    <2>2. k \in Nat /\ k # 0 /\ k - 1 \in 0..k - 1 /\ k \in 0..n OBVIOUS
    <2>3. \A i \in 0..k : i = k \/ i \in 0..k - 1 OBVIOUS
    <2>4. \A i \in 0..k - 1 : i \in 0..k /\ i # k /\ (i # 0 => i - 1 \in 0..k - 1) OBVIOUS
    <2>5. k \in 0..k OBVIOUS
    <2>a. v \in Nat
      <3>1. g[k - 1] \in Nat /\ A[k] \in Nat /\ B[k] \in Nat BY <2>2
      <3>2. g[k - 1] * A[k] + B[k] \in Nat BY ONLY <3>1, Linear, Zenon
      <3> QED BY <3>2
    <2> HIDE DEF v
    <2>6. f[k] = v /\ \A i \in 0..k - 1 : f[i] = g[i] BY <2>4, <2>5
    <2>7. f \in [0..k -> Nat] BY <2>a, <2>3
    <2> HIDE DEF f
    <2>8. Ok(f, k) BY <2>2, <2>6 DEF v
    <2>9. ASSUME NEW i \in 0..k - 1 PROVE Ok(f, i)
      <3>1. Ok(g, i) /\ f[i] = g[i] /\ (i # 0 => f[i - 1] = g[i - 1]) BY <2>1, <2>4, <2>6
      <3> QED BY <3>1
    <2>10. \A i \in 0..k : Ok(f, i) BY <2>3, <2>8, <2>9
    <2> HIDE DEF Ok
    <2> QED BY <2>7, <2>10
  <1> HIDE DEF Has
  <1>3. \A k \in 0..n : k \in G
    <2>1. 0 \in G BY <1>1
    <2>2. \A k \in 1..n : k - 1 \in G => k \in G BY <1>2
    <2> HIDE DEF G
    <2> QED BY <2>1, <2>2, Upwards
  <1>4. n \in 0..n OBVIOUS
  <1>5. PICK f \in [0..n -> Nat] : \A i \in 0..n : Ok(f, i) BY <1>3, <1>4 DEF Has
  <1>6. f = [i \in 0..n |-> IF i = 0 THEN c ELSE f[i - 1] * A[i] + B[i]] BY <1>5
  <1> QED BY <1>6 DEF Solves

LEMMA HexDigits ==
  /\ \A c \in DigitsOf(16) : HexValue(c) \in 0..15
  /\ \A c \in DigitsOf(8) : HexValue(c) \in 0..7
  /\ DigitsOf(8) \subseteq DigitsOf(16) /\ DigitsOf(10) \subseteq DigitsOf(16)
  /\ "\\" \notin DigitsOf(16) /\ "x" \notin DigitsOf(16)
  /\ Escapes \cap DigitsOf(8) = {} /\ "x" \notin Escapes
  <1>1. /\ Digits[1] = "0" /\ Digits[2] = "1" /\ Digits[3] = "2" /\ Digits[4] = "3" /\ Digits[5] = "4"
        /\ Digits[6] = "5" /\ Digits[7] = "6" /\ Digits[8] = "7" /\ Digits[9] = "8" /\ Digits[10] = "9"
        /\ Digits[11] = "a" /\ Digits[12] = "b" /\ Digits[13] = "c" /\ Digits[14] = "d"
        /\ Digits[15] = "e" /\ Digits[16] = "f"
    BY DEF Digits
  <1>2. \A i \in 1..16 : i \in {1, 2, 3, 4, 5, 6, 7, 8, 9, 10, 11, 12, 13, 14, 15, 16} OBVIOUS
  <1>3. \A i \in 1..16 : Digits[i] # "\\" /\ Digits[i] # "x" BY <1>1, <1>2
  <1>4. \A i \in 1..8 : Digits[i] \notin Escapes
    <2>1. \A i \in 1..8 : i \in {1, 2, 3, 4, 5, 6, 7, 8} OBVIOUS
    <2> QED BY <1>1, <2>1 DEF Escapes
  <1>5. ASSUME NEW c, NEW i \in 1..16, Digits[i] = c
        PROVE  HexValue(c) \in 0..15 /\ (i <= 8 => HexValue(c) \in 0..7)
    <2> DEFINE h == CHOOSE j \in 1..16 : Digits[j] = c
    <2>1. h \in 1..16 /\ Digits[h] = c BY <1>5
    <2>2. HexValue(c) = h - 1 BY DEF HexValue
    <2> HIDE DEF h
    <2>3. \A j, k \in 1..16 : Digits[j] = Digits[k] => j = k BY <1>1, <1>2
    <2>4. h = i BY <1>5, <2>1, <2>3
    <2> QED BY <2>2, <2>4
  <1>6. \A i \in 1..8 : i \in 1..16 /\ i <= 8 OBVIOUS
  <1>7. \A i \in 1..10 : i \in 1..16 OBVIOUS
  <1>8. "x" \notin Escapes BY DEF Escapes
  <1> HIDE DEF Digits, Escapes, HexValue
  <1> QED BY <1>3, <1>4, <1>5, <1>6, <1>7, <1>8 DEF DigitsOf

(* The three recursions.                                                   *)
Values(body, from, base, n) ==
  LET value[k \in 0..n] ==
        IF k = 0 THEN 0 ELSE value[k - 1] * base + HexValue(body[from + k - 1])
  IN  value
Weights(base, n) ==
  LET place[i \in 0..n] == IF i = 0 THEN 1 ELSE place[i - 1] * base IN place
Lasts(body, from, base, n) ==
  LET place[i \in 0..n] == IF i = 0 THEN 1 ELSE place[i - 1] * base
      last[i \in 0..n] ==
        IF i = 0 THEN 0
        ELSE last[i - 1] + HexValue(body[from + n - i]) * place[i - 1]
  IN  last

LEMMA ValuesEquation ==
  ASSUME NEW body, NEW from \in Nat, NEW base \in Nat, NEW n \in Nat,
         \A i \in 1..n : HexValue(body[from + i - 1]) \in Nat
  PROVE  LET v == Values(body, from, base, n)
         IN  /\ v[0] = 0 /\ \A i \in 0..n : v[i] \in Nat
             /\ \A i \in 1..n : v[i] = v[i - 1] * base + HexValue(body[from + i - 1])
  <1> DEFINE A == [i \in 1..n |-> base]
             B == [i \in 1..n |-> HexValue(body[from + i - 1])]
             v == Values(body, from, base, n)
  <1>1. A \in [1..n -> Nat] /\ B \in [1..n -> Nat] OBVIOUS
  <1>2. \A i \in 0..n : i # 0 => i \in 1..n OBVIOUS
  <1>3. \A i \in 1..n : A[i] = base /\ B[i] = HexValue(body[from + i - 1]) OBVIOUS
  <1> HIDE DEF A, B
  <1>4. PICK f \in [0..n -> Nat] : f = [i \in 0..n |-> IF i = 0 THEN 0 ELSE f[i - 1] * A[i] + B[i]]
    <2>1. 0 \in Nat OBVIOUS
    <2>2. \E f \in [0..n -> Nat] : Solves(f, n, A, B, 0) BY <1>1, <2>1, LinearSolved
    <2> QED BY <2>2 DEF Solves
  <1>5. f = [i \in 0..n |-> IF i = 0 THEN 0 ELSE f[i - 1] * base + HexValue(body[from + i - 1])]
    BY <1>2, <1>3, <1>4
  <1>6. v = [i \in 0..n |-> IF i = 0 THEN 0 ELSE v[i - 1] * base + HexValue(body[from + i - 1])]
    BY <1>5, Zenon DEF Values
  <1> HIDE DEF v
  <1>7. v[0] = 0 /\ \A i \in 1..n : v[i] = v[i - 1] * base + HexValue(body[from + i - 1])
    <2>1. 0 \in 0..n /\ \A i \in 1..n : i \in 0..n /\ i # 0 OBVIOUS
    <2> QED BY <1>6, <2>1
  <1>8. \A i \in 0..n : v[i] \in Nat
    <2> DEFINE G == {i \in 0..n : v[i] \in Nat}
    <2>1. 0 \in G BY <1>7
    <2>2. ASSUME NEW i \in 1..n, i - 1 \in G PROVE i \in G
      <3>1. v[i - 1] \in Nat /\ i \in 0..n BY <2>2
      <3>2. HexValue(body[from + i - 1]) \in Nat OBVIOUS
      <3>3. v[i] = v[i - 1] * base + HexValue(body[from + i - 1]) BY <1>7
      <3>4. v[i - 1] * base + HexValue(body[from + i - 1]) \in Nat
        <4>1. base \in Nat OBVIOUS
        <4> QED BY ONLY <3>1, <3>2, <4>1, Linear, Zenon
      <3>5. v[i] \in Nat BY <3>3, <3>4, Zenon
      <3> QED BY <3>1, <3>5
    <2>3. \A i \in 0..n : i \in G
      <3> HIDE DEF G
      <3> QED BY <2>1, <2>2, Upwards
    <2> QED BY <2>3
  <1> QED BY <1>7, <1>8 DEF v

LEMMA WeightsEquation ==
  ASSUME NEW base \in Nat, NEW n \in Nat
  PROVE  LET v == Weights(base, n)
         IN  /\ v[0] = 1 /\ \A i \in 0..n : v[i] \in Nat
             /\ \A i \in 1..n : v[i] = v[i - 1] * base
  <1> DEFINE A == [i \in 1..n |-> base]
             B == [i \in 1..n |-> 0]
             v == Weights(base, n)
  <1>1. A \in [1..n -> Nat] /\ B \in [1..n -> Nat] /\ 1 \in Nat OBVIOUS
  <1>2. \A i \in 0..n : i # 0 => i \in 1..n /\ i - 1 \in 0..n OBVIOUS
  <1>3. \A i \in 1..n : A[i] = base /\ B[i] = 0 OBVIOUS
  <1> HIDE DEF A, B
  <1>4. PICK f \in [0..n -> Nat] : f = [i \in 0..n |-> IF i = 0 THEN 1 ELSE f[i - 1] * A[i] + B[i]]
    <2>1. 1 \in Nat OBVIOUS
    <2>2. \E f \in [0..n -> Nat] : Solves(f, n, A, B, 1) BY <1>1, <2>1, LinearSolved
    <2> QED BY <2>2 DEF Solves
  <1>5. f = [i \in 0..n |-> IF i = 0 THEN 1 ELSE f[i - 1] * base]
    <2>1. ASSUME NEW i \in 0..n, i # 0 PROVE f[i - 1] * A[i] + B[i] = f[i - 1] * base
      <3>1. f[i - 1] \in Nat /\ A[i] = base /\ B[i] = 0 BY <1>2, <1>3, <2>1
      <3>2. f[i - 1] * base \in Nat BY <3>1
      <3> QED BY <3>1, <3>2
    <2> QED BY <1>4, <2>1
  <1>6. v = [i \in 0..n |-> IF i = 0 THEN 1 ELSE v[i - 1] * base]
    BY <1>5, Zenon DEF Weights
  <1> HIDE DEF v
  <1>7. v[0] = 1 /\ \A i \in 1..n : v[i] = v[i - 1] * base
    <2>1. 0 \in 0..n /\ \A i \in 1..n : i \in 0..n /\ i # 0 OBVIOUS
    <2> QED BY <1>6, <2>1
  <1>8. \A i \in 0..n : v[i] \in Nat
    <2> DEFINE G == {i \in 0..n : v[i] \in Nat}
    <2>1. 0 \in G BY <1>7
    <2>2. ASSUME NEW i \in 1..n, i - 1 \in G PROVE i \in G
      <3>1. v[i - 1] \in Nat /\ i \in 0..n BY <2>2
      <3>2. v[i] \in Nat BY <1>7, <3>1
      <3> QED BY <3>1, <3>2
    <2>3. \A i \in 0..n : i \in G
      <3> HIDE DEF G
      <3> QED BY <2>1, <2>2, Upwards
    <2> QED BY <2>3
  <1> QED BY <1>7, <1>8 DEF v

LEMMA LastsEquation ==
  ASSUME NEW body, NEW from \in Nat, NEW base \in Nat, NEW n \in Nat,
         \A i \in 1..n : HexValue(body[from + n - i]) \in Nat
  PROVE  LET v == Lasts(body, from, base, n)
             w == Weights(base, n)
         IN  /\ v[0] = 0 /\ \A i \in 0..n : v[i] \in Nat
             /\ \A i \in 1..n : v[i] = v[i - 1] + HexValue(body[from + n - i]) * w[i - 1]
  <1> DEFINE w == Weights(base, n)
             A == [i \in 1..n |-> 1]
             B == [i \in 1..n |-> HexValue(body[from + n - i]) * w[i - 1]]
             v == Lasts(body, from, base, n)
  <1>0. \A i \in 0..n : w[i] \in Nat BY WeightsEquation
  <1>9. v = LET last[i \in 0..n] == IF i = 0 THEN 0
                                    ELSE last[i - 1] + HexValue(body[from + n - i]) * w[i - 1]
            IN last
    BY DEF Lasts, Weights
  <1> HIDE DEF w
  <1>2. \A i \in 0..n : i # 0 => i \in 1..n /\ i - 1 \in 0..n OBVIOUS
  <1>1. A \in [1..n -> Nat] /\ B \in [1..n -> Nat]
    <2>1. ASSUME NEW i \in 1..n PROVE HexValue(body[from + n - i]) * w[i - 1] \in Nat
      <3>1. i - 1 \in 0..n OBVIOUS
      <3>2. w[i - 1] \in Nat /\ HexValue(body[from + n - i]) \in Nat BY <1>0, <3>1
      <3> QED BY <3>2
    <2> QED BY <2>1
  <1>3. \A i \in 1..n : A[i] = 1 /\ B[i] = HexValue(body[from + n - i]) * w[i - 1] OBVIOUS
  <1> HIDE DEF A, B
  <1>4. PICK f \in [0..n -> Nat] : f = [i \in 0..n |-> IF i = 0 THEN 0 ELSE f[i - 1] * A[i] + B[i]]
    <2>1. 0 \in Nat OBVIOUS
    <2>2. \E f \in [0..n -> Nat] : Solves(f, n, A, B, 0) BY <1>1, <2>1, LinearSolved
    <2> QED BY <2>2 DEF Solves
  <1>5. f = [i \in 0..n |-> IF i = 0 THEN 0 ELSE f[i - 1] + HexValue(body[from + n - i]) * w[i - 1]]
    <2>1. ASSUME NEW i \in 0..n, i # 0 PROVE f[i - 1] * A[i] = f[i - 1]
      <3>1. f[i - 1] \in Nat /\ A[i] = 1 BY <1>2, <1>3, <2>1
      <3> QED BY <3>1
    <2> QED BY <1>2, <1>3, <1>4, <2>1
  <1>6. v = [i \in 0..n |-> IF i = 0 THEN 0 ELSE v[i - 1] + HexValue(body[from + n - i]) * w[i - 1]]
    <2> HIDE DEF v
    <2> QED BY <1>5, <1>9, Zenon
  <1> HIDE DEF v
  <1>7. v[0] = 0 /\ \A i \in 1..n : v[i] = v[i - 1] + HexValue(body[from + n - i]) * w[i - 1]
    <2>1. 0 \in 0..n /\ \A i \in 1..n : i \in 0..n /\ i # 0 OBVIOUS
    <2> QED BY <1>6, <2>1
  <1>8. \A i \in 0..n : v[i] \in Nat
    <2> DEFINE G == {i \in 0..n : v[i] \in Nat}
    <2>1. 0 \in G BY <1>7
    <2>2. ASSUME NEW i \in 1..n, i - 1 \in G PROVE i \in G
      <3>1. v[i - 1] \in Nat /\ i \in 0..n BY <2>2
      <3>2. v[i] = v[i - 1] + B[i] /\ B[i] \in Nat BY <1>1, <1>3, <1>7
      <3>3. v[i] \in Nat BY <3>1, <3>2
      <3> QED BY <3>1, <3>3
    <2>3. \A i \in 0..n : i \in G
      <3> HIDE DEF G
      <3> QED BY <2>1, <2>2, Upwards
    <2> QED BY <2>3
  <1> QED BY <1>7, <1>8 DEF v, w

(* Reading digits from the left gives what their places say.               *)
LEMMA NumberSays ==
  ASSUME NEW body, NEW from \in Nat, NEW base \in Nat, NEW n \in Nat,
         \A i \in from..from + n - 1 : body[i] \in DigitsOf(16)
  PROVE  /\ Number(body, from, base, n) \in Nat
         /\ Number(body, from, base, n) = Says(body, from, base, n)
  <1> DEFINE h == Values(body, from, base, n)
             w == Weights(base, n)
             l == Lasts(body, from, base, n)
             d == [i \in 1..n |-> HexValue(body[from + i - 1])]
             G == {i \in 0..n : h[n] = h[n - i] * w[i] + l[i]}
  <1>1. \A i \in from..from + n - 1 : HexValue(body[i]) \in Nat BY HexDigits
  <1>2. \A i \in 1..n : from + i - 1 \in from..from + n - 1 /\ from + n - i \in from..from + n - 1 OBVIOUS
  <1>3. d \in [1..n -> Nat] BY <1>1, <1>2
  <1>4. /\ h[0] = 0 /\ \A i \in 0..n : h[i] \in Nat
        /\ \A i \in 1..n : h[i] = h[i - 1] * base + d[i]
    <2>1. \A i \in 1..n : HexValue(body[from + i - 1]) \in Nat BY <1>1, <1>2
    <2> QED BY <2>1, ValuesEquation
  <1>5. w[0] = 1 /\ (\A i \in 0..n : w[i] \in Nat) /\ \A i \in 1..n : w[i] = w[i - 1] * base
    BY WeightsEquation
  <1>6. /\ l[0] = 0 /\ \A i \in 0..n : l[i] \in Nat
        /\ \A i \in 1..n : l[i] = l[i - 1] + d[n - i + 1] * w[i - 1]
    <2>1. \A i \in 1..n : HexValue(body[from + n - i]) \in Nat BY <1>1, <1>2
    <2>2. \A i \in 1..n : n - i + 1 \in 1..n /\ from + (n - i + 1) - 1 = from + n - i OBVIOUS
    <2>3. \A i \in 1..n : d[n - i + 1] = HexValue(body[from + n - i]) BY <2>2
    <2> QED BY <2>1, <2>3, LastsEquation
  <1>7. Number(body, from, base, n) = h[n] BY DEF Number, Values
  <1>8. Says(body, from, base, n) = l[n] BY DEF Says, Lasts
  <1> HIDE DEF h, w, l, d
  <1>9. 0 \in G
    <2>1. n - 0 = n /\ n \in 0..n /\ 0 \in 0..n OBVIOUS
    <2>2. h[n] * 1 + 0 = h[n] BY <1>4, <2>1
    <2> QED BY <1>5, <1>6, <2>1, <2>2
  <1>10. ASSUME NEW i \in 1..n, i - 1 \in G PROVE i \in G
    <2> DEFINE k == n - i + 1
               u == h[n - i]
               x == w[i - 1]
               z == d[k]
               y == l[i - 1]
    <2>1. k \in 1..n /\ k - 1 = n - i /\ n - i \in 0..n /\ i - 1 \in 0..n /\ n - (i - 1) = k /\ i \in 0..n OBVIOUS
    <2>2. h[n] = h[k] * x + y BY <1>10, <2>1
    <2>3. h[k] = u * base + z BY <1>4, <2>1
    <2>4. w[i] = x * base /\ l[i] = y + z * x BY <1>5, <1>6
    <2>5. u \in Nat /\ x \in Nat /\ z \in Nat /\ y \in Nat BY <1>3, <1>4, <1>5, <1>6, <2>1
    <2> HIDE DEF u, x, z, y
    <2>6. (u * base + z) * x + y = u * (x * base) + (y + z * x)
      <3>1. (u * base + z) * x = u * base * x + z * x BY <2>5
      <3>2. u * base * x = u * (x * base) BY <2>5
      <3>3. u * base * x \in Nat /\ z * x \in Nat BY <2>5
      <3> QED BY <2>5, <3>1, <3>2, <3>3
    <2>7. h[n] = u * w[i] + l[i] BY <2>2, <2>3, <2>4, <2>6
    <2> QED BY <2>1, <2>7 DEF u
  <1>11. \A i \in 0..n : i \in G
    <2> HIDE DEF G
    <2> QED BY <1>9, <1>10, Upwards
  <1>12. h[n] = l[n]
    <2>1. n \in 0..n /\ n - n = 0 OBVIOUS
    <2>2. h[n] = h[0] * w[n] + l[n] BY <1>11, <2>1
    <2> QED BY <1>4, <1>5, <1>6, <2>1, <2>2
  <1>13. n \in 0..n OBVIOUS
  <1> QED BY <1>4, <1>7, <1>8, <1>12, <1>13

(* Three octal digits make no more than 511.                               *)
LEMMA OctalSmall ==
  ASSUME NEW body, NEW from \in Nat, NEW n \in 0..3,
         \A i \in from..from + n - 1 : body[i] \in DigitsOf(8)
  PROVE  Number(body, from, 8, n) <= 511
  <1> DEFINE h == Values(body, from, 8, n)
             d == [i \in 1..n |-> HexValue(body[from + i - 1])]
  <1>1. \A i \in 1..n : HexValue(body[from + i - 1]) \in 0..7
    <2>1. \A i \in 1..n : from + i - 1 \in from..from + n - 1 OBVIOUS
    <2> QED BY <2>1, HexDigits
  <1>2. h[0] = 0 /\ (\A i \in 0..n : h[i] \in Nat) /\ \A i \in 1..n : h[i] = h[i - 1] * 8 + d[i]
    <2>1. \A i \in 1..n : HexValue(body[from + i - 1]) \in Nat BY <1>1
    <2>2. n \in Nat /\ 8 \in Nat /\ from \in Nat OBVIOUS
    <2>3. \A i \in 1..n : d[i] = HexValue(body[from + i - 1]) OBVIOUS
    <2> HIDE DEF h, d
    <2>4. /\ h[0] = 0 /\ (\A i \in 0..n : h[i] \in Nat)
          /\ \A i \in 1..n : h[i] = h[i - 1] * 8 + HexValue(body[from + i - 1])
      <3> USE DEF h
      <3> QED BY ONLY <2>1, <2>2, ValuesEquation, Zenon
    <2> QED BY <2>3, <2>4
  <1>3. Number(body, from, 8, n) = h[n] BY DEF Number, Values
  <1>4. \A i \in 1..n : d[i] \in 0..7 BY <1>1
  <1> HIDE DEF h, d
  <1>5. n = 0 \/ n = 1 \/ n = 2 \/ n = 3 OBVIOUS
  <1>6. n >= 1 => h[1] <= 7
    <2>1. n >= 1 => 1 \in 1..n /\ 1 - 1 = 0 OBVIOUS
    <2>2. n >= 1 => h[1] = h[0] * 8 + d[1] /\ d[1] \in 0..7 BY <1>2, <1>4, <2>1
    <2> QED BY <1>2, <2>2
  <1>7. n >= 2 => h[2] <= 63
    <2>1. n >= 2 => 2 \in 1..n /\ 2 - 1 = 1 /\ 1 \in 0..n OBVIOUS
    <2>2. n >= 2 => h[2] = h[1] * 8 + d[2] /\ d[2] \in 0..7 /\ h[1] \in Nat BY <1>2, <1>4, <2>1
    <2>3. n >= 2 => n >= 1 OBVIOUS
    <2> QED BY <1>6, <2>2, <2>3
  <1>8. n >= 3 => h[3] <= 511
    <2>1. n >= 3 => 3 \in 1..n /\ 3 - 1 = 2 /\ 2 \in 0..n OBVIOUS
    <2>2. n >= 3 => h[3] = h[2] * 8 + d[3] /\ d[3] \in 0..7 /\ h[2] \in Nat BY <1>2, <1>4, <2>1
    <2>3. n >= 3 => n >= 2 OBVIOUS
    <2> QED BY <1>7, <2>2, <2>3
  <1> QED BY <1>2, <1>3, <1>5, <1>6, <1>7, <1>8
-----------------------------------------------------------------------------
(* The digits of an escape, and which characters are escapes.              *)

DigitHere(body, p, base) == p <= Len(body) /\ body[p] \in DigitsOf(base)

LEMMA RunIs ==
  ASSUME NEW body, NEW from \in Nat, NEW base, NEW limit \in Nat
  PROVE  LET n == Run(body, from, base, limit)
         IN  /\ n \in 0..limit /\ \A i \in from..from + n - 1 : DigitHere(body, i, base)
             /\ n < limit => ~DigitHere(body, from + n, base)
  <1> DEFINE P == {m \in 0..limit : m = limit \/ ~DigitHere(body, from + m, base)}
             Is(n) == /\ \A i \in from..from + n - 1 : DigitHere(body, i, base)
                      /\ n < limit => ~DigitHere(body, from + n, base)
  <1>1. limit \in P /\ P \in SUBSET Nat OBVIOUS
  <1>2. PICK m \in P : \A k \in P : m <= k
    <2> HIDE DEF P
    <2> QED BY <1>1, FirstPlace
  <1>3. Is(m)
    <2>1. m \in 0..limit /\ (m < limit => ~DigitHere(body, from + m, base)) BY <1>2
    <2>2. ASSUME NEW i \in from..from + m - 1 PROVE DigitHere(body, i, base)
      <3>1. i - from \in 0..limit /\ i - from # limit /\ ~(m <= i - from) /\ from + (i - from) = i
        BY <2>1
      <3>2. i - from \notin P BY <1>2, <3>1
      <3> QED BY <3>1, <3>2
    <2> QED BY <2>1, <2>2
  <1>4. m \in 0..limit BY <1>2
  <1>5. Run(body, from, base, limit) = CHOOSE n \in 0..limit : Is(n) BY DEF Run, DigitHere
  <1> HIDE DEF Is, P
  <1>6. Run(body, from, base, limit) \in 0..limit /\ Is(Run(body, from, base, limit))
    BY <1>3, <1>4, <1>5
  <1> QED BY <1>6 DEF Is

(* What runs is all the digits there are.                                  *)
LEMMA RunPlaces ==
  ASSUME NEW S, NEW body \in Seq(S), NEW from \in Nat \ {0}, NEW base, NEW limit \in Nat
  PROVE  LET n == Run(body, from, base, limit)
         IN  /\ n \in Nat /\ n <= limit
             /\ DigitPlaces(body, from, base, limit) = from..from + n - 1
             /\ Cardinality(DigitPlaces(body, from, base, limit)) = n
             /\ \A i \in from..from + n - 1 : i \in DOMAIN body /\ body[i] \in DigitsOf(base)
             /\ n < limit => ~DigitHere(body, from + n, base)
  <1> DEFINE n == Run(body, from, base, limit)
             D == DigitPlaces(body, from, base, limit)
  <1>1. /\ n \in 0..limit /\ \A i \in from..from + n - 1 : DigitHere(body, i, base)
        /\ n < limit => ~DigitHere(body, from + n, base)
    BY RunIs
  <1>2. D = {p \in 1..Len(body) :
               p \in from..from + limit - 1 /\ \A q \in from..p : body[q] \in DigitsOf(base)}
    BY DEF DigitPlaces
  <1> HIDE DEF n, D
  <1>3. Len(body) \in Nat /\ DOMAIN body = 1..Len(body) OBVIOUS
  <1>4. \A i \in from..from + n - 1 : i \in 1..Len(body) /\ body[i] \in DigitsOf(base)
    BY <1>1, <1>3 DEF DigitHere
  <1>5. ASSUME NEW p \in D PROVE p \in from..from + n - 1
    <2>1. p \in 1..Len(body) /\ p \in from..from + limit - 1 /\ \A q \in from..p : body[q] \in DigitsOf(base)
      BY <1>2
    <2>2. SUFFICES ASSUME ~(p <= from + n - 1) PROVE FALSE BY <1>1, <2>1
    <2>3. n < limit /\ from + n \in from..p /\ from + n <= Len(body) BY <1>1, <1>3, <2>1, <2>2
    <2> QED BY <1>1, <2>1, <2>3 DEF DigitHere
  <1>6. ASSUME NEW p \in from..from + n - 1 PROVE p \in D
    <2>1. p \in from..from + limit - 1 /\ \A q \in from..p : q \in from..from + n - 1 BY <1>1
    <2> QED BY <1>2, <1>4, <2>1
  <1>7. D = from..from + n - 1 BY <1>5, <1>6
  <1>8. Cardinality(from..from + n - 1) = n
    <2>1. from \in Int /\ from + n - 1 \in Int /\ n \in Nat BY <1>1
    <2>2. Cardinality(from..from + n - 1) =
            IF from > from + n - 1 THEN 0 ELSE (from + n - 1) - from + 1
      BY <2>1, FS_Interval
    <2> QED BY <2>1, <2>2
  <1> QED BY <1>1, <1>3, <1>4, <1>7, <1>8 DEF n, D

(* The backslashes right before r.                                         *)
Backslashes(body, r) == {b \in 1..r - 1 : \A c \in b..r - 1 : body[c] = "\\"}

LEMMA BackslashesNext ==
  ASSUME NEW body
  PROVE  /\ Cardinality(Backslashes(body, 1)) = 0
         /\ \A p \in Nat \ {0} :
               /\ Cardinality(Backslashes(body, p)) \in Nat
               /\ Cardinality(Backslashes(body, p + 1)) =
                     IF body[p] = "\\" THEN Cardinality(Backslashes(body, p)) + 1 ELSE 0
  <1>1. Cardinality(Backslashes(body, 1)) = 0
    <2>1. Backslashes(body, 1) = {} BY DEF Backslashes
    <2> QED BY <2>1, FS_EmptySet
  <1>2. ASSUME NEW p \in Nat \ {0}
        PROVE  /\ Cardinality(Backslashes(body, p)) \in Nat
               /\ Cardinality(Backslashes(body, p + 1)) =
                     IF body[p] = "\\" THEN Cardinality(Backslashes(body, p)) + 1 ELSE 0
    <2>1. IsFiniteSet(Backslashes(body, p)) /\ Cardinality(Backslashes(body, p)) \in Nat
      <3>1. IsFiniteSet(1..p - 1) BY FS_Interval
      <3>2. Backslashes(body, p) \subseteq 1..p - 1 BY DEF Backslashes
      <3>3. IsFiniteSet(Backslashes(body, p)) BY <3>1, <3>2, FS_Subset
      <3> QED BY <3>3, FS_CardinalityType
    <2>2. CASE body[p] # "\\"
      <3>1. \A b \in 1..p + 1 - 1 : p \in b..p + 1 - 1 OBVIOUS
      <3>2. Backslashes(body, p + 1) = {} BY <2>2, <3>1 DEF Backslashes
      <3>3. Cardinality(Backslashes(body, p + 1)) = 0 BY <3>2, FS_EmptySet
      <3> QED BY <2>1, <2>2, <3>3
    <2>3. CASE body[p] = "\\"
      <3>1. Backslashes(body, p + 1) = Backslashes(body, p) \cup {p}
        <4>1. \A b \in 1..p : b \in Nat /\ b <= p /\ (b # p => b \in 1..p - 1) OBVIOUS
        <4>2. \A b \in Nat : b <= p => \A c \in b..p : c = p \/ c \in b..p - 1 OBVIOUS
        <4>3. \A b \in 1..p - 1 : b \in 1..p /\ \A c \in b..p - 1 : c \in b..p OBVIOUS
        <4>4. p + 1 - 1 = p /\ p \in 1..p /\ \A c \in p..p : c = p OBVIOUS
        <4>5. Backslashes(body, p + 1) = {b \in 1..p : \A c \in b..p : body[c] = "\\"} BY <4>4 DEF Backslashes
        <4> QED BY <2>3, <4>1, <4>2, <4>3, <4>4, <4>5 DEF Backslashes
      <3>2. p \notin Backslashes(body, p) BY DEF Backslashes
      <3>3. Cardinality(Backslashes(body, p + 1)) = Cardinality(Backslashes(body, p)) + 1
        BY <2>1, <3>1, <3>2, FS_AddElement
      <3> QED BY <2>1, <2>3, <3>3
    <2> QED BY <2>2, <2>3
  <1> QED BY <1>1, <1>2

(* Of backslashes in a row every other one escapes.                        *)
LEMMA EscapesAlternate ==
  ASSUME NEW S, NEW body \in Seq(S)
  PROVE  /\ EscapesIn(body) \subseteq DOMAIN body
         /\ \A p \in EscapesIn(body) : body[p] = "\\"
         /\ \A p \in DOMAIN body :
               body[p] = "\\" /\ p \notin EscapesIn(body) => p - 1 \in EscapesIn(body)
         /\ \A p \in EscapesIn(body) : p + 1 \notin EscapesIn(body)
  <1> DEFINE C(p) == Cardinality(Backslashes(body, p))
  <1>1. EscapesIn(body) = {i \in DOMAIN body : body[i] = "\\" /\ C(i) % 2 = 0} BY DEF EscapesIn, Backslashes
  <1>2. C(1) = 0 /\ \A p \in Nat \ {0} : C(p) \in Nat /\ C(p + 1) = IF body[p] = "\\" THEN C(p) + 1 ELSE 0
    BY BackslashesNext
  <1> HIDE DEF C
  <1>3. DOMAIN body = 1..Len(body) /\ Len(body) \in Nat OBVIOUS
  <1>4. \A n \in Nat : (n + 1) % 2 = 0 <=> n % 2 # 0 OBVIOUS
  <1>5. 0 % 2 = 0 OBVIOUS
  <1>6. ASSUME NEW p \in DOMAIN body, body[p] = "\\", p \notin EscapesIn(body)
        PROVE  p - 1 \in EscapesIn(body)
    <2>1. C(p) % 2 # 0 BY <1>1, <1>6
    <2>2. p # 1 BY <1>2, <1>5, <2>1
    <2>3. p - 1 \in 1..Len(body) /\ p - 1 \in Nat \ {0} /\ (p - 1) + 1 = p BY <1>3, <2>2
    <2>4. C(p) = IF body[p - 1] = "\\" THEN C(p - 1) + 1 ELSE 0 BY <1>2, <2>3
    <2>5. body[p - 1] = "\\" /\ C(p) = C(p - 1) + 1 BY <1>5, <2>1, <2>4
    <2>6. C(p - 1) % 2 = 0 BY <1>2, <1>4, <2>1, <2>3, <2>5
    <2> QED BY <1>1, <1>3, <2>3, <2>5, <2>6
  <1>7. ASSUME NEW p \in EscapesIn(body) PROVE p + 1 \notin EscapesIn(body)
    <2>1. p \in Nat \ {0} /\ body[p] = "\\" /\ C(p) % 2 = 0 BY <1>1, <1>3
    <2>2. C(p + 1) = C(p) + 1 /\ C(p) \in Nat BY <1>2, <2>1
    <2>3. C(p + 1) % 2 # 0 BY <1>4, <2>1, <2>2
    <2> QED BY <1>1, <2>3
  <1> QED BY <1>1, <1>6, <1>7
(* What a backslash means that escapes, if it means something.             *)
SaidBy(body, i) ==
  IF DigitsAt(body, i) # {} THEN Code(ValueAt(body, i)) ELSE Plain(<<"\\", body[i + 1]>>)

(* Decoded characters, and the error, which is a sequence of one mark.     *)
Said == ({"plain"} \X Seq(STRING)) \cup ({"code"} \X Nat) \cup {<<"error">>}

LEMMA ErrorApart ==
  /\ Error \in Seq(Said) /\ Len(Error) = 1
  /\ \A a, b : <<a, b>> # Error
  /\ \A s : <<Plain(s)>> # Error /\ <<Code(s)>> # Error
  /\ \A v \in Said, s \in Seq(Said) : v # <<"error">> => <<v>> \o s # Error
  <1>1. <<"error">> \in Said BY DEF Said
  <1>2. Error \in Seq(Said) /\ Len(Error) = 1 /\ Error[1] = <<"error">>
    <2> HIDE DEF Said
    <2> QED BY <1>1 DEF Error
  <1>3. ASSUME NEW a, NEW b PROVE <<a, b>> # Error
    <2>1. Len(<<a, b>>) = 2 OBVIOUS
    <2> QED BY <1>2, <2>1
  <1>4. ASSUME NEW s PROVE Plain(s) # <<"error">> /\ Code(s) # <<"error">>
    <2>1. Len(<<"plain", s>>) = 2 /\ Len(<<"code", s>>) = 2 /\ Len(<<"error">>) = 1 OBVIOUS
    <2> QED BY <2>1 DEF Plain, Code
  <1>5. ASSUME NEW s PROVE <<Plain(s)>> # Error /\ <<Code(s)>> # Error
    <2>1. <<Plain(s)>>[1] = Plain(s) /\ <<Code(s)>>[1] = Code(s) OBVIOUS
    <2> QED BY <1>2, <1>4, <2>1
  <1>6. ASSUME NEW v \in Said, NEW s \in Seq(Said), v # <<"error">> PROVE <<v>> \o s # Error
    <2> HIDE DEF Said
    <2>1. (<<v>> \o s)[1] = v OBVIOUS
    <2> QED BY <1>2, <1>6, <2>1
  <1> QED BY <1>2, <1>3, <1>5, <1>6

LEMMA Wraps ==
  ASSUME NEW v \in Nat
  PROVE  v % UnsignedModulus \in Nat /\ (v < UnsignedModulus => v % UnsignedModulus = v)
  <1>1. UnsignedModulus \in Nat /\ UnsignedModulus > 0 BY LiteralAssumption
  <1> QED BY <1>1

LEMMA InRangeIs ==
  ASSUME NEW v \in Nat, NEW next
  PROVE  /\ InRange(v, next) = Error \/ InRange(v, next) = <<Code(v % UnsignedModulus), next>>
         /\ v < UnsignedModulus =>
               InRange(v, next) = IF v <= 255 THEN <<Code(v), next>> ELSE Error
  <1>1. InRange(v, next) = Error \/ InRange(v, next) = <<Code(v % UnsignedModulus), next>>
    BY DEF InRange
  <1>2. v < UnsignedModulus => v % UnsignedModulus = v BY Wraps
  <1>3. (v > 255) <=> ~(v <= 255) OBVIOUS
  <1>4. ASSUME v < UnsignedModulus
        PROVE  InRange(v, next) = IF v <= 255 THEN <<Code(v), next>> ELSE Error
    <2>1. v % UnsignedModulus = v BY <1>2, <1>4
    <2>2. InRange(v, next) = IF v > 255 THEN Error ELSE <<Code(v), next>> BY <2>1 DEF InRange
    <2> QED BY <1>3, <2>2
  <1> QED BY <1>1, <1>4

(* The four things a backslash can be followed by: digits of a base, ...   *)
DigitsFrom(body, i) == IF body[i + 1] = "x" THEN i + 2 ELSE i + 1
BaseAt(body, i) == IF body[i + 1] = "x" THEN 16 ELSE 8
LimitAt(body, i) == IF body[i + 1] = "x" THEN Len(body) ELSE 3

LEMMA DigitsAtIs ==
  ASSUME NEW S, NEW body \in Seq(S), NEW i \in DOMAIN body, i < Len(body),
         body[i + 1] = "x" \/ body[i + 1] \in DigitsOf(8)
  PROVE  DigitsAt(body, i) =
           DigitPlaces(body, DigitsFrom(body, i), BaseAt(body, i), LimitAt(body, i))
  <1>1. "x" \notin DigitsOf(8)
    <2>1. "x" \notin DigitsOf(16) /\ DigitsOf(8) \subseteq DigitsOf(16) BY HexDigits
    <2> QED BY <2>1
  <1>2. CASE body[i + 1] = "x"
    <2>1. IsHex(body, i) /\ ~IsOctal(body, i) BY <1>1, <1>2 DEF IsHex, IsOctal
    <2> QED BY <1>2, <2>1 DEF DigitsAt, DigitsFrom, BaseAt, LimitAt
  <1>3. CASE body[i + 1] # "x"
    <2>1. ~IsHex(body, i) /\ IsOctal(body, i) BY <1>3 DEF IsHex, IsOctal
    <2> QED BY <1>3, <2>1 DEF DigitsAt, DigitsFrom, BaseAt, LimitAt
  <1> QED BY <1>2, <1>3

LEMMA NumberedEscape ==
  ASSUME NEW S, NEW body \in Seq(S), NEW i \in DOMAIN body, i < Len(body), body[i] = "\\",
         body[i + 1] = "x" \/ body[i + 1] \in DigitsOf(8),
         NEW from, from = DigitsFrom(body, i),
         NEW n, n = Run(body, from, BaseAt(body, i), LimitAt(body, i)),
         NEW v, v = Number(body, from, BaseAt(body, i), n)
  PROVE  /\ n \in Nat /\ DigitsAt(body, i) = from..from + n - 1
         /\ v \in Nat /\ ValueAt(body, i) = v
         /\ from + n \in i + 2..Len(body) + 1
         /\ {i + 1} \cup DigitsAt(body, i) = i + 1..from + n - 1
         /\ body[i + 1] # "x" => v < UnsignedModulus /\ n # 0
         /\ DecodeOne(body, i) = IF n = 0 THEN Error ELSE InRange(v, from + n)
         /\ body[i + 1] \notin Escapes
  <1> DEFINE base == BaseAt(body, i)
             limit == LimitAt(body, i)
             D == DigitsAt(body, i)
  <1>0. /\ from = DigitsFrom(body, i) /\ n = Run(body, from, base, limit)
        /\ v = Number(body, from, base, n)
    OBVIOUS
  <1>1. DOMAIN body = 1..Len(body) /\ Len(body) \in Nat /\ i \in Nat /\ i >= 1 /\ i < Len(body) OBVIOUS
  <1>2. from \in Nat \ {0} /\ limit \in Nat /\ base \in Nat /\ (from = i + 1 \/ from = i + 2)
    BY <1>1 DEF DigitsFrom, LimitAt, BaseAt
  <1>4. D = DigitPlaces(body, from, base, limit) BY <1>0, DigitsAtIs
  <1>5. /\ n \in Nat /\ n <= limit /\ D = from..from + n - 1 /\ Cardinality(D) = n
        /\ \A k \in from..from + n - 1 : k \in DOMAIN body /\ body[k] \in DigitsOf(base)
        /\ n < limit => ~DigitHere(body, from + n, base)
    <2>1. DigitPlaces(body, from, base, limit) = D BY <1>4
    <2> HIDE DEF base, limit, D
    <2> QED BY <1>0, <1>2, <2>1, RunPlaces
  <1>6. \A k \in from..from + n - 1 : body[k] \in DigitsOf(16)
    <2>1. base = 16 \/ base = 8 BY DEF BaseAt
    <2> HIDE DEF base
    <2> QED BY <1>5, <2>1, HexDigits
  <1>7. v \in Nat /\ v = Says(body, from, base, n)
    <2>1. from \in Nat /\ base \in Nat /\ n \in Nat /\ v = Number(body, from, base, n)
      BY <1>0, <1>2, <1>5
    <2> HIDE DEF base
    <2> QED BY ONLY <1>6, <2>1, NumberSays
  <1>8. ValueAt(body, i) = v
    <2>1. CASE body[i + 1] = "x"
      <3>1. IsHex(body, i) BY <1>1, <2>1 DEF IsHex
      <3> QED BY <1>5, <1>7, <2>1, <3>1 DEF ValueAt, DigitsFrom, BaseAt
    <2>2. CASE body[i + 1] # "x"
      <3>1. ~IsHex(body, i) BY <2>2 DEF IsHex
      <3> QED BY <1>5, <1>7, <2>2, <3>1 DEF ValueAt, DigitsFrom, BaseAt
    <2> QED BY <2>1, <2>2
  <1>9. body[i + 1] # "x" => v < UnsignedModulus /\ n # 0
    <2>1. SUFFICES ASSUME body[i + 1] # "x" PROVE v < UnsignedModulus /\ n # 0 OBVIOUS
    <2>2. from = i + 1 /\ base = 8 /\ limit = 3 BY <2>1 DEF DigitsFrom, BaseAt, LimitAt
    <2>3. n # 0
      <3>1. SUFFICES ASSUME n = 0 PROVE FALSE OBVIOUS
      <3> HIDE DEF base, limit
      <3>2. from + n = i + 1 /\ n < limit BY <1>1, <2>2, <3>1
      <3>3. ~DigitHere(body, i + 1, 8) BY <1>5, <2>2, <3>2
      <3> QED BY <1>1, <2>1, <3>3 DEF DigitHere
    <2>4. v <= 511
      <3>1. n \in 0..3 BY <1>5, <2>2
      <3>2. v = Number(body, from, 8, n) BY <1>0, <2>2
      <3>3. \A k \in from..from + n - 1 : body[k] \in DigitsOf(8) BY <1>5, <2>2
      <3>4. from \in Nat BY <1>2
      <3> HIDE DEF base, limit
      <3> QED BY ONLY <3>1, <3>2, <3>3, <3>4, OctalSmall
    <2>5. UnsignedModulus \in Nat /\ UnsignedModulus > 511 BY LiteralAssumption
    <2> QED BY <1>7, <2>3, <2>4, <2>5
  <1>10. from + n \in i + 2..Len(body) + 1 /\ {i + 1} \cup D = i + 1..from + n - 1
    <2> HIDE DEF D
    <2>1. CASE body[i + 1] = "x"
      <3>1. from = i + 2 BY <2>1 DEF DigitsFrom
      <3>2. n = 0 \/ from + n - 1 \in DOMAIN body BY <1>5, <3>1, <1>1
      <3> QED BY <1>1, <1>5, <3>1, <3>2
    <2>2. CASE body[i + 1] # "x"
      <3>1. from = i + 1 BY <2>2 DEF DigitsFrom
      <3>2. n # 0 BY <1>9, <2>2
      <3>3. from + n - 1 \in DOMAIN body BY <1>5, <3>1, <3>2, <1>1
      <3> QED BY <1>1, <1>5, <3>1, <3>2, <3>3
    <2> QED BY <2>1, <2>2
  <1>11. DecodeOne(body, i) = IF n = 0 THEN Error ELSE InRange(v, from + n)
    <2>1. body[i] = "\\" /\ i # Len(body) BY <1>1
    <2>2. CASE body[i + 1] = "x"
      <3>1. from = i + 2 /\ base = 16 /\ limit = Len(body)
        BY <2>2 DEF DigitsFrom, BaseAt, LimitAt
      <3> HIDE DEF base, limit
      <3> QED BY <1>0, <2>1, <2>2, <3>1, Zenon DEF DecodeOne
    <2>3. CASE body[i + 1] # "x"
      <3>1. from = i + 1 /\ base = 8 /\ limit = 3
        BY <2>3 DEF DigitsFrom, BaseAt, LimitAt
      <3>2. body[i + 1] \in DigitsOf(8) BY <2>3
      <3>3. n # 0 BY <1>9, <2>3
      <3> HIDE DEF base, limit
      <3>4. DecodeOne(body, i) = InRange(v, from + n)
        BY <1>0, <2>1, <2>3, <3>1, <3>2, Zenon DEF DecodeOne
      <3> QED BY <3>3, <3>4
    <2> QED BY <2>2, <2>3
  <1>12. body[i + 1] \notin Escapes
    BY HexDigits
  <1> QED BY <1>5, <1>7, <1>8, <1>9, <1>10, <1>11, <1>12
(* ..., or not.                                                            *)
LEMMA NamedEscape ==
  ASSUME NEW S, NEW body \in Seq(S), NEW i \in DOMAIN body, body[i] = "\\",
         ~(i < Len(body) /\ (body[i + 1] = "x" \/ body[i + 1] \in DigitsOf(8)))
  PROVE  /\ DigitsAt(body, i) = {}
         /\ DecodeOne(body, i) = IF i < Len(body) /\ body[i + 1] \in Escapes
                                 THEN <<Plain(<<"\\", body[i + 1]>>), i + 2>> ELSE Error
  <1>1. DOMAIN body = 1..Len(body) /\ Len(body) \in Nat /\ i \in Nat /\ i >= 1 /\ i <= Len(body) OBVIOUS
  <1>2. ~IsHex(body, i) /\ ~IsOctal(body, i)
    BY DEF IsHex, IsOctal
  <1>3. DigitsAt(body, i) = {} BY <1>2 DEF DigitsAt
  <1>4. CASE i = Len(body)
    <2>1. DecodeOne(body, i) = Error BY <1>4, Zenon DEF DecodeOne
    <2> QED BY <1>1, <1>3, <1>4, <2>1
  <1>5. CASE i # Len(body)
    <2>1. i < Len(body) /\ body[i + 1] # "x" /\ body[i + 1] \notin DigitsOf(8) BY <1>1, <1>5
    <2>2. DecodeOne(body, i) = IF body[i + 1] \in Escapes
                               THEN <<Plain(<<"\\", body[i + 1]>>), i + 2>> ELSE Error
      BY <1>5, <2>1, Zenon DEF DecodeOne
    <2> QED BY <1>3, <2>1, <2>2
  <1> QED BY <1>4, <1>5

LEMMA EscapeMeans ==
  ASSUME NEW S, NEW body \in Seq(S), NEW i \in DOMAIN body, body[i] = "\\",
         DigitsAt(body, i) # {} => ValueAt(body, i) < UnsignedModulus
  PROVE  IF WellFormed(body, i)
         THEN \E next \in i + 2..Len(body) + 1 :
                 /\ DecodeOne(body, i) = <<SaidBy(body, i), next>>
                 /\ {i + 1} \cup DigitsAt(body, i) = i + 1..next - 1
         ELSE DecodeOne(body, i) = Error
  <1>1. DOMAIN body = 1..Len(body) /\ Len(body) \in Nat /\ i \in Nat /\ i >= 1 /\ i <= Len(body) OBVIOUS
  <1>2. CASE i < Len(body) /\ (body[i + 1] = "x" \/ body[i + 1] \in DigitsOf(8))
    <2> DEFINE from == DigitsFrom(body, i)
               n == Run(body, from, BaseAt(body, i), LimitAt(body, i))
               v == Number(body, from, BaseAt(body, i), n)
    <2>1. /\ n \in Nat /\ DigitsAt(body, i) = from..from + n - 1
          /\ v \in Nat /\ ValueAt(body, i) = v
          /\ from + n \in i + 2..Len(body) + 1
          /\ {i + 1} \cup DigitsAt(body, i) = i + 1..from + n - 1
          /\ DecodeOne(body, i) = IF n = 0 THEN Error ELSE InRange(v, from + n)
          /\ body[i + 1] \notin Escapes
      BY <1>2, NumberedEscape
    <2>2. from \in Nat BY <1>1 DEF DigitsFrom
    <2> HIDE DEF from, n, v
    <2>3. DigitsAt(body, i) = {} <=> n = 0
      <3>1. n = 0 => from..from + n - 1 = {} BY <2>1, <2>2
      <3>2. n # 0 => from \in from..from + n - 1 BY <2>1, <2>2
      <3> QED BY <2>1, <3>1, <3>2
    <2>4. CASE n = 0 BY <2>1, <2>3, <2>4 DEF WellFormed
    <2>5. CASE n # 0
      <3>1. v < UnsignedModulus BY <2>1, <2>3, <2>5
      <3>2. DecodeOne(body, i) = IF v <= 255 THEN <<Code(v), from + n>> ELSE Error
        BY <2>1, <2>5, <3>1, InRangeIs
      <3>3. WellFormed(body, i) <=> v <= 255 BY <2>1, <2>3, <2>5 DEF WellFormed
      <3>4. SaidBy(body, i) = Code(v) BY <2>1, <2>3, <2>5 DEF SaidBy
      <3>5. CASE v <= 255
        <4>1. DecodeOne(body, i) = <<SaidBy(body, i), from + n>> BY <3>2, <3>4, <3>5
        <4>2. WellFormed(body, i) BY <3>3, <3>5
        <4>3. PICK next : next = from + n OBVIOUS
        <4>4. /\ next \in i + 2..Len(body) + 1 /\ DecodeOne(body, i) = <<SaidBy(body, i), next>>
              /\ {i + 1} \cup DigitsAt(body, i) = i + 1..next - 1
          <5>1. next - 1 = from + n - 1 BY <2>1, <2>2, <4>3
          <5> QED BY <2>1, <4>1, <4>3, <5>1
        <4> QED BY <4>2, <4>4
      <3>6. CASE ~(v <= 255) BY <3>2, <3>3, <3>6
      <3> QED BY <3>5, <3>6
    <2> QED BY <2>4, <2>5
  <1>3. CASE ~(i < Len(body) /\ (body[i + 1] = "x" \/ body[i + 1] \in DigitsOf(8)))
    <2>1. /\ DigitsAt(body, i) = {}
          /\ DecodeOne(body, i) = IF i < Len(body) /\ body[i + 1] \in Escapes
                                  THEN <<Plain(<<"\\", body[i + 1]>>), i + 2>> ELSE Error
      BY <1>3, NamedEscape
    <2>2. WellFormed(body, i) <=> i < Len(body) /\ body[i + 1] \in Escapes BY <2>1 DEF WellFormed
    <2>3. SaidBy(body, i) = Plain(<<"\\", body[i + 1]>>) BY <2>1 DEF SaidBy
    <2>4. CASE WellFormed(body, i)
      <3>1. DecodeOne(body, i) = <<SaidBy(body, i), i + 2>> BY <2>1, <2>2, <2>3, <2>4
      <3>2. i + 2 \in i + 2..Len(body) + 1 /\ i + 2 - 1 = i + 1 /\ i + 1..i + 1 = {i + 1}
        BY <1>1, <2>2, <2>4
      <3>3. {i + 1} \cup DigitsAt(body, i) = i + 1..i + 2 - 1 BY <2>1, <3>2
      <3> QED BY <2>4, <3>1, <3>2, <3>3
    <2>5. CASE ~WellFormed(body, i) BY <2>1, <2>2, <2>5
    <2> QED BY <2>4, <2>5
  <1> QED BY <1>2, <1>3

(* What is decoded is decoded from the front.                              *)
Meaning == Said \ {<<"error">>}

LEMMA Meanings ==
  /\ \A s \in Seq(STRING) : Plain(s) \in Meaning
  /\ \A n \in Nat : Code(n) \in Meaning
  <1>1. \A s : Len(<<"plain", s>>) = 2 /\ Len(<<"code", s>>) = 2 /\ Len(<<"error">>) = 1 OBVIOUS
  <1>2. \A s : Plain(s) # <<"error">> /\ Code(s) # <<"error">> BY <1>1 DEF Plain, Code
  <1>3. \A s \in Seq(STRING) : Plain(s) \in {"plain"} \X Seq(STRING) BY DEF Plain
  <1>4. \A n \in Nat : Code(n) \in {"code"} \X Nat BY DEF Code
  <1> QED BY <1>2, <1>3, <1>4 DEF Meaning, Said

LEMMA DecodesOne ==
  ASSUME NEW body \in Seq(STRING), NEW p \in DOMAIN body
  PROVE  \/ DecodeOne(body, p) = Error
         \/ \E v \in Meaning, next \in p + 1..Len(body) + 1 : DecodeOne(body, p) = <<v, next>>
  <1>1. DOMAIN body = 1..Len(body) /\ Len(body) \in Nat /\ p \in Nat /\ p >= 1 /\ p <= Len(body) OBVIOUS
  <1>2. CASE body[p] # "\\"
    <2>1. DecodeOne(body, p) = <<Plain(<<body[p]>>), p + 1>> BY <1>2, Zenon DEF DecodeOne
    <2>2. <<body[p]>> \in Seq(STRING) OBVIOUS
    <2>3. Plain(<<body[p]>>) \in Meaning BY <2>2, Meanings
    <2>4. p + 1 \in p + 1..Len(body) + 1 BY <1>1
    <2> QED BY <2>1, <2>3, <2>4
  <1>3. CASE body[p] = "\\" /\ p < Len(body) /\ (body[p + 1] = "x" \/ body[p + 1] \in DigitsOf(8))
    <2> DEFINE from == DigitsFrom(body, p)
               n == Run(body, from, BaseAt(body, p), LimitAt(body, p))
               v == Number(body, from, BaseAt(body, p), n)
    <2>1. /\ n \in Nat /\ v \in Nat /\ from + n \in p + 2..Len(body) + 1
          /\ DecodeOne(body, p) = IF n = 0 THEN Error ELSE InRange(v, from + n)
      BY <1>3, NumberedEscape
    <2>2. from + n \in p + 1..Len(body) + 1 BY <1>1, <2>1
    <2> HIDE DEF from, n, v
    <2>3. \/ InRange(v, from + n) = Error
          \/ InRange(v, from + n) = <<Code(v % UnsignedModulus), from + n>>
      BY <2>1, InRangeIs
    <2>4. Code(v % UnsignedModulus) \in Meaning BY <2>1, Wraps, Meanings
    <2> QED BY <2>1, <2>2, <2>3, <2>4
  <1>4. CASE body[p] = "\\" /\ ~(p < Len(body) /\ (body[p + 1] = "x" \/ body[p + 1] \in DigitsOf(8)))
    <2>1. DecodeOne(body, p) = IF p < Len(body) /\ body[p + 1] \in Escapes
                               THEN <<Plain(<<"\\", body[p + 1]>>), p + 2>> ELSE Error
      BY <1>4, NamedEscape
    <2>2. ASSUME p < Len(body)
          PROVE  Plain(<<"\\", body[p + 1]>>) \in Meaning /\ p + 2 \in p + 1..Len(body) + 1
      <3>1. p + 1 \in 1..Len(body) /\ p + 2 \in p + 1..Len(body) + 1 BY <1>1, <2>2
      <3>3. body[p + 1] \in STRING BY <1>1, <3>1
      <3>4. "\\" \in STRING
        <4>1. body[p] \in STRING OBVIOUS
        <4> QED BY <1>4, <4>1
      <3>2. <<"\\", body[p + 1]>> \in Seq(STRING) BY <3>3, <3>4
      <3> QED BY <3>1, <3>2, Meanings
    <2> QED BY <2>1, <2>2
  <1> QED BY <1>2, <1>3, <1>4

-----------------------------------------------------------------------------
(* All of a literal.                                                       *)

Decoding(body) ==
  LET decoded[from \in 1..Len(body) + 1] ==
        IF from > Len(body) THEN <<>>
        ELSE LET one == DecodeOne(body, from)
             IN  IF one = Error THEN Error
                 ELSE IF decoded[one[2]] = Error THEN Error
                 ELSE <<one[1]>> \o decoded[one[2]]
  IN  decoded

(* What is left of the body given what comes after its first character.    *)
Rest(f, body, from) ==
  IF from > Len(body) THEN <<>>
  ELSE LET one == DecodeOne(body, from)
       IN  IF one = Error THEN Error
           ELSE IF f[one[2]] = Error THEN Error
           ELSE <<one[1]>> \o f[one[2]]

LEMMA DecodingSolved ==
  ASSUME NEW body \in Seq(STRING)
  PROVE  \E f \in [1..Len(body) + 1 -> Seq(Said)] : \A p \in 1..Len(body) + 1 : f[p] = Rest(f, body, p)
  <1> DEFINE b == Len(body) + 1
             Has(k) == \E f \in [k..b -> Seq(Said)] : \A p \in k..b : f[p] = Rest(f, body, p)
             G == {k \in 1..b : Has(k)}
  <1>1. DOMAIN body = 1..Len(body) /\ Len(body) \in Nat /\ b \in Nat /\ b >= 1 OBVIOUS
  <1>2. Has(b)
    <2> DEFINE f == [p \in b..b |-> <<>>]
    <2>1. <<>> \in Seq(Said) OBVIOUS
    <2>2. f \in [b..b -> Seq(Said)] BY <2>1
    <2>3. \A p \in b..b : p > Len(body) /\ f[p] = <<>> BY <1>1
    <2>4. \A p \in b..b : f[p] = Rest(f, body, p)
      <3> HIDE DEF f, b
      <3> QED BY <2>3 DEF Rest
    <2> HIDE DEF f
    <2> QED BY <2>2, <2>4
  <1>3. ASSUME NEW k \in 1..b - 1, Has(k + 1) PROVE Has(k)
    <2>1. PICK g \in [k + 1..b -> Seq(Said)] : \A p \in k + 1..b : g[p] = Rest(g, body, p) BY <1>3
    <2> DEFINE v == Rest(g, body, k)
               f == [p \in k..b |-> IF p = k THEN v ELSE g[p]]
    <2>2. k \in DOMAIN body /\ k <= Len(body) BY <1>1
    <2>3. v \in Seq(Said)
      <3>1. CASE DecodeOne(body, k) = Error
        <4>1. v = Error BY <2>2, <3>1 DEF Rest
        <4> QED BY <4>1, ErrorApart
      <3>2. CASE \E x \in Meaning, next \in k + 1..Len(body) + 1 : DecodeOne(body, k) = <<x, next>>
        <4>1. PICK x \in Meaning, next \in k + 1..Len(body) + 1 : DecodeOne(body, k) = <<x, next>> BY <3>2
        <4>2. DecodeOne(body, k) # Error BY <4>1, ErrorApart
        <4>3. v = IF g[next] = Error THEN Error ELSE <<x>> \o g[next]
          BY <2>2, <4>1, <4>2 DEF Rest
        <4>4. x \in Said /\ g[next] \in Seq(Said) BY <2>1, <4>1 DEF Meaning
        <4> HIDE DEF v
        <4>5. <<x>> \o g[next] \in Seq(Said)
          <5> HIDE DEF Said
          <5> QED BY <4>4
        <4> QED BY <4>3, <4>5, ErrorApart
      <3> QED BY <2>2, <3>1, <3>2, DecodesOne
    <2>4. \A p \in k..b : p = k \/ p \in k + 1..b OBVIOUS
    <2>5. k \in k..b /\ \A p \in k + 1..b : p \in k..b /\ p # k BY <1>1
    <2> HIDE DEF v
    <2>6. f \in [k..b -> Seq(Said)] BY <2>1, <2>3, <2>4
    <2>7. f[k] = v /\ \A p \in k + 1..b : f[p] = g[p] BY <2>5
    <2> HIDE DEF f
    <2>8. ASSUME NEW p \in k..b PROVE Rest(f, body, p) = Rest(g, body, p)
      <3>1. CASE p > Len(body) BY <3>1 DEF Rest
      <3>2. CASE p <= Len(body)
        <4>1. p \in DOMAIN body /\ \A next \in p + 1..b : next \in k + 1..b BY <1>1, <3>2
        <4>2. CASE DecodeOne(body, p) = Error BY <4>2 DEF Rest
        <4>3. CASE \E x \in Meaning, next \in p + 1..Len(body) + 1 : DecodeOne(body, p) = <<x, next>>
          <5>1. PICK x \in Meaning, next \in p + 1..Len(body) + 1 : DecodeOne(body, p) = <<x, next>>
            BY <4>3
          <5>2. f[next] = g[next] BY <2>7, <4>1, <5>1
          <5>3. DecodeOne(body, p)[2] = next BY <5>1
          <5> QED BY <5>2, <5>3 DEF Rest
        <4> QED BY <4>1, <4>2, <4>3, DecodesOne
      <3> QED BY <1>1, <3>1, <3>2
    <2>9. \A p \in k..b : f[p] = Rest(f, body, p)
      BY <2>1, <2>4, <2>5, <2>7, <2>8 DEF v
    <2> QED BY <2>6, <2>9
  <1> HIDE DEF Has
  <1>4. \A k \in 1..b : (\A q \in k + 1..b : q \in G) => k \in G
    <2>1. \A k \in 1..b : k = b \/ (k \in 1..b - 1 /\ k + 1 \in k + 1..b) BY <1>1
    <2> QED BY <1>2, <1>3, <2>1
  <1>5. \A k \in 1..b : k \in G
    <2>1. 1 \in Nat /\ b \in Nat BY <1>1
    <2> HIDE DEF G, b
    <2> QED BY <1>4, <2>1, Backwards
  <1>6. 1 \in 1..b BY <1>1
  <1>7. Has(1)
    <2> HIDE DEF b
    <2> QED BY <1>5, <1>6
  <1> QED BY <1>7 DEF Has

LEMMA DecodingEquation ==
  ASSUME NEW body \in Seq(STRING)
  PROVE  /\ \A p \in 1..Len(body) + 1 : Decoding(body)[p] = Rest(Decoding(body), body, p)
         /\ DecodeAll(body) = Decoding(body)[1]
  <1> DEFINE b == Len(body) + 1
  <1>1. PICK f \in [1..b -> Seq(Said)] : \A p \in 1..b : f[p] = Rest(f, body, p) BY DecodingSolved
  <1>2. f = [p \in 1..b |-> Rest(f, body, p)] BY <1>1
  <1>3. Decoding(body) = [p \in 1..b |-> Rest(Decoding(body), body, p)]
    BY <1>2, Zenon DEF Decoding, Rest
  <1>4. DecodeAll(body) = Decoding(body)[1] BY DEF DecodeAll, Decoding
  <1> QED BY <1>3, <1>4
-----------------------------------------------------------------------------
(* What an escape takes up.                                                *)

LEMMA DigitsInside ==
  ASSUME NEW body \in Seq(STRING), NEW i \in DOMAIN body, NEW q \in DigitsAt(body, i)
  PROVE  /\ q \in DOMAIN body /\ q > i
         /\ \A r \in i + 1..q : body[r] # "\\"
         /\ q - 1 = i \/ q - 1 = i + 1 \/ q - 1 \in DigitsAt(body, i)
  <1>1. DOMAIN body = 1..Len(body) /\ Len(body) \in Nat /\ i \in Nat /\ i >= 1 /\ i <= Len(body) OBVIOUS
  <1>2. i < Len(body) /\ (body[i + 1] = "x" \/ body[i + 1] \in DigitsOf(8))
    BY DEF DigitsAt, IsHex, IsOctal
  <1> DEFINE from == DigitsFrom(body, i)
             base == BaseAt(body, i)
             limit == LimitAt(body, i)
  <1>3. DigitsAt(body, i) =
          {p \in DOMAIN body : p \in from..from + limit - 1 /\ \A k \in from..p : body[k] \in DigitsOf(base)}
    BY <1>2, DigitsAtIs DEF DigitPlaces
  <1>4. from = i + 1 \/ (from = i + 2 /\ body[i + 1] = "x") BY DEF DigitsFrom
  <1>5. limit \in Nat BY <1>1 DEF LimitAt
  <1>6. DigitsOf(base) \subseteq DigitsOf(16) /\ "\\" \notin DigitsOf(16)
    <2>1. base = 16 \/ base = 8 BY DEF BaseAt
    <2> HIDE DEF base
    <2> QED BY <2>1, HexDigits
  <1> HIDE DEF from, base, limit
  <1>7. q \in DOMAIN body /\ q \in from..from + limit - 1 /\ \A k \in from..q : body[k] \in DigitsOf(base)
    BY <1>3
  <1>8. q \in Nat /\ q > i BY <1>1, <1>4, <1>5, <1>7
  <1>9. ASSUME NEW r \in i + 1..q PROVE body[r] # "\\"
    <2>1. r \in from..q \/ (r = i + 1 /\ body[i + 1] = "x") BY <1>1, <1>4, <1>8
    <2> QED BY <1>6, <1>7, <2>1
  <1>10. q = from \/ q - 1 \in DigitsAt(body, i)
    <2>1. SUFFICES ASSUME q # from PROVE q - 1 \in DigitsAt(body, i) OBVIOUS
    <2>2. q - 1 \in DOMAIN body /\ q - 1 \in from..from + limit - 1 /\ \A k \in from..q - 1 : k \in from..q
      BY <1>1, <1>4, <1>5, <1>7, <2>1
    <2> QED BY <1>3, <1>7, <2>2
  <1> QED BY <1>1, <1>4, <1>7, <1>8, <1>9, <1>10

LEMMA UnitBegins ==
  ASSUME NEW body \in Seq(STRING)
  PROVE  /\ Len(body) > 0 => 1 \in Units(body)
         /\ \A p \in Units(body) : p \notin EscapesIn(body) =>
               body[p] # "\\" /\ (p + 1 <= Len(body) => p + 1 \in Units(body))
  <1>1. DOMAIN body = 1..Len(body) /\ Len(body) \in Nat OBVIOUS
  <1>2. EscapesIn(body) \subseteq DOMAIN body BY EscapesAlternate
  <1>3. ASSUME Len(body) > 0 PROVE 1 \in Units(body)
    <2>1. 1 \in DOMAIN body BY <1>1, <1>3
    <2>2. ASSUME NEW i \in EscapesIn(body) PROVE 1 # i + 1 /\ 1 \notin DigitsAt(body, i)
      <3>1. i \in DOMAIN body /\ i >= 1 /\ i \in Nat BY <1>1, <1>2
      <3>2. \A q \in DigitsAt(body, i) : q > i BY <3>1, DigitsInside
      <3> QED BY <3>1, <3>2
    <2> QED BY <2>1, <2>2 DEF Units
  <1>4. ASSUME NEW p \in Units(body), p \notin EscapesIn(body)
        PROVE  body[p] # "\\" /\ (p + 1 <= Len(body) => p + 1 \in Units(body))
    <2>1. p \in DOMAIN body /\ \A i \in EscapesIn(body) : p # i + 1 /\ p \notin DigitsAt(body, i)
      BY DEF Units
    <2>2. body[p] # "\\"
      <3>1. SUFFICES ASSUME body[p] = "\\" PROVE FALSE OBVIOUS
      <3>2. p - 1 \in EscapesIn(body) BY <1>4, <2>1, <3>1, EscapesAlternate
      <3>3. (p - 1) + 1 = p BY <1>1, <2>1
      <3> QED BY <2>1, <3>2, <3>3
    <2>3. ASSUME p + 1 <= Len(body), NEW i \in EscapesIn(body)
          PROVE  p + 1 # i + 1 /\ p + 1 \notin DigitsAt(body, i)
      <3>1. i \in DOMAIN body /\ i \in Nat /\ p \in Nat /\ i # p BY <1>1, <1>2, <1>4, <2>1
      <3>2. p + 1 # i + 1 BY <3>1
      <3>3. p + 1 \in DigitsAt(body, i) =>
              (p + 1) - 1 = i \/ (p + 1) - 1 = i + 1 \/ (p + 1) - 1 \in DigitsAt(body, i)
        BY <3>1, DigitsInside
      <3>4. (p + 1) - 1 = p BY <3>1
      <3> QED BY <2>1, <3>1, <3>2, <3>3, <3>4
    <2>4. p + 1 <= Len(body) => p + 1 \in DOMAIN body BY <1>1, <2>1
    <2> QED BY <2>2, <2>3, <2>4 DEF Units
  <1> QED BY <1>3, <1>4

LEMMA UnitEnds ==
  ASSUME NEW body \in Seq(STRING), NEW p \in EscapesIn(body), NEW next \in p + 2..Len(body) + 1,
         {p + 1} \cup DigitsAt(body, p) = p + 1..next - 1
  PROVE  /\ next <= Len(body) => next \in Units(body)
         /\ \A q \in p + 1..next - 1 : q \notin Units(body) /\ q \notin EscapesIn(body)
  <1>1. /\ DOMAIN body = 1..Len(body) /\ Len(body) \in Nat
        /\ EscapesIn(body) \subseteq DOMAIN body /\ \A i \in EscapesIn(body) : body[i] = "\\"
        /\ \A i \in EscapesIn(body) : i + 1 \notin EscapesIn(body)
    BY EscapesAlternate
  <1>2. p \in DOMAIN body /\ p \in Nat /\ next \in Nat BY <1>1
  <1>3. ASSUME NEW q \in p + 1..next - 1 PROVE q \notin Units(body) /\ q \notin EscapesIn(body)
    <2>1. q = p + 1 \/ q \in DigitsAt(body, p) OBVIOUS
    <2>2. q \notin Units(body) BY <2>1 DEF Units
    <2>3. q \in DigitsAt(body, p) => q \in p + 1..q /\ body[q] # "\\"
      <3>1. SUFFICES ASSUME q \in DigitsAt(body, p) PROVE q \in p + 1..q /\ body[q] # "\\" OBVIOUS
      <3>2. \A r \in p + 1..q : body[r] # "\\" BY <1>2, <3>1, DigitsInside
      <3>3. q \in p + 1..q BY <1>2
      <3> QED BY <3>2, <3>3
    <2> QED BY <1>1, <2>1, <2>2, <2>3
  <1>4. ASSUME next <= Len(body), NEW i \in EscapesIn(body)
        PROVE  next # i + 1 /\ next \notin DigitsAt(body, i)
    <2>1. i \in DOMAIN body /\ i \in Nat BY <1>1
    <2>2. next # i + 1
      <3>1. SUFFICES ASSUME next = i + 1 PROVE FALSE OBVIOUS
      <3>2. i \in p + 1..next - 1 BY <1>2, <2>1, <3>1
      <3> QED BY <1>3, <3>2
    <2>3. next \notin DigitsAt(body, i)
      <3>1. SUFFICES ASSUME next \in DigitsAt(body, i) PROVE FALSE OBVIOUS
      <3>2. next > i /\ \A r \in i + 1..next : body[r] # "\\" BY <2>1, <3>1, DigitsInside
      <3>3. CASE i < p
        <4>1. p \in i + 1..next BY <1>2, <2>1, <3>3
        <4> QED BY <1>1, <3>2, <4>1
      <3>4. CASE i = p
        <4>1. next \in p + 1..next - 1 BY <3>1, <3>4
        <4> QED BY <1>2, <4>1
      <3>5. CASE i > p
        <4>1. i \in p + 1..next - 1 BY <1>2, <2>1, <3>2, <3>5
        <4> QED BY <1>3, <4>1
      <3> QED BY <1>2, <2>1, <3>3, <3>4, <3>5
    <2> QED BY <2>2, <2>3
  <1>5. next <= Len(body) => next \in DOMAIN body BY <1>1, <1>2
  <1> QED BY <1>3, <1>4, <1>5 DEF Units

(* No escape has a number that an unsigned does not hold.                  *)
NoneWrap(body) ==
  \A i \in EscapesIn(body) : DigitsAt(body, i) # {} => ValueAt(body, i) < UnsignedModulus

LEMMA UnitSays ==
  ASSUME NEW body \in Seq(STRING), NEW p \in Units(body), NoneWrap(body)
  PROVE  IF p \in EscapesIn(body) /\ ~WellFormed(body, p) THEN DecodeOne(body, p) = Error
         ELSE \E next \in p + 1..Len(body) + 1 :
                 /\ DecodeOne(body, p) = <<UnitAt(body, p), next>>
                 /\ next <= Len(body) => next \in Units(body)
                 /\ \A q \in p + 1..next - 1 : q \notin Units(body) /\ q \notin EscapesIn(body)
  <1>1. p \in DOMAIN body /\ DOMAIN body = 1..Len(body) /\ Len(body) \in Nat BY DEF Units
  <1>2. CASE p \notin EscapesIn(body)
    <2>1. body[p] # "\\" /\ (p + 1 <= Len(body) => p + 1 \in Units(body)) BY <1>2, UnitBegins
    <2>2. DecodeOne(body, p) = <<Plain(<<body[p]>>), p + 1>> BY <2>1, Zenon DEF DecodeOne
    <2>3. UnitAt(body, p) = Plain(<<body[p]>>) BY <1>2 DEF UnitAt
    <2>4. p + 1 \in p + 1..Len(body) + 1 /\ p + 1..p + 1 - 1 = {} BY <1>1
    <2> QED BY <1>2, <2>1, <2>2, <2>3, <2>4
  <1>3. CASE p \in EscapesIn(body)
    <2>1. body[p] = "\\" BY <1>3, EscapesAlternate
    <2>2. UnitAt(body, p) = SaidBy(body, p) BY <1>3 DEF UnitAt, SaidBy
    <2>3. DigitsAt(body, p) # {} => ValueAt(body, p) < UnsignedModulus BY <1>3 DEF NoneWrap
    <2>4. CASE ~WellFormed(body, p)
      <3>1. DecodeOne(body, p) = Error BY <1>1, <2>1, <2>3, <2>4, EscapeMeans
      <3> QED BY <1>3, <2>4, <3>1
    <2>5. CASE WellFormed(body, p)
      <3>1. PICK next \in p + 2..Len(body) + 1 :
              /\ DecodeOne(body, p) = <<SaidBy(body, p), next>>
              /\ {p + 1} \cup DigitsAt(body, p) = p + 1..next - 1
        BY <1>1, <2>1, <2>3, <2>5, EscapeMeans
      <3>2. /\ next <= Len(body) => next \in Units(body)
            /\ \A q \in p + 1..next - 1 : q \notin Units(body) /\ q \notin EscapesIn(body)
        BY <1>3, <3>1, UnitEnds
      <3>3. next \in p + 1..Len(body) + 1 BY <1>1
      <3> QED BY <2>2, <2>5, <3>1, <3>2, <3>3
    <2> QED BY <2>4, <2>5
  <1> QED BY <1>2, <1>3
LEMMA DecodingStep ==
  ASSUME NEW body \in Seq(STRING), NEW d, d = Decoding(body), NEW p \in 1..Len(body) + 1
  PROVE  /\ p > Len(body) => d[p] = <<>>
         /\ p <= Len(body) /\ DecodeOne(body, p) = Error => d[p] = Error
         /\ \A v, next : p <= Len(body) /\ DecodeOne(body, p) = <<v, next>> =>
               d[p] = IF d[next] = Error THEN Error ELSE <<v>> \o d[next]
  <1>1. d[p] = Rest(d, body, p) BY DecodingEquation
  <1>2. Len(body) \in Nat /\ p \in Nat OBVIOUS
  <1>3. p > Len(body) => d[p] = <<>> BY <1>1 DEF Rest
  <1>4. p <= Len(body) => ~(p > Len(body)) BY <1>2
  <1>5. p <= Len(body) /\ DecodeOne(body, p) = Error => d[p] = Error BY <1>1, <1>4 DEF Rest
  <1>6. ASSUME NEW v, NEW next, p <= Len(body), DecodeOne(body, p) = <<v, next>>
        PROVE  d[p] = IF d[next] = Error THEN Error ELSE <<v>> \o d[next]
    <2>1. DecodeOne(body, p) # Error BY <1>6, ErrorApart
    <2>2. DecodeOne(body, p)[1] = v /\ DecodeOne(body, p)[2] = next BY <1>6
    <2> QED BY <1>1, <1>4, <1>6, <2>1, <2>2, Zenon DEF Rest
  <1> QED BY <1>3, <1>5, <1>6

LEMMA Prepend ==
  ASSUME NEW v \in Said, NEW s \in Seq(Said)
  PROVE  /\ <<v>> \o s \in Seq(Said) /\ Len(<<v>> \o s) = Len(s) + 1
         /\ (<<v>> \o s)[1] = v
         /\ \A k \in 1..Len(s) : (<<v>> \o s)[k + 1] = s[k]
  <1> HIDE DEF Said
  <1> QED OBVIOUS

LEMMA DecodingType ==
  ASSUME NEW body \in Seq(STRING), NEW d, d = Decoding(body)
  PROVE  \A p \in 1..Len(body) + 1 : d[p] \in Seq(Said) /\ (p <= Len(body) => Len(d[p]) > 0)
  <1> DEFINE G == {p \in 1..Len(body) + 1 : d[p] \in Seq(Said) /\ (p <= Len(body) => Len(d[p]) > 0)}
  <1>1. DOMAIN body = 1..Len(body) /\ Len(body) \in Nat OBVIOUS
  <1>2. ASSUME NEW p \in 1..Len(body) + 1, \A q \in p + 1..Len(body) + 1 : q \in G PROVE p \in G
    <2>1. CASE p > Len(body)
      <3>1. d[p] = <<>> BY <2>1, DecodingStep
      <3>2. <<>> \in Seq(Said) /\ ~(p <= Len(body)) BY <1>1, <2>1
      <3> QED BY <3>1, <3>2
    <2>2. CASE p <= Len(body) /\ DecodeOne(body, p) = Error
      <3>1. d[p] = Error BY <2>2, DecodingStep
      <3>2. Error \in Seq(Said) /\ Len(Error) > 0 BY ErrorApart
      <3> QED BY <3>1, <3>2
    <2>3. CASE p <= Len(body) /\ DecodeOne(body, p) # Error
      <3>1. p \in DOMAIN body BY <1>1, <2>3
      <3>2. PICK v \in Meaning, next \in p + 1..Len(body) + 1 : DecodeOne(body, p) = <<v, next>>
        BY <2>3, <3>1, DecodesOne
      <3>3. d[p] = IF d[next] = Error THEN Error ELSE <<v>> \o d[next] BY <2>3, <3>2, DecodingStep
      <3>4. d[next] \in Seq(Said) /\ v \in Said BY <1>2, <3>2 DEF Meaning
      <3>5. /\ <<v>> \o d[next] \in Seq(Said) /\ Len(<<v>> \o d[next]) = Len(d[next]) + 1
            /\ Len(d[next]) \in Nat
        BY <3>4, Prepend
      <3>6. Error \in Seq(Said) /\ Len(Error) > 0 BY ErrorApart
      <3>7. Len(<<v>> \o d[next]) > 0 BY <3>5
      <3> QED BY <3>3, <3>5, <3>6, <3>7
    <2> QED BY <1>1, <2>1, <2>2, <2>3
  <1>3. 1 \in Nat /\ Len(body) + 1 \in Nat BY <1>1
  <1>4. \A p \in 1..Len(body) + 1 : p \in G
    <2> HIDE DEF G
    <2> QED BY <1>2, <1>3, Backwards
  <1> QED BY <1>4

(* The units from p on, and those of them up to q.                         *)
UnitsFrom(body, p) == {q \in Units(body) : q >= p}
UnitsTo(body, p, q) == {r \in Units(body) : r >= p /\ r <= q}

LEMMA UnitsCounted ==
  ASSUME NEW body \in Seq(STRING), NEW p \in Nat
  PROVE  /\ IsFiniteSet(UnitsFrom(body, p)) /\ Cardinality(UnitsFrom(body, p)) \in Nat
         /\ \A q \in UnitsFrom(body, p) :
               /\ IsFiniteSet(UnitsTo(body, p, q))
               /\ Cardinality(UnitsTo(body, p, q)) \in 1..Cardinality(UnitsFrom(body, p))
  <1>1. IsFiniteSet(UnitsFrom(body, p)) /\ Cardinality(UnitsFrom(body, p)) \in Nat
    <2>1. IsFiniteSet(1..Len(body)) BY FS_Interval
    <2>2. UnitsFrom(body, p) \subseteq 1..Len(body) BY DEF UnitsFrom, Units
    <2>3. IsFiniteSet(UnitsFrom(body, p)) BY <2>1, <2>2, FS_Subset
    <2> QED BY <2>3, FS_CardinalityType
  <1>2. ASSUME NEW q \in UnitsFrom(body, p)
        PROVE  /\ IsFiniteSet(UnitsTo(body, p, q))
               /\ Cardinality(UnitsTo(body, p, q)) \in 1..Cardinality(UnitsFrom(body, p))
    <2>1. UnitsTo(body, p, q) \subseteq UnitsFrom(body, p) BY DEF UnitsTo, UnitsFrom
    <2>2. q \in UnitsTo(body, p, q)
      <3>1. q \in Units(body) /\ q >= p /\ q \in Nat BY DEF UnitsFrom, Units
      <3>2. q <= q BY <3>1
      <3> QED BY <3>1, <3>2 DEF UnitsTo
    <2>3. /\ IsFiniteSet(UnitsTo(body, p, q))
          /\ Cardinality(UnitsTo(body, p, q)) <= Cardinality(UnitsFrom(body, p))
      BY <1>1, <2>1, FS_Subset
    <2>4. Cardinality(UnitsTo(body, p, q)) \in Nat BY <2>3, FS_CardinalityType
    <2>5. Cardinality(UnitsTo(body, p, q)) # 0 BY <2>2, <2>3, FS_EmptySet
    <2> QED BY <1>1, <2>3, <2>4, <2>5
  <1> QED BY <1>1, <1>2

(* One unit and the units after it.                                        *)
LEMMA UnitsSplit ==
  ASSUME NEW body \in Seq(STRING), NEW p \in Units(body), NEW next \in p + 1..Len(body) + 1,
         \A q \in p + 1..next - 1 : q \notin Units(body)
  PROVE  /\ Cardinality(UnitsFrom(body, p)) = Cardinality(UnitsFrom(body, next)) + 1
         /\ \A q \in UnitsFrom(body, p) : q = p \/ q \in UnitsFrom(body, next)
         /\ Cardinality(UnitsTo(body, p, p)) = 1
         /\ \A q \in UnitsFrom(body, next) :
               Cardinality(UnitsTo(body, p, q)) = Cardinality(UnitsTo(body, next, q)) + 1
  <1>1. Units(body) \subseteq 1..Len(body) /\ Len(body) \in Nat BY DEF Units
  <1>2. p \in Nat /\ next \in Nat /\ next > p BY <1>1
  <1>3. \A q \in Units(body) : q >= p => q = p \/ q >= next
    <2>1. SUFFICES ASSUME NEW q \in Units(body), q >= p, q # p, ~(q >= next) PROVE FALSE OBVIOUS
    <2>2. q \in p + 1..next - 1 BY <1>1, <1>2, <2>1
    <2> QED BY <2>2
  <1>4. UnitsFrom(body, p) = UnitsFrom(body, next) \cup {p} /\ p \notin UnitsFrom(body, next)
    <2>1. \A q \in Units(body) : q \in Nat /\ (q >= next => q >= p) /\ p >= p /\ ~(p >= next) BY <1>1, <1>2
    <2> QED BY <1>3, <2>1 DEF UnitsFrom
  <1>5. Cardinality(UnitsFrom(body, p)) = Cardinality(UnitsFrom(body, next)) + 1
    BY <1>2, <1>4, UnitsCounted, FS_AddElement
  <1>6. Cardinality(UnitsTo(body, p, p)) = 1
    <2>1. \A q \in Units(body) : q \in Nat /\ (q >= p /\ q <= p <=> q = p) BY <1>1, <1>2
    <2>2. UnitsTo(body, p, p) = {p} BY <2>1 DEF UnitsTo
    <2> QED BY <2>2, FS_Singleton
  <1>7. ASSUME NEW q \in UnitsFrom(body, next)
        PROVE  Cardinality(UnitsTo(body, p, q)) = Cardinality(UnitsTo(body, next, q)) + 1
    <2>1. q \in Units(body) /\ q >= next /\ q \in Nat BY <1>1 DEF UnitsFrom
    <2>2. UnitsTo(body, p, q) = UnitsTo(body, next, q) \cup {p} /\ p \notin UnitsTo(body, next, q)
      <3>1. \A r \in Units(body) : r \in Nat /\ (r >= next => r >= p) /\ p >= p /\ ~(p >= next) /\ p <= q
        BY <1>1, <1>2, <2>1
      <3> QED BY <1>3, <3>1 DEF UnitsTo
    <2>3. IsFiniteSet(UnitsTo(body, next, q)) BY <1>2, UnitsCounted
    <2>4. Cardinality(UnitsTo(body, next, q)) \in Nat BY <2>3, FS_CardinalityType
    <2> QED BY <2>2, <2>3, <2>4, FS_AddElement
  <1> QED BY <1>4, <1>5, <1>6, <1>7

(* What is decoded from a unit on is what the units from there on say.     *)
WellFrom(body, p) == \A i \in EscapesIn(body) : i >= p => WellFormed(body, i)
DecodedFrom(body, p, s) ==
  IF WellFrom(body, p)
  THEN /\ Len(s) = Cardinality(UnitsFrom(body, p)) /\ s # Error
       /\ \A q \in UnitsFrom(body, p) : s[Cardinality(UnitsTo(body, p, q))] = UnitAt(body, q)
  ELSE s = Error

LEMMA WellFromNext ==
  ASSUME NEW body \in Seq(STRING), NEW p \in Units(body), NEW next \in p + 1..Len(body) + 1,
         \A q \in p + 1..next - 1 : q \notin EscapesIn(body),
         ~(p \in EscapesIn(body) /\ ~WellFormed(body, p))
  PROVE  WellFrom(body, p) <=> WellFrom(body, next)
  <1>1. Units(body) \subseteq 1..Len(body) /\ Len(body) \in Nat /\ EscapesIn(body) \subseteq 1..Len(body)
    BY EscapesAlternate DEF Units
  <1>2. p \in Nat /\ next \in Nat /\ next > p BY <1>1
  <1>3. ASSUME NEW i \in EscapesIn(body), i >= p PROVE i = p \/ i >= next
    <2>1. SUFFICES ASSUME i # p, ~(i >= next) PROVE FALSE OBVIOUS
    <2>2. i \in p + 1..next - 1 BY <1>1, <1>2, <1>3, <2>1
    <2> QED BY <2>2
  <1>4. \A i \in EscapesIn(body) : i >= next => i >= p BY <1>1, <1>2
  <1> QED BY <1>3, <1>4 DEF WellFrom

LEMMA UnitsDecoded ==
  ASSUME NEW body \in Seq(STRING), NoneWrap(body), NEW d, d = Decoding(body)
  PROVE  \A p \in 1..Len(body) + 1 : p \in Units(body) \/ p > Len(body) => DecodedFrom(body, p, d[p])
  <1> DEFINE G == {p \in 1..Len(body) + 1 :
                     p \in Units(body) \/ p > Len(body) => DecodedFrom(body, p, d[p])}
  <1>1. /\ Units(body) \subseteq 1..Len(body) /\ Len(body) \in Nat
        /\ EscapesIn(body) \subseteq 1..Len(body) /\ DOMAIN body = 1..Len(body)
    BY EscapesAlternate DEF Units
  <1>2. ASSUME NEW p \in 1..Len(body) + 1, \A q \in p + 1..Len(body) + 1 : q \in G PROVE p \in G
    <2>1. CASE p > Len(body)
      <3>1. d[p] = <<>> BY <2>1, DecodingStep
      <3>2. WellFrom(body, p) BY <1>1, <2>1 DEF WellFrom
      <3>3. UnitsFrom(body, p) = {} BY <1>1, <2>1 DEF UnitsFrom
      <3>4. Cardinality(UnitsFrom(body, p)) = 0 BY <3>3, FS_EmptySet
      <3>5. Len(<<>>) = 0 /\ <<>> # Error
        <4>1. Len(<<>>) = 0 OBVIOUS
        <4>2. Len(Error) = 1 BY ErrorApart
        <4>3. \A e : e = Error => Len(e) = 1 BY <4>2
        <4>4. <<>> # Error
          <5>1. SUFFICES ASSUME <<>> = Error PROVE FALSE OBVIOUS
          <5>2. Len(<<>>) = 1 BY ONLY <4>3, <5>1, Zenon
          <5> QED BY <4>1, <5>2
        <4> QED BY <4>1, <4>4
      <3>6. DecodedFrom(body, p, d[p]) BY <3>1, <3>2, <3>3, <3>4, <3>5 DEF DecodedFrom
      <3> QED BY <3>6
    <2>2. CASE p <= Len(body) /\ p \in Units(body) /\ p \in EscapesIn(body) /\ ~WellFormed(body, p)
      <3>1. DecodeOne(body, p) = Error BY <2>2, UnitSays
      <3>2. d[p] = Error BY <2>2, <3>1, DecodingStep
      <3>3. p >= p OBVIOUS
      <3>4. ~WellFrom(body, p) BY <2>2, <3>3 DEF WellFrom
      <3>5. DecodedFrom(body, p, d[p]) BY <3>2, <3>4 DEF DecodedFrom
      <3> QED BY <3>5
    <2>3. CASE p <= Len(body) /\ p \in Units(body) /\ ~(p \in EscapesIn(body) /\ ~WellFormed(body, p))
      <3>1. PICK next \in p + 1..Len(body) + 1 :
              /\ DecodeOne(body, p) = <<UnitAt(body, p), next>>
              /\ next <= Len(body) => next \in Units(body)
              /\ \A q \in p + 1..next - 1 : q \notin Units(body) /\ q \notin EscapesIn(body)
        BY <2>3, UnitSays
      <3>2. d[p] = IF d[next] = Error THEN Error ELSE <<UnitAt(body, p)>> \o d[next]
        BY <2>3, <3>1, DecodingStep
      <3>3. UnitAt(body, p) \in Meaning
        <4>1. p \in DOMAIN body /\ DecodeOne(body, p) # Error BY <1>1, <2>3, <3>1, ErrorApart
        <4>2. PICK v \in Meaning, k \in p + 1..Len(body) + 1 : DecodeOne(body, p) = <<v, k>>
          BY <4>1, DecodesOne
        <4>3. DecodeOne(body, p)[1] = v /\ DecodeOne(body, p)[1] = UnitAt(body, p) BY <3>1, <4>2
        <4> QED BY <4>3
      <3>4. next \in 1..Len(body) + 1 /\ (next \in Units(body) \/ next > Len(body))
        BY <1>1, <3>1
      <3>5. DecodedFrom(body, next, d[next]) BY <1>2, <3>4
      <3>6. d[next] \in Seq(Said) BY <3>4, DecodingType
      <3>7. WellFrom(body, p) <=> WellFrom(body, next) BY <2>3, <3>1, WellFromNext
      <3>8. CASE ~WellFrom(body, p)
        <4>1. d[p] = Error BY <3>2, <3>5, <3>7, <3>8 DEF DecodedFrom
        <4>2. DecodedFrom(body, p, d[p]) BY <3>8, <4>1 DEF DecodedFrom
        <4> QED BY <4>2
      <3>9. CASE WellFrom(body, p)
        <4> DEFINE s == d[next]
                   u == UnitAt(body, p)
        <4>1. /\ Len(s) = Cardinality(UnitsFrom(body, next)) /\ s # Error
              /\ \A q \in UnitsFrom(body, next) : s[Cardinality(UnitsTo(body, next, q))] = UnitAt(body, q)
          BY <3>5, <3>7, <3>9 DEF DecodedFrom
        <4>2. d[p] = <<u>> \o s BY <3>2, <4>1
        <4>3. u \in Said /\ u # <<"error">> /\ s \in Seq(Said) BY <3>3, <3>6 DEF Meaning
        <4>4. /\ Len(<<u>> \o s) = Len(s) + 1 /\ (<<u>> \o s)[1] = u
              /\ \A k \in 1..Len(s) : (<<u>> \o s)[k + 1] = s[k]
          BY <4>3, Prepend
        <4>5. <<u>> \o s # Error BY <4>3, ErrorApart
        <4>6. /\ Cardinality(UnitsFrom(body, p)) = Cardinality(UnitsFrom(body, next)) + 1
              /\ \A q \in UnitsFrom(body, p) : q = p \/ q \in UnitsFrom(body, next)
              /\ Cardinality(UnitsTo(body, p, p)) = 1
              /\ \A q \in UnitsFrom(body, next) :
                    Cardinality(UnitsTo(body, p, q)) = Cardinality(UnitsTo(body, next, q)) + 1
          BY <2>3, <3>1, UnitsSplit
        <4>7. \A q \in UnitsFrom(body, next) : Cardinality(UnitsTo(body, next, q)) \in 1..Len(s)
          BY <3>4, <4>1, UnitsCounted
        <4>8. ASSUME NEW q \in UnitsFrom(body, p)
              PROVE  d[p][Cardinality(UnitsTo(body, p, q))] = UnitAt(body, q)
          <5>1. CASE q = p BY <4>2, <4>4, <4>6, <5>1
          <5>2. CASE q \in UnitsFrom(body, next)
            <6>1. PICK k \in 1..Len(s) : k = Cardinality(UnitsTo(body, next, q)) BY <4>7, <5>2
            <6>2. Cardinality(UnitsTo(body, p, q)) = k + 1 BY <4>6, <5>2, <6>1
            <6>3. s[k] = UnitAt(body, q) BY <4>1, <5>2, <6>1
            <6>4. (<<u>> \o s)[k + 1] = s[k] BY <4>4
            <6> HIDE DEF s, u
            <6> QED BY <4>2, <6>2, <6>3, <6>4
          <5> QED BY <4>6, <5>1, <5>2
        <4>9. Len(d[p]) = Cardinality(UnitsFrom(body, p)) /\ d[p] # Error
          BY <4>1, <4>2, <4>4, <4>5, <4>6
        <4>10. DecodedFrom(body, p, d[p]) BY <3>9, <4>8, <4>9 DEF DecodedFrom
        <4> QED BY <4>10
      <3> QED BY <3>8, <3>9
    <2>4. CASE p <= Len(body) /\ p \notin Units(body)
      <3>1. ~(p > Len(body)) BY <1>1, <2>4
      <3> QED BY <2>4, <3>1
    <2> QED BY <1>1, <2>1, <2>2, <2>3, <2>4
  <1>3. 1 \in Nat /\ Len(body) + 1 \in Nat BY <1>1
  <1>4. \A p \in 1..Len(body) + 1 : p \in G
    <2> HIDE DEF G
    <2> QED BY <1>2, <1>3, Backwards
  <1> QED BY <1>4

(* A string is what its characters say.                                    *)
LEMMA StringsMeant ==
  ASSUME NEW body \in Seq(STRING)
  PROVE  StringMeant(body)
  <1> DEFINE d == Decoding(body)
             value == DecodeAll(body)
             units == Units(body)
  <1>1. SUFFICES ASSUME NoneWrap(body)
                 PROVE  IF \A i \in EscapesIn(body) : WellFormed(body, i)
                        THEN /\ Len(value) = Cardinality(units)
                             /\ \A p \in units :
                                   value[Cardinality({q \in units : q <= p})] = UnitAt(body, p)
                        ELSE value = Error
    BY DEF StringMeant, NoneWrap
  <1>2. value = d[1] BY DecodingEquation
  <1>3. /\ units \subseteq 1..Len(body) /\ Len(body) \in Nat
        /\ EscapesIn(body) \subseteq 1..Len(body)
    BY EscapesAlternate DEF Units
  <1>4. 1 \in 1..Len(body) + 1 /\ (1 \in units \/ 1 > Len(body))
    <2>1. Len(body) > 0 => 1 \in units BY UnitBegins
    <2> QED BY <1>3, <2>1
  <1>5. DecodedFrom(body, 1, d[1])
    <2> HIDE DEF d
    <2>1. d = Decoding(body) BY DEF d
    <2> QED BY <1>1, <1>4, <2>1, UnitsDecoded
  <1>6. WellFrom(body, 1) <=> \A i \in EscapesIn(body) : WellFormed(body, i) BY <1>3 DEF WellFrom
  <1>7. UnitsFrom(body, 1) = units BY <1>3 DEF UnitsFrom
  <1>8. \A p \in units : UnitsTo(body, 1, p) = {q \in units : q <= p} BY <1>3 DEF UnitsTo
  <1> HIDE DEF d, value, units
  <1> QED BY <1>2, <1>5, <1>6, <1>7, <1>8 DEF DecodedFrom
(* A character is a string of one.                                         *)
LEMMA CharsMeant ==
  ASSUME NEW t, Body(t) \in Seq(STRING)
  PROVE  CharMeant(t)
  <1> DEFINE body == Body(t)
             d == Decoding(body)
             value == ParseStringLiteral(t)
             char == ParseCharLiteral(t)
  <1>1. body \in Seq(STRING) /\ Len(body) \in Nat /\ DOMAIN body = 1..Len(body) OBVIOUS
  <1>2. value = d[1] BY DecodingEquation DEF ParseStringLiteral
  <1>3. \A p \in 1..Len(body) + 1 : d[p] \in Seq(Said) /\ (p <= Len(body) => Len(d[p]) > 0)
    BY DecodingType
  <1>4. /\ 1 > Len(body) => d[1] = <<>>
        /\ 1 <= Len(body) /\ DecodeOne(body, 1) = Error => d[1] = Error
        /\ \A v, next : 1 <= Len(body) /\ DecodeOne(body, 1) = <<v, next>> =>
              d[1] = IF d[next] = Error THEN Error ELSE <<v>> \o d[next]
    <2>1. 1 \in 1..Len(body) + 1 BY <1>1
    <2> QED BY <2>1, DecodingStep
  <1>5. \A p \in 1..Len(body) + 1 : p > Len(body) => d[p] = <<>> BY DecodingStep
  <1>6. char = IF body = <<>> THEN Error
               ELSE IF DecodeOne(body, 1) = Error \/ DecodeOne(body, 1)[2] <= Len(body) THEN Error
               ELSE <<DecodeOne(body, 1)[1]>>
    BY DEF ParseCharLiteral
  <1>7. body = <<>> <=> Len(body) = 0 BY <1>1
  <1>8. CharMeant(t) <=> char = IF value # Error /\ Len(value) = 1 THEN value ELSE Error
    BY DEF CharMeant
  <1>e. Len(<<>>) = 0 OBVIOUS
  <1> HIDE DEF body, d, value, char
  <1>9. CASE Len(body) = 0
    <2>1. value = <<>> BY <1>2, <1>4, <1>9
    <2>2. Len(value) # 1 BY <1>e, <2>1
    <2> QED BY <1>6, <1>7, <1>8, <1>9, <2>2
  <1>10. CASE Len(body) # 0 /\ DecodeOne(body, 1) = Error
    <2>1. value = Error BY <1>1, <1>2, <1>4, <1>10
    <2> QED BY <1>6, <1>7, <1>8, <1>10, <2>1
  <1>11. CASE Len(body) # 0 /\ DecodeOne(body, 1) # Error
    <2>1. 1 \in DOMAIN body BY <1>1, <1>11
    <2>2. PICK v \in Meaning, next \in 1 + 1..Len(body) + 1 : DecodeOne(body, 1) = <<v, next>>
      BY <1>1, <1>11, <2>1, DecodesOne
    <2>3. DecodeOne(body, 1)[1] = v /\ DecodeOne(body, 1)[2] = next BY <2>2
    <2>4. value = IF d[next] = Error THEN Error ELSE <<v>> \o d[next] BY <1>1, <1>2, <1>4, <1>11, <2>2
    <2>5. v \in Said /\ v # <<"error">> BY DEF Meaning
    <2>6. next \in 1..Len(body) + 1 BY <1>1
    <2>7. d[next] \in Seq(Said) /\ (next <= Len(body) => Len(d[next]) > 0) BY <1>3, <2>6
    <2>8. Len(d[next]) \in Nat BY <2>7
    <2>9. Len(<<v>> \o d[next]) = Len(d[next]) + 1 /\ <<v>> \o d[next] # Error
      BY <2>5, <2>7, Prepend, ErrorApart
    <2>10. CASE next <= Len(body)
      <3>1. char = Error BY <1>6, <1>7, <1>11, <2>3, <2>10
      <3>2. value = Error \/ Len(value) # 1 BY <2>4, <2>7, <2>8, <2>9, <2>10
      <3> QED BY <1>8, <3>1, <3>2
    <2>11. CASE ~(next <= Len(body))
      <3>1. char = <<v>> BY <1>6, <1>7, <1>11, <2>3, <2>11
      <3>2. d[next] = <<>> BY <1>1, <1>5, <2>6, <2>11
      <3>3. <<>> # Error
        <4>2. Len(Error) = 1 BY ErrorApart
        <4>3. \A e : e = Error => Len(e) = 1 BY <4>2
        <4>4. SUFFICES ASSUME <<>> = Error PROVE FALSE OBVIOUS
        <4>5. Len(<<>>) = 1 BY ONLY <4>3, <4>4, Zenon
        <4> QED BY <1>e, <4>5
      <3>4. <<v>> \o <<>> = <<v>>
        <4> HIDE DEF Said
        <4> QED BY <2>5
      <3>5. value = <<v>> BY <2>4, <3>2, <3>3, <3>4
      <3>6. Len(value) = 1 /\ value # Error BY <1>e, <2>9, <3>2, <3>4, <3>5
      <3> QED BY <1>8, <3>1, <3>5, <3>6
    <2> QED BY <2>10, <2>11
  <1> QED BY <1>9, <1>10, <1>11

(* An integer is what its digits say.                                      *)
LEMMA IntsMeant ==
  ASSUME NEW t \in Seq(STRING), Len(t) > 0
  PROVE  IntMeant(t)
  <1>1. Len(t) \in Nat /\ DOMAIN t = 1..Len(t) OBVIOUS
  <1> DEFINE hex == Len(t) > 2 /\ t[1] = "0" /\ t[2] = "x"
             b == IF hex THEN 16 ELSE IF Len(t) > 1 /\ t[1] = "0" THEN 8 ELSE 10
             f == IF hex THEN 3 ELSE IF b = 8 THEN 2 ELSE 1
             base == IF t[1] # "0" \/ Len(t) = 1 THEN 10
                     ELSE IF t[2] = "x" THEN 16 ELSE 8
             from == CASE base = 10 -> 1 [] base = 8 -> 2 [] base = 16 -> 3
             n == Run(t, f, b, Len(t))
             value == Number(t, f, b, n)
             m == Len(t) - from + 1
             said == Says(t, from, base, m)
             digits == \A i \in from..Len(t) : t[i] \in DigitsOf(base)
  <1>2. ParseIntLiteral(t) =
          IF n = 0 \/ f + n <= Len(t) \/ value > IntMax THEN -1 ELSE value
    BY DEF ParseIntLiteral
  <1>3. IntMeant(t) <=>
          ParseIntLiteral(t) = IF m > 0 /\ digits /\ said <= IntMax THEN said ELSE -1
    BY DEF IntMeant
  <1>4. b \in {8, 10, 16} /\ f \in {1, 2, 3} OBVIOUS
  <1>5. /\ n \in Nat /\ n <= Len(t)
        /\ \A i \in f..f + n - 1 : i \in DOMAIN t /\ t[i] \in DigitsOf(b)
        /\ n < Len(t) => ~DigitHere(t, f + n, b)
    <2>1. f \in Nat \ {0} /\ Len(t) \in Nat BY <1>1, <1>4
    <2> HIDE DEF f, b
    <2> QED BY <2>1, RunPlaces
  <1>6. (b = base /\ f = from) \/ (Len(t) = 2 /\ t[2] = "x" /\ b = 8 /\ f = 2 /\ from = 3)
    <2>1. t[1] # "0" \/ Len(t) = 1 \/ (t[1] = "0" /\ Len(t) > 1 /\ Len(t) # 1) BY <1>1
    <2>2. CASE t[1] # "0" \/ Len(t) = 1
      <3>1. ~hex /\ b = 10 /\ f = 1 /\ base = 10 BY <1>1, <2>2
      <3> QED BY <3>1
    <2>3. CASE t[1] = "0" /\ Len(t) > 1 /\ Len(t) # 1 /\ t[2] # "x"
      <3>1. ~hex /\ b = 8 /\ f = 2 /\ base = 8 BY <1>1, <2>3
      <3> QED BY <3>1
    <2>4. CASE t[1] = "0" /\ Len(t) > 2 /\ Len(t) # 1 /\ t[2] = "x"
      <3>1. hex /\ b = 16 /\ f = 3 /\ base = 16 BY <1>1, <2>4
      <3> QED BY <3>1
    <2>5. CASE t[1] = "0" /\ Len(t) = 2 /\ t[2] = "x"
      <3>1. ~hex /\ b = 8 /\ f = 2 /\ base = 16 BY <1>1, <2>5
      <3> QED BY <2>5, <3>1
    <2>6. t[1] = "0" /\ Len(t) > 1 => Len(t) > 2 \/ Len(t) = 2 BY <1>1
    <2> HIDE DEF b, f, base, from
    <2> QED BY <2>1, <2>2, <2>3, <2>4, <2>5, <2>6
  <1>7. CASE Len(t) = 2 /\ t[2] = "x" /\ b = 8 /\ f = 2 /\ from = 3
    <2>1. n = 0
      <3>1. SUFFICES ASSUME n # 0 PROVE FALSE OBVIOUS
      <3>2. 2 \in f..f + n - 1 BY <1>5, <1>7, <3>1
      <3>3. "x" \in DigitsOf(8) BY <1>5, <1>7, <3>2
      <3>4. "x" \notin DigitsOf(16) /\ DigitsOf(8) \subseteq DigitsOf(16) BY HexDigits
      <3> QED BY <3>3, <3>4
    <2>2. ~(m > 0) BY <1>7
    <2> HIDE DEF n, m, digits, said, value, f, b, base, from
    <2> QED BY <1>2, <1>3, <2>1, <2>2
  <1>8. CASE b = base /\ f = from
    <2> HIDE DEF base, from, b, f
    <2>1. from \in Nat /\ from >= 1 /\ m \in Int /\ m = Len(t) - from + 1 BY <1>1, <1>4, <1>8
    <2>2. CASE m > 0 /\ digits
      <3>1. f + n > Len(t)
        <4>1. SUFFICES ASSUME f + n <= Len(t) PROVE FALSE BY <1>1, <1>5, <1>8, <2>1
        <4>2. n < Len(t) /\ f + n \in from..Len(t) BY <1>1, <1>5, <1>8, <2>1, <4>1
        <4>3. t[f + n] \in DigitsOf(b) BY <1>8, <2>2, <4>2
        <4> QED BY <1>5, <4>1, <4>2, <4>3 DEF DigitHere
      <3>2. n # 0 BY <1>1, <1>5, <1>8, <2>1, <2>2, <3>1
      <3>3. f + n - 1 \in DOMAIN t
        <4>1. f + n - 1 \in f..f + n - 1 BY <1>5, <1>8, <2>1, <3>2
        <4> QED BY <1>5, <4>1
      <3>4. n = m BY <1>1, <1>5, <1>8, <2>1, <3>1, <3>3
      <3>5. value \in Nat /\ value = Says(t, f, b, n)
        <4>1. DigitsOf(b) \subseteq DigitsOf(16) BY <1>4, HexDigits
        <4>2. \A i \in f..f + n - 1 : t[i] \in DigitsOf(16) BY <1>5, <4>1
        <4>3. f \in Nat /\ b \in Nat /\ n \in Nat BY <1>4, <1>5
        <4> HIDE DEF n
        <4> QED BY ONLY <4>2, <4>3, NumberSays
      <3>6. value = said BY <1>8, <3>4, <3>5
      <3>7. IntMax \in Nat BY LiteralAssumption
      <3>8. ~(f + n <= Len(t)) BY <1>1, <1>5, <1>8, <2>1, <3>1
      <3>9. value > IntMax <=> ~(said <= IntMax) BY <3>5, <3>6, <3>7
      <3> HIDE DEF n, value, said, m, digits
      <3> QED BY <1>2, <1>3, <2>2, <3>2, <3>6, <3>8, <3>9
    <2>3. CASE ~(m > 0 /\ digits)
      <3>1. n = 0 \/ f + n <= Len(t)
        <4>1. SUFFICES ASSUME n # 0, ~(f + n <= Len(t)) PROVE m > 0 /\ digits BY <2>3
        <4>2. f \in f..f + n - 1 BY <1>5, <1>8, <2>1, <4>1
        <4>3. f \in 1..Len(t) BY <1>1, <1>5, <4>2
        <4>4. m > 0 BY <1>1, <1>8, <2>1, <4>3
        <4>5. ASSUME NEW i \in from..Len(t) PROVE t[i] \in DigitsOf(base)
          <5>1. i \in f..f + n - 1 BY <1>1, <1>5, <1>8, <2>1, <4>1
          <5> QED BY <1>5, <1>8, <5>1
        <4> QED BY <4>4, <4>5
      <3> HIDE DEF n, value, said, m, digits
      <3> QED BY <1>2, <1>3, <2>3, <3>1
    <2> QED BY <2>2, <2>3
  <1> QED BY <1>6, <1>7, <1>8

-----------------------------------------------------------------------------
(* The literals among the tokens.                                          *)

LEMMA SpellingType ==
  ASSUME LexInv, NEW k \in DOMAIN tokens
  PROVE  /\ Spelling(k) \in Seq(STRING) /\ Len(Spelling(k)) > 0
         /\ Body(Spelling(k)) \in Seq(STRING)
  <1>1. text \in Seq(STRING) /\ Len(text) \in Nat
    <2>1. text \in Seq(STRING \ {"end"}) BY DEF LexInv, Texted
    <2> QED BY <2>1
  <1>2. tokens[k] \in Sounds
    <2>1. tokens \in Seq(Sounds) BY DEF LexInv
    <2> QED BY <2>1, ElementOfSeq, LenProperties
  <1> DEFINE b == tokens[k].begin
             e == tokens[k].end
             t == SubSeq(text, b, e - 1)
  <1>3. b \in 1..Len(text) /\ e \in b + 1..Len(text) + 1 BY <1>2 DEF Sounds, Sound
  <1>4. Spelling(k) = t BY DEF Spelling
  <1> HIDE DEF b, e
  <1>5. t \in Seq(STRING) /\ Len(t) = e - b
    <2>1. b \in Nat /\ e \in Nat /\ b >= 1 /\ e - 1 >= b /\ e - 1 <= Len(text) BY <1>1, <1>3
    <2> QED BY <1>1, <2>1
  <1>6. e - b > 0 /\ e - b \in Nat BY <1>1, <1>3
  <1> HIDE DEF t
  <1>7. Body(t) \in Seq(STRING)
    <2>1. CASE Len(t) >= 2
      <3>1. Len(t) - 1 >= 1 /\ Len(t) \in Nat /\ Len(t) - 1 <= Len(t) BY <1>5, <1>6, <2>1
      <3>2. SubSeq(t, 2, Len(t) - 1) \in Seq(STRING) BY <1>5, <3>1
      <3> QED BY <3>2 DEF Body
    <2>2. CASE Len(t) = 1
      <3>1. SubSeq(t, 2, 0) \in Seq(STRING) BY <1>5, <2>2
      <3> QED BY <2>2, <3>1 DEF Body
    <2> QED BY <1>5, <1>6, <2>1, <2>2
  <1> QED BY <1>4, <1>5, <1>6, <1>7

LEMMA ReadDecoded == LexInv => Decoded
  <1> SUFFICES ASSUME LexInv, NEW k \in DOMAIN tokens
               PROVE  /\ StringMeant(Body(Spelling(k))) /\ CharMeant(Spelling(k))
                      /\ IntMeant(Spelling(k))
    BY DEF Decoded
  <1>1. /\ Spelling(k) \in Seq(STRING) /\ Len(Spelling(k)) > 0
        /\ Body(Spelling(k)) \in Seq(STRING)
    BY SpellingType
  <1> QED BY <1>1, StringsMeant, CharsMeant, IntsMeant

(* The parser gives every literal the value that its characters spell and  *)
(* rejects exactly those that spell none (parseStringLiteral,              *)
(* parseCharLiteral, parseIntLiteral).                                     *)
THEOREM LiteralsDecoded == Spec => []Decoded
  <1> QED BY LexInvariant, ReadDecoded, PTL
=============================================================================
