------------------------------- MODULE Lexer --------------------------------
(***************************************************************************)
(* lib/Lex/Lexer.cpp: the text of a file cut into tokens.  A step is one   *)
(* token, one comment, one blank or one error.                             *)
(***************************************************************************)
EXTENDS Literal, SequencesExt

CONSTANTS
    Texts,        \* texts of files
    Keywords      \* spellings of keywords

(* A text is a sequence of characters; "end" stands for there being none.  *)
ASSUME TextsAssumption == \A t \in Texts : t \in Seq(STRING \ {"end"})

VARIABLES
    text,         \* src_
    pos,          \* pos_, from 1
    line, column, \* line_, column_
    tokens,       \* the tokens: kind, first place, place after, location
    diags,        \* locations of the errors
    done          \* the end of the file was reached

cursor == <<pos, line, column>>
vars == <<text, cursor, tokens, diags, done>>

Letters == {"a", "b", "e", "f", "i", "n", "x", "_"}
IdentStart == Letters
Digit == DigitsOf(10)
IdentBody == IdentStart \cup Digit
Blanks == {" ", "\t", "\n", "\r"}

(* With a bug in it: "=" comes before "==". *)
PunctuatorsShortFirst ==
    << <<".", ".", ".">>, <<"=">>, <<"=", "=">>, <<"!", "=">>, <<"<", "=">>, <<">", "=">>,
       <<"&", "&">>, <<"|", "|">>, <<"+">>, <<"-">>, <<"*">>, <<"/">>, <<"%">>, <<"!">>,
       <<"&">>, <<"<">>, <<">">>, <<",">>, <<";">>, <<"(">>, <<")">>, <<"[">>,
       <<"]">>, <<"{">>, <<"}">> >>

(* The table of punctuators, in the order they are tried. *)
Punctuators ==
    << <<".", ".", ".">>, <<"=", "=">>, <<"!", "=">>, <<"<", "=">>, <<">", "=">>,
       <<"&", "&">>, <<"|", "|">>, <<"+">>, <<"-">>, <<"*">>, <<"/">>, <<"%">>, <<"!">>,
       <<"=">>, <<"&">>, <<"<">>, <<">">>, <<",">>, <<";">>, <<"(">>, <<")">>, <<"[">>,
       <<"]">>, <<"{">>, <<"}">> >>

AtEnd == pos > Len(text)
At(p) == IF p <= Len(text) THEN text[p] ELSE "end"
Peek == At(pos)
StartsWith(p, s) == p + Len(s) - 1 <= Len(text) /\ SubSeq(text, p, p + Len(s) - 1) = s
Here == <<line, column>>

(* The first place from p that has none of these characters. *)
Past(p, chars) ==
    CHOOSE q \in p..Len(text) + 1 :
        At(q) \notin chars /\ \A r \in p..q - 1 : At(r) \in chars

(* With a bug in it: the column is not set back. *)
AdvanceToColumns(q) ==
    /\ pos' = q
    /\ line' = line + Cardinality({r \in pos..q - 1 : text[r] = "\n"})
    /\ column' = column + q - pos

(* advance, up to q. *)
AdvanceTo(q) ==
    LET breaks == {r \in pos..q - 1 : text[r] = "\n"}
    IN  /\ pos' = q
        /\ line' = line + Cardinality(breaks)
        /\ column' = IF breaks = {} THEN column + q - pos
                     ELSE q - (CHOOSE r \in breaks : \A b \in breaks : b <= r)

Skip(q) == AdvanceTo(q) /\ UNCHANGED <<tokens, diags>>
Report(q) == AdvanceTo(q) /\ diags' = Append(diags, Here) /\ UNCHANGED tokens
Make(kind, q) ==
    /\ AdvanceTo(q)
    /\ tokens' = Append(tokens, [kind |-> kind, begin |-> pos, end |-> q, loc |-> Here])
    /\ UNCHANGED diags

-----------------------------------------------------------------------------
(* skipTrivia *)
Blank == Peek \in Blanks /\ Skip(pos + 1)

LineComment ==
    StartsWith(pos, <<"/", "/">>)
    /\ Skip(CHOOSE q \in pos..Len(text) + 1 :
               At(q) \in {"\n", "end"} /\ \A r \in pos..q - 1 : At(r) # "\n")

CommentEnds == {q \in pos + 2..Len(text) : StartsWith(q, <<"*", "/">>)}
BlockComment ==
    /\ StartsWith(pos, <<"/", "*">>)
    /\ IF CommentEnds = {} THEN Report(Len(text) + 1)
       ELSE Skip((CHOOSE q \in CommentEnds : \A r \in CommentEnds : q <= r) + 2)

Trivia ==
    Peek \in Blanks \/ StartsWith(pos, <<"/", "/">>) \/ StartsWith(pos, <<"/", "*">>)

(* next *)
Word ==
    /\ Peek \in IdentStart
    /\ LET q == Past(pos, IdentBody)
       IN  Make(IF SubSeq(text, pos, q - 1) \in Keywords THEN "keyword" ELSE "identifier", q)

StartsNumber == Peek \in Digit \/ (Peek = "." /\ At(pos + 1) \in Digit)
Hex == Peek = "0" /\ At(pos + 1) = "x"

NumberToken ==
    /\ StartsNumber
    /\ LET signed(p) == ~Hex /\ At(p) = "e" /\ At(p + 1) \in {"+", "-"}
           end[p \in pos..Len(text) + 1] ==
               IF At(p) \notin IdentBody \cup {"."} THEN p
               ELSE IF signed(p) THEN end[p + 2] ELSE end[p + 1]
           float == \E p \in pos..end[pos] - 1 : At(p) = "." \/ (~Hex /\ At(p) = "e")
       IN  Make(IF float THEN "float" ELSE "int", end[pos])

(* An escaped character never ends the literal, a line break included. *)
Quoted ==
    /\ Peek \in {"'", "\""}
    /\ LET close[p \in pos + 1..Len(text) + 1] ==
               IF At(p) \in {Peek, "\n", "end"} THEN p
               ELSE IF At(p) = "\\" /\ p < Len(text) THEN close[p + 2] ELSE close[p + 1]
           q == close[pos + 1]
       IN  IF At(q) # Peek THEN Report(q)
           ELSE Make(IF Peek = "'" THEN "char" ELSE "string", q + 1)

Matches == {i \in DOMAIN Punctuators : StartsWith(pos, Punctuators[i])}
Punctuator ==
    /\ ~StartsNumber /\ Matches # {}
    /\ LET i == CHOOSE i \in Matches : \A j \in Matches : i <= j
       IN  Make("punctuator", pos + Len(Punctuators[i]))

Unexpected ==
    /\ Peek \notin IdentStart \cup {"'", "\""} /\ ~StartsNumber /\ Matches = {}
    /\ Report(pos + 1)

NextToken == ~Trivia /\ (Word \/ NumberToken \/ Quoted \/ Punctuator \/ Unexpected)

Init ==
    /\ text \in Texts
    /\ pos = 1 /\ line = 1 /\ column = 1
    /\ tokens = <<>> /\ diags = <<>> /\ done = FALSE

Lex ==
    /\ ~AtEnd
    /\ Blank \/ LineComment \/ BlockComment \/ NextToken
    /\ UNCHANGED <<text, done>>

EndOfFile == AtEnd /\ ~done /\ done' = TRUE /\ UNCHANGED <<text, cursor, tokens, diags>>

Next == Lex \/ EndOfFile
Spec == Init /\ [][Next]_vars

-----------------------------------------------------------------------------
(* What the tokens of C are, by the characters from i up to j.             *)
IsWord(i, j) == At(i) \in IdentStart /\ \A r \in i..j - 1 : At(r) \in IdentBody

IsNumber(i, j) ==
    /\ At(i) \in Digit \/ (At(i) = "." /\ i + 1 < j /\ At(i + 1) \in Digit)
    /\ \A r \in i + 1..j - 1 :
          \/ At(r) \in IdentBody \cup {"."}
          \/ At(r) \in {"+", "-"} /\ At(r - 1) = "e" /\ ~StartsWith(i, <<"0", "x">>)

(* A character is escaped by an odd number of backslashes before it. *)
Escaped(i, r) ==
    Cardinality({b \in i + 1..r - 1 : \A c \in b..r - 1 : At(c) = "\\"}) % 2 = 1
IsQuoted(i, j) ==
    /\ j > i + 1 /\ At(i) \in {"'", "\""} /\ At(j - 1) = At(i) /\ ~Escaped(i, j - 1)
    /\ \A r \in i + 1..j - 2 : At(r) \in {At(i), "\n"} => Escaped(i, r)

IsPunctuator(i, j) ==
    /\ ~StartsWith(i, <<"/", "/">>) /\ ~StartsWith(i, <<"/", "*">>)
    /\ \E k \in DOMAIN Punctuators : SubSeq(text, i, j - 1) = Punctuators[k]

IsLexeme(i, j) == IsWord(i, j) \/ IsNumber(i, j) \/ IsQuoted(i, j) \/ IsPunctuator(i, j)

IsComment(i, j) ==
    \/ /\ StartsWith(i, <<"/", "/">>) /\ At(j) \in {"\n", "end"}
       /\ \A r \in i..j - 1 : At(r) # "\n"
    \/ /\ StartsWith(i, <<"/", "*">>) /\ j >= i + 4 /\ StartsWith(j - 2, <<"*", "/">>)
       /\ \A r \in i + 2..j - 3 : ~StartsWith(r, <<"*", "/">>)

IsTrivia(i, j) ==
    LET skipped[p \in i..j] ==
            \/ p = j
            \/ p < j /\ At(p) \in Blanks /\ skipped[p + 1]
            \/ \E k \in p + 2..j : IsComment(p, k) /\ skipped[k]
    IN  skipped[i]

(* Where the character at p is. *)
LocationOf(p) ==
    LET breaks == {r \in 1..p - 1 : text[r] = "\n"}
    IN  <<1 + Cardinality(breaks),
          IF breaks = {} THEN p ELSE p - (CHOOSE r \in breaks : \A b \in breaks : b <= r)>>

(* "the lexer takes the longest one" (docs/design/lexing.md:46): a token   *)
(* is one of C's that could not have been longer, an error is reported     *)
(* only where none and no comment begins, and of a text that is accepted   *)
(* nothing but blanks and comments is left out.                            *)
LongestTokens ==
    /\ \A k \in DOMAIN tokens :
          /\ IsLexeme(tokens[k].begin, tokens[k].end)
          /\ \A j \in tokens[k].end + 1..Len(text) + 1 : ~IsLexeme(tokens[k].begin, j)
    /\ \A p \in DOMAIN text : LocationOf(p) \in ToSet(diags) =>
          \A j \in p + 1..Len(text) + 1 : ~IsLexeme(p, j) /\ ~IsComment(p, j)
    /\ done /\ diags = <<>> =>
          \A k \in 0..Len(tokens) :
             IsTrivia(IF k = 0 THEN 1 ELSE tokens[k].end,
                      IF k = Len(tokens) THEN Len(text) + 1 ELSE tokens[k + 1].begin)

(* "Every token ... and diagnostic carries one, so errors can point at the *)
(* exact spot" (SourceLocation.h:3-5): whatever comments and literals span *)
(* lines before it, a token's location is that of its first character.     *)
Located ==
    /\ \A k \in DOMAIN tokens : tokens[k].loc = LocationOf(tokens[k].begin)
    /\ \A k \in DOMAIN diags : \E p \in DOMAIN text : diags[k] = LocationOf(p)

(* The value the parser gives a literal is the one its characters spell,   *)
(* and a literal is rejected exactly when they spell none.                 *)
Spelling(k) == SubSeq(text, tokens[k].begin, tokens[k].end - 1)
Decoded ==
    \A k \in DOMAIN tokens :
        /\ tokens[k].kind \in {"string", "char"} => StringMeant(Body(Spelling(k)))
        /\ tokens[k].kind = "char" => CharMeant(Spelling(k))
        /\ tokens[k].kind = "int" => IntMeant(Spelling(k))
=============================================================================
