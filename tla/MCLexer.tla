------------------------------ MODULE MCLexer -------------------------------
(* Every short text, and every string and integer with one or two escapes  *)
(* or a few digits.                                                        *)
EXTENDS Lexer

Characters == {"i", "f", "e", "x", "0", "9", ".", "+", "=", "&", "/", "*", "'", "\\", "\n", "@"}
Short == UNION {[1..n -> Characters] : n \in 0..4}
Escaped5 == {<<"\"">> \o body \o <<"\"">> : body \in UNION {[1..n -> {"x", "1", "8", "7", "\\"}] : n \in 0..6}}
Chars == {<<"'">> \o body \o <<"'">> : body \in UNION {[1..n -> {"x", "4", "0", "n", "\\"}] : n \in 0..5}}
Integers4 == [1..5 -> {"0", "1", "7", "9", "a", "x"}]
InLines == {<<"/", "*", "\n", "*", "/">> \o rest : rest \in [1..3 -> {"\n", "i", "=", "\"", "\\"}]}
MCTexts == Short \cup Escaped5 \cup Chars \cup Integers4 \cup InLines
MCKeywords == {<<"i", "f">>}
=============================================================================
