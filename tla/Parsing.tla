------------------------------ MODULE Parsing ------------------------------
(***************************************************************************)
(* The parser against the grammar, over every text of some sources.        *)
(***************************************************************************)
EXTENDS Parser, Grammar

LOCAL InFunction == <<"int", "f()", "{">>
LOCAL InInit == <<"int", "x", "=">>
LOCAL Source(from, given, rest, kinds, stop, length, errors) ==
    [from |-> from, given |-> given, rest |-> rest, kinds |-> kinds, stop |-> stop,
     length |-> length, errors |-> errors]
LOCAL Statements(kinds, length, errors) ==
    Source(InFunction, <<"f()", "begin">>, "after int f() {", kinds, {}, length, errors)
LOCAL AfterIf(kinds, length) ==
    Source(InFunction \o <<"if", "(", "x", ")">>, <<"f()", "begin", "x">>,
           "after int f() { if ( x )", kinds, {}, length, 0)
LOCAL Initializers(kinds, length) ==
    Source(InInit, <<"x">>, "after int x =", kinds, {";"}, length, 0)

(* What follows from on a text is any sequence of at most length kinds; it *)
(* ends early at a token of stop or after more than errors errors.         *)
AllSources == [
  declarations |-> Source(<<>>, <<>>, "unit",
      {"int", "void", "x", "f()", "=", ",", ";", "{", "}"}, {}, 8, 0),
  specifiers |-> Source(<<>>, <<>>, "unit", {"int", "void", "const", "f()", "x", ";"}, {}, 6, 0),
  statements |-> Statements(
      {"int", "x", "=", ";", "{", "}", "return", "break", "continue", "if", "while", "(", ")"}, 6, 0),
  elses |-> AfterIf({"if", "(", "x", ")", "else", ";", "while", "}"}, 8),
  substatements |-> AfterIf({"int", "x", ";", "else", "}"}, 8),
  operators |-> Initializers({"x", "||", "&&", "==", "<", "+", "*", "="}, 7),
  prefixes |-> Initializers({"x", "+", "-", "!", "*", "&", "sizeof", "%"}, 5),
  postfixes |-> Initializers({"x", "(", ")", "[", "]", ",", "*"}, 7),
  casts |-> Initializers({"x", "(", ")", "int", "*", "-", "sizeof"}, 6),
  literals |-> Initializers({"1", "1e", "s", "s!", ",", "{", "}", "f()"}, 6),
  broken |-> Statements({"x", ";", "{", "}"}, 6, 2),
  brokenLocals |-> Statements({"int", "x", ";", "}", "f()", "{"}, 5, 2),
  brokenFile |-> Source(<<>>, <<>>, "unit", {"int", "x", "=", "{", "}", ";"}, {}, 5, 2)]

(* Of each source, the sentences with their trees, and what they begin with. *)
Language == [s \in DOMAIN Sources |->
    LET src == Sources[s]
        all == Derivations(src.length, src.kinds \cup src.stop)
        sentences == {<<src.from \o d[1] \o <<"eof">>, src.given \o d[2]>> :
                        d \in UNION {all[m][src.rest] : m \in DOMAIN all}}
    IN  [sentences |-> sentences,
         beginnings |-> UNION {{SubSeq(d[1], 1, k) : k \in DOMAIN d[1]} : d \in sentences}]]

(* parse() accepts the sentences of the documented grammar and no others,  *)
(* with their only derivation as the tree; no sentence begins as the text  *)
(* does up to the first token at which it reports an error.  The           *)
(* exceptions are the productions in which Taken differs from Documented:  *)
(* a declaration as the body of an if or a while, a declaration without a  *)
(* declarator or of a function in a block, an empty initializer list.      *)
MatchesGrammar ==
    /\ stack = <<>> /\ diags = <<>> => <<text, tree>> \in Language[source].sentences
    /\ Len(diags) = 1 => SubSeq(text, 1, diags[1]) \notin Language[source].beginnings
=============================================================================
