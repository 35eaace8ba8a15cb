------------------------------- MODULE Parser -------------------------------
(***************************************************************************)
(* lib/Parse/Parser.cpp: recursive descent, precedence climbing and error  *)
(* recovery.  The C++ activations are frames on a stack, innermost first;  *)
(* a frame says what its method has left to do.  A method is cut at the    *)
(* calls of other methods.  Tokens are chosen when the parser first looks  *)
(* at them, so that the behaviours are its runs over all texts of a        *)
(* source: a prefix, a set of kinds, a length.                             *)
(*                                                                         *)
(* A declarator is one token here: "x" declares an object (and is a name   *)
(* in expressions), "f()" a function (a call without arguments).  Module   *)
(* Declarators models what they stand for.  "1" is a literal, "1e" one     *)
(* whose value the parser rejects; "s" and "s!" are the same for strings.  *)
(***************************************************************************)
EXTENDS Naturals, Sequences, SequencesExt, FiniteSets

CONSTANT Sources   \* name -> [from, kinds, stop, length, errors]

ASSUME SourcesAssumption == \A s \in DOMAIN Sources : Sources[s].from \in Seq(STRING)

VARIABLES
    source,   \* the member of Sources being parsed
    text,     \* toks_, as far as the parser has looked
    pos,      \* pos_, the number of tokens consumed
    stack,    \* what the activations have left to do
    tree,     \* the nodes made, operands before operators; empty after an error
    diags,    \* diags_: the number of the token each error is reported at
    pairs     \* braces taken to match: <<number of "{", number of "}">>

vars == <<source, text, pos, stack, tree, diags, pairs>>

BaseTypes == {"int", "void"}
IsTypeStart(kind) == kind \in BaseTypes \cup {"const"}

Levels == <<{"||"}, {"&&"}, {"==", "!="}, {"<", ">", "<=", ">="}, {"+", "-"},
            {"*", "/", "%"}>>
BinaryOps == UNION {Levels[l] : l \in DOMAIN Levels}
BinaryInfo(kind) == CHOOSE l \in DOMAIN Levels : kind \in Levels[l]

UnaryOps == {"+", "-", "!", "*", "&"}
UnaryNode(kind) ==
    CASE kind = "+" -> "plus" [] kind = "-" -> "minus" [] kind = "!" -> "not"
      [] kind = "*" -> "deref" [] kind = "&" -> "addrof"

Frame(rule, n, sym) == [rule |-> rule, n |-> n, sym |-> sym]
F(rule) == Frame(rule, 0, "")
Emit(node) == Frame("Emit", 0, node)
Expect(kind) == Frame("Expect", 0, kind)
Semi(node) == Frame("Semi", 0, node)
Expr == <<F("Unary"), Frame("Binary", 1, ""), F("Assignment")>>

Top == Head(stack)
At(rule) == Top.rule = rule
Tok == text[pos + 1]
Peek1 == text[pos + 2]

Init ==
    /\ source \in DOMAIN Sources
    /\ text = <<>> /\ pos = 0 /\ tree = <<>> /\ diags = <<>> /\ pairs = {}
    /\ stack = <<F("Run")>>

-----------------------------------------------------------------------------
(* The token list.  peek() needs one token, and the check for a type after *)
(* "(" two.  Where a declarator may start or go on, "(" and "[" are left   *)
(* to module Declarators.                                                  *)

Ahead == IF Len(text) > pos /\ Tok = "(" THEN 2 ELSE 1
Ready == stack # <<>> /\ Len(text) >= pos + Ahead

InDeclarator ==
    Top.rule \in {"DeclSpec", "ExternalDeclarator", "LocalDeclarator",
                  "FinishVarDecl", "FunctionRest", "TypeName"}

NextKinds ==
    LET s == Sources[source] IN
    IF Len(text) < Len(s.from) THEN {s.from[Len(text) + 1]}
    ELSE IF \/ Len(text) = Len(s.from) + s.length
            \/ Len(diags) > s.errors
            \/ Len(text) > Len(s.from) /\ Last(text) \in s.stop
    THEN {"eof"}
    ELSE (s.kinds \cup s.stop \cup {"eof"}) \ (IF InDeclarator THEN {"(", "["} ELSE {})

Scan ==
    /\ stack # <<>> /\ ~Ready
    /\ \E kind \in NextKinds : text' = Append(text, kind)
    /\ UNCHANGED <<source, pos, stack, tree, diags, pairs>>

(* One step of the innermost activation: it consumes n tokens, makes nodes *)
(* and leaves frames to do.                                                *)
Step(n, frames, nodes) ==
    /\ pos' = pos + n
    /\ stack' = frames \o Tail(stack)
    /\ tree' = IF diags = <<>> THEN tree \o nodes ELSE <<>>
    /\ UNCHANGED <<source, text, diags>>

Do(n, frames, nodes) == Step(n, frames, nodes) /\ UNCHANGED pairs

(* The step that consumes "}" as the match of the "{" numbered open. *)
Pair(open, nodes) ==
    /\ Tok = "}"
    /\ Step(1, <<>>, nodes)
    /\ pairs' = pairs \cup {<<open, pos + 1>>}

(* error() at token number at, after n more tokens were consumed; then     *)
(* every activation returns nullopt up to the loop of parseCompound or     *)
(* run, which synchronizes.  Both loops first skip a token if nothing was  *)
(* consumed since they called.                                             *)
Fail(n, at) ==
    LET i == SelectInSeq(stack, LAMBDA f : f.rule \in {"Run", "Block"})
        top == stack[i].rule = "Run"
        end == pos + n
        Stay == {"eof"} \cup IF top THEN {} ELSE {"}"}
    IN  /\ diags' = Append(diags, at)
        /\ pos' = IF end = stack[i].n /\ Tok \notin Stay THEN end + 1 ELSE end
        /\ stack' = <<F(IF top THEN "SyncTopLevel" ELSE "SyncStatement")>>
                    \o SubSeq(stack, i, Len(stack))
        /\ tree' = <<>>
        /\ UNCHANGED <<source, text, pairs>>

(* Definitions with a bug in them: the end of the text is skipped too; a    *)
(* ";" is left to the next declaration; tokens are looked at instead of     *)
(* consumed; the end of the block is skipped.                              *)
SyncTopLevelPastEnd ==
    /\ At("SyncTopLevel")
    /\ IF Tok \in {";", "}"} THEN Do(1, <<>>, <<>>) ELSE Do(1, <<Top>>, <<>>)

SyncTopLevelBeforeSemi ==
    /\ At("SyncTopLevel")
    /\ CASE Tok \in {"eof", ";"} -> Do(0, <<>>, <<>>)
         [] Tok = "}" -> Do(1, <<>>, <<>>)
         [] OTHER -> Do(1, <<Top>>, <<>>)

SyncStatementPeeks ==
    /\ At("SyncStatement")
    /\ IF Tok \in {"eof", "}", ";"} THEN Do(0, <<>>, <<>>) ELSE Do(0, <<Top>>, <<>>)

SyncStatementPastBlock ==
    /\ At("SyncStatement")
    /\ CASE Tok = "eof" -> Do(0, <<>>, <<>>)
         [] Tok = ";" -> Do(1, <<>>, <<>>)
         [] OTHER -> Do(1, <<Top>>, <<>>)

SyncTopLevel ==
    /\ At("SyncTopLevel")
    /\ LET depth == Top.n
           After(d) == Do(1, <<[Top EXCEPT !.n = d]>>, <<>>)
       IN  CASE Tok = "eof" -> Do(0, <<>>, <<>>)
             [] Tok = "{" -> After(depth + 1)
             [] Tok = "}" -> IF depth <= 1 THEN Do(1, <<>>, <<>>) ELSE After(depth - 1)
             [] Tok = ";" /\ depth = 0 -> Do(1, <<>>, <<>>)
             [] OTHER -> After(depth)

SyncStatement ==
    /\ At("SyncStatement")
    /\ CASE Tok \in {"eof", "}"} -> Do(0, <<>>, <<>>)
         [] Tok = ";" -> Do(1, <<>>, <<>>)
         [] OTHER -> Do(1, <<Top>>, <<>>)

(* Frames that wait for one token, and the node made at a method's return. *)
Expected ==
    /\ At("Expect")
    /\ IF Tok = Top.sym THEN Do(1, <<>>, <<>>) ELSE Fail(0, pos + 1)

Semicolon ==
    /\ At("Semi")
    /\ IF Tok = ";" THEN Do(1, <<>>, <<Top.sym>>) ELSE Fail(0, pos + 1)

MakeNode == At("Emit") /\ Do(0, <<>>, <<Top.sym>>)

-----------------------------------------------------------------------------
(* Declarations.  The sym of these frames is the base type. *)

Run ==
    /\ At("Run")
    /\ IF Tok = "eof" THEN Do(0, <<>>, <<>>)
       ELSE Do(0, <<F("DeclSpec"), F("ExternalDecl"), Frame("Run", pos, "")>>, <<>>)

DeclSpec ==
    /\ At("DeclSpec")
    /\ CASE Tok = "const" -> Do(1, <<Top>>, <<>>)
         [] Tok \in BaseTypes /\ Top.sym = "" -> Do(1, <<[Top EXCEPT !.sym = Tok]>>, <<>>)
         [] Tok \in BaseTypes /\ Top.sym # "" -> Fail(1, pos + 1)
         [] OTHER ->
              IF Top.sym = "" THEN Fail(0, pos + 1)
              ELSE /\ stack' = <<[stack[2] EXCEPT !.sym = Top.sym]>>
                               \o SubSeq(stack, 3, Len(stack))
                   /\ UNCHANGED <<source, text, pos, tree, diags, pairs>>

ExternalDecl ==
    /\ At("ExternalDecl")
    /\ IF Tok = ";" THEN Do(1, <<>>, <<>>)
       ELSE Do(0, <<Frame("ExternalDeclarator", 1, Top.sym)>>, <<>>)

(* n = 1: the first declarator, which a function's body may follow. *)
ExternalDeclarator ==
    /\ At("ExternalDeclarator")
    /\ CASE Tok = "x" -> Do(1, <<Frame("FinishVarDecl", 0, Top.sym),
                                 Frame("ExternalComma", 0, Top.sym)>>, <<"x">>)
         [] Tok = "f()" -> Do(1, <<Frame("FunctionRest", Top.n, Top.sym)>>, <<"f()">>)
         [] OTHER -> Fail(0, pos + 1)

FunctionRest ==
    /\ At("FunctionRest")
    /\ IF Top.n = 1 /\ Tok = "{" THEN Do(0, <<F("Compound"), Emit("function")>>, <<>>)
       ELSE Do(0, <<Frame("ExternalComma", 0, Top.sym)>>, <<"prototype">>)

Comma(frame, rule) ==
    /\ At(frame)
    /\ CASE Tok = "," -> Do(1, <<Frame(rule, 0, Top.sym)>>, <<>>)
         [] Tok = ";" -> Do(1, <<>>, <<"declaration">>)
         [] OTHER -> Fail(0, pos + 1)

ExternalComma == Comma("ExternalComma", "ExternalDeclarator")
LocalComma == Comma("LocalComma", "LocalDeclarator")

LocalDeclarator ==
    /\ At("LocalDeclarator")
    /\ CASE Tok = "x" -> Do(1, <<Frame("FinishVarDecl", 0, Top.sym),
                                 Frame("LocalComma", 0, Top.sym)>>, <<"x">>)
         [] Tok = "f()" -> Fail(1, pos + 1)
         [] OTHER -> Fail(0, pos + 1)

FinishVarDecl ==
    /\ At("FinishVarDecl")
    /\ CASE Top.sym = "void" -> Fail(0, pos)
         [] Top.sym # "void" /\ Tok = "=" ->
              Do(1, <<F("Initializer"), Emit("init")>>, <<>>)
         [] OTHER -> Do(0, <<>>, <<"var">>)

(* n: the number of the list's "{". *)
Initializer ==
    /\ At("Initializer")
    /\ IF Tok = "{" THEN Do(1, <<Frame("InitList", pos + 1, "")>>, <<"list">>)
       ELSE Do(0, Expr, <<>>)

InitList ==
    /\ At("InitList")
    /\ \/ Pair(Top.n, <<"end list">>)
       \/ /\ Tok # "}"
          /\ Do(0, <<F("Initializer"), Frame("InitComma", Top.n, "")>>, <<>>)

InitComma ==
    /\ At("InitComma")
    /\ \/ Pair(Top.n, <<"end list">>)
       \/ Tok = "," /\ Do(1, <<Frame("InitList", Top.n, "")>>, <<>>)
       \/ Tok \notin {",", "}"} /\ Fail(0, pos + 1)

-----------------------------------------------------------------------------
(* Statements.  The n of Block is where its current statement began. *)

Compound ==
    /\ At("Compound")
    /\ Do(1, <<Frame("Block", pos + 1, ""), Frame("BlockEnd", pos + 1, "")>>, <<"begin">>)

Block ==
    /\ At("Block")
    /\ IF Tok \in {"}", "eof"} THEN Do(0, <<>>, <<>>)
       ELSE Do(0, <<F("Statement"), Frame("Block", pos, "")>>, <<>>)

BlockEnd ==
    /\ At("BlockEnd")
    /\ \/ Pair(Top.n, <<"end">>)
       \/ Tok # "}" /\ Fail(0, pos + 1)

Statement ==
    /\ At("Statement")
    /\ CASE Tok = "{" -> Do(0, <<F("Compound")>>, <<>>)
         [] Tok = ";" -> Do(1, <<>>, <<"null">>)
         [] Tok \in {"break", "continue"} -> Do(1, <<Semi(Tok)>>, <<>>)
         [] Tok = "return" -> Do(1, <<F("ReturnValue")>>, <<>>)
         [] Tok = "if" -> Do(1, <<F("Condition"), F("Statement"), F("Else")>>, <<>>)
         [] Tok = "while" ->
              Do(1, <<F("Condition"), F("Statement"), Emit("while")>>, <<>>)
         [] IsTypeStart(Tok) -> Do(0, <<F("DeclSpec"), F("LocalDeclarator")>>, <<>>)
         [] OTHER -> Do(0, Expr \o <<Semi("expr")>>, <<>>)

ReturnValue ==
    /\ At("ReturnValue")
    /\ IF Tok = ";" THEN Do(1, <<>>, <<"return">>)
       ELSE Do(0, Expr \o <<Semi("return value")>>, <<>>)

Condition ==
    /\ At("Condition")
    /\ IF Tok = "(" THEN Do(1, Expr \o <<Expect(")")>>, <<>>) ELSE Fail(0, pos + 1)

Else ==
    /\ At("Else")
    /\ IF Tok = "else" THEN Do(1, <<F("Statement"), Emit("if else")>>, <<>>)
       ELSE Do(0, <<>>, <<"if">>)

-----------------------------------------------------------------------------
(* Expressions *)

Assignment ==
    /\ At("Assignment")
    /\ IF Tok = "=" THEN Do(1, Expr \o <<Emit("=")>>, <<>>) ELSE Do(0, <<>>, <<>>)

(* A definition with a bug in it: operators associate to the right. *)
BinaryRightAssociative ==
    /\ At("Binary")
    /\ IF Tok \in BinaryOps /\ BinaryInfo(Tok) >= Top.n
       THEN Do(1, <<F("Unary"), Frame("Binary", BinaryInfo(Tok), ""), Emit(Tok), Top>>, <<>>)
       ELSE Do(0, <<>>, <<>>)

(* n: minPrecedence *)
Binary ==
    /\ At("Binary")
    /\ IF Tok \in BinaryOps /\ BinaryInfo(Tok) >= Top.n
       THEN Do(1, <<F("Unary"), Frame("Binary", BinaryInfo(Tok) + 1, ""), Emit(Tok), Top>>, <<>>)
       ELSE Do(0, <<>>, <<>>)

TypeInParens == Tok = "(" /\ IsTypeStart(Peek1)

Unary ==
    /\ At("Unary")
    /\ CASE Tok \in UnaryOps -> Do(1, <<F("Unary"), Emit(UnaryNode(Tok))>>, <<>>)
         [] Tok = "sizeof" -> Do(1, <<F("SizeOf")>>, <<>>)
         [] TypeInParens ->
              Do(1, <<F("DeclSpec"), F("TypeName"), Expect(")"), F("Unary"), Emit("cast")>>, <<>>)
         [] OTHER -> Do(0, <<F("Primary"), F("Postfix")>>, <<>>)

SizeOf ==
    /\ At("SizeOf")
    /\ IF TypeInParens
       THEN Do(1, <<F("DeclSpec"), F("TypeName"), Expect(")"), Emit("sizeof type")>>, <<>>)
       ELSE Do(0, <<F("Unary"), Emit("sizeof")>>, <<>>)

TypeName ==
    /\ At("TypeName")
    /\ CASE Tok = "*" -> Do(1, <<Top>>, <<"pointer">>)
         [] Tok = "const" /\ text[pos] = "*" -> Do(1, <<Top>>, <<>>)
         [] Tok \in {"x", "f()"} -> Fail(1, pos + 1)
         [] OTHER -> Do(0, <<>>, <<Top.sym>>)

Postfix ==
    /\ At("Postfix")
    /\ CASE Tok = "(" -> Do(1, <<F("Args"), F("Postfix")>>, <<"callee">>)
         [] Tok = "[" -> Do(1, Expr \o <<Expect("]"), Emit("index"), F("Postfix")>>, <<>>)
         [] OTHER -> Do(0, <<>>, <<>>)

Args ==
    /\ At("Args")
    /\ IF Tok = ")" THEN Do(1, <<>>, <<"call">>) ELSE Do(0, Expr \o <<F("ArgsRest")>>, <<>>)

ArgsRest ==
    /\ At("ArgsRest")
    /\ CASE Tok = "," -> Do(1, Expr \o <<F("ArgsRest")>>, <<>>)
         [] Tok = ")" -> Do(1, <<>>, <<"call">>)
         [] OTHER -> Fail(0, pos + 1)

Primary ==
    /\ At("Primary")
    /\ CASE Tok \in {"x", "f()", "1"} -> Do(1, <<>>, <<Tok>>)
         [] Tok = "s" -> Do(1, <<F("Strings")>>, <<>>)
         [] Tok \in {"1e", "s!"} -> Fail(1, pos + 1)
         [] Tok = "(" -> Do(1, Expr \o <<Expect(")")>>, <<>>)
         [] OTHER -> Fail(0, pos + 1)

Strings ==
    /\ At("Strings")
    /\ CASE Tok = "s" -> Do(1, <<Top>>, <<>>)
         [] Tok = "s!" -> Fail(1, pos + 1)
         [] OTHER -> Do(0, <<>>, <<"s">>)

-----------------------------------------------------------------------------
Parse ==
    \/ Run \/ DeclSpec \/ ExternalDecl \/ ExternalDeclarator \/ FunctionRest
    \/ ExternalComma \/ LocalComma \/ LocalDeclarator \/ FinishVarDecl
    \/ Initializer \/ InitList \/ InitComma
    \/ Compound \/ Block \/ BlockEnd \/ Statement \/ ReturnValue \/ Condition \/ Else
    \/ Assignment \/ Binary \/ Unary \/ SizeOf \/ TypeName \/ Postfix \/ Args
    \/ ArgsRest \/ Primary \/ Strings
    \/ SyncTopLevel \/ SyncStatement \/ Expected \/ Semicolon \/ MakeNode

Done == stack = <<>> /\ UNCHANGED vars

Next == Scan \/ (Ready /\ Parse) \/ Done
Spec == Init /\ [][Next]_vars
FairSpec == Spec /\ WF_vars(Next)

-----------------------------------------------------------------------------
Kinds == {"eof"} \cup UNION {Sources[s].kinds \cup Sources[s].stop \cup Range(Sources[s].from) :
                                s \in DOMAIN Sources}

(* The parser stays in its text, errors are at tokens it has seen, and     *)
(* every activation is inside run.                                         *)
TypeOK ==
    /\ source \in DOMAIN Sources
    /\ text \in Seq(Kinds)
    /\ pos \in 0..Len(text) /\ (pos > 0 => text[pos] # "eof")
    /\ Range(diags) \subseteq 1..Len(text)
    /\ pairs \subseteq (1..pos) \X (1..pos)
    /\ stack # <<>> => Last(stack).rule = "Run"
    /\ \A i \in DOMAIN stack : stack[i].n \in Nat

(* Recovery makes progress: no token but the end of the text is reported   *)
(* twice (the open blocks each report the end).                            *)
ReportedOnce ==
    \A i, j \in DOMAIN diags : i # j /\ diags[i] = diags[j] => text[diags[i]] = "eof"

Braces(kind, i, j) == Cardinality({k \in i..j : text[k] = kind})
Balanced(i, j) == Braces("{", i, j) = Braces("}", i, j)
IsMatch(p) == Balanced(p[1], p[2]) /\ \A k \in p[1]..(p[2] - 1) : ~Balanced(p[1], k)

(* Blocks and initializer lists end at their own "}", whatever was broken  *)
(* inside, as long as recovery skipped none of the "{" in between: then a  *)
(* broken statement costs neither the rest of the block nor the next       *)
(* declaration.                                                            *)
BlocksKept ==
    \A p \in pairs :
        \/ IsMatch(p)
        \/ \E i \in p[1]..p[2] : text[i] = "{" /\ \A q \in pairs : q[1] # i

(* "keep the rest of the block so that recovery does not swallow the next  *)
(* declaration" (Parser.cpp:511-512): every block ends at its own "}".     *)
BlocksEndAtTheirBrace == \A p \in pairs : IsMatch(p)

(* Recovery or not, the parser gets to the end of every text.              *)
Terminates == <>(stack = <<>>)
=============================================================================
