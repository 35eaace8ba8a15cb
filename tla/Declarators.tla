---------------------------- MODULE Declarators ----------------------------
(***************************************************************************)
(* Types in source text: the declarators of lib/Parse/Parser.cpp, and how  *)
(* lib/AST/Type.cpp spells a type.  The parser's functions read tokens and *)
(* return a record; here a type is its structure (Types!Unique: one address *)
(* for each).  A behaviour either lets the TypeContext make types, or writes *)
(* a declarator from its name outwards while noting what it means.         *)
(***************************************************************************)
EXTENDS Types, SequencesExt, FiniteSets

CONSTANTS
    MaxLayers    \* bound on the pointers, arrays, parameters and parentheses of a declarator

VARIABLES
    goal,        \* "context": types are made; else what the declarator is for
    spec,        \* the specifier tokens of the declaration
    text,        \* the declarator written so far
    direct,      \* whether "[" or "(" after it belongs to all of it
    uses,        \* what it derives, the name's own type first
    layers       \* how many layers text has

declVars == <<goal, spec, text, direct, uses, layers>>

(* Structures *)
S(kind, of, n, params, variadic) ==
    [kind |-> kind, of |-> of, n |-> n, params |-> params, variadic |-> variadic]
Plain(kind) == S(kind, <<>>, 0, <<>>, FALSE)
PointerS(t) == S("pointer", <<t>>, 0, <<>>, FALSE)
ArrayS(t, n) == S("array", <<t>>, n, <<>>, FALSE)
FunctionS(t, params, variadic) == S("function", <<t>>, 0, params, variadic)

RECURSIVE Structure(_)
Structure(a) ==
    LET t == storage[a] IN
    S(t.kind, IF t.inner = NoType THEN <<>> ELSE <<Structure(t.inner)>>, t.length,
      [i \in DOMAIN t.params |-> Structure(t.params[i])], t.variadic)

-----------------------------------------------------------------------------
(* Spelling, as tokens *)

Number(n) == CASE n = 2 -> "2" [] n = 3 -> "3" [] OTHER -> "64"

RECURSIVE Spell(_, _)
(* A definition with a bug in it: a pointer to an array without parentheses. *)
SpellFlat(t, inner) ==
    CASE t.kind = "pointer" -> Spell(t.of[1], <<"*">> \o inner)
      [] t.kind = "array" ->
           Spell(t.of[1], inner \o (IF t.n = 0 THEN <<"[", "]">> ELSE <<"[", Number(t.n), "]">>))
      [] OTHER -> <<t.kind>> \o inner

Spell(t, inner) ==
    CASE t.kind = "pointer" ->
           IF t.of[1].kind \in {"array", "function"}
           THEN Spell(t.of[1], <<"(", "*">> \o inner \o <<")">>)
           ELSE Spell(t.of[1], <<"*">> \o inner)
      [] t.kind = "array" ->
           Spell(t.of[1], inner \o (IF t.n = 0 THEN <<"[", "]">> ELSE <<"[", Number(t.n), "]">>))
      [] t.kind = "function" ->
           LET one == [i \in DOMAIN t.params |-> Spell(t.params[i], <<>>)]
               all == [i \in DOMAIN one |-> IF i = 1 THEN one[i] ELSE <<",">> \o one[i]]
               dots == IF ~t.variadic THEN <<>>
                       ELSE IF one = <<>> THEN <<"...">> ELSE <<",", "...">>
           IN  Spell(t.of[1], inner \o <<"(">> \o FlattenSeq(all) \o dots \o <<")">>)
      [] OTHER -> <<t.kind>> \o inner

-----------------------------------------------------------------------------
(* Parsing from token i on.  A function of the parser returns its value    *)
(* and the next token, or Error.                                           *)

Error == [ok |-> FALSE]
Got(i, val) == [ok |-> TRUE, pos |-> i, val |-> val]
Then(parsed, Rest(_)) == IF parsed.ok THEN Rest(parsed) ELSE Error

RECURSIVE ParseDeclSpec(_, _, _), Stars(_, _), Resolve(_, _, _)
RECURSIVE ParseDeclarator(_, _, _), ParseSuffixes(_, _, _), ParseParams(_, _, _)

ParseDeclSpec(t, i, base) ==
    CASE t[i] = "const" -> ParseDeclSpec(t, i + 1, base)
      [] t[i] \in Range(BaseKinds) ->
           IF base # "" THEN Error ELSE ParseDeclSpec(t, i + 1, t[i])
      [] OTHER -> IF base = "" THEN Error ELSE Got(i, Plain(base))

(* The number of stars at i, and the token after them. *)
Stars(t, i) ==
    IF t[i] # "*" THEN <<0, i>>
    ELSE LET rest == Stars(t, IF t[i + 1] = "const" THEN i + 2 ELSE i + 1)
         IN  <<rest[1] + 1, rest[2]>>

ConstantValue(token) ==
    CASE token = "2" -> Some(2) [] token = "3" -> Some(3) [] token = "64" -> Some(64)
      [] token = "0" -> Some(0) [] OTHER -> None

(* An expression is one token. *)
ParseArrayLength(t, i) ==
    IF t[i] = "]" THEN Got(i + 1, 0)
    ELSE LET value == ConstantValue(t[i])
         IN  IF t[i + 1] # "]" \/ ~value.has THEN Error
             ELSE IF value.n <= 0 THEN Error ELSE Got(i + 2, value.n)

PointerOp == [op |-> "pointer", n |-> 0, params |-> <<>>, variadic |-> FALSE]
ArrayOp(n) == [PointerOp EXCEPT !.op = "array", !.n = n]
FunctionOp(params, variadic) ==
    [PointerOp EXCEPT !.op = "function", !.params = params, !.variadic = variadic]

(* Applies ops from number k on to type. *)
Resolve(type, ops, k) ==
    IF k > Len(ops) THEN Got(0, type)
    ELSE LET o == ops[k] IN
         CASE o.op = "pointer" -> Resolve(PointerS(type), ops, k + 1)
           [] o.op = "array" ->
                IF \/ type.kind \in {"void", "function"}
                   \/ type.kind = "array" /\ type.n = 0
                THEN Error ELSE Resolve(ArrayS(type, o.n), ops, k + 1)
           [] o.op = "function" ->
                IF type.kind \in {"array", "function"} \/ k # Len(ops) THEN Error
                ELSE Resolve(FunctionS(type, o.params, o.variadic), ops, k + 1)

ParseSuffixes(t, i, ops) ==
    CASE t[i] = "[" ->
           Then(ParseArrayLength(t, i + 1),
                LAMBDA n : ParseSuffixes(t, n.pos, Append(ops, ArrayOp(n.val))))
      [] t[i] = "(" ->
           Then(ParseParams(t, i + 1, <<>>),
                LAMBDA f : ParseSuffixes(t, f.pos, Append(ops, f.val)))
      [] OTHER -> Got(i, ops)

(* A definition with a bug in it: suffixes apply in the order they are read. *)
StackedAsRead(stars, suffixes, inner) ==
    [k \in 1..stars |-> PointerOp] \o suffixes \o inner

(* The derivations of a declarator in the order they apply to the base. *)
Stacked(stars, suffixes, inner) ==
    [k \in 1..stars |-> PointerOp] \o Reverse(suffixes) \o inner

ParseDeclarator(t, i, abstract) ==
    LET stars == Stars(t, i)
        j == stars[2]
        nested == t[j] = "(" /\ (abstract => t[j + 1] \in {"*", "x"})
        After(k, name, inner) ==
            Then(ParseSuffixes(t, k, <<>>), LAMBDA suffixes :
                 Got(suffixes.pos,
                     [name |-> name, ops |-> Stacked(stars[1], suffixes.val, inner)]))
    IN  IF nested
        THEN Then(ParseDeclarator(t, j + 1, abstract), LAMBDA inner :
                  IF t[inner.pos] # ")" THEN Error
                  ELSE After(inner.pos + 1, inner.val.name, inner.val.ops))
        ELSE IF t[j] # "x" /\ ~abstract THEN Error
        ELSE IF t[j] = "x" THEN After(j + 1, "x", <<>>) ELSE After(j, "", <<>>)

(* Specifiers, a declarator and the type they make. *)
ParseTyped(t, i, abstract) ==
    Then(ParseDeclSpec(t, i, ""), LAMBDA base :
    Then(ParseDeclarator(t, base.pos, abstract), LAMBDA decl :
    Then(Resolve(base.val, decl.val.ops, 1), LAMBDA made :
         Got(decl.pos, [name |-> decl.val.name, type |-> made.val]))))

(* One parameter: its adjusted type. *)
ParseParam(t, i) ==
    Then(ParseTyped(t, i, TRUE), LAMBDA param :
         LET type == param.val.type IN
         CASE type.kind \in {"function", "void"} -> Error
           [] type.kind = "array" -> Got(param.pos, PointerS(type.of[1]))
           [] OTHER -> Got(param.pos, type))

ParseParams(t, i, params) ==
    LET Close(k, ps, variadic) ==
            IF t[k] = ")" THEN Got(k + 1, FunctionOp(ps, variadic)) ELSE Error
    IN  CASE params = <<>> /\ t[i] = ")" -> Close(i, <<>>, FALSE)
          [] params = <<>> /\ t[i] = "void" /\ t[i + 1] = ")" -> Close(i + 1, <<>>, FALSE)
          [] t[i] = "..." -> Close(i + 1, params, TRUE)
          [] OTHER -> Then(ParseParam(t, i), LAMBDA p :
                 IF t[p.pos] = "," THEN ParseParams(t, p.pos + 1, Append(params, p.val))
                 ELSE Close(p.pos, Append(params, p.val), FALSE))

ParseTypeName(t) ==
    Then(ParseTyped(t, 1, TRUE), LAMBDA made :
         IF made.val.name # "" \/ made.val.type.kind = "function" THEN Error
         ELSE Got(made.pos, made.val.type))

(* The part of parseExternalDecl that reads the first declarator. *)
ParseDeclaration(t) ==
    Then(ParseTyped(t, 1, FALSE), LAMBDA made : Got(made.pos, made.val.type))
-----------------------------------------------------------------------------
(* Writing declarators.  A name or nothing comes first; "*" goes in front, *)
(* a suffix after a direct declarator, and parentheses make one direct.    *)

Specs == {<<"int">>, <<"const", "char">>, <<"void", "const">>, <<"const">>, <<"int", "char">>}
Goals == {"context", "object", "type name"}

ParamText(tokens, ok, params, variadic) ==
    [tokens |-> tokens, use |-> [op |-> FunctionOp(params, variadic), ok |-> ok]]
ParamTexts == LET int == Plain("int") IN {
    ParamText(<<>>, TRUE, <<>>, FALSE),
    ParamText(<<"void">>, TRUE, <<>>, FALSE),
    ParamText(<<"...">>, TRUE, <<>>, TRUE),
    ParamText(<<"const", "int", "x", ",", "char">>, TRUE, <<int, Plain("char")>>, FALSE),
    ParamText(<<"int", "*", "const", "x", ",", "...">>, TRUE, <<PointerS(int)>>, TRUE),
    ParamText(<<"int", "x", "[", "]", "[", "2", "]">>, TRUE, <<PointerS(ArrayS(int, 2))>>, FALSE),
    ParamText(<<"int", "(", "*", "x", ")", "[", "3", "]">>, TRUE, <<PointerS(ArrayS(int, 3))>>, FALSE),
    ParamText(<<"int", ",", "void">>, FALSE, <<>>, FALSE),
    ParamText(<<"int", "x", "(", ")">>, FALSE, <<>>, FALSE)}

(* A length, and whether a type can have it. *)
LengthTexts == {<< <<>>, 0, TRUE>>, << <<"2">>, 2, TRUE>>, << <<"0">>, 0, FALSE>>, << <<"x">>, 0, FALSE>>}

Use(op, ok) == [op |-> op, ok |-> ok]

Init ==
    /\ TypesInit
    /\ goal \in Goals
    /\ spec \in IF goal = "context" THEN {<<>>} ELSE Specs
    /\ text = IF goal = "object" THEN <<"x">> ELSE <<>>
    /\ direct = TRUE /\ uses = <<>> /\ layers = 0

Layer(newText, newDirect, newUses) ==
    /\ goal # "context" /\ layers < MaxLayers
    /\ layers' = layers + 1
    /\ text' = newText /\ direct' = newDirect /\ uses' = newUses
    /\ UNCHANGED <<goal, spec>> /\ UNCHANGED typeVars

AddPointer ==
    \E const \in {<<>>, <<"const">>} :
        Layer(<<"*">> \o const \o text, FALSE, Append(uses, Use(PointerOp, TRUE)))

AddArray ==
    /\ direct
    /\ \E n \in LengthTexts :
          Layer(text \o <<"[">> \o n[1] \o <<"]">>, TRUE, Append(uses, Use(ArrayOp(n[2]), n[3])))

AddParams ==
    /\ direct
    /\ \E p \in ParamTexts :
          Layer(text \o <<"(">> \o p.tokens \o <<")">>, TRUE, Append(uses, p.use))

(* In a type name the parser takes "(" for a parenthesis only before "*".  *)
AddParens ==
    /\ goal = "type name" => text # <<>> /\ Head(text) = "*"
    /\ Layer(<<"(">> \o text \o <<")">>, TRUE, uses)

MakeType == goal = "context" /\ TypesNext /\ UNCHANGED declVars

Next == MakeType \/ AddPointer \/ AddArray \/ AddParams \/ AddParens
Spec == Init /\ [][Next]_<<typeVars, declVars>>

-----------------------------------------------------------------------------
(* C's rule: a declarator gives its name the type one reads from the name  *)
(* outwards, suffixes before stars and parentheses first.                  *)
RECURSIVE Meaning(_, _)
Meaning(us, base) ==
    IF us = <<>> THEN base
    ELSE LET of == Meaning(Tail(us), base)
             o == Head(us).op
         IN  CASE o.op = "pointer" -> PointerS(of)
               [] o.op = "array" -> ArrayS(of, o.n)
               [] o.op = "function" -> FunctionS(of, o.params, o.variadic)

(* What is at one place of a list of derivations may derive from the next. *)
Permitted(us, base) ==
    \A i \in DOMAIN us :
        LET of == IF i = Len(us) THEN [Use(PointerOp, TRUE) EXCEPT !.op.op = base.kind] ELSE us[i + 1]
        IN  /\ us[i].ok
            /\ us[i].op.op = "array" => /\ of.op.op \notin {"void", "function"}
                                        /\ of.op.op = "array" => of.op.n > 0
            /\ us[i].op.op = "function" => i = 1 /\ of.op.op \notin {"array", "function"}

(* The type the parser gives a declared name or a type name is the one C   *)
(* gives it, and it is an error exactly if C, or a limit of Jia, forbids it.*)
DeclaratorsMean ==
    goal # "context" =>
        LET kinds == {i \in DOMAIN spec : spec[i] # "const"}
            base == Plain(spec[CHOOSE i \in kinds : TRUE])
            fine == /\ Cardinality(kinds) = 1
                    /\ Permitted(uses, base)
                    /\ goal = "type name" => (uses # <<>> => uses[1].op.op # "function")
            parsed == IF goal = "object" THEN ParseDeclaration(spec \o text \o <<";">>)
                      ELSE ParseTypeName(spec \o text \o <<")">>)
        IN  parsed = IF fine THEN Got(Len(spec \o text) + 1, Meaning(uses, base)) ELSE Error

(* The types a declaration can give: no pointers to functions, and the     *)
(* parameters of a function adjusted.                                      *)
RECURSIVE Declarable(_, _)
Declarable(t, outermost) ==
    CASE t.kind = "pointer" -> t.of[1].kind # "function" /\ Declarable(t.of[1], FALSE)
      [] t.kind = "array" -> /\ t.of[1].kind \notin {"void", "function"}
                             /\ t.of[1].kind = "array" => t.of[1].n > 0
                             /\ Declarable(t.of[1], FALSE)
      [] t.kind = "function" ->
           /\ outermost /\ t.of[1].kind \notin {"array", "function"} /\ Declarable(t.of[1], FALSE)
           /\ \A i \in DOMAIN t.params : /\ t.params[i].kind \notin {"void", "array", "function"}
                                         /\ Declarable(t.params[i], FALSE)
      [] OTHER -> TRUE

(* A type spelled by str(), as in diagnostics, is read back as the same    *)
(* type: the parentheses and their absence are right.                      *)
SpellingsParse ==
    \A a \in Address :
        LET t == Structure(a)
            named == Spell(t, <<"x">>) \o <<";">>
            bare == Spell(t, <<>>) \o <<")">>
        IN  goal = "context" /\ Declarable(t, TRUE) =>
              /\ ParseDeclaration(named) = Got(Len(named), t)
              /\ t.kind # "function" => ParseTypeName(bare) = Got(Len(bare), t)
=============================================================================
