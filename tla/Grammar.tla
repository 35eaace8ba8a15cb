------------------------------ MODULE Grammar ------------------------------
(***************************************************************************)
(* The grammar of the language as a table: docs/user-manual.md, "Grammar", *)
(* with one nonterminal for each level of docs/design/parsing.md and, for  *)
(* the "declaration" that the manual leaves undefined, docs/Language       *)
(* Specification.md:103-104.  Because "every valid Jia program is a valid  *)
(* C program" (user-manual.md:73), where the manual is wider than C, C     *)
(* decides: a type is named once, the operand of sizeof is no cast, only   *)
(* functions have bodies and only objects initializers, an else belongs to *)
(* the nearest if.  No object is void (user-manual.md:99).                 *)
(*                                                                         *)
(* A production is <<symbols, nodes>>: the nodes follow those of its       *)
(* symbols.  Tokens and nodes are the ones of module Parser.  Derivations  *)
(* builds what each nonterminal derives, by length; nothing here parses.   *)
(***************************************************************************)
EXTENDS Naturals, Sequences, TLC

LOCAL Leaf(t) == << <<t>>, <<t>> >>
LOCAL Just(nt) == << <<nt>>, <<>> >>
LOCAL Is(symbols, nodes) == <<symbols, nodes>>

LevelNames == <<"or", "and", "equality", "relation", "sum", "product", "unary">>
LevelOps == <<{"||"}, {"&&"}, {"==", "!="}, {"<", ">", "<=", ">="}, {"+", "-"}, {"*", "/", "%"}>>
LOCAL Level(l) ==
    <<LevelNames[l], {Just(LevelNames[l + 1])}
         \cup {Is(<<LevelNames[l], o, LevelNames[l + 1]>>, <<o>>) : o \in LevelOps[l]}>>

(* <<nonterminal, productions>>; a production may use, without consuming   *)
(* more, only the nonterminals before it.                                  *)
Documented == <<
  (* Empty nonterminals that leave a node in the middle of a production. *)
  <<"BEGIN", {Is(<<>>, <<"begin">>)}>>,
  <<"LIST", {Is(<<>>, <<"list">>)}>>,
  <<"CALLEE", {Is(<<>>, <<"callee">>)}>>,
  <<"NAME", {Leaf("x")}>>,
  <<"FUNCTION", {Leaf("f()")}>>,
  (* Types *)
  <<"consts", {Is(<<>>, <<>>), Is(<<"const", "consts">>, <<>>)}>>,
  <<"int spec", {Is(<<"consts", "int", "consts">>, <<>>)}>>,
  <<"void spec", {Is(<<"consts", "void", "consts">>, <<>>)}>>,
  <<"POINTER", {Is(<<"*">>, <<"pointer">>), Is(<<"*", "const">>, <<"pointer">>)}>>,
  <<"pointers", {Is(<<>>, <<>>), Is(<<"POINTER", "pointers">>, <<>>)}>>,
  <<"type name", {Is(<<"int spec", "pointers">>, <<"int">>),
                  Is(<<"void spec", "pointers">>, <<"void">>)}>>,
  (* Expressions.  The operand of sizeof is no cast, as in C. *)
  <<"strings", {Is(<<"s">>, <<>>), Is(<<"s", "strings">>, <<>>)}>>,
  <<"primary", {Leaf("x"), Leaf("f()"), Leaf("1"), Is(<<"strings">>, <<"s">>),
                Is(<<"(", "expr", ")">>, <<>>)}>>,
  <<"postfix", {Just("primary"),
                Is(<<"postfix", "CALLEE", "(", ")">>, <<"call">>),
                Is(<<"postfix", "CALLEE", "(", "args", ")">>, <<"call">>),
                Is(<<"postfix", "[", "expr", "]">>, <<"index">>)}>>,
  <<"uncast", {Just("postfix"),
               Is(<<"+", "unary">>, <<"plus">>), Is(<<"-", "unary">>, <<"minus">>),
               Is(<<"!", "unary">>, <<"not">>), Is(<<"*", "unary">>, <<"deref">>),
               Is(<<"&", "unary">>, <<"addrof">>),
               Is(<<"sizeof", "uncast">>, <<"sizeof">>),
               Is(<<"sizeof", "(", "type name", ")">>, <<"sizeof type">>)}>>,
  <<"unary", {Just("uncast"), Is(<<"(", "type name", ")", "unary">>, <<"cast">>)}>>,
  Level(6), Level(5), Level(4), Level(3), Level(2), Level(1),
  <<"expr", {Just("or"), Is(<<"or", "=", "expr">>, <<"=">>)}>>,
  <<"args", {Just("expr"), Is(<<"expr", ",", "args">>, <<>>)}>>,
  (* Declarations *)
  <<"init", {Just("expr"), Is(<<"LIST", "{", "inits", "}">>, <<"end list">>),
             Is(<<"LIST", "{", "inits", ",", "}">>, <<"end list">>)}>>,
  <<"inits", {Just("init"), Is(<<"init", ",", "inits">>, <<>>)}>>,
  <<"object", {Is(<<"NAME">>, <<"var">>), Is(<<"NAME", "=", "init">>, <<"init">>)}>>,
  <<"objects", {Just("object"), Is(<<"object", ",", "objects">>, <<>>)}>>,
  <<"prototype", {Is(<<"FUNCTION">>, <<"prototype">>)}>>,
  <<"prototypes", {Just("prototype"), Is(<<"prototype", ",", "prototypes">>, <<>>)}>>,
  <<"declared", {Just("object"), Just("prototype")}>>,
  <<"declareds", {Just("declared"), Is(<<"declared", ",", "declareds">>, <<>>)}>>,
  <<"declaration", {Is(<<"int spec", ";">>, <<>>), Is(<<"void spec", ";">>, <<>>),
                    Is(<<"int spec", "declareds", ";">>, <<"declaration">>),
                    Is(<<"void spec", "prototypes", ";">>, <<"declaration">>)}>>,
  <<"local", {Just("declaration")}>>,
  (* Statements; open: ends in an if without else. *)
  <<"block", {Is(<<"BEGIN", "{", "items", "}">>, <<"end">>)}>>,
  <<"simple", {Just("block"), Is(<<";">>, <<"null">>),
               Is(<<"expr", ";">>, <<"expr">>), Is(<<"break", ";">>, <<"break">>),
               Is(<<"continue", ";">>, <<"continue">>), Is(<<"return", ";">>, <<"return">>),
               Is(<<"return", "expr", ";">>, <<"return value">>)}>>,
  <<"closed", {Just("simple"),
               Is(<<"if", "(", "expr", ")", "closed", "else", "closed">>, <<"if else">>),
               Is(<<"while", "(", "expr", ")", "closed">>, <<"while">>)}>>,
  <<"open", {Is(<<"if", "(", "expr", ")", "stmt">>, <<"if">>),
             Is(<<"if", "(", "expr", ")", "closed", "else", "open">>, <<"if else">>),
             Is(<<"while", "(", "expr", ")", "open">>, <<"while">>)}>>,
  <<"stmt", {Just("closed"), Just("open")}>>,
  <<"item", {Just("local"), Just("stmt")}>>,
  <<"items", {Is(<<>>, <<>>), Is(<<"item", "items">>, <<>>)}>>,
  (* The whole text, and what follows the prefixes of the sources *)
  <<"body", {Is(<<"FUNCTION", "block">>, <<"function">>)}>>,
  <<"external", {Just("declaration"), Is(<<"int spec", "body">>, <<>>),
                 Is(<<"void spec", "body">>, <<>>)}>>,
  <<"unit", {Is(<<>>, <<>>), Is(<<"external", "unit">>, <<>>)}>>,
  <<"END", {Is(<<"}">>, <<"end", "function">>)}>>,
  <<"INIT", {Is(<<>>, <<"init">>)}>>,
  <<"after int f() {", {Is(<<"items", "END", "unit">>, <<>>)}>>,
  <<"IF", {Is(<<>>, <<"if">>)}>>,
  <<"IF ELSE", {Is(<<>>, <<"if else">>)}>>,
  <<"after int f() { if ( x )",
      {Is(<<"stmt", "IF", "items", "END", "unit">>, <<>>),
       Is(<<"closed", "else", "stmt", "IF ELSE", "items", "END", "unit">>, <<>>)}>>,
  <<"after int x =", {Is(<<"init", "INIT", ";">>, <<"declaration">>),
                      Is(<<"init", "INIT", ",", "declareds", ";">>, <<"declaration">>)}>>
>>

Nonterminals == {Documented[i][1] : i \in DOMAIN Documented}

(* What the parser takes is not quite that.  Three productions differ:     *)
(* - parseStatement has no "declaration" beside "statement", so one may be *)
(*   the body of an if or a while (Parser.cpp:598), against                *)
(*   user-manual.md:208-212 and C;                                         *)
(* - in a block parseDeclStmt wants a declarator, and not a function's     *)
(*   (Parser.cpp:622-633), which Language Specification.md:103-104 leaves  *)
(*   open;                                                                 *)
(* - parseInitializer takes an empty list (Parser.cpp:493), against        *)
(*   user-manual.md:206.                                                   *)
LOCAL TakenFor(nt, productions) ==
    CASE nt = "simple" -> productions \cup {Just("local")}
      [] nt = "local" -> {Is(<<"int spec", "objects", ";">>, <<"declaration">>)}
      [] nt = "init" -> productions \cup {Is(<<"LIST", "{", "}">>, <<"end list">>)}
      [] OTHER -> productions

Taken == [i \in DOMAIN Documented |->
    <<Documented[i][1], TakenFor(Documented[i][1], Documented[i][2])>>]

(* The derivations of exactly m tokens out of kinds from the symbols, if   *)
(* those of a nonterminal of i tokens are rows[i][nt].                     *)
RECURSIVE Expand(_, _, _, _)
Expand(symbols, m, rows, kinds) ==
    IF symbols = <<>> THEN IF m = 0 THEN {<< <<>>, <<>> >>} ELSE {}
    ELSE LET s == Head(symbols) IN
         IF s \notin Nonterminals
         THEN IF m = 0 \/ s \notin kinds THEN {}
              ELSE {<< <<s>> \o d[1], d[2]>> : d \in Expand(Tail(symbols), m - 1, rows, kinds)}
         ELSE UNION {LET first == IF s \in DOMAIN rows[i] THEN rows[i][s] ELSE {}
                     IN  IF first = {} THEN {}
                         ELSE {<<d[1] \o e[1], d[2] \o e[2]>> :
                                 d \in first, e \in Expand(Tail(symbols), m - i, rows, kinds)} :
                     i \in 0..m}

RECURSIVE Row(_, _, _, _, _)
Row(k, row, m, rows, kinds) ==
    IF k > Len(Taken) THEN row
    ELSE LET all == rows @@ (m :> row)
             nodes(p) == {<<d[1], d[2] \o p[2]>> : d \in Expand(p[1], m, all, kinds)}
         IN  Row(k + 1, row @@ (Taken[k][1] :> UNION {nodes(p) : p \in Taken[k][2]}),
                m, rows, kinds)

RECURSIVE Derivations(_, _)
(* For each length up to n, what each nonterminal of Taken derives. *)
Derivations(n, kinds) ==
    LET rows == IF n = 0 THEN <<>> ELSE Derivations(n - 1, kinds)
    IN  rows @@ (n :> Row(1, <<>>, n, rows, kinds))
=============================================================================
