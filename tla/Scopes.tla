------------------------------- MODULE Scopes -------------------------------
(***************************************************************************)
(* Names in lib/Sema/Sema.cpp: the walk of Analyzer over a translation     *)
(* unit, its stack of scopes, the symbols it hands out and the nodes it    *)
(* reports.                                                                *)
(*                                                                         *)
(* The unit is discovered as the walk goes; "tree" is what the walk has    *)
(* met and annotated so far, in order.  Types are abstracted to what names *)
(* depend on: whether a symbol is a function, and which function type it   *)
(* has.                                                                    *)
(***************************************************************************)
EXTENDS Naturals, Sequences, FiniteSets

CONSTANTS
  Names,        \* identifiers
  FnTypes,      \* function types
  NoName,       \* the name of a parameter without one
  Uses,         \* how this run's expressions use a name, see Ref
  MaxTree       \* bound on the nodes met

(* The symbol of a variable has no function type.                          *)
Object == "object"

ASSUME NamesAssumption ==
  /\ NoName \notin Names /\ Object \notin FnTypes
  /\ Uses \subseteq {"value", "addr", "call", "sizeof"}
  /\ MaxTree \in Nat

VARIABLES
  scopes,       \* scopes_: a function from names to symbols each, the innermost last
  globals,      \* globals_
  nextId,       \* nextId_
  loopDepth,    \* loopDepth_
  stack,        \* the activations that wait for a part of the tree
  tree          \* the nodes met

vars == <<scopes, globals, nextId, loopDepth, stack, tree>>

(* SymbolId::None *)
None == 0

Symbol(id, fnType, isDefined) == [id |-> id, fnType |-> fnType, isDefined |-> isDefined]

IsFunction(s) == s.fnType # Object

(* A node: its kind, its name if it has one, the symbol Sema wrote into it *)
(* and whether it did without an error.                                    *)
Node(k, name, sym, ok) == [k |-> k, name |-> name, sym |-> sym, ok |-> ok, fnType |-> Object]

Meet(n) == Len(tree) < MaxTree /\ tree' = Append(tree, n)

Top       == stack[Len(stack)]
Popped    == SubSeq(stack, 1, Len(stack) - 1)
AtFile    == stack = <<>>
At(k)     == stack # <<>> /\ Top = k
AtStmt    == At("body") \/ At("stmt")

(* A compound statement goes on after a statement, a substatement is done. *)
Begin(fs)   == stack' = (IF Top = "body" THEN stack ELSE Popped) \o fs
Replace(fs) == stack' = Popped \o fs

-----------------------------------------------------------------------------
(* Scopes.                                                                 *)

Holding(name) == {i \in 1..Len(scopes) : name \in DOMAIN scopes[i]}

(* lookup: the innermost scope that holds the name; {} for nullptr.        *)
Lookup(name) ==
  {scopes[i][name] : i \in {j \in Holding(name) : \A m \in Holding(name) : m <= j}}

(* scopes_.back().emplace(name, s) *)
Emplace(sc, name, s) ==
  [sc EXCEPT ![Len(sc)] = [n \in DOMAIN @ \cup {name} |-> IF n = name THEN s ELSE @[n]]]

Open  == scopes' = Append(scopes, <<>>)
Close == scopes' = SubSeq(scopes, 1, Len(scopes) - 1)

-----------------------------------------------------------------------------
(* Definitions with a bug in them: the properties notice each.             *)

(* The scope of a body outlives the body.                                  *)
CompoundEndKeepsScope ==
  /\ At("body")
  /\ tree' = Append(tree, Node("close", NoName, None, TRUE))
  /\ Replace(<<>>)
  /\ UNCHANGED <<scopes, globals, nextId, loopDepth>>

(* A second definition of a function passes.                               *)
ConflictTypesOnly(name, t, hasBody) ==
  \E s \in {scopes[1][n] : n \in {name} \cap DOMAIN scopes[1]} : s.fnType # t

(* nextId_ stays where it is after a parameter.                            *)
ParamSharesId(name) ==
  /\ At("params")
  /\ IF name = NoName \/ name \in DOMAIN scopes[Len(scopes)]
     THEN Meet(Node("param", name, None, FALSE)) /\ UNCHANGED scopes
     ELSE /\ Meet(Node("param", name, nextId, TRUE))
          /\ scopes' = Emplace(scopes, name, Symbol(nextId, Object, FALSE))
  /\ UNCHANGED <<globals, nextId, loopDepth, stack>>

(* loopDepth_ is not taken down after a body.                              *)
WhileEndStaysDeep ==
  /\ At("loop")
  /\ tree' = Append(tree, Node("endloop", NoName, None, TRUE)) /\ Replace(<<>>)
  /\ UNCHANGED <<scopes, globals, nextId, loopDepth>>

-----------------------------------------------------------------------------
(* Declarations.                                                           *)

(* declareVar: a variable of incomplete type, or one whose name the scope  *)
(* holds, is reported, and its initializer is not looked at; any other is  *)
(* declared before its initializer.                                        *)
VarDecl(name, complete) ==
  /\ AtFile \/ AtStmt
  /\ IF ~complete \/ name \in DOMAIN scopes[Len(scopes)]
     THEN /\ Meet(Node("var", name, None, FALSE))
          /\ IF AtFile THEN stack' = <<>> ELSE Begin(<<>>)
          /\ UNCHANGED <<scopes, globals, nextId>>
     ELSE /\ Meet(Node("var", name, nextId, TRUE))
          /\ IF AtFile THEN stack' = <<"init">> ELSE Begin(<<"init">>)
          /\ scopes' = Emplace(scopes, name, Symbol(nextId, Object, FALSE))
          /\ globals' = IF AtFile THEN globals \cup {nextId} ELSE globals
          /\ nextId' = nextId + 1
  /\ UNCHANGED loopDepth

InitEnd ==
  /\ At("init")
  /\ tree' = Append(tree, Node("endvar", NoName, None, TRUE)) /\ Replace(<<>>)
  /\ UNCHANGED <<scopes, globals, nextId, loopDepth>>

(* declareFunction, for a declaration and for a definition.                *)
Conflict(name, t, hasBody) ==
  \E s \in {scopes[1][n] : n \in {name} \cap DOMAIN scopes[1]} :
    s.fnType # t \/ (s.isDefined /\ hasBody)

FunctionDecl(name, t, hasBody) ==
  /\ AtFile
  /\ LET kind  == IF hasBody THEN "def" ELSE "proto"
         prior == {scopes[1][n] : n \in {name} \cap DOMAIN scopes[1]}
     IN  IF Conflict(name, t, hasBody)
         THEN /\ Meet([Node(kind, name, None, FALSE) EXCEPT !.fnType = t])
              /\ UNCHANGED <<scopes, nextId, stack>>
         ELSE /\ \E s \in (IF prior = {} THEN {Symbol(nextId, t, FALSE)} ELSE prior) :
                   /\ Meet([Node(kind, name, s.id, TRUE) EXCEPT !.fnType = t])
                   /\ LET sc == Emplace(scopes, name, [s EXCEPT !.isDefined = @ \/ hasBody])
                      IN  scopes' = IF hasBody THEN Append(sc, <<>>) ELSE sc
              /\ nextId' = IF prior = {} THEN nextId + 1 ELSE nextId
              /\ stack' = IF hasBody THEN <<"body", "params">> ELSE <<>>
  /\ UNCHANGED <<globals, loopDepth>>

Param(name) ==
  /\ At("params")
  /\ IF name = NoName \/ name \in DOMAIN scopes[Len(scopes)]
     THEN Meet(Node("param", name, None, FALSE)) /\ UNCHANGED <<scopes, nextId>>
     ELSE /\ Meet(Node("param", name, nextId, TRUE))
          /\ scopes' = Emplace(scopes, name, Symbol(nextId, Object, FALSE))
          /\ nextId' = nextId + 1
  /\ UNCHANGED <<globals, loopDepth, stack>>

ParamsEnd == At("params") /\ Replace(<<>>)
             /\ UNCHANGED <<scopes, globals, nextId, loopDepth, tree>>

(* The end of a body, of a function or of a compound statement.            *)
CompoundEnd ==
  /\ At("body")
  /\ tree' = Append(tree, Node("close", NoName, None, TRUE))
  /\ Close /\ Replace(<<>>)
  /\ UNCHANGED <<globals, nextId, loopDepth>>

-----------------------------------------------------------------------------
(* Statements.  A return statement is an expression statement here.        *)

NullStmt == AtStmt /\ Begin(<<>>)
            /\ UNCHANGED <<scopes, globals, nextId, loopDepth, tree>>

ExprStmt ==
  /\ AtStmt
  /\ Begin(<<"expr">>)
  /\ UNCHANGED <<scopes, globals, nextId, loopDepth, tree>>

ExprEnd == At("expr") /\ Replace(<<>>)
           /\ UNCHANGED <<scopes, globals, nextId, loopDepth, tree>>

CompoundStmt ==
  /\ AtStmt
  /\ Meet(Node("open", NoName, None, TRUE)) /\ Begin(<<"body">>)
  /\ Open
  /\ UNCHANGED <<globals, nextId, loopDepth>>

IfStmt(hasElse) ==
  /\ AtStmt
  /\ Meet(Node("if", NoName, None, TRUE))
  /\ Begin(IF hasElse THEN <<"stmt", "stmt", "expr">> ELSE <<"stmt", "expr">>)
  /\ UNCHANGED <<scopes, globals, nextId, loopDepth>>

WhileStmt ==
  /\ AtStmt
  /\ Meet(Node("while", NoName, None, TRUE)) /\ Begin(<<"while", "expr">>)
  /\ UNCHANGED <<scopes, globals, nextId, loopDepth>>

WhileBody ==
  /\ At("while")
  /\ tree' = Append(tree, Node("loop", NoName, None, TRUE)) /\ Replace(<<"loop", "stmt">>)
  /\ loopDepth' = loopDepth + 1
  /\ UNCHANGED <<scopes, globals, nextId>>

WhileEnd ==
  /\ At("loop")
  /\ tree' = Append(tree, Node("endloop", NoName, None, TRUE)) /\ Replace(<<>>)
  /\ loopDepth' = loopDepth - 1
  /\ UNCHANGED <<scopes, globals, nextId>>

(* break and continue *)
Jump ==
  /\ AtStmt
  /\ Meet(Node("jump", NoName, None, loopDepth # 0)) /\ Begin(<<>>)
  /\ UNCHANGED <<scopes, globals, nextId, loopDepth>>

-----------------------------------------------------------------------------
(* Expressions: the names in them, as a value, operand of "&", callee or   *)
(* operand of sizeof.                                                      *)

(* A global's initializer must be constant: addresses of globals are, and  *)
(* sizeof, which leaves a literal.                                         *)
GlobalInit == At("init") /\ Len(scopes) = 1
Accepted(use, s) ==
  CASE use = "value"  -> ~IsFunction(s) /\ ~GlobalInit
    [] use = "addr"   -> ~IsFunction(s) /\ (GlobalInit => s.id \in globals)
    [] use = "call"   -> IsFunction(s) /\ ~GlobalInit
    [] use = "sizeof" -> ~IsFunction(s)

Ref(use, name) ==
  /\ At("init") \/ At("expr")
  /\ IF Lookup(name) = {} THEN Meet(Node(use, name, None, FALSE))
     ELSE \E s \in Lookup(name) : Meet(Node(use, name, s.id, Accepted(use, s)))
  /\ UNCHANGED <<scopes, globals, nextId, loopDepth, stack>>

-----------------------------------------------------------------------------
Init ==
  /\ scopes = <<<<>>>> /\ globals = {} /\ nextId = 1 /\ loopDepth = 0
  /\ stack = <<>> /\ tree = <<>>

Next ==
  \/ \E name \in Names, complete \in BOOLEAN : VarDecl(name, complete)
  \/ \E name \in Names, t \in FnTypes, hasBody \in BOOLEAN : FunctionDecl(name, t, hasBody)
  \/ \E name \in Names \cup {NoName} : Param(name)
  \/ \E use \in Uses, name \in Names : Ref(use, name)
  \/ \E hasElse \in BOOLEAN : IfStmt(hasElse)
  \/ InitEnd \/ ParamsEnd \/ CompoundEnd
  \/ NullStmt \/ ExprStmt \/ ExprEnd \/ CompoundStmt \/ Jump
  \/ WhileStmt \/ WhileBody \/ WhileEnd

Spec == Init /\ [][Next]_vars

-----------------------------------------------------------------------------
(* What C's rules say, read off the tree.                                  *)

Nodes    == 1..Len(tree)
Decls    == {i \in Nodes : tree[i].k \in {"var", "param", "proto", "def"}}
Declares(i, name) == i \in Decls /\ tree[i].ok /\ tree[i].name = name
IsRef(i) == tree[i].k \in {"value", "addr", "call", "sizeof"}

Before(q, K) == {i \in 1..q - 1 : tree[i].k \in K /\ tree[i].ok}
Depth(q)     == Cardinality(Before(q, {"def", "open"})) - Cardinality(Before(q, {"close"}))
Loops(q)     == Cardinality(Before(q, {"loop"})) - Cardinality(Before(q, {"endloop"}))

(* The scope that node i is in is still open at node q.                    *)
InForce(i, q) ==
  i < q /\ \A c \in i + 1..q - 1 : tree[c].k = "close" => Depth(c) > Depth(i)

(* A parameter stands in the scope its function's body is.                 *)
InScope(q, name)  == {i \in Nodes : Declares(i, name) /\ InForce(i, q)}
Meant(q)          == LET all == InScope(q, tree[q].name)
                     IN  {i \in all : \A j \in all : Depth(j) <= Depth(i)}
SameScope(q)      == {i \in InScope(q, tree[q].name) : Depth(i) = Depth(q)}
IsFn(i)           == tree[i].k \in {"proto", "def"}

(* A call needs a function, any other use a variable; and where a global   *)
(* is initialized, only an address and a size are constant.                *)
Rightly(q, i) ==
  /\ tree[q].k = "call" <=> IsFn(i)
  /\ Depth(q) = 0 => tree[q].k \in {"addr", "sizeof"}

(* Every name resolves to the declaration that lexical scoping means: the  *)
(* innermost open scope that declares it before the use, across shadowing, *)
(* sibling scopes and substatements without braces; it is reported exactly *)
(* when there is none, or when it is not used rightly.                     *)
LexicalScoping ==
  \A q \in Nodes : IsRef(q) =>
    /\ Meant(q) = {} => tree[q].sym = None /\ ~tree[q].ok
    /\ \A i \in Meant(q) :
         tree[q].sym = tree[i].sym /\ (tree[q].ok <=> Rightly(q, i))

(* No scope declares a name twice, a parameter and a variable of the body  *)
(* included; only a function may be declared again, with the same type,    *)
(* and is defined once.  Functions and parameters are reported for nothing *)
(* else.                                                                   *)
Redeclares(i, j) ==
  /\ IsFn(i) /\ IsFn(j)
  /\ tree[i].fnType = tree[j].fnType
  /\ ~(tree[i].k = "def" /\ tree[j].k = "def")

OneDeclaration ==
  \A j \in Decls :
    LET fits == tree[j].name # NoName /\ \A i \in SameScope(j) : Redeclares(i, j)
    IN  IF tree[j].k = "var" THEN tree[j].ok => fits ELSE tree[j].ok <=> fits

(* Symbols tell declarations apart: two declarations share one exactly     *)
(* when they declare the same function.                                    *)
SymbolsDistinct ==
  \A i, j \in Decls :
    i # j /\ tree[i].ok /\ tree[j].ok =>
      (tree[i].sym = tree[j].sym <=> IsFn(i) /\ IsFn(j) /\ tree[i].name = tree[j].name)

(* break and continue are let through exactly inside the body of a loop of *)
(* the same function, whatever was reported before.                        *)
JumpsInLoops == \A q \in Nodes : tree[q].k = "jump" => (tree[q].ok <=> Loops(q) > 0)

=============================================================================
