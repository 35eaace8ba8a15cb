------------------------------- MODULE Names --------------------------------
(***************************************************************************)
(* Where code generation finds what names mean: lib/CodeGen/CodeGen.cpp    *)
(* walks the tree that Sema (module Scopes) annotated and accepted, and    *)
(* keeps the address of each variable and each function in values_.        *)
(***************************************************************************)
EXTENDS Scopes

VARIABLES
  pos,          \* the node CodeGen is at; 0 while Sema works
  values,       \* values_: from symbols to the function owning the slot, 0 for none
  fn,           \* fn_: the node of the definition, 0 for none yet
  pending       \* the global whose initializer is being built

gen      == <<pos, values, fn, pending>>
allVars  == <<vars, gen>>

(* frontEnd: Sema, then, when it reported nothing, CodeGen.                *)
Analyze  == pos = 0 /\ Next /\ UNCHANGED gen
Generate ==
  /\ pos = 0 /\ AtFile /\ tree # <<>> /\ \A i \in Nodes : tree[i].ok
  /\ pos' = 1 /\ UNCHANGED <<values, fn, pending>>

Current == tree[pos]
Visit   == pos \in Nodes /\ pos' = pos + 1
Bind(sym, owner) ==
  values' = [s \in DOMAIN values \cup {sym} |-> IF s = sym THEN owner ELSE values[s]]

(* emitGlobal enters the variable once its initializer is a constant.      *)
EmitGlobal ==
  /\ Visit /\ Current.k = "var" /\ Depth(pos) = 0
  /\ pending' = Current.sym /\ UNCHANGED <<values, fn>>

GlobalDone ==
  /\ Visit /\ Current.k = "endvar" /\ Depth(pos) = 0
  /\ Bind(pending, 0) /\ pending' = 0 /\ UNCHANGED fn

(* With a bug in it: a declaration without a body is passed over.          *)
EmitFunctionBodiesOnly ==
  /\ Visit /\ Current.k \in {"proto", "def"}
  /\ IF Current.k = "def" THEN Bind(Current.sym, 0) /\ fn' = pos ELSE UNCHANGED <<values, fn>>
  /\ UNCHANGED pending

EmitFunction ==
  /\ Visit /\ Current.k \in {"proto", "def"}
  /\ IF Current.sym \in DOMAIN values THEN UNCHANGED values ELSE Bind(Current.sym, 0)
  /\ fn' = IF Current.k = "def" THEN pos ELSE fn
  /\ UNCHANGED pending

(* A parameter, or a local variable before its initializer.                *)
StackSlot ==
  /\ Visit /\ Current.k \in {"var", "param"} /\ Depth(pos) > 0
  /\ Bind(Current.sym, fn) /\ UNCHANGED <<fn, pending>>

(* valueOf; sizeof left a literal behind, which needs none.                *)
LooksUp == pos \in Nodes /\ Current.k \in {"value", "addr", "call"}
Unseen  == LooksUp /\ Current.sym \notin DOMAIN values

ValueOf ==
  /\ Visit /\ LooksUp /\ ~Unseen
  /\ UNCHANGED <<values, fn, pending>>

Other ==
  /\ Visit
  /\ Current.k \notin {"value", "addr", "call", "var", "param", "proto", "def"}
  /\ Current.k = "endvar" => Depth(pos) > 0
  /\ UNCHANGED <<values, fn, pending>>

Emit == EmitGlobal \/ GlobalDone \/ EmitFunction \/ StackSlot \/ ValueOf \/ Other

NamesInit == Init /\ pos = 0 /\ values = <<>> /\ fn = 0 /\ pending = 0
NamesNext == Analyze \/ (Generate /\ UNCHANGED vars) \/ (Emit /\ UNCHANGED vars)
NamesSpec == NamesInit /\ [][NamesNext]_allVars

-----------------------------------------------------------------------------
(* "Sema resolved a name codegen never saw": valueOf asserts that this     *)
(* never happens.                                                          *)
EveryNameSeen == ~Unseen

(* It happens in one case only, a global whose initializer takes the       *)
(* address of that global itself.                                          *)
UnseenIsItself == Unseen => pending = Current.sym

(* values_ is never cleared, and yet no function reaches into the stack    *)
(* frame of another: a name found there is global, or a slot of the        *)
(* function being emitted.                                                 *)
OwnSlots ==
  LooksUp /\ ~Unseen => values[Current.sym] \in (IF Depth(pos) = 0 THEN {0} ELSE {0, fn})
=============================================================================
