------------------------------- MODULE Source -------------------------------
(***************************************************************************)
(* What the statements and expressions of a function body mean: the        *)
(* abstract specification code generation has to implement.                *)
(*                                                                         *)
(* A body is the sequence of its nodes in evaluation order, with a marker  *)
(* wherever control may leave that order: "then" and "do" follow the       *)
(* condition of an if or a while, "and" and "or" stand between the         *)
(* operands.  Nothing here knows of blocks, branches or phis.              *)
(***************************************************************************)
EXTENDS Naturals, Sequences, FiniteSets

VARIABLES
  src,          \* the body
  pc,           \* the node evaluated next; 0 when the function is not running
  env,          \* truth of the value each node had last
  result        \* what the last run returned: the set of its truth, or {} for no value

vars == <<src, pc, env, result>>

Count(S, n) == Cardinality({m \in 1..n : src[m] \in S})

(* How many constructs that "open" begins and "close" ends node n is in.   *)
Level(open, close, n) == Count(open, n) - Count(close, n - 1)

Partner(n, open, close, ends) ==
  CHOOSE m \in n + 1..Len(src) :
    /\ src[m] \in ends /\ Level(open, close, m) = Level(open, close, n)
    /\ \A k \in n + 1..m - 1 :
         ~(src[k] \in ends /\ Level(open, close, k) = Level(open, close, n))

ElseOrEndif(n) == Partner(n, {"if"}, {"endif"}, {"else", "endif"})
Endif(n)       == Partner(n, {"if"}, {"endif"}, {"endif"})
EndWhile(n)    == Partner(n, {"while"}, {"endwhile"}, {"endwhile"})
EndLogic(n)    == Partner(n, {"and", "or"}, {"endlogic"}, {"endlogic"})

(* The while statement node n is directly in.                              *)
WhileOf(n) ==
  CHOOSE m \in 1..n - 1 :
    /\ src[m] = "while" /\ EndWhile(m) >= n
    /\ \A k \in m + 1..n - 1 : src[k] = "while" => EndWhile(k) < n

(* Where control settles when it arrives at node n: the next node that     *)
(* computes, decides or returns.                                           *)
Settled ==
  LET at[n \in 1..Len(src) + 1] ==
        IF n = Len(src) + 1 THEN n
        ELSE CASE src[n] \in {"decl", "drop", "{", "if", "while", "endif"} -> at[n + 1]
               [] src[n] = "else" -> at[Endif(n) + 1]
               [] src[n] \in {"endwhile", "continue"} -> at[WhileOf(n) + 1]
               [] src[n] = "break" -> at[EndWhile(n) + 1]
               [] OTHER -> n
  IN  at

Init == pc = 0 /\ env = <<>> /\ result = {} /\ src = <<>>

(* While it does not run, the function may be written or replaced.         *)
Write == pc = 0 /\ pc' = 0 /\ UNCHANGED <<env, result>>

Enter ==
  /\ pc = 0
  /\ pc' = Settled[1]
  /\ env' = [n \in 1..Len(src) |-> FALSE]
  /\ result' = {} /\ src' = src

Goto(n) == pc' = Settled[n] /\ UNCHANGED <<src, result>>

(* A leaf or an operator may have any value.                               *)
Compute ==
  /\ src[pc] \in {"leaf", "op"}
  /\ \E v \in BOOLEAN : env' = [env EXCEPT ![pc] = v]
  /\ Goto(pc + 1)

Initialize ==
  /\ src[pc] \in {"param", "store"}
  /\ Goto(pc + 1) /\ env' = env

If ==
  /\ src[pc] = "then"
  /\ Goto(IF env[pc - 1] THEN pc + 1 ELSE ElseOrEndif(pc) + 1)
  /\ env' = env

While ==
  /\ src[pc] = "do"
  /\ Goto(IF env[pc - 1] THEN pc + 1 ELSE EndWhile(pc) + 1)
  /\ env' = env

(* The left operand decides when it is false for &&, true for ||.          *)
Decides(n) == env[n - 1] = (src[n] = "or")

ShortCircuit ==
  /\ src[pc] \in {"and", "or"}
  /\ Goto(IF Decides(pc) THEN EndLogic(pc) ELSE pc + 1)
  /\ env' = env

Combine ==
  /\ src[pc] = "endlogic"
  /\ \E n \in 1..pc - 1 :
       /\ src[n] \in {"and", "or"} /\ EndLogic(n) = pc
       /\ env' = [env EXCEPT ![pc] = IF Decides(n) THEN env[n - 1] ELSE env[pc - 1]]
  /\ Goto(pc + 1)

Return ==
  /\ src[pc] \in {"return", "retval"}
  /\ pc' = 0
  /\ result' = IF src[pc] = "return" THEN {} ELSE {env[pc - 1]}
  /\ UNCHANGED <<src, env>>

FallOff == pc = Len(src) + 1 /\ pc' = 0 /\ result' = {} /\ UNCHANGED <<src, env>>

Running == pc \in 1..Len(src)

Next ==
  \/ Write \/ Enter \/ FallOff
  \/ Running /\ (Compute \/ Initialize \/ If \/ While \/ ShortCircuit \/ Combine \/ Return)

Spec == Init /\ [][Next]_vars
=============================================================================
