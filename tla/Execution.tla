----------------------------- MODULE Execution ------------------------------
(***************************************************************************)
(* The functions CodeGen emits, run: each finished control-flow graph is   *)
(* executed as LLVM defines its instructions, and the runs are compared    *)
(* with what module Source says the statements mean.                       *)
(***************************************************************************)
EXTENDS CodeGen

VARIABLES
  blk,          \* the block executing; 0 when the function is not running
  ip,           \* the next instruction of it
  prev,         \* the block control came from, which a phi asks for
  env,          \* the truth of each value computed
  result        \* the set of the truth of the value last returned

exec    == <<blk, ip, prev, env, result>>
allVars == <<vars, exec>>

Current == code[blk][ip]
Operand == env[CHOOSE v \in Current.use : TRUE]

(* The walk, while the function does not run.                              *)
Emit == blk = 0 /\ Next /\ UNCHANGED exec

CallFunction ==
  /\ phase = "done" /\ blk = 0
  /\ blk' = 1 /\ ip' = 1 /\ prev' = 0
  /\ env' = [n \in 1..Len(src) |-> FALSE]
  /\ result' = {}

Advance == ip' = ip + 1 /\ UNCHANGED <<blk, prev, result>>
Jump(b) == blk' = b /\ ip' = 1 /\ prev' = blk /\ UNCHANGED <<env, result>>

ExecEval ==
  /\ Current.op = "eval"
  /\ \E v \in BOOLEAN : env' = [env EXCEPT ![Current.def] = v]
  /\ Advance

ExecStore == Current.op = "store" /\ env' = env /\ Advance

ExecPhi ==
  /\ Current.op = "phi"
  /\ \E in \in Current.phi :
       /\ in.from = prev
       /\ env' = [env EXCEPT ![Current.def] = IF in.v = 0 THEN in.const ELSE env[in.v]]
  /\ Advance

ExecBr == Current.op = "br" /\ Jump(Current.to[1])

ExecCondBr == Current.op = "condbr" /\ Jump(Current.to[IF Operand THEN 1 ELSE 2])

ExecRet ==
  /\ Current.op = "ret"
  /\ blk' = 0 /\ ip' = 0 /\ prev' = 0
  /\ result' = {env[v] : v \in Current.use}
  /\ env' = env

Execute ==
  /\ blk # 0
  /\ ExecEval \/ ExecStore \/ ExecPhi \/ ExecBr \/ ExecCondBr \/ ExecRet
  /\ UNCHANGED vars

ExecInit == Init /\ blk = 0 /\ ip = 0 /\ prev = 0 /\ env = <<>> /\ result = {}
ExecNext == Emit \/ (CallFunction /\ UNCHANGED vars) \/ Execute
ExecSpec == ExecInit /\ [][ExecNext]_allVars

-----------------------------------------------------------------------------
(* The node a position of the graph stands for: that of its instruction,   *)
(* or, for a plain branch, of the first instruction the branch leads to.   *)
Points == UNION {{b} \X (1..Len(code[b])) : b \in Block}
Position ==
  LET at[p \in Points] ==
        LET i == code[p[1]][p[2]] IN IF i.op = "br" THEN at[<<i.to[1], 1>>] ELSE i.node
  IN  IF blk = 0 THEN 0 ELSE at[<<blk, ip>>]

Meaning == INSTANCE Source WITH pc <- Position

(* Emission preserves meaning: whatever values the leaves take, the graph  *)
(* evaluates the nodes, decides the conditions and returns the value that  *)
(* the statements call for, in that order, and nothing else.               *)
ImplementsSource == Meaning!Spec
=============================================================================
