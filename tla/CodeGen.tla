------------------------------ MODULE CodeGen ------------------------------
(***************************************************************************)
(* Emission of one function body after another by ModuleBuilder            *)
(* (lib/CodeGen/CodeGen.cpp): the recursive walk over a tree that Sema     *)
(* accepted, and the control-flow graph it writes through IRBuilder.       *)
(*                                                                         *)
(* The tree is discovered as the walk goes: where the walk meets a         *)
(* statement or an expression, one action per kind of node is enabled.     *)
(* The C++ activations that wait for a subtree (emit, condition, rvalue,   *)
(* logical) are the frames of "stack", the innermost one last.             *)
(*                                                                         *)
(* Blocks are numbered in the order of BasicBlock::Create; block 1 is      *)
(* "entry" and 0 is nullptr.  Nodes are numbered in the order the walk     *)
(* finishes with them, and an SSA value carries the number of the node it  *)
(* is the value of.  Types, operators and constants are abstracted away.   *)
(***************************************************************************)
EXTENDS Naturals, Sequences, FiniteSets

CONSTANTS
  Nodes,        \* the kinds of nodes the trees of this run are made of
  MaxTree,      \* bound on the nodes of a function body
  MaxParams     \* bound on the parameters of a function

ASSUME BoundsAssumption == Nodes \subseteq STRING /\ MaxTree \in Nat /\ MaxParams \in Nat

VARIABLES
  phase,        \* "idle" between functions, "emit" in a body, "done" at its end
  code,         \* code[b]: the instructions of block b, allocas excepted
  placed,       \* the blocks inserted into fn_
  insert,       \* b_.GetInsertBlock()
  slots,        \* the allocas at the front of the entry block
  loops,        \* loops_
  stack,        \* the activations that wait for a subtree
  value,        \* what the last rvalue returned, until its caller takes it
  src,          \* the nodes visited so far
  scopes        \* the variables each open scope of Sema declares

ir    == <<code, placed, insert, slots>>
vars  == <<phase, code, placed, insert, slots, loops, stack, value, src, scopes>>

-----------------------------------------------------------------------------
(* Instructions.  "def" is the value an instruction defines (0 for none),  *)
(* "use" the values it reads, "to" the blocks it may branch to, "phi" the  *)
(* calls of addIncoming, and "node" the node it was emitted for.           *)

(* addIncoming of value v, or, when v is 0, of the constant const.         *)
Incoming(from, v, const) == [from |-> from, v |-> v, const |-> const]

Instr(op, def, use, to, phi, node) ==
  [op |-> op, def |-> def, use |-> use, to |-> to, phi |-> phi, node |-> node]

Terminators == {"br", "condbr", "ret"}

Eval(v, use)           == Instr("eval", v, use, <<>>, {}, v)
Store(v, slot, node)   == Instr("store", 0, {v, slot}, <<>>, {}, node)
Phi(v, incoming)       == Instr("phi", v, {}, <<>>, incoming, v)
Br(b)                  == Instr("br", 0, {}, <<b>>, {}, 0)
CondBr(v, b, c, node)  == Instr("condbr", 0, {v}, <<b, c>>, {}, node)
Ret(use, node)         == Instr("ret", 0, use, <<>>, {}, node)

IsTerminator(i) == i.op \in Terminators
IsTerminated(is) == is # <<>> /\ IsTerminator(is[Len(is)])

(* IRBuilder: an instruction goes to the end of the insertion block.       *)
Add(c, b, i) == [c EXCEPT ![b] = Append(@, i)]

(* branchTo: nothing when the insertion block already ends.                *)
BranchTo(c, b) == IF IsTerminated(c[insert]) THEN c ELSE Add(c, insert, Br(b))

(* block: n blocks outside of any function.                                *)
Blocks(c, n) == c \o [i \in 1..n |-> <<>>]

(* startBlock                                                              *)
StartBlock(b) == placed' = placed \cup {b} /\ insert' = b

NBlocks == Len(code)

-----------------------------------------------------------------------------
(* The activations.  A frame names the blocks its activation still has to  *)
(* start: "next" (then, body or else), "alt" (an else yet to come) and     *)
(* "end"; "back" is a block it only refers to (while.cond, lhsEnd) and     *)
(* "saved" a value it holds (a variable's slot, a left operand).           *)

Frame(k, next, alt, end, back) ==
  [k |-> k, next |-> next, alt |-> alt, end |-> end, back |-> back, saved |-> 0]

Waiting(k) == Frame(k, 0, 0, 0, 0)

StmtFrames == {"body", "stmt"}

Top    == stack[Len(stack)]
Popped == SubSeq(stack, 1, Len(stack) - 1)

Walking == phase = "emit" /\ stack # <<>>
AtStmt  == Walking /\ Top.k \in StmtFrames
At(k)   == Walking /\ Top.k = k

(* A compound statement goes on after a statement, a substatement is done. *)
Begin(fs)   == stack' = (IF Top.k = "body" THEN stack ELSE Popped) \o fs
Replace(fs) == stack' = Popped \o fs

Visit(k) == src' = Append(src, k)
Node     == Len(src) + 1

(* The nodes of the tree met so far: those visited, and the expressions    *)
(* that are visited last and wait for their operands.  Leaves, forced by   *)
(* the nodes above them, are free.                                         *)
Chosen == {"decl", "drop", "{", "if", "while", "break", "continue", "return", "retval",
           "op", "opRhs", "and", "or"}
Size   == Cardinality({i \in 1..Len(src) : src[i] \in Chosen})
          + Cardinality({i \in 1..Len(stack) : stack[i].k \in Chosen})
Room(k) == k \in Nodes /\ Size < MaxTree

Return(v) == value' = v
Taken     == value' = 0

(* What Sema let through: its loopDepth_ at this node, and the variables   *)
(* its lookup can resolve a name to.                                       *)
Bodies    == {i \in 1..Len(stack) : stack[i].k = "bodyEnd"}
LoopDepth == Cardinality(Bodies)
Visible   == UNION {scopes[i] : i \in 1..Len(scopes)}

-----------------------------------------------------------------------------
(* Actions with a bug in them, one for each property of the runs: the      *)
(* property fails when the bug replaces the action it is named after.      *)

(* The else block is counted as created, and is not.                       *)
IfStmtTwoBlocks(hasElse) ==
  /\ AtStmt /\ Room("if")
  /\ Visit("if")
  /\ code' = Blocks(code, 2)
  /\ Begin(<<IF hasElse THEN Frame("ifCond", NBlocks + 1, NBlocks + 2, NBlocks + 3, 0)
                        ELSE Frame("ifCond", NBlocks + 1, 0, NBlocks + 2, 0),
             Waiting("expr")>>)
  /\ UNCHANGED <<phase, placed, insert, slots, loops, value, scopes>>

(* No dead block after a return, or after a break.                         *)
ReturnVoidOnly ==
  /\ AtStmt /\ Room("return")
  /\ Visit("return") /\ Begin(<<>>)
  /\ code' = Add(code, insert, Ret({}, Node))
  /\ UNCHANGED <<phase, placed, insert, slots, loops, value, scopes>>

BreakStmtOnly ==
  /\ AtStmt /\ Room("break") /\ LoopDepth > 0
  /\ Visit("break") /\ Begin(<<>>)
  /\ code' = Add(code, insert, Br(loops[Len(loops)].breakTo))
  /\ UNCHANGED <<phase, placed, insert, slots, loops, value, scopes>>

(* No return when the body falls off its end.                              *)
FinishFunctionOpen ==
  /\ At("body") /\ Len(stack) = 1
  /\ phase' = "done"
  /\ stack' = <<>> /\ scopes' = <<>>
  /\ UNCHANGED <<code, placed, insert, slots, loops, value, src>>

(* No loops_.pop_back().                                                   *)
BodyEndKeepsLoop ==
  /\ At("bodyEnd")
  /\ Visit("endwhile")
  /\ code' = BranchTo(code, Top.back)
  /\ StartBlock(Top.end)
  /\ Replace(<<>>)
  /\ UNCHANGED <<phase, slots, loops, value, scopes>>

(* The alloca goes where the declaration stands, not into the entry block. *)
DeclStmtInPlace(hasInit) ==
  /\ AtStmt /\ Room("decl")
  /\ Visit("decl")
  /\ code' = Add(code, insert, Eval(Node, {}))
  /\ scopes' = [scopes EXCEPT ![Len(scopes)] = @ \cup {Node}]
  /\ Begin(IF hasInit THEN <<[Waiting("init") EXCEPT !.saved = Node], Waiting("expr")>>
                      ELSE <<>>)
  /\ UNCHANGED <<phase, placed, insert, slots, loops, value>>

(* The block after an if is branched to, and not started.                  *)
ThenEndStays ==
  /\ At("thenEnd") /\ Top.alt = 0
  /\ Visit("endif")
  /\ Replace(<<>>)
  /\ UNCHANGED <<phase, ir, loops, value, scopes>>

(* The phi names the block the right operand began in.                     *)
LogicalRhsFromStart ==
  /\ Walking /\ Top.k \in {"andRhs", "orRhs"}
  /\ Visit("endlogic") /\ Return(Node)
  /\ code' = Add(Add(code, insert, Br(Top.end)), Top.end,
                 Phi(Node, {Incoming(Top.back, 0, Top.k = "orRhs"),
                            Incoming(Top.end - 1, value, FALSE)}))
  /\ StartBlock(Top.end)
  /\ Replace(<<>>)
  /\ UNCHANGED <<phase, slots, loops, scopes>>

(* The right operand stands for the result, without a phi.                 *)
LogicalRhsNoPhi ==
  /\ Walking /\ Top.k \in {"andRhs", "orRhs"}
  /\ Visit("endlogic") /\ Return(value)
  /\ code' = Add(code, insert, Br(Top.end))
  /\ StartBlock(Top.end)
  /\ Replace(<<>>)
  /\ UNCHANGED <<phase, slots, loops, scopes>>

(* The short-circuit constants of && and || are swapped.                   *)
LogicalRhsSwapped ==
  /\ Walking /\ Top.k \in {"andRhs", "orRhs"}
  /\ Visit("endlogic") /\ Return(Node)
  /\ code' = Add(Add(code, insert, Br(Top.end)), Top.end,
                 Phi(Node, {Incoming(Top.back, 0, Top.k = "andRhs"),
                            Incoming(insert, value, FALSE)}))
  /\ StartBlock(Top.end)
  /\ Replace(<<>>)
  /\ UNCHANGED <<phase, slots, loops, scopes>>

(* A loop goes on at its end and stops at its condition.                   *)
WhileCondCrossed ==
  /\ At("whileCond")
  /\ Visit("do") /\ Taken
  /\ code' = Add(code, insert, CondBr(value, Top.next, Top.end, Node))
  /\ StartBlock(Top.next)
  /\ loops' = Append(loops, [continueTo |-> Top.end, breakTo |-> Top.back])
  /\ Replace(<<Frame("bodyEnd", 0, 0, Top.end, Top.back), Waiting("stmt")>>)
  /\ UNCHANGED <<phase, slots, scopes>>

-----------------------------------------------------------------------------
(* Functions                                                               *)

EmitFunction(params) ==
  /\ phase = "idle"
  /\ phase' = "emit"
  /\ src' = [p \in 1..params |-> "param"]
  /\ slots' = 1..params
  /\ scopes' = <<1..params>>
  /\ code' = <<[p \in 1..params |-> Store(p, p, p)]>>
  /\ placed' = {1} /\ insert' = 1
  /\ stack' = <<Waiting("body")>>
  /\ UNCHANGED <<loops, value>>

(* Falling off the end of the body returns zero.                           *)
FinishFunction ==
  /\ At("body") /\ Len(stack) = 1
  /\ phase' = "done"
  /\ code' = IF IsTerminated(code[insert]) THEN code
             ELSE Add(code, insert, Ret({}, Node))
  /\ stack' = <<>> /\ scopes' = <<>>
  /\ UNCHANGED <<placed, insert, slots, loops, value, src>>

(* The next function starts on blocks of its own; loops_ is a member of    *)
(* the builder and stays what it is.                                       *)
NextFunction ==
  /\ phase = "done"
  /\ phase' = "idle"
  /\ code' = <<>> /\ placed' = {} /\ insert' = 0 /\ slots' = {}
  /\ src' = <<>>
  /\ UNCHANGED <<loops, stack, value, scopes>>

-----------------------------------------------------------------------------
(* Statements                                                              *)

NullStmt == AtStmt /\ Begin(<<>>)
            /\ UNCHANGED <<phase, ir, loops, value, src, scopes>>

ExprStmt ==
  /\ AtStmt /\ Room("drop")
  /\ Begin(<<Waiting("drop"), Waiting("expr")>>)
  /\ UNCHANGED <<phase, ir, loops, value, src, scopes>>

Drop ==
  /\ At("drop")
  /\ Visit("drop") /\ Replace(<<>>) /\ Taken
  /\ UNCHANGED <<phase, ir, loops, scopes>>

(* The slot exists, and its name is visible, before the initializer.       *)
DeclStmt(hasInit) ==
  /\ AtStmt /\ Room("decl")
  /\ Visit("decl")
  /\ slots' = slots \cup {Node}
  /\ scopes' = [scopes EXCEPT ![Len(scopes)] = @ \cup {Node}]
  /\ Begin(IF hasInit THEN <<[Waiting("init") EXCEPT !.saved = Node], Waiting("expr")>>
                      ELSE <<>>)
  /\ UNCHANGED <<phase, code, placed, insert, loops, value>>

LocalInit ==
  /\ At("init")
  /\ Visit("store") /\ Replace(<<>>) /\ Taken
  /\ code' = Add(code, insert, Store(value, Top.saved, Node))
  /\ UNCHANGED <<phase, placed, insert, slots, loops, scopes>>

CompoundStmt ==
  /\ AtStmt /\ Room("{")
  /\ Visit("{") /\ Begin(<<Waiting("body")>>)
  /\ scopes' = Append(scopes, {})
  /\ UNCHANGED <<phase, ir, loops, value>>

CompoundEnd ==
  /\ At("body") /\ Len(stack) > 1
  /\ Replace(<<>>)
  /\ scopes' = SubSeq(scopes, 1, Len(scopes) - 1)
  /\ UNCHANGED <<phase, ir, loops, value, src>>

IfStmt(hasElse) ==
  /\ AtStmt /\ Room("if")
  /\ Visit("if")
  /\ code' = Blocks(code, IF hasElse THEN 3 ELSE 2)
  /\ Begin(<<IF hasElse THEN Frame("ifCond", NBlocks + 1, NBlocks + 2, NBlocks + 3, 0)
                        ELSE Frame("ifCond", NBlocks + 1, 0, NBlocks + 2, 0),
             Waiting("expr")>>)
  /\ UNCHANGED <<phase, placed, insert, slots, loops, value, scopes>>

IfCond ==
  /\ At("ifCond")
  /\ Visit("then") /\ Taken
  /\ code' = Add(code, insert,
                 CondBr(value, Top.next, IF Top.alt # 0 THEN Top.alt ELSE Top.end, Node))
  /\ StartBlock(Top.next)
  /\ Replace(<<Frame("thenEnd", 0, Top.alt, Top.end, 0), Waiting("stmt")>>)
  /\ UNCHANGED <<phase, slots, loops, scopes>>

ThenEnd ==
  /\ At("thenEnd") /\ Top.alt = 0
  /\ Visit("endif")
  /\ code' = BranchTo(code, Top.end)
  /\ StartBlock(Top.end)
  /\ Replace(<<>>)
  /\ UNCHANGED <<phase, slots, loops, value, scopes>>

ElseStart ==
  /\ At("thenEnd") /\ Top.alt # 0
  /\ Visit("else")
  /\ code' = BranchTo(code, Top.end)
  /\ StartBlock(Top.alt)
  /\ Replace(<<Frame("elseEnd", 0, 0, Top.end, 0), Waiting("stmt")>>)
  /\ UNCHANGED <<phase, slots, loops, value, scopes>>

ElseEnd ==
  /\ At("elseEnd")
  /\ Visit("endif")
  /\ code' = BranchTo(code, Top.end)
  /\ StartBlock(Top.end)
  /\ Replace(<<>>)
  /\ UNCHANGED <<phase, slots, loops, value, scopes>>

WhileStmt ==
  /\ AtStmt /\ Room("while")
  /\ Visit("while")
  /\ code' = Add(Blocks(code, 3), insert, Br(NBlocks + 1))
  /\ StartBlock(NBlocks + 1)
  /\ Begin(<<Frame("whileCond", NBlocks + 2, 0, NBlocks + 3, NBlocks + 1), Waiting("expr")>>)
  /\ UNCHANGED <<phase, slots, loops, value, scopes>>

WhileCond ==
  /\ At("whileCond")
  /\ Visit("do") /\ Taken
  /\ code' = Add(code, insert, CondBr(value, Top.next, Top.end, Node))
  /\ StartBlock(Top.next)
  /\ loops' = Append(loops, [continueTo |-> Top.back, breakTo |-> Top.end])
  /\ Replace(<<Frame("bodyEnd", 0, 0, Top.end, Top.back), Waiting("stmt")>>)
  /\ UNCHANGED <<phase, slots, scopes>>

BodyEnd ==
  /\ At("bodyEnd")
  /\ Visit("endwhile")
  /\ loops' = SubSeq(loops, 1, Len(loops) - 1)
  /\ code' = BranchTo(code, Top.back)
  /\ StartBlock(Top.end)
  /\ Replace(<<>>)
  /\ UNCHANGED <<phase, slots, value, scopes>>

(* startDeadBlock, after the terminator i.                                 *)
EndAndStartDead(i) ==
  /\ code' = Add(Blocks(code, 1), insert, i)
  /\ StartBlock(NBlocks + 1)

BreakStmt ==
  /\ AtStmt /\ Room("break") /\ LoopDepth > 0
  /\ Visit("break") /\ Begin(<<>>)
  /\ EndAndStartDead(Br(loops[Len(loops)].breakTo))
  /\ UNCHANGED <<phase, slots, loops, value, scopes>>

ContinueStmt ==
  /\ AtStmt /\ Room("continue") /\ LoopDepth > 0
  /\ Visit("continue") /\ Begin(<<>>)
  /\ EndAndStartDead(Br(loops[Len(loops)].continueTo))
  /\ UNCHANGED <<phase, slots, loops, value, scopes>>

ReturnVoid ==
  /\ AtStmt /\ Room("return")
  /\ Visit("return") /\ Begin(<<>>)
  /\ EndAndStartDead(Ret({}, Node))
  /\ UNCHANGED <<phase, slots, loops, value, scopes>>

ReturnStmt ==
  /\ AtStmt /\ Room("return")
  /\ Begin(<<Waiting("return"), Waiting("expr")>>)
  /\ UNCHANGED <<phase, ir, loops, value, src, scopes>>

(* The value of a call that returns void is evaluated and not returned.    *)
ReturnValue(isVoid) ==
  /\ At("return")
  /\ Visit(IF isVoid THEN "return" ELSE "retval") /\ Taken /\ Replace(<<>>)
  /\ EndAndStartDead(Ret(IF isVoid THEN {} ELSE {value}, Node))
  /\ UNCHANGED <<phase, slots, loops, scopes>>

-----------------------------------------------------------------------------
(* Expressions                                                             *)

(* A literal, or (slot # 0) a load of a visible variable.                  *)
Leaf(slot) ==
  /\ At("expr")
  /\ Visit("leaf") /\ Return(Node) /\ Replace(<<>>)
  /\ code' = Add(code, insert, Eval(Node, {slot} \ {0}))
  /\ UNCHANGED <<phase, placed, insert, slots, loops, scopes>>

(* Any operator that evaluates both operands, an assignment or a call.     *)
Operands ==
  /\ At("expr") /\ Room("op")
  /\ Replace(<<Waiting("op"), Waiting("expr")>>)
  /\ UNCHANGED <<phase, ir, loops, value, src, scopes>>

OperatorLhs ==
  /\ At("op")
  /\ Replace(<<[Waiting("opRhs") EXCEPT !.saved = value], Waiting("expr")>>) /\ Taken
  /\ UNCHANGED <<phase, ir, loops, src, scopes>>

Operator ==
  /\ At("opRhs")
  /\ Visit("op") /\ Return(Node) /\ Replace(<<>>)
  /\ code' = Add(code, insert, Eval(Node, {Top.saved, value}))
  /\ UNCHANGED <<phase, placed, insert, slots, loops, scopes>>

Logical(k) ==
  /\ At("expr") /\ Room(k)
  /\ Replace(<<Waiting(k), Waiting("expr")>>)
  /\ UNCHANGED <<phase, ir, loops, value, src, scopes>>

LogicalLhs ==
  /\ Walking /\ Top.k \in {"and", "or"}
  /\ Visit(Top.k) /\ Taken
  /\ LET rhs == NBlocks + 1
         end == NBlocks + 2
     IN  /\ code' = Add(Blocks(code, 2), insert,
                        IF Top.k = "and" THEN CondBr(value, rhs, end, Node)
                                         ELSE CondBr(value, end, rhs, Node))
         /\ StartBlock(rhs)
         /\ Replace(<<Frame(IF Top.k = "and" THEN "andRhs" ELSE "orRhs", 0, 0, end, insert),
                      Waiting("expr")>>)
  /\ UNCHANGED <<phase, slots, loops, scopes>>

(* The phi takes the short-circuit constant from lhsEnd, which the frame   *)
(* remembers, and the right side from the block it ended in.               *)
LogicalRhs ==
  /\ Walking /\ Top.k \in {"andRhs", "orRhs"}
  /\ Visit("endlogic") /\ Return(Node)
  /\ code' = Add(Add(code, insert, Br(Top.end)), Top.end,
                 Phi(Node, {Incoming(Top.back, 0, Top.k = "orRhs"),
                            Incoming(insert, value, FALSE)}))
  /\ StartBlock(Top.end)
  /\ Replace(<<>>)
  /\ UNCHANGED <<phase, slots, loops, scopes>>

-----------------------------------------------------------------------------
Init ==
  /\ phase = "idle"
  /\ code = <<>> /\ placed = {} /\ insert = 0 /\ slots = {}
  /\ loops = <<>> /\ stack = <<>> /\ value = 0
  /\ src = <<>> /\ scopes = <<>>

StmtStep ==
  \/ NullStmt \/ ExprStmt \/ Drop \/ LocalInit
  \/ \E hasInit \in BOOLEAN : DeclStmt(hasInit)
  \/ CompoundStmt \/ CompoundEnd
  \/ \E hasElse \in BOOLEAN : IfStmt(hasElse)
  \/ IfCond \/ ThenEnd \/ ElseStart \/ ElseEnd
  \/ WhileStmt \/ WhileCond \/ BodyEnd
  \/ BreakStmt \/ ContinueStmt \/ ReturnVoid \/ ReturnStmt
  \/ \E isVoid \in BOOLEAN : ReturnValue(isVoid)

ExprStep ==
  \/ \E slot \in Visible \cup {0} : Leaf(slot)
  \/ Operands \/ OperatorLhs \/ Operator
  \/ \E k \in {"and", "or"} : Logical(k)
  \/ LogicalLhs \/ LogicalRhs

Next ==
  \/ \E params \in 0..MaxParams : EmitFunction(params)
  \/ FinishFunction \/ NextFunction
  \/ StmtStep \/ ExprStep

Spec == Init /\ [][Next]_vars

(* The walk is sequential code that calls nothing that can block, over a   *)
(* finite tree: it always takes its next step.                             *)
FairSpec == Spec /\ WF_vars(Next)

-----------------------------------------------------------------------------
(* Properties.                                                             *)

Block    == 1..NBlocks
Kinds    == {"param", "decl", "store", "drop", "{", "if", "then", "else", "endif", "while", "do",
             "endwhile", "break", "continue", "return", "retval", "leaf", "op", "and", "or", "endlogic"}
Ops      == Terminators \cup {"eval", "store", "phi"}
Instrs   == [op: Ops, def: Nat, use: SUBSET Nat, to: Seq(Nat),
             phi: SUBSET [from: Nat, v: Nat, const: BOOLEAN], node: Nat]
FrameKinds == {"body", "stmt", "expr", "drop", "init", "return", "op", "opRhs", "and", "or", "andRhs", "orRhs",
               "ifCond", "thenEnd", "elseEnd", "whileCond", "bodyEnd"}
Frames   == [k: FrameKinds, next: Nat, alt: Nat, end: Nat, back: Nat, saved: Nat]

(* The variables hold values of their C++ types; blocks that are in the    *)
(* function exist, and so do the nodes that declared its slots.            *)
TypeOK ==
  /\ phase \in {"idle", "emit", "done"}
  /\ code \in Seq(Seq(Instrs))
  /\ placed \subseteq 1..NBlocks /\ insert \in 0..NBlocks
  /\ slots \subseteq 1..Len(src)
  /\ loops \in Seq([continueTo: Nat, breakTo: Nat])
  /\ stack \in Seq(Frames)
  /\ value \in Nat
  /\ src \in Seq(Kinds)
  /\ scopes \in Seq(SUBSET Nat)

Branches(b) == {j \in 1..Len(code[b]) : IsTerminator(code[b][j])}
Targets(i)  == {i.to[t] : t \in 1..Len(i.to)}

(* "Every block still ends in exactly one terminator" (startDeadBlock's    *)
(* comment): a block that was started and left has its only terminator at  *)
(* its end, the insertion block has none, and a block not yet started is   *)
(* empty.  So no instruction ever lands behind a return, break or continue.*)
OneOpenBlock ==
  \A b \in Block :
    /\ b \in placed \ {insert} => code[b] # <<>> /\ Branches(b) = {Len(code[b])}
    /\ b = insert /\ phase = "emit" => Branches(b) = {}
    /\ b \notin placed => code[b] = <<>>

(* Every function the builder finishes is closed: each block it created is *)
(* in the function and ends in its terminator, no branch leaves the        *)
(* function, and none returns to the entry block, whose allocas therefore  *)
(* run once.                                                               *)
ClosedGraph ==
  /\ \A b \in Block : \A j \in Branches(b) : Targets(code[b][j]) \subseteq Block \ {1}
  /\ phase = "done" => /\ placed = Block
                       /\ \A b \in Block : code[b] # <<>> /\ Branches(b) = {Len(code[b])}

(* loops_ mirrors the while statements whose body the walk is in, the      *)
(* innermost last, so break and continue, which Sema counted, find theirs. *)
Nesting(i) == Cardinality({j \in Bodies : j <= i})
LoopsMatch ==
  /\ Len(loops) = LoopDepth
  /\ \A i \in Bodies :
       loops[Nesting(i)] = [continueTo |-> stack[i].back, breakTo |-> stack[i].end]

Succs(b) == UNION {Targets(code[b][j]) : j \in Branches(b)}
Preds(b) == {p \in Block : b \in Succs(p)}

(* The phi of && and || stands first in its block and names each           *)
(* predecessor of the block once: lhsEnd and rhsEnd are the blocks the      *)
(* operands ended in, not those they began in.                              *)
PhiNamesPreds ==
  \A b \in Block : \A j \in 1..Len(code[b]) :
    code[b][j].op = "phi" =>
      /\ j = 1
      /\ {in.from : in \in code[b][j].phi} = Preds(b)
      /\ Cardinality(code[b][j].phi) = Cardinality(Preds(b))

(* The blocks control can reach from the entry without entering d.         *)
ReachAvoiding(d) ==
  LET reach[n \in Nat] ==
        IF n = 0 THEN {1} \ {d}
        ELSE reach[n - 1] \cup ((UNION {Succs(b) : b \in reach[n - 1]}) \ {d})
  IN  reach[NBlocks]

Dominates(d, b) == b \notin ReachAvoiding(d)

(* Value v is computed before instruction j of block b on every path.      *)
AvailableAt(v, b, j) ==
  \/ v \in slots
  \/ \E d \in Block : \E i \in 1..Len(code[d]) :
       code[d][i].def = v /\ IF d = b THEN i < j ELSE Dominates(d, b)

(* SSA form: every operand, and every phi operand at the end of the block   *)
(* it comes from, is defined on all paths that reach it, across the blocks  *)
(* that && and || open in the middle of an expression and for a variable    *)
(* that an unbraced if or while body declared.                              *)
UsesDominated ==
  \A b \in Block : \A j \in 1..Len(code[b]) :
    /\ \A v \in code[b][j].use : AvailableAt(v, b, j)
    /\ \A in \in code[b][j].phi : in.v # 0 => AvailableAt(in.v, in.from, Len(code[in.from]) + 1)

(* A block that has its terminator is never written again.                 *)
Sealed ==
  [][phase = "emit" =>
       \A b \in Block : IsTerminated(code[b]) => code'[b] = code[b]]_vars

(* Every block the walk creates, three at most for a node, is eventually   *)
(* part of a finished function.                                            *)
EveryBlockStarted ==
  \A n \in 1..3 * MaxTree + 1 : (n <= NBlocks) ~> (phase = "done" /\ n \in placed)

=============================================================================
