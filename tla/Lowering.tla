------------------------------ MODULE Lowering ------------------------------
(***************************************************************************)
(* What lib/CodeGen/CodeGen.cpp makes of an expression that Sema checked   *)
(* (module Typing): the LLVM types of the values and instructions, the     *)
(* constants of global initializers, and what the code of an expression    *)
(* without names computes.                                                 *)
(***************************************************************************)
EXTENDS Typing, FiniteSets

Lower(t) ==
    CASE t = VoidType -> "void" [] t = CharType -> "i8" [] t = IntType -> "i32"
      [] t = FloatType -> "float" [] IsPointer(t) -> "ptr"
      [] Is(t, "array") -> "array" [] Is(t, "function") -> "function"

(* A value of an LLVM type; good when every instruction that went into it  *)
(* has operands of the types LLVM asks for, and no assertion failed.       *)
Made(type, good) == [type |-> type, good |-> good]
Bad == Made("none", FALSE)
Ints == {"i8", "i32"}
Sized(t) == Lower(t) \notin {"void", "function"}

RECURSIVE RValue(_)
LValue(e) ==
    CASE e.node = "ref" -> Made("ptr", ~Is(Names[e.sub].type, "function"))
      [] e.node = "unary" /\ e.sub = "*" -> RValue(e.kids[1])
      [] e.node = "string" -> Made("ptr", TRUE)
      [] OTHER -> Bad

Load(t, address) == Made(Lower(t), address.good /\ address.type = "ptr" /\ Sized(t))

(* condition: an i1 *)
Condition(e) ==
    LET v == RValue(e)
    IN  v.good /\ v.type \in (IF e.type = FloatType THEN {"float"} ELSE Ints \cup {"ptr"})

Binary(e) ==
    LET operand == e.kids[1].type
        l == RValue(e.kids[1])
        r == RValue(e.kids[2])
        good == l.good /\ r.good
        float == operand = FloatType
        moves == e.sub = "+" \/ (e.sub = "-" /\ ~IsPointer(e.kids[2].type))
    IN  CASE IsPointer(operand) /\ moves ->
               Made("ptr", good /\ l.type = "ptr" /\ r.type \in Ints /\ Sized(operand[2]))
          [] IsPointer(operand) /\ e.sub = "-" ->
               Made("i32", good /\ l.type = "ptr" /\ r.type = "ptr" /\ Sized(operand[2]))
          [] e.sub \in Comparisons ->
               Made("i32", good /\ l.type = r.type
                           /\ l.type \in (IF float THEN {"float"} ELSE Ints \cup {"ptr"}))
          [] OTHER ->
               Made(l.type, good /\ l.type = r.type
                            /\ l.type \in (IF float /\ e.sub # "%" THEN {"float"} ELSE Ints))

Call(e) ==
    LET fn == Names[e.kids[1].sub].type
        arg(i) == RValue(e.kids[i + 1])
        good(i) ==
            /\ arg(i).good
            /\ IF i <= Len(fn[3]) THEN arg(i).type = Lower(fn[3][i])
               ELSE arg(i).type \in {"i32", "float", "ptr"}
    IN  Made(Lower(fn[2]), /\ e.kids[1].node = "ref" /\ Is(fn, "function")
                           /\ \A i \in 1..Len(e.kids) - 1 : good(i))

(* The kinds of cast and what LLVM's instruction takes and gives. *)
CastOf(e) ==
    LET v == RValue(e.kids[1])
        to == Lower(e.type)
        Instruction(takes, gives) == Made(to, v.good /\ v.type \in takes /\ to \in gives)
    IN  CASE e.sub = "ArrayToPointer" -> LValue(e.kids[1])
          [] e.sub = "NullToPointer" -> Made("ptr", TRUE)
          [] e.sub \in {"NoOp", "PointerCast"} -> v
          [] e.sub = "IntegralCast" -> Instruction(Ints, Ints)
          [] e.sub = "IntToFloat" -> Instruction(Ints, {"float"})
          [] e.sub = "FloatToInt" -> Instruction({"float"}, Ints)
          [] e.sub = "PointerToInt" -> Instruction({"ptr"}, Ints)
          [] e.sub = "IntToPointer" -> Instruction(Ints, {"ptr"})
          [] e.sub = "ToVoid" -> Made("void", v.good)
          [] OTHER -> Bad

Unary(e) ==
    LET v == RValue(e.kids[1])
    IN  CASE e.sub = "+" -> v
          [] e.sub = "-" ->
               Made(v.type, v.good /\ v.type \in (IF e.type = FloatType THEN {"float"} ELSE Ints))
          [] e.sub = "!" -> Made("i32", Condition(e.kids[1]))
          [] e.sub = "*" -> Load(e.type, v)
          [] e.sub = "&" -> LValue(e.kids[1])

RValue(e) ==
    CASE e.node \in {"int", "float"} -> Made(Lower(e.type), TRUE)
      [] e.node = "string" -> LValue(e)
      [] e.node = "ref" -> Load(e.type, LValue(e))
      [] e.node = "unary" -> Unary(e)
      [] e.node = "binary" /\ e.sub \in {"&&", "||"} ->
           Made("i32", Condition(e.kids[1]) /\ Condition(e.kids[2]))
      [] e.node = "binary" -> Binary(e)
      [] e.node = "assign" ->
           LET v == RValue(e.kids[2])
               address == LValue(e.kids[1])
           IN  Made(v.type, v.good /\ address.good /\ address.type = "ptr"
                            /\ v.type = Lower(e.kids[1].type))
      [] e.node = "call" -> Call(e)
      [] e.node = "cast" -> CastOf(e)
      [] OTHER -> Bad

(* A constant of a global initializer; the address of a variable is one    *)
(* when the variable is global.                                            *)
Address(e) == Made("ptr", e.node = "string" \/ IsGlobalRef(e))
RECURSIVE Constant(_)
Constant(e) ==
    LET v == EvaluateConstant(e)
    IN  CASE v # None ->
               Made(Lower(e.type),
                    IF Lower(e.type) = "float" THEN TRUE
                    ELSE Lower(e.type) \in Ints
                         /\ Fits(v.n, IF e.type = CharType THEN CharBits ELSE IntBits))
          [] e.node = "cast" /\ e.sub = "NullToPointer" -> Made("ptr", TRUE)
          [] e.node = "cast" /\ e.sub = "PointerCast" -> Constant(e.kids[1])
          [] e.node = "cast" /\ e.sub = "ArrayToPointer" -> Address(e.kids[1])
          [] e.node = "unary" /\ e.sub = "&" -> Address(e.kids[1])
          [] OTHER -> Bad

-----------------------------------------------------------------------------
(* LLVM's instructions on numbers: integers wrap at their width, division  *)
(* by 0 and of the least number by -1 is undefined, and so is a float that *)
(* an integer cannot hold; a float is rounded, and infinities left out.    *)
Undefined == Value("undefined", 0)
Bits(t) == IF t = CharType THEN CharBits ELSE IntBits
Truth(v) == v.n # 0
Float(halves) == Double(RoundToFloat(halves))

Arithmetic(op, t, l, r) ==
    CASE Undefined \in {l, r} -> Undefined
      [] None \in {l, r} -> None
      [] op \in Comparisons -> Integer(Flag(Compare(op, l.n, r.n)))
      [] t = FloatType /\ op = "/" /\ r.n = 0 -> None
      [] t = FloatType ->
           Float(CASE op = "+" -> l.n + r.n [] op = "-" -> l.n - r.n
                   [] op = "*" -> Quotient(l.n * r.n, 2)
                   [] op = "/" -> Quotient(2 * l.n, r.n))
      [] op \in {"/", "%"} /\ (r.n = 0 \/ (r.n = -1 /\ l.n = -Half(Bits(t)))) -> Undefined
      [] OTHER ->
           Integer(Wrap(CASE op = "+" -> l.n + r.n [] op = "-" -> l.n - r.n
                          [] op = "*" -> l.n * r.n [] op = "/" -> Quotient(l.n, r.n)
                          [] op = "%" -> Remainder(l.n, r.n), Bits(t)))

Convert2(kind, v, to) ==
    CASE v \in {Undefined, None} \/ kind = "NoOp" -> v
      [] kind = "IntegralCast" -> Integer(Wrap(v.n, Bits(to)))
      [] kind = "IntToFloat" -> Float(2 * v.n)
      [] kind = "FloatToInt" ->
           LET n == Quotient(v.n, 2) IN IF Fits(n, Bits(to)) THEN Integer(n) ELSE Undefined
      [] OTHER -> None

(* What the code computes; None when it needs more than numbers. *)
RECURSIVE Computes(_)
Computes(e) ==
    LET v == [i \in DOMAIN e.kids |-> Computes(e.kids[i])]
    IN  CASE e.node = "int" -> Integer(Wrap(e.number, IntBits))
          [] e.node = "float" -> Float(e.number)
          [] e.node = "cast" -> Convert2(e.sub, v[1], e.type)
          [] e.node \in {"unary", "binary"} /\ v[1] \in {Undefined, None} -> v[1]
          [] e.node = "unary" /\ e.sub = "+" -> v[1]
          [] e.node = "unary" /\ e.sub = "-" ->
               IF e.type = FloatType THEN Double(-v[1].n) ELSE Integer(Wrap(-v[1].n, Bits(e.type)))
          [] e.node = "unary" /\ e.sub = "!" -> Integer(Flag(~Truth(v[1])))
          [] e.node = "binary" /\ e.sub \in {"&&", "||"} ->
               (CASE Truth(v[1]) = (e.sub = "||") -> Integer(Flag(Truth(v[1])))
                  [] v[2] \in {Undefined, None} -> v[2]
                  [] OTHER -> Integer(Flag(Truth(v[2]))))
          [] e.node = "binary" -> Arithmetic(e.sub, e.kids[1].type, v[1], v[2])
          [] OTHER -> None

-----------------------------------------------------------------------------
(* The expression checked last; the others on the stack were before. *)
Newest == {Len(stack)} \ {0}
Checked == {stack[i].checked : i \in Newest}
ObjectTypes == {t \in {Names[name].type : name \in DOMAIN Names} : IsScalar(t)}

(* Whatever Sema accepts, as a statement's expression or converted to the  *)
(* type of a variable, becomes instructions whose operands have the types  *)
(* LLVM asks for and a value of the type Sema gave it, the decayed and     *)
(* desugared forms included; no assertion of CodeGen.cpp fails.            *)
WellTyped ==
    ~reported =>
        \A e \in Checked :
            LET v == CheckValue(e)
            IN  Typed(v) =>
                  /\ RValue(v) = Made(Lower(v.type), TRUE)
                  /\ \A t \in ObjectTypes :
                        LET c == Convert(v, t)
                        IN  Typed(c) => RValue(c) = Made(Lower(t), TRUE)

(* "Sema accepted a non-constant initializer" (CodeGen.cpp:313): it never  *)
(* does; the constant built has the type of the variable and fits it.      *)
InitializersConstant ==
    ~reported =>
        \A e \in Checked, t \in ObjectTypes :
            LET v == CheckValue(e)
            IN  Typed(v) /\ Typed(Convert(v, t)) /\ IsConstantInit(Convert(v, t)) =>
                  Constant(Convert(v, t)) = Made(Lower(t), TRUE)

(* An expression has one value, whether ConstEval folds it for a global or *)
(* the code computes it for a local, where the code has any; and ConstEval *)
(* folds all that have one, but for operands && and || skip.               *)
RECURSIVE Skips(_)
Skips(e) == e.sub \in {"&&", "||"} \/ \E i \in DOMAIN e.kids : Skips(e.kids[i])

FoldedAsComputed ==
    \A e \in Checked :
        Typed(e) =>
            LET v == EvaluateConstant(e)
            IN  /\ v # None => Computes(e) \in {Undefined, v}
                /\ v = None => Computes(e) \in {Undefined, None} \/ Skips(e)

(* The parser evaluates the length of an array before types are known, in  *)
(* 64 bits and double; "Works both before Sema ... and after it"           *)
(* (ConstEval.h:18-20): unless something overflows int or is rounded to    *)
(* float on the way, it gets what the expression means.                    *)
IsFloat(v) == RoundToFloat(AsDouble(v)) = AsDouble(v)

RECURSIVE Exact(_)
Exact(e) ==
    LET v == EvaluateConstant(e)
        operands == {EvaluateConstant(e.kids[i]) : i \in DOMAIN e.kids}
    IN  /\ v.kind = "int" => Fits(v.n, IntBits)
        /\ v.kind = "double" => IsFloat(v)
        /\ e.node = "binary" /\ (\E a \in operands : a.kind = "double") =>
              \A a \in operands : IsFloat(a)
        /\ \A i \in DOMAIN e.kids : Exact(e.kids[i])

LengthsMean ==
    \A i \in Newest :
        LET length == EvaluateInteger(stack[i].source)
        IN  length # None /\ Exact(stack[i].source) =>
              /\ Typed(stack[i].checked)
              /\ EvaluateConstant(stack[i].checked) = length
=============================================================================
