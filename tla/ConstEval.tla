----------------------------- MODULE ConstEval ------------------------------
(***************************************************************************)
(* lib/AST/ConstEval.cpp over the trees of include/jia/AST/AST.h, with     *)
(* integers of CharBits, IntBits and LongBits for 8, 32 and 64 bits.  A    *)
(* double is counted in halves; a float is one with at most FloatBits      *)
(* significant bits, for 24.                                               *)
(***************************************************************************)
EXTENDS Integers, Sequences

CONSTANTS
    CharBits, IntBits, LongBits, FloatBits,
    OutOfRange    \* what a cast from a double beyond int64_t leaves, which
                  \* C++ does not define; on x86-64 the least int64_t

ASSUME ConstEvalAssumption ==
    /\ 1 < CharBits /\ CharBits < IntBits /\ 2 * IntBits <= LongBits
    /\ FloatBits \in Nat \ {0}

NoType == <<>>
VoidType == <<"void">>
CharType == <<"char">>
IntType == <<"int">>
FloatType == <<"float">>
PointerTo(t) == <<"pointer", t>>
ArrayOf(t, n) == <<"array", t, n>>
Function(t, params, variadic) == <<"function", t, params, variadic>>

Is(t, kind) == t[1] = kind
IsInteger(t) == t \in {CharType, IntType}
IsArithmetic(t) == t \in {CharType, IntType, FloatType}
IsPointer(t) == Is(t, "pointer")
IsScalar(t) == IsArithmetic(t) \/ IsPointer(t)

(* Expr: its node, what is below it, its type and whether it is an lvalue. *)
(* The number is a literal's value or an operand's size in sizeof(type).   *)
Expr(node, sub, kids, type, lvalue, number) ==
    [node |-> node, sub |-> sub, kids |-> kids, type |-> type, lvalue |-> lvalue,
     number |-> number]

-----------------------------------------------------------------------------
Abs(n) == IF n < 0 THEN -n ELSE n
Half(bits) == 2 ^ (bits - 1)
Wrap(n, bits) == ((n + Half(bits)) % (2 * Half(bits))) - Half(bits)
Fits(n, bits) == Wrap(n, bits) = n
Quotient(a, b) ==
    LET q == Abs(a) \div Abs(b) IN IF (a < 0) = (b < 0) THEN q ELSE -q
Remainder(a, b) == a - b * Quotient(a, b)
Flag(b) == IF b THEN 1 ELSE 0

(* ConstValue, or no value. *)
Value(kind, n) == [kind |-> kind, n |-> n]
None == Value("none", 0)
Integer(n) == Value("int", n)
Double(halves) == Value("double", halves)
AsDouble(v) == IF v.kind = "int" THEN 2 * v.n ELSE v.n

(* 9.3e18 is a little more than 2^63. *)
Limit == 2 * (Half(LongBits) + 1)
ToLong(halves) ==
    LET n == Quotient(halves, 2) IN IF Fits(n, LongBits) THEN n ELSE OutOfRange

(* static_cast<float>: the nearest of the multiples of the last place that *)
(* a float this large has, the even one of two.                            *)
Ulp[n \in Nat] == IF n < 2 ^ FloatBits THEN 1 ELSE 2 * Ulp[n \div 2]
RoundToFloat(halves) ==
    LET ulp == Ulp[Abs(halves)]
        q == Abs(halves) \div ulp
        rest == 2 * (Abs(halves) % ulp)
        up == rest > ulp \/ (rest = ulp /\ q % 2 = 1)
        n == ulp * (q + Flag(up))
    IN  IF halves < 0 THEN -n ELSE n

NarrowTo(v, type) ==
    IF v.kind = "double" /\ ~(-Limit < v.n /\ v.n < Limit) THEN None
    ELSE LET n == IF v.kind = "double" THEN ToLong(v.n) ELSE v.n
         IN  Integer(Wrap(n, IF type = CharType THEN CharBits ELSE IntBits))

(* With a bug in it: static_cast<float> is left out. *)
FitToUnrounded(v, type) ==
    CASE type = NoType \/ v.kind = "none" -> v
      [] IsInteger(type) -> NarrowTo(v, type)
      [] type = FloatType -> Double(AsDouble(v))
      [] OTHER -> None

FitTo(v, type) ==
    CASE type = NoType \/ v.kind = "none" -> v
      [] IsInteger(type) -> NarrowTo(v, type)
      [] type = FloatType -> Double(RoundToFloat(AsDouble(v)))
      [] OTHER -> None

Compare(op, a, b) ==
    CASE op = "<" -> a < b [] op = ">" -> a > b [] op = "<=" -> a <= b
      [] op = ">=" -> a >= b [] op = "==" -> a = b [] op = "!=" -> a # b
Comparisons == {"<", ">", "<=", ">=", "==", "!="}

FoldBinary(op, l, r) ==
    LET a == AsDouble(l)  b == AsDouble(r)
    IN  CASE op = "&&" -> Integer(Flag(a # 0 /\ b # 0))
          [] op = "||" -> Integer(Flag(a # 0 \/ b # 0))
          [] op \in Comparisons -> Integer(Flag(Compare(op, a, b)))
          [] op = "%" /\ (l.kind = "double" \/ r.kind = "double") -> None
          [] op \in {"+", "-", "*", "/", "%"} /\ l.kind = "int" /\ r.kind = "int" ->
               LET Long(n) == Integer(Wrap(n, LongBits))
               IN  (CASE op = "+" -> Long(l.n + r.n)
                      [] op = "-" -> Long(l.n - r.n)
                      [] op = "*" -> Long(l.n * r.n)
                      [] r.n = 0 \/ (l.n = -Half(LongBits) /\ r.n = -1) -> None
                      [] op = "/" -> Long(Quotient(l.n, r.n))
                      [] op = "%" -> Long(Remainder(l.n, r.n)))
          [] op = "+" -> Double(a + b)
          [] op = "-" -> Double(a - b)
          [] op = "*" -> Double(Quotient(a * b, 2))
          [] op = "/" -> Double(Quotient(2 * a, b))

FoldUnary(op, v) ==
    CASE op = "+" -> v
      [] op = "-" -> IF v.kind = "int" THEN Integer(Wrap(-v.n, LongBits)) ELSE Double(-v.n)
      [] op = "!" -> Integer(Flag(AsDouble(v) = 0))
      [] OTHER -> None

ArithmeticCasts == {"Unresolved", "NoOp", "IntegralCast", "IntToFloat", "FloatToInt"}

RECURSIVE EvaluateConstant(_)
Fold(e) ==
    LET v == [i \in DOMAIN e.kids |-> EvaluateConstant(e.kids[i])]
    IN  CASE e.node = "int" -> Integer(e.number)
          [] e.node = "float" -> Double(e.number)
          [] e.node = "sizeof" -> IF e.number = 0 THEN None ELSE Integer(e.number)
          [] e.node \in {"unary", "binary"} /\ \E i \in DOMAIN v : v[i] = None -> None
          [] e.node = "unary" -> FoldUnary(e.sub, v[1])
          [] e.node = "binary" -> FoldBinary(e.sub, v[1], v[2])
          [] e.node = "cast" /\ e.sub \in ArithmeticCasts -> v[1]
          [] OTHER -> None

(* With a bug in it: a cast takes effect once Sema has named its kind. *)
EvaluateConstantLater(e) ==
    IF e.sub = "Unresolved" THEN Fold(e) ELSE FitTo(Fold(e), e.type)

EvaluateConstant(e) == FitTo(Fold(e), e.type)

EvaluateInteger(e) ==
    LET v == EvaluateConstant(e) IN IF v.kind = "int" THEN v ELSE None
=============================================================================
