------------------------------- MODULE Typing -------------------------------
(***************************************************************************)
(* lib/Sema/Sema.cpp on expressions: types, conversions and constants,     *)
(* checked bottom-up.  A step is the check of one node whose operands have *)
(* been checked; the expressions checked so far are on a stack.            *)
(***************************************************************************)
EXTENDS ConstEval

CONSTANTS
    Names,        \* what names are declared as: type, const, global
    CastTypes,    \* types named in casts
    SizedTypes,   \* types named in sizeof
    Literals,     \* values of integer literals
    Halves,       \* values of floating literals, in halves
    MaxNodes,     \* bound on the nodes of the source text
    MaxLiteral,   \* the same when there are no names in it
    MaxArgs       \* bound on the arguments of a call

VARIABLES
    stack,        \* the source tree and the checked one of each expression
    reported      \* diags_ is not empty

typing == <<stack, reported>>

(* fail: reported, and no type; or no type without a word.                 *)
Failed == Expr("failed", "", <<>>, NoType, FALSE, 0)
Silent == Expr("silent", "", <<>>, NoType, FALSE, 0)
Typed(e) == e.type # NoType
Untyped(es) ==
    IF \E i \in DOMAIN es : es[i] = Failed THEN Failed ELSE Silent

(* Type::size, at half of LP64's sizes; 0 for none. *)
RECURSIVE Size(_)
Size(t) ==
    CASE t = CharType -> 1 [] t \in {IntType, FloatType} -> 2 [] IsPointer(t) -> 4
      [] Is(t, "array") -> t[3] * Size(t[2])
      [] OTHER -> 0

-----------------------------------------------------------------------------
Cast(kind, e, to) == Expr("cast", kind, <<e>>, to, FALSE, 0)

(* checkValue: arrays decay, and functions are no values. *)
CheckValue(e) ==
    CASE ~Typed(e) -> e
      [] Is(e.type, "array") -> Cast("ArrayToPointer", e, PointerTo(e.type[2]))
      [] Is(e.type, "function") -> Failed
      [] OTHER -> e

ArithmeticCast(from, to) ==
    CASE from = to -> "NoOp"
      [] from = FloatType -> "FloatToInt"
      [] to = FloatType -> "IntToFloat"
      [] OTHER -> "IntegralCast"

ToArithmetic(e, to) ==
    IF e.type = to THEN e ELSE Cast(ArithmeticCast(e.type, to), e, to)
Promote(e) == IF e.type = CharType THEN ToArithmetic(e, IntType) ELSE e

(* With a bug in it: only the left operand is converted. *)
UsualArithmeticLeft(l, r) ==
    <<ToArithmetic(l, IF FloatType \in {l.type, r.type} THEN FloatType ELSE IntType), r>>

UsualArithmetic(l, r) ==
    LET common == IF FloatType \in {l.type, r.type} THEN FloatType ELSE IntType
    IN  <<ToArithmetic(l, common), ToArithmetic(r, common)>>

IsNullConstant(e) == IsInteger(e.type) /\ EvaluateInteger(e) = Integer(0)

(* With a bug in it: what cannot be converted gets no type, but no error. *)
ConvertSilent(e, to) ==
    CASE e.type = to -> e
      [] IsArithmetic(e.type) /\ IsArithmetic(to) -> ToArithmetic(e, to)
      [] IsPointer(to) /\ IsNullConstant(e) -> Cast("NullToPointer", e, to)
      [] OTHER -> Silent

(* convert: as if by assignment. *)
Convert(e, to) ==
    CASE e.type = to -> e
      [] IsArithmetic(e.type) /\ IsArithmetic(to) -> ToArithmetic(e, to)
      [] IsPointer(to) /\ IsPointer(e.type) /\ VoidType \in {e.type[2], to[2]} ->
           Cast("PointerCast", e, to)
      [] IsPointer(to) /\ IsNullConstant(e) -> Cast("NullToPointer", e, to)
      [] OTHER -> Failed

-----------------------------------------------------------------------------
Literal(n) == Expr("int", "", <<>>, IntType, FALSE, n)

CheckSizeOf(size) == IF size = 0 THEN Failed ELSE Literal(size)

CheckDeclRef(name) ==
    Expr("ref", name, <<>>, Names[name].type, ~Is(Names[name].type, "function"), 0)

CheckUnary(op, operand) ==
    LET v == IF op = "&" THEN operand ELSE CheckValue(operand)
        Gives(e, type, lvalue) == Expr("unary", op, <<e>>, type, lvalue, 0)
    IN  CASE ~Typed(v) -> Untyped(<<v>>)
          [] op = "&" /\ v.lvalue -> Gives(v, PointerTo(v.type), FALSE)
          [] op \in {"+", "-"} /\ IsArithmetic(v.type) ->
               Gives(Promote(v), Promote(v).type, FALSE)
          [] op = "!" /\ IsScalar(v.type) -> Gives(v, IntType, FALSE)
          [] op = "*" /\ IsPointer(v.type) /\ v.type[2] # VoidType -> Gives(v, v.type[2], TRUE)
          [] OTHER -> Failed

(* Pointers are moved by elements, so theirs must have a size. *)
Movable(e) == IsPointer(e.type) /\ Size(e.type[2]) # 0

CheckBinary(op, left, right) ==
    LET l == CheckValue(left)
        r == CheckValue(right)
        lt == l.type
        rt == r.type
        Gives(es, type) == Expr("binary", op, es, type, FALSE, 0)
        common == UsualArithmetic(l, r)
        arithmetic == IsArithmetic(lt) /\ IsArithmetic(rt)
        pointers == IsPointer(lt) /\ IsPointer(rt)
    IN  CASE ~Typed(l) \/ ~Typed(r) -> Untyped(<<l, r>>)
          [] op \in {"&&", "||"} /\ IsScalar(lt) /\ IsScalar(rt) -> Gives(<<l, r>>, IntType)
          [] op \in {"+", "-", "*", "/"} /\ arithmetic -> Gives(common, common[1].type)
          [] op = "%" /\ IsInteger(lt) /\ IsInteger(rt) -> Gives(common, IntType)
          [] op = "+" /\ Movable(r) /\ IsInteger(lt) -> Gives(<<r, Promote(l)>>, rt)
          [] op \in {"+", "-"} /\ Movable(l) /\ IsInteger(rt) -> Gives(<<l, Promote(r)>>, lt)
          [] op = "-" /\ Movable(l) /\ lt = rt -> Gives(<<l, r>>, IntType)
          [] op \in Comparisons /\ arithmetic -> Gives(common, IntType)
          [] op \in Comparisons /\ pointers /\ lt = rt -> Gives(<<l, r>>, IntType)
          [] op \in Comparisons /\ pointers /\ VoidType \in {lt[2], rt[2]} ->
               Gives(<<l, Cast("PointerCast", r, lt)>>, IntType)
          [] op \in Comparisons /\ IsPointer(lt) /\ IsNullConstant(r) ->
               Gives(<<l, Cast("NullToPointer", r, lt)>>, IntType)
          [] op \in Comparisons /\ IsPointer(rt) /\ IsNullConstant(l) ->
               Gives(<<Cast("NullToPointer", l, rt), r>>, IntType)
          [] OTHER -> Failed

CheckAssign(target, right) ==
    LET v == CheckValue(right)
        value == Convert(v, target.type)
    IN  CASE ~Typed(target) \/ ~Typed(v) -> Untyped(<<target, v>>)
          [] ~target.lvalue \/ Is(target.type, "array") -> Failed
          [] target.node = "ref" /\ Names[target.sub].const -> Failed
          [] ~Typed(value) -> value
          [] OTHER -> Expr("assign", "", <<target, value>>, target.type, FALSE, 0)

(* The arguments of a call become the parameters' types; those past the    *)
(* "..." are promoted.                                                     *)
CheckCall(callee, given) ==
    LET fn == callee.type
        values == [i \in DOMAIN given |-> CheckValue(given[i])]
        Argument(i) ==
            CASE ~Typed(values[i]) -> values[i]
              [] i <= Len(fn[3]) -> Convert(values[i], fn[3][i])
              [] values[i].type = VoidType -> Failed
              [] OTHER -> Promote(values[i])
        args == [i \in DOMAIN given |-> Argument(i)]
    IN  CASE ~Typed(callee) -> Untyped(<<callee>> \o values)
          [] ~Is(fn, "function") -> Failed
          [] Len(given) < Len(fn[3]) \/ (Len(given) > Len(fn[3]) /\ ~fn[4]) -> Failed
          [] \E i \in DOMAIN args : ~Typed(args[i]) -> Untyped(args)
          [] OTHER -> Expr("call", "", <<callee>> \o args, fn[2], FALSE, 0)

CheckCast(to, operand) ==
    LET v == CheckValue(operand)
    IN  CASE ~Typed(v) -> Untyped(<<v>>)
          [] to = VoidType -> Cast("ToVoid", v, to)
          [] IsArithmetic(v.type) /\ IsArithmetic(to) ->
               Cast(ArithmeticCast(v.type, to), v, to)
          [] IsPointer(v.type) /\ IsPointer(to) -> Cast("PointerCast", v, to)
          [] IsInteger(v.type) /\ IsPointer(to) -> Cast("IntToPointer", v, to)
          [] IsPointer(v.type) /\ IsInteger(to) -> Cast("PointerToInt", v, to)
          [] OTHER -> Failed

IsGlobalRef(e) == e.node = "ref" /\ Names[e.sub].global

(* With a bug in it: the address of any variable will do. *)
RECURSIVE IsConstantInitAny(_)
IsConstantInitAny(e) ==
    \/ EvaluateConstant(e) # None
    \/ e.node = "cast" /\ e.sub = "NullToPointer"
    \/ e.node = "cast" /\ e.sub = "PointerCast" /\ IsConstantInitAny(e.kids[1])
    \/ e.node = "cast" /\ e.sub = "ArrayToPointer" /\ e.kids[1].node \in {"string", "ref"}
    \/ e.node = "unary" /\ e.sub = "&"

RECURSIVE IsConstantInit(_)
IsConstantInit(e) ==
    \/ EvaluateConstant(e) # None
    \/ e.node = "cast" /\ e.sub = "NullToPointer"
    \/ e.node = "cast" /\ e.sub = "PointerCast" /\ IsConstantInit(e.kids[1])
    \/ e.node = "cast" /\ e.sub = "ArrayToPointer"
          /\ (e.kids[1].node = "string" \/ IsGlobalRef(e.kids[1]))
    \/ e.node = "unary" /\ e.sub = "&" /\ IsGlobalRef(e.kids[1])

-----------------------------------------------------------------------------
(* Source trees have the types of their casts only. *)
Source(node, sub, kids, type, number) == Expr(node, sub, kids, type, FALSE, number)

RECURSIVE Nodes(_), Named(_)
Nodes(e) ==
    CASE Len(e.kids) = 0 -> 1
      [] Len(e.kids) = 1 -> 1 + Nodes(e.kids[1])
      [] Len(e.kids) = 2 -> 1 + Nodes(e.kids[1]) + Nodes(e.kids[2])
      [] OTHER -> 1 + Nodes(e.kids[1]) + Nodes(e.kids[2]) + Nodes(e.kids[3])
Named(e) ==
    e.node \in {"ref", "string"} \/ \E i \in DOMAIN e.kids : Named(e.kids[i])

(* The nodes of what is on the stack and those that will join it.          *)
Joined ==
    LET size[i \in 0..Len(stack)] ==
            IF i = 0 THEN -1 ELSE size[i - 1] + 1 + Nodes(stack[i].source)
    IN  size[Len(stack)]

(* Joining keeps the bounds.  After an error only what is on the stack is checked. *)
Room(more) ==
    Joined + more <= IF \E i \in DOMAIN stack : Named(stack[i].source)
                     THEN MaxNodes ELSE MaxLiteral
RoomToPush == ~reported /\ Room(2)
RoomToPushName == RoomToPush /\ Joined + 2 <= MaxNodes

Rest(n) == SubSeq(stack, 1, Len(stack) - n)
Operand(n, i) == stack[Len(stack) - n + i]
Checks(n, source, checked) ==
    /\ stack' = Append(Rest(n), [source |-> source, checked |-> checked])
    /\ reported' = (reported \/ checked = Failed)

PushLiteral ==
    /\ RoomToPush
    /\ \/ \E n \in Literals : Checks(0, Source("int", "", <<>>, NoType, n), Literal(n))
       \/ \E h \in Halves : Checks(0, Source("float", "", <<>>, NoType, h),
                                   Expr("float", "", <<>>, FloatType, FALSE, h))

PushString ==
    /\ RoomToPushName
    /\ Checks(0, Source("string", "", <<>>, NoType, 0),
              Expr("string", "", <<>>, ArrayOf(CharType, 2), TRUE, 0))

PushName ==
    /\ RoomToPushName
    /\ \E name \in DOMAIN Names :
          Checks(0, Source("ref", name, <<>>, NoType, 0), CheckDeclRef(name))

PushSizeOf ==
    /\ RoomToPush
    /\ \E t \in SizedTypes :
          Checks(0, Source("sizeof", "", <<>>, NoType, Size(t)), CheckSizeOf(Size(t)))

UnaryStep ==
    /\ Len(stack) >= 1
    /\ Room(1)
    /\ LET a == Operand(1, 1)
       IN  \/ \E op \in {"+", "-", "!", "*", "&"} :
                 Checks(1, Source("unary", op, <<a.source>>, NoType, 0),
                        CheckUnary(op, a.checked))
           \/ \E t \in CastTypes :
                 Checks(1, Source("cast", "Unresolved", <<a.source>>, t, 0),
                        CheckCast(t, a.checked))
           \/ Checks(1, Source("sizeofexpr", "", <<a.source>>, NoType, 0),
                     IF Typed(a.checked) THEN CheckSizeOf(Size(a.checked.type))
                     ELSE Untyped(<<a.checked>>))

Operators == {"*", "/", "%", "+", "-", "&&", "||"} \cup Comparisons

(* Floats divide by other numbers than 0 here. *)
IsZero(e) == EvaluateConstant(e) # None /\ AsDouble(EvaluateConstant(e)) = 0
DividesByZero(op, left, right) ==
    /\ op = "/" /\ FloatType \in {left.checked.type, right.checked.type}
    /\ IsZero(right.checked) \/ IsZero(right.source)

BinaryStep ==
    /\ Len(stack) >= 2
    /\ LET a == Operand(2, 1)  b == Operand(2, 2)
       IN  \/ \E op \in Operators :
                 /\ ~DividesByZero(op, a, b)
                 /\ Checks(2, Source("binary", op, <<a.source, b.source>>, NoType, 0),
                           CheckBinary(op, a.checked, b.checked))
           \/ Checks(2, Source("index", "", <<a.source, b.source>>, NoType, 0),
                     CheckUnary("*", CheckBinary("+", a.checked, b.checked)))
           \/ Checks(2, Source("assign", "", <<a.source, b.source>>, NoType, 0),
                     CheckAssign(a.checked, b.checked))

CallStep ==
    \E n \in 0..MaxArgs :
        /\ Len(stack) > n
        /\ n = 0 => Room(1)
        /\ LET part(f) == [i \in 1..n |-> f[i + 1]]
               source == [i \in 1..n + 1 |-> Operand(n + 1, i).source]
               checked == [i \in 1..n + 1 |-> Operand(n + 1, i).checked]
           IN  Checks(n + 1, Source("call", "", source, NoType, 0),
                      CheckCall(checked[1], part(checked)))

Init == stack = <<>> /\ reported = FALSE
Next == PushLiteral \/ PushString \/ PushName \/ PushSizeOf \/ UnaryStep \/ BinaryStep \/ CallStep
Spec == Init /\ [][Next]_typing

-----------------------------------------------------------------------------
(* "an Expr whose type is still nullptr after checking had an error, which *)
(* has already been reported" (Sema.cpp:3-6): code generation, which runs  *)
(* only when nothing was, meets types everywhere.                          *)
TypesKnown == ~reported => \A i \in DOMAIN stack : Typed(stack[i].checked)
=============================================================================
