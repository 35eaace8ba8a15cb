----------------------------- MODULE MCLowering -----------------------------
(* Names of every type that Sema tells apart. *)
EXTENDS Lowering

Name(type, const, global) == [type |-> type, const |-> const, global |-> global]
Declared ==
    [c |-> Name(CharType, FALSE, TRUE),
     i |-> Name(IntType, FALSE, FALSE),
     k |-> Name(IntType, TRUE, TRUE),
     x |-> Name(FloatType, FALSE, FALSE),
     p |-> Name(PointerTo(IntType), FALSE, TRUE),
     v |-> Name(PointerTo(VoidType), FALSE, FALSE),
     a |-> Name(ArrayOf(IntType, 2), FALSE, TRUE),
     m |-> Name(ArrayOf(ArrayOf(CharType, 2), 2), FALSE, FALSE),
     w |-> Name(PointerTo(ArrayOf(IntType, 0)), FALSE, FALSE),
     f |-> Name(Function(VoidType, <<FloatType>>, FALSE), FALSE, FALSE),
     g |-> Name(Function(IntType, <<PointerTo(CharType)>>, TRUE), FALSE, FALSE)]
Casts == {VoidType, CharType, IntType, FloatType, PointerTo(VoidType), PointerTo(IntType)}
SizeOfs == {VoidType, PointerTo(IntType)}
Numbers == {0, 7}
Floats == {3, 5, 256}
Least == -128
=============================================================================
