------------------------------- MODULE Types -------------------------------
(***************************************************************************)
(* lib/AST/Type.cpp: the TypeContext that owns every type of a translation *)
(* unit and makes each only once.  An address is the place of a type in    *)
(* the order of creation.                                                  *)
(***************************************************************************)
EXTENDS Naturals, Sequences

CONSTANTS
    Lengths,     \* array lengths asked for, 0 for "[]"
    MaxParams,   \* bound on the parameters of a function type
    MaxTypes,    \* bound on the types made
    SizeModulus  \* number of values of a size (2^64 in the code)

ASSUME TypesAssumption ==
    /\ Lengths \subseteq Nat
    /\ MaxParams \in Nat
    /\ MaxTypes \in Nat
    /\ SizeModulus \in Nat /\ SizeModulus > 8

VARIABLES
    storage,     \* storage_: the types, by address
    pointers,    \* pointers_: pointee -> pointer
    arrays,      \* arrays_: <<element, length>> -> array
    functions    \* functions_: <<return type, parameters, variadic>> -> function

typeVars == <<storage, pointers, arrays, functions>>

NoType == 0
Address == 1..Len(storage)
Type(kind, inner, length, params, variadic) ==
    [kind |-> kind, inner |-> inner, length |-> length, params |-> params,
     variadic |-> variadic]
BaseKinds == <<"void", "char", "int", "float">>
Base(kind) == Type(kind, NoType, 0, <<>>, FALSE)
Pointer(t) == Type("pointer", t, 0, <<>>, FALSE)
Array(t, n) == Type("array", t, n, <<>>, FALSE)
Function(t, params, variadic) == Type("function", t, 0, params, variadic)

(* A definition with a bug in it: the place after the new type is entered. *)
EnteredPast(map, key, a) ==
    [k \in DOMAIN map \cup {key} |-> IF k = key THEN a + 1 ELSE map[k]]

Entered(map, key, a) == [k \in DOMAIN map \cup {key} |-> IF k = key THEN a ELSE map[k]]

TypesInit ==
    /\ storage = [i \in 1..4 |-> Base(BaseKinds[i])]
    /\ pointers = <<>> /\ arrays = <<>> /\ functions = <<>>

(* Definitions with a bug in them: every pointer is new; an array is found *)
(* by its element only.                                                    *)
PointerToNew(t) ==
    /\ storage' = Append(storage, Pointer(t))
    /\ pointers' = Entered(pointers, t, Len(storage) + 1)
    /\ UNCHANGED <<arrays, functions>>

ArrayOfAnyLength(t, n) ==
    IF \E k \in DOMAIN arrays : k[1] = t
    THEN /\ arrays' = Entered(arrays, <<t, n>>, arrays[CHOOSE k \in DOMAIN arrays : k[1] = t])
         /\ UNCHANGED <<storage, pointers, functions>>
    ELSE /\ storage' = Append(storage, Array(t, n))
         /\ arrays' = Entered(arrays, <<t, n>>, Len(storage) + 1)
         /\ UNCHANGED <<pointers, functions>>

(* try_emplace: a type that is not in its map yet is made and entered. *)
PointerTo(t) ==
    IF t \in DOMAIN pointers THEN UNCHANGED typeVars
    ELSE /\ storage' = Append(storage, Pointer(t))
         /\ pointers' = Entered(pointers, t, Len(storage) + 1)
         /\ UNCHANGED <<arrays, functions>>

ArrayOf(t, n) ==
    IF <<t, n>> \in DOMAIN arrays THEN UNCHANGED typeVars
    ELSE /\ storage' = Append(storage, Array(t, n))
         /\ arrays' = Entered(arrays, <<t, n>>, Len(storage) + 1)
         /\ UNCHANGED <<pointers, functions>>

FunctionOf(t, params, variadic) ==
    IF <<t, params, variadic>> \in DOMAIN functions THEN UNCHANGED typeVars
    ELSE /\ storage' = Append(storage, Function(t, params, variadic))
         /\ functions' = Entered(functions, <<t, params, variadic>>, Len(storage) + 1)
         /\ UNCHANGED <<pointers, arrays>>

ParamLists == UNION {[1..k -> Address] : k \in 0..MaxParams}

TypesNext ==
    /\ Len(storage) < MaxTypes
    /\ \E t \in Address :
          \/ PointerTo(t)
          \/ \E n \in Lengths : ArrayOf(t, n)
          \/ \E params \in ParamLists, variadic \in BOOLEAN :
                FunctionOf(t, params, variadic)

TypesSpec == TypesInit /\ [][TypesNext]_typeVars

-----------------------------------------------------------------------------
(* Sizes *)

None == [has |-> FALSE]
Some(n) == [has |-> TRUE, n |-> n]

(* A definition with a bug in it: the unknown length is a length. *)
SizeOfIncomplete(t, element) ==
    CASE t.kind = "char" -> Some(1)
      [] t.kind \in {"int", "float"} -> Some(4)
      [] t.kind = "pointer" -> Some(8)
      [] t.kind = "array" ->
           IF element.has THEN Some((element.n * t.length) % SizeModulus) ELSE None
      [] OTHER -> None

(* The size of t, whose elements have the size element. *)
SizeOf(t, element) ==
    CASE t.kind = "char" -> Some(1)
      [] t.kind \in {"int", "float"} -> Some(4)
      [] t.kind = "pointer" -> Some(8)
      [] t.kind = "array" ->
           IF ~element.has \/ t.length = 0 THEN None
           ELSE Some((element.n * t.length) % SizeModulus)
      [] OTHER -> None

Size[a \in Address] ==
    SizeOf(storage[a], IF storage[a].kind = "array" THEN Size[storage[a].inner] ELSE None)

-----------------------------------------------------------------------------
TypeRecord ==
    [kind : {"void", "char", "int", "float", "pointer", "array", "function"},
     inner : Nat, length : Nat, params : Seq(Nat), variadic : BOOLEAN]

(* Every type is built from types made before it, and the maps lead to     *)
(* types that were made.                                                   *)
TypesOK ==
    /\ storage \in Seq(TypeRecord)
    /\ Len(storage) >= 4
    /\ \A a \in Address :
          /\ storage[a].inner < a
          /\ \A i \in DOMAIN storage[a].params : storage[a].params[i] < a
    /\ \A t \in DOMAIN pointers : pointers[t] \in Address
    /\ \A k \in DOMAIN arrays : arrays[k] \in Address
    /\ \A k \in DOMAIN functions : functions[k] \in Address

(* "Because each distinct type exists once, two types are equal exactly    *)
(* when their pointers are equal" (Type.h:3-5), which every comparison of  *)
(* types in the parser, Sema and code generation relies on.                *)
Unique == \A a, b \in Address : storage[a] = storage[b] => a = b

(* What a map answers for a key is the type with that key, for ever: the   *)
(* addresses handed out stay good.                                         *)
Answers ==
    /\ \A t \in DOMAIN pointers : storage[pointers[t]] = Pointer(t)
    /\ \A k \in DOMAIN arrays : storage[arrays[k]] = Array(k[1], k[2])
    /\ \A k \in DOMAIN functions : storage[functions[k]] = Function(k[1], k[2], k[3])

(* The product of the array lengths in a type times the size of what it    *)
(* ends in, without a width.                                               *)
BytesOf(t, element) ==
    CASE t.kind = "array" -> t.length * element
      [] t.kind = "pointer" -> 8
      [] t.kind \in {"int", "float"} -> 4
      [] t.kind = "char" -> 1
      [] OTHER -> 0

Bytes[a \in Address] ==
    BytesOf(storage[a], IF storage[a].kind = "array" THEN Bytes[storage[a].inner] ELSE 0)

(* size() is the number of bytes, and none for what has no size, unless it *)
(* does not fit: then it is what remains of it modulo 2^64, even 0.        *)
SizesWrap ==
    \A a \in Address :
        Size[a] = IF Bytes[a] = 0 THEN None ELSE Some(Bytes[a] % SizeModulus)
=============================================================================
