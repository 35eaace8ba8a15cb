---------------------------- MODULE TypesProofs ----------------------------
(***************************************************************************)
(* Theorems about Types, for all lengths and any number of types.          *)
(***************************************************************************)
EXTENDS Types, Integers, TLAPS

(* Each type made is the answer to its own key. *)
Filed ==
    /\ \A a \in Address : storage[a].kind = "pointer" =>
          /\ storage[a].inner \in DOMAIN pointers
          /\ pointers[storage[a].inner] = a
    /\ \A a \in Address : storage[a].kind = "array" =>
          /\ <<storage[a].inner, storage[a].length>> \in DOMAIN arrays
          /\ arrays[<<storage[a].inner, storage[a].length>>] = a
    /\ \A a \in Address : storage[a].kind = "function" =>
          LET key == <<storage[a].inner, storage[a].params, storage[a].variadic>>
          IN  key \in DOMAIN functions /\ functions[key] = a

(* Only the context's constructor makes the other types. *)
Bases ==
    /\ \A a \in 1..4 : storage[a] = Base(BaseKinds[a])
    /\ \A a \in Address : a > 4 => storage[a].kind \in {"pointer", "array", "function"}

TypesInv == TypesOK /\ Answers /\ Filed /\ Bases

-----------------------------------------------------------------------------
LEMMA AppendFacts ==
    ASSUME NEW s \in Seq(TypeRecord), NEW r \in TypeRecord
    PROVE  /\ Append(s, r) \in Seq(TypeRecord)
           /\ Len(s) \in Nat
           /\ Len(Append(s, r)) = Len(s) + 1
           /\ Append(s, r)[Len(s) + 1] = r
           /\ \A a \in 1..Len(s) : Append(s, r)[a] = s[a]
OBVIOUS

(* The constructor of TypeContext establishes the invariant. *)
LEMMA InitInv == TypesInit => TypesInv
<1> SUFFICES ASSUME TypesInit PROVE TypesInv
    OBVIOUS
<1>1. \A i \in 1..4 : Base(BaseKinds[i]) \in TypeRecord
    BY DEF Base, Type, TypeRecord, BaseKinds, NoType
<1>2. storage \in Seq(TypeRecord) /\ Len(storage) = 4
    BY <1>1 DEF TypesInit
<1>3. \A a \in 1..4 : storage[a] = Base(BaseKinds[a])
    BY DEF TypesInit
<1>4. \A a \in 1..4 : /\ storage[a].inner = 0 /\ storage[a].params = <<>>
                      /\ storage[a].kind \in {"void", "char", "int", "float"}
    BY <1>3 DEF Base, Type, BaseKinds, NoType
<1>5. TypesOK
    BY <1>2, <1>4 DEF TypesOK, Address, TypesInit
<1>6. Answers
    BY DEF Answers, TypesInit
<1>7. Filed
    BY <1>2, <1>4 DEF Filed, Address
<1>8. Bases
    BY <1>2, <1>3 DEF Bases, Address
<1> QED  BY <1>5, <1>6, <1>7, <1>8 DEF TypesInv

(* A new type is above all it is made of, and nothing else changes. *)
LEMMA Grows ==
    ASSUME TypesInv, NEW r \in TypeRecord, storage' = Append(storage, r),
           r.inner \in Address, \A i \in DOMAIN r.params : r.params[i] \in Address
    PROVE  /\ storage' \in Seq(TypeRecord) /\ Len(storage') = Len(storage) + 1
           /\ Len(storage) \in Nat /\ Len(storage) >= 4
           /\ Address' = Address \cup {Len(storage) + 1}
           /\ \A a \in Address : storage'[a] = storage[a] /\ a # Len(storage) + 1
           /\ storage'[Len(storage) + 1] = r
           /\ \A a \in Address' :
                 /\ storage'[a].inner < a
                 /\ \A i \in DOMAIN storage'[a].params : storage'[a].params[i] < a
<1>1. storage \in Seq(TypeRecord) /\ Len(storage) >= 4
    BY DEF TypesInv, TypesOK
<1>2. /\ storage' \in Seq(TypeRecord) /\ Len(storage') = Len(storage) + 1
      /\ Len(storage) \in Nat
      /\ storage'[Len(storage) + 1] = r
      /\ \A a \in 1..Len(storage) : storage'[a] = storage[a]
    BY <1>1, AppendFacts
<1>3. Address' = Address \cup {Len(storage) + 1}
    BY <1>2 DEF Address
<1>4. \A a \in Address : storage'[a] = storage[a] /\ a # Len(storage) + 1
    BY <1>2 DEF Address
<1>5. ASSUME NEW a \in Address'
      PROVE  /\ storage'[a].inner < a
             /\ \A i \in DOMAIN storage'[a].params : storage'[a].params[i] < a
    <2>1. CASE a \in Address
        BY <2>1, <1>4 DEF TypesInv, TypesOK
    <2>2. CASE a = Len(storage) + 1
        BY <2>2, <1>2 DEF Address
    <2> QED  BY <2>1, <2>2, <1>3
<1> QED  BY <1>1, <1>2, <1>3, <1>4, <1>5

LEMMA PointerStep ==
    ASSUME TypesInv, TypesAssumption, NEW t \in Address, PointerTo(t)
    PROVE  TypesInv'
<1>1. CASE t \in DOMAIN pointers
    <2>1. UNCHANGED typeVars
        BY <1>1 DEF PointerTo
    <2> QED  BY <2>1 DEF typeVars, TypesInv, TypesOK, Answers, Filed, Bases, Address
<1>2. CASE t \notin DOMAIN pointers
    <2> DEFINE n == Len(storage) + 1
    <2>1. /\ storage' = Append(storage, Pointer(t))
          /\ pointers' = Entered(pointers, t, n)
          /\ arrays' = arrays /\ functions' = functions
        BY <1>2 DEF PointerTo
    <2>2. t \in Nat
        BY DEF Address
    <2>3. /\ Pointer(t) \in TypeRecord /\ Pointer(t).kind = "pointer"
          /\ Pointer(t).inner = t /\ Pointer(t).params = <<>>
        BY <2>2 DEF Pointer, Type, TypeRecord
    <2>10. /\ Pointer(t).inner \in Address
           /\ \A i \in DOMAIN Pointer(t).params : Pointer(t).params[i] \in Address
        BY <2>3
    <2>4. /\ storage' \in Seq(TypeRecord) /\ Len(storage') = n
          /\ Len(storage) \in Nat /\ Len(storage) >= 4
          /\ Address' = Address \cup {n}
          /\ \A a \in Address : storage'[a] = storage[a] /\ a # n
          /\ storage'[n] = Pointer(t)
          /\ \A a \in Address' :
                /\ storage'[a].inner < a
                /\ \A i \in DOMAIN storage'[a].params : storage'[a].params[i] < a
        BY <2>1, <2>3, <2>10, Grows
    <2>5. /\ DOMAIN pointers' = DOMAIN pointers \cup {t}
          /\ pointers'[t] = n
          /\ \A k \in DOMAIN pointers : k # t => pointers'[k] = pointers[k]
        BY <2>1 DEF Entered
    <2>11. n \in Nat /\ n > 4
        BY <2>4
    <2> HIDE DEF n
    <2>12. ASSUME NEW k \in DOMAIN pointers'
          PROVE  pointers'[k] \in Address' /\ storage'[pointers'[k]] = Pointer(k)
        <3>1. CASE k = t
            BY <3>1, <2>4, <2>5
        <3>2. CASE k # t
            <4>1. k \in DOMAIN pointers /\ pointers'[k] = pointers[k]
                BY <3>2, <2>5
            <4>2. pointers[k] \in Address /\ storage[pointers[k]] = Pointer(k)
                BY <4>1 DEF TypesInv, TypesOK, Answers
            <4> QED  BY <4>1, <4>2, <2>4
        <3> QED  BY <3>1, <3>2
    <2>6. TypesOK'
        <3>1. \A k \in DOMAIN arrays' : arrays'[k] \in Address'
            BY <2>1, <2>4 DEF TypesInv, TypesOK
        <3>2. \A k \in DOMAIN functions' : functions'[k] \in Address'
            BY <2>1, <2>4 DEF TypesInv, TypesOK
        <3>3. \A k \in DOMAIN pointers' : pointers'[k] \in Address'
            BY <2>12
        <3>4. storage' \in Seq(TypeRecord) /\ Len(storage') >= 4
            BY <2>4, <2>11
        <3>5. \A a \in Address' :
                 /\ storage'[a].inner < a
                 /\ \A i \in DOMAIN storage'[a].params : storage'[a].params[i] < a
            BY <2>4
        <3> QED  BY ONLY <3>1, <3>2, <3>3, <3>4, <3>5 DEF TypesOK
    <2>7. Answers'
        BY <2>1, <2>4, <2>12 DEF TypesInv, TypesOK, Answers
    <2>13. ASSUME NEW a \in Address', storage'[a].kind = "pointer"
          PROVE  LET key == storage'[a].inner
                 IN  key \in DOMAIN pointers' /\ pointers'[key] = a
        <3>1. CASE a = n
            BY <3>1, <2>3, <2>4, <2>5
        <3>2. CASE a # n
            <4>1. a \in Address /\ storage'[a] = storage[a]
                BY <3>2, <2>4
            <4> DEFINE k == storage[a].inner
            <4>2. k \in DOMAIN pointers /\ pointers[k] = a
                BY <4>1, <2>13 DEF TypesInv, Filed
            <4>3. k # t
                BY <4>2, <1>2
            <4> QED  BY <4>1, <4>2, <4>3, <2>5
        <3> QED  BY <3>1, <3>2
    <2>14. \A a \in Address' : storage'[a].kind # "pointer" => a \in Address /\ storage'[a] = storage[a]
        BY <2>3, <2>4
    <2>8. Filed'
        BY <2>1, <2>13, <2>14, ZenonT(60) DEF TypesInv, Filed
    <2>9. Bases'
        <3>1. \A a \in 1..4 : a \in Address
            BY <2>4 DEF Address
        <3> QED  BY <3>1, <2>3, <2>4 DEF TypesInv, Bases
    <2> QED  BY <2>6, <2>7, <2>8, <2>9 DEF TypesInv
<1> QED  BY <1>1, <1>2

LEMMA ArrayStep ==
    ASSUME TypesInv, TypesAssumption, NEW t \in Address, NEW l \in Lengths, ArrayOf(t, l)
    PROVE  TypesInv'
<1>1. CASE <<t, l>> \in DOMAIN arrays
    <2>1. UNCHANGED typeVars
        BY <1>1 DEF ArrayOf
    <2> QED  BY <2>1 DEF typeVars, TypesInv, TypesOK, Answers, Filed, Bases, Address
<1>2. CASE <<t, l>> \notin DOMAIN arrays
    <2> DEFINE n == Len(storage) + 1
    <2>1. /\ storage' = Append(storage, Array(t, l))
          /\ arrays' = Entered(arrays, <<t, l>>, n)
          /\ pointers' = pointers /\ functions' = functions
        BY <1>2 DEF ArrayOf
    <2>2. t \in Nat /\ l \in Nat
        BY DEF Address, TypesAssumption
    <2>3. /\ Array(t, l) \in TypeRecord /\ Array(t, l).kind = "array"
          /\ Array(t, l).inner = t /\ Array(t, l).length = l /\ Array(t, l).params = <<>>
        BY <2>2 DEF Array, Type, TypeRecord
    <2>10. /\ Array(t, l).inner \in Address
           /\ \A i \in DOMAIN Array(t, l).params : Array(t, l).params[i] \in Address
        BY <2>3
    <2>4. /\ storage' \in Seq(TypeRecord) /\ Len(storage') = n
          /\ Len(storage) \in Nat /\ Len(storage) >= 4
          /\ Address' = Address \cup {n}
          /\ \A a \in Address : storage'[a] = storage[a] /\ a # n
          /\ storage'[n] = Array(t, l)
          /\ \A a \in Address' :
                /\ storage'[a].inner < a
                /\ \A i \in DOMAIN storage'[a].params : storage'[a].params[i] < a
        BY <2>1, <2>3, <2>10, Grows
    <2>5. /\ DOMAIN arrays' = DOMAIN arrays \cup {<<t, l>>}
          /\ arrays'[<<t, l>>] = n
          /\ \A k \in DOMAIN arrays : k # <<t, l>> => arrays'[k] = arrays[k]
        BY <2>1 DEF Entered
    <2>11. n \in Nat /\ n > 4
        BY <2>4
    <2> HIDE DEF n
    <2>12. ASSUME NEW k \in DOMAIN arrays'
          PROVE  arrays'[k] \in Address' /\ storage'[arrays'[k]] = Array(k[1], k[2])
        <3>1. CASE k = <<t, l>>
            BY <3>1, <2>4, <2>5
        <3>2. CASE k # <<t, l>>
            <4>1. k \in DOMAIN arrays /\ arrays'[k] = arrays[k]
                BY <3>2, <2>5
            <4>2. arrays[k] \in Address /\ storage[arrays[k]] = Array(k[1], k[2])
                BY <4>1 DEF TypesInv, TypesOK, Answers
            <4> QED  BY <4>1, <4>2, <2>4
        <3> QED  BY <3>1, <3>2
    <2>6. TypesOK'
        <3>1. \A k \in DOMAIN pointers' : pointers'[k] \in Address'
            BY <2>1, <2>4 DEF TypesInv, TypesOK
        <3>2. \A k \in DOMAIN functions' : functions'[k] \in Address'
            BY <2>1, <2>4 DEF TypesInv, TypesOK
        <3>3. \A k \in DOMAIN arrays' : arrays'[k] \in Address'
            BY <2>12
        <3>4. storage' \in Seq(TypeRecord) /\ Len(storage') >= 4
            BY <2>4, <2>11
        <3>5. \A a \in Address' :
                 /\ storage'[a].inner < a
                 /\ \A i \in DOMAIN storage'[a].params : storage'[a].params[i] < a
            BY <2>4
        <3> QED  BY ONLY <3>1, <3>2, <3>3, <3>4, <3>5 DEF TypesOK
    <2>7. Answers'
        BY <2>1, <2>4, <2>12 DEF TypesInv, TypesOK, Answers
    <2>13. ASSUME NEW a \in Address', storage'[a].kind = "array"
          PROVE  LET key == <<storage'[a].inner, storage'[a].length>>
                 IN  key \in DOMAIN arrays' /\ arrays'[key] = a
        <3>1. CASE a = n
            BY <3>1, <2>3, <2>4, <2>5
        <3>2. CASE a # n
            <4>1. a \in Address /\ storage'[a] = storage[a]
                BY <3>2, <2>4
            <4> DEFINE k == <<storage[a].inner, storage[a].length>>
            <4>2. k \in DOMAIN arrays /\ arrays[k] = a
                BY <4>1, <2>13 DEF TypesInv, Filed
            <4>3. k # <<t, l>>
                BY <4>2, <1>2
            <4> QED  BY <4>1, <4>2, <4>3, <2>5
        <3> QED  BY <3>1, <3>2
    <2>14. \A a \in Address' : storage'[a].kind # "array" => a \in Address /\ storage'[a] = storage[a]
        BY <2>3, <2>4
    <2>8. Filed'
        BY <2>1, <2>13, <2>14, ZenonT(60) DEF TypesInv, Filed
    <2>9. Bases'
        <3>1. \A a \in 1..4 : a \in Address
            BY <2>4 DEF Address
        <3> QED  BY <3>1, <2>3, <2>4 DEF TypesInv, Bases
    <2> QED  BY <2>6, <2>7, <2>8, <2>9 DEF TypesInv
<1> QED  BY <1>1, <1>2

LEMMA FunctionStep ==
    ASSUME TypesInv, TypesAssumption, NEW t \in Address, NEW p \in ParamLists,
           NEW v \in BOOLEAN, FunctionOf(t, p, v)
    PROVE  TypesInv'
<1>1. CASE <<t, p, v>> \in DOMAIN functions
    <2>1. UNCHANGED typeVars
        BY <1>1 DEF FunctionOf
    <2> QED  BY <2>1 DEF typeVars, TypesInv, TypesOK, Answers, Filed, Bases, Address
<1>2. CASE <<t, p, v>> \notin DOMAIN functions
    <2> DEFINE n == Len(storage) + 1
    <2>1. /\ storage' = Append(storage, Function(t, p, v))
          /\ functions' = Entered(functions, <<t, p, v>>, n)
          /\ pointers' = pointers /\ arrays' = arrays
        BY <1>2 DEF FunctionOf
    <2>2. t \in Nat /\ p \in Seq(Nat) /\ \A i \in DOMAIN p : p[i] \in Address
        <3>1. PICK k \in 0..MaxParams : p \in [1..k -> Address]
            BY DEF ParamLists
        <3>2. Address \subseteq Nat /\ k \in Nat /\ DOMAIN p = 1..k
            BY <3>1 DEF Address, TypesAssumption
        <3>3. \A i \in 1..k : p[i] \in Address
            BY <3>1
        <3>4. p \in [1..k -> Nat]
            BY <3>1, <3>2
        <3>5. p \in Seq(Nat)
            BY <3>2, <3>4
        <3> QED  BY <3>2, <3>3, <3>5 DEF Address
    <2>3. /\ Function(t, p, v) \in TypeRecord /\ Function(t, p, v).kind = "function"
          /\ Function(t, p, v).inner = t /\ Function(t, p, v).params = p
          /\ Function(t, p, v).variadic = v
        BY <2>2 DEF Function, Type, TypeRecord
    <2>10. /\ Function(t, p, v).inner \in Address
           /\ \A i \in DOMAIN Function(t, p, v).params : Function(t, p, v).params[i] \in Address
        BY <2>2, <2>3
    <2>4. /\ storage' \in Seq(TypeRecord) /\ Len(storage') = n
          /\ Len(storage) \in Nat /\ Len(storage) >= 4
          /\ Address' = Address \cup {n}
          /\ \A a \in Address : storage'[a] = storage[a] /\ a # n
          /\ storage'[n] = Function(t, p, v)
          /\ \A a \in Address' :
                /\ storage'[a].inner < a
                /\ \A i \in DOMAIN storage'[a].params : storage'[a].params[i] < a
        BY <2>1, <2>3, <2>10, Grows
    <2>5. /\ DOMAIN functions' = DOMAIN functions \cup {<<t, p, v>>}
          /\ functions'[<<t, p, v>>] = n
          /\ \A k \in DOMAIN functions : k # <<t, p, v>> => functions'[k] = functions[k]
        BY <2>1 DEF Entered
    <2>11. n \in Nat /\ n > 4
        BY <2>4
    <2> HIDE DEF n
    <2>12. ASSUME NEW k \in DOMAIN functions'
          PROVE  functions'[k] \in Address' /\ storage'[functions'[k]] = Function(k[1], k[2], k[3])
        <3>1. CASE k = <<t, p, v>>
            BY <3>1, <2>4, <2>5
        <3>2. CASE k # <<t, p, v>>
            <4>1. k \in DOMAIN functions /\ functions'[k] = functions[k]
                BY <3>2, <2>5
            <4>2. functions[k] \in Address /\ storage[functions[k]] = Function(k[1], k[2], k[3])
                BY <4>1 DEF TypesInv, TypesOK, Answers
            <4> QED  BY <4>1, <4>2, <2>4
        <3> QED  BY <3>1, <3>2
    <2>6. TypesOK'
        <3>1. \A k \in DOMAIN pointers' : pointers'[k] \in Address'
            BY <2>1, <2>4 DEF TypesInv, TypesOK
        <3>2. \A k \in DOMAIN arrays' : arrays'[k] \in Address'
            BY <2>1, <2>4 DEF TypesInv, TypesOK
        <3>3. \A k \in DOMAIN functions' : functions'[k] \in Address'
            BY <2>12
        <3>4. storage' \in Seq(TypeRecord) /\ Len(storage') >= 4
            BY <2>4, <2>11
        <3>5. \A a \in Address' :
                 /\ storage'[a].inner < a
                 /\ \A i \in DOMAIN storage'[a].params : storage'[a].params[i] < a
            BY <2>4
        <3> QED  BY ONLY <3>1, <3>2, <3>3, <3>4, <3>5 DEF TypesOK
    <2>7. Answers'
        BY <2>1, <2>4, <2>12 DEF TypesInv, TypesOK, Answers
    <2>13. ASSUME NEW a \in Address', storage'[a].kind = "function"
          PROVE  LET key == <<storage'[a].inner, storage'[a].params, storage'[a].variadic>>
                 IN  key \in DOMAIN functions' /\ functions'[key] = a
        <3>1. CASE a = n
            BY <3>1, <2>3, <2>4, <2>5
        <3>2. CASE a # n
            <4>1. a \in Address /\ storage'[a] = storage[a]
                BY <3>2, <2>4
            <4> DEFINE k == <<storage[a].inner, storage[a].params, storage[a].variadic>>
            <4>2. k \in DOMAIN functions /\ functions[k] = a
                BY <4>1, <2>13 DEF TypesInv, Filed
            <4>3. k # <<t, p, v>>
                BY <4>2, <1>2
            <4> QED  BY <4>1, <4>2, <4>3, <2>5
        <3> QED  BY <3>1, <3>2
    <2>14. \A a \in Address' : storage'[a].kind # "function" => a \in Address /\ storage'[a] = storage[a]
        BY <2>3, <2>4
    <2>8. Filed'
        BY <2>1, <2>13, <2>14, ZenonT(60) DEF TypesInv, Filed
    <2>9. Bases'
        <3>1. \A a \in 1..4 : a \in Address
            BY <2>4 DEF Address
        <3> QED  BY <3>1, <2>3, <2>4 DEF TypesInv, Bases
    <2> QED  BY <2>6, <2>7, <2>8, <2>9 DEF TypesInv
<1> QED  BY <1>1, <1>2

(* Two types with the same content are of one kind, and the answer to the  *)
(* same key of that kind's map.                                            *)
LEMMA InvUnique == TypesInv => Unique
<1> SUFFICES ASSUME TypesInv, NEW a \in Address, NEW b \in Address, storage[a] = storage[b]
             PROVE  a = b
    BY DEF Unique
<1>1. \A c \in 1..4 : storage[c].kind = BaseKinds[c]
    BY DEF TypesInv, Bases, Base, Type
<1>2. CASE a <= 4 /\ b <= 4
    <2>1. a \in 1..4 /\ b \in 1..4
        BY <1>2 DEF Address
    <2>2. BaseKinds[a] = BaseKinds[b]
        BY <2>1, <1>1
    <2> QED  BY <2>1, <2>2 DEF BaseKinds
<1>3. CASE a > 4 /\ b > 4
    <2>1. storage[a].kind \in {"pointer", "array", "function"}
        BY <1>3 DEF TypesInv, Bases
    <2>2. CASE storage[a].kind = "pointer"
        BY <2>2 DEF TypesInv, Filed
    <2>3. CASE storage[a].kind = "array"
        <3> DEFINE ka == <<storage[a].inner, storage[a].length>>
                   kb == <<storage[b].inner, storage[b].length>>
        <3>1. arrays[ka] = a
            BY <2>3 DEF TypesInv, Filed
        <3>2. arrays[kb] = b
            BY <2>3 DEF TypesInv, Filed
        <3>3. ka = kb
            OBVIOUS
        <3> QED  BY ONLY <3>1, <3>2, <3>3
    <2>4. CASE storage[a].kind = "function"
        <3> DEFINE ka == <<storage[a].inner, storage[a].params, storage[a].variadic>>
                   kb == <<storage[b].inner, storage[b].params, storage[b].variadic>>
        <3>1. functions[ka] = a
            BY <2>4 DEF TypesInv, Filed
        <3>2. functions[kb] = b
            BY <2>4 DEF TypesInv, Filed
        <3>3. ka = kb
            OBVIOUS
        <3> QED  BY ONLY <3>1, <3>2, <3>3
    <2> QED  BY <2>1, <2>2, <2>3, <2>4
<1>4. ASSUME NEW c \in 1..4, NEW d \in Address, d > 4, storage[c] = storage[d]
      PROVE  FALSE
    <2>1. storage[c].kind \in {"void", "char", "int", "float"}
        BY <1>4, <1>1 DEF BaseKinds
    <2> QED  BY <2>1, <1>4 DEF TypesInv, Bases
<1>5. (a <= 4 => a \in 1..4) /\ (b <= 4 => b \in 1..4) /\ a \in Nat /\ b \in Nat
    BY DEF Address
<1> QED  BY <1>2, <1>3, <1>4, <1>5

-----------------------------------------------------------------------------
THEOREM TypesInvariance == TypesSpec => []TypesInv
<1>1. TypesInit => TypesInv
    BY InitInv
<1>2. TypesInv /\ [TypesNext]_typeVars => TypesInv'
    <2> SUFFICES ASSUME TypesInv, [TypesNext]_typeVars PROVE TypesInv'
        OBVIOUS
    <2>1. CASE UNCHANGED typeVars
        BY <2>1 DEF typeVars, TypesInv, TypesOK, Answers, Filed, Bases, Address
    <2>2. CASE TypesNext
        BY <2>2, PointerStep, ArrayStep, FunctionStep, TypesAssumption DEF TypesNext
    <2> QED  BY <2>1, <2>2
<1> QED  BY <1>1, <1>2, PTL DEF TypesSpec

(* The context's state is well formed. *)
THEOREM TypesWellFormed == TypesSpec => []TypesOK
BY TypesInvariance, PTL DEF TypesInv

(* Equal types have equal addresses. *)
THEOREM TypesUnique == TypesSpec => []Unique
BY TypesInvariance, InvUnique, PTL

(* The maps never answer with another type. *)
THEOREM AnswersRight == TypesSpec => []Answers
BY TypesInvariance, PTL DEF TypesInv

-----------------------------------------------------------------------------
(* Sizes.  The elements of an array were made before it, so the two        *)
(* recursive functions on the types made so far exist and are unique; that *)
(* and what they say of each other is carried from step to step.           *)

ElementSize(f, a) == IF storage[a].kind = "array" THEN f[storage[a].inner] ELSE None
ElementBytes(g, a) == IF storage[a].kind = "array" THEN g[storage[a].inner] ELSE 0
IsSize(f) == f = [a \in Address |-> SizeOf(storage[a], ElementSize(f, a))]
IsBytes(g) == g = [a \in Address |-> BytesOf(storage[a], ElementBytes(g, a))]
Wrapped(bytes) == IF bytes = 0 THEN None ELSE Some(bytes % SizeModulus)
Agree(f, g) == \A a \in Address : g[a] \in Nat /\ f[a] = Wrapped(g[a])

Elements == \A a \in Address : storage[a].kind = "array" => storage[a].inner \in 1..(a - 1)
SizesInv ==
    /\ Elements
    /\ \E f : IsSize(f)
    /\ \E g : IsBytes(g)
    /\ \A f, g : IsSize(f) /\ IsBytes(g) => Agree(f, g)

(* Adding a multiple of the modulus changes no remainder. *)
LEMMA ModUnique ==
    ASSUME NEW m \in Nat, m > 0, NEW p \in Int, NEW q \in Int, NEW r \in 0..(m - 1),
           NEW s \in 0..(m - 1), m * p + r = m * q + s
    PROVE  r = s
<1>1. CASE p = q
    BY <1>1
<1>2. CASE p < q
    <2>1. m * (q - p) >= m
        BY <1>2
    <2>2. m * (q - p) = m * q - m * p
        OBVIOUS
    <2> QED  BY <2>1, <2>2
<1>3. CASE q < p
    <2>1. m * (p - q) >= m
        BY <1>3
    <2>2. m * (p - q) = m * p - m * q
        OBVIOUS
    <2> QED  BY <2>1, <2>2
<1> QED  BY <1>1, <1>2, <1>3

LEMMA ModParts ==
    ASSUME NEW m \in Nat, m > 0, NEW x \in Nat
    PROVE  x % m \in 0..(m - 1) /\ x \div m \in Nat /\ x = m * (x \div m) + (x % m)
OBVIOUS

LEMMA ModProduct ==
    ASSUME NEW m \in Nat, m > 0, NEW x \in Nat, NEW n \in Nat
    PROVE  ((x % m) * n) % m = (x * n) % m
<1> DEFINE r == x % m
           q == x \div m
           k == (r * n) \div m
           e == (r * n) % m
<1>1. r \in 0..(m - 1) /\ q \in Nat /\ x = m * q + r
    BY ModParts
<1>2. r * n \in Nat /\ x * n \in Nat
    BY <1>1
<1>3. e \in 0..(m - 1) /\ k \in Nat /\ r * n = m * k + e
    BY <1>2, ModParts
<1>4. (x * n) % m \in 0..(m - 1) /\ (x * n) \div m \in Nat
      /\ x * n = m * ((x * n) \div m) + ((x * n) % m)
    BY <1>2, ModParts
<1> HIDE DEF r, q, k, e
<1>5. x * n = (m * q) * n + r * n
    BY <1>1
<1>6. (m * q) * n = m * (q * n)
    BY <1>1
<1>7. m * (q * n) + m * k = m * (q * n + k)
    BY <1>1, <1>3
<1>8. x * n = m * (q * n + k) + e
    BY <1>3, <1>5, <1>6, <1>7, <1>1
<1>9. q * n + k \in Int
    BY <1>1, <1>3
<1> DEFINE d == (x * n) \div m
           s == (x * n) % m
<1>10. s \in 0..(m - 1) /\ d \in Int /\ m * d + s = m * (q * n + k) + e
    BY <1>4, <1>8
<1> HIDE DEF d, s
<1>11. s = e
    BY <1>3, <1>9, <1>10, ModUnique
<1> QED  BY <1>11 DEF s, e, r

(* One step of size() is right if it was for the elements. *)
LEMMA SizeOfWraps ==
    ASSUME NEW t \in TypeRecord, NEW b \in Nat
    PROVE  /\ BytesOf(t, b) \in Nat
           /\ SizeOf(t, Wrapped(b)) = Wrapped(BytesOf(t, b))
<1> USE TypesAssumption
<1>1. CASE t.kind = "array"
    <2>1. t.length \in Nat
        BY DEF TypeRecord
    <2>2. BytesOf(t, b) = t.length * b
        BY <1>1 DEF BytesOf
    <2>3. t.length * b \in Nat /\ t.length * b = b * t.length
        BY <2>1
    <2>4. SizeOf(t, Wrapped(b)) =
              IF ~Wrapped(b).has \/ t.length = 0 THEN None
              ELSE Some((Wrapped(b).n * t.length) % SizeModulus)
        BY <1>1 DEF SizeOf
    <2>5. CASE b = 0
        <3>1. ~Wrapped(b).has
            BY <2>5 DEF Wrapped, None
        <3>2. t.length * b = 0
            BY <2>1, <2>5
        <3> QED  BY <2>2, <2>3, <2>4, <3>1, <3>2 DEF Wrapped
    <2>6. CASE t.length = 0
        <3>1. t.length * b = 0
            BY <2>6
        <3> QED  BY <2>2, <2>3, <2>4, <2>6, <3>1 DEF Wrapped
    <2>7. CASE b # 0 /\ t.length # 0
        <3>1. Wrapped(b).has /\ Wrapped(b).n = b % SizeModulus
            BY <2>7 DEF Wrapped, Some
        <3>2. t.length * b # 0
            BY <2>1, <2>7
        <3>3. ((b % SizeModulus) * t.length) % SizeModulus = (b * t.length) % SizeModulus
            <4> DEFINE n == t.length
            <4>1. n \in Nat /\ SizeModulus \in Nat /\ SizeModulus > 0
                BY <2>1
            <4> HIDE DEF n
            <4>2. ((b % SizeModulus) * n) % SizeModulus = (b * n) % SizeModulus
                BY ONLY <4>1, b \in Nat, ModProduct, Zenon
            <4> QED  BY <4>2 DEF n
        <3> QED  BY <2>2, <2>3, <2>4, <2>7, <3>1, <3>2, <3>3 DEF Wrapped
    <2> QED  BY <2>5, <2>6, <2>7
<1>2. CASE t.kind = "pointer"
    <2>1. BytesOf(t, b) = 8 /\ SizeOf(t, Wrapped(b)) = Some(8)
        BY <1>2 DEF BytesOf, SizeOf
    <2> QED  BY <2>1 DEF Wrapped
<1>3. CASE t.kind \in {"int", "float"}
    <2>1. BytesOf(t, b) = 4 /\ SizeOf(t, Wrapped(b)) = Some(4)
        BY <1>3 DEF BytesOf, SizeOf
    <2> QED  BY <2>1 DEF Wrapped
<1>4. CASE t.kind = "char"
    <2>1. BytesOf(t, b) = 1 /\ SizeOf(t, Wrapped(b)) = Some(1)
        BY <1>4 DEF BytesOf, SizeOf
    <2> QED  BY <2>1 DEF Wrapped
<1>5. CASE t.kind \in {"void", "function"}
    <2>1. BytesOf(t, b) = 0 /\ SizeOf(t, Wrapped(b)) = None
        BY <1>5 DEF BytesOf, SizeOf
    <2> QED  BY <2>1 DEF Wrapped
<1> QED  BY <1>1, <1>2, <1>3, <1>4, <1>5 DEF TypeRecord

(* If there is a function with the equation of Size, Size is one. *)
LEMMA SizeIs == ASSUME NEW f, IsSize(f) PROVE IsSize(Size)
BY Zenon DEF IsSize, Size, ElementSize

LEMMA BytesIs == ASSUME NEW g, IsBytes(g) PROVE IsBytes(Bytes)
BY Zenon DEF IsBytes, Bytes, ElementBytes

(* In a state of the invariant Size and Bytes agree. *)
LEMMA InvWraps == SizesInv => SizesWrap
<1> SUFFICES ASSUME SizesInv PROVE SizesWrap
    OBVIOUS
<1>1. IsSize(Size)
    BY SizeIs, Zenon DEF SizesInv
<1>2. IsBytes(Bytes)
    BY BytesIs, Zenon DEF SizesInv
<1>3. Agree(Size, Bytes)
    BY <1>1, <1>2, Zenon DEF SizesInv
<1> QED  BY <1>3, Zenon DEF SizesWrap, Agree, Wrapped

LEMMA InitSizes == TypesInit => SizesInv
<1> SUFFICES ASSUME TypesInit PROVE SizesInv
    OBVIOUS
<1>1. \A i \in 1..4 : Base(BaseKinds[i]) \in TypeRecord
    BY DEF Base, Type, TypeRecord, BaseKinds, NoType
<1>2. \A a \in Address : /\ storage[a] \in TypeRecord
                         /\ storage[a].kind # "array"
    <2>1. Address = 1..4 /\ \A a \in 1..4 : storage[a] = Base(BaseKinds[a])
        BY DEF TypesInit, Address
    <2>2. \A a \in 1..4 : Base(BaseKinds[a]).kind # "array"
        BY DEF Base, Type, BaseKinds
    <2> QED  BY <1>1, <2>1, <2>2
<1>3. Elements
    BY <1>2 DEF Elements
<1> DEFINE f0 == [a \in Address |-> SizeOf(storage[a], None)]
           g0 == [a \in Address |-> BytesOf(storage[a], 0)]
<1>4. IsSize(f0)
    BY <1>2 DEF IsSize, ElementSize
<1>5. IsBytes(g0)
    BY <1>2 DEF IsBytes, ElementBytes
<1>6. ASSUME NEW f, NEW g, IsSize(f), IsBytes(g)
      PROVE  Agree(f, g)
    <2>1. \A a \in Address : /\ f[a] = SizeOf(storage[a], None)
                             /\ g[a] = BytesOf(storage[a], 0)
        BY <1>2, <1>6 DEF IsSize, IsBytes, ElementSize, ElementBytes
    <2>2. Wrapped(0) = None
        BY DEF Wrapped
    <2> QED  BY <2>1, <2>2, <1>2, SizeOfWraps DEF Agree
<1>7. \A f, g : IsSize(f) /\ IsBytes(g) => Agree(f, g)
    BY <1>6
<1> QED  BY <1>3, <1>4, <1>5, <1>7 DEF SizesInv

(* A new type, made of older ones, changes no size and has one. *)
LEMMA SizesGrow ==
    ASSUME TypesOK, SizesInv, NEW r \in TypeRecord,
           storage' = Append(storage, r),
           r.kind = "array" => r.inner \in Address
    PROVE  SizesInv'
<1> DEFINE n == Len(storage) + 1
<1>1. /\ storage' \in Seq(TypeRecord) /\ Len(storage) \in Nat
      /\ Len(storage') = n /\ storage'[n] = r
      /\ \A a \in Address : storage'[a] = storage[a]
    BY AppendFacts DEF TypesOK, Address
<1>2. Address' = Address \cup {n} /\ n \notin Address
    BY <1>1 DEF Address
<1>3. Elements'
    <2> SUFFICES ASSUME NEW a \in Address', storage'[a].kind = "array"
                 PROVE  storage'[a].inner \in 1..(a - 1)
        BY DEF Elements
    <2>1. CASE a \in Address
        BY <1>1, <2>1 DEF SizesInv, Elements
    <2>2. CASE a = n
        BY <1>1, <2>2 DEF Address
    <2> QED  BY <1>2, <2>1, <2>2
<1>4. \A a \in Address' : storage'[a].kind = "array" => storage'[a].inner \in Address
    <2> SUFFICES ASSUME NEW a \in Address', storage'[a].kind = "array"
                 PROVE  storage'[a].inner \in Address
        OBVIOUS
    <2>1. CASE a \in Address
        <3>1. storage[a].inner \in 1..(a - 1)
            BY <1>1, <2>1 DEF SizesInv, Elements
        <3> QED  BY <1>1, <2>1, <3>1 DEF Address
    <2>2. CASE a = n
        BY <1>1, <2>2
    <2> QED  BY <1>2, <2>1, <2>2
<1>5. \A a \in Address' : storage'[a] \in TypeRecord
    BY <1>1, <1>2 DEF Address
<1> HIDE DEF n
<1>6. \E f : IsSize(f)'
    <2> PICK f : IsSize(f)
        BY DEF SizesInv
    <2> DEFINE h == [a \in Address' |-> IF a \in Address THEN f[a]
                                        ELSE SizeOf(storage'[a],
                                               IF storage'[a].kind = "array"
                                               THEN f[storage'[a].inner] ELSE None)]
    <2>1. \A a \in Address : f[a] = SizeOf(storage[a], ElementSize(f, a))
        BY Zenon DEF IsSize
    <2>2. \A a \in Address : h[a] = f[a]
        BY <1>2
    <2>3. ASSUME NEW a \in Address'
          PROVE  h[a] = SizeOf(storage'[a], IF storage'[a].kind = "array"
                                            THEN h[storage'[a].inner] ELSE None)
        <3>1. storage'[a].kind = "array" => h[storage'[a].inner] = f[storage'[a].inner]
            BY <1>4, <2>2
        <3> DEFINE e == IF storage'[a].kind = "array" THEN f[storage'[a].inner] ELSE None
        <3>2. e = IF storage'[a].kind = "array" THEN h[storage'[a].inner] ELSE None
            BY <3>1
        <3>3. h[a] = SizeOf(storage'[a], e)
            <4>1. CASE a \in Address
                <5>1. e = ElementSize(f, a) /\ storage'[a] = storage[a]
                    BY <1>1, <4>1 DEF ElementSize
                <5> HIDE DEF h, e
                <5> QED  BY <2>1, <2>2, <4>1, <5>1
            <4>2. CASE a \notin Address
                BY <4>2
            <4> QED  BY <4>1, <4>2
        <3> HIDE DEF h, e
        <3> QED  BY <3>2, <3>3
    <2>4. h = [a \in Address' |-> h[a]]
        OBVIOUS
    <2> HIDE DEF h
    <2>5. h = [a \in Address' |-> SizeOf(storage'[a], IF storage'[a].kind = "array"
                                                      THEN h[storage'[a].inner] ELSE None)]
        BY <2>3, <2>4, Zenon
    <2>6. PICK k : k = h
        OBVIOUS
    <2>7. IsSize(k)'
        BY <2>5, <2>6 DEF IsSize, ElementSize
    <2> QED  BY <2>7
<1>7. \E g : IsBytes(g)'
    <2> PICK g : IsBytes(g)
        BY DEF SizesInv
    <2> DEFINE h == [a \in Address' |-> IF a \in Address THEN g[a]
                                        ELSE BytesOf(storage'[a],
                                               IF storage'[a].kind = "array"
                                               THEN g[storage'[a].inner] ELSE 0)]
    <2>1. \A a \in Address : g[a] = BytesOf(storage[a], ElementBytes(g, a))
        BY Zenon DEF IsBytes
    <2>2. \A a \in Address : h[a] = g[a]
        BY <1>2
    <2>3. ASSUME NEW a \in Address'
          PROVE  h[a] = BytesOf(storage'[a], IF storage'[a].kind = "array"
                                            THEN h[storage'[a].inner] ELSE 0)
        <3>1. storage'[a].kind = "array" => h[storage'[a].inner] = g[storage'[a].inner]
            BY <1>4, <2>2
        <3> DEFINE e == IF storage'[a].kind = "array" THEN g[storage'[a].inner] ELSE 0
        <3>2. e = IF storage'[a].kind = "array" THEN h[storage'[a].inner] ELSE 0
            BY <3>1
        <3>3. h[a] = BytesOf(storage'[a], e)
            <4>1. CASE a \in Address
                <5>1. e = ElementBytes(g, a) /\ storage'[a] = storage[a]
                    BY <1>1, <4>1 DEF ElementBytes
                <5> HIDE DEF h, e
                <5> QED  BY <2>1, <2>2, <4>1, <5>1
            <4>2. CASE a \notin Address
                BY <4>2
            <4> QED  BY <4>1, <4>2
        <3> HIDE DEF h, e
        <3> QED  BY <3>2, <3>3
    <2>4. h = [a \in Address' |-> h[a]]
        OBVIOUS
    <2> HIDE DEF h
    <2>5. h = [a \in Address' |-> BytesOf(storage'[a], IF storage'[a].kind = "array"
                                                      THEN h[storage'[a].inner] ELSE 0)]
        BY <2>3, <2>4, Zenon
    <2>6. PICK k : k = h
        OBVIOUS
    <2>7. IsBytes(k)'
        BY <2>5, <2>6 DEF IsBytes, ElementBytes
    <2> QED  BY <2>7
<1>8. ASSUME NEW f, NEW g, IsSize(f)', IsBytes(g)'
      PROVE  Agree(f, g)'
    <2> DEFINE f0 == [a \in Address |-> f[a]]
               g0 == [a \in Address |-> g[a]]
    <2>1. \A a \in Address' : f[a] = SizeOf(storage'[a], ElementSize(f, a)')
        BY <1>8, Zenon DEF IsSize
    <2>2. \A a \in Address' : g[a] = BytesOf(storage'[a], ElementBytes(g, a)')
        BY <1>8, Zenon DEF IsBytes
    <2>3. ASSUME NEW a \in Address
          PROVE  /\ f0[a] = SizeOf(storage[a], ElementSize(f0, a))
                 /\ g0[a] = BytesOf(storage[a], ElementBytes(g0, a))
        <3>1. a \in Address' /\ storage'[a] = storage[a]
            BY <1>1, <1>2
        <3>2. storage[a].kind = "array" => storage[a].inner \in Address
            BY <1>4, <3>1
        <3>3. ElementSize(f, a)' = ElementSize(f0, a)
            BY <3>1, <3>2 DEF ElementSize
        <3>4. ElementBytes(g, a)' = ElementBytes(g0, a)
            BY <3>1, <3>2 DEF ElementBytes
        <3>5. f0[a] = f[a] /\ g0[a] = g[a]
            OBVIOUS
        <3> HIDE DEF f0, g0
        <3> QED  BY <2>1, <2>2, <3>1, <3>3, <3>4, <3>5
    <2>4. f0 = [a \in Address |-> f0[a]] /\ g0 = [a \in Address |-> g0[a]]
        OBVIOUS
    <2>5. \A a \in Address : f0[a] = f[a] /\ g0[a] = g[a]
        OBVIOUS
    <2> HIDE DEF f0, g0
    <2>6. IsSize(f0) /\ IsBytes(g0)
        BY <2>3, <2>4, Zenon DEF IsSize, IsBytes
    <2>7. Agree(f0, g0)
        BY <2>6, Zenon DEF SizesInv
    <2>8. \A a \in Address : g[a] \in Nat /\ f[a] = Wrapped(g[a])
        BY <2>5, <2>7 DEF Agree
    <2>9. ASSUME NEW a \in Address'
          PROVE  g[a] \in Nat /\ f[a] = Wrapped(g[a])
        <3>1. CASE storage'[a].kind = "array"
            <4>1. storage'[a].inner \in Address
                BY <1>4, <3>1
            <4> DEFINE b == g[storage'[a].inner]
            <4>2. b \in Nat /\ f[storage'[a].inner] = Wrapped(b)
                BY <2>8, <4>1
            <4>3. ElementSize(f, a)' = Wrapped(b) /\ ElementBytes(g, a)' = b
                BY <3>1, <4>2 DEF ElementSize, ElementBytes
            <4> HIDE DEF b
            <4> QED  BY <2>1, <2>2, <4>2, <4>3, <1>5, SizeOfWraps
        <3>2. CASE storage'[a].kind # "array"
            <4>1. ElementSize(f, a)' = None /\ ElementBytes(g, a)' = 0
                BY <3>2 DEF ElementSize, ElementBytes
            <4>2. None = Wrapped(0) /\ 0 \in Nat
                BY DEF Wrapped
            <4>3. f[a] = SizeOf(storage'[a], Wrapped(0)) /\ g[a] = BytesOf(storage'[a], 0)
                BY <2>1, <2>2, <4>1, <4>2
            <4>4. storage'[a] \in TypeRecord
                BY <1>5
            <4> QED  BY <4>2, <4>3, <4>4, SizeOfWraps
        <3> QED  BY <3>1, <3>2
    <2> QED  BY <2>9 DEF Agree
<1>9. \A f, g : IsSize(f)' /\ IsBytes(g)' => Agree(f, g)'
    BY <1>8
<1> QED  BY <1>3, <1>6, <1>7, <1>9 DEF SizesInv

(* Each operation of the context makes such a type or none. *)
LEMMA SizesStep ==
    ASSUME TypesInv, SizesInv, TypesNext
    PROVE  SizesInv'
<1>1. TypesOK
    BY DEF TypesInv
<1>2. ASSUME UNCHANGED storage PROVE SizesInv'
    <2>1. Address' = Address
        BY <1>2 DEF Address
    <2> QED  BY <1>2, <2>1 DEF SizesInv, Elements, IsSize, IsBytes, ElementSize, ElementBytes, Agree
<1>3. PICK t \in Address : \/ PointerTo(t)
                           \/ \E n \in Lengths : ArrayOf(t, n)
                           \/ \E params \in ParamLists, variadic \in BOOLEAN :
                                 FunctionOf(t, params, variadic)
    BY DEF TypesNext
<1>4. t \in Nat
    BY DEF Address
<1>5. CASE PointerTo(t)
    <2>1. CASE t \in DOMAIN pointers
        BY <1>2, <1>5, <2>1 DEF PointerTo, typeVars
    <2>2. CASE t \notin DOMAIN pointers
        <3>1. storage' = Append(storage, Pointer(t))
            BY <1>5, <2>2 DEF PointerTo
        <3>2. Pointer(t) \in TypeRecord /\ Pointer(t).kind # "array"
            BY <1>4 DEF Pointer, Type, TypeRecord
        <3> QED  BY <1>1, <3>1, <3>2, SizesGrow
    <2> QED  BY <2>1, <2>2
<1>6. ASSUME NEW n \in Lengths, ArrayOf(t, n) PROVE SizesInv'
    <2>1. CASE <<t, n>> \in DOMAIN arrays
        BY <1>2, <1>6, <2>1 DEF ArrayOf, typeVars
    <2>2. CASE <<t, n>> \notin DOMAIN arrays
        <3>1. storage' = Append(storage, Array(t, n))
            BY <1>6, <2>2 DEF ArrayOf
        <3>2. Array(t, n) \in TypeRecord /\ Array(t, n).inner = t
            BY <1>4, TypesAssumption DEF Array, Type, TypeRecord
        <3> QED  BY <1>1, <3>1, <3>2, SizesGrow
    <2> QED  BY <2>1, <2>2
<1>7. ASSUME NEW params \in ParamLists, NEW variadic \in BOOLEAN,
             FunctionOf(t, params, variadic)
      PROVE  SizesInv'
    <2>1. CASE <<t, params, variadic>> \in DOMAIN functions
        BY <1>2, <1>7, <2>1 DEF FunctionOf, typeVars
    <2>2. CASE <<t, params, variadic>> \notin DOMAIN functions
        <3>1. storage' = Append(storage, Function(t, params, variadic))
            BY <1>7, <2>2 DEF FunctionOf
        <3>2. params \in Seq(Nat)
            BY TypesAssumption DEF ParamLists, Address
        <3>3. Function(t, params, variadic) \in TypeRecord
              /\ Function(t, params, variadic).kind # "array"
            BY <1>4, <3>2 DEF Function, Type, TypeRecord
        <3> QED  BY <1>1, <3>1, <3>3, SizesGrow
    <2> QED  BY <2>1, <2>2
<1> QED  BY <1>3, <1>5, <1>6, <1>7

(* A size is the number of bytes modulo the width of a size. *)
THEOREM SizesRight == TypesSpec => []SizesWrap
<1>1. TypesInit => SizesInv
    BY InitSizes
<1>2. TypesInv /\ SizesInv /\ [TypesNext]_typeVars => SizesInv'
    <2>1. ASSUME TypesInv, SizesInv, UNCHANGED typeVars PROVE SizesInv'
        <3>1. Address' = Address /\ storage' = storage
            BY <2>1 DEF Address, typeVars
        <3> QED  BY <2>1, <3>1
                 DEF SizesInv, Elements, IsSize, IsBytes, ElementSize, ElementBytes, Agree
    <2> QED  BY <2>1, SizesStep
<1>3. SizesInv => SizesWrap
    BY InvWraps
<1> QED  BY <1>1, <1>2, <1>3, TypesInvariance, PTL DEF TypesSpec
=============================================================================
