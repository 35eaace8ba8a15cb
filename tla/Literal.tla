------------------------------ MODULE Literal -------------------------------
(***************************************************************************)
(* lib/Lex/Literal.cpp: the values of literals.  A text is a sequence of   *)
(* characters.  UnsignedModulus stands for the 2^32 values of an unsigned.  *)
(***************************************************************************)
EXTENDS Integers, Sequences, FiniteSets

CONSTANTS UnsignedModulus, IntMax

ASSUME LiteralAssumption ==
    UnsignedModulus \in Nat /\ UnsignedModulus > 511 /\ IntMax \in Nat

Digits == <<"0", "1", "2", "3", "4", "5", "6", "7", "8", "9", "a", "b", "c", "d", "e", "f">>
DigitsOf(base) == {Digits[i] : i \in 1..base}
HexValue(c) == (CHOOSE i \in 1..16 : Digits[i] = c) - 1

(* Characters decoded, or an error. *)
Error == << <<"error">> >>
Plain(spelled) == <<"plain", spelled>>
Code(n) == <<"code", n>>

Escapes == {"n", "t", "r", "a", "b", "f", "v", "\\", "'", "\"", "?"}

(* The digits of a number from a place in body, no more than limit. *)
Run(body, from, base, limit) ==
    CHOOSE n \in 0..limit :
        /\ \A i \in from..from + n - 1 : i <= Len(body) /\ body[i] \in DigitsOf(base)
        /\ n < limit => ~(from + n <= Len(body) /\ body[from + n] \in DigitsOf(base))

(* The value of n digits. *)
Number(body, from, base, n) ==
    LET value[k \in 0..n] ==
            IF k = 0 THEN 0 ELSE value[k - 1] * base + HexValue(body[from + k - 1])
    IN  value[n]

(* An escape of this value up to next; value is an unsigned, so it wraps. *)
InRange(value, next) ==
    IF value % UnsignedModulus > 255 THEN Error
    ELSE <<Code(value % UnsignedModulus), next>>

(* With a bug in it: octal escapes are not checked. *)
DecodeOneUnchecked(body, at) ==
    IF body[at] # "\\" THEN <<Plain(<<body[at]>>), at + 1>>
    ELSE IF at = Len(body) THEN Error
    ELSE IF body[at + 1] = "x"
    THEN LET n == Run(body, at + 2, 16, Len(body))
         IN  IF n = 0 THEN Error ELSE InRange(Number(body, at + 2, 16, n), at + 2 + n)
    ELSE IF body[at + 1] \in DigitsOf(8)
    THEN LET n == Run(body, at + 1, 8, 3)
         IN  <<Code(Number(body, at + 1, 8, n) % 256), at + 1 + n>>
    ELSE IF body[at + 1] \in Escapes THEN <<Plain(<<"\\", body[at + 1]>>), at + 2>>
    ELSE Error

(* decodeOne: what the front of body from this place means, and where what *)
(* is left of body begins.                                                 *)
DecodeOne(body, at) ==
    IF body[at] # "\\" THEN <<Plain(<<body[at]>>), at + 1>>
    ELSE IF at = Len(body) THEN Error
    ELSE IF body[at + 1] = "x"
    THEN LET n == Run(body, at + 2, 16, Len(body))
         IN  IF n = 0 THEN Error ELSE InRange(Number(body, at + 2, 16, n), at + 2 + n)
    ELSE IF body[at + 1] \in DigitsOf(8)
    THEN LET n == Run(body, at + 1, 8, 3)
         IN  InRange(Number(body, at + 1, 8, n), at + 1 + n)
    ELSE IF body[at + 1] \in Escapes THEN <<Plain(<<"\\", body[at + 1]>>), at + 2>>
    ELSE Error

DecodeAll(body) ==
    LET decoded[from \in 1..Len(body) + 1] ==
            IF from > Len(body) THEN <<>>
            ELSE LET one == DecodeOne(body, from)
                 IN  IF one = Error THEN Error
                     ELSE IF decoded[one[2]] = Error THEN Error
                     ELSE <<one[1]>> \o decoded[one[2]]
    IN  decoded[1]

Body(text) == SubSeq(text, 2, Len(text) - 1)
ParseStringLiteral(text) == DecodeAll(Body(text))
ParseCharLiteral(text) ==
    LET body == Body(text)
    IN  IF body = <<>> THEN Error
        ELSE LET one == DecodeOne(body, 1)
             IN  IF one = Error \/ one[2] <= Len(body) THEN Error ELSE <<one[1]>>

(* parseIntLiteral, and the parser's limit on its result; -1 for an error. *)
ParseIntLiteral(text) ==
    LET hex == Len(text) > 2 /\ text[1] = "0" /\ text[2] = "x"
        base == IF hex THEN 16 ELSE IF Len(text) > 1 /\ text[1] = "0" THEN 8 ELSE 10
        from == IF hex THEN 3 ELSE IF base = 8 THEN 2 ELSE 1
        n == Run(text, from, base, Len(text))
        value == Number(text, from, base, n)
    IN  IF n = 0 \/ from + n <= Len(text) \/ value > IntMax THEN -1 ELSE value
-----------------------------------------------------------------------------
(* What literals say, read off all of the text at once.                    *)

(* The digits there are from a place on, no more than limit, and what n of *)
(* them say: each has the value of its place, the last one's is 1.         *)
DigitPlaces(body, from, base, limit) ==
    {p \in DOMAIN body :
        p \in from..from + limit - 1 /\ \A q \in from..p : body[q] \in DigitsOf(base)}
Says(body, from, base, n) ==
    LET place[i \in 0..n] == IF i = 0 THEN 1 ELSE place[i - 1] * base
        last[i \in 0..n] ==
            IF i = 0 THEN 0
            ELSE last[i - 1] + HexValue(body[from + n - i]) * place[i - 1]
    IN  last[n]

(* A backslash escapes if there is an even number of others before it. *)
EscapesIn(body) ==
    {i \in DOMAIN body :
        /\ body[i] = "\\"
        /\ Cardinality({b \in 1..i - 1 : \A c \in b..i - 1 : body[c] = "\\"}) % 2 = 0}

(* An escape's digits are all there are, three at most if octal; its value *)
(* must fit a char.                                                        *)
IsHex(body, i) == i < Len(body) /\ body[i + 1] = "x"
IsOctal(body, i) == i < Len(body) /\ body[i + 1] \in DigitsOf(8)
DigitsAt(body, i) ==
    CASE IsHex(body, i) -> DigitPlaces(body, i + 2, 16, Len(body))
      [] IsOctal(body, i) -> DigitPlaces(body, i + 1, 8, 3)
      [] OTHER -> {}
ValueAt(body, i) ==
    LET n == Cardinality(DigitsAt(body, i))
    IN  IF IsHex(body, i) THEN Says(body, i + 2, 16, n) ELSE Says(body, i + 1, 8, n)
WellFormed(body, i) ==
    \/ i < Len(body) /\ body[i + 1] \in Escapes
    \/ DigitsAt(body, i) # {} /\ ValueAt(body, i) <= 255

(* A character of the literal begins where no escape goes on. *)
Units(body) ==
    {p \in DOMAIN body :
        \A i \in EscapesIn(body) : p # i + 1 /\ p \notin DigitsAt(body, i)}
UnitAt(body, p) ==
    IF p \notin EscapesIn(body) THEN Plain(<<body[p]>>)
    ELSE IF DigitsAt(body, p) # {} THEN Code(ValueAt(body, p))
    ELSE Plain(<<"\\", body[p + 1]>>)

(* A string is what its characters say in their order, and an error if one *)
(* says nothing.  Escapes of a number no unsigned holds are left out: the  *)
(* code wraps it.                                                          *)
StringMeant(body) ==
    LET value == DecodeAll(body)
        units == Units(body)
    IN  (\A i \in EscapesIn(body) : DigitsAt(body, i) # {} => ValueAt(body, i) < UnsignedModulus) =>
            IF \A i \in EscapesIn(body) : WellFormed(body, i)
            THEN /\ Len(value) = Cardinality(units)
                 /\ \A p \in units : value[Cardinality({q \in units : q <= p})] = UnitAt(body, p)
            ELSE value = Error

(* A character is the string of the same body, if that is one character. *)
CharMeant(text) ==
    LET value == ParseStringLiteral(text)
    IN  ParseCharLiteral(text) = IF value # Error /\ Len(value) = 1 THEN value ELSE Error

(* "decimal (42), octal (017), hexadecimal" (user-manual.md:84) *)
IntMeant(text) ==
    LET base == IF text[1] # "0" \/ Len(text) = 1 THEN 10
                ELSE IF text[2] = "x" THEN 16 ELSE 8
        from == CASE base = 10 -> 1 [] base = 8 -> 2 [] base = 16 -> 3
        n == Len(text) - from + 1
        value == Says(text, from, base, n)
    IN  ParseIntLiteral(text) =
            IF n > 0 /\ (\A i \in from..Len(text) : text[i] \in DigitsOf(base)) /\ value <= IntMax
            THEN value ELSE -1
=============================================================================
