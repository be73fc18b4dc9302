----------------------------- MODULE LogStream -----------------------------
(***************************************************************************)
(* How leanet::LogStream writes integers (src/leanet/logstream.cc): digits *)
(* are taken from the right by C's % and /, negative ones for a negative   *)
(* number, which is never negated: the least one has no opposite.          *)
(*                                                                         *)
(* A behaviour walks through the integers of a type.                       *)
(***************************************************************************)
EXTENDS CArithmetic, Sequences, SequencesExt

CONSTANT Greatest     \* the greatest value of the type that is written

(* The least one, in two's complement.                                     *)
least == -Greatest - 1

(* digits[], read from its middle: zero[lsd], for lsd from -9 to 9.        *)
digits == <<9, 8, 7, 6, 5, 4, 3, 2, 1, 0, 1, 2, 3, 4, 5, 6, 7, 8, 9>>

(* Mutation: the remainder is taken for one that is never negative.        *)
zeroWrapped(lsd) == lsd % 10

zero(lsd) == digits[lsd + 10]

(* do ... while: at least one digit, the lowest first.                     *)
Lowest(value) ==
    LET from[i \in least..Greatest] ==
            <<zero(Remainder(i, 10))>>
                \o (IF Quotient(i, 10) = 0 THEN <<>> ELSE from[Quotient(i, 10)])
    IN  from[value]

convert(value) == [minus |-> value < 0, digits |-> Reverse(Lowest(value))]

-----------------------------------------------------------------------------
VARIABLE val     \* appendInteger's argument

Init == val = least

NextValue ==
    /\ val < Greatest
    /\ val' = val + 1

Spec == Init /\ [][NextValue]_val

-----------------------------------------------------------------------------
(* The number that decimal digits spell, read from the left.               *)
Spelled(text) ==
    LET value[n \in 0..Len(text)] ==
            IF n = 0 THEN 0 ELSE 10 * value[n - 1] + text[n]
    IN  value[Len(text)]

(* What is written for an integer reads back as that integer, has only     *)
(* decimal digits and no leading zero, for every value of the type.        *)
IntegersReadBack ==
    LET text == convert(val)
        magnitude == Spelled(text.digits)
    IN  /\ ToSet(text.digits) \subseteq 0..9
        /\ Head(text.digits) = 0 => Len(text.digits) = 1
        /\ val = IF text.minus THEN -magnitude ELSE magnitude
=============================================================================
