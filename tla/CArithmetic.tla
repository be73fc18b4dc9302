----------------------------- MODULE CArithmetic -----------------------------
(***************************************************************************)
(* The division of C, which truncates towards zero, so that a remainder    *)
(* has the sign of its dividend.  b is positive.                           *)
(***************************************************************************)
EXTENDS Integers

Quotient(a, b) == IF a >= 0 THEN a \div b ELSE -((-a) \div b)

Remainder(a, b) == a - b * Quotient(a, b)
=============================================================================
