-------------------------------- MODULE Arith --------------------------------
(***************************************************************************)
(* min, max and round of Python over integers, used by the modules that     *)
(* model its arithmetic.                                                    *)
(***************************************************************************)
EXTENDS Integers

Lesser(a, b) == IF a <= b THEN a ELSE b
Greater(a, b) == IF a >= b THEN a ELSE b

(* round(): a / b to the nearest integer, for positive b; ties, which       *)
(* floats hardly ever hit, go up                                            *)
RoundDiv(a, b) == (2 * a + b) \div (2 * b)
=============================================================================
