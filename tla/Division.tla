------------------------------ MODULE Division ------------------------------
(* Division of small integers, as the compiler folds it (compile/analyze.c)  *)
(* and the machine does it (data/integer.c): that of C, towards zero.        *)
EXTENDS Integers

SignOf(a)       == IF a < 0 THEN -1 ELSE 1
Magnitude(a)    == IF a < 0 THEN -a ELSE a
FloorDiv(a, b)  == SignOf(a) * SignOf(b) * (Magnitude(a) \div Magnitude(b))
Remainder(a, b) == SignOf(a) * (Magnitude(a) % Magnitude(b))
=============================================================================
