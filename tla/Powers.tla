-------------------------------- MODULE Powers --------------------------------
(***************************************************************************)
(* pow(b, k) of the C++ library and of Python for a natural exponent, as a *)
(* recursive function.                                                     *)
(***************************************************************************)
EXTENDS Integers

PowersOf(b) == LET p[k \in Nat] == IF k = 0 THEN 1 ELSE b * p[k - 1] IN p

Power(b, k) == PowersOf(b)[k]
===============================================================================
