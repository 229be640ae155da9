------------------------------ MODULE Rounding ------------------------------
(***************************************************************************)
(* Biases and times are doubles in the code.  The modules of this project  *)
(* measure them in whole units of the arithmetic's resolution, so a result *)
(* that falls between two representable numbers may be either of them.     *)
(***************************************************************************)
EXTENDS Integers

Abs(n) == IF n < 0 THEN -n ELSE n

(* The lesser and the greater of two numbers: std::min and std::max. *)
Lesser(a, b)  == IF a <= b THEN a ELSE b
Greater(a, b) == IF a <= b THEN b ELSE a

(* What a quotient n / d (d > 0) may be rounded to. *)
Rounded(n, d) == {n \div d, -((-n) \div d)}

(* A product or quotient of positive doubles is positive: it is never       *)
(* rounded down to zero within the range the code works in.                 *)
RoundedPositive(n, d) == {Greater(1, q) : q \in Rounded(n, d)}
=============================================================================
