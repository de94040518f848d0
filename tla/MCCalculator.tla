---------------------------- MODULE MCCalculator ----------------------------
(***************************************************************************)
(* One and two digits on each side, so that a piece of a request may itself *)
(* read as a request; a divisor of 0; results of one to three characters,   *)
(* below 0 too; an operator the calculator does not know.                   *)
(***************************************************************************)
EXTENDS Calculator
XS  == {7, 12}
YS  == {0, 3, 34}
OPS == {"+", "-", "*", "/", "%", "="}
=============================================================================
