---------------------------- MODULE MCBlockQueue ----------------------------
(***************************************************************************)
(* BlockQueue with the default macros: NUM 5, LOW NUM / 3 = 1,              *)
(* HIGH NUM * 2 / 3 = 3.  Several threads on each side, so that a woken     *)
(* thread can be overtaken, as in the test program with its five and three. *)
(***************************************************************************)
EXTENDS BlockQueue
NUM  == 5
LOW  == NUM \div 3
HIGH == (NUM * 2) \div 3
=============================================================================
