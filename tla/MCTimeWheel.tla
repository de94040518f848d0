---------------------------- MODULE MCTimeWheel ----------------------------
(***************************************************************************)
(* A wheel of three slots, two ids, three objects, timeouts of one tick and *)
(* of a whole turn, so that a refreshed task lies in several slots.         *)
(***************************************************************************)
EXTENDS TimeWheel

MCTimeouts == {1, 2, 3}
=============================================================================
