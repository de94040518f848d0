------------------------------ MODULE MCBuffer ------------------------------
(***************************************************************************)
(* A vector of two cells that may grow to four, and writes of up to two     *)
(* bytes: every write meets each of the three ways to make room.            *)
(***************************************************************************)
EXTENDS Buffer

MCBytes == {"a", "b", "nl"}
MCNL    == "nl"
MCZero  == "b"
=============================================================================
