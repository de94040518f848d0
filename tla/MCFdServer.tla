----------------------------- MODULE MCFdServer -----------------------------
(***************************************************************************)
(* FdServer with two descriptors for clients. As in the code, where the    *)
(* limit is 1024 for both, the table of SelectServer has a slot for every     *)
(* descriptor (sizeof(fd_set) * 8) and that of PollServer has fewer (64).     *)
(***************************************************************************)
EXTENDS FdServer
TableSizes == [select |-> FdLimit, poll |-> 2]
=============================================================================
