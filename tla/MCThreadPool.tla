---------------------------- MODULE MCThreadPool ----------------------------
(***************************************************************************)
(* Two workers and three connections: tasks queue up behind busy workers.    *)
(***************************************************************************)
EXTENDS ThreadPool
=============================================================================
