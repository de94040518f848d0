---------------------------- MODULE MCRingQueue ----------------------------
(***************************************************************************)
(* Two producers and two consumers on a ring of two slots: the ring fills,  *)
(* empties and wraps, and there is a second thread to be excluded on each   *)
(* side.                                                                    *)
(***************************************************************************)
EXTENDS RingQueue
=============================================================================
