----------------------------- MODULE MCReactor -----------------------------
(***************************************************************************)
(* Two clients and the listening channel: up to three events are due, of    *)
(* which epoll_wait reports two at a time.                                  *)
(***************************************************************************)
EXTENDS Reactor, TLC

CONSTANTS c1, c2

MCClients == {c1, c2}
MCSymmetry == Permutations(MCClients)
=============================================================================
