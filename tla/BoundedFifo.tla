---------------------------- MODULE BoundedFifo ----------------------------
(***************************************************************************)
(* What a bounded producer/consumer queue promises its callers: a value    *)
(* put in is handed out once, to one consumer, in the order of the puts,   *)
(* and never more than Cap values are inside.  thread/semaphore/sem.hpp    *)
(* (RingQueue) is shown to implement it.                                   *)
(***************************************************************************)
EXTENDS Naturals, Sequences

CONSTANTS
  Consumers,   \* the threads that call pop
  Values,      \* what is pushed
  Cap,         \* how many values fit
  Blank        \* what a consumer's variable holds before its first pop

VARIABLES
  fifo,        \* the values inside, oldest first
  got          \* got[c]: what the last pop gave consumer c

vars == <<fifo, got>>

TypeOK ==
  /\ fifo \in Seq(Values)
  /\ Len(fifo) <= Cap
  /\ got \in [Consumers -> Values \cup {Blank}]

Init ==
  /\ fifo = <<>>
  /\ got = [c \in Consumers |-> Blank]

Put(v) ==
  /\ Len(fifo) < Cap
  /\ fifo' = Append(fifo, v)
  /\ UNCHANGED got

Get(c) ==
  /\ fifo # <<>>
  /\ got' = [got EXCEPT ![c] = Head(fifo)]
  /\ fifo' = Tail(fifo)

Next ==
  \/ \E v \in Values : Put(v)
  \/ \E c \in Consumers : Get(c)

\* A value inside is eventually handed to some consumer.
Spec == Init /\ [][Next]_vars /\ WF_vars(\E c \in Consumers : Get(c))
=============================================================================
