----------------------------- MODULE BlockQueue -----------------------------
(***************************************************************************)
(* BlockQueue of thread/bloackQueue/BloackQueue.hpp: a queue under one      *)
(* mutex, a condition variable for each side, and two watermarks: producers *)
(* are signalled only when a pop leaves fewer than low_level values,        *)
(* consumers only when a push leaves more than high_level.  Both waits are  *)
(* guarded by an "if": a woken thread does not look at the queue again.     *)
(*                                                                          *)
(* Everything between lock and unlock is one step, as no other thread can   *)
(* see the queue meanwhile; a wait splits a call in two such steps, and a   *)
(* woken thread competes for the mutex with everybody else.                 *)
(*                                                                          *)
(* So a woken consumer may find nothing.  front() and pop() of an empty     *)
(* std::queue are undefined; those of libstdc++ read what memory holds and  *)
(* move the front past the back, so that size() wraps below zero and as     *)
(* many of the next pushes only bring the back up to the front again.  At   *)
(* the edge of one of its blocks of memory the process may end instead.     *)
(***************************************************************************)
EXTENDS Naturals, Sequences

CONSTANTS
  Producers, Consumers, Values,
  Max,         \* max_
  Low, High,   \* low_level and high_level
  Garbage,     \* what front() of an empty queue returns
  Blank,       \* what a consumer has before its first pop
  Limit,       \* bound of the model: no push beyond this length
  MissingLimit \* bound of the model: how far the front runs past the back

\* The macros make 5, 1 and 3 of them.
ASSUME LevelsAssumption ==
  /\ Max \in Nat /\ Low \in 1 .. Max /\ High \in Nat /\ High < Max
  /\ Limit \in Nat /\ Max <= Limit /\ MissingLimit \in Nat
ASSUME ThreadsAssumption ==
  /\ Producers # {} /\ Consumers # {} /\ Producers \cap Consumers = {}
ASSUME GarbageAssumption == Garbage \notin Values

VARIABLES
  q,
  missing, \* how far the front is past the back: size() is Len(q) - missing, mod 2^64
  pc,      \* "call": about to lock; "waiting": in the wait; "woken": about to
           \* lock again; "gone": the process has ended
  got      \* what the last pop returned

vars == <<q, missing, pc, got>>

Threads == Producers \cup Consumers

TypeOK ==
  /\ q \in Seq(Values)
  /\ missing \in Nat
  /\ pc \in [Threads -> {"call", "waiting", "woken", "gone"}]
  /\ got \in [Consumers -> Values \cup {Garbage, Blank}]

Init ==
  /\ q = <<>>
  /\ missing = 0
  /\ pc = [t \in Threads |-> "call"]
  /\ got = [c \in Consumers |-> Blank]

\* What comparing the unsigned size() comes to.
SizeIs(n)    == missing = 0 /\ Len(q) = n
SizeBelow(n) == missing = 0 /\ Len(q) < n
SizeAbove(n) == missing > 0 \/ Len(q) > n

Waiting(S) == {t \in S : pc[t] = "waiting"}

\* t returns; pthread_cond_signal wakes one of the threads of S that wait.
ReturnAndSignal(t, S) ==
  IF Waiting(S) = {}
    THEN pc' = [pc EXCEPT ![t] = "call"]
    ELSE \E u \in Waiting(S) : pc' = [pc EXCEPT ![t] = "call", ![u] = "woken"]

Return(t) == pc' = [pc EXCEPT ![t] = "call"]

Wait(t) ==
  /\ pc[t] = "call"
  /\ pc' = [pc EXCEPT ![t] = "waiting"]
  /\ UNCHANGED <<q, missing, got>>

-----------------------------------------------------------------------------
(* pop *)

TakeFront(c) ==
  IF q = <<>>
    THEN /\ missing < MissingLimit
         /\ got' = [got EXCEPT ![c] = Garbage]
         /\ missing' = missing + 1
         /\ UNCHANGED q
    ELSE /\ got' = [got EXCEPT ![c] = Head(q)]
         /\ q' = Tail(q)
         /\ UNCHANGED missing

\* Mutant: the producers are never told that the queue runs low.
TakeSilently(c) == TakeFront(c) /\ Return(c)

\* Mutant: the signal goes to the wrong condition variable.
TakeTellsConsumers(c) ==
  /\ TakeFront(c)
  /\ IF SizeBelow(Low)' THEN ReturnAndSignal(c, Consumers) ELSE Return(c)

Take(c) ==
  /\ TakeFront(c)
  /\ IF SizeBelow(Low)' THEN ReturnAndSignal(c, Producers) ELSE Return(c)

PopWait(c)  == SizeIs(0) /\ Wait(c)
PopTake(c)  == ~SizeIs(0) /\ pc[c] = "call" /\ Take(c)
PopWoken(c) == pc[c] = "woken" /\ Take(c)

\* Or the end of the process, when there is nothing to take.
PopBreaks(c) ==
  /\ q = <<>>
  /\ pc[c] = "woken" \/ (pc[c] = "call" /\ ~SizeIs(0))
  /\ pc' = [t \in Threads |-> "gone"]
  /\ UNCHANGED <<q, missing, got>>

Pop(c) == PopWait(c) \/ PopTake(c) \/ PopWoken(c) \/ PopBreaks(c)

-----------------------------------------------------------------------------
(* push *)

\* A push behind the front only makes up for a pop that found nothing.
PutBack(v) ==
  IF missing > 0
    THEN missing' = missing - 1 /\ UNCHANGED q
    ELSE q' = Append(q, v) /\ UNCHANGED missing

\* Mutant: a variable that was never set is pushed.
PutUnset(p) ==
  /\ Len(q) < Limit
  /\ PutBack(Garbage)
  /\ Return(p)
  /\ UNCHANGED got

\* Mutant: the consumers are never told that the queue fills.
PutSilently(p) ==
  /\ Len(q) < Limit
  /\ \E v \in Values : PutBack(v)
  /\ Return(p)
  /\ UNCHANGED got

Put(p) ==
  /\ Len(q) < Limit
  /\ \E v \in Values : PutBack(v)
  /\ IF SizeAbove(High)' THEN ReturnAndSignal(p, Consumers) ELSE Return(p)
  /\ UNCHANGED got

PushWait(p)  == SizeIs(Max) /\ Wait(p)
PushPut(p)   == ~SizeIs(Max) /\ pc[p] = "call" /\ Put(p)
PushWoken(p) == pc[p] = "woken" /\ Put(p)

Push(p) == PushWait(p) \/ PushPut(p) \/ PushWoken(p)

\* pthread_cond_wait may return without a signal.
SpuriousWakeup(t) ==
  /\ pc[t] = "waiting"
  /\ pc' = [pc EXCEPT ![t] = "woken"]
  /\ UNCHANGED <<q, missing, got>>

Next ==
  \/ \E c \in Consumers : Pop(c)
  \/ \E p \in Producers : Push(p)
  \/ \E t \in Threads : SpuriousWakeup(t)

\* Each thread is scheduled; who gets the mutex first is not promised.
Fairness ==
  /\ \A c \in Consumers : WF_vars(Pop(c))
  /\ \A p \in Producers : WF_vars(Push(p))

Spec == Init /\ [][Next]_vars /\ Fairness

-----------------------------------------------------------------------------
(***************************************************************************)
(* The watermarks strand nobody: there is always a thread that does not     *)
(* wait for a signal that only the others could send.                       *)
(***************************************************************************)
NotAllWaiting == Waiting(Threads) # Threads

(***************************************************************************)
(* When all consumers wait, one is woken in the end: the producers go on    *)
(* until they pass the high watermark.  Which one is not promised, and a    *)
(* consumer beside others may wait for ever.                                *)
(***************************************************************************)
ConsumersServed == Waiting(Consumers) = Consumers ~> Waiting(Consumers) # Consumers

(***************************************************************************)
(* When all producers wait, one is woken in the end: the consumers go on    *)
(* until they pass the low watermark, also when the queue has grown beyond  *)
(* max_ and when the values that woke them were taken by others.            *)
(***************************************************************************)
ProducersServed == Waiting(Producers) = Producers ~> Waiting(Producers) # Producers
=============================================================================
