----------------------------- MODULE RingQueue -----------------------------
(***************************************************************************)
(* Ring_queue of thread/semaphore/sem.hpp: a ring of cap_ slots, a counting *)
(* semaphore of the free slots (pro_sem_) and one of the filled ones        *)
(* (com_sem_), a mutex among the producers and another among the consumers. *)
(* Nothing but the two semaphores keeps a producer away from the slot a     *)
(* consumer is reading.  Every access to shared state of push and pop is a  *)
(* step of its own; the threads call them for ever, as main.cpp's do.       *)
(***************************************************************************)
EXTENDS Integers, Sequences, FiniteSets

CONSTANTS
  Producers, Consumers,   \* the threads of main.cpp
  Values,                 \* what the producers push
  Cap,                    \* space_size of the constructor
  Nobody,                 \* the owner of a free mutex
  Blank                   \* what the vector's constructor puts in a slot

ASSUME CapAssumption == Cap \in Nat \ {0}
ASSUME ThreadsAssumption ==
  /\ IsFiniteSet(Producers)
  /\ IsFiniteSet(Consumers)
  /\ Producers \cap Consumers = {}
  /\ Nobody \notin Producers \cup Consumers
ASSUME BlankAssumption == Blank \notin Values

VARIABLES
  queue, com_sem, pro_sem, space_pos, data_pos, pro_mutex, com_mutex,
  pc,      \* the call's next access, per thread
  data     \* a producer's argument, a consumer's result

vars == <<queue, com_sem, pro_sem, space_pos, data_pos, pro_mutex, com_mutex,
          pc, data>>

Threads == Producers \cup Consumers
Slots   == 0 .. Cap - 1
Labels  == {"wait", "lock", "access", "advance", "unlock", "post"}

TypeOK ==
  /\ queue \in [Slots -> Values \cup {Blank}]
  /\ com_sem \in 0 .. Cap
  /\ pro_sem \in 0 .. Cap
  /\ space_pos \in Slots
  /\ data_pos \in Slots
  /\ pro_mutex \in Producers \cup {Nobody}
  /\ com_mutex \in Consumers \cup {Nobody}
  /\ pc \in [Threads -> Labels]
  /\ data \in [Threads -> Values \cup {Blank}]

Init ==
  /\ queue = [s \in Slots |-> Blank]
  /\ com_sem = 0
  /\ pro_sem = Cap
  /\ space_pos = 0
  /\ data_pos = 0
  /\ pro_mutex = Nobody
  /\ com_mutex = Nobody
  /\ pc = [t \in Threads |-> "wait"]
  /\ data = [t \in Threads |-> Blank]

Goto(t, from, to) ==
  /\ pc[t] = from
  /\ pc' = [pc EXCEPT ![t] = to]

-----------------------------------------------------------------------------
(* push *)

\* Mutant: sem_wait is forgotten.
PushWaitUnguarded(p) ==
  /\ Goto(p, "wait", "lock")
  /\ pro_sem' = pro_sem - 1
  /\ \E v \in Values : data' = [data EXCEPT ![p] = v]
  /\ UNCHANGED <<queue, com_sem, space_pos, data_pos, pro_mutex, com_mutex>>

PushWait(p) ==
  /\ Goto(p, "wait", "lock")
  /\ pro_sem > 0
  /\ pro_sem' = pro_sem - 1
  /\ \E v \in Values : data' = [data EXCEPT ![p] = v]
  /\ UNCHANGED <<queue, com_sem, space_pos, data_pos, pro_mutex, com_mutex>>

PushLock(p) ==
  /\ Goto(p, "lock", "access")
  /\ pro_mutex = Nobody
  /\ pro_mutex' = p
  /\ UNCHANGED <<queue, com_sem, pro_sem, space_pos, data_pos, com_mutex, data>>

PushStore(p) ==
  /\ Goto(p, "access", "advance")
  /\ queue' = [queue EXCEPT ![space_pos] = data[p]]
  /\ UNCHANGED <<com_sem, pro_sem, space_pos, data_pos, pro_mutex, com_mutex, data>>

PushAdvance(p) ==
  /\ Goto(p, "advance", "unlock")
  /\ space_pos' = (space_pos + 1) % Cap
  /\ UNCHANGED <<queue, com_sem, pro_sem, data_pos, pro_mutex, com_mutex, data>>

PushUnlock(p) ==
  /\ Goto(p, "unlock", "post")
  /\ pro_mutex' = Nobody
  /\ UNCHANGED <<queue, com_sem, pro_sem, space_pos, data_pos, com_mutex, data>>

\* Mutant: both semaphores are posted.
PushPostBoth(p) ==
  /\ Goto(p, "post", "wait")
  /\ com_sem' = com_sem + 1
  /\ pro_sem' = pro_sem + 1
  /\ UNCHANGED <<queue, space_pos, data_pos, pro_mutex, com_mutex, data>>

\* Mutant: the filled slot is not announced.
PushPostForgotten(p) ==
  /\ Goto(p, "post", "wait")
  /\ UNCHANGED <<queue, com_sem, pro_sem, space_pos, data_pos, pro_mutex, com_mutex, data>>

PushPost(p) ==
  /\ Goto(p, "post", "wait")
  /\ com_sem' = com_sem + 1
  /\ UNCHANGED <<queue, pro_sem, space_pos, data_pos, pro_mutex, com_mutex, data>>

Push(p) ==
  \/ PushWait(p) \/ PushLock(p) \/ PushStore(p)
  \/ PushAdvance(p) \/ PushUnlock(p) \/ PushPost(p)

-----------------------------------------------------------------------------
(* pop *)

\* Mutant: a consumer does not wait for a filled slot.
PopWaitUnguarded(c) ==
  /\ Goto(c, "wait", "lock")
  /\ UNCHANGED <<queue, com_sem, pro_sem, space_pos, data_pos, pro_mutex, com_mutex, data>>

PopWait(c) ==
  /\ Goto(c, "wait", "lock")
  /\ com_sem > 0
  /\ com_sem' = com_sem - 1
  /\ UNCHANGED <<queue, pro_sem, space_pos, data_pos, pro_mutex, com_mutex, data>>

PopLock(c) ==
  /\ Goto(c, "lock", "access")
  /\ com_mutex = Nobody
  /\ com_mutex' = c
  /\ UNCHANGED <<queue, com_sem, pro_sem, space_pos, data_pos, pro_mutex, data>>

PopFetch(c) ==
  /\ Goto(c, "access", "advance")
  /\ data' = [data EXCEPT ![c] = queue[data_pos]]
  /\ UNCHANGED <<queue, com_sem, pro_sem, space_pos, data_pos, pro_mutex, com_mutex>>

\* Mutant: the mutex is released before the position has moved.
PopAdvanceAfterUnlock(c) ==
  \/ /\ Goto(c, "advance", "unlock")
     /\ com_mutex' = Nobody
     /\ UNCHANGED <<queue, com_sem, pro_sem, space_pos, data_pos, pro_mutex, data>>
  \/ /\ Goto(c, "unlock", "post")
     /\ data_pos' = (data_pos + 1) % Cap
     /\ UNCHANGED <<queue, com_sem, pro_sem, space_pos, pro_mutex, com_mutex, data>>

PopAdvance(c) ==
  /\ Goto(c, "advance", "unlock")
  /\ data_pos' = (data_pos + 1) % Cap
  /\ UNCHANGED <<queue, com_sem, pro_sem, space_pos, pro_mutex, com_mutex, data>>

PopUnlock(c) ==
  /\ Goto(c, "unlock", "post")
  /\ com_mutex' = Nobody
  /\ UNCHANGED <<queue, com_sem, pro_sem, space_pos, data_pos, pro_mutex, data>>

\* Mutant: pop posts the semaphore it waited for.
PopPostOwn(c) ==
  /\ Goto(c, "post", "wait")
  /\ com_sem' = com_sem + 1
  /\ UNCHANGED <<queue, pro_sem, space_pos, data_pos, pro_mutex, com_mutex, data>>

PopPost(c) ==
  /\ Goto(c, "post", "wait")
  /\ pro_sem' = pro_sem + 1
  /\ UNCHANGED <<queue, com_sem, space_pos, data_pos, pro_mutex, com_mutex, data>>

Pop(c) ==
  \/ PopWait(c) \/ PopLock(c) \/ PopFetch(c)
  \/ PopAdvance(c) \/ PopUnlock(c) \/ PopPost(c)

-----------------------------------------------------------------------------
Next == (\E p \in Producers : Push(p)) \/ (\E c \in Consumers : Pop(c))

(***************************************************************************)
(* Every thread is scheduled.  Weak fairness of a thread says no more than  *)
(* that: a thread that waits for a semaphore or a mutex others keep taking  *)
(* may still wait for ever.                                                 *)
(***************************************************************************)
Fairness ==
  /\ \A p \in Producers : WF_vars(Push(p))
  /\ \A c \in Consumers : WF_vars(Pop(c))

Spec == Init /\ [][Next]_vars /\ Fairness

-----------------------------------------------------------------------------
(* Where the tokens of the semaphores are while calls are under way. *)

At(S, L) == {t \in S : pc[t] \in L}

\* Producers that took a free slot and have not moved space_pos past it.
Filling  == At(Producers, {"lock", "access", "advance"})
\* Producers that filled a slot and have not announced it.
Filled   == At(Producers, {"unlock", "post"})
\* Consumers that took a filled slot and have not moved data_pos past it.
Draining == At(Consumers, {"lock", "access", "advance"})
\* Consumers that emptied a slot and have not given it back.
Drained  == At(Consumers, {"unlock", "post"})

\* The slots from data_pos on that space_pos has been moved past.
Count == com_sem + Cardinality(Draining) + Cardinality(Filled)

Wrap(i) == IF i >= Cap THEN i - Cap ELSE i

(***************************************************************************)
(* Each of the Cap slots is accounted for exactly once, by a semaphore or   *)
(* by one call under way: no slot leaks and none is given out twice.        *)
(***************************************************************************)
Conservation ==
  pro_sem + Cardinality(Filling) + Cardinality(Drained) + Count = Cap

(***************************************************************************)
(* A producer never stores to the slot a consumer is fetching from, though  *)
(* the two hold different mutexes (sem.hpp:61 and sem.hpp:76).              *)
(***************************************************************************)
NoSlotRace ==
  \A p \in Producers, c \in Consumers :
    pc[p] = "access" /\ pc[c] = "access" => space_pos # data_pos

(***************************************************************************)
(* No two producers, and no two consumers, are between lock and unlock:     *)
(* space_pos_ and data_pos_ each have one writer at a time.                 *)
(***************************************************************************)
Inside(S) == At(S, {"access", "advance", "unlock"})
MutualExclusion ==
  /\ \A p, q \in Inside(Producers) : p = q
  /\ \A c, d \in Inside(Consumers) : c = d

(***************************************************************************)
(* The two positions agree with the semaphores: space_pos is Count slots    *)
(* ahead of data_pos.                                                       *)
(***************************************************************************)
PositionsAgree == space_pos = Wrap(data_pos + Count)

-----------------------------------------------------------------------------
(***************************************************************************)
(* Refinement of BoundedFifo.  A push takes effect when it moves space_pos, *)
(* a pop when it fetches: a consumer at "advance" has its value already.    *)
(***************************************************************************)
Fetched == Cardinality(At(Consumers, {"advance"}))

Contents ==
  [i \in 1 .. (Count - Fetched) |-> queue[Wrap(data_pos + Fetched + i - 1)]]

Fifo == INSTANCE BoundedFifo WITH
          fifo <- Contents, got <- [c \in Consumers |-> data[c]]

(***************************************************************************)
(* The ring implements the bounded FIFO: nothing is lost, duplicated or     *)
(* reordered between push and pop, and what is inside is handed out.        *)
(***************************************************************************)
ImplementsFifo == Fifo!Spec

(***************************************************************************)
(* A slot that holds a value is emptied: no pushed value is stranded in     *)
(* the ring while consumers run.                                            *)
(***************************************************************************)
NotFree     == Cap - (pro_sem + Cardinality(Filling) + Cardinality(Drained))
Occupied(s) == \E i \in 0 .. NotFree - 1 : s = (data_pos + i) % Cap
EveryValueLeaves == \A s \in Slots : Occupied(s) ~> ~Occupied(s)
=============================================================================
