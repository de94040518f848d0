-------------------------- MODULE BlockQueueProofs --------------------------
(***************************************************************************)
(* The watermarks of BlockQueue strand nobody, for every number of threads  *)
(* and every capacity, as long as 1 <= low_level <= max_                    *)
(* and high_level < max_.                                                   *)
(* The argument: a side can be waiting in full only while the queue is on   *)
(* the near side of its watermark, as the pop or push that passes the       *)
(* watermark signals one of them; and the last thread of the other side     *)
(* waits only when the queue is empty, or full, which is on the far side.   *)
(* How many values the queue holds, and whether pops have run past its end, *)
(* does not matter: beyond max_ and below zero nobody begins to wait.       *)
(***************************************************************************)
EXTENDS BlockQueue, TLAPS

\* All producers waiting means the queue does not run low, all consumers
\* waiting that it is not filling up.
Watermarks ==
  /\ (\A p \in Producers : pc[p] = "waiting") => ~SizeBelow(Low)
  /\ (\A c \in Consumers : pc[c] = "waiting") => ~SizeAbove(High)

IInv == TypeOK /\ Watermarks /\ NotAllWaiting

LEMMA InitIInv == Init => IInv
<1> SUFFICES ASSUME Init PROVE IInv  OBVIOUS
<1>1. TypeOK  BY DEF Init, TypeOK
<1>2. Watermarks /\ NotAllWaiting
  BY ThreadsAssumption DEF Init, Watermarks, NotAllWaiting, Waiting, Threads
<1> QED  BY <1>1, <1>2 DEF IInv

\* One of S is woken when the watermark is passed and S is waiting.
LEMMA Signal ==
  ASSUME TypeOK, NEW t \in Threads, NEW S \in SUBSET Threads, t \notin S,
         ReturnAndSignal(t, S)
  PROVE  /\ pc' \in [Threads -> {"call", "waiting", "woken", "gone"}]
         /\ pc'[t] = "call"
         /\ S # {} => \E u \in S : pc'[u] # "waiting"
         /\ \A u \in Threads : pc[u] # "waiting" => pc'[u] # "waiting"
<1>1. CASE Waiting(S) = {}
  <2>1. pc' = [pc EXCEPT ![t] = "call"]  BY <1>1 DEF ReturnAndSignal
  <2>2. \A u \in S : pc[u] # "waiting"  BY <1>1 DEF Waiting
  <2> QED  BY <2>1, <2>2 DEF TypeOK
<1>2. CASE Waiting(S) # {}
  <2>1. PICK u \in Waiting(S) : pc' = [pc EXCEPT ![t] = "call", ![u] = "woken"]
    BY <1>2 DEF ReturnAndSignal
  <2>2. u \in S /\ u # t /\ u \in Threads  BY DEF Waiting
  <2> QED  BY <2>1, <2>2 DEF TypeOK
<1> QED  BY <1>1, <1>2

LEMMA TakeIInv ==
  ASSUME IInv, NEW c \in Consumers, Take(c) PROVE IInv'
<1> USE DEF IInv
<1>1. c \in Threads /\ c \notin Producers /\ Producers \in SUBSET Threads
  BY ThreadsAssumption DEF Threads
<1>2. /\ q' \in Seq(Values) /\ got' \in [Consumers -> Values \cup {Garbage, Blank}]
      /\ missing' \in Nat
  <2>1. CASE q = <<>>  BY <2>1 DEF Take, TakeFront, TypeOK
  <2>2. CASE q # <<>>
    <3>1. /\ q' = Tail(q) /\ got' = [got EXCEPT ![c] = Head(q)] /\ q \in Seq(Values)
          /\ missing' = missing
      BY <2>2 DEF Take, TakeFront, TypeOK
    <3>2. Tail(q) \in Seq(Values) /\ Head(q) \in Values  BY <2>2, <3>1
    <3> QED  BY <3>1, <3>2 DEF TypeOK
  <2> QED  BY <2>1, <2>2
<1>3. CASE SizeBelow(Low)'
  <2>1. ReturnAndSignal(c, Producers)  BY <1>3 DEF Take
  <2>2. /\ pc' \in [Threads -> {"call", "waiting", "woken", "gone"}] /\ pc'[c] = "call"
        /\ \E u \in Producers : pc'[u] # "waiting"
    BY <2>1, <1>1, Signal, ThreadsAssumption
  <2> QED
    BY <1>1, <1>2, <2>2 DEF TypeOK, Watermarks, NotAllWaiting, Waiting
<1>4. CASE ~SizeBelow(Low)'
  <2>1. pc' = [pc EXCEPT ![c] = "call"]  BY <1>4 DEF Take, Return
  <2>2. pc'[c] = "call" /\ pc' \in [Threads -> {"call", "waiting", "woken", "gone"}]
    BY <2>1, <1>1 DEF TypeOK
  <2> QED
    BY <1>1, <1>2, <1>4, <2>2 DEF TypeOK, Watermarks, NotAllWaiting, Waiting
<1> QED  BY <1>3, <1>4

LEMMA PutIInv ==
  ASSUME IInv, NEW p \in Producers, Put(p) PROVE IInv'
<1> USE DEF IInv
<1>1. p \in Threads /\ p \notin Consumers /\ Consumers \in SUBSET Threads
  BY ThreadsAssumption DEF Threads
<1>2. q' \in Seq(Values) /\ missing' \in Nat /\ got' = got
  <2>1. PICK v \in Values : PutBack(v)  BY DEF Put
  <2>2. CASE missing > 0  BY <2>1, <2>2 DEF Put, PutBack, TypeOK
  <2>3. CASE ~(missing > 0)  BY <2>1, <2>3 DEF Put, PutBack, TypeOK
  <2> QED  BY <2>2, <2>3
<1>3. CASE SizeAbove(High)'
  <2>1. ReturnAndSignal(p, Consumers)  BY <1>3 DEF Put
  <2>2. /\ pc' \in [Threads -> {"call", "waiting", "woken", "gone"}] /\ pc'[p] = "call"
        /\ \E u \in Consumers : pc'[u] # "waiting"
    BY <2>1, <1>1, Signal, ThreadsAssumption
  <2> QED
    BY <1>1, <1>2, <2>2 DEF TypeOK, Watermarks, NotAllWaiting, Waiting
<1>4. CASE ~SizeAbove(High)'
  <2>1. pc' = [pc EXCEPT ![p] = "call"]  BY <1>4 DEF Put, Return
  <2>2. pc'[p] = "call" /\ pc' \in [Threads -> {"call", "waiting", "woken", "gone"}]
    BY <2>1, <1>1 DEF TypeOK
  <2> QED
    BY <1>1, <1>2, <1>4, <2>2 DEF TypeOK, Watermarks, NotAllWaiting, Waiting
<1> QED  BY <1>3, <1>4

\* What the sizes say about each other.
LEMMA Sizes ==
  /\ SizeIs(0) => SizeBelow(Low) /\ ~SizeAbove(High)
  /\ SizeIs(Max) => SizeAbove(High) /\ ~SizeBelow(Low)
BY LevelsAssumption DEF SizeIs, SizeBelow, SizeAbove

LEMMA NextIInv == IInv /\ [Next]_vars => IInv'
<1> SUFFICES ASSUME IInv, [Next]_vars PROVE IInv'  OBVIOUS
<1> USE DEF IInv
<1>1. ASSUME NEW c \in Consumers, PopWait(c) PROVE IInv'
  <2>1. /\ SizeIs(0) /\ UNCHANGED <<q, missing, got>>
        /\ pc' = [pc EXCEPT ![c] = "waiting"]
        /\ c \in Threads /\ c \notin Producers
    BY <1>1, ThreadsAssumption DEF PopWait, Wait, Threads
  <2>2. PICK u \in Producers : pc[u] # "waiting"  BY <2>1, Sizes DEF Watermarks
  <2>3. pc'[u] # "waiting" /\ u \in Threads  BY <2>1, <2>2 DEF Threads, TypeOK
  <2>4. ~SizeAbove(High)'  BY <2>1, Sizes DEF SizeAbove
  <2> QED  BY <2>1, <2>3, <2>4 DEF TypeOK, Watermarks, NotAllWaiting, Waiting
<1>2. ASSUME NEW p \in Producers, PushWait(p) PROVE IInv'
  <2>1. /\ SizeIs(Max) /\ UNCHANGED <<q, missing, got>>
        /\ pc' = [pc EXCEPT ![p] = "waiting"]
        /\ p \in Threads /\ p \notin Consumers
    BY <1>2, ThreadsAssumption DEF PushWait, Wait, Threads
  <2>2. PICK u \in Consumers : pc[u] # "waiting"  BY <2>1, Sizes DEF Watermarks
  <2>3. pc'[u] # "waiting" /\ u \in Threads  BY <2>1, <2>2 DEF Threads, TypeOK
  <2>4. ~SizeBelow(Low)'  BY <2>1, Sizes DEF SizeBelow
  <2> QED  BY <2>1, <2>3, <2>4 DEF TypeOK, Watermarks, NotAllWaiting, Waiting
<1>3. ASSUME NEW t \in Threads, SpuriousWakeup(t) PROVE IInv'
  <2>1. UNCHANGED <<q, missing, got>> /\ pc' = [pc EXCEPT ![t] = "woken"]
    BY <1>3 DEF SpuriousWakeup
  <2>2. SizeBelow(Low)' <=> SizeBelow(Low)  BY <2>1 DEF SizeBelow
  <2>3. SizeAbove(High)' <=> SizeAbove(High)  BY <2>1 DEF SizeAbove
  <2> QED
    BY <2>1, <2>2, <2>3, <1>3 DEF TypeOK, Watermarks, NotAllWaiting, Waiting, Threads
<1>4. ASSUME NEW c \in Consumers, PopBreaks(c) PROVE IInv'
  <2>1. UNCHANGED <<q, missing, got>> /\ pc' = [t \in Threads |-> "gone"]
    BY <1>4 DEF PopBreaks
  <2> QED
    BY <2>1, ThreadsAssumption DEF TypeOK, Watermarks, NotAllWaiting, Waiting, Threads
<1>5. CASE UNCHANGED vars
  BY <1>5 DEF vars, TypeOK, Watermarks, NotAllWaiting, Waiting, SizeBelow, SizeAbove
<1> QED
  BY <1>1, <1>2, <1>3, <1>4, <1>5, TakeIInv, PutIInv
  DEF Next, Pop, Push, PopTake, PopWoken, PushPut, PushWoken

THEOREM Invariance == Spec => []IInv
BY InitIInv, NextIInv, PTL DEF Spec

\* The queue, the threads and their results keep their types.
THEOREM TypeCorrect == Spec => []TypeOK
<1>1. IInv => TypeOK  BY DEF IInv
<1> QED  BY <1>1, Invariance, PTL

\* Never are all threads waiting for each other's signals.
THEOREM NobodyStranded == Spec => []NotAllWaiting
<1>1. IInv => NotAllWaiting  BY DEF IInv
<1> QED  BY <1>1, Invariance, PTL
=============================================================================
