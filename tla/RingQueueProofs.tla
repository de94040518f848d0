-------------------------- MODULE RingQueueProofs --------------------------
(***************************************************************************)
(* The safety of Ring_queue for every number of threads and every ring      *)
(* size.  The two sides of the ring hold different mutexes, so what keeps   *)
(* them apart is arithmetic: IInv says that the semaphore tokens, wherever  *)
(* they are, add up to Cap, and that the distance of the two positions is   *)
(* the number of filled slots.                                              *)
(***************************************************************************)
EXTENDS RingQueue, FiniteSetTheorems, SequenceTheorems, TLAPS

\* A mutex is owned by the thread between its lock and its unlock.
MutexOwners ==
  /\ \A p \in Producers : (pro_mutex = p) <=> (pc[p] \in {"access", "advance", "unlock"})
  /\ \A c \in Consumers : (com_mutex = c) <=> (pc[c] \in {"access", "advance", "unlock"})

IInv == TypeOK /\ MutexOwners /\ Conservation /\ PositionsAgree

-----------------------------------------------------------------------------
(* How many threads are where.                                               *)

\* 1 when b holds, 0 otherwise.
Bit(b) == IF b THEN 1 ELSE 0

\* Two sets that differ at most in t have sizes that differ by t's membership.
LEMMA CardinalityMove ==
  ASSUME NEW A, NEW B, NEW t, IsFiniteSet(A), A \ {t} = B \ {t}
  PROVE  /\ IsFiniteSet(B)
         /\ Cardinality(A) \in Nat
         /\ Cardinality(B) \in Nat
         /\ Cardinality(B) = Cardinality(A) - Bit(t \in A) + Bit(t \in B)
<1> DEFINE C == A \ {t}
<1>1. IsFiniteSet(C) /\ Cardinality(C) \in Nat
  BY FS_Difference, FS_CardinalityType
<1>2. ASSUME NEW X, X \ {t} = C
      PROVE  /\ IsFiniteSet(X) /\ Cardinality(X) \in Nat
             /\ Cardinality(X) = Cardinality(C) + Bit(t \in X)
  <2>1. CASE t \in X
    <3>1. X = C \cup {t} /\ t \notin C  BY <1>2, <2>1
    <3>2. IsFiniteSet(X) /\ Cardinality(X) = Cardinality(C) + 1
      BY <3>1, <1>1, FS_AddElement
    <3> QED  BY <3>2, <2>1, <1>1 DEF Bit
  <2>2. CASE t \notin X
    <3>1. X = C  BY <1>2, <2>2
    <3> QED  BY <3>1, <2>2, <1>1 DEF Bit
  <2> QED  BY <2>1, <2>2
<1>3. /\ Cardinality(A) = Cardinality(C) + Bit(t \in A)
      /\ Cardinality(A) \in Nat
  BY <1>2
<1>4. /\ IsFiniteSet(B) /\ Cardinality(B) \in Nat
      /\ Cardinality(B) = Cardinality(C) + Bit(t \in B)
  BY <1>2
<1>5. Bit(t \in A) \in Int /\ Bit(t \in B) \in Int  BY DEF Bit
<1> QED  BY <1>1, <1>3, <1>4, <1>5

\* How the number of threads of S at the labels L changes when t moves.
LEMMA MoveCount ==
  ASSUME TypeOK, NEW t \in Threads, NEW from, NEW to, Goto(t, from, to),
         NEW S \in SUBSET Threads, IsFiniteSet(S), NEW L
  PROVE  /\ Cardinality(At(S, L)) \in Nat
         /\ Cardinality(At(S, L)') \in Nat
         /\ Cardinality(At(S, L)') =
              Cardinality(At(S, L)) - Bit(t \in S /\ from \in L)
                                    + Bit(t \in S /\ to \in L)
<1>1. IsFiniteSet(At(S, L))  BY FS_Subset DEF At
<1>2. pc' = [pc EXCEPT ![t] = to] /\ pc[t] = from /\ pc \in [Threads -> Labels]
  BY DEF Goto, TypeOK
<1>3. At(S, L) \ {t} = At(S, L)' \ {t}  BY <1>2 DEF At
<1>4. (t \in At(S, L)) <=> (t \in S /\ from \in L)  BY <1>2 DEF At
<1>5. (t \in At(S, L)') <=> (t \in S /\ to \in L)  BY <1>2 DEF At
<1> QED  BY <1>1, <1>3, <1>4, <1>5, CardinalityMove DEF Bit

LEMMA Increment ==
  ASSUME NEW i \in Slots
  PROVE  (i + 1) % Cap = IF i + 1 = Cap THEN 0 ELSE i + 1
BY CapAssumption DEF Slots

\* Threads of S at L are a finite set, and one of them makes it nonempty.
LEMMA AtFacts ==
  ASSUME NEW S \in {Producers, Consumers}, NEW L
  PROVE  /\ Cardinality(At(S, L)) \in Nat
         /\ \A t \in S : pc[t] \in L => Cardinality(At(S, L)) > 0
<1>1. IsFiniteSet(At(S, L))  BY ThreadsAssumption, FS_Subset DEF At
<1>2. Cardinality(At(S, L)) \in Nat  BY <1>1, FS_CardinalityType
<1>3. (\E t \in S : pc[t] \in L) => At(S, L) # {}  BY DEF At
<1>4. At(S, L) # {} => Cardinality(At(S, L)) # 0  BY <1>1, FS_EmptySet
<1> QED  BY <1>2, <1>3, <1>4
-----------------------------------------------------------------------------
(* The four groups of threads, when thread t moves.                          *)

\* A producer's move leaves the consumers' groups alone, and changes its own.
LEMMA ProducerMoves ==
  ASSUME TypeOK, NEW p \in Producers, NEW from, NEW to, Goto(p, from, to)
  PROVE  /\ Cardinality(Filling') = Cardinality(Filling)
                - Bit(from \in {"lock", "access", "advance"})
                + Bit(to \in {"lock", "access", "advance"})
         /\ Cardinality(Filled') = Cardinality(Filled)
                - Bit(from \in {"unlock", "post"}) + Bit(to \in {"unlock", "post"})
         /\ Cardinality(Draining') = Cardinality(Draining)
         /\ Cardinality(Drained') = Cardinality(Drained)
<1>1. /\ p \in Threads /\ p \notin Consumers
      /\ Producers \in SUBSET Threads /\ IsFiniteSet(Producers)
      /\ Consumers \in SUBSET Threads /\ IsFiniteSet(Consumers)
  BY ThreadsAssumption DEF Threads
<1>2. Cardinality(Filling') = Cardinality(Filling)
        - Bit(p \in Producers /\ from \in {"lock", "access", "advance"})
        + Bit(p \in Producers /\ to \in {"lock", "access", "advance"})
  BY <1>1, MoveCount DEF Filling
<1>3. Cardinality(Filled') = Cardinality(Filled)
        - Bit(p \in Producers /\ from \in {"unlock", "post"})
        + Bit(p \in Producers /\ to \in {"unlock", "post"})
  BY <1>1, MoveCount DEF Filled
<1>4. Draining' = Draining /\ Drained' = Drained
  BY <1>1 DEF Draining, Drained, At, Goto, TypeOK
<1> QED  BY <1>2, <1>3, <1>4 DEF Bit

\* The same for a consumer.
LEMMA ConsumerMoves ==
  ASSUME TypeOK, NEW c \in Consumers, NEW from, NEW to, Goto(c, from, to)
  PROVE  /\ Cardinality(Draining') = Cardinality(Draining)
                - Bit(from \in {"lock", "access", "advance"})
                + Bit(to \in {"lock", "access", "advance"})
         /\ Cardinality(Drained') = Cardinality(Drained)
                - Bit(from \in {"unlock", "post"}) + Bit(to \in {"unlock", "post"})
         /\ Cardinality(Filling') = Cardinality(Filling)
         /\ Cardinality(Filled') = Cardinality(Filled)
<1>1. /\ c \in Threads /\ c \notin Producers
      /\ Consumers \in SUBSET Threads /\ IsFiniteSet(Consumers)
  BY ThreadsAssumption DEF Threads
<1>2. Cardinality(Draining') = Cardinality(Draining)
        - Bit(c \in Consumers /\ from \in {"lock", "access", "advance"})
        + Bit(c \in Consumers /\ to \in {"lock", "access", "advance"})
  BY <1>1, MoveCount DEF Draining
<1>3. Cardinality(Drained') = Cardinality(Drained)
        - Bit(c \in Consumers /\ from \in {"unlock", "post"})
        + Bit(c \in Consumers /\ to \in {"unlock", "post"})
  BY <1>1, MoveCount DEF Drained
<1>4. Filling' = Filling /\ Filled' = Filled
  BY <1>1 DEF Filling, Filled, At, Goto, TypeOK
<1> QED  BY <1>2, <1>3, <1>4 DEF Bit

\* What the conservation of slots says about the number of filled ones.
LEMMA Bounds ==
  ASSUME TypeOK, Conservation
  PROVE  /\ Cardinality(Filling) \in Nat /\ Cardinality(Filled) \in Nat
         /\ Cardinality(Draining) \in Nat /\ Cardinality(Drained) \in Nat
         /\ Count \in 0 .. Cap
         /\ \A p \in Producers :
              pc[p] \in {"lock", "access", "advance"} => Count < Cap
         /\ \A p \in Producers : pc[p] \in {"unlock", "post"} => com_sem < Cap
         /\ \A c \in Consumers :
              pc[c] \in {"lock", "access", "advance"} => Count > 0
         /\ \A c \in Consumers : pc[c] \in {"unlock", "post"} => pro_sem < Cap
<1>1. /\ Cardinality(Filling) \in Nat
      /\ \A p \in Producers :
           pc[p] \in {"lock", "access", "advance"} => Cardinality(Filling) > 0
  BY AtFacts DEF Filling
<1>2. /\ Cardinality(Filled) \in Nat
      /\ \A p \in Producers : pc[p] \in {"unlock", "post"} => Cardinality(Filled) > 0
  BY AtFacts DEF Filled
<1>3. /\ Cardinality(Draining) \in Nat
      /\ \A c \in Consumers :
           pc[c] \in {"lock", "access", "advance"} => Cardinality(Draining) > 0
  BY AtFacts DEF Draining
<1>4. /\ Cardinality(Drained) \in Nat
      /\ \A c \in Consumers : pc[c] \in {"unlock", "post"} => Cardinality(Drained) > 0
  BY AtFacts DEF Drained
<1>5. com_sem \in Nat /\ pro_sem \in Nat /\ Cap \in Nat
  BY CapAssumption DEF TypeOK
<1> QED  BY <1>1, <1>2, <1>3, <1>4, <1>5 DEF Conservation, Count

-----------------------------------------------------------------------------
LEMMA InitIInv == Init => IInv
<1> SUFFICES ASSUME Init PROVE IInv  OBVIOUS
<1> USE CapAssumption, ThreadsAssumption
<1>1. TypeOK  BY DEF Init, TypeOK, Slots, Labels, Threads
<1>2. MutexOwners  BY DEF Init, MutexOwners, Threads
<1>3. Filling = {} /\ Filled = {} /\ Draining = {} /\ Drained = {}
  BY DEF Init, Filling, Filled, Draining, Drained, At, Threads
<1>4. Cardinality({}) = 0  BY FS_EmptySet
<1>5. Conservation /\ PositionsAgree
  BY <1>3, <1>4 DEF Init, Conservation, PositionsAgree, Count, Wrap
<1> QED  BY <1>1, <1>2, <1>5 DEF IInv
\* Each step of push keeps the invariant.
LEMMA PushIInv == ASSUME IInv, NEW p \in Producers, Push(p) PROVE IInv'
<1> USE CapAssumption, ThreadsAssumption
<1>1. CASE PushWait(p)
  <2>1. Goto(p, "wait", "lock")  BY <1>1 DEF PushWait
  <2>2. /\ Cardinality(Filling') = Cardinality(Filling) + 1
        /\ Cardinality(Filled') = Cardinality(Filled)
        /\ Cardinality(Draining') = Cardinality(Draining)
        /\ Cardinality(Drained') = Cardinality(Drained)
    BY <2>1, ProducerMoves, Bounds DEF IInv, Bit
  <2>3. TypeOK'
    BY <1>1, Bounds DEF PushWait, Goto, IInv, TypeOK, Threads, Labels, Slots
  <2>4. MutexOwners'
    BY <1>1 DEF PushWait, Goto, IInv, TypeOK, MutexOwners, Threads
  <2>5. Conservation'
    BY <1>1, <2>2, Bounds DEF PushWait, IInv, TypeOK, Conservation, Count
  <2>6. PositionsAgree'
    BY <1>1, <2>2, Bounds DEF PushWait, IInv, TypeOK, PositionsAgree, Count, Wrap, Slots
  <2> QED  BY <2>3, <2>4, <2>5, <2>6 DEF IInv
<1>2. CASE PushLock(p)
  <2>1. Goto(p, "lock", "access")  BY <1>2 DEF PushLock
  <2>2. /\ Cardinality(Filling') = Cardinality(Filling)
        /\ Cardinality(Filled') = Cardinality(Filled)
        /\ Cardinality(Draining') = Cardinality(Draining)
        /\ Cardinality(Drained') = Cardinality(Drained)
    BY <2>1, ProducerMoves, Bounds DEF IInv, Bit
  <2>3. TypeOK'
    BY <1>2, Bounds DEF PushLock, Goto, IInv, TypeOK, Threads, Labels, Slots
  <2>4. MutexOwners'
    BY <1>2 DEF PushLock, Goto, IInv, TypeOK, MutexOwners, Threads
  <2>5. Conservation'
    BY <1>2, <2>2, Bounds DEF PushLock, IInv, TypeOK, Conservation, Count
  <2>6. PositionsAgree'
    BY <1>2, <2>2, Bounds DEF PushLock, IInv, TypeOK, PositionsAgree, Count, Wrap, Slots
  <2> QED  BY <2>3, <2>4, <2>5, <2>6 DEF IInv
<1>3. CASE PushStore(p)
  <2>1. Goto(p, "access", "advance")  BY <1>3 DEF PushStore
  <2>2. /\ Cardinality(Filling') = Cardinality(Filling)
        /\ Cardinality(Filled') = Cardinality(Filled)
        /\ Cardinality(Draining') = Cardinality(Draining)
        /\ Cardinality(Drained') = Cardinality(Drained)
    BY <2>1, ProducerMoves, Bounds DEF IInv, Bit
  <2>3. TypeOK'
    BY <1>3, Bounds DEF PushStore, Goto, IInv, TypeOK, Threads, Labels, Slots
  <2>4. MutexOwners'
    BY <1>3 DEF PushStore, Goto, IInv, TypeOK, MutexOwners, Threads
  <2>5. Conservation'
    BY <1>3, <2>2, Bounds DEF PushStore, IInv, TypeOK, Conservation, Count
  <2>6. PositionsAgree'
    BY <1>3, <2>2, Bounds DEF PushStore, IInv, TypeOK, PositionsAgree, Count, Wrap, Slots
  <2> QED  BY <2>3, <2>4, <2>5, <2>6 DEF IInv
<1>4. CASE PushAdvance(p)
  <2>1. Goto(p, "advance", "unlock")  BY <1>4 DEF PushAdvance
  <2>2. /\ Cardinality(Filling') = Cardinality(Filling) - 1
        /\ Cardinality(Filled') = Cardinality(Filled) + 1
        /\ Cardinality(Draining') = Cardinality(Draining)
        /\ Cardinality(Drained') = Cardinality(Drained)
    BY <2>1, ProducerMoves, Bounds DEF IInv, Bit
  <2>3. TypeOK'
    BY <1>4, Bounds, Increment DEF PushAdvance, Goto, IInv, TypeOK, Threads, Labels, Slots
  <2>4. MutexOwners'
    BY <1>4 DEF PushAdvance, Goto, IInv, TypeOK, MutexOwners, Threads
  <2>5. Conservation'
    BY <1>4, <2>2, Bounds DEF PushAdvance, IInv, TypeOK, Conservation, Count
  <2>6. PositionsAgree'
    <3>1. Count \in 0 .. Cap /\ Count < Cap
      BY <2>1, Bounds DEF IInv, Goto
    <3>2. Count' = Count + 1
      BY <1>4, <2>2, Bounds DEF PushAdvance, IInv, TypeOK, Count
    <3>3. space_pos' = IF space_pos + 1 = Cap THEN 0 ELSE space_pos + 1
      BY <1>4, Increment DEF PushAdvance, IInv, TypeOK
    <3>4. data_pos' = data_pos /\ data_pos \in Slots /\ space_pos = Wrap(data_pos + Count)
      BY <1>4 DEF PushAdvance, IInv, TypeOK, PositionsAgree
    <3> QED  BY <3>1, <3>2, <3>3, <3>4 DEF PositionsAgree, Wrap, Slots
  <2> QED  BY <2>3, <2>4, <2>5, <2>6 DEF IInv
<1>5. CASE PushUnlock(p)
  <2>1. Goto(p, "unlock", "post")  BY <1>5 DEF PushUnlock
  <2>2. /\ Cardinality(Filling') = Cardinality(Filling)
        /\ Cardinality(Filled') = Cardinality(Filled)
        /\ Cardinality(Draining') = Cardinality(Draining)
        /\ Cardinality(Drained') = Cardinality(Drained)
    BY <2>1, ProducerMoves, Bounds DEF IInv, Bit
  <2>3. TypeOK'
    BY <1>5, Bounds DEF PushUnlock, Goto, IInv, TypeOK, Threads, Labels, Slots
  <2>4. MutexOwners'
    BY <1>5 DEF PushUnlock, Goto, IInv, TypeOK, MutexOwners, Threads
  <2>5. Conservation'
    BY <1>5, <2>2, Bounds DEF PushUnlock, IInv, TypeOK, Conservation, Count
  <2>6. PositionsAgree'
    BY <1>5, <2>2, Bounds DEF PushUnlock, IInv, TypeOK, PositionsAgree, Count, Wrap, Slots
  <2> QED  BY <2>3, <2>4, <2>5, <2>6 DEF IInv
<1>6. CASE PushPost(p)
  <2>1. Goto(p, "post", "wait")  BY <1>6 DEF PushPost
  <2>2. /\ Cardinality(Filling') = Cardinality(Filling)
        /\ Cardinality(Filled') = Cardinality(Filled) - 1
        /\ Cardinality(Draining') = Cardinality(Draining)
        /\ Cardinality(Drained') = Cardinality(Drained)
    BY <2>1, ProducerMoves, Bounds DEF IInv, Bit
  <2>3. TypeOK'
    BY <1>6, Bounds DEF PushPost, Goto, IInv, TypeOK, Threads, Labels, Slots
  <2>4. MutexOwners'
    BY <1>6 DEF PushPost, Goto, IInv, TypeOK, MutexOwners, Threads
  <2>5. Conservation'
    BY <1>6, <2>2, Bounds DEF PushPost, IInv, TypeOK, Conservation, Count
  <2>6. PositionsAgree'
    <3>1. Count' = Count
      BY <1>6, <2>2, Bounds DEF PushPost, IInv, TypeOK, Count
    <3> QED  BY <1>6, <3>1 DEF PushPost, IInv, PositionsAgree, Wrap
  <2> QED  BY <2>3, <2>4, <2>5, <2>6 DEF IInv
<1> QED  BY <1>1, <1>2, <1>3, <1>4, <1>5, <1>6 DEF Push

\* Each step of pop keeps the invariant.
LEMMA PopIInv == ASSUME IInv, NEW c \in Consumers, Pop(c) PROVE IInv'
<1> USE CapAssumption, ThreadsAssumption
<1>1. CASE PopWait(c)
  <2>1. Goto(c, "wait", "lock")  BY <1>1 DEF PopWait
  <2>2. /\ Cardinality(Filling') = Cardinality(Filling)
        /\ Cardinality(Filled') = Cardinality(Filled)
        /\ Cardinality(Draining') = Cardinality(Draining) + 1
        /\ Cardinality(Drained') = Cardinality(Drained)
    BY <2>1, ConsumerMoves, Bounds DEF IInv, Bit
  <2>3. TypeOK'
    BY <1>1, Bounds DEF PopWait, Goto, IInv, TypeOK, Threads, Labels, Slots
  <2>4. MutexOwners'
    BY <1>1 DEF PopWait, Goto, IInv, TypeOK, MutexOwners, Threads
  <2>5. Conservation'
    BY <1>1, <2>2, Bounds DEF PopWait, IInv, TypeOK, Conservation, Count
  <2>6. PositionsAgree'
    BY <1>1, <2>2, Bounds DEF PopWait, IInv, TypeOK, PositionsAgree, Count, Wrap, Slots
  <2> QED  BY <2>3, <2>4, <2>5, <2>6 DEF IInv
<1>2. CASE PopLock(c)
  <2>1. Goto(c, "lock", "access")  BY <1>2 DEF PopLock
  <2>2. /\ Cardinality(Filling') = Cardinality(Filling)
        /\ Cardinality(Filled') = Cardinality(Filled)
        /\ Cardinality(Draining') = Cardinality(Draining)
        /\ Cardinality(Drained') = Cardinality(Drained)
    BY <2>1, ConsumerMoves, Bounds DEF IInv, Bit
  <2>3. TypeOK'
    BY <1>2, Bounds DEF PopLock, Goto, IInv, TypeOK, Threads, Labels, Slots
  <2>4. MutexOwners'
    BY <1>2 DEF PopLock, Goto, IInv, TypeOK, MutexOwners, Threads
  <2>5. Conservation'
    BY <1>2, <2>2, Bounds DEF PopLock, IInv, TypeOK, Conservation, Count
  <2>6. PositionsAgree'
    BY <1>2, <2>2, Bounds DEF PopLock, IInv, TypeOK, PositionsAgree, Count, Wrap, Slots
  <2> QED  BY <2>3, <2>4, <2>5, <2>6 DEF IInv
<1>3. CASE PopFetch(c)
  <2>1. Goto(c, "access", "advance")  BY <1>3 DEF PopFetch
  <2>2. /\ Cardinality(Filling') = Cardinality(Filling)
        /\ Cardinality(Filled') = Cardinality(Filled)
        /\ Cardinality(Draining') = Cardinality(Draining)
        /\ Cardinality(Drained') = Cardinality(Drained)
    BY <2>1, ConsumerMoves, Bounds DEF IInv, Bit
  <2>3. TypeOK'
    BY <1>3, Bounds DEF PopFetch, Goto, IInv, TypeOK, Threads, Labels, Slots
  <2>4. MutexOwners'
    BY <1>3 DEF PopFetch, Goto, IInv, TypeOK, MutexOwners, Threads
  <2>5. Conservation'
    BY <1>3, <2>2, Bounds DEF PopFetch, IInv, TypeOK, Conservation, Count
  <2>6. PositionsAgree'
    BY <1>3, <2>2, Bounds DEF PopFetch, IInv, TypeOK, PositionsAgree, Count, Wrap, Slots
  <2> QED  BY <2>3, <2>4, <2>5, <2>6 DEF IInv
<1>4. CASE PopAdvance(c)
  <2>1. Goto(c, "advance", "unlock")  BY <1>4 DEF PopAdvance
  <2>2. /\ Cardinality(Filling') = Cardinality(Filling)
        /\ Cardinality(Filled') = Cardinality(Filled)
        /\ Cardinality(Draining') = Cardinality(Draining) - 1
        /\ Cardinality(Drained') = Cardinality(Drained) + 1
    BY <2>1, ConsumerMoves, Bounds DEF IInv, Bit
  <2>3. TypeOK'
    BY <1>4, Bounds, Increment DEF PopAdvance, Goto, IInv, TypeOK, Threads, Labels, Slots
  <2>4. MutexOwners'
    BY <1>4 DEF PopAdvance, Goto, IInv, TypeOK, MutexOwners, Threads
  <2>5. Conservation'
    BY <1>4, <2>2, Bounds DEF PopAdvance, IInv, TypeOK, Conservation, Count
  <2>6. PositionsAgree'
    <3>1. Count \in 0 .. Cap /\ Count > 0
      BY <2>1, Bounds DEF IInv, Goto
    <3>2. Count' = Count - 1
      BY <1>4, <2>2, Bounds DEF PopAdvance, IInv, TypeOK, Count
    <3>3. data_pos' = IF data_pos + 1 = Cap THEN 0 ELSE data_pos + 1
      BY <1>4, Increment DEF PopAdvance, IInv, TypeOK
    <3>4. space_pos' = space_pos /\ data_pos \in Slots /\ space_pos = Wrap(data_pos + Count)
      BY <1>4 DEF PopAdvance, IInv, TypeOK, PositionsAgree
    <3> QED  BY <3>1, <3>2, <3>3, <3>4 DEF PositionsAgree, Wrap, Slots
  <2> QED  BY <2>3, <2>4, <2>5, <2>6 DEF IInv
<1>5. CASE PopUnlock(c)
  <2>1. Goto(c, "unlock", "post")  BY <1>5 DEF PopUnlock
  <2>2. /\ Cardinality(Filling') = Cardinality(Filling)
        /\ Cardinality(Filled') = Cardinality(Filled)
        /\ Cardinality(Draining') = Cardinality(Draining)
        /\ Cardinality(Drained') = Cardinality(Drained)
    BY <2>1, ConsumerMoves, Bounds DEF IInv, Bit
  <2>3. TypeOK'
    BY <1>5, Bounds DEF PopUnlock, Goto, IInv, TypeOK, Threads, Labels, Slots
  <2>4. MutexOwners'
    BY <1>5 DEF PopUnlock, Goto, IInv, TypeOK, MutexOwners, Threads
  <2>5. Conservation'
    BY <1>5, <2>2, Bounds DEF PopUnlock, IInv, TypeOK, Conservation, Count
  <2>6. PositionsAgree'
    BY <1>5, <2>2, Bounds DEF PopUnlock, IInv, TypeOK, PositionsAgree, Count, Wrap, Slots
  <2> QED  BY <2>3, <2>4, <2>5, <2>6 DEF IInv
<1>6. CASE PopPost(c)
  <2>1. Goto(c, "post", "wait")  BY <1>6 DEF PopPost
  <2>2. /\ Cardinality(Filling') = Cardinality(Filling)
        /\ Cardinality(Filled') = Cardinality(Filled)
        /\ Cardinality(Draining') = Cardinality(Draining)
        /\ Cardinality(Drained') = Cardinality(Drained) - 1
    BY <2>1, ConsumerMoves, Bounds DEF IInv, Bit
  <2>3. TypeOK'
    BY <1>6, Bounds DEF PopPost, Goto, IInv, TypeOK, Threads, Labels, Slots
  <2>4. MutexOwners'
    BY <1>6 DEF PopPost, Goto, IInv, TypeOK, MutexOwners, Threads
  <2>5. Conservation'
    BY <1>6, <2>2, Bounds DEF PopPost, IInv, TypeOK, Conservation, Count
  <2>6. PositionsAgree'
    BY <1>6, <2>2, Bounds DEF PopPost, IInv, TypeOK, PositionsAgree, Count, Wrap, Slots
  <2> QED  BY <2>3, <2>4, <2>5, <2>6 DEF IInv
<1> QED  BY <1>1, <1>2, <1>3, <1>4, <1>5, <1>6 DEF Pop

LEMMA NextIInv == IInv /\ [Next]_vars => IInv'
<1> SUFFICES ASSUME IInv, [Next]_vars PROVE IInv'  OBVIOUS
<1>1. CASE Next  BY <1>1, PushIInv, PopIInv DEF Next
<1>2. CASE UNCHANGED vars
  BY <1>2 DEF vars, IInv, TypeOK, MutexOwners, Conservation, PositionsAgree, Count,
              Wrap, Filling, Filled, Draining, Drained, At
<1> QED  BY <1>1, <1>2

\* The inductive invariant holds of every execution of the threads.
THEOREM Invariance == Spec => []IInv
BY InitIInv, NextIInv, PTL DEF Spec

-----------------------------------------------------------------------------
\* Every variable has its type: no semaphore exceeds the ring's size.
THEOREM TypeCorrect == Spec => []TypeOK
<1>1. IInv => TypeOK  BY DEF IInv
<1> QED  BY <1>1, Invariance, PTL

\* No slot leaks out of the accounting of the two semaphores.
THEOREM SlotsConserved == Spec => []Conservation
<1>1. IInv => Conservation  BY DEF IInv
<1> QED  BY <1>1, Invariance, PTL

\* space_pos_ and data_pos_ are always the number of filled slots apart.
THEOREM PositionsAlwaysAgree == Spec => []PositionsAgree
<1>1. IInv => PositionsAgree  BY DEF IInv
<1> QED  BY <1>1, Invariance, PTL

\* One producer and one consumer at a time between lock and unlock.
THEOREM Exclusion == Spec => []MutualExclusion
<1>1. IInv => MutualExclusion
  BY DEF IInv, MutexOwners, MutualExclusion, Inside, At
<1> QED  BY <1>1, Invariance, PTL

\* A producer and a consumer, which hold different mutexes, never use one slot
\* at the same time: both being under way bounds Count away from 0 and from Cap.
THEOREM NoRace == Spec => []NoSlotRace
<1>1. IInv => NoSlotRace
  <2> SUFFICES ASSUME IInv, NEW p \in Producers, NEW c \in Consumers,
                      pc[p] = "access", pc[c] = "access"
               PROVE  space_pos # data_pos
    BY DEF NoSlotRace
  <2>1. Count \in 0 .. Cap /\ Count < Cap /\ Count > 0  BY Bounds DEF IInv
  <2> QED
    BY <2>1, CapAssumption DEF IInv, TypeOK, PositionsAgree, Wrap, Slots
<1> QED  BY <1>1, Invariance, PTL

-----------------------------------------------------------------------------
(* Somebody can always go on.                                                *)

\* What thread t's next access waits for is there.
MayStep(t) ==
  /\ pc[t] = "wait" => (IF t \in Producers THEN pro_sem ELSE com_sem) > 0
  /\ pc[t] = "lock" => (IF t \in Producers THEN pro_mutex ELSE com_mutex) = Nobody

SomeoneRuns == \E t \in Threads : MayStep(t)

\* Threads that all wait hold no slot, so the semaphores have all Cap of them.
LEMMA AllWaiting ==
  ASSUME TypeOK, Conservation, \A t \in Threads : pc[t] = "wait"
  PROVE  pro_sem > 0 \/ com_sem > 0
<1>1. Filling = {} /\ Filled = {} /\ Draining = {} /\ Drained = {}
  BY DEF Filling, Filled, Draining, Drained, At, Threads
<1>2. Cardinality({}) = 0  BY FS_EmptySet
<1>3. pro_sem + com_sem = Cap
  BY <1>1, <1>2 DEF Conservation, Count, TypeOK
<1> QED  BY <1>3, CapAssumption DEF TypeOK

\* The two semaphores and the two mutexes never hold up all threads at once: the
\* owner of a mutex runs, a mutex without an owner is taken by who wants it, and
\* when all wait in sem_wait one of the semaphores is not zero.
THEOREM NoDeadlock ==
  ASSUME Producers # {}, Consumers # {} PROVE Spec => []SomeoneRuns
<1>1. IInv => SomeoneRuns
  <2> SUFFICES ASSUME IInv PROVE SomeoneRuns  OBVIOUS
  <2> USE ThreadsAssumption DEF Threads
  <2>1. CASE \E t \in Threads : pc[t] \notin {"wait", "lock"}
    BY <2>1 DEF SomeoneRuns, MayStep
  <2>2. CASE (\A t \in Threads : pc[t] \in {"wait", "lock"})
             /\ (\E t \in Threads : pc[t] = "lock")
    <3>1. pro_mutex = Nobody /\ com_mutex = Nobody
      BY <2>2 DEF IInv, TypeOK, MutexOwners
    <3> QED  BY <2>2, <3>1 DEF SomeoneRuns, MayStep
  <2>3. CASE \A t \in Threads : pc[t] = "wait"
    <3>1. pro_sem > 0 \/ com_sem > 0  BY <2>3, AllWaiting DEF IInv
    <3>2. PICK p \in Producers, c \in Consumers : TRUE  OBVIOUS
    <3> QED  BY <2>3, <3>1, <3>2 DEF SomeoneRuns, MayStep
  <2> QED  BY <2>1, <2>2, <2>3
<1> QED  BY <1>1, Invariance, PTL

-----------------------------------------------------------------------------
(* The ring is a bounded FIFO.                                               *)

\* A producer past its wait has a value, and at "advance" has stored it.
Stored ==
  \A p \in Producers :
    /\ pc[p] # "wait" => data[p] \in Values
    /\ pc[p] = "advance" => queue[space_pos] = data[p]

LEMMA InitStored == Init => Stored
BY DEF Init, Stored, Threads

LEMMA NextStored == ASSUME IInv, Stored, [Next]_vars PROVE Stored'
<1> USE CapAssumption, ThreadsAssumption DEF IInv, TypeOK, Threads, Goto
<1>1. ASSUME NEW p \in Producers, Push(p) PROVE Stored'
  <2>1. CASE PushWait(p)  BY <2>1 DEF PushWait, Stored
  <2>2. CASE PushLock(p)  BY <2>2 DEF PushLock, Stored
  <2>3. CASE PushStore(p)
    BY <2>3 DEF PushStore, Stored, MutexOwners
  <2>4. CASE PushAdvance(p)  BY <2>4 DEF PushAdvance, Stored, MutexOwners
  <2>5. CASE PushUnlock(p)  BY <2>5 DEF PushUnlock, Stored
  <2>6. CASE PushPost(p)  BY <2>6 DEF PushPost, Stored
  <2> QED  BY <1>1, <2>1, <2>2, <2>3, <2>4, <2>5, <2>6 DEF Push
<1>2. ASSUME NEW c \in Consumers, Pop(c) PROVE Stored'
  BY <1>2 DEF Pop, PopWait, PopLock, PopFetch, PopAdvance, PopUnlock, PopPost, Stored
<1>3. CASE UNCHANGED vars  BY <1>3 DEF vars, Stored
<1> QED  BY <1>1, <1>2, <1>3 DEF Next

\* At most one consumer has fetched its value and not yet moved data_pos_.
LEMMA FetchedFacts ==
  ASSUME IInv
  PROVE  /\ Fetched \in Nat
         /\ (\A c \in Consumers : pc[c] # "advance") => Fetched = 0
         /\ \A c \in Consumers : pc[c] = "advance" => Fetched = 1
         /\ Fetched <= Count
<1>1. IsFiniteSet(At(Consumers, {"advance"}))
  BY ThreadsAssumption, FS_Subset DEF At
<1>2. Fetched \in Nat  BY <1>1, FS_CardinalityType DEF Fetched
<1>3. ASSUME \A c \in Consumers : pc[c] # "advance" PROVE Fetched = 0
  BY <1>3, FS_EmptySet DEF Fetched, At
<1>4. ASSUME NEW c \in Consumers, pc[c] = "advance" PROVE Fetched = 1
  <2>1. At(Consumers, {"advance"}) = {c}
    BY <1>4, ThreadsAssumption DEF At, IInv, MutexOwners
  <2> QED  BY <2>1, FS_Singleton DEF Fetched
<1>5. Fetched <= Count
  <2>1. Count \in Nat /\ \A c \in Consumers : pc[c] = "advance" => Count > 0
    BY Bounds DEF IInv
  <2>2. CASE \A c \in Consumers : pc[c] # "advance"  BY <1>3, <2>1, <2>2
  <2>3. CASE \E c \in Consumers : pc[c] = "advance"  BY <1>4, <2>1, <2>3
  <2> QED  BY <2>2, <2>3
<1> QED  BY <1>2, <1>3, <1>4, <1>5

\* A move that leaves the readable slots alone does not show.
LEMMA Unseen ==
  ASSUME Count' = Count, Fetched' = Fetched, data_pos' = data_pos, queue' = queue,
         \A c \in Consumers : data'[c] = data[c]
  PROVE  UNCHANGED Fifo!vars
BY DEF Fifo!vars, Contents, Wrap

LEMMA PushIsPut ==
  ASSUME IInv, Stored, NEW p \in Producers, Push(p)
  PROVE  [Fifo!Next]_(Fifo!vars)
<1> USE CapAssumption
<1>1. /\ p \in Threads /\ p \notin Consumers /\ Consumers \in SUBSET Threads
      /\ Producers \in SUBSET Threads
  BY ThreadsAssumption DEF Threads
<1>2. /\ Cardinality(Filled) \in Nat /\ Cardinality(Draining) \in Nat
      /\ com_sem \in Nat /\ Count \in 0 .. Cap /\ Fetched \in Nat /\ Fetched <= Count
      /\ data_pos \in Slots /\ space_pos \in Slots
  BY Bounds, FetchedFacts DEF IInv, TypeOK, Conservation
<1>3. Fetched' = Fetched
  <2>1. \A c \in Consumers : pc'[c] = pc[c]
    BY <1>1 DEF Push, PushWait, PushLock, PushStore, PushAdvance, PushUnlock, PushPost,
         Goto, IInv, TypeOK
  <2> QED  BY <2>1 DEF Fetched, At
<1>4. \A c \in Consumers : data'[c] = data[c]
  BY <1>1 DEF Push, PushWait, PushLock, PushStore, PushAdvance, PushUnlock, PushPost,
       IInv, TypeOK
<1>5. CASE PushWait(p)
  <2>1. Count' = Count
    BY <1>2, <1>5, ProducerMoves DEF PushWait, Count, Bit, IInv
  <2> QED  BY <1>3, <1>4, <1>5, <2>1, Unseen DEF PushWait
<1>6. CASE PushLock(p)
  <2>1. Count' = Count
    BY <1>2, <1>6, ProducerMoves DEF PushLock, Count, Bit, IInv
  <2> QED  BY <1>3, <1>4, <1>6, <2>1, Unseen DEF PushLock
<1>7. CASE PushUnlock(p)
  <2>1. Count' = Count
    BY <1>2, <1>7, ProducerMoves DEF PushUnlock, Count, Bit, IInv
  <2> QED  BY <1>3, <1>4, <1>7, <2>1, Unseen DEF PushUnlock
<1>8. CASE PushPost(p)
  <2>1. Count' = Count
    BY <1>2, <1>8, ProducerMoves DEF PushPost, Count, Bit, IInv
  <2> QED  BY <1>3, <1>4, <1>8, <2>1, Unseen DEF PushPost
<1>9. CASE PushStore(p)
  <2>1. Count' = Count /\ Count < Cap
    <3>1. Count' = Count  BY <1>2, <1>9, ProducerMoves DEF PushStore, Count, Bit, IInv
    <3> QED  BY <1>9, <3>1, Bounds DEF PushStore, Goto, IInv
  <2>2. \A i \in 1 .. (Count - Fetched) : Wrap(data_pos + Fetched + i - 1) # space_pos
    BY <1>2, <2>1 DEF IInv, PositionsAgree, Wrap, Slots
  <2>3. \A i \in 1 .. (Count - Fetched) :
          queue'[Wrap(data_pos + Fetched + i - 1)] = queue[Wrap(data_pos + Fetched + i - 1)]
    <3>1. queue' = [queue EXCEPT ![space_pos] = data[p]]  BY <1>9 DEF PushStore
    <3>2. \A s \in Slots \ {space_pos} : queue'[s] = queue[s]  BY <3>1 DEF IInv, TypeOK
    <3>3. \A i \in 1 .. (Count - Fetched) : Wrap(data_pos + Fetched + i - 1) \in Slots
      BY <1>2 DEF Wrap, Slots
    <3> QED  BY <2>2, <3>2, <3>3
  <2>4. data_pos' = data_pos  BY <1>9 DEF PushStore
  <2>5. Contents' = Contents  BY <1>3, <2>1, <2>3, <2>4 DEF Contents, Wrap
  <2> QED  BY <1>4, <2>5 DEF Fifo!vars
<1>10. CASE PushAdvance(p)
  <2>1. Count' = Count + 1
    BY <1>2, <1>10, ProducerMoves DEF PushAdvance, Count, Bit, IInv
  <2>2. Count < Cap  BY <1>10, Bounds DEF PushAdvance, Goto, IInv
  <2>3. queue' = queue /\ data_pos' = data_pos /\ pc[p] = "advance"
    BY <1>10 DEF PushAdvance, Goto
  <2>4. queue[space_pos] = data[p] /\ data[p] \in Values  BY <2>3 DEF Stored
  <2>5. PICK n \in Nat : n = Count - Fetched /\ n < Cap  BY <1>2, <2>2, CapAssumption
  <2>6. Count' - Fetched' = n + 1  BY <1>2, <1>3, <2>1, <2>5
  <2>7. Contents = [i \in 1 .. n |-> queue[Wrap(data_pos + Fetched + i - 1)]]
    BY <2>5 DEF Contents
  <2>8. Contents' = [i \in 1 .. (n + 1) |-> queue[Wrap(data_pos + Fetched + i - 1)]]
    BY <1>3, <2>3, <2>6 DEF Contents, Wrap
  <2>9. Wrap(data_pos + Fetched + (n + 1) - 1) = space_pos
    BY <1>2, <2>2, <2>5 DEF IInv, PositionsAgree, Wrap, Slots
  <2>10. Len(Contents) = n /\ DOMAIN Contents = 1 .. n /\ Contents \in Seq(Values \cup {Blank})
    <3>1. \A i \in 1 .. n : Wrap(data_pos + Fetched + i - 1) \in Slots
      BY <1>2, <2>2, <2>5 DEF Wrap, Slots
    <3>2. \A i \in 1 .. n : queue[Wrap(data_pos + Fetched + i - 1)] \in Values \cup {Blank}
      BY <3>1 DEF IInv, TypeOK
    <3> QED  BY <2>7, <3>2
  <2>11. Contents' = Append(Contents, data[p])
    <3>1. Contents' \in Seq(Values \cup {Blank}) /\ Len(Contents') = n + 1
      <4>1. \A i \in 1 .. (n + 1) : Wrap(data_pos + Fetched + i - 1) \in Slots
        BY <1>2, <2>2, <2>5 DEF Wrap, Slots
      <4>2. \A i \in 1 .. (n + 1) :
              queue[Wrap(data_pos + Fetched + i - 1)] \in Values \cup {Blank}
        BY <4>1 DEF IInv, TypeOK
      <4> QED  BY <2>8, <4>2
    <3>2. Contents'[n + 1] = data[p]  BY <2>4, <2>8, <2>9
    <3>3. \A i \in 1 .. n : Contents'[i] = Contents[i]  BY <2>7, <2>8
    <3> HIDE DEF Contents
    <3> QED  BY <2>10, <3>1, <3>2, <3>3, <2>4
  <2>12. Fifo!Put(data[p])
    <3>1. Len(Contents) < Cap  BY <2>5, <2>10
    <3> QED  BY <1>4, <2>11, <3>1 DEF Fifo!Put
  <2> QED  BY <2>4, <2>12 DEF Fifo!Next
<1> QED  BY <1>5, <1>6, <1>7, <1>8, <1>9, <1>10 DEF Push

\* The tail of a sequence is the sequence shifted by one place.
LEMMA TailIsShift ==
  ASSUME NEW S, NEW s \in Seq(S), NEW n \in Nat, Len(s) = n + 1
  PROVE  Tail(s) = [i \in 1 .. n |-> s[i + 1]]
<1>1. s # << >>  OBVIOUS
<1>2. /\ Tail(s) \in Seq(S)
      /\ Len(Tail(s)) = n
      /\ \A i \in 1 .. Len(Tail(s)) : Tail(s)[i] = s[i + 1]
  BY <1>1, HeadTailProperties
<1>3. PICK t \in Seq(S) : t = Tail(s)  BY <1>2
<1>4. Len(t) = n /\ \A i \in 1 .. n : t[i] = s[i + 1]  BY <1>2, <1>3
<1>5. t \in [1 .. n -> S]  BY <1>4, LenProperties, Zenon
<1>6. t = [i \in 1 .. n |-> t[i]]  BY <1>5, Zenon
<1>7. [i \in 1 .. n |-> t[i]] = [i \in 1 .. n |-> s[i + 1]]  BY <1>4, Zenon
<1> QED  BY <1>3, <1>6, <1>7, Zenon

LEMMA PopIsGet ==
  ASSUME IInv, NEW c \in Consumers, Pop(c)
  PROVE  [Fifo!Next]_(Fifo!vars)
<1> USE CapAssumption
<1>1. c \in Threads /\ c \notin Producers /\ Consumers \in SUBSET Threads
      /\ IsFiniteSet(Consumers)
  BY ThreadsAssumption DEF Threads
<1>2. /\ Cardinality(Filled) \in Nat /\ Cardinality(Draining) \in Nat
      /\ com_sem \in Nat /\ Count \in 0 .. Cap /\ Fetched \in Nat /\ Fetched <= Count
      /\ data_pos \in Slots
  BY Bounds, FetchedFacts DEF IInv, TypeOK, Conservation
<1>3. CASE PopWait(c)
  <2>1. Count' = Count
    BY <1>2, <1>3, ConsumerMoves DEF PopWait, Count, Bit, IInv
  <2>2. Fetched' = Fetched
    BY <1>1, <1>3 DEF PopWait, Goto, Fetched, At, IInv, TypeOK
  <2> QED  BY <1>3, <2>1, <2>2, Unseen DEF PopWait
<1>4. CASE PopLock(c)
  <2>1. Count' = Count
    BY <1>2, <1>4, ConsumerMoves DEF PopLock, Count, Bit, IInv
  <2>2. Fetched' = Fetched
    BY <1>1, <1>4 DEF PopLock, Goto, Fetched, At, IInv, TypeOK
  <2> QED  BY <1>4, <2>1, <2>2, Unseen DEF PopLock
<1>5. CASE PopUnlock(c)
  <2>1. Count' = Count
    BY <1>2, <1>5, ConsumerMoves DEF PopUnlock, Count, Bit, IInv
  <2>2. Fetched' = Fetched
    BY <1>1, <1>5 DEF PopUnlock, Goto, Fetched, At, IInv, TypeOK
  <2> QED  BY <1>5, <2>1, <2>2, Unseen DEF PopUnlock
<1>6. CASE PopPost(c)
  <2>1. Count' = Count
    BY <1>2, <1>6, ConsumerMoves DEF PopPost, Count, Bit, IInv
  <2>2. Fetched' = Fetched
    BY <1>1, <1>6 DEF PopPost, Goto, Fetched, At, IInv, TypeOK
  <2> QED  BY <1>6, <2>1, <2>2, Unseen DEF PopPost
<1>7. CASE PopFetch(c)
  <2>1. Goto(c, "access", "advance") /\ pc[c] = "access"  BY <1>7 DEF PopFetch, Goto
  <2>2. Count' = Count
    BY <1>2, <1>7, ConsumerMoves DEF PopFetch, Count, Bit, IInv
  <2>3. Count > 0  BY <2>1, Bounds DEF IInv
  <2>4. Fetched = 0
    BY <2>1, ThreadsAssumption, FetchedFacts DEF IInv, MutexOwners
  <2>5. Fetched' = 1
    <3>1. At(Consumers, {"advance"})' = {c}
      BY <2>1, <1>1, ThreadsAssumption DEF At, Goto, IInv, TypeOK, MutexOwners
    <3> QED  BY <3>1, FS_Singleton DEF Fetched
  <2>6. PICK n \in Nat : n + 1 = Count /\ n < Cap  BY <1>2, <2>3
  <2>7. /\ queue' = queue /\ data_pos' = data_pos
        /\ data' = [data EXCEPT ![c] = queue[data_pos]]
    BY <1>7 DEF PopFetch
  <2>8. Contents = [i \in 1 .. (n + 1) |-> queue[Wrap(data_pos + i - 1)]]
    <3>1. Contents = [i \in 1 .. Count |-> queue[Wrap(data_pos + 0 + i - 1)]]
      BY <1>2, <2>4 DEF Contents
    <3> QED  BY <1>2, <2>6, <3>1 DEF Slots
  <2>9. Contents' = [i \in 1 .. n |-> queue[Wrap(data_pos + i)]]
    <3>1. Contents' = [i \in 1 .. n |-> queue[Wrap(data_pos + 1 + i - 1)]]
      BY <1>2, <2>2, <2>5, <2>6, <2>7 DEF Contents, Wrap
    <3> QED  BY <1>2, <3>1 DEF Slots
  <2>10. \A i \in 1 .. (n + 1) :
           queue[Wrap(data_pos + i - 1)] \in Values \cup {Blank}
    <3>1. \A i \in 1 .. (n + 1) : Wrap(data_pos + i - 1) \in Slots
      BY <1>2, <2>6 DEF Wrap, Slots
    <3> QED  BY <3>1 DEF IInv, TypeOK
  <2>11. Contents \in Seq(Values \cup {Blank}) /\ Len(Contents) = n + 1
    BY <2>8, <2>10
  <2>12. Head(Contents) = queue[data_pos]
    <3>1. Wrap(data_pos + 1 - 1) = data_pos  BY <1>2 DEF Wrap, Slots
    <3>2. Contents[1] = queue[data_pos]  BY <2>8, <3>1
    <3> HIDE DEF Contents
    <3> QED  BY <2>11, <3>2
  <2>13. Contents' = Tail(Contents)
    <3>1. \A i \in 1 .. n : Contents[i + 1] = queue[Wrap(data_pos + i)]
      <4>1. \A i \in 1 .. n : Contents[i + 1] = queue[Wrap(data_pos + (i + 1) - 1)]
        BY <2>8
      <4> QED  BY <1>2, <4>1 DEF Slots
    <3>2. Tail(Contents) = [i \in 1 .. n |-> Contents[i + 1]]
      <4> HIDE DEF Contents
      <4> QED  BY <2>11, TailIsShift, Zenon
    <3> QED  BY <2>9, <3>1, <3>2
  <2>14. Contents # <<>>  BY <2>11 
  <2>15. [d \in Consumers |-> data'[d]] =
           [[d \in Consumers |-> data[d]] EXCEPT ![c] = Head(Contents)]
    <3>1. \A d \in Consumers : data'[d] = IF d = c THEN Head(Contents) ELSE data[d]
      BY <1>1, <2>7, <2>12 DEF IInv, TypeOK
    <3> HIDE DEF Contents
    <3> QED  BY <3>1
  <2>16. Fifo!Get(c)  BY <2>13, <2>14, <2>15 DEF Fifo!Get
  <2> QED  BY <2>16 DEF Fifo!Next
<1>8. CASE PopAdvance(c)
  <2>1. Goto(c, "advance", "unlock") /\ pc[c] = "advance"  BY <1>8 DEF PopAdvance, Goto
  <2>2. Count' = Count - 1
    BY <1>2, <1>8, ConsumerMoves DEF PopAdvance, Count, Bit, IInv
  <2>3. Count > 0  BY <2>1, Bounds DEF IInv
  <2>4. Fetched = 1  BY <2>1, FetchedFacts
  <2>5. Fetched' = 0
    <3>1. At(Consumers, {"advance"})' = {}
      BY <2>1, <1>1, ThreadsAssumption DEF At, Goto, IInv, TypeOK, MutexOwners
    <3> QED  BY <3>1, FS_EmptySet DEF Fetched
  <2>6. PICK n \in Nat : n + 1 = Count /\ n < Cap  BY <1>2, <2>3
  <2>7. queue' = queue /\ \A d \in Consumers : data'[d] = data[d]  BY <1>8 DEF PopAdvance
  <2>8. data_pos' = Wrap(data_pos + 1)
    BY <1>2, <1>8, Increment DEF PopAdvance, Wrap, Slots
  <2>9. Contents = [i \in 1 .. n |-> queue[Wrap(data_pos + i)]]
    <3>1. Contents = [i \in 1 .. n |-> queue[Wrap(data_pos + 1 + i - 1)]]
      BY <1>2, <2>4, <2>6 DEF Contents
    <3> QED  BY <1>2, <3>1 DEF Slots
  <2>10. Contents' = [i \in 1 .. n |-> queue[Wrap(data_pos' + i - 1)]]
    <3>1. Contents' = [i \in 1 .. n |-> queue[Wrap(data_pos' + 0 + i - 1)]]
      BY <1>2, <2>2, <2>5, <2>6, <2>7 DEF Contents, Wrap
    <3> QED  BY <1>2, <2>8, <3>1 DEF Slots, Wrap
  <2>11. \A i \in 1 .. n : Wrap(data_pos' + i - 1) = Wrap(data_pos + i)
    BY <1>2, <2>6, <2>8 DEF Wrap, Slots
  <2>12. Contents' = Contents  BY <2>9, <2>10, <2>11
  <2> QED  BY <2>7, <2>12 DEF Fifo!vars
<1> QED  BY <1>3, <1>4, <1>5, <1>6, <1>7, <1>8 DEF Pop

(***************************************************************************)
(* For every number of producers, consumers and slots the ring takes the    *)
(* steps of a bounded FIFO and no other: what is pushed comes out once, in  *)
(* the order in which space_pos_ was moved past it.                         *)
(***************************************************************************)
THEOREM IsFifo == Spec => Fifo!Init /\ [][Fifo!Next]_(Fifo!vars)
<1>1. Init => Fifo!Init
  <2> SUFFICES ASSUME Init PROVE Fifo!Init  OBVIOUS
  <2>1. Filled = {} /\ Draining = {} /\ At(Consumers, {"advance"}) = {}
    BY DEF Init, Filled, Draining, At, Threads
  <2>2. Count = 0 /\ Fetched = 0  BY <2>1, FS_EmptySet DEF Init, Count, Fetched
  <2>3. Contents = <<>>  BY <2>2 DEF Contents
  <2> QED  BY <2>3 DEF Init, Fifo!Init, Threads
<1>2. IInv /\ Stored /\ [Next]_vars => [Fifo!Next]_(Fifo!vars)
  <2> SUFFICES ASSUME IInv, Stored, [Next]_vars PROVE [Fifo!Next]_(Fifo!vars)
    OBVIOUS
  <2>1. CASE Next  BY <2>1, PushIsPut, PopIsGet DEF Next
  <2>2. CASE UNCHANGED vars
    <3>1. Count' = Count /\ Fetched' = Fetched
      BY <2>2 DEF vars, Count, Fetched, Filled, Draining, At
    <3> QED  BY <2>2, <3>1, Unseen DEF vars
  <2> QED  BY <2>1, <2>2
<1>3. IInv /\ Stored /\ [Next]_vars => Stored'  BY NextStored
<1> QED  BY <1>1, <1>2, <1>3, InitStored, Invariance, PTL DEF Spec
=============================================================================
