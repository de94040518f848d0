-------------------------- MODULE ThreadPoolProofs --------------------------
(***************************************************************************)
(* The pool loses no wakeup and gives each connection one owner, for every  *)
(* number of workers and every set of connections.  IInv adds to the two    *)
(* properties that the queue holds each accepted connection once.  The      *)
(* order in which tasks begin follows from it.                              *)
(***************************************************************************)
EXTENDS ThreadPool, FiniteSetTheorems, TLAPS

\* What is queued is accepted, and queued once; what runs was taken.
QueuedOnce ==
  /\ \A i \in 1 .. Len(task) : conn[task[i]] = "accepted"
  /\ \A i, j \in 1 .. Len(task) : task[i] = task[j] => i = j
  /\ \A w \in Workers : pc[w] = "run" => job[w] \in Conns

IInv == TypeOK /\ NoLostWakeup /\ QueuedOnce /\ OneOwner

-----------------------------------------------------------------------------
LEMMA InitIInv == Init => IInv
<1> SUFFICES ASSUME Init PROVE IInv  OBVIOUS
<1>1. TypeOK  BY DEF Init, TypeOK, WorkerStates, Messages
<1>2. NoLostWakeup  BY DEF Init, NoLostWakeup, Waiting
<1>3. QueuedOnce /\ OneOwner  BY DEF Init, QueuedOnce, OneOwner
<1> QED  BY <1>1, <1>2, <1>3 DEF IInv

\* A worker that starts, leaves its client or is woken is one more on the way.
LEMMA Arrives ==
  ASSUME TypeOK, NEW w \in Workers, NEW to \in {"call", "woken"},
         pc' = [pc EXCEPT ![w] = to], pc[w] \notin {"call", "woken"}
  PROVE  /\ Cardinality(OnTheWay) \in Nat
         /\ Cardinality(OnTheWay') = Cardinality(OnTheWay) + 1
         /\ Waiting' = Waiting \ {w}
<1>1. pc \in [Workers -> WorkerStates]  BY DEF TypeOK
<1>2. IsFiniteSet(OnTheWay)  BY WorkersAssumption, FS_Subset DEF OnTheWay
<1>3. OnTheWay' = OnTheWay \cup {w} /\ w \notin OnTheWay
  BY <1>1 DEF OnTheWay
<1>4. Waiting' = Waiting \ {w}  BY <1>1 DEF Waiting
<1> QED  BY <1>2, <1>3, <1>4, FS_AddElement, FS_CardinalityType

\* A worker that takes a task, or goes to sleep, is one less.
LEMMA Departs ==
  ASSUME TypeOK, NEW w \in Workers, NEW to \in {"run", "waiting"},
         pc' = [pc EXCEPT ![w] = to], pc[w] \in {"call", "woken"}
  PROVE  /\ Cardinality(OnTheWay) \in Nat
         /\ Cardinality(OnTheWay') \in Nat
         /\ Cardinality(OnTheWay') = Cardinality(OnTheWay) - 1
         /\ to = "run" => Waiting' = Waiting
<1>1. pc \in [Workers -> WorkerStates]  BY DEF TypeOK
<1>2. IsFiniteSet(OnTheWay)  BY WorkersAssumption, FS_Subset DEF OnTheWay
<1>3. OnTheWay' = OnTheWay \ {w} /\ w \in OnTheWay
  BY <1>1 DEF OnTheWay
<1>4. to = "run" => Waiting' = Waiting  BY <1>1 DEF Waiting
<1>5. /\ IsFiniteSet(OnTheWay')
      /\ Cardinality(OnTheWay') = Cardinality(OnTheWay) - 1
  BY <1>2, <1>3, FS_RemoveElement
<1> QED  BY <1>2, <1>4, <1>5, FS_CardinalityType

LEMMA StepTypeOK == ASSUME TypeOK, QueuedOnce, [Next]_vars PROVE TypeOK'
<1> USE DEF TypeOK, WorkerStates, Messages
<1>1. ASSUME NEW w \in Workers, Start(w) PROVE TypeOK'  BY <1>1 DEF Start
<1>2. ASSUME NEW c \in Conns, Accept(c) PROVE TypeOK'
  <2>1. task' \in Seq(Conns)  BY <1>2 DEF Accept
  <2>2. pc' \in [Workers -> WorkerStates]
    BY <1>2 DEF Accept, Waiting
  <2>3. conn' \in [Conns -> {"unmade", "accepted", "closed"}]  BY <1>2 DEF Accept
  <2> QED  BY <2>1, <2>2, <2>3, <1>2 DEF Accept
<1>3. ASSUME NEW w \in Workers, Sleep(w) PROVE TypeOK'  BY <1>3 DEF Sleep
<1>4. ASSUME NEW w \in Workers, Take(w) PROVE TypeOK'
  <2>1. Head(task) \in Conns /\ Tail(task) \in Seq(Conns)  BY <1>4 DEF Take
  <2> QED  BY <2>1, <1>4 DEF Take
<1>5. ASSUME NEW w \in Workers, Echo(w) PROVE TypeOK'
  BY <1>5 DEF Echo, QueuedOnce
<1>6. ASSUME NEW w \in Workers, Leave(w) PROVE TypeOK'
  BY <1>6 DEF Leave, QueuedOnce
<1>7. ASSUME NEW w \in Workers, SpuriousWakeup(w) PROVE TypeOK'
  BY <1>7 DEF SpuriousWakeup
<1>8. ASSUME NEW c \in Conns, Client(c) PROVE TypeOK'
  BY <1>8 DEF Client, Send, HangUp
<1>9. CASE UNCHANGED vars  BY <1>9 DEF vars
<1> QED
  BY <1>1, <1>2, <1>3, <1>4, <1>5, <1>6, <1>7, <1>8, <1>9
  DEF Next, Main, Worker

LEMMA StepNoLostWakeup ==
  ASSUME TypeOK, NoLostWakeup, [Next]_vars PROVE NoLostWakeup'
<1>0. task \in Seq(Conns) /\ Len(task) \in Nat  BY DEF TypeOK
<1>1. ASSUME NEW w \in Workers, Start(w) PROVE NoLostWakeup'
  <2>1. /\ pc[w] = "unborn" /\ pc' = [pc EXCEPT ![w] = "call"]
        /\ UNCHANGED task
    BY <1>1 DEF Start
  <2>2. /\ Cardinality(OnTheWay) \in Nat
        /\ Cardinality(OnTheWay') = Cardinality(OnTheWay) + 1
        /\ Waiting' = Waiting \ {w}
    BY <2>1, Arrives
  <2> QED  BY <2>1, <2>2, <1>0 DEF NoLostWakeup
<1>2. ASSUME NEW c \in Conns, Accept(c) PROVE NoLostWakeup'
  <2>1. Len(task') = Len(task) + 1  BY <1>0, <1>2 DEF Accept
  <2>2. CASE Waiting = {}
    BY <1>2, <2>2 DEF Accept, NoLostWakeup, Waiting
  <2>3. CASE Waiting # {}
    <3>1. PICK w \in Waiting : pc' = [pc EXCEPT ![w] = "woken"]
      BY <1>2, <2>3 DEF Accept
    <3>2. w \in Workers /\ pc[w] = "waiting"  BY DEF Waiting
    <3>3. /\ Cardinality(OnTheWay) \in Nat
          /\ Cardinality(OnTheWay') = Cardinality(OnTheWay) + 1
      BY <3>1, <3>2, Arrives
    <3> QED  BY <2>1, <2>3, <3>3, <1>0 DEF NoLostWakeup
  <2> QED  BY <2>2, <2>3
<1>3. ASSUME NEW w \in Workers, Sleep(w) PROVE NoLostWakeup'
  <2>1. /\ Len(task') = 0 /\ pc' = [pc EXCEPT ![w] = "waiting"]
        /\ pc[w] \in {"call", "woken"}
    BY <1>3 DEF Sleep, OnTheWay
  <2>2. Cardinality(OnTheWay') \in Nat  BY <2>1, Departs
  <2> QED  BY <2>1, <2>2 DEF NoLostWakeup
<1>4. ASSUME NEW w \in Workers, Take(w) PROVE NoLostWakeup'
  <2>1. /\ task # <<>> /\ task' = Tail(task) /\ pc' = [pc EXCEPT ![w] = "run"]
        /\ pc[w] \in {"call", "woken"}
    BY <1>4 DEF Take, OnTheWay
  <2>2. Len(task') = Len(task) - 1  BY <2>1, <1>0
  <2>3. /\ Cardinality(OnTheWay) \in Nat
        /\ Cardinality(OnTheWay') = Cardinality(OnTheWay) - 1
        /\ Waiting' = Waiting
    BY <2>1, Departs
  <2> QED  BY <2>2, <2>3, <1>0 DEF NoLostWakeup
<1>5. ASSUME NEW w \in Workers, Leave(w) PROVE NoLostWakeup'
  <2>1. pc[w] = "run" /\ pc' = [pc EXCEPT ![w] = "call"] /\ UNCHANGED task
    BY <1>5 DEF Leave
  <2>2. /\ Cardinality(OnTheWay) \in Nat
        /\ Cardinality(OnTheWay') = Cardinality(OnTheWay) + 1
        /\ Waiting' = Waiting \ {w}
    BY <2>1, Arrives
  <2> QED  BY <2>1, <2>2, <1>0 DEF NoLostWakeup
<1>6. ASSUME NEW w \in Workers, SpuriousWakeup(w) PROVE NoLostWakeup'
  <2>1. pc[w] = "waiting" /\ pc' = [pc EXCEPT ![w] = "woken"] /\ UNCHANGED task
    BY <1>6 DEF SpuriousWakeup
  <2>2. w \in Waiting  BY <2>1 DEF Waiting
  <2>3. /\ Cardinality(OnTheWay) \in Nat
        /\ Cardinality(OnTheWay') = Cardinality(OnTheWay) + 1
    BY <2>1, Arrives
  <2> QED  BY <2>1, <2>2, <2>3, <1>0 DEF NoLostWakeup
<1>7. CASE UNCHANGED <<task, pc>>
  BY <1>7 DEF NoLostWakeup, Waiting, OnTheWay
<1> QED
  BY <1>1, <1>2, <1>3, <1>4, <1>5, <1>6, <1>7
  DEF Next, Main, Worker, Client, Echo, Send, HangUp, vars

LEMMA StepOwners ==
  ASSUME TypeOK, QueuedOnce, OneOwner, [Next]_vars
  PROVE  QueuedOnce' /\ OneOwner'
<1> USE DEF TypeOK, QueuedOnce, OneOwner
<1>0. task \in Seq(Conns) /\ Len(task) \in Nat
      /\ \A i \in 1 .. Len(task) : task[i] \in Conns
  OBVIOUS
<1>1. ASSUME NEW w \in Workers, Start(w) \/ Sleep(w) \/ SpuriousWakeup(w)
      PROVE  QueuedOnce' /\ OneOwner'
  BY <1>1 DEF Start, Sleep, SpuriousWakeup
<1>2. ASSUME NEW c \in Conns, Accept(c) PROVE QueuedOnce' /\ OneOwner'
  <2>1. /\ conn[c] = "unmade" /\ conn' = [conn EXCEPT ![c] = "accepted"]
        /\ job' = job
        /\ \A w \in Workers : pc'[w] = "run" => pc[w] = "run"
    BY <1>2 DEF Accept, Waiting
  <2>2. /\ Len(task') = Len(task) + 1
        /\ task'[Len(task) + 1] = c
        /\ \A i \in 1 .. Len(task) : task'[i] = task[i]
    BY <1>2, <1>0 DEF Accept
  <2>3. \A i \in 1 .. Len(task) : task[i] # c  BY <2>1
  <2>4. QueuedOnce'
    <3>1. \A i \in 1 .. Len(task') : i \in 1 .. Len(task) \/ i = Len(task) + 1
      BY <1>0, <2>2
    <3>2. \A i \in 1 .. Len(task') : conn'[task'[i]] = "accepted"
      BY <1>0, <2>1, <2>2, <3>1
    <3>3. \A i, j \in 1 .. Len(task') : task'[i] = task'[j] => i = j
      BY <1>0, <2>2, <2>3, <3>1
    <3>4. \A w \in Workers : pc'[w] = "run" => job'[w] \in Conns
      BY <2>1
    <3> QED  BY <3>2, <3>3, <3>4
  <2>5. OneOwner'  BY <1>0, <2>1, <2>2
  <2> QED  BY <2>4, <2>5
<1>3. ASSUME NEW w \in Workers, Take(w) PROVE QueuedOnce' /\ OneOwner'
  <2>1. /\ task # <<>> /\ pc' = [pc EXCEPT ![w] = "run"]
        /\ job' = [job EXCEPT ![w] = task[1]] /\ conn' = conn
    BY <1>3, <1>0 DEF Take
  <2>2. /\ Len(task') = Len(task) - 1 /\ 1 \in 1 .. Len(task)
        /\ \A i \in 1 .. Len(task') : i + 1 \in 1 .. Len(task)
                                      /\ task'[i] = task[i + 1]
    BY <1>3, <1>0 DEF Take
  <2>3. QueuedOnce'
    <3>1. \A i \in 1 .. Len(task') : conn'[task'[i]] = "accepted"
      BY <1>0, <2>1, <2>2
    <3>2. ASSUME NEW i \in 1 .. Len(task'), NEW j \in 1 .. Len(task'),
                 task'[i] = task'[j]
          PROVE  i = j
      <4>1. i + 1 \in 1 .. Len(task) /\ j + 1 \in 1 .. Len(task)  BY <2>2
      <4>2. task[i + 1] = task[j + 1]  BY <2>2, <3>2
      <4>3. i + 1 = j + 1  BY <4>1, <4>2
      <4> QED  BY <4>3, <1>0, <2>2
    <3>3. \A u \in Workers : pc'[u] = "run" => job'[u] \in Conns
      BY <1>0, <2>1, <2>2
    <3> QED  BY <3>1, <3>2, <3>3
  <2>4. OneOwner'
    <3>1. conn[task[1]] = "accepted"  BY <2>2
    <3>2. \A i \in 1 .. Len(task') : task'[i] # task[1]  BY <2>2
    <3>3. \A u \in Workers : pc[u] = "run" => job[u] # task[1]  BY <2>2
    <3> QED  BY <1>0, <2>1, <2>2, <3>1, <3>2, <3>3
  <2> QED  BY <2>3, <2>4
<1>4. ASSUME NEW w \in Workers, Leave(w) PROVE QueuedOnce' /\ OneOwner'
  <2>1. /\ pc[w] = "run" /\ pc' = [pc EXCEPT ![w] = "call"]
        /\ conn' = [conn EXCEPT ![job[w]] = "closed"]
        /\ task' = task /\ job' = job /\ job[w] \in Conns
    BY <1>4 DEF Leave
  <2>2. \A i \in 1 .. Len(task) : task[i] # job[w]  BY <2>1
  <2>3. \A u \in Workers \ {w} : pc[u] = "run" => job[u] # job[w]  BY <2>1
  <2> QED  BY <1>0, <2>1, <2>2, <2>3
<1>5. CASE UNCHANGED <<task, pc, job, conn>>  BY <1>5
<1> QED
  BY <1>1, <1>2, <1>3, <1>4, <1>5
  DEF Next, Main, Worker, Client, Echo, Send, HangUp, vars

-----------------------------------------------------------------------------
\* The strengthened invariant of the pool.
THEOREM Invariance == Spec => []IInv
<1>1. IInv /\ [Next]_vars => IInv'
  BY StepTypeOK, StepNoLostWakeup, StepOwners DEF IInv
<1> QED  BY <1>1, InitIInv, PTL DEF Spec

\* The queue, the workers and the connections keep their types.
THEOREM TypeCorrect == Spec => []TypeOK
<1>1. IInv => TypeOK  BY DEF IInv
<1> QED  BY <1>1, Invariance, PTL

\* While a worker sleeps there is a worker on its way for each queued task:
\* one pthread_cond_signal for each Push is enough.
THEOREM WakeupsSuffice == Spec => []NoLostWakeup
<1>1. IInv => NoLostWakeup  BY DEF IInv
<1> QED  BY <1>1, Invariance, PTL

\* No two workers read from one connection, and none from a queued one.
THEOREM Ownership == Spec => []OneOwner
<1>1. IInv => OneOwner  BY DEF IInv
<1> QED  BY <1>1, Invariance, PTL

\* The queue is shorter than the number of connections while one is not made.
LEMMA RoomForOne ==
  ASSUME IsFiniteSet(Conns), TypeOK, QueuedOnce, NEW c \in Conns, conn[c] = "unmade"
  PROVE  Len(task) < Cardinality(Conns)
<1>1. PICK n \in Nat : n = Len(task)  BY DEF TypeOK
<1>2. /\ task \in [1 .. n -> Conns]
      /\ \A i \in 1 .. n : task[i] # c
      /\ \A i, j \in 1 .. n : task[i] = task[j] => i = j
  BY <1>1 DEF TypeOK, QueuedOnce
<1>3. PICK S : S = Conns \ {c}  OBVIOUS
<1>4. task \in [1 .. n -> S]  BY <1>2, <1>3
<1>5. task \in Injection(1 .. n, S)  BY <1>2, <1>4, Zenon DEF Injection, IsInjective
<1>6. IsFiniteSet(S) /\ Cardinality(S) = Cardinality(Conns) - 1
  BY <1>3, FS_RemoveElement
<1>7. Cardinality(1 .. n) <= Cardinality(S)  BY <1>5, <1>6, FS_Injection
<1>8. Cardinality(1 .. n) = n
  <2>1. 1 \in Int /\ n \in Int /\ (n < 1 => n = 0) /\ n - 1 + 1 = n  BY <1>1
  <2>2. Cardinality(1 .. n) = IF 1 > n THEN 0 ELSE n - 1 + 1
    BY <2>1, FS_Interval, Zenon
  <2> QED  BY <1>1, <2>2
<1>9. Cardinality(S) \in Nat /\ Cardinality(Conns) \in Nat
  BY <1>6, FS_CardinalityType
<1> QED  BY <1>1, <1>6, <1>7, <1>8, <1>9

(***************************************************************************)
(* Tasks begin in the order of the accepts, each once, for any number of    *)
(* workers that take from the queue.                                        *)
(***************************************************************************)
THEOREM InOrder ==
  ASSUME IsFiniteSet(Conns) PROVE Spec => TasksInOrder
<1>1. Init => Fifo!Init  BY DEF Init, Fifo!Init
<1>2. ASSUME IInv, [Next]_vars PROVE [Fifo!Next]_(Fifo!vars)
  <2>1. ASSUME NEW c \in Conns, Accept(c) PROVE Fifo!Next
    <3>1. Len(task) < Cardinality(Conns)
      BY <1>2, <2>1, RoomForOne DEF Accept, IInv
    <3>2. Fifo!Put(c)  BY <2>1, <3>1 DEF Accept, Fifo!Put
    <3> QED  BY <3>2 DEF Fifo!Next
  <2>2. ASSUME NEW w \in Workers, Take(w) PROVE Fifo!Next
    BY <2>2 DEF Take, Fifo!Get, Fifo!Next
  <2>3. ASSUME NEW w \in Workers,
               Start(w) \/ Sleep(w) \/ SpuriousWakeup(w) \/ Echo(w) \/ Leave(w)
        PROVE  UNCHANGED <<task, job>>
    BY <2>3 DEF Start, Sleep, SpuriousWakeup, Echo, Leave
  <2>4. ASSUME NEW c \in Conns, Client(c) PROVE UNCHANGED <<task, job>>
    BY <2>4 DEF Client, Send, HangUp
  <2>5. UNCHANGED vars => UNCHANGED <<task, job>>  BY DEF vars
  <2> QED
    BY <1>2, <2>1, <2>2, <2>3, <2>4, <2>5 DEF Next, Main, Worker, Fifo!vars
<1> QED  BY <1>1, <1>2, Invariance, PTL DEF Spec, TasksInOrder

=============================================================================
