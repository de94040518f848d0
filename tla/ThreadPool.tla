----------------------------- MODULE ThreadPool -----------------------------
(***************************************************************************)
(* The thread pool of socket/TCP/ThreadPool.hpp (thread/threadPool has the  *)
(* same) and the TCP server that runs on it (Tcpserver.hpp, Task.hpp): the  *)
(* main thread starts the workers, accepts connections and pushes one task  *)
(* for each; a worker talks to its client until the client is gone.         *)
(*                                                                          *)
(* What happens between lock and unlock is one step.  A worker that must    *)
(* wait and is signalled looks at the queue again before it takes a task.   *)
(***************************************************************************)
EXTENDS Naturals, Sequences, FiniteSets

CONSTANTS
  Workers,     \* Thread_
  Conns,       \* the connections clients make, each once
  None

ASSUME WorkersAssumption == IsFiniteSet(Workers) /\ Workers # {}
ASSUME NoneAssumption == None \notin Conns

VARIABLES
  task,        \* task_: connections accepted and not begun
  pc,          \* per worker
  job,         \* the last connection a worker took
  conn,        \* per connection: "unmade", "accepted", "closed" (by the server)
  inbox        \* what a client has sent that was not read

vars == <<task, pc, job, conn, inbox>>

WorkerStates == {"unborn", "call", "waiting", "woken", "run"}
Messages     == {"line", "quit", "eof"}

TypeOK ==
  /\ task \in Seq(Conns)
  /\ pc \in [Workers -> WorkerStates]
  /\ job \in [Workers -> Conns \cup {None}]
  /\ conn \in [Conns -> {"unmade", "accepted", "closed"}]
  /\ inbox \in [Conns -> Messages \cup {"none"}]

Init ==
  /\ task = <<>>
  /\ pc = [w \in Workers |-> "unborn"]
  /\ job = [w \in Workers |-> None]
  /\ conn = [c \in Conns |-> "unmade"]
  /\ inbox = [c \in Conns |-> "none"]

Waiting  == {w \in Workers : pc[w] = "waiting"}
\* Workers that will look at the queue.
OnTheWay == {w \in Workers : pc[w] \in {"call", "woken"}}

-----------------------------------------------------------------------------
(* The main thread: ThreadPool::start, then accept and Push *)

Start(w) ==
  /\ pc[w] = "unborn"
  /\ pc' = [pc EXCEPT ![w] = "call"]
  /\ UNCHANGED <<task, job, conn, inbox>>

\* Mutant: the task is pushed and nobody is signalled.
AcceptSilently(c) ==
  /\ \A w \in Workers : pc[w] # "unborn"
  /\ conn[c] = "unmade"
  /\ conn' = [conn EXCEPT ![c] = "accepted"]
  /\ task' = Append(task, c)
  /\ UNCHANGED <<pc, job, inbox>>

\* Mutant: the task is pushed before it is filled in.
AcceptBlank(c) ==
  /\ \A w \in Workers : pc[w] # "unborn"
  /\ conn[c] = "unmade"
  /\ conn' = [conn EXCEPT ![c] = "accepted"]
  /\ task' = Append(task, None)
  /\ IF Waiting = {}
       THEN UNCHANGED pc
       ELSE \E w \in Waiting : pc' = [pc EXCEPT ![w] = "woken"]
  /\ UNCHANGED <<job, inbox>>

\* accept's result is not checked: a task for descriptor -1 is pushed like any
\* other and its first read fails, which is a connection that hangs up at once.
Accept(c) ==
  /\ \A w \in Workers : pc[w] # "unborn"
  /\ conn[c] = "unmade"
  /\ conn' = [conn EXCEPT ![c] = "accepted"]
  /\ task' = Append(task, c)
  /\ IF Waiting = {}
       THEN UNCHANGED pc
       ELSE \E w \in Waiting : pc' = [pc EXCEPT ![w] = "woken"]
  /\ UNCHANGED <<job, inbox>>

-----------------------------------------------------------------------------
(* A worker: ThreadPool::Handle_Task *)

Sleep(w) ==
  /\ w \in OnTheWay
  /\ task = <<>>
  /\ pc' = [pc EXCEPT ![w] = "waiting"]
  /\ UNCHANGED <<task, job, conn, inbox>>

\* Mutant: the task is copied but not taken off the queue.
TakeCopy(w) ==
  /\ w \in OnTheWay
  /\ task # <<>>
  /\ job' = [job EXCEPT ![w] = Head(task)]
  /\ pc' = [pc EXCEPT ![w] = "run"]
  /\ UNCHANGED <<task, conn, inbox>>

Take(w) ==
  /\ w \in OnTheWay
  /\ task # <<>>
  /\ job' = [job EXCEPT ![w] = Head(task)]
  /\ task' = Tail(task)
  /\ pc' = [pc EXCEPT ![w] = "run"]
  /\ UNCHANGED <<conn, inbox>>

SpuriousWakeup(w) ==
  /\ pc[w] = "waiting"
  /\ pc' = [pc EXCEPT ![w] = "woken"]
  /\ UNCHANGED <<task, job, conn, inbox>>

-----------------------------------------------------------------------------
(* task::run *)

Echo(w) ==
  /\ pc[w] = "run"
  /\ inbox[job[w]] = "line"
  /\ inbox' = [inbox EXCEPT ![job[w]] = "none"]
  /\ UNCHANGED <<task, pc, job, conn>>

\* Mutant: the loop goes on at the end of the stream.
LeaveOnQuit(w) ==
  /\ pc[w] = "run"
  /\ inbox[job[w]] = "quit"
  /\ conn' = [conn EXCEPT ![job[w]] = "closed"]
  /\ pc' = [pc EXCEPT ![w] = "call"]
  /\ UNCHANGED <<task, job, inbox>>

\* "quit", end of the stream or an error: the socket is closed.
Leave(w) ==
  /\ pc[w] = "run"
  /\ inbox[job[w]] \in {"quit", "eof"}
  /\ conn' = [conn EXCEPT ![job[w]] = "closed"]
  /\ pc' = [pc EXCEPT ![w] = "call"]
  /\ UNCHANGED <<task, job, inbox>>

-----------------------------------------------------------------------------
(* Clients *)

Send(c) ==
  /\ conn[c] = "accepted" /\ inbox[c] = "none"
  /\ \E m \in {"line", "quit"} : inbox' = [inbox EXCEPT ![c] = m]
  /\ UNCHANGED <<task, pc, job, conn>>

\* The client closes or its connection fails; unread lines are lost with it.
HangUp(c) ==
  /\ conn[c] = "accepted" /\ inbox[c] \in {"none", "line"}
  /\ inbox' = [inbox EXCEPT ![c] = "eof"]
  /\ UNCHANGED <<task, pc, job, conn>>

-----------------------------------------------------------------------------
Main      == (\E w \in Workers : Start(w)) \/ (\E c \in Conns : Accept(c))
Worker(w) == Sleep(w) \/ Take(w) \/ Echo(w) \/ Leave(w)
Client(c) == Send(c) \/ HangUp(c)

Next ==
  \/ Main
  \/ \E w \in Workers : Worker(w) \/ SpuriousWakeup(w)
  \/ \E c \in Conns : Client(c)

Spec ==
  /\ Init /\ [][Next]_vars
  /\ WF_vars(\E w \in Workers : Start(w))
  /\ \A w \in Workers : WF_vars(Worker(w))

\* An assumption on the clients, not on the code: each leaves in the end.
ClientsLeave == \A c \in Conns : WF_vars(HangUp(c))
PoliteSpec   == Spec /\ ClientsLeave

-----------------------------------------------------------------------------
(***************************************************************************)
(* No wakeup is lost: while a worker sleeps, there is for each task in the  *)
(* queue a worker that is on its way to look.                               *)
(***************************************************************************)
NoLostWakeup == Waiting = {} \/ Len(task) <= Cardinality(OnTheWay)

(***************************************************************************)
(* A connection has one owner: no two workers read from the same socket,    *)
(* and none reads from one that is still queued.                            *)
(***************************************************************************)
OneOwner ==
  \A w \in Workers : pc[w] = "run" =>
    /\ conn[job[w]] = "accepted"
    /\ \A i \in 1 .. Len(task) : task[i] # job[w]
    /\ \A u \in Workers \ {w} : pc[u] = "run" => job[u] # job[w]

(***************************************************************************)
(* Tasks begin in the order of the accepts, each once.                      *)
(***************************************************************************)
Fifo == INSTANCE BoundedFifo WITH
  Consumers <- Workers, Values <- Conns, Cap <- Cardinality(Conns),
  Blank <- None, fifo <- task, got <- job
TasksInOrder == Fifo!Init /\ [][Fifo!Next]_(Fifo!vars)

(***************************************************************************)
(* If clients leave in the end, every accepted connection is served and     *)
(* closed, however many more there are than workers.                        *)
(***************************************************************************)
EveryConnectionServed ==
  \A c \in Conns : conn[c] = "accepted" ~> conn[c] = "closed"
=============================================================================
