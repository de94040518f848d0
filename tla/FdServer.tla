------------------------------ MODULE FdServer ------------------------------
(***************************************************************************)
(* The two single-threaded servers of poll/ that watch a table of           *)
(* descriptors: SelectServer.hpp and PollServer.hpp. They share link,        *)
(* Recver and the scan of the table, and differ in what they ask the kernel  *)
(* for and where they look up its answer; api says which of them runs.       *)
(*                                                                          *)
(* The sockets block. Each connection is a client that connects once, and    *)
(* Linux gives out the lowest descriptor that is free. The listening socket  *)
(* is the last descriptor open when Run begins.                              *)
(***************************************************************************)
EXTENDS Integers, Sequences

CONSTANTS
  Clients,
  None,         \* nobody behind a descriptor
  Listen,       \* _Listen.Fd()
  FdLimit,      \* descriptors of the process are below this
  fd_max_num,   \* per server, the length of the table
  MaxUnread     \* bound: reads it takes to empty a socket

Apis == {"select", "poll"}

ASSUME NoneAssumption == None \notin Clients
ASSUME ListenAssumption == Listen \in Nat /\ FdLimit \in Nat /\ Listen < FdLimit
ASSUME TableAssumption == fd_max_num \in [Apis -> Nat \ {0}]
ASSUME UnreadAssumption == MaxUnread \in Nat

VARIABLES
  api,
  fds,          \* fd_array, or the fd members of _event_fds
  ready,        \* rfds after select, or the slots with POLLIN in revents
  pos,          \* the slot trigger is at, fd_max_num[api] while Run waits
  running,      \* FALSE when the process has exited
  peer,         \* the client behind each descriptor
  client,       \* absent, open, closed or reset by its user
  unread,       \* what a client sent and the server did not read yet
  backlog       \* the clients that wait to be accepted

table == <<fds, ready, pos>>
net   == <<peer, client, unread, backlog>>
vars  == <<api, table, running, net>>

defaultfd == -1
Size  == fd_max_num[api]
Slots == 0 .. Size - 1
Fds   == Listen + 1 .. FdLimit - 1

TypeOK ==
  /\ api \in Apis
  /\ fds \in [Slots -> Fds \cup {Listen, defaultfd}]
  /\ ready \subseteq Slots \cup Fds \cup {Listen}
  /\ pos \in 0 .. Size
  /\ running \in BOOLEAN
  /\ peer \in [Fds -> Clients \cup {None}]
  /\ client \in [Clients -> {"absent", "open", "closed", "reset"}]
  /\ unread \in [Clients -> 0 .. MaxUnread]
  /\ backlog \in Seq(Clients)

Init ==
  /\ api \in Apis
  /\ fds = [i \in Slots |-> IF i = 0 THEN Listen ELSE defaultfd]
  /\ ready = {}
  /\ pos = Size
  /\ running = TRUE
  /\ peer = [fd \in Fds |-> None]
  /\ client = [c \in Clients |-> "absent"]
  /\ unread = [c \in Clients |-> 0]
  /\ backlog = <<>>

-----------------------------------------------------------------------------
(* The clients *)

Connect(c) ==
  /\ client[c] = "absent"
  /\ client' = [client EXCEPT ![c] = "open"]
  /\ backlog' = Append(backlog, c)
  /\ UNCHANGED <<api, table, running, peer, unread>>

Send(c) ==
  /\ client[c] = "open" /\ unread[c] < MaxUnread
  /\ unread' = [unread EXCEPT ![c] = @ + 1]
  /\ UNCHANGED <<api, table, running, peer, client, backlog>>

Hangup(c) ==
  /\ client[c] = "open"
  /\ \E s \in {"closed", "reset"} : client' = [client EXCEPT ![c] = s]
  /\ UNCHANGED <<api, table, running, peer, unread, backlog>>

-----------------------------------------------------------------------------
(* Run: what the kernel is asked and what it answers *)

Used == {i \in Slots : fds[i] # defaultfd}

\* A read of the descriptor, or an accept, would not block.
Readable(fd) ==
  IF fd = Listen
    THEN backlog # <<>>
    ELSE peer[fd] # None /\ (unread[peer[fd]] > 0 \/ client[peer[fd]] # "open")

\* max_fd: each slot is compared with the listening descriptor, not with the
\* highest so far, so that the last of the higher ones is taken.
Above  == {i \in Used : fds[i] > Listen}
max_fd == IF Above = {} THEN Listen
          ELSE fds[CHOOSE i \in Above : \A j \in Above : j <= i]

\* select looks at nothing above max_fd.
Select == ready' = {fd \in {fds[i] : i \in Used} : fd <= max_fd /\ Readable(fd)}

\* Mutant: the entries asked for are scanned, not the ones returned.
PollAsked == ready' = Used

\* poll writes the revents of every entry, and clears those without descriptor.
Poll == ready' = {i \in Used : Readable(fds[i])}

\* A timeout, or a wait cut short by a signal, changes nothing.
Wait ==
  /\ running /\ pos = Size
  /\ \/ api = "select" /\ Select
     \/ api = "poll" /\ Poll
  /\ ready' # {}
  /\ pos' = 0
  /\ UNCHANGED <<api, fds, running, net>>

-----------------------------------------------------------------------------
(* trigger, link and Recver *)

\* What trigger finds set for slot i. For an empty slot FD_ISSET(-1) may be set,
\* and the read of descriptor -1 that follows fails without effect.
Reported(i) ==
  fds[i] # defaultfd /\ (IF api = "select" THEN fds[i] \in ready ELSE i \in ready)

AtSlot(i) == running /\ pos = i /\ i \in Slots
Advance   == pos' = pos + 1

Skip(i) ==
  /\ AtSlot(i) /\ ~Reported(i)
  /\ Advance
  /\ UNCHANGED <<api, fds, ready, running, net>>

IsLowest(x, S) == x \in S /\ \A y \in S : x <= y

FreeFds   == {fd \in Fds : peer[fd] = None}
FreeSlots == {i \in Slots \ {0} : fds[i] = defaultfd}

\* Mutant: the last free slot is taken.
StoreLast(sock) ==
  IF FreeSlots = {} THEN UNCHANGED fds
  ELSE \E p \in FreeSlots :
         (\A q \in FreeSlots : q <= p) /\ fds' = [fds EXCEPT ![p] = sock]

\* "server full": the descriptor is kept nowhere and stays open.
Store(sock) ==
  IF FreeSlots = {} THEN UNCHANGED fds
  ELSE \E p \in FreeSlots : IsLowest(p, FreeSlots) /\ fds' = [fds EXCEPT ![p] = sock]

\* Accept ends the process when there is no descriptor left.
Link(i) ==
  /\ AtSlot(i) /\ Reported(i) /\ fds[i] = Listen /\ backlog # <<>>
  /\ IF FreeFds = {}
       THEN running' = FALSE /\ UNCHANGED <<fds, peer, backlog>>
       ELSE \E sock \in FreeFds :
              /\ IsLowest(sock, FreeFds)
              /\ Store(sock)
              /\ peer' = [peer EXCEPT ![sock] = Head(backlog)]
              /\ backlog' = Tail(backlog)
              /\ UNCHANGED running
  /\ Advance
  /\ UNCHANGED <<api, ready, client, unread>>

\* n > 0: one buffer full, or less.
ReadData(c) ==
  /\ unread[c] > 0
  /\ unread' = [unread EXCEPT ![c] = @ - 1]
  /\ UNCHANGED <<fds, peer, client>>

\* n < 0: a reset is reported once, as an error that Recver does not look at;
\* after it the socket is at its end.
ReadError(c) ==
  /\ unread[c] = 0 /\ client[c] = "reset"
  /\ client' = [client EXCEPT ![c] = "closed"]
  /\ UNCHANGED <<fds, peer, unread>>

\* Mutant: the descriptor is closed and stays in the table.
ReadEndKeeps(i, c) ==
  /\ unread[c] = 0 /\ client[c] = "closed"
  /\ peer' = [peer EXCEPT ![fds[i]] = None]
  /\ UNCHANGED <<fds, client, unread>>

\* Mutant: the slot is cleared with 0, which is a descriptor.
ReadEndZero(i, c) ==
  /\ unread[c] = 0 /\ client[c] = "closed"
  /\ fds' = [fds EXCEPT ![i] = 0]
  /\ peer' = [peer EXCEPT ![fds[i]] = None]
  /\ UNCHANGED <<client, unread>>

\* n = 0: close, and the slot is free.
ReadEnd(i, c) ==
  /\ unread[c] = 0 /\ client[c] = "closed"
  /\ fds' = [fds EXCEPT ![i] = defaultfd]
  /\ peer' = [peer EXCEPT ![fds[i]] = None]
  /\ UNCHANGED <<client, unread>>

Recver(i) ==
  /\ AtSlot(i) /\ Reported(i) /\ fds[i] # Listen /\ Readable(fds[i])
  /\ LET c == peer[fds[i]] IN ReadData(c) \/ ReadError(c) \/ ReadEnd(i, c)
  /\ Advance
  /\ UNCHANGED <<api, ready, running, backlog>>

Run == Wait \/ \E i \in Slots : Skip(i) \/ Link(i) \/ Recver(i)

Next == Run \/ \E c \in Clients : Connect(c) \/ Send(c) \/ Hangup(c)

\* The process is scheduled; no client is obliged to do anything.
Spec == Init /\ [][Next]_vars /\ WF_vars(Run)

-----------------------------------------------------------------------------
InTable(c) == \E i \in Used : fds[i] # Listen /\ peer[fds[i]] = c

(***************************************************************************)
(* Run of SelectServer takes the descriptor of the last slot in use for the  *)
(* highest one. It is: whatever came and went, select is asked about every   *)
(* descriptor of the table, and nobody in it is left unheard.                *)
(***************************************************************************)
AllAskedFor == api = "select" => \A i \in Used : fds[i] <= max_fd

(***************************************************************************)
(* The sockets block and there is one thread: trigger never reads or         *)
(* accepts where nothing is waiting, although slots and descriptors are       *)
(* freed and given out again between the answer of the kernel and its use.    *)
(***************************************************************************)
NeverBlocks == \A i \in Slots : AtSlot(i) /\ Reported(i) => Readable(fds[i])

(***************************************************************************)
(* A client of the table that hangs up is read to its end, error or not, and *)
(* its slot becomes free again, unless the process has exited.               *)
(***************************************************************************)
GoneAreFreed ==
  \A c \in Clients :
    (InTable(c) /\ client[c] # "open") ~> (~InTable(c) \/ ~running)
=============================================================================
