------------------------------ MODULE Reactor ------------------------------
(***************************************************************************)
(* The event loop of my_muduo/source: Cha, Listen and ReadCb of text.cpp,   *)
(* over Channel.hpp and Poller.hpp, with the clients of the server. Only    *)
(* reading is ever asked for and only read callbacks are ever set, so       *)
(* events and callbacks are sets of channels.                               *)
(*                                                                          *)
(* The listening socket does not block, the accepted ones do. The vector    *)
(* that Poll fills is never cleared, so each round handles every channel    *)
(* that was ever reported once more.                                        *)
(***************************************************************************)
EXTENDS Naturals, Sequences, SequencesExt, FiniteSets

CONSTANTS
  Clients,
  Listener,     \* the channel of the listening socket
  EventsMax,    \* EPOLLEVENTS_MAX
  MaxActive     \* bound on the length of the vector

ASSUME ListenerAssumption == Listener \notin Clients
ASSUME ClientsAssumption == IsFiniteSet(Clients)
ASSUME EventsAssumption == EventsMax \in Nat \ {0}

VARIABLES
  event,        \* channels with EPOLLIN in _event
  revent,       \* channels with EPOLLIN in _revent
  callback,     \* channels whose _read_cb is set
  channels,     \* Poller::_channels
  interest,     \* the descriptors epoll watches for reading
  active,       \* the vector of Cha
  pos,          \* the index the loop is at in active, 0 in epoll_wait
  client,       \* each client: absent, open, or closed by its user
  backlog,      \* the clients that wait to be accepted
  readable      \* the clients whose descriptor has data, or the end of it

registry == <<event, callback, channels, interest>>
vars == <<registry, revent, active, pos, client, backlog, readable>>

Channels == Clients \cup {Listener}

TypeOK ==
  /\ event \subseteq Channels /\ callback \subseteq Channels
  /\ revent \subseteq Channels
  /\ channels \subseteq Channels /\ interest \subseteq Channels
  /\ active \in Seq(Channels) /\ pos \in 0 .. Len(active)
  /\ client \in [Clients -> {"absent", "open", "closed"}]
  /\ backlog \in Seq(Clients)
  /\ readable \subseteq Clients

\* Cha up to its loop
Init ==
  /\ event = {Listener} /\ callback = {Listener}
  /\ channels = {Listener} /\ interest = {Listener}
  /\ revent = {} /\ active = <<>> /\ pos = 0
  /\ client = [c \in Clients |-> "absent"]
  /\ backlog = <<>> /\ readable = {}

-----------------------------------------------------------------------------
(* The clients *)

Connect(c) ==
  /\ client[c] = "absent"
  /\ client' = [client EXCEPT ![c] = "open"]
  /\ backlog' = Append(backlog, c)
  /\ UNCHANGED <<registry, revent, active, pos, readable>>

Send(c) ==
  /\ client[c] = "open"
  /\ readable' = readable \cup {c}
  /\ UNCHANGED <<registry, revent, active, pos, client, backlog>>

\* The end of the stream stays readable.
Close(c) ==
  /\ client[c] = "open"
  /\ client' = [client EXCEPT ![c] = "closed"]
  /\ readable' = readable \cup {c}
  /\ UNCHANGED <<registry, revent, active, pos, backlog>>

-----------------------------------------------------------------------------
(* Poller and Channel *)

\* What there is to report.
Due == {c \in interest : c \in readable \/ (c = Listener /\ backlog # <<>>)}

\* What epoll_wait reports of it: all, or as many as fit into _evs.
Reports == {S \in SUBSET Due : /\ S # {} /\ Cardinality(S) <= EventsMax
                               /\ S = Due \/ Cardinality(S) = EventsMax}

\* Mutant: modified only, as if every descriptor were known to epoll.
UpdataModOnly(c) ==
  /\ channels' = channels \cup {c}
  /\ UNCHANGED interest

\* UpdataEvent: a new descriptor is added; EPOLL_CTL_MOD then sets the same
\* events again.
UpdataEvent(c) ==
  /\ channels' = channels \cup {c}
  /\ interest' = IF c \in channels THEN interest ELSE interest \cup {c}

EnAbleRead(c) == event' = event \cup {c} /\ UpdataEvent(c)
SetReadCb(c)  == callback' = callback \cup {c}

\* Poll: epoll_wait returns with descriptors that are due, in any order.
Poll ==
  /\ pos = 0
  /\ \E S \in Reports :
       /\ Len(active) + Cardinality(S) <= MaxActive
       /\ revent' = revent \cup S
       /\ \E due \in SetToSeqs(S) : active' = active \o due
  /\ pos' = 1
  /\ UNCHANGED <<registry, client, backlog, readable>>

\* Poll: epoll_wait is interrupted; what the vector holds is handled again.
PollInterrupted ==
  /\ pos = 0 /\ active # <<>>
  /\ pos' = 1
  /\ UNCHANGED <<registry, revent, active, client, backlog, readable>>

-----------------------------------------------------------------------------
(* The loop and its callbacks *)

\* Mutant: one index too far.
AdvancePast ==
  pos' = IF pos <= Len(active) THEN pos + 1 ELSE 0

Advance ==
  pos' = IF pos < Len(active) THEN pos + 1 ELSE 0

\* HandleEvent of channel c runs its read callback; NoEventDropped says that no
\* other case of HandleEvent is met.
Runs(c) == pos > 0 /\ active[pos] = c /\ c \in revent \cap callback

\* Mutant: the new channel gets its callback and is not watched.
AdoptUnwatched(c) == SetReadCb(c) /\ UNCHANGED <<event, channels, interest>>

\* Mutant: the new channel is watched and has no callback.
AdoptUnheard(c) == EnAbleRead(c) /\ UNCHANGED callback

\* What Listen does with the accepted descriptor.
Adopt(c) == EnAbleRead(c) /\ SetReadCb(c)

\* accept fails when nobody is waiting, and otherwise for want of memory or of
\* descriptors: ReadCb gives none back.
Listen ==
  /\ Runs(Listener)
  /\ \/ UNCHANGED <<registry, backlog>>
     \/ backlog # <<>> /\ Adopt(Head(backlog)) /\ backlog' = Tail(backlog)
  /\ Advance
  /\ UNCHANGED <<revent, active, client, readable>>

\* read waits for data or the end of the stream, and takes all of the data or
\* as much as fits. At the end of the stream the channel stays.
ReadCb(c) ==
  /\ Runs(c) /\ c \in readable
  /\ \/ UNCHANGED readable
     \/ client[c] = "open" /\ readable' = readable \ {c}
  /\ Advance
  /\ UNCHANGED <<registry, revent, active, client, backlog>>

Loop == Poll \/ PollInterrupted \/ Listen \/ \E c \in Clients : ReadCb(c)

Next == Loop \/ \E c \in Clients : Connect(c) \/ Send(c) \/ Close(c)

Spec == Init /\ [][Next]_vars

-----------------------------------------------------------------------------
Accepted == {c \in Clients : client[c] # "absent"} \ Range(backlog)

(***************************************************************************)
(* epoll_wait does not sleep on work: every accepted client with data, or   *)
(* gone, and every connection to be accepted is reported, and what is       *)
(* reported is in _channels, as the assert in Poll demands, however         *)
(* accepting, reading and interruptions interleave with arrivals.           *)
(***************************************************************************)
NeverSleepsOnWork ==
  /\ Accepted \cap readable \subseteq Due
  /\ backlog # <<>> => Listener \in Due
  /\ Due \subseteq channels

(***************************************************************************)
(* Whoever is in the vector was accepted and has its callback and its       *)
(* event: HandleEvent drops nothing when its turn comes, and the loop never *)
(* reads for a client that is still in the backlog.  That its turn comes is *)
(* not promised: the reads before it may wait for ever.                     *)
(***************************************************************************)
NoEventDropped ==
  \A n \in DOMAIN active :
    /\ active[n] \in revent \cap callback
    /\ active[n] = Listener \/ active[n] \in Accepted
=============================================================================
