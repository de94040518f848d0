--------------------------- MODULE ReactorProofs ---------------------------
(***************************************************************************)
(* For every set of clients and however long the vector of reported         *)
(* channels grows: epoll_wait never sleeps on work, and no event is dropped.*)
(*                                                                          *)
(* The events asked for, the callbacks, _channels and what epoll watches    *)
(* are four records of one fact, kept by three classes: they are all the    *)
(* listening channel and the accepted clients.                              *)
(***************************************************************************)
EXTENDS Reactor, FiniteSetTheorems, TLAPS

Registered == {Listener} \cup Accepted

\* The four records agree.
Records ==
  /\ event = Registered /\ callback = Registered
  /\ channels = Registered /\ interest = Registered

\* A client waits to be accepted once, and only after it connected; before
\* that nothing arrives.
Waits ==
  /\ \A n \in 1 .. Len(backlog) : client[backlog[n]] # "absent"
  /\ \A m, n \in 1 .. Len(backlog) : backlog[m] = backlog[n] => m = n
  /\ \A c \in readable : client[c] # "absent"

\* What was ever reported is registered.
Reported ==
  /\ revent \subseteq Registered
  /\ \A n \in 1 .. Len(active) : active[n] \in revent

IInv == TypeOK /\ Records /\ Waits /\ Reported

-----------------------------------------------------------------------------
LEMMA AcceptedIs ==
  ASSUME TypeOK
  PROVE  \A c \in Clients :
           c \in Accepted <=> client[c] # "absent" /\ \A n \in 1 .. Len(backlog) : backlog[n] # c
BY DEF TypeOK, Accepted, Range

LEMMA InitIInv == Init => IInv
<1> SUFFICES ASSUME Init PROVE IInv  OBVIOUS
<1>1. TypeOK  BY DEF Init, TypeOK, Channels
<1>2. Accepted = {}  BY DEF Init, Accepted
<1> QED  BY <1>1, <1>2 DEF Init, IInv, Records, Waits, Reported, Registered

\* When nobody is accepted, nothing but the vector matters.
LEMMA SameAccepted ==
  ASSUME IInv, TypeOK', Waits', UNCHANGED registry, Accepted' = Accepted,
         UNCHANGED <<revent, active>>
  PROVE  IInv'
BY DEF IInv, Records, Reported, Registered, registry

LEMMA ConnectStep == ASSUME IInv, NEW c \in Clients, Connect(c) PROVE IInv'
<1> USE DEF Connect, IInv
<1>0. PICK k \in Nat : k = Len(backlog)  BY DEF TypeOK
<1>1. /\ Len(backlog') = k + 1 /\ backlog'[k + 1] = c
      /\ \A n \in 1 .. k : backlog'[n] = backlog[n] /\ backlog[n] \in Clients
  BY <1>0 DEF TypeOK
<1>2. TypeOK'  BY DEF TypeOK, registry
<1>3. Waits'
  BY <1>0, <1>1 DEF Waits, TypeOK
<1>4. \A d \in Clients : d \in Accepted' <=> d \in Accepted
  <2>1. \A d \in Clients :
          d \in Accepted' <=> client'[d] # "absent" /\ \A n \in 1 .. k + 1 : backlog'[n] # d
    BY <1>1, <1>2 DEF TypeOK, Accepted, Range
  <2> QED  BY <2>1, <1>0, <1>1, AcceptedIs DEF TypeOK
<1>5. Accepted' = Accepted  BY <1>4 DEF Accepted
<1> QED  BY <1>2, <1>3, <1>5, SameAccepted

LEMMA ArrivalStep ==
  ASSUME IInv, NEW c \in Clients, Send(c) \/ Close(c)
  PROVE  IInv'
<1> USE DEF IInv
<1>1. /\ client[c] = "open" /\ readable' = readable \cup {c}
      /\ client' = client \/ client' = [client EXCEPT ![c] = "closed"]
      /\ UNCHANGED <<registry, revent, active, pos, backlog>>
  BY DEF Send, Close
<1>2. TypeOK'  BY <1>1 DEF TypeOK, registry
<1>3. \A d \in Clients : client'[d] # "absent" <=> client[d] # "absent"
  BY <1>1 DEF TypeOK
<1>4. Waits'
  <2>1. \A n \in 1 .. Len(backlog) : backlog[n] \in Clients  BY DEF TypeOK
  <2> QED  BY <1>1, <1>3, <2>1 DEF Waits, TypeOK
<1>5. Accepted' = Accepted  BY <1>1, <1>3 DEF Accepted
<1> QED  BY <1>1, <1>2, <1>4, <1>5, SameAccepted

-----------------------------------------------------------------------------
(* epoll_wait *)

LEMMA DueIs ==
  ASSUME IInv
  PROVE  /\ Due \subseteq Registered /\ Due \subseteq Channels
         /\ IsFiniteSet(Due) /\ Cardinality(Due) \in Nat
<1>1. Due \subseteq Registered  BY DEF IInv, Records, Due
<1>2. Due \subseteq Channels  BY DEF IInv, TypeOK, Due
<1>3. IsFiniteSet(Channels)
  BY ClientsAssumption, FS_AddElement DEF Channels
<1> QED  BY <1>1, <1>2, <1>3, FS_Subset, FS_CardinalityType

LEMMA Joined ==
  ASSUME NEW a \in Seq(Channels), NEW b \in Seq(Channels), NEW k \in Nat, NEW d \in Nat,
         k = Len(a), d = Len(b)
  PROVE  /\ a \o b \in Seq(Channels) /\ Len(a \o b) = k + d
         /\ \A n \in 1 .. k : (a \o b)[n] = a[n]
         /\ \A n \in k + 1 .. k + d : (a \o b)[n] = b[n - k] /\ n - k \in 1 .. d
OBVIOUS

LEMMA PollStep == IInv /\ Poll => IInv'
<1> SUFFICES ASSUME IInv, Poll PROVE IInv'  OBVIOUS
<1> USE DEF IInv
<1>0. PICK S \in Reports : /\ revent' = revent \cup S
                          /\ \E due \in SetToSeqs(S) : active' = active \o due
  BY DEF Poll
<1>a. /\ pos' = 1 /\ UNCHANGED <<registry, client, backlog, readable>>
      /\ S \subseteq Due /\ S # {} /\ S \subseteq Channels /\ S \subseteq Registered
  BY <1>0, DueIs DEF Poll, Reports
<1>1. PICK d \in Nat : d = Cardinality(S) /\ d > 0
  BY <1>a, DueIs, FS_Subset, FS_EmptySet, FS_CardinalityType
<1>2. PICK due \in SetToSeqs(S) : active' = active \o due  BY <1>0
<1>3. due \in [1 .. d -> S]  BY <1>1, <1>2 DEF SetToSeqs
<1>4. due \in Seq(Channels) /\ Len(due) = d /\ \A n \in 1 .. d : due[n] \in S
  BY <1>3, <1>a
<1>5. PICK k \in Nat : k = Len(active)  BY DEF TypeOK
<1>6. /\ active' \in Seq(Channels) /\ Len(active') = k + d
      /\ \A n \in 1 .. k : active'[n] = active[n]
      /\ \A n \in k + 1 .. k + d : active'[n] = due[n - k] /\ n - k \in 1 .. d
  <2>1. active \in Seq(Channels)  BY DEF TypeOK
  <2>2. PICK a \in Seq(Channels) : a = active  BY <2>1
  <2>3. /\ a \o due \in Seq(Channels) /\ Len(a \o due) = k + d
        /\ \A n \in 1 .. k : (a \o due)[n] = a[n]
        /\ \A n \in k + 1 .. k + d : (a \o due)[n] = due[n - k] /\ n - k \in 1 .. d
    <3>1. k = Len(a) /\ d = Len(due) /\ due \in Seq(Channels)  BY <1>4, <1>5, <2>2
    <3> QED  BY <3>1, Joined
  <2> QED  BY <1>2, <2>2, <2>3, Zenon
<1>7. TypeOK'  BY <1>0, <1>a, <1>1, <1>5, <1>6 DEF TypeOK, registry
<1>8. Accepted' = Accepted  BY <1>a DEF Accepted
<1>9. Reported'
  <2>1. ASSUME NEW n \in 1 .. k + d PROVE active'[n] \in revent'
    <3>1. CASE n \in 1 .. k  BY <3>1, <1>0, <1>5, <1>6 DEF Reported
    <3>2. CASE n \in k + 1 .. k + d  BY <3>2, <1>0, <1>4, <1>6
    <3>3. n \in 1 .. k \/ n \in k + 1 .. k + d  OBVIOUS
    <3> QED  BY <3>1, <3>2, <3>3
  <2> QED  BY <2>1, <1>0, <1>a, <1>6, <1>8 DEF Reported, Registered
<1> QED  BY <1>a, <1>7, <1>8, <1>9 DEF Records, Waits, Registered, registry

LEMMA PollInterruptedStep == IInv /\ PollInterrupted => IInv'
<1> SUFFICES ASSUME IInv, PollInterrupted PROVE IInv'  OBVIOUS
<1> USE DEF PollInterrupted, IInv
<1>1. Len(active) >= 1  BY DEF TypeOK
<1>2. TypeOK'  BY <1>1 DEF TypeOK, registry
<1>3. Waits' /\ Accepted' = Accepted  BY DEF Waits, Accepted
<1> QED  BY <1>2, <1>3, SameAccepted

-----------------------------------------------------------------------------
(* The loop *)

LEMMA AdvanceType == ASSUME TypeOK, Advance, UNCHANGED active PROVE pos' \in 0 .. Len(active')
<1>1. Len(active) \in Nat /\ pos \in 0 .. Len(active)  BY DEF TypeOK
<1> QED  BY <1>1 DEF Advance

LEMMA Popped ==
  ASSUME NEW S, NEW q \in Seq(S), NEW k \in Nat, Len(q) = k + 1
  PROVE  /\ Head(q) \in S /\ Head(q) = q[1] /\ Tail(q) \in Seq(S)
         /\ Len(Tail(q)) = k /\ \A n \in 1 .. k : Tail(q)[n] = q[n + 1]
         /\ \A n \in 1 .. k + 1 : q[n] \in S
OBVIOUS

LEMMA ListenStep == IInv /\ Listen => IInv'
<1> SUFFICES ASSUME IInv, Listen PROVE IInv'  OBVIOUS
<1> USE DEF Listen, IInv
<1>0. pos' \in 0 .. Len(active')  BY AdvanceType
<1>1. CASE UNCHANGED <<registry, backlog>>
  <2>1. TypeOK'  BY <1>0, <1>1 DEF TypeOK, registry
  <2>2. Waits' /\ Accepted' = Accepted  BY <1>1 DEF Waits, Accepted
  <2> QED  BY <1>1, <2>1, <2>2, SameAccepted
<1>2. CASE backlog # <<>> /\ Adopt(Head(backlog)) /\ backlog' = Tail(backlog)
  <2> DEFINE c == Head(backlog)
  <2>0. PICK k \in Nat : Len(backlog) = k + 1
    <3>1. Len(backlog) \in Nat /\ Len(backlog) # 0  BY <1>2 DEF TypeOK
    <3> QED  BY <3>1
  <2>1. /\ c \in Clients /\ c = backlog[1] /\ backlog' = Tail(backlog)
        /\ Len(backlog') = k /\ \A n \in 1 .. k : backlog'[n] = backlog[n + 1]
        /\ backlog' \in Seq(Clients) /\ \A n \in 1 .. k + 1 : backlog[n] \in Clients
    <3>1. backlog \in Seq(Clients) /\ backlog' = Tail(backlog)  BY <1>2 DEF TypeOK
    <3> QED  BY <3>1, <2>0, Popped
  <2>2. /\ event' = event \cup {c} /\ callback' = callback \cup {c}
        /\ channels' = channels \cup {c}
        /\ interest' = IF c \in channels THEN interest ELSE interest \cup {c}
    BY <1>2 DEF Adopt, EnAbleRead, UpdataEvent, SetReadCb
  <2> HIDE DEF c
  <2>3. TypeOK'  BY <1>0, <2>1, <2>2 DEF TypeOK, Channels
  <2>4. Waits'  BY <2>0, <2>1 DEF Waits
  <2>5. Accepted' = Accepted \cup {c}
    <3>1. \A d \in Clients :
            d \in Accepted' <=> client[d] # "absent" /\ \A n \in 1 .. k : backlog[n + 1] # d
      <4>1. DOMAIN backlog' = 1 .. k  BY <2>1
      <4>2. Range(backlog') = {backlog'[n] : n \in 1 .. k}  BY <4>1 DEF Range
      <4>3. Accepted' = {d \in Clients : client[d] # "absent"} \ Range(backlog')
        BY DEF Accepted
      <4> QED  BY <4>2, <4>3, <2>1
    <3>2. \A d \in Clients :
            d \in Accepted <=> client[d] # "absent" /\ \A n \in 1 .. k + 1 : backlog[n] # d
      BY <2>0, AcceptedIs
    <3>3. client[c] # "absent" /\ \A n \in 1 .. k : backlog[n + 1] # c
      BY <2>0, <2>1 DEF Waits
    <3>4. ASSUME NEW d \in Clients PROVE d \in Accepted' <=> d \in Accepted \/ d = c
      <4>1. \A n \in 1 .. k + 1 : n = 1 \/ (n - 1 \in 1 .. k /\ n = (n - 1) + 1)  OBVIOUS
      <4>2. \A n \in 1 .. k : n + 1 \in 1 .. k + 1  OBVIOUS
      <4> QED  BY <2>1, <3>1, <3>2, <3>3, <4>1, <4>2
    <3> QED  BY <2>1, <3>4 DEF Accepted
  <2>6. Registered' = Registered \cup {c}  BY <2>5 DEF Registered
  <2> QED  BY <2>2, <2>3, <2>4, <2>6 DEF Records, Reported
<1> QED  BY <1>1, <1>2

LEMMA ReadCbStep == ASSUME IInv, NEW c \in Clients, ReadCb(c) PROVE IInv'
<1> USE DEF ReadCb, IInv
<1>0. pos' \in 0 .. Len(active')  BY AdvanceType
<1>1. TypeOK'  BY <1>0 DEF TypeOK, registry
<1>2. Waits' /\ Accepted' = Accepted  BY DEF Waits, Accepted
<1> QED  BY <1>1, <1>2, SameAccepted

LEMMA NextIInv == IInv /\ [Next]_vars => IInv'
<1> SUFFICES ASSUME IInv, [Next]_vars PROVE IInv'  OBVIOUS
<1>1. CASE UNCHANGED vars
  BY <1>1 DEF vars, registry, IInv, TypeOK, Records, Waits, Reported, Registered, Accepted
<1> QED
  BY <1>1, ConnectStep, ArrivalStep, PollStep, PollInterruptedStep, ListenStep, ReadCbStep
  DEF Next, Loop

THEOREM Invariance == Spec => []IInv
BY InitIInv, NextIInv, PTL DEF Spec

-----------------------------------------------------------------------------
\* The variables of the loop keep their types, however long the vector grows.
THEOREM TypeCorrect == Spec => []TypeOK
<1>1. IInv => TypeOK  BY DEF IInv
<1> QED  BY <1>1, Invariance, PTL

\* The events asked for, the callbacks, _channels and what epoll watches agree.
THEOREM RecordsAgree == Spec => []Records
<1>1. IInv => Records  BY DEF IInv
<1> QED  BY <1>1, Invariance, PTL

\* Every accepted client with data, or gone, and every connection to be
\* accepted is what epoll_wait reports, and nothing that is not in _channels.
THEOREM Awake == Spec => []NeverSleepsOnWork
<1>1. IInv => NeverSleepsOnWork
  BY DEF IInv, Records, Registered, Due, NeverSleepsOnWork
<1> QED  BY <1>1, Invariance, PTL

\* HandleEvent meets only accepted channels with their callback and event; that
\* the turn of a reported event comes is not promised.
THEOREM NothingDropped == Spec => []NoEventDropped
<1>1. IInv => NoEventDropped
  <2> SUFFICES ASSUME IInv, NEW n \in DOMAIN active
               PROVE  /\ active[n] \in revent \cap callback
                      /\ active[n] = Listener \/ active[n] \in Accepted
    BY DEF NoEventDropped
  <2>1. n \in 1 .. Len(active)  BY DEF IInv, TypeOK
  <2> QED  BY <2>1 DEF IInv, Records, Reported, Registered
<1> QED  BY <1>1, Invariance, PTL
=============================================================================
