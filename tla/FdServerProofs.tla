--------------------------- MODULE FdServerProofs ---------------------------
(***************************************************************************)
(* For every table size, limit of descriptors and set of clients: select is *)
(* asked about every descriptor of its table, and no call of trigger blocks. *)
(*                                                                          *)
(* Both rest on the fact, which the code never states, that slots and        *)
(* descriptors run in step: link takes the lowest free slot and the kernel   *)
(* the lowest free descriptor, and Recver gives back both, so that slot i    *)
(* holds descriptor Listen + i or nothing.                                   *)
(***************************************************************************)
EXTENDS FdServer, WellFoundedInduction, TLAPS

\* Slots and descriptors run in step.
InStep ==
  /\ fds[0] = Listen
  /\ \A i \in Slots \ {0} :
       /\ fds[i] # defaultfd => fds[i] = Listen + i /\ peer[fds[i]] # None
       /\ Listen + i \in Fds /\ peer[Listen + i] # None => fds[i] = Listen + i

\* A client has one connection, waiting or accepted.
OneEach ==
  /\ \A fd \in Fds : peer[fd] # None => client[peer[fd]] # "absent"
  /\ \A n \in 1 .. Len(backlog) : client[backlog[n]] # "absent"
  /\ \A a, b \in Fds : peer[a] # None /\ peer[a] = peer[b] => a = b
  /\ \A m, n \in 1 .. Len(backlog) : backlog[m] = backlog[n] => m = n
  /\ \A fd \in Fds, n \in 1 .. Len(backlog) : peer[fd] # backlog[n]

\* Where the answer of the kernel for slot i is found.
Key(i) == IF api = "select" THEN Listen + i ELSE i

\* The part of the answer still to be used holds of the slot it is used for.
AnswerHolds ==
  \A i \in Slots : pos <= i /\ Key(i) \in ready => fds[i] # defaultfd /\ Readable(fds[i])

IInv == TypeOK /\ InStep /\ OneEach /\ AnswerHolds

-----------------------------------------------------------------------------
LEMMA Bounds ==
  ASSUME api \in Apis
  PROVE  /\ Size \in Nat \ {0} /\ 0 \in Slots /\ Slots \subseteq Nat
         /\ Fds \subseteq Nat /\ Listen \notin Fds /\ defaultfd \notin Nat
         /\ Listen \in Nat /\ FdLimit \in Nat /\ FdLimit > Listen
BY ListenAssumption, TableAssumption DEF Size, Slots, Fds, defaultfd

LEMMA InitIInv == Init => IInv
<1> SUFFICES ASSUME Init PROVE IInv  OBVIOUS
<1>0. api \in Apis  BY DEF Init
<1>1. TypeOK  BY <1>0, Bounds, UnreadAssumption DEF Init, TypeOK
<1>2. InStep  BY <1>0, Bounds DEF Init, InStep
<1>3. OneEach  BY <1>0, Bounds DEF Init, OneEach
<1>4. AnswerHolds  BY DEF Init, AnswerHolds
<1> QED  BY <1>1, <1>2, <1>3, <1>4 DEF IInv

-----------------------------------------------------------------------------
(* A non-empty set of numbers below n has a greatest element. *)

LEMMA Greatest ==
  ASSUME NEW n \in Nat, NEW S \in SUBSET (0 .. n - 1), S # {}
  PROVE  \E x \in S : \A y \in S : y <= x
<1> DEFINE R == OpToRel(<, Nat)
           T == {n - x : x \in S}
<1>1. IsWellFoundedOn(R, Nat)  BY NatLessThanWellFounded
<1>2. T \subseteq Nat /\ T # {}  OBVIOUS
<1>3. \A a, b \in Nat : a < b => <<a, b>> \in R  BY DEF OpToRel
<1> HIDE DEF R, T
<1>4. \E m \in T : \A y \in T : ~ (<<y, m>> \in R)  BY <1>1, <1>2, WFMin
<1>5. PICK m \in T : \A y \in T : ~ (y < m)  BY <1>2, <1>3, <1>4, Zenon
<1>6. PICK x \in S : m = n - x  BY DEF T
<1>7. ASSUME NEW y \in S PROVE y <= x
  <2>1. n - y \in T  BY DEF T
  <2> QED  BY <2>1, <1>5, <1>6
<1> QED  BY <1>7

-----------------------------------------------------------------------------
(* The clients *)

LEMMA ConnectStep == ASSUME IInv, NEW c \in Clients, Connect(c) PROVE IInv'
<1> USE DEF Connect, IInv, table
<1>0. api \in Apis /\ backlog \in Seq(Clients) /\ Len(backlog) \in Nat  BY DEF TypeOK
<1>1. TypeOK'  BY DEF TypeOK, Slots, Size
<1>2. InStep'  BY DEF InStep, Slots, Size
<1>3. /\ Len(backlog') = Len(backlog) + 1 /\ backlog'[Len(backlog) + 1] = c
      /\ \A n \in 1 .. Len(backlog) : backlog'[n] = backlog[n] /\ backlog[n] \in Clients
  BY <1>0
<1>4. client'[c] = "open" /\ \A d \in Clients \ {c} : client'[d] = client[d]
  BY DEF TypeOK
<1>5. \A fd \in Fds : peer[fd] # c  BY NoneAssumption DEF OneEach
<1>6. \A n \in 1 .. Len(backlog) : backlog[n] # c  BY DEF OneEach
<1>7. OneEach'
  <2>1. \A n \in 1 .. Len(backlog') : n \in 1 .. Len(backlog) \/ n = Len(backlog) + 1
    BY <1>0, <1>3
  <2>2. \A fd \in Fds : peer'[fd] # None => client'[peer'[fd]] # "absent"
    BY <1>4 DEF OneEach, TypeOK
  <2>3. \A n \in 1 .. Len(backlog') : client'[backlog'[n]] # "absent"
    BY <2>1, <1>3, <1>4 DEF OneEach
  <2>4. \A m, n \in 1 .. Len(backlog') : backlog'[m] = backlog'[n] => m = n
    BY <2>1, <1>3, <1>6 DEF OneEach
  <2>5. \A fd \in Fds, n \in 1 .. Len(backlog') : peer'[fd] # backlog'[n]
    BY <2>1, <1>3, <1>5 DEF OneEach
  <2> QED  BY <2>2, <2>3, <2>4, <2>5 DEF OneEach
<1>8. AnswerHolds'
  <2> SUFFICES ASSUME NEW i \in Slots, pos <= i, Key(i) \in ready
               PROVE  fds[i] # defaultfd /\ Readable(fds[i])'
    BY DEF AnswerHolds, Key, Slots, Size
  <2>1. fds[i] # defaultfd /\ Readable(fds[i])  BY DEF AnswerHolds
  <2>2. fds[i] = Listen \/ fds[i] \in Fds  BY <2>1 DEF TypeOK
  <2>3. CASE fds[i] = Listen  BY <2>1, <2>3, <1>0, <1>3 DEF Readable
  <2>4. CASE fds[i] \in Fds
    BY <2>1, <2>4, <1>0, <1>4, <1>5, Bounds DEF Readable, TypeOK
  <2> QED  BY <2>1, <2>2, <2>3, <2>4
<1> QED  BY <1>1, <1>2, <1>7, <1>8

LEMMA SlotFacts ==
  ASSUME IInv, NEW i \in Slots, fds[i] # defaultfd
  PROVE  \/ i = 0 /\ fds[i] = Listen
         \/ /\ i \in Nat \ {0} /\ fds[i] = Listen + i
            /\ fds[i] \in Fds /\ peer[fds[i]] \in Clients /\ fds[i] # Listen
<1> USE DEF IInv
<1>0. api \in Apis  BY DEF TypeOK
<1>1. i = 0 \/ i \in Nat \ {0}  BY <1>0, Bounds
<1>2. fds[i] \in Fds \cup {Listen}  BY DEF TypeOK
<1>3. CASE i = 0  BY <1>3 DEF InStep
<1>4. CASE i \in Nat \ {0}
  <2>1. fds[i] = Listen + i /\ peer[fds[i]] # None  BY <1>4 DEF InStep
  <2>2. fds[i] # Listen  BY <2>1, <1>4, <1>0, Bounds
  <2> QED  BY <2>1, <2>2, <1>2, <1>4 DEF TypeOK
<1> QED  BY <1>1, <1>3, <1>4

\* What may be read may still be read when a client only does more.
LEMMA ReadableStays ==
  ASSUME IInv, UNCHANGED <<api, fds, ready, pos, peer, backlog>>,
         \A d \in Clients : unread[d] > 0 => unread'[d] > 0,
         \A d \in Clients : client[d] # "open" => client'[d] # "open"
  PROVE  AnswerHolds'
<1> SUFFICES ASSUME NEW i \in Slots, pos <= i, Key(i) \in ready
             PROVE  fds[i] # defaultfd /\ Readable(fds[i])'
  BY DEF AnswerHolds, Key, Slots, Size
<1>1. fds[i] # defaultfd /\ Readable(fds[i])  BY DEF AnswerHolds, IInv
<1>2. fds[i] = Listen \/ (fds[i] # Listen /\ peer[fds[i]] \in Clients)
  BY <1>1, SlotFacts
<1> QED  BY <1>1, <1>2 DEF Readable

LEMMA SendStep == ASSUME IInv, NEW c \in Clients, Send(c) PROVE IInv'
<1> USE DEF Send, table
<1>1. TypeOK'
  <2>1. unread[c] + 1 \in 0 .. MaxUnread  BY UnreadAssumption DEF TypeOK, IInv
  <2> QED  BY <2>1 DEF IInv, TypeOK, Slots, Size
<1>2. InStep' /\ OneEach'  BY DEF IInv, InStep, OneEach, Slots, Size
<1>3. AnswerHolds'
  <2>1. \A d \in Clients : unread[d] > 0 => unread'[d] > 0
    BY UnreadAssumption DEF IInv, TypeOK
  <2> QED  BY <2>1, ReadableStays
<1> QED  BY <1>1, <1>2, <1>3 DEF IInv

LEMMA HangupStep == ASSUME IInv, NEW c \in Clients, Hangup(c) PROVE IInv'
<1> USE DEF table
<1>1. PICK s \in {"closed", "reset"} : client' = [client EXCEPT ![c] = s]
  BY DEF Hangup
<1>2. TypeOK'  BY <1>1 DEF Hangup, IInv, TypeOK, Slots, Size
<1>3. \A d \in Clients : client[d] # "absent" => client'[d] # "absent"
  BY <1>1 DEF IInv, TypeOK
<1>4. \A n \in 1 .. Len(backlog) : backlog[n] \in Clients  BY DEF IInv, TypeOK
<1>5. InStep' /\ OneEach'
  BY <1>3, <1>4 DEF Hangup, IInv, TypeOK, InStep, OneEach, Slots, Size
<1>6. AnswerHolds'
  <2>1. \A d \in Clients : client[d] # "open" => client'[d] # "open"
    BY <1>1 DEF IInv, TypeOK, Hangup
  <2> QED  BY <2>1, ReadableStays DEF Hangup
<1> QED  BY <1>2, <1>5, <1>6 DEF IInv

-----------------------------------------------------------------------------
(* Run *)

LEMMA WaitStep == ASSUME IInv, Wait PROVE IInv'
<1> USE DEF Wait, net
<1>0. api \in Apis  BY DEF IInv, TypeOK
<1>1. /\ ready' \subseteq Slots \cup Fds \cup {Listen}
      /\ \A i \in Slots : Key(i) \in ready' => fds[i] # defaultfd /\ Readable(fds[i])
  <2>1. CASE api = "select" /\ Select
    <3>1. ASSUME NEW fd \in ready'
          PROVE  \E j \in Slots : fds[j] # defaultfd /\ fds[j] = fd /\ Readable(fd)
      BY <2>1 DEF Select, Used
    <3>2. ready' \subseteq Fds \cup {Listen}  BY <3>1, SlotFacts
    <3>3. ASSUME NEW i \in Slots, Listen + i \in ready'
          PROVE  fds[i] # defaultfd /\ Readable(fds[i])
      <4>1. PICK j \in Slots : /\ fds[j] # defaultfd /\ fds[j] = Listen + i
                               /\ Readable(Listen + i)
        BY <3>1, <3>3
      <4>2. j = i  BY <4>1, SlotFacts, <1>0, Bounds
      <4> QED  BY <4>1, <4>2
    <3> QED  BY <2>1, <3>2, <3>3 DEF Key
  <2>2. CASE api = "poll" /\ Poll
    BY <2>2 DEF Poll, Used, Key, Readable
  <2> QED  BY <2>1, <2>2
<1>2. TypeOK'
  <2>1. 0 \in 0 .. Size  BY <1>0, Bounds
  <2> QED  BY <1>1, <2>1 DEF IInv, TypeOK, Slots, Size
<1>3. InStep' /\ OneEach'  BY DEF IInv, InStep, OneEach, Slots, Size
<1>4. AnswerHolds'  BY <1>1 DEF AnswerHolds, Key, Readable, Slots, Size
<1> QED  BY <1>2, <1>3, <1>4 DEF IInv

LEMMA AdvanceFacts ==
  ASSUME IInv, NEW i \in Slots, AtSlot(i), Advance
  PROVE  pos' \in 0 .. Size /\ pos = i /\ pos' = i + 1
BY Bounds DEF IInv, TypeOK, AtSlot, Advance, Slots

LEMMA SkipStep == ASSUME IInv, NEW i \in Slots, Skip(i) PROVE IInv'
<1> USE DEF Skip, net
<1>0. api \in Apis  BY DEF IInv, TypeOK
<1>1. pos' \in 0 .. Size /\ pos = i /\ pos' = i + 1  BY AdvanceFacts
<1>2. TypeOK'  BY <1>1 DEF IInv, TypeOK, Slots, Size
<1>3. InStep' /\ OneEach'  BY DEF IInv, InStep, OneEach, Slots, Size
<1>4. AnswerHolds'
  <2> SUFFICES ASSUME NEW j \in Slots, i + 1 <= j, Key(j) \in ready
               PROVE  fds[j] # defaultfd /\ Readable(fds[j])
    BY <1>1 DEF AnswerHolds, Key, Readable, Slots, Size
  <2> QED  BY <1>0, <1>1, Bounds DEF IInv, AnswerHolds
<1> QED  BY <1>2, <1>3, <1>4 DEF IInv

\* The descriptor that accept returns belongs to the slot that link finds.
LEMMA LowestMeet ==
  ASSUME IInv, NEW sock, IsLowest(sock, FreeFds), NEW p, IsLowest(p, FreeSlots)
  PROVE  sock = Listen + p
<1>0. api \in Apis  BY DEF IInv, TypeOK
<1>1. /\ sock \in Fds /\ peer[sock] = None
      /\ p \in Slots \ {0} /\ fds[p] = defaultfd
  BY DEF IsLowest, FreeFds, FreeSlots
<1>2. sock <= Listen + p
  <2>1. CASE Listen + p \in Fds
    <3>1. peer[Listen + p] = None
      BY <1>0, <1>1, <2>1, Bounds DEF IInv, InStep
    <3> QED  BY <2>1, <3>1 DEF IsLowest, FreeFds
  <2>2. CASE Listen + p \notin Fds
    BY <1>0, <1>1, <2>2, Bounds DEF Fds
  <2> QED  BY <2>1, <2>2
<1>3. sock # Listen + p => FALSE
  <2> SUFFICES ASSUME sock # Listen + p PROVE FALSE  OBVIOUS
  <2> DEFINE k == sock - Listen
  <2>1. k \in Slots \ {0} /\ k < p /\ sock = Listen + k
    BY <1>0, <1>1, <1>2, Bounds DEF Fds, Slots
  <2> HIDE DEF k
  <2>2. k \notin FreeSlots  BY <1>0, <1>1, <2>1, Bounds DEF IsLowest
  <2>3. fds[k] = Listen + k /\ peer[fds[k]] # None
    BY <2>1, <2>2 DEF FreeSlots, IInv, InStep
  <2> QED  BY <2>1, <2>3, <1>1
<1> QED  BY <1>3

LEMMA LinkStep == ASSUME IInv, NEW i \in Slots, Link(i) PROVE IInv'
<1>0. api \in Apis /\ api' = api  BY DEF IInv, TypeOK, Link
<1>1. /\ AtSlot(i) /\ Advance /\ fds[i] = Listen
      /\ UNCHANGED <<ready, client, unread>>
  BY DEF Link
<1>2. pos' \in 0 .. Size /\ pos = i /\ pos' = i + 1  BY <1>1, AdvanceFacts
<1>3. i = 0  BY <1>0, <1>1, SlotFacts, Bounds
<1>4. CASE FreeFds = {}
  <2>1. running' = FALSE /\ UNCHANGED <<fds, peer, backlog>>  BY <1>4 DEF Link
  <2>2. TypeOK'  BY <1>0, <1>1, <1>2, <2>1 DEF IInv, TypeOK, Slots, Size
  <2>3. InStep' /\ OneEach'
    BY <1>0, <1>1, <2>1 DEF IInv, InStep, OneEach, Slots, Size
  <2>4. AnswerHolds'
    <3> SUFFICES ASSUME NEW j \in Slots, 1 <= j, Key(j) \in ready
                 PROVE  fds[j] # defaultfd /\ Readable(fds[j])
      BY <1>0, <1>1, <1>2, <1>3, <2>1 DEF AnswerHolds, Key, Readable, Slots, Size
    <3> QED  BY <1>0, <1>2, <1>3, Bounds DEF IInv, AnswerHolds
  <2> QED  BY <2>2, <2>3, <2>4 DEF IInv
<1>5. CASE FreeFds # {}
  <2>1. PICK sock \in FreeFds :
          /\ IsLowest(sock, FreeFds) /\ Store(sock)
          /\ peer' = [peer EXCEPT ![sock] = Head(backlog)]
          /\ backlog' = Tail(backlog) /\ running' = running /\ backlog # <<>>
    BY <1>5 DEF Link
  <2>2. sock \in Fds /\ peer[sock] = None  BY DEF FreeFds
  <2> DEFINE h == Head(backlog)
  <2>3. /\ h \in Clients /\ h # None /\ h = backlog[1]
        /\ Len(backlog) \in Nat \ {0} /\ Len(backlog') = Len(backlog) - 1
        /\ \A n \in 1 .. Len(backlog') :
             backlog'[n] = backlog[n + 1] /\ n + 1 \in 1 .. Len(backlog)
        /\ backlog' \in Seq(Clients)
    BY <2>1, NoneAssumption DEF IInv, TypeOK
  <2>4. /\ peer' \in [Fds -> Clients \cup {None}] /\ peer'[sock] = h
        /\ \A fd \in Fds \ {sock} : peer'[fd] = peer[fd]
    BY <2>1, <2>2, <2>3 DEF IInv, TypeOK
  <2> HIDE DEF h
  <2>5. OneEach'
    <3>1. \A fd \in Fds : peer[fd] # h
      BY <2>3 DEF IInv, OneEach
    <3>2. client[h] # "absent"  BY <2>3 DEF IInv, OneEach
    <3>3. \A fd \in Fds : peer'[fd] # None => client[peer'[fd]] # "absent"
      BY <2>4, <3>2 DEF IInv, OneEach
    <3>4. \A a, b \in Fds : peer'[a] # None /\ peer'[a] = peer'[b] => a = b
      BY <2>4, <3>1 DEF IInv, OneEach
    <3>5. \A n \in 1 .. Len(backlog') : client[backlog'[n]] # "absent"
      BY <2>3 DEF IInv, OneEach
    <3>6. \A m, n \in 1 .. Len(backlog') : backlog'[m] = backlog'[n] => m = n
      <4> SUFFICES ASSUME NEW m \in 1 .. Len(backlog'), NEW n \in 1 .. Len(backlog'),
                          backlog'[m] = backlog'[n]
                   PROVE  m = n
        OBVIOUS
      <4>1. m + 1 = n + 1  BY <2>3 DEF IInv, OneEach
      <4> QED  BY <4>1
    <3>7. \A n \in 1 .. Len(backlog') : backlog'[n] # h
      <4> SUFFICES ASSUME NEW n \in 1 .. Len(backlog'), backlog'[n] = h
                   PROVE  FALSE
        OBVIOUS
      <4>1. n + 1 = 1  BY <2>3 DEF IInv, OneEach
      <4> QED  BY <4>1
    <3>8. \A fd \in Fds, n \in 1 .. Len(backlog') : peer'[fd] # backlog'[n]
      BY <2>3, <2>4, <3>7 DEF IInv, OneEach
    <3> QED  BY <1>1, <3>3, <3>4, <3>5, <3>6, <3>8 DEF OneEach
  <2>6. /\ fds' \in [Slots -> Fds \cup {Listen, defaultfd}]
        /\ \A j \in Slots : fds[j] # defaultfd => fds'[j] = fds[j]
        /\ \A j \in Slots : fds[j] = defaultfd =>
             fds'[j] = defaultfd \/ (fds'[j] = sock /\ sock = Listen + j)
        /\ \A j \in Slots \ {0} : sock = Listen + j => fds'[j] = sock
    <3>1. CASE FreeSlots = {}
      <4>1. fds' = fds  BY <2>1, <3>1 DEF Store
      <4>2. \A j \in Slots \ {0} : sock # Listen + j
        BY <2>2, <3>1 DEF FreeSlots, IInv, InStep
      <4> QED  BY <4>1, <4>2 DEF IInv, TypeOK
    <3>2. CASE FreeSlots # {}
      <4>1. PICK p \in FreeSlots : IsLowest(p, FreeSlots) /\ fds' = [fds EXCEPT ![p] = sock]
        BY <2>1, <3>2 DEF Store
      <4>2. sock = Listen + p  BY <2>1, <4>1, LowestMeet
      <4>3. p \in Slots /\ fds[p] = defaultfd  BY DEF FreeSlots
      <4>4. \A j \in Slots : sock = Listen + j => j = p
        BY <1>0, <4>2, <4>3, Bounds
      <4> QED  BY <2>2, <4>1, <4>2, <4>3, <4>4 DEF IInv, TypeOK
    <3> QED  BY <3>1, <3>2
  <2>7. TypeOK'
    BY <1>0, <1>1, <1>2, <2>1, <2>3, <2>4, <2>6 DEF IInv, TypeOK, Slots, Size
  <2>8. InStep'
    <3>1. fds'[0] = Listen
      BY <1>0, <2>6, Bounds DEF IInv, InStep
    <3>2. ASSUME NEW j \in Slots \ {0}, fds'[j] # defaultfd
          PROVE  fds'[j] = Listen + j /\ peer'[fds'[j]] # None
      <4>1. CASE fds[j] = defaultfd
        BY <2>2, <2>3, <2>4, <2>6, <3>2, <4>1
      <4>2. CASE fds[j] # defaultfd
        <5>1. fds'[j] = fds[j]  BY <2>6, <4>2
        <5>2. fds[j] = Listen + j /\ peer[fds[j]] # None /\ fds[j] \in Fds
          BY <1>0, <4>2, SlotFacts, NoneAssumption
        <5>3. peer'[fds[j]] # None
          BY <2>2, <2>4, <5>2
        <5> QED  BY <5>1, <5>2, <5>3
      <4> QED  BY <4>1, <4>2
    <3>3. ASSUME NEW j \in Slots \ {0}, Listen + j \in Fds, peer'[Listen + j] # None
          PROVE  fds'[j] = Listen + j
      <4>1. CASE sock = Listen + j  BY <2>6, <4>1
      <4>2. CASE sock # Listen + j
        <5>1. peer[Listen + j] # None  BY <2>4, <3>3, <4>2
        <5>2. fds[j] = Listen + j /\ fds[j] # defaultfd
          BY <3>3, <5>1, <1>0, Bounds DEF IInv, InStep
        <5> QED  BY <5>2, <2>6
      <4> QED  BY <4>1, <4>2
    <3> QED  BY <1>0, <3>1, <3>2, <3>3 DEF InStep, Slots, Size
  <2>9. AnswerHolds'
    <3> SUFFICES ASSUME NEW j \in Slots, 1 <= j, Key(j) \in ready
                 PROVE  (fds[j] # defaultfd /\ Readable(fds[j]))'
      BY <1>0, <1>1, <1>2, <1>3 DEF AnswerHolds, Key, Readable, Slots, Size
    <3>1. fds[j] # defaultfd /\ Readable(fds[j])
      BY <1>0, <1>2, <1>3, Bounds DEF IInv, AnswerHolds
    <3>2. fds[j] # Listen /\ fds[j] \in Fds /\ peer[fds[j]] # None
      BY <3>1, SlotFacts, NoneAssumption
    <3>3. fds'[j] = fds[j] /\ peer'[fds[j]] = peer[fds[j]]
      BY <2>2, <2>4, <2>6, <3>1, <3>2
    <3> QED  BY <1>1, <3>1, <3>2, <3>3 DEF Readable
  <2> QED  BY <2>5, <2>7, <2>8, <2>9 DEF IInv
<1> QED  BY <1>4, <1>5

LEMMA RecverStep == ASSUME IInv, NEW i \in Slots, Recver(i) PROVE IInv'
<1>0. api \in Apis /\ api' = api  BY DEF IInv, TypeOK, Recver
<1>1. /\ AtSlot(i) /\ Reported(i) /\ Advance /\ fds[i] # Listen
      /\ UNCHANGED <<ready, running, backlog>>
  BY DEF Recver
<1>2. pos' \in 0 .. Size /\ pos = i /\ pos' = i + 1  BY <1>1, AdvanceFacts
<1>3. /\ i \in Nat \ {0} /\ fds[i] = Listen + i
      /\ fds[i] \in Fds /\ peer[fds[i]] \in Clients
  BY <1>1, SlotFacts DEF Reported
<1> DEFINE c == peer[fds[i]]
<1>4. c \in Clients /\ c # None  BY <1>3, NoneAssumption
<1>5. ReadData(c) \/ ReadError(c) \/ ReadEnd(i, c)  BY DEF Recver
<1>6. \A j \in Slots : j # i /\ fds[j] # defaultfd =>
        fds[j] # fds[i] /\ (fds[j] # Listen => peer[fds[j]] \in Clients \ {c})
  <2> SUFFICES ASSUME NEW j \in Slots, j # i, fds[j] # defaultfd
               PROVE  fds[j] # fds[i] /\ (fds[j] # Listen => peer[fds[j]] \in Clients \ {c})
    OBVIOUS
  <2>1. fds[j] # fds[i]  BY <1>0, <1>1, <1>3, SlotFacts, Bounds
  <2>2. fds[j] # Listen => fds[j] \in Fds /\ peer[fds[j]] \in Clients  BY SlotFacts
  <2> QED  BY <2>1, <2>2, <1>3, <1>4 DEF IInv, OneEach
<1>7. \A j \in Slots : i + 1 <= j => pos <= j /\ j # i
  BY <1>0, <1>2, <1>3, Bounds
<1> HIDE DEF c
<1>8. CASE ReadData(c)
  <2>1. /\ unread[c] > 0 /\ unread' = [unread EXCEPT ![c] = @ - 1]
        /\ UNCHANGED <<fds, peer, client>>
    BY <1>8 DEF ReadData
  <2>2. unread' \in [Clients -> 0 .. MaxUnread]
    BY <2>1, <1>4, UnreadAssumption DEF IInv, TypeOK
  <2>3. TypeOK'  BY <1>0, <1>1, <1>2, <2>1, <2>2 DEF IInv, TypeOK, Slots, Size
  <2>4. InStep' /\ OneEach'
    BY <1>0, <1>1, <2>1 DEF IInv, InStep, OneEach, Slots, Size
  <2>5. AnswerHolds'
    <3> SUFFICES ASSUME NEW j \in Slots, i + 1 <= j, Key(j) \in ready
                 PROVE  (fds[j] # defaultfd /\ Readable(fds[j]))'
      BY <1>0, <1>1, <1>2, <2>1 DEF AnswerHolds, Key, Slots, Size
    <3>1. fds[j] # defaultfd /\ Readable(fds[j])
      BY <1>7 DEF IInv, AnswerHolds
    <3>2. fds[j] # Listen => peer[fds[j]] \in Clients \ {c}  BY <3>1, <1>6, <1>7
    <3>3. \A d \in Clients \ {c} : unread'[d] = unread[d]
      BY <2>1 DEF IInv, TypeOK
    <3> QED  BY <1>1, <2>1, <3>1, <3>2, <3>3 DEF Readable
  <2> QED  BY <2>3, <2>4, <2>5 DEF IInv
<1>9. CASE ReadError(c)
  <2>1. /\ client' = [client EXCEPT ![c] = "closed"]
        /\ UNCHANGED <<fds, peer, unread>>
    BY <1>9 DEF ReadError
  <2>2. \A d \in Clients : /\ client[d] # "absent" => client'[d] # "absent"
                           /\ client[d] # "open" => client'[d] # "open"
    BY <2>1 DEF IInv, TypeOK
  <2>3. TypeOK'  BY <1>0, <1>1, <1>2, <2>1 DEF IInv, TypeOK, Slots, Size
  <2>4. \A n \in 1 .. Len(backlog) : backlog[n] \in Clients  BY DEF IInv, TypeOK
  <2>5. InStep' /\ OneEach'
    BY <1>0, <1>1, <2>1, <2>2, <2>4 DEF IInv, TypeOK, InStep, OneEach, Slots, Size
  <2>6. AnswerHolds'
    <3> SUFFICES ASSUME NEW j \in Slots, i + 1 <= j, Key(j) \in ready
                 PROVE  (fds[j] # defaultfd /\ Readable(fds[j]))'
      BY <1>0, <1>1, <1>2, <2>1 DEF AnswerHolds, Key, Slots, Size
    <3>1. fds[j] # defaultfd /\ Readable(fds[j])
      BY <1>7 DEF IInv, AnswerHolds
    <3>2. fds[j] # Listen => peer[fds[j]] \in Clients  BY <3>1, <1>6, <1>7
    <3> QED  BY <1>1, <2>1, <2>2, <3>1, <3>2 DEF Readable
  <2> QED  BY <2>3, <2>5, <2>6 DEF IInv
<1>10. CASE ReadEnd(i, c)
  <2>1. /\ fds' = [fds EXCEPT ![i] = defaultfd]
        /\ peer' = [peer EXCEPT ![fds[i]] = None]
        /\ UNCHANGED <<client, unread>>
    BY <1>10 DEF ReadEnd
  <2>2. /\ fds'[i] = defaultfd /\ \A j \in Slots \ {i} : fds'[j] = fds[j]
        /\ peer'[fds[i]] = None /\ \A fd \in Fds \ {fds[i]} : peer'[fd] = peer[fd]
    BY <2>1, <1>3 DEF IInv, TypeOK
  <2>3. TypeOK'
    BY <1>0, <1>1, <1>2, <2>1 DEF IInv, TypeOK, Slots, Size
  <2>4. OneEach'
    <3>1. \A n \in 1 .. Len(backlog) : backlog[n] # None
      BY NoneAssumption DEF IInv, TypeOK
    <3>2. \A fd \in Fds : peer'[fd] = None \/ peer'[fd] = peer[fd]  BY <2>2
    <3> QED  BY <1>1, <2>1, <3>1, <3>2 DEF IInv, OneEach
  <2>5. InStep'
    <3>1. fds'[0] = Listen  BY <1>0, <1>3, <2>2, Bounds DEF IInv, InStep
    <3>2. ASSUME NEW j \in Slots \ {0}, fds'[j] # defaultfd
          PROVE  fds'[j] = Listen + j /\ peer'[fds'[j]] # None
      <4>1. j # i /\ fds'[j] = fds[j]  BY <3>2, <2>2
      <4>2. fds[j] = Listen + j /\ peer[fds[j]] # None /\ fds[j] \in Fds /\ fds[j] # fds[i]
        BY <4>1, <3>2, <1>0, <1>6, SlotFacts, Bounds, NoneAssumption
      <4> QED  BY <4>1, <4>2, <2>2
    <3>3. ASSUME NEW j \in Slots \ {0}, Listen + j \in Fds, peer'[Listen + j] # None
          PROVE  fds'[j] = Listen + j
      <4>1. Listen + j # fds[i]  BY <3>3, <2>2
      <4>2. j # i /\ peer[Listen + j] # None  BY <4>1, <3>3, <2>2, <1>3
      <4> QED  BY <4>2, <3>3, <2>2 DEF IInv, InStep
    <3> QED  BY <1>0, <3>1, <3>2, <3>3 DEF InStep, Slots, Size
  <2>6. AnswerHolds'
    <3> SUFFICES ASSUME NEW j \in Slots, i + 1 <= j, Key(j) \in ready
                 PROVE  (fds[j] # defaultfd /\ Readable(fds[j]))'
      BY <1>0, <1>1, <1>2 DEF AnswerHolds, Key, Slots, Size
    <3>1. fds[j] # defaultfd /\ Readable(fds[j])
      BY <1>7 DEF IInv, AnswerHolds
    <3>2. /\ j # i /\ fds[j] # fds[i]
          /\ fds[j] = Listen \/ (fds[j] \in Fds /\ fds[j] # Listen)
      BY <3>1, <1>6, <1>7, SlotFacts
    <3>3. fds'[j] = fds[j] /\ (fds[j] # Listen => peer'[fds[j]] = peer[fds[j]])
      BY <3>2, <2>2
    <3> QED  BY <1>1, <2>1, <3>1, <3>3 DEF Readable
  <2> QED  BY <2>3, <2>4, <2>5, <2>6 DEF IInv
<1> QED  BY <1>5, <1>8, <1>9, <1>10

-----------------------------------------------------------------------------
LEMMA NextIInv == ASSUME IInv, [Next]_vars PROVE IInv'
<1>1. CASE UNCHANGED vars
  BY <1>1 DEF IInv, TypeOK, InStep, OneEach, AnswerHolds, Key, Readable, Slots,
    Size, vars, table, net
<1> QED
  BY <1>1, ConnectStep, SendStep, HangupStep, WaitStep, SkipStep, LinkStep, RecverStep
  DEF Next, Run

LEMMA Invariance == Spec => []IInv
BY InitIInv, NextIInv, PTL DEF Spec

\* The variables keep their types.
THEOREM TypeCorrect == Spec => []TypeOK
<1>1. IInv => TypeOK  BY DEF IInv
<1> QED  BY <1>1, Invariance, PTL

\* Slots and descriptors run in step in every reachable state.
THEOREM SlotsInStep == Spec => []InStep
<1>1. IInv => InStep  BY DEF IInv
<1> QED  BY <1>1, Invariance, PTL

\* max_fd is the highest descriptor of the table, however it is computed.
THEOREM SelectHearsAll == Spec => []AllAskedFor
<1>1. ASSUME IInv PROVE AllAskedFor
  <2> SUFFICES ASSUME NEW i \in Used PROVE fds[i] <= max_fd
    BY DEF AllAskedFor
  <2>0. /\ api \in Apis /\ Size \in Nat
        /\ i \in Slots /\ Above \subseteq Slots /\ Above \subseteq Used
    BY <1>1, Bounds DEF IInv, TypeOK, Used, Above
  <2>1. CASE Above = {}
    <3>1. fds[i] = Listen  BY <1>1, <2>0, <2>1, SlotFacts, Bounds DEF Above, Used
    <3> QED  BY <2>1, <3>1, ListenAssumption DEF max_fd
  <2>2. CASE Above # {}
    <3>1. \E x \in Above : \A y \in Above : y <= x
      BY <2>0, <2>2, Greatest DEF Slots
    <3> DEFINE x == CHOOSE x \in Above : \A y \in Above : y <= x
    <3>2. x \in Above /\ \A y \in Above : y <= x  BY <3>1
    <3>3. max_fd = fds[x]  BY <2>2 DEF max_fd
    <3> HIDE DEF x
    <3>4. fds[x] = Listen + x /\ x \in Nat
      BY <1>1, <2>0, <3>2, SlotFacts, Bounds DEF Above, Used
    <3>5. CASE i \in Above
      <4>1. fds[i] = Listen + i /\ i \in Nat
        BY <1>1, <2>0, <3>5, SlotFacts, Bounds DEF Above, Used
      <4> QED  BY <4>1, <3>2, <3>3, <3>4, <3>5, ListenAssumption
    <3>6. CASE i \notin Above
      <4>1. fds[i] = Listen
        BY <1>1, <2>0, <3>6, SlotFacts, Bounds DEF Above, Used
      <4> QED  BY <4>1, <3>3, <3>4, ListenAssumption
    <3> QED  BY <3>5, <3>6
  <2> QED  BY <2>1, <2>2
<1> QED  BY <1>1, Invariance, PTL

\* What trigger calls for a slot that is reported does not block.
THEOREM TriggerNeverBlocks == Spec => []NeverBlocks
<1>1. ASSUME IInv PROVE NeverBlocks
  <2> SUFFICES ASSUME NEW i \in Slots, AtSlot(i), Reported(i) PROVE Readable(fds[i])
    BY DEF NeverBlocks
  <2>1. Key(i) \in ready
    <3>1. fds[i] = Listen + i
      BY <1>1, SlotFacts, ListenAssumption DEF Reported
    <3> QED  BY <3>1 DEF Reported, Key
  <2>2. pos <= i  BY <1>1, Bounds DEF AtSlot, IInv, TypeOK
  <2> QED  BY <1>1, <2>1, <2>2 DEF IInv, AnswerHolds
<1> QED  BY <1>1, Invariance, PTL
=============================================================================
