-------------------------- MODULE TimeWheelProofs --------------------------
(***************************************************************************)
(* The timing wheel keeps its three tables consistent, for every capacity   *)
(* and every set of ids and timeouts: objects live exactly while a slot     *)
(* points to them, and an entry of the map that names an object names a     *)
(* live one with that id.  And it is a set of timers: the latest slot that  *)
(* points to a task is the one whose clearing runs it, and no slot that     *)
(* points to it is further away than its timeout, so that a refresh always  *)
(* decides when it runs.                                                    *)
(***************************************************************************)
EXTENDS TimeWheel, TLAPS

\* No entry of the map dangles, and it leads to a task with its own id.
EntriesLive ==
  \A i \in Ids : map[i] \in Tasks => /\ task[map[i]] # None
                                     /\ task[map[i]].id = i

IInv == TypeOK /\ EntriesLive /\ Findable /\ HeldBySlots

-----------------------------------------------------------------------------
LEMMA Turns == \A n \in Nat : n % Cap \in Slots
BY CapAssumption DEF Slots

LEMMA SlotsNat == Slots \subseteq Nat /\ Timeouts \subseteq Nat /\ 0 \in Slots
BY CapAssumption, TimeoutsAssumption DEF Slots

LEMMA InitIInv == Init => IInv
<1> SUFFICES ASSUME Init PROVE IInv  OBVIOUS
<1>1. TypeOK  BY SlotsNat DEF Init, TypeOK
<1>2. EntriesLive /\ Findable /\ HeldBySlots
  BY NoneAssumption DEF Init, EntriesLive, Findable, HeldBySlots
<1> QED  BY <1>1, <1>2 DEF IInv

\* A pushed pointer is in one slot more, and the others are as before.
LEMMA PushFacts ==
  ASSUME TypeOK, NEW p \in Tasks, NEW d \in Timeouts, Push(p, d)
  PROVE  /\ wheel' \in [Slots -> SUBSET Tasks]
         /\ \E s \in Slots : p \in wheel'[s]
         /\ \A q \in Tasks \ {p} : \A s \in Slots : q \in wheel'[s] <=> q \in wheel[s]
<1>1. (tick + d) % Cap \in Slots
  <2>1. tick + d \in Nat  BY SlotsNat DEF TypeOK
  <2> QED  BY <2>1, Turns
<1>2. wheel \in [Slots -> SUBSET Tasks]  BY DEF TypeOK
<1> DEFINE k == (tick + d) % Cap
<1>3. k \in Slots  BY <1>1
<1>4. wheel' = [wheel EXCEPT ![k] = wheel[k] \cup {p}]  BY DEF Push
<1> HIDE DEF k
<1> QED  BY <1>2, <1>3, <1>4

LEMMA TaskAddStep ==
  ASSUME IInv, NEW i \in Ids, NEW t \in Timeouts, NEW p \in Tasks, TaskAdd(i, t, p)
  PROVE  IInv'
<1> USE NoneAssumption
<1>1. /\ task[p] = None /\ ~Pending(i) /\ Push(p, t)
      /\ task' = [task EXCEPT ![p] = [id |-> i, timeout |-> t, canceled |-> FALSE]]
      /\ map' = [map EXCEPT ![i] = p]
      /\ ran' = {} /\ tick' = tick /\ crashed' = crashed
  BY DEF TaskAdd
<1>2. TypeOK /\ EntriesLive /\ Findable /\ HeldBySlots  BY DEF IInv
<1>3. /\ wheel' \in [Slots -> SUBSET Tasks]
      /\ \E s \in Slots : p \in wheel'[s]
      /\ \A q \in Tasks \ {p} : \A s \in Slots : q \in wheel'[s] <=> q \in wheel[s]
  BY <1>1, <1>2, PushFacts
<1>4. /\ task'[p] \in TimeTask /\ task'[p].id = i /\ task'[p] # None
      /\ \A q \in Tasks \ {p} : task'[q] = task[q]
      /\ map'[i] = p
      /\ \A j \in Ids \ {i} : map'[j] = map[j]
  <2>1. [id |-> i, timeout |-> t, canceled |-> FALSE] \in TimeTask  BY DEF TimeTask
  <2> QED  BY <1>1, <1>2, <2>1 DEF TypeOK
<1>5. TypeOK'
  BY <1>1, <1>2, <1>3, <1>4 DEF TypeOK
<1>6. \A j \in Ids \ {i} : map[j] # p
  BY <1>1, <1>2 DEF EntriesLive
<1>7. EntriesLive'
  BY <1>2, <1>4, <1>6 DEF EntriesLive
<1>8. Findable'
  <2> SUFFICES ASSUME NEW q \in Tasks, task'[q] # None, ~task'[q].canceled
               PROVE  map'[task'[q].id] = q
    BY DEF Findable
  <2>1. CASE q = p  BY <2>1, <1>4
  <2>2. CASE q # p
    <3>1. task[q] # None /\ ~task[q].canceled /\ task'[q] = task[q]
      BY <2>2, <1>4
    <3>2. map[task[q].id] = q /\ task[q].id \in Ids
      BY <3>1, <1>2 DEF Findable, TypeOK, TimeTask
    <3>3. task[q].id # i  BY <1>1, <3>1, <3>2 DEF Pending
    <3> QED  BY <1>4, <3>1, <3>2, <3>3
  <2> QED  BY <2>1, <2>2
<1>9. HeldBySlots'
  <2> SUFFICES ASSUME NEW q \in Tasks
               PROVE  task'[q] # None <=> \E s \in Slots : q \in wheel'[s]
    BY DEF HeldBySlots
  <2>1. CASE q = p  BY <2>1, <1>3, <1>4
  <2>2. CASE q # p
    <3>1. task[q] # None <=> \E s \in Slots : q \in wheel[s]
      BY <1>2 DEF HeldBySlots
    <3> QED  BY <2>2, <3>1, <1>3, <1>4
  <2> QED  BY <2>1, <2>2
<1> QED  BY <1>5, <1>7, <1>8, <1>9 DEF IInv

LEMMA RefreshStep == ASSUME IInv, NEW i \in Ids, Refresh(i) PROVE IInv'
<1> USE DEF IInv
<1>1. task' = task /\ map' = map /\ tick' = tick /\ ran' = {}  BY DEF Refresh
<1>2. EntriesLive' /\ Findable'  BY <1>1 DEF EntriesLive, Findable
<1>3. CASE map[i] = Expired
  BY <1>1, <1>2, <1>3 DEF Refresh, TypeOK, HeldBySlots
<1>4. CASE map[i] # Expired
  <2> DEFINE p == map[i]
  <2>1. p \in Tasks  BY <1>4 DEF Refresh, TypeOK
  <2>2. task[p] # None /\ task[p] \in TimeTask  BY <2>1 DEF EntriesLive, TypeOK
  <2>3. Push(p, task[p].timeout) /\ crashed' = crashed  BY <1>4 DEF Refresh
  <2>4. task[p].timeout \in Timeouts  BY <2>2 DEF TimeTask
  <2> HIDE DEF p
  <2>5. /\ wheel' \in [Slots -> SUBSET Tasks]
        /\ \E s \in Slots : p \in wheel'[s]
        /\ \A q \in Tasks \ {p} : \A s \in Slots : q \in wheel'[s] <=> q \in wheel[s]
    BY <2>1, <2>3, <2>4, PushFacts
  <2>6. TypeOK'  BY <1>1, <2>3, <2>5 DEF TypeOK
  <2>7. HeldBySlots'
    <3> SUFFICES ASSUME NEW q \in Tasks
                 PROVE  task'[q] # None <=> \E s \in Slots : q \in wheel'[s]
      BY DEF HeldBySlots
    <3>1. task[q] # None <=> \E s \in Slots : q \in wheel[s]  BY DEF HeldBySlots
    <3>2. CASE q = p  BY <3>2, <1>1, <2>2, <2>5
    <3>3. CASE q # p  BY <3>1, <3>3, <1>1, <2>5
    <3> QED  BY <3>2, <3>3
  <2> QED  BY <1>2, <2>6, <2>7
<1> QED  BY <1>3, <1>4

LEMMA TimerCancelStep == ASSUME IInv, NEW i \in Ids, TimerCancel(i) PROVE IInv'
<1> USE DEF IInv
<1>1. /\ wheel' = wheel /\ map' = map /\ tick' = tick /\ ran' = {}
      /\ crashed' = crashed
  BY DEF TimerCancel
<1>2. CASE map[i] = Expired
  <2>1. task' = task  BY <1>2 DEF TimerCancel
  <2> QED
    BY <1>1, <2>1 DEF TypeOK, EntriesLive, Findable, HeldBySlots
<1>3. CASE map[i] # Expired
  <2> DEFINE p == map[i]
  <2>1. p \in Tasks  BY <1>3 DEF TimerCancel, TypeOK
  <2>2. task[p] # None /\ task[p] \in TimeTask  BY <2>1 DEF EntriesLive, TypeOK
  <2>3. task' = [task EXCEPT ![p].canceled = TRUE]  BY <1>3 DEF TimerCancel
  <2> HIDE DEF p
  <2>4. /\ task'[p] \in TimeTask /\ task'[p].id = task[p].id
        /\ task'[p].canceled = TRUE
        /\ \A q \in Tasks \ {p} : task'[q] = task[q]
        /\ task' \in [Tasks -> TimeTask \cup {None}]
    BY <2>1, <2>2, <2>3 DEF TypeOK, TimeTask
  <2>5. task'[p] # None  BY <2>4, NoneAssumption
  <2>6. TypeOK'  BY <1>1, <2>4 DEF TypeOK
  <2>7. EntriesLive'
    <3> SUFFICES ASSUME NEW j \in Ids, map[j] \in Tasks
                 PROVE  task'[map[j]] # None /\ task'[map[j]].id = j
      BY <1>1 DEF EntriesLive
    <3>1. task[map[j]] # None /\ task[map[j]].id = j  BY DEF EntriesLive
    <3> QED  BY <3>1, <2>4, <2>5
  <2>8. Findable'
    <3> SUFFICES ASSUME NEW q \in Tasks, task'[q] # None, ~task'[q].canceled
                 PROVE  map'[task'[q].id] = q
      BY DEF Findable
    <3>1. q # p  BY <2>4
    <3>2. task'[q] = task[q]  BY <3>1, <2>4
    <3> QED  BY <1>1, <3>2 DEF Findable
  <2>9. HeldBySlots'
    <3> SUFFICES ASSUME NEW q \in Tasks
                 PROVE  task'[q] # None <=> \E s \in Slots : q \in wheel[s]
      BY <1>1 DEF HeldBySlots
    <3>1. task[q] # None <=> \E s \in Slots : q \in wheel[s]  BY DEF HeldBySlots
    <3> QED  BY <3>1, <2>2, <2>4, <2>5
  <2> QED  BY <2>6, <2>7, <2>8, <2>9
<1> QED  BY <1>2, <1>3

LEMMA RunTimeTaskStep == ASSUME IInv, RunTimeTask PROVE IInv'
<1> USE DEF IInv
<1> DEFINE now == (tick + 1) % Cap
           gone == Released(now)
<1>1. now \in Slots
  <2>1. tick + 1 \in Nat  BY SlotsNat DEF TypeOK
  <2> QED  BY <2>1, Turns
<1>2. /\ tick' = now
      /\ wheel' = [wheel EXCEPT ![now] = {}]
      /\ task' = [p \in Tasks |-> IF p \in gone THEN None ELSE task[p]]
      /\ ran' = {task[p].id : p \in {q \in gone : ~task[q].canceled}}
      /\ map' = [i \in Ids |-> IF i \in ran' THEN None
                               ELSE IF map[i] \in gone THEN Expired ELSE map[i]]
      /\ crashed' = crashed
  BY DEF RunTimeTask, DueTasks
<1>3. gone = {p \in wheel[now] : \A u \in Slots \ {now} : p \notin wheel[u]}
  BY DEF Released
<1> HIDE DEF now, gone
<1>4. gone \subseteq Tasks /\ \A p \in gone : task[p] \in TimeTask
  BY <1>1, <1>3 DEF TypeOK, HeldBySlots
<1>5. \A p \in gone : ~task[p].canceled => task[p].id \in ran'  BY <1>2
<1>6. ran' \subseteq Ids  BY <1>2, <1>4 DEF TimeTask
<1>7. TypeOK'
  BY <1>1, <1>2, <1>4, <1>6 DEF TypeOK
<1>8. EntriesLive'
  <2> SUFFICES ASSUME NEW i \in Ids, map'[i] \in Tasks
               PROVE  task'[map'[i]] # None /\ task'[map'[i]].id = i
    BY DEF EntriesLive
  <2>1. map'[i] = map[i] /\ map[i] \notin gone  BY <1>2, NoneAssumption
  <2>2. task[map[i]] # None /\ task[map[i]].id = i  BY <2>1 DEF EntriesLive
  <2> QED  BY <1>2, <2>1, <2>2
<1>9. Findable'
  <2> SUFFICES ASSUME NEW p \in Tasks, task'[p] # None, ~task'[p].canceled
               PROVE  map'[task'[p].id] = p
    BY DEF Findable
  <2>1. p \notin gone /\ task'[p] = task[p]  BY <1>2
  <2>2. map[task[p].id] = p /\ task[p].id \in Ids
    BY <2>1 DEF Findable, TypeOK, TimeTask
  <2>3. task[p].id \notin ran'
    <3> SUFFICES ASSUME NEW q \in gone, ~task[q].canceled, task[q].id = task[p].id
                 PROVE  FALSE
      BY <1>2
    <3>1. q \in Tasks /\ task[q] # None  BY <1>4, NoneAssumption
    <3>2. map[task[q].id] = q  BY <3>1 DEF Findable
    <3> QED  BY <2>1, <2>2, <3>2
  <2> QED  BY <1>2, <2>1, <2>2, <2>3
<1>10. HeldBySlots'
  <2> SUFFICES ASSUME NEW p \in Tasks
               PROVE  task'[p] # None <=> \E s \in Slots : p \in wheel'[s]
    BY DEF HeldBySlots
  <2>1. task[p] # None <=> \E s \in Slots : p \in wheel[s]  BY DEF HeldBySlots
  <2>2. \A s \in Slots : p \in wheel'[s] <=> s # now /\ p \in wheel[s]
    BY <1>1, <1>2 DEF TypeOK
  <2>3. p \in gone <=> p \in wheel[now] /\ \A s \in Slots \ {now} : p \notin wheel[s]
    BY <1>3
  <2>4. task'[p] # None <=> p \notin gone /\ task[p] # None  BY <1>2
  <2> QED  BY <1>1, <2>1, <2>2, <2>3, <2>4
<1> QED  BY <1>7, <1>8, <1>9, <1>10

\* What is due is there, and has an id.
LEMMA DueFacts ==
  ASSUME IInv
  PROVE  {task[p].id : p \in DueTasks} \subseteq Ids
<1> SUFFICES ASSUME NEW p \in DueTasks PROVE task[p].id \in Ids  OBVIOUS
<1>1. (tick + 1) % Cap \in Slots  BY SlotsNat, Turns DEF IInv, TypeOK
<1>2. p \in Tasks /\ task[p] # None
  BY <1>1 DEF DueTasks, Released, IInv, TypeOK, HeldBySlots
<1> QED  BY <1>2 DEF IInv, TypeOK, TimeTask

LEMMA RunTimeTaskBreaksStep == ASSUME IInv, RunTimeTaskBreaks PROVE IInv'
<1>1. /\ ran' \subseteq Ids /\ crashed' = TRUE
      /\ tick' = tick /\ wheel' = wheel /\ task' = task /\ map' = map
  BY DueFacts DEF RunTimeTaskBreaks
<1> QED  BY <1>1 DEF IInv, TypeOK, EntriesLive, Findable, HeldBySlots

-----------------------------------------------------------------------------
\* The strengthened invariant of the wheel.
THEOREM Invariance == Spec => []IInv
<1>1. ASSUME IInv, [Next]_vars PROVE IInv'
  <2>1. CASE UNCHANGED vars
    BY <1>1, <2>1
    DEF vars, IInv, TypeOK, EntriesLive, Findable, HeldBySlots
  <2> QED
    BY <1>1, <2>1, TaskAddStep, RefreshStep, TimerCancelStep, RunTimeTaskStep,
       RunTimeTaskBreaksStep
    DEF Next
<1> QED  BY <1>1, InitIInv, PTL DEF Spec

\* The hand stays inside the wheel and the tables keep their types.
THEOREM TypeCorrect == Spec => []TypeOK
<1>1. IInv => TypeOK  BY DEF IInv
<1> QED  BY <1>1, Invariance, PTL

\* TimerCancel and Refresh reach every task that can still run.
THEOREM Reachable == Spec => []Findable
<1>1. IInv => Findable  BY DEF IInv
<1> QED  BY <1>1, Invariance, PTL

\* An object lives exactly while a slot of the wheel points to it.
THEOREM Lifetimes == Spec => []HeldBySlots
<1>1. IInv => HeldBySlots  BY DEF IInv
<1> QED  BY <1>1, Invariance, PTL
-----------------------------------------------------------------------------
(* The wheel is a set of timers.                                             *)

\* The latest slot that holds a task tells when it runs, which is at most its
\* timeout away.
Latest(p, s) ==
  /\ p \in wheel[s]
  /\ Distance(s) <= task[p].timeout
  /\ \A u \in Slots : p \in wheel[u] => Distance(u) <= Distance(s)

Timed == \A p \in Tasks : task[p] # None => \E s \in Slots : Latest(p, s)

LEMMA Distances ==
  ASSUME TypeOK
  PROVE  /\ \A s \in Slots : Distance(s) \in 1 .. Cap
         /\ \A s, u \in Slots : Distance(s) = Distance(u) => s = u
         /\ \A d \in 1 .. Cap : (tick + d) % Cap \in Slots /\ Distance((tick + d) % Cap) = d
<1>1. Cap \in Nat \ {0} /\ tick \in 0 .. (Cap - 1)  BY CapAssumption DEF TypeOK, Slots
<1>2. \A s \in Slots : Distance(s) \in 1 .. Cap  BY <1>1 DEF Distance, Slots
<1>3. \A s, u \in Slots : Distance(s) = Distance(u) => s = u
  BY <1>1 DEF Distance, Slots
<1>4. ASSUME NEW d \in 1 .. Cap
      PROVE  (tick + d) % Cap \in Slots /\ Distance((tick + d) % Cap) = d
  <2>1. (tick + d) % Cap = IF tick + d < Cap THEN tick + d ELSE tick + d - Cap
    BY <1>1
  <2> QED  BY <1>1, <2>1 DEF Distance, Slots
<1> QED  BY <1>2, <1>3, <1>4

\* The hand moves: each slot but the one under it comes nearer by one.
LEMMA HandMoves ==
  ASSUME TypeOK, NEW now, now = (tick + 1) % Cap, tick' = now
  PROVE  /\ now \in Slots /\ Distance(now) = 1
         /\ \A s \in Slots \ {now} : Distance(s)' = Distance(s) - 1
<1>1. Cap \in Nat \ {0} /\ tick \in 0 .. (Cap - 1)  BY CapAssumption DEF TypeOK, Slots
<1>2. 1 \in 1 .. Cap  BY <1>1
<1>3. now \in Slots /\ Distance(now) = 1  BY <1>2, Distances
<1>4. now = IF tick + 1 = Cap THEN 0 ELSE tick + 1  BY <1>1
<1>5. \A s \in Slots \ {now} : Distance(s)' = Distance(s) - 1
  BY <1>1, <1>4 DEF Distance, Slots
<1> QED  BY <1>3, <1>5

\* A pending timer runs when its latest slot is cleared.
LEMMA LeftIs ==
  ASSUME TypeOK, NEW i \in Ids, Pending(i), NEW s \in Slots, Latest(map[i], s)
  PROVE  Left(i) = Distance(s)
<1> DEFINE Q(d) == /\ \E u \in Slots : map[i] \in wheel[u] /\ Distance(u) = d
                   /\ \A u \in Slots : map[i] \in wheel[u] => Distance(u) <= d
<1>1. Left(i) = CHOOSE d \in 1 .. Cap : Q(d)  BY DEF Left
<1>2. Distance(s) \in 1 .. Cap /\ Q(Distance(s))  BY Distances DEF Latest
<1>3. ASSUME NEW d \in 1 .. Cap, Q(d) PROVE d = Distance(s)
  <2>1. d <= Distance(s)  BY <1>3 DEF Latest
  <2>2. Distance(s) <= d  BY <1>3 DEF Latest
  <2> QED  BY <1>2, <2>1, <2>2
<1> HIDE DEF Q
<1> QED  BY <1>1, <1>2, <1>3

\* What the two lemmas say holds after a step as well as before it.
TimesFact ==
  /\ TypeOK => /\ \A s \in Slots : Distance(s) \in 1 .. Cap
               /\ \A d \in 1 .. Cap : Distance((tick + d) % Cap) = d
  /\ TypeOK => \A i \in Ids, s \in Slots :
                 Pending(i) /\ Latest(map[i], s) => Left(i) = Distance(s)

LEMMA TimesAlways == TimesFact /\ TimesFact'
<1>1. TimesFact  BY Distances, LeftIs DEF TimesFact
<1> QED  BY <1>1, PTL

\* What an armed timer was armed with.
Armed(i) == IF Pending(i) THEN task[map[i]].timeout ELSE 0

\* A timer whose task is not touched keeps its time.
LEMMA Undisturbed ==
  ASSUME IInv, IInv', Timed, NEW j \in Ids, tick' = tick, map'[j] = map[j],
         map[j] \in Tasks => /\ task'[map[j]] = task[map[j]]
                             /\ \A s \in Slots : map[j] \in wheel'[s] <=> map[j] \in wheel[s]
  PROVE  Left(j)' = Left(j) /\ Armed(j)' = Armed(j)
<1>1. CASE ~Pending(j)
  BY <1>1 DEF Pending, Left, Armed
<1>2. CASE Pending(j)
  <2>1. map[j] \in Tasks /\ Pending(j)' /\ task[map[j]] # None
    BY <1>2 DEF Pending, IInv, EntriesLive
  <2>2. PICK s \in Slots : Latest(map[j], s)  BY <2>1 DEF Timed
  <2>3. \A u \in Slots : Distance(u)' = Distance(u)  BY DEF Distance
  <2>4. Latest(map[j], s)'  BY <2>1, <2>2, <2>3 DEF Latest
  <2>5. Left(j) = Distance(s)  BY <1>2, <2>2, TimesAlways DEF TimesFact, IInv
  <2>6. Left(j)' = Distance(s)'  BY <2>1, <2>4, TimesAlways DEF TimesFact, IInv
  <2> QED  BY <1>2, <2>1, <2>3, <2>5, <2>6 DEF Armed
<1> QED  BY <1>1, <1>2

\* After a push for its whole timeout a task runs that many ticks ahead.
LEMMA PushedLatest ==
  ASSUME TypeOK, TypeOK', NEW p \in Tasks, NEW d \in Timeouts, Push(p, d), tick' = tick,
         task'[p].timeout = d, \A s \in Slots : p \in wheel[s] => Distance(s) <= d
  PROVE  \E s \in Slots : Latest(p, s)' /\ Distance(s)' = d
<1>1. d \in 1 .. Cap  BY TimeoutsAssumption
<1>2. PICK k \in Slots : k = (tick + d) % Cap /\ Distance(k) = d  BY <1>1, Distances
<1>3. \A u \in Slots : Distance(u)' = Distance(u) /\ Distance(u) \in 1 .. Cap
  BY Distances DEF Distance
<1>4. /\ p \in wheel'[k]
      /\ \A u \in Slots : p \in wheel'[u] => u = k \/ p \in wheel[u]
  BY <1>2 DEF Push, TypeOK
<1>5. \A u \in Slots : p \in wheel'[u] => Distance(u)' <= Distance(k)'
  BY <1>1, <1>2, <1>3, <1>4
<1>6. Distance(k)' <= d  BY <1>1, <1>2, <1>3
<1>7. Latest(p, k)'  BY <1>4, <1>5, <1>6 DEF Latest
<1> QED  BY <1>2, <1>3, <1>7

\* A task that is not touched keeps its latest slot.
LEMMA OthersTimed ==
  ASSUME Timed, tick' = tick, NEW q \in Tasks, task[q] # None,
         task'[q].timeout = task[q].timeout,
         \A s \in Slots : q \in wheel'[s] <=> q \in wheel[s]
  PROVE  \E s \in Slots : Latest(q, s)'
<1>1. PICK s \in Slots : Latest(q, s)  BY DEF Timed
<1>2. \A u \in Slots : Distance(u)' = Distance(u)  BY DEF Distance
<1>3. Latest(q, s)'  BY <1>1, <1>2 DEF Latest
<1> QED  BY <1>3

LEMMA TaskAddArms ==
  ASSUME IInv, IInv', Timed, NEW i \in Ids, NEW t \in Timeouts, NEW p \in Tasks,
         TaskAdd(i, t, p)
  PROVE  Timed' /\ Clock!Arm(i, t)
<1> USE NoneAssumption
<1>1. /\ task[p] = None /\ ~Pending(i) /\ Push(p, t) /\ tick' = tick /\ ran' = {}
      /\ ~crashed /\ crashed' = crashed
      /\ task' = [task EXCEPT ![p] = [id |-> i, timeout |-> t, canceled |-> FALSE]]
      /\ map' = [map EXCEPT ![i] = p]
  BY DEF TaskAdd
<1>2. TypeOK /\ TypeOK' /\ EntriesLive /\ HeldBySlots  BY DEF IInv
<1>3. \A q \in Tasks \ {p} : \A s \in Slots : q \in wheel'[s] <=> q \in wheel[s]
  BY <1>1, <1>2, PushFacts
<1>4. /\ task'[p].timeout = t /\ ~task'[p].canceled /\ map'[i] = p
      /\ \A q \in Tasks \ {p} : task'[q] = task[q]
      /\ \A j \in Ids \ {i} : map'[j] = map[j]
  BY <1>1, <1>2 DEF TypeOK
<1>5. PICK k \in Slots : Latest(p, k)' /\ Distance(k)' = t
  <2>1. \A s \in Slots : p \notin wheel[s]  BY <1>1, <1>2 DEF HeldBySlots
  <2> QED  BY <1>1, <1>2, <1>4, <2>1, PushedLatest
<1>6. Timed'
  <2> SUFFICES ASSUME NEW q \in Tasks, task'[q] # None
               PROVE  \E s \in Slots : Latest(q, s)'
    BY DEF Timed
  <2>1. CASE q = p  BY <1>5, <2>1
  <2>2. CASE q # p
    <3>1. task[q] # None /\ task'[q] = task[q]  BY <1>4, <2>2
    <3> QED  BY <1>1, <1>3, <2>2, <3>1, OthersTimed
  <2> QED  BY <2>1, <2>2
<1>7. Left(i) = 0 /\ Armed(i) = 0  BY <1>1 DEF Left, Armed
<1>8. Left(i)' = t /\ Armed(i)' = t
  <2>1. Pending(i)'  BY <1>4 DEF Pending
  <2> QED  BY <1>2, <1>4, <1>5, <2>1, TimesAlways DEF TimesFact, Armed
<1>9. \A j \in Ids \ {i} : Left(j)' = Left(j) /\ Armed(j)' = Armed(j)
  <2> SUFFICES ASSUME NEW j \in Ids \ {i}
               PROVE  Left(j)' = Left(j) /\ Armed(j)' = Armed(j)
    OBVIOUS
  <2>1. map[j] # p  BY <1>1, <1>2 DEF EntriesLive
  <2> QED  BY <1>1, <1>3, <1>4, <2>1, Undisturbed
<1> QED
  BY <1>1, <1>6, <1>7, <1>8, <1>9 DEF Clock!Arm, Armed

LEMMA RefreshRearms ==
  ASSUME IInv, IInv', Timed, NEW i \in Ids, Refresh(i)
  PROVE  Timed' /\ (Clock!Refresh(i) \/ Clock!RefreshNone(i))
<1> USE NoneAssumption
<1>1. task' = task /\ map' = map /\ tick' = tick /\ ran' = {} /\ ~crashed
  BY DEF Refresh
<1>2. TypeOK /\ TypeOK' /\ EntriesLive  BY DEF IInv
<1>3. \A j \in Ids : Armed(j)' = Armed(j)  BY <1>1 DEF Armed, Pending
<1>4. CASE map[i] = Expired
  <2>1. wheel' = wheel /\ crashed' = TRUE  BY <1>4 DEF Refresh
  <2>2. Timed'  BY <1>1, <2>1, OthersTimed DEF Timed
  <2>3. \A j \in Ids : Left(j)' = Left(j)  BY <1>1, <2>1, Undisturbed
  <2>4. Left(i) = 0 /\ Armed(i) = 0  BY <1>4 DEF Left, Armed, Pending
  <2> QED  BY <1>1, <1>3, <2>1, <2>2, <2>3, <2>4 DEF Clock!RefreshNone, Armed
<1>5. CASE map[i] # Expired
  <2>1. PICK p \in Tasks : p = map[i]  BY <1>2, <1>5 DEF Refresh, TypeOK
  <2>2. task[p] # None /\ task[p].timeout \in Timeouts
    BY <1>2, <2>1 DEF EntriesLive, TypeOK, TimeTask
  <2>3. Push(p, task[p].timeout) /\ crashed' = crashed  BY <1>5, <2>1 DEF Refresh
  <2>4. PICK k \in Slots : Latest(p, k)' /\ Distance(k)' = task[p].timeout
    <3>1. PICK s \in Slots : Latest(p, s)  BY <2>2 DEF Timed
    <3>2. \A u \in Slots : Distance(u) \in Nat
      BY <1>2, Distances, CapAssumption
    <3>3. PICK d \in Nat : d = task[p].timeout  BY <2>2, SlotsNat
    <3>4. /\ Distance(s) <= d
          /\ \A u \in Slots : p \in wheel[u] => Distance(u) <= Distance(s)
      BY <3>1, <3>3 DEF Latest
    <3>5. \A u \in Slots : p \in wheel[u] => Distance(u) <= d
      BY <3>2, <3>4
    <3> QED  BY <1>1, <1>2, <2>2, <2>3, <3>3, <3>5, PushedLatest
  <2>5. \A q \in Tasks \ {p} : \A s \in Slots : q \in wheel'[s] <=> q \in wheel[s]
    BY <1>2, <2>2, <2>3, PushFacts
  <2>6. Timed'
    <3> SUFFICES ASSUME NEW q \in Tasks, task'[q] # None
                 PROVE  \E s \in Slots : Latest(q, s)'
      BY DEF Timed
    <3>1. CASE q = p  BY <2>4, <3>1
    <3>2. CASE q # p  BY <1>1, <2>5, <3>2, OthersTimed
    <3> QED  BY <3>1, <3>2
  <2>7. Left(i)' = Armed(i)
    <3>1. CASE Pending(i)
      <4>1. Pending(i)'  BY <1>1, <3>1 DEF Pending
      <4> QED
        BY <1>1, <1>2, <2>1, <2>4, <3>1, <4>1, TimesAlways DEF TimesFact, Armed
    <3>2. CASE ~Pending(i)
      <4>1. ~Pending(i)'  BY <1>1, <3>2 DEF Pending
      <4> QED  BY <3>2, <4>1 DEF Left, Armed
    <3> QED  BY <3>1, <3>2
  <2>8. \A j \in Ids \ {i} : Left(j)' = Left(j)
    <3> SUFFICES ASSUME NEW j \in Ids \ {i} PROVE Left(j)' = Left(j)  OBVIOUS
    <3>1. map[j] # p  BY <1>2, <2>1 DEF EntriesLive
    <3> QED  BY <1>1, <2>5, <3>1, Undisturbed
  <2> QED  BY <1>1, <1>3, <2>3, <2>6, <2>7, <2>8 DEF Clock!Refresh, Armed
<1> QED  BY <1>4, <1>5

LEMMA TimerCancelDisarms ==
  ASSUME IInv, IInv', Timed, NEW i \in Ids, TimerCancel(i)
  PROVE  Timed' /\ Clock!Cancel(i)
<1>1. /\ wheel' = wheel /\ map' = map /\ tick' = tick /\ ran' = {}
      /\ ~crashed /\ crashed' = crashed
  BY DEF TimerCancel
<1>2. TypeOK /\ EntriesLive  BY DEF IInv
<1>3. CASE map[i] = Expired
  <2>1. task' = task  BY <1>3 DEF TimerCancel
  <2>2. Timed'  BY <1>1, <2>1, OthersTimed DEF Timed
  <2>3. \A j \in Ids : Left(j)' = Left(j) /\ Armed(j)' = Armed(j)
    BY <1>1, <2>1, Undisturbed
  <2>4. Left(i) = 0 /\ Armed(i) = 0
    BY <1>3, NoneAssumption DEF Left, Armed, Pending
  <2> QED  BY <1>1, <2>2, <2>3, <2>4 DEF Clock!Cancel, Armed
<1>4. CASE map[i] # Expired
  <2>1. PICK p \in Tasks : p = map[i]  BY <1>2, <1>4 DEF TimerCancel, TypeOK
  <2>2. task[p] # None /\ task[p] \in TimeTask
    BY <1>2, <2>1 DEF EntriesLive, TypeOK
  <2>3. task' = [task EXCEPT ![p].canceled = TRUE]  BY <1>4, <2>1 DEF TimerCancel
  <2>4. /\ task'[p].timeout = task[p].timeout /\ task'[p].canceled
        /\ \A q \in Tasks \ {p} : task'[q] = task[q]
    BY <1>2, <2>2, <2>3 DEF TypeOK, TimeTask
  <2>5. Timed'
    <3> SUFFICES ASSUME NEW q \in Tasks, task'[q] # None
                 PROVE  \E s \in Slots : Latest(q, s)'
      BY DEF Timed
    <3>1. task[q] # None /\ task'[q].timeout = task[q].timeout  BY <2>2, <2>4
    <3> QED  BY <1>1, <3>1, OthersTimed
  <2>6. Left(i)' = 0 /\ Armed(i)' = 0
    <3>1. ~Pending(i)'  BY <1>1, <2>1, <2>4 DEF Pending
    <3> QED  BY <3>1 DEF Left, Armed
  <2>7. \A j \in Ids \ {i} : Left(j)' = Left(j) /\ Armed(j)' = Armed(j)
    <3> SUFFICES ASSUME NEW j \in Ids \ {i}
                 PROVE  Left(j)' = Left(j) /\ Armed(j)' = Armed(j)
      OBVIOUS
    <3>1. map[j] # p  BY <1>2, <2>1 DEF EntriesLive
    <3> QED  BY <1>1, <2>4, <3>1, Undisturbed
  <2> QED  BY <1>1, <2>5, <2>6, <2>7 DEF Clock!Cancel, Armed
<1> QED  BY <1>3, <1>4

LEMMA RunTimeTaskTicks ==
  ASSUME IInv, IInv', Timed, RunTimeTask
  PROVE  Timed' /\ Clock!Tick
<1> USE NoneAssumption
<1>1. PICK now : now = (tick + 1) % Cap  OBVIOUS
<1>2. PICK gone : gone = Released(now)  OBVIOUS
<1>3. /\ tick' = now
      /\ wheel' = [wheel EXCEPT ![now] = {}]
      /\ task' = [p \in Tasks |-> IF p \in gone THEN None ELSE task[p]]
      /\ ran' = {task[p].id : p \in {q \in gone : ~task[q].canceled}}
      /\ map' = [i \in Ids |-> IF i \in ran' THEN None
                               ELSE IF map[i] \in gone THEN Expired ELSE map[i]]
  BY <1>1, <1>2 DEF RunTimeTask, DueTasks
<1>4. TypeOK /\ TypeOK' /\ EntriesLive /\ Findable /\ HeldBySlots  BY DEF IInv
<1>5. /\ now \in Slots /\ Distance(now) = 1
      /\ \A s \in Slots \ {now} : Distance(s)' = Distance(s) - 1
  BY <1>1, <1>3, <1>4, HandMoves
<1>6. \A s \in Slots : Distance(s) \in Nat /\ Distance(s) >= 1
                       /\ (Distance(s) = 1 => s = now)
  BY <1>4, <1>5, Distances, CapAssumption
<1>7. \A p \in gone : p \in Tasks /\ task[p] # None /\ task[p].id \in Ids
  <2>1. \A p \in gone : p \in Tasks /\ task[p] # None
    BY <1>2, <1>4, <1>5 DEF Released, TypeOK, HeldBySlots
  <2> QED  BY <1>4, <2>1 DEF TypeOK, TimeTask
<1>8. \A p \in Tasks, s \in Slots : p \in wheel'[s] <=> s # now /\ p \in wheel[s]
  BY <1>3, <1>4, <1>5 DEF TypeOK
\* A task goes when its latest slot is the one under the hand.
<1>9. ASSUME NEW p \in Tasks, NEW s \in Slots, Latest(p, s)
      PROVE  p \in gone <=> s = now
  <2>1. CASE s = now
    <3>1. \A u \in Slots : p \in wheel[u] => u = now
      BY <1>5, <1>6, <1>9, <2>1 DEF Latest
    <3> QED  BY <1>2, <1>9, <2>1, <3>1 DEF Latest, Released
  <2>2. CASE s # now
    BY <1>2, <1>9, <2>2 DEF Latest, Released
  <2> QED  BY <2>1, <2>2
\* The others keep theirs, which comes nearer.
<1>10. ASSUME NEW p \in Tasks, p \notin gone, NEW s \in Slots, Latest(p, s),
              task[p] # None
       PROVE  Latest(p, s)' /\ Distance(s)' = Distance(s) - 1 /\ Distance(s) > 1
  <2>1. s # now /\ task'[p] = task[p]  BY <1>3, <1>9, <1>10
  <2>2. PICK d \in Nat : d = task[p].timeout
    BY <1>4, <1>10, SlotsNat DEF TypeOK, TimeTask
  <2>3. /\ p \in wheel[s] /\ Distance(s) <= d
        /\ \A u \in Slots : p \in wheel[u] => Distance(u) <= Distance(s)
    BY <1>10, <2>2 DEF Latest
  <2>4. /\ p \in wheel'[s] /\ Distance(s)' = Distance(s) - 1
        /\ \A u \in Slots : p \in wheel'[u] => p \in wheel[u] /\ Distance(u)' = Distance(u) - 1
    BY <1>5, <1>8, <2>1, <2>3
  <2>5. Distance(s)' <= d  BY <1>6, <2>3, <2>4
  <2>6. \A u \in Slots : p \in wheel'[u] => Distance(u)' <= Distance(s)'
    BY <1>6, <2>3, <2>4
  <2>7. Distance(s) > 1  BY <1>6, <2>1
  <2> QED  BY <2>1, <2>2, <2>4, <2>5, <2>6, <2>7 DEF Latest
<1>11. Timed'
  <2> SUFFICES ASSUME NEW q \in Tasks, task'[q] # None
               PROVE  \E s \in Slots : Latest(q, s)'
    BY DEF Timed
  <2>1. q \notin gone /\ task[q] # None  BY <1>3
  <2>2. PICK s \in Slots : Latest(q, s)  BY <2>1 DEF Timed
  <2> QED  BY <1>10, <2>1, <2>2
\* Who runs is pending, and its task goes.
<1>12. \A i \in Ids : i \in ran' <=> Pending(i) /\ map[i] \in gone
  <2>1. ASSUME NEW i \in Ids, i \in ran' PROVE Pending(i) /\ map[i] \in gone
    <3>1. PICK p \in gone : ~task[p].canceled /\ task[p].id = i  BY <1>3, <2>1
    <3>2. map[i] = p  BY <1>4, <1>7, <3>1 DEF Findable
    <3> QED  BY <1>7, <3>1, <3>2 DEF Pending
  <2>2. ASSUME NEW i \in Ids, Pending(i), map[i] \in gone PROVE i \in ran'
    <3>1. task[map[i]].id = i /\ ~task[map[i]].canceled
      BY <1>4, <2>2 DEF Pending, EntriesLive
    <3> QED  BY <1>3, <2>2, <3>1
  <2> QED  BY <2>1, <2>2
<1>13. ran' \subseteq Ids  BY <1>3, <1>7
<1>14. ASSUME NEW i \in Ids
       PROVE  /\ i \in ran' <=> Left(i) = 1
              /\ Left(i)' = IF Left(i) = 0 THEN 0 ELSE Left(i) - 1
              /\ Armed(i)' = IF Left(i) = 1 THEN 0 ELSE Armed(i)
  <2>1. CASE ~Pending(i)
    <3>1. i \notin ran' /\ Left(i) = 0 /\ Armed(i) = 0
      BY <1>12, <2>1 DEF Left, Armed
    <3>2. ~Pending(i)'
      <4> SUFFICES ASSUME map'[i] \in Tasks PROVE task'[map'[i]].canceled
        BY DEF Pending
      <4>1. map'[i] = map[i] /\ map[i] \notin gone  BY <1>3
      <4>2. map[i] \in Tasks /\ task[map[i]].canceled  BY <2>1, <4>1 DEF Pending
      <4> QED  BY <1>3, <4>1, <4>2
    <3>3. Left(i)' = 0 /\ Armed(i)' = 0  BY <3>2 DEF Left, Armed
    <3> QED  BY <3>1, <3>3
  <2>2. CASE Pending(i)
    <3>1. PICK p \in Tasks : p = map[i] /\ task[p] # None /\ ~task[p].canceled
      BY <1>4, <2>2 DEF Pending, EntriesLive
    <3>2. PICK s \in Slots : Latest(p, s)  BY <3>1 DEF Timed
    <3>3. Left(i) = Distance(s)
      BY <1>4, <2>2, <3>1, <3>2, TimesAlways DEF TimesFact
    <3>4. CASE p \in gone
      <4>1. s = now /\ i \in ran'  BY <1>9, <1>12, <2>2, <3>1, <3>2, <3>4
      <4>2. map'[i] = None  BY <1>3, <4>1
      <4>3. Left(i)' = 0 /\ Armed(i)' = 0  BY <4>2 DEF Left, Armed, Pending
      <4> QED  BY <1>5, <3>3, <4>1, <4>3
    <3>5. CASE p \notin gone
      <4>1. i \notin ran'  BY <1>12, <3>1, <3>5
      <4>2. map'[i] = p /\ task'[p] = task[p]  BY <1>3, <3>1, <3>5, <4>1
      <4>3. Pending(i)' /\ Armed(i)' = Armed(i)
        BY <2>2, <3>1, <4>2 DEF Pending, Armed
      <4>4. Latest(p, s)' /\ Distance(s)' = Distance(s) - 1 /\ Distance(s) > 1
        BY <1>10, <3>1, <3>2, <3>5
      <4>5. Left(i)' = Distance(s)'
        BY <1>4, <4>2, <4>3, <4>4, TimesAlways DEF TimesFact
      <4> QED  BY <1>6, <3>3, <4>1, <4>3, <4>4, <4>5
    <3> QED  BY <3>4, <3>5
  <2> QED  BY <2>1, <2>2
<1>15. ran' = {i \in Ids : Left(i) = 1}  BY <1>13, <1>14
<1>16. ~crashed /\ crashed' = crashed  BY DEF RunTimeTask
<1> QED  BY <1>11, <1>14, <1>15, <1>16 DEF Clock!Tick, Clock!Due, Armed

\* Who is due in the wheel is due as a timer.
LEMMA DueIs ==
  ASSUME IInv, Timed
  PROVE  {task[p].id : p \in DueTasks} \subseteq {i \in Ids : Left(i) = 1}
<1> USE NoneAssumption
<1>1. PICK now : now = (tick + 1) % Cap  OBVIOUS
<1>2. TypeOK /\ EntriesLive /\ Findable /\ HeldBySlots  BY DEF IInv
<1>3. 1 \in 1 .. Cap  BY CapAssumption
<1>4. now \in Slots /\ Distance(now) = 1  BY <1>1, <1>2, <1>3, Distances
<1> SUFFICES ASSUME NEW p \in DueTasks
             PROVE  task[p].id \in Ids /\ Left(task[p].id) = 1
  OBVIOUS
<1>5. /\ p \in wheel[now] /\ ~task[p].canceled
      /\ \A u \in Slots \ {now} : p \notin wheel[u]
  BY <1>1 DEF DueTasks, Released
<1>6. p \in Tasks /\ task[p] # None /\ task[p].id \in Ids
  <2>1. p \in Tasks  BY <1>2, <1>4, <1>5 DEF TypeOK
  <2>2. task[p] # None  BY <1>2, <1>4, <1>5, <2>1 DEF HeldBySlots
  <2> QED  BY <1>2, <2>1, <2>2 DEF TypeOK, TimeTask
<1>7. map[task[p].id] = p  BY <1>2, <1>5, <1>6 DEF Findable
<1>8. Pending(task[p].id)  BY <1>5, <1>6, <1>7 DEF Pending
<1>9. PICK s \in Slots : Latest(p, s)  BY <1>6 DEF Timed
<1>10. s = now  BY <1>5, <1>9 DEF Latest
<1> QED  BY <1>2, <1>4, <1>6, <1>7, <1>8, <1>9, <1>10, LeftIs

LEMMA RunTimeTaskBreaksStops ==
  ASSUME IInv, IInv', Timed, RunTimeTaskBreaks
  PROVE  Timed' /\ Clock!LastTick
<1>1. /\ ~crashed /\ crashed' = TRUE
      /\ ran' \in SUBSET {task[p].id : p \in DueTasks} \ {{}}
      /\ tick' = tick /\ wheel' = wheel /\ task' = task /\ map' = map
  BY DEF RunTimeTaskBreaks
<1>2. ran' \in SUBSET {i \in Ids : Left(i) = 1} \ {{}}  BY <1>1, DueIs
<1>3. Timed'  BY <1>1, OthersTimed DEF Timed
<1>4. \A j \in Ids : Left(j)' = Left(j) /\ Armed(j)' = Armed(j)
  BY <1>1, Undisturbed
<1> QED  BY <1>1, <1>2, <1>3, <1>4 DEF Clock!LastTick, Clock!Due, Armed

(***************************************************************************)
(* The wheel implements a set of timers, for every capacity and timeouts up *)
(* to a whole turn: a task runs timeout ticks after it was added or last    *)
(* refreshed, once, and not when it was cancelled; the process ends only in *)
(* a tick that has run a task and in the refresh of a timer that is not     *)
(* armed.                                                                   *)
(***************************************************************************)
THEOREM IsTimers == Spec => ImplementsTimers
<1>1. Init => Clock!Init /\ Timed
  <2> SUFFICES ASSUME Init PROVE Clock!Init /\ Timed  OBVIOUS
  <2>1. \A i \in Ids : ~Pending(i)  BY NoneAssumption DEF Init, Pending
  <2>2. \A i \in Ids : Left(i) = 0 /\ Armed(i) = 0  BY <2>1 DEF Left, Armed
  <2> QED  BY <2>2 DEF Init, Timed, Clock!Init, Armed
<1>2. ASSUME IInv, IInv', Timed, [Next]_vars
      PROVE  Timed' /\ [Clock!Next]_(Clock!vars)
  <2>1. CASE UNCHANGED vars
    <3>1. Timed'  BY <1>2, <2>1, OthersTimed DEF vars, Timed
    <3>2. \A i \in Ids : Left(i)' = Left(i) /\ Armed(i)' = Armed(i)
      BY <1>2, <2>1, Undisturbed DEF vars
    <3> QED  BY <2>1, <3>1, <3>2 DEF vars, Clock!vars, Armed
  <2> QED
    BY <1>2, <2>1, TaskAddArms, RefreshRearms, TimerCancelDisarms,
       RunTimeTaskTicks, RunTimeTaskBreaksStops
    DEF Next, Clock!Next
<1> QED  BY <1>1, <1>2, Invariance, PTL DEF Spec, ImplementsTimers

=============================================================================
