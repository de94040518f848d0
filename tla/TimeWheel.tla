------------------------------ MODULE TimeWheel ------------------------------
(***************************************************************************)
(* The timing wheel of my_muduo/source/timewheel.hpp (tech_muduo/timeout    *)
(* has a copy).  A slot holds shared pointers; a task runs in the           *)
(* destructor of its TimeTask, that is when the last slot that holds it is  *)
(* cleared.  Refreshing pushes the same pointer into a later slot.          *)
(*                                                                          *)
(* Callers add an id again only when its timer has run or was cancelled,    *)
(* and their callbacks do not call the wheel, as in the test program.       *)
(***************************************************************************)
EXTENDS Naturals

CONSTANTS
  Ids,
  Tasks,       \* addresses of TimeTask objects; bound: that many exist at once
  Cap,         \* _capacity, 60 in the code
  Timeouts,    \* the timeouts callers ask for
  None,
  Expired      \* a weak pointer whose object is gone

ASSUME CapAssumption == Cap \in Nat \ {0}
ASSUME TimeoutsAssumption == Timeouts \subseteq 1 .. Cap

TimeTask == [id : Ids, timeout : Timeouts, canceled : BOOLEAN]

ASSUME NoneAssumption ==
  /\ None \notin Tasks /\ Expired \notin Tasks /\ None # Expired
  /\ None \notin TimeTask

VARIABLES
  tick,        \* _tick
  wheel,       \* _Wheel: which tasks each slot points to
  task,        \* the TimeTask objects
  map,         \* _timetask_map
  ran,         \* ids whose callback the last call ran
  crashed      \* the process is gone

vars == <<tick, wheel, task, map, ran, crashed>>

Slots == 0 .. Cap - 1

TypeOK ==
  /\ tick \in Slots
  /\ wheel \in [Slots -> SUBSET Tasks]
  /\ task \in [Tasks -> TimeTask \cup {None}]
  /\ map \in [Ids -> Tasks \cup {None, Expired}]
  /\ ran \subseteq Ids
  /\ crashed \in BOOLEAN

\* Mutant: the hand starts past the last slot.
InitAtEnd ==
  /\ tick = Cap
  /\ wheel = [s \in Slots |-> {}]
  /\ task = [p \in Tasks |-> None]
  /\ map = [i \in Ids |-> None]
  /\ ran = {}
  /\ crashed = FALSE

Init ==
  /\ tick = 0
  /\ wheel = [s \in Slots |-> {}]
  /\ task = [p \in Tasks |-> None]
  /\ map = [i \in Ids |-> None]
  /\ ran = {}
  /\ crashed = FALSE

Pending(i) == map[i] \in Tasks /\ ~task[map[i]].canceled

\* Mutant: the slot is counted from the start of the wheel.
PushFromStart(p, d) ==
  wheel' = [wheel EXCEPT ![d % Cap] = @ \cup {p}]

\* A pointer to p goes into the slot d ticks ahead.
Push(p, d) ==
  wheel' = [wheel EXCEPT ![(tick + d) % Cap] = @ \cup {p}]

-----------------------------------------------------------------------------
\* Mutant: insert, which keeps the entry a cancelled timer left.
TaskInsert(i, t, p) ==
  /\ ~crashed /\ ~Pending(i) /\ task[p] = None
  /\ task' = [task EXCEPT ![p] = [id |-> i, timeout |-> t, canceled |-> FALSE]]
  /\ Push(p, t)
  /\ map' = [map EXCEPT ![i] = IF @ = None THEN p ELSE @]
  /\ ran' = {}
  /\ UNCHANGED <<tick, crashed>>

TaskAdd(i, t, p) ==
  /\ ~crashed /\ ~Pending(i) /\ task[p] = None
  /\ task' = [task EXCEPT ![p] = [id |-> i, timeout |-> t, canceled |-> FALSE]]
  /\ Push(p, t)
  /\ map' = [map EXCEPT ![i] = p]
  /\ ran' = {}
  /\ UNCHANGED <<tick, crashed>>

\* The task may be cancelled already.  If it is gone, lock() returns a null
\* pointer, which is used.
Refresh(i) ==
  /\ ~crashed /\ map[i] # None
  /\ IF map[i] = Expired
       THEN crashed' = TRUE /\ UNCHANGED wheel
       ELSE Push(map[i], task[map[i]].timeout) /\ UNCHANGED crashed
  /\ ran' = {}
  /\ UNCHANGED <<tick, task, map>>

TimerCancel(i) ==
  /\ ~crashed /\ map[i] # None
  /\ task' = IF map[i] = Expired THEN task
             ELSE [task EXCEPT ![map[i]].canceled = TRUE]
  /\ ran' = {}
  /\ UNCHANGED <<tick, wheel, map, crashed>>

\* Mutant: a task goes with the first slot, as if the pointers were plain.
ReleasedAtOnce(s) == wheel[s]

\* The objects that lose their last pointer when slot s is cleared.
Released(s) ==
  {p \in wheel[s] : \A u \in Slots \ {s} : p \notin wheel[u]}

\* The tasks that clearing the next slot runs.
DueTasks == {p \in Released((tick + 1) % Cap) : ~task[p].canceled}

\* ~TimeTask of each object: the callback and Remove, unless it was cancelled.
RunTimeTask ==
  LET now  == (tick + 1) % Cap
      gone == Released(now)
  IN
  /\ ~crashed
  /\ tick' = now
  /\ wheel' = [wheel EXCEPT ![now] = {}]
  /\ task' = [p \in Tasks |-> IF p \in gone THEN None ELSE task[p]]
  /\ ran' = {task[p].id : p \in DueTasks}
  /\ map' = [i \in Ids |-> IF i \in ran' THEN None
                           ELSE IF map[i] \in gone THEN Expired ELSE map[i]]
  /\ UNCHANGED crashed

\* Remove erases an entry and goes on with its dead iterator: its loop ends, as
\* above, or the process does, before the objects that clear() has not come to
\* are destroyed.  What memory held then is of no account.
RunTimeTaskBreaks ==
  /\ ~crashed
  /\ ran' \in SUBSET {task[p].id : p \in DueTasks} \ {{}}
  /\ crashed' = TRUE
  /\ UNCHANGED <<tick, wheel, task, map>>

-----------------------------------------------------------------------------
Next ==
  \/ \E i \in Ids : Refresh(i) \/ TimerCancel(i)
  \/ \E i \in Ids, t \in Timeouts, p \in Tasks : TaskAdd(i, t, p)
  \/ RunTimeTask \/ RunTimeTaskBreaks

Spec == Init /\ [][Next]_vars

-----------------------------------------------------------------------------
(***************************************************************************)
(* A task that can still run is the one its id leads to: Refresh and        *)
(* TimerCancel reach it.                                                    *)
(***************************************************************************)
Findable ==
  \A p \in Tasks :
    task[p] # None => \/ task[p].canceled
                      \/ map[task[p].id] = p

(***************************************************************************)
(* An object lives while a slot points to it, and no longer.                *)
(***************************************************************************)
HeldBySlots ==
  \A p \in Tasks : task[p] # None <=> \E s \in Slots : p \in wheel[s]

(***************************************************************************)
(* The wheel is a set of timers: each runs at its tick after the last       *)
(* refresh, once, and not when it was cancelled.  The process ends only in  *)
(* a tick that has run a task and in the refresh of a timer that is not     *)
(* armed.                                                                   *)
(***************************************************************************)
\* Ticks until slot s is cleared.
Distance(s) == IF s > tick THEN s - tick ELSE s + Cap - tick

Left(i) ==
  IF Pending(i)
    THEN CHOOSE d \in 1 .. Cap :
           /\ \E s \in Slots : map[i] \in wheel[s] /\ Distance(s) = d
           /\ \A s \in Slots : map[i] \in wheel[s] => Distance(s) <= d
    ELSE 0

Clock == INSTANCE Timers WITH
  Delays <- Timeouts,
  stopped <- crashed,
  left   <- [i \in Ids |-> Left(i)],
  delay  <- [i \in Ids |-> IF Pending(i) THEN task[map[i]].timeout ELSE 0]
ImplementsTimers == Clock!Init /\ [][Clock!Next]_(Clock!vars)
=============================================================================
