------------------------------- MODULE Timers -------------------------------
(***************************************************************************)
(* What a set of timers promises: a timer that is armed with a delay runs   *)
(* at that many ticks after it was last armed or refreshed, and one that is *)
(* cancelled does not run.  The process may end when it refreshes a timer   *)
(* that is not armed, and when it has run one, and at no other time; until  *)
(* then every timer that is due has run.                                    *)
(***************************************************************************)
EXTENDS Naturals

CONSTANTS Ids, Delays

VARIABLES
  left,        \* ticks until the timer runs; 0 when it is not armed
  delay,       \* what it was armed with; 0 when it is not armed
  ran,         \* the timers the last tick ran
  stopped      \* the process is gone, and nothing runs any more

vars == <<left, delay, ran, stopped>>

Init ==
  /\ left = [i \in Ids |-> 0]
  /\ delay = [i \in Ids |-> 0]
  /\ ran = {}
  /\ stopped = FALSE

Arm(i, d) ==
  /\ ~stopped /\ left[i] = 0
  /\ left' = [left EXCEPT ![i] = d]
  /\ delay' = [delay EXCEPT ![i] = d]
  /\ ran' = {}
  /\ UNCHANGED stopped

\* Refreshing a timer that is not armed does nothing ...
Refresh(i) ==
  /\ ~stopped
  /\ left' = [left EXCEPT ![i] = delay[i]]
  /\ ran' = {}
  /\ UNCHANGED <<delay, stopped>>

\* ... or ends the process.
RefreshNone(i) ==
  /\ ~stopped /\ left[i] = 0
  /\ ran' = {}
  /\ stopped' = TRUE
  /\ UNCHANGED <<left, delay>>

Cancel(i) ==
  /\ ~stopped
  /\ left' = [left EXCEPT ![i] = 0]
  /\ delay' = [delay EXCEPT ![i] = 0]
  /\ ran' = {}
  /\ UNCHANGED stopped

Due == {i \in Ids : left[i] = 1}

Tick ==
  /\ ~stopped
  /\ ran' = Due
  /\ left' = [i \in Ids |-> IF left[i] = 0 THEN 0 ELSE left[i] - 1]
  /\ delay' = [i \in Ids |-> IF i \in Due THEN 0 ELSE delay[i]]
  /\ UNCHANGED stopped

\* A tick that runs timers may end with one of them, and the process with it.
LastTick ==
  /\ ~stopped
  /\ ran' \in SUBSET Due \ {{}}
  /\ stopped' = TRUE
  /\ UNCHANGED <<left, delay>>

Next ==
  \/ \E i \in Ids : \/ Refresh(i) \/ RefreshNone(i) \/ Cancel(i)
                    \/ \E d \in Delays : Arm(i, d)
  \/ Tick \/ LastTick

Spec == Init /\ [][Next]_vars
=============================================================================
