----------------------------- MODULE Readiness -----------------------------
(***************************************************************************)
(* What the scheduler relies on the poller for (the contract of the poll    *)
(* section of src/runtime/sprout_scheduler.h), whatever the backend: a task *)
(* waits for one descriptor, one timer or both; a batch consumes exactly    *)
(* the waits it reports; a withdrawn wait is never reported.                *)
(***************************************************************************)
EXTENDS Integers, FiniteSets

CONSTANTS Tasks, Fds, Kinds, Delays,
          Want       \* most events of one batch

NoWatch == [fd |-> 0, kind |-> "none"]
NoAlarm == <<>>

VARIABLES watch,   \* per task: the descriptor and interest it waits for
          alarm,   \* per task: <<time left>> of its timer
          told     \* the events of the last batch

Init == watch = [t \in Tasks |-> NoWatch] /\ alarm = [t \in Tasks |-> NoAlarm] /\ told = {}

(* A task registers: nobody else's wait is touched. *)
Register(t) ==
  /\ watch[t] = NoWatch /\ alarm[t] = NoAlarm
  /\ \E w \in {NoWatch} \cup [fd : Fds, kind : Kinds] : watch' = [watch EXCEPT ![t] = w]
  /\ \E a \in {NoAlarm} \cup {<<d>> : d \in Delays} : alarm' = [alarm EXCEPT ![t] = a]
  /\ watch' # watch \/ alarm' # alarm
  /\ UNCHANGED told

(* Both waits of a task are gone. *)
Withdraw(t) ==
  /\ watch' = [watch EXCEPT ![t] = NoWatch]
  /\ alarm' = [alarm EXCEPT ![t] = NoAlarm]
  /\ UNCHANGED told

(* A batch: descriptors that are ready and timers that are due.  A timer    *)
(* that is due is left out only of a full batch.                            *)
Report ==
  LET due == {t \in Tasks : alarm[t] # NoAlarm /\ alarm[t][1] <= 0}
  IN \E f \in SUBSET {t \in Tasks : watch[t] # NoWatch}, d \in SUBSET due :
       /\ Cardinality(f) + Cardinality(d) \in 1..Want
       /\ d = due \/ Cardinality(f) + Cardinality(d) = Want
       /\ watch' = [t \in Tasks |-> IF t \in f THEN NoWatch ELSE watch[t]]
       /\ alarm' = [t \in Tasks |-> IF t \in d THEN NoAlarm ELSE alarm[t]]
       /\ told' = (f \X {"fd"}) \cup (d \X {"timer"})

(* The pump has taken the batch. *)
Taken == told' = {} /\ UNCHANGED <<watch, alarm>>

Tick ==
  /\ alarm' = [t \in Tasks |-> IF alarm[t] = NoAlarm THEN NoAlarm ELSE <<alarm[t][1] - 1>>]
  /\ UNCHANGED <<watch, told>>

Next == Report \/ Taken \/ Tick \/ \E t \in Tasks : Register(t) \/ Withdraw(t)
Spec == Init /\ [][Next]_<<watch, alarm, told>>
=============================================================================
