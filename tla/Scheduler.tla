----------------------------- MODULE Scheduler -----------------------------
(***************************************************************************)
(* The green-task scheduler of runtime/sprout_scheduler.c: one pump on one *)
(* OS thread, scopes, spawned and forked tasks, await, join, cancel,       *)
(* deadlines, sleeps, and parks on descriptors with and without a bound.   *)
(*                                                                         *)
(* A task runs without interruption from one suspension to the next, so    *)
(* an action is one call of the running task (up to its park or its        *)
(* return), the rest of a call after its park, or one step of the pump.    *)
(* What a program does between calls is open: the running task may make    *)
(* any call its scopes allow.  Uses says which calls programs make.        *)
(*                                                                         *)
(* Task and scope records are numbered in the order of their allocation    *)
(* and never reused, although malloc does reuse their memory: a pointer to *)
(* a freed record stays visible as one.  Timer descriptors are reused, and *)
(* the kernel hands out the lowest free one.                               *)
(***************************************************************************)
EXTENDS Integers, Sequences, FiniteSets

CONSTANTS
  MaxTasks,      \* bound on the tasks created, task-0 (main) not counted
  MaxScopes,     \* bound on the scopes opened
  MaxTimers,     \* timer descriptors the process can hold at once
  Uses,          \* the calls and habits of the programs considered
  None           \* the null pointer

Main == 0
Tasks == 0 .. MaxTasks
Scopes == 1 .. MaxScopes
Timers == 1 .. MaxTimers

ASSUME BoundsAssumption == MaxTasks \in Nat /\ MaxScopes \in Nat /\ MaxTimers \in Nat
ASSUME NoneAssumption == None \notin Nat

VARIABLES
  outcome,         \* "running", "exit", or why sprout_fail was called
  cur,             \* g_current_task, None while the pump runs
  rq,              \* g_rq_head .. g_rq_tail
  io,              \* g_io_head: the tasks suspended in the poller
  chanq,           \* the tasks parked in a channel call (module Channel)
  armed,           \* registrations the poller can still report
  batch,           \* events of the last sprout_poll_wait, not yet harvested
  timerfd,         \* timerfd[i]: the task whose timer descriptor i is, or None
  misclosed,       \* a timer teardown closed a descriptor that was not its own
  pc,              \* where each task is
  scope, awaiter, awaitable,
  stack,           \* stack[t]: the scopes t has opened and not joined, innermost last
  captured,        \* captured[t]: the scopes of the closure t runs
  holder,          \* holder[t]: the task that was given the linear handle of fork t, until its await
  timed,           \* timed[t]: the body with_timeout in t waits for
  park_timer_id, park_timer_dead,
  park_woke_by_timer,  \* kept only while a bounded park may read it
  sockets,         \* tasks whose frame holds a socket and memory nothing else owns
  hooked,          \* tasks with park_close_fd and park_cleanup set
  live, waiter, reason, owner, sstate,
  outer            \* outer[s]: the scopes its opener could use

taskVars == <<pc, scope, awaiter, awaitable, stack, captured, holder, timed>>
pollVars == <<armed, batch, timerfd, misclosed>>
parkVars == <<park_timer_id, park_timer_dead, park_woke_by_timer, sockets, hooked>>
scopeVars == <<live, waiter, reason, owner, sstate, outer>>
vars == <<outcome, cur, rq, io, chanq, pollVars, taskVars, parkVars, scopeVars>>

Elems(q) == {q[i] : i \in 1 .. Len(q)}

\* A task that has not finished and has not been dropped.
Alive(t) == pc[t] \notin {"unborn", "returned", "dropped", "freed"}

\* What a task parked in the poller is registered with: its park_kind.
ParksOnTimer(t) == pc[t] \in {"sleep", "deadline", "fdtimer"}
ParksOnFd(t) == pc[t] \in {"fd", "fdtimer"}

\* deadline_child is set exactly while its owner is parked in __await_deadline.
deadline_child(t) == IF pc[t] = "deadline" THEN timed[t] ELSE None

\* The next record that malloc gives out.
FreshTask(c) == pc[c] = "unborn" /\ \A d \in 0 .. c - 1 : pc[d] # "unborn"
FreshScope(s) == sstate[s] = "unborn" /\ \A r \in 1 .. s - 1 : sstate[r] # "unborn"

Usable(t) == Elems(stack[t]) \cup captured[t]

Init ==
  /\ outcome = "running" /\ cur = Main
  /\ rq = <<>> /\ io = {} /\ chanq = {}
  /\ armed = {} /\ batch = {} /\ misclosed = FALSE
  /\ timerfd = [i \in Timers |-> None]
  /\ pc = [t \in Tasks |-> IF t = Main THEN "body" ELSE "unborn"]
  /\ scope = [t \in Tasks |-> None]
  /\ awaiter = [t \in Tasks |-> None]
  /\ awaitable = [t \in Tasks |-> FALSE]
  /\ stack = [t \in Tasks |-> <<>>]
  /\ captured = [t \in Tasks |-> {}]
  /\ holder = [t \in Tasks |-> None]
  /\ timed = [t \in Tasks |-> None]
  /\ park_timer_id = [t \in Tasks |-> None]
  /\ park_timer_dead = [t \in Tasks |-> FALSE]
  /\ park_woke_by_timer = [t \in Tasks |-> FALSE]
  /\ sockets = {} /\ hooked = {}
  /\ live = [s \in Scopes |-> 0]
  /\ waiter = [s \in Scopes |-> None]
  /\ reason = [s \in Scopes |-> "none"]
  /\ owner = [s \in Scopes |-> None]
  /\ sstate = [s \in Scopes |-> "unborn"]
  /\ outer = [s \in Scopes |-> {}]

Running(t) == outcome = "running" /\ cur = t /\ pc[t] = "body"
Resumed(t, where) == outcome = "running" /\ cur = t /\ pc[t] \in where
PumpRuns == outcome = "running" /\ cur = None

sprout_fail(why) ==
  /\ outcome' = why
  /\ UNCHANGED <<cur, rq, io, chanq, pollVars, taskVars, parkVars, scopeVars>>

rq_push(t) == rq' = Append(rq, t)

\* park_to_pump in a call that is resumed at place p.
park_to_pump(t, p) ==
  /\ cur' = None
  /\ pc' = [pc EXCEPT ![t] = p]

\* sprout_poll_remove_timer for the timers of the tasks in W: DEL, then close.
sprout_poll_remove_timer(W) ==
  LET ids == {park_timer_id[w] : w \in W}
  IN  /\ timerfd' = [i \in Timers |-> IF i \in ids THEN None ELSE timerfd[i]]
      /\ misclosed' = (misclosed \/ \E w \in W : timerfd[park_timer_id[w]] # w)
      /\ park_timer_dead' = [t \in Tasks |-> park_timer_dead[t] \/ t \in W]

TimerEvents(W) == {<<w, "timer">> : w \in W}
FdEvents(W) == {<<w, "fd">> : w \in W}

-----------------------------------------------------------------------------
(* pump_loop                                                               *)

\* Switch into the task at the head of the ready queue.
PumpRunsTask ==
  /\ PumpRuns /\ batch = {} /\ rq # <<>>
  /\ cur' = Head(rq)
  /\ rq' = Tail(rq)
  /\ UNCHANGED <<outcome, io, chanq, pollVars, taskVars, parkVars, scopeVars>>

\* Nothing is runnable: block in the poller.  Registrations are one-shot.
sprout_poll_wait(events) ==
  /\ PumpRuns /\ batch = {} /\ rq = <<>> /\ io # {}
  /\ events # {}
  /\ batch' = events
  /\ armed' = armed \ events
  /\ UNCHANGED <<outcome, cur, rq, io, chanq, timerfd, misclosed, taskVars, parkVars, scopeVars>>

\* Mutant: the second event of a batch wakes its task again.
Wakes_Always(w) == TRUE

\* Whose timer the pump tears down, and whether the event wakes its task.
Spent(w, kind) == IF kind = "timer" /\ ~park_timer_dead[w] THEN {w} ELSE {}
Wakes(w) == w \in io

\* Mutant: the pump does not say that the timer woke the task.
TimedOut_Unset(w, kind) == FALSE

TimedOut(w, kind) == kind = "timer" /\ pc[w] = "fdtimer"

\* One event of the batch, in the order the kernel reported them.
PumpHarvests(w, kind) ==
  /\ PumpRuns /\ <<w, kind>> \in batch
  /\ batch' = batch \ {<<w, kind>>}
  /\ sprout_poll_remove_timer(Spent(w, kind))
  /\ IF Wakes(w)
       THEN /\ park_woke_by_timer' = [park_woke_by_timer EXCEPT ![w] = TimedOut(w, kind)]
            /\ io' = io \ {w}
            /\ hooked' = hooked \ {w}
            /\ rq_push(w)
       ELSE UNCHANGED <<park_woke_by_timer, io, hooked, rq>>
  /\ UNCHANGED <<outcome, cur, chanq, armed, taskVars, park_timer_id, sockets, scopeVars>>

PumpDeadlock ==
  /\ PumpRuns /\ batch = {} /\ rq = <<>> /\ io = {}
  /\ sprout_fail("deadlock")

-----------------------------------------------------------------------------
(* Scopes and tasks                                                        *)

\* __scope_open, of scope record s by task t.
Opened(t, s) ==
  /\ sstate' = [sstate EXCEPT ![s] = "open"]
  /\ owner' = [owner EXCEPT ![s] = t]
  /\ outer' = [outer EXCEPT ![s] = Usable(t)]
  /\ stack' = [stack EXCEPT ![t] = Append(@, s)]

ScopeOpen(t, s) ==
  /\ Running(t) /\ FreshScope(s)
  /\ Opened(t, s)
  /\ UNCHANGED <<outcome, cur, rq, io, chanq, pollVars, pc, scope, awaiter, awaitable, captured,
                 holder, timed, parkVars, live, waiter, reason>>

Counted(s) == live' = [live EXCEPT ![s] = @ + 1]

\* task_create: c starts in s with the scopes cap in its closure.
task_create(s, c, a, cap) ==
  /\ scope' = [scope EXCEPT ![c] = s]
  /\ awaitable' = [awaitable EXCEPT ![c] = a]
  /\ captured' = [captured EXCEPT ![c] = cap]
  /\ Counted(s)

\* The scopes a closure run in s may use: those that live as long as s, or,
\* in programs that let a scope value escape to an enclosing scope's task,
\* all that the spawner has.
Captures(t, s) == IF "capture" \in Uses THEN Usable(t) ELSE {s} \cup outer[s]

\* __scope_spawn and __task_fork.  scope_of refuses a scope that was joined
\* (module HandleTable).
Spawn(t, s, c, a) ==
  /\ Running(t) /\ s \in Usable(t) /\ sstate[s] = "open"
  /\ FreshTask(c)
  /\ a => "fork" \in Uses
  /\ task_create(s, c, a, Captures(t, s))
  /\ pc' = [pc EXCEPT ![c] = "body"]
  /\ holder' = [holder EXCEPT ![c] = IF a THEN t ELSE None]
  /\ rq_push(c)
  /\ UNCHANGED <<outcome, cur, io, chanq, pollVars, awaiter, stack, timed, parkVars,
                 waiter, reason, owner, sstate, outer>>

\* Mutant: the count is compared before it is lowered.
JoinerToWake_TooEarly(s) == IF live[s] = 0 /\ waiter[s] # None THEN <<waiter[s]>> ELSE <<>>

\* The last child wakes the joiner.
JoinerToWake(s) == IF live[s] = 1 /\ waiter[s] # None THEN <<waiter[s]>> ELSE <<>>

\* The awaiter is pushed unless the pump has already harvested its deadline.
AwaiterToWake(t) ==
  IF awaiter[t] = None \/ (awaiter[t] \notin io /\ deadline_child(awaiter[t]) = t)
  THEN <<>> ELSE <<awaiter[t]>>

\* The deadline timer that a finished body tears down for its awaiter.
DeadlineToTearDown(t) == {w \in io : w = awaiter[t] /\ ~park_timer_dead[w]}

\* task_trampoline after the body, and pump_loop's reclaim of the task.
TaskReturns(t) ==
  LET s == scope[t] IN
  /\ Running(t) /\ t # Main /\ stack[t] = <<>>
  /\ awaiter' = [awaiter EXCEPT ![t] = None]
  /\ sprout_poll_remove_timer(DeadlineToTearDown(t))
  /\ armed' = armed \ TimerEvents(DeadlineToTearDown(t))
  /\ io' = io \ {awaiter[t]}
  /\ rq' = rq \o AwaiterToWake(t) \o JoinerToWake(s)
  /\ live' = [live EXCEPT ![s] = @ - 1]
  /\ waiter' = [waiter EXCEPT ![s] = IF live[s] = 1 THEN None ELSE @]
  /\ park_to_pump(t, IF awaitable[t] THEN "returned" ELSE "freed")
  /\ UNCHANGED <<outcome, chanq, batch, scope, awaitable, stack, captured, holder, timed,
                 park_timer_id, park_woke_by_timer, sockets, hooked, reason, owner, sstate, outer>>

MainReturns ==
  /\ Running(Main) /\ stack[Main] = <<>>
  /\ outcome' = "exit"
  /\ UNCHANGED <<cur, rq, io, chanq, pollVars, taskVars, parkVars, scopeVars>>

task_yield(t) ==
  /\ Running(t) /\ "yield" \in Uses
  /\ rq_push(t)
  /\ cur' = None
  /\ UNCHANGED <<outcome, io, chanq, pollVars, taskVars, parkVars, scopeVars>>

(* __task_await: the handle is linear, so a fork is awaited at most once,  *)
(* by whoever holds the handle then.                                       *)

\* The handle can be given away, in the once closure of a task or as a message
\* of a channel, and on: in programs that do so any task, f itself too, may be
\* the one that has it by now.
Holds(t, f) == holder[f] # None /\ (holder[f] = t \/ "move" \in Uses)

Consume(f) == holder' = [holder EXCEPT ![f] = None]

AwaitDone(t, f) ==
  /\ Running(t) /\ Holds(t, f) /\ pc[f] = "returned"
  /\ Consume(f)
  /\ UNCHANGED <<outcome, cur, rq, io, chanq, pollVars, pc, scope, awaiter, awaitable, stack,
                 captured, timed, parkVars, scopeVars>>

AwaitParks(t, f) ==
  /\ Running(t) /\ Holds(t, f) /\ Alive(f)
  /\ Consume(f)
  /\ awaiter' = [awaiter EXCEPT ![f] = t]
  /\ park_to_pump(t, "await")
  /\ UNCHANGED <<outcome, rq, io, chanq, pollVars, scope, awaitable, stack, captured, timed,
                 parkVars, scopeVars>>

AwaitRefused(t, f) ==
  /\ Running(t) /\ Holds(t, f)
  /\ \/ pc[f] = "dropped" /\ sprout_fail("awaiting a dropped task")
     \/ pc[f] = "freed" /\ sprout_fail("stale handle")

AwaitReturns(t) ==
  /\ Resumed(t, {"await"})
  /\ pc' = [pc EXCEPT ![t] = "body"]
  /\ UNCHANGED <<outcome, cur, rq, io, chanq, pollVars, scope, awaiter, awaitable, stack,
                 captured, holder, timed, parkVars, scopeVars>>

(* __scope_join of the innermost scope, when the body of with_scope ends.  *)

Innermost(t) == stack[t][Len(stack[t])]

MustWait(s) == live[s] > 0

JoinParks(t) ==
  /\ Resumed(t, {"body", "finish"}) /\ stack[t] # <<>>
  /\ MustWait(Innermost(t))
  /\ waiter' = [waiter EXCEPT ![Innermost(t)] = t]
  /\ park_to_pump(t, "join")
  /\ UNCHANGED <<outcome, rq, io, chanq, pollVars, scope, awaiter, awaitable, stack, captured,
                 holder, timed, parkVars, live, reason, owner, sstate, outer>>

\* Free the records of the scope's forks, then the scope.
ScopeCloses(t) ==
  LET s == Innermost(t) IN
  /\ sstate' = [sstate EXCEPT ![s] = "freed"]
  /\ stack' = [stack EXCEPT ![t] = SubSeq(@, 1, Len(@) - 1)]
  /\ pc' = [f \in Tasks |-> IF f = t THEN "body"
                            ELSE IF awaitable[f] /\ scope[f] = s THEN "freed" ELSE pc[f]]
  /\ live' = [live EXCEPT ![s] = 0]
  /\ waiter' = [waiter EXCEPT ![s] = None]
  /\ reason' = [reason EXCEPT ![s] = "none"]
  /\ owner' = [owner EXCEPT ![s] = None]
  /\ outer' = [outer EXCEPT ![s] = {}]
  /\ UNCHANGED <<outcome, cur, rq, io, chanq, pollVars, scope, awaiter, awaitable, captured,
                 holder, timed, parkVars>>

JoinAtOnce(t) ==
  /\ Resumed(t, {"body", "finish"}) /\ stack[t] # <<>>
  /\ ~MustWait(Innermost(t))
  /\ ScopeCloses(t)

\* The rest of a parked join does not look at the live count again.
JoinReturns(t) ==
  /\ Resumed(t, {"join"})
  /\ ScopeCloses(t)

-----------------------------------------------------------------------------
(* Suspending in the poller                                                *)

\* A program whose droppable tasks park only outside the scopes they open
\* themselves does not use "nested".
MayPark(t) == Running(t) /\ (scope[t] = None \/ stack[t] = <<>> \/ "nested" \in Uses)

Unowned(t, unowned) ==
  /\ unowned => "unowned" \in Uses
  /\ sockets' = IF unowned THEN sockets \cup {t} ELSE sockets
  /\ hooked' = IF unowned THEN hooked \cup {t} ELSE hooked

\* scheduler_park_on_fd, and scheduler_park_on_unowned_fd if nothing else owns it.
ParkOnFd(t, unowned) ==
  /\ MayPark(t) /\ "fd" \in Uses
  /\ Unowned(t, unowned)
  /\ io' = io \cup {t}
  /\ armed' = armed \cup {<<t, "fd">>}
  /\ park_to_pump(t, "fd")
  /\ UNCHANGED <<outcome, rq, chanq, batch, timerfd, misclosed, scope, awaiter, awaitable, stack,
                 captured, holder, timed, park_timer_id, park_timer_dead, park_woke_by_timer,
                 scopeVars>>

\* sprout_poll_add_timer: a fresh timer i with task t as its token.
ArmTimer(t, i) ==
  /\ timerfd[i] = None /\ \A j \in 1 .. i - 1 : timerfd[j] # None
  /\ timerfd' = [timerfd EXCEPT ![i] = t]
  /\ park_timer_id' = [park_timer_id EXCEPT ![t] = i]
  /\ park_timer_dead' = [park_timer_dead EXCEPT ![t] = FALSE]

NoTimerLeft == \A i \in Timers : timerfd[i] # None

\* scheduler_park_on_fd_timeout and its unowned twin.
ParkOnFdTimeout(t, i, unowned) ==
  /\ MayPark(t) /\ "fdtimer" \in Uses
  /\ ArmTimer(t, i)
  /\ Unowned(t, unowned)
  /\ park_woke_by_timer' = [park_woke_by_timer EXCEPT ![t] = FALSE]
  /\ io' = io \cup {t}
  /\ armed' = armed \cup {<<t, "fd">>, <<t, "timer">>}
  /\ park_to_pump(t, "fdtimer")
  /\ UNCHANGED <<outcome, rq, chanq, batch, misclosed, scope, awaiter, awaitable, stack,
                 captured, holder, timed, scopeVars>>

\* task_sleep.  (The bounded park without a timer left reports a timeout and
\* changes nothing; the sleep cannot.)
Sleep(t, i) ==
  /\ MayPark(t) /\ "sleep" \in Uses
  /\ ArmTimer(t, i)
  /\ io' = io \cup {t}
  /\ armed' = armed \cup {<<t, "timer">>}
  /\ park_to_pump(t, "sleep")
  /\ UNCHANGED <<outcome, rq, chanq, batch, misclosed, scope, awaiter, awaitable, stack, captured,
                 holder, timed, park_woke_by_timer, sockets, hooked, scopeVars>>

SleepFails(t) ==
  /\ MayPark(t) /\ "sleep" \in Uses
  /\ NoTimerLeft
  /\ sprout_fail("no timer")

\* The resumed caller of an unowned park closes the socket and frees its memory.
Released(t) == sockets' = sockets \ {t} /\ hooked' = hooked \ {t}

ParkReturns(t) ==
  /\ Resumed(t, {"fd", "sleep"})
  /\ pc' = [pc EXCEPT ![t] = "body"]
  /\ Released(t)
  /\ UNCHANGED <<outcome, cur, rq, io, chanq, pollVars, scope, awaiter, awaitable, stack, captured,
                 holder, timed, park_timer_id, park_timer_dead, park_woke_by_timer, scopeVars>>

\* Mutant: the loser's timer is torn down whoever won.
LosersTimer_Always(t) == {t}

LosersTimer(t) == IF park_timer_dead[t] THEN {} ELSE {t}

\* The rest of a bounded park: retire the registration that lost.
FdTimeoutReturns(t) ==
  /\ Resumed(t, {"fdtimer"})
  /\ sprout_poll_remove_timer(LosersTimer(t))
  /\ armed' = armed \ (FdEvents({t}) \cup TimerEvents(LosersTimer(t)))
  /\ pc' = [pc EXCEPT ![t] = "body"]
  /\ park_woke_by_timer' = [park_woke_by_timer EXCEPT ![t] = FALSE]
  /\ Released(t)
  /\ UNCHANGED <<outcome, cur, rq, io, chanq, batch, scope, awaiter, awaitable, stack, captured,
                 holder, timed, park_timer_id, scopeVars>>

(* Parking in a channel call and being woken by another task's call, as    *)
(* far as the scheduler sees it: chan_wake clears park_kind and pushes.    *)

ParkOnChan(t) ==
  /\ MayPark(t) /\ "chan" \in Uses
  /\ chanq' = chanq \cup {t}
  /\ park_to_pump(t, "chan")
  /\ UNCHANGED <<outcome, rq, io, pollVars, scope, awaiter, awaitable, stack, captured, holder,
                 timed, parkVars, scopeVars>>

chan_wake(t, w) ==
  /\ Running(t) /\ w \in chanq
  /\ chanq' = chanq \ {w}
  /\ rq_push(w)
  /\ UNCHANGED <<outcome, cur, io, pollVars, taskVars, parkVars, scopeVars>>

ChanReturns(t) ==
  /\ Resumed(t, {"chan"})
  /\ pc' = [pc EXCEPT ![t] = "body"]
  /\ UNCHANGED <<outcome, cur, rq, io, chanq, pollVars, scope, awaiter, awaitable, stack,
                 captured, holder, timed, parkVars, scopeVars>>

-----------------------------------------------------------------------------
(* Cancel and deadlines                                                    *)

\* force_drop_task refuses a task that someone else awaits, or a deadline owner.
AwaitedBySibling(d) == awaiter[d] # None /\ awaiter[d] # cur

\* Mutant: no guard against dropping a task that a sibling awaits.
Droppable_IgnoresAwaiter(d) == deadline_child(d) = None

Droppable(d) == ~AwaitedBySibling(d) /\ deadline_child(d) = None

\* Mutant: the timer of a dropped sleeper stays armed.
DroppedTimers_Nothing(D) == {}

DroppedTimers(D) == {d \in D \cap io : ParksOnTimer(d) /\ ~park_timer_dead[d]}

DroppedFds(D) == {d \in D : ParksOnFd(d)}

\* Mutant: the socket of a dropped connect is left to nobody.
ClosedOnDrop_Nothing(D) == {}

ClosedOnDrop(D) == D \cap hooked

DropCount(D) == Cardinality(D)

\* force_drop_task for the parked tasks D of scope s.
force_drop(D, s) ==
  /\ sprout_poll_remove_timer(DroppedTimers(D))
  /\ armed' = armed \ (TimerEvents(DroppedTimers(D)) \cup FdEvents(DroppedFds(D)))
  /\ io' = io \ D
  /\ chanq' = chanq \ D
  /\ sockets' = sockets \ ClosedOnDrop(D)
  /\ hooked' = hooked \ D
  /\ live' = [live EXCEPT ![s] = @ - DropCount(D)]

Dropped(d) == IF awaitable[d] THEN "dropped" ELSE "freed"

\* What the walks of __scope_cancel drop (module CancelWalk).
ParkedIn(s) == {d \in io \cup chanq : scope[d] = s}

CancelNotOwner(t, s) ==
  /\ Running(t) /\ "cancel" \in Uses /\ s \in Usable(t) /\ sstate[s] = "open"
  /\ owner[s] # t
  /\ sprout_fail("cancel by another task")

CancelRefused(t, s) ==
  /\ Running(t) /\ "cancel" \in Uses /\ s \in Usable(t) /\ sstate[s] = "open"
  /\ owner[s] = t
  /\ \E d \in ParkedIn(s) : ~Droppable(d)
  /\ sprout_fail("drop refused")

\* __scope_cancel by the owner.
ScopeCancel(t, s) ==
  /\ Running(t) /\ "cancel" \in Uses /\ s \in Usable(t) /\ sstate[s] = "open"
  /\ owner[s] = t
  /\ \A d \in ParkedIn(s) : Droppable(d)
  /\ reason' = [reason EXCEPT ![s] = "cancelled"]
  /\ force_drop(ParkedIn(s), s)
  /\ pc' = [d \in Tasks |-> IF d \in ParkedIn(s) THEN Dropped(d) ELSE pc[d]]
  /\ UNCHANGED <<outcome, cur, rq, batch, scope, awaiter, awaitable, stack, captured, holder,
                 timed, park_timer_id, park_woke_by_timer, waiter, owner, sstate, outer>>

\* with_timeout: open s, fork the body c into it, arm the deadline on the
\* caller and park in __await_deadline.  The body never sees s.
WithTimeout(t, s, c, i) ==
  /\ Running(t) /\ "timeout" \in Uses /\ FreshScope(s) /\ FreshTask(c)
  /\ Opened(t, s)
  /\ task_create(s, c, TRUE, Usable(t))
  /\ ArmTimer(t, i)
  /\ armed' = armed \cup {<<t, "timer">>}
  /\ timed' = [timed EXCEPT ![t] = c]
  /\ io' = io \cup {t}
  /\ awaiter' = [awaiter EXCEPT ![c] = t]
  /\ rq_push(c)
  /\ cur' = None
  /\ pc' = [pc EXCEPT ![t] = "deadline", ![c] = "body"]
  /\ UNCHANGED <<outcome, chanq, batch, misclosed, holder, park_woke_by_timer, sockets, hooked,
                 waiter, reason>>

WithTimeoutFails(t) ==
  /\ Running(t) /\ "timeout" \in Uses
  /\ NoTimerLeft
  /\ sprout_fail("no timer")

(* The rest of __await_deadline classifies the body c.                     *)

InDeadline(t) == Resumed(t, {"deadline", "reclassify"})

\* with_timeout goes on to join its scope.
DeadlineEnds(t) == timed' = [timed EXCEPT ![t] = None]

DeadlineCompleted(t) ==
  LET c == timed[t]
      mine == IF t \in io /\ ~park_timer_dead[t] THEN {t} ELSE {}
  IN
  /\ InDeadline(t) /\ pc[c] = "returned"
  /\ sprout_poll_remove_timer(mine)
  /\ armed' = armed \ TimerEvents(mine)
  /\ io' = io \ {t}
  /\ awaiter' = [awaiter EXCEPT ![c] = None]
  /\ DeadlineEnds(t)
  /\ pc' = [pc EXCEPT ![t] = "finish"]
  /\ UNCHANGED <<outcome, cur, rq, chanq, batch, scope, awaitable, stack, captured, holder,
                 park_timer_id, park_woke_by_timer, sockets, hooked, scopeVars>>

\* The body is parked on I/O, a timer or a channel: drop it.
DeadlineExpired(t) ==
  LET c == timed[t] IN
  /\ InDeadline(t) /\ c \in io \cup chanq
  /\ deadline_child(c) = None
  /\ reason' = [reason EXCEPT ![scope[c]] = "timed out"]
  /\ awaiter' = [awaiter EXCEPT ![c] = None]
  /\ force_drop({c}, scope[c])
  /\ DeadlineEnds(t)
  /\ pc' = [pc EXCEPT ![t] = "finish", ![c] = Dropped(c)]
  /\ UNCHANGED <<outcome, cur, rq, batch, scope, awaitable, stack, captured, holder,
                 park_timer_id, park_woke_by_timer, waiter, owner, sstate, outer>>

\* Mutant: the body is taken to be about to finish and awaited without a bound.
DeadlineRequeues_Awaits(t) ==
  /\ InDeadline(t) /\ timed[t] \in Elems(rq)
  /\ park_to_pump(t, "await")
  /\ UNCHANGED <<outcome, rq, io, chanq, pollVars, scope, awaiter, awaitable, stack, captured,
                 holder, timed, parkVars, scopeVars>>

\* Mutant: the owner stays the body's awaiter while it queues behind it.
DeadlineRequeues_KeepsAwaiter(t) ==
  /\ InDeadline(t) /\ timed[t] \in Elems(rq)
  /\ rq_push(t)
  /\ park_to_pump(t, "reclassify")
  /\ UNCHANGED <<outcome, io, chanq, pollVars, scope, awaiter, awaitable, stack, captured, holder,
                 timed, parkVars, scopeVars>>

\* The body is runnable: queue behind it and classify again.
DeadlineRequeues(t) ==
  /\ InDeadline(t) /\ timed[t] \in Elems(rq)
  /\ awaiter' = [awaiter EXCEPT ![timed[t]] = None]
  /\ rq_push(t)
  /\ park_to_pump(t, "reclassify")
  /\ UNCHANGED <<outcome, io, chanq, pollVars, scope, awaitable, stack, captured, holder, timed,
                 parkVars, scopeVars>>

\* A body blocked in an await, a join or a deadline of its own is refused.
DeadlineRefused(t) ==
  /\ InDeadline(t)
  /\ \/ pc[timed[t]] \in {"await", "join"} /\ timed[t] \notin Elems(rq)
     \/ timed[t] \in io /\ deadline_child(timed[t]) # None
  /\ sprout_fail("deadline refused")

-----------------------------------------------------------------------------

PumpStep ==
  \/ PumpRunsTask
  \/ \E events \in SUBSET armed : sprout_poll_wait(events)
  \/ \E w \in Tasks, kind \in {"fd", "timer"} : PumpHarvests(w, kind)
  \/ PumpDeadlock

TaskStep(t) ==
  \/ \E s \in Scopes : ScopeOpen(t, s)
  \/ \E s \in Scopes, c \in Tasks, a \in BOOLEAN : Spawn(t, s, c, a)
  \/ TaskReturns(t) \/ task_yield(t)
  \/ \E f \in Tasks : AwaitDone(t, f) \/ AwaitParks(t, f) \/ AwaitRefused(t, f)
  \/ AwaitReturns(t) \/ JoinParks(t) \/ JoinAtOnce(t) \/ JoinReturns(t)
  \/ \E u \in BOOLEAN : ParkOnFd(t, u) \/ \E i \in Timers : ParkOnFdTimeout(t, i, u)
  \/ \E i \in Timers : Sleep(t, i)
  \/ SleepFails(t) \/ ParkReturns(t) \/ FdTimeoutReturns(t)
  \/ ParkOnChan(t) \/ ChanReturns(t) \/ \E w \in Tasks : chan_wake(t, w)
  \/ \E s \in Scopes : CancelNotOwner(t, s) \/ CancelRefused(t, s) \/ ScopeCancel(t, s)
  \/ \E s \in Scopes, c \in Tasks, i \in Timers : WithTimeout(t, s, c, i)
  \/ WithTimeoutFails(t)
  \/ DeadlineCompleted(t) \/ DeadlineExpired(t) \/ DeadlineRequeues(t) \/ DeadlineRefused(t)

\* The process has exited or aborted.
Ended == outcome # "running" /\ UNCHANGED vars

Next == PumpStep \/ MainReturns \/ (\E t \in Tasks : TaskStep(t)) \/ Ended

Spec == Init /\ [][Next]_vars

\* The scheduler goes on while it can, and a timer that stays armed is
\* reported by some wait: epoll and kqueue report an expired timer until it
\* is taken.  Nothing is assumed of descriptors.
ReportsTimer(t) == \E events \in SUBSET armed : <<t, "timer">> \in events /\ sprout_poll_wait(events)

FairSpec ==
  /\ Spec
  /\ WF_vars(Next)
  /\ \A t \in Tasks : SF_vars(ReportsTimer(t))

-----------------------------------------------------------------------------
(* Properties                                                              *)

Places == {"unborn", "body", "await", "join", "finish", "deadline", "reclassify", "fd", "fdtimer",
           "sleep", "chan", "returned", "dropped", "freed"}

(* Every variable has its type. *)
TypeOK ==
  /\ cur \in Tasks \cup {None} /\ rq \in Seq(Tasks)
  /\ io \subseteq Tasks /\ chanq \subseteq Tasks
  /\ armed \subseteq Tasks \X {"fd", "timer"} /\ batch \subseteq Tasks \X {"fd", "timer"}
  /\ timerfd \in [Timers -> Tasks \cup {None}]
  /\ pc \in [Tasks -> Places]
  /\ scope \in [Tasks -> Scopes \cup {None}] /\ stack \in [Tasks -> Seq(Scopes)]
  /\ captured \in [Tasks -> SUBSET Scopes]
  /\ \A f \in {awaiter, holder, timed} : f \in [Tasks -> Tasks \cup {None}]
  /\ park_timer_id \in [Tasks -> Timers \cup {None}]
  /\ \A f \in {awaitable, park_timer_dead, park_woke_by_timer} : f \in [Tasks -> BOOLEAN]
  /\ sockets \subseteq Tasks /\ hooked \subseteq Tasks /\ misclosed \in BOOLEAN
  /\ live \in [Scopes -> Nat]
  /\ \A f \in {waiter, owner} : f \in [Scopes -> Tasks \cup {None}]
  /\ reason \in [Scopes -> {"none", "cancelled", "timed out"}]
  /\ sstate \in [Scopes -> {"unborn", "open", "freed"}] /\ outer \in [Scopes -> SUBSET Scopes]

(* The ready queue never holds a task twice, nor one that runs, is parked   *)
(* or is gone: a second rq_push of a deadline owner, of a bounded reader    *)
(* with two events in a batch, or of an awaiter would make the list a cycle.*)
QueueSound ==
  /\ Cardinality(Elems(rq)) = Len(rq)
  /\ \A t \in Elems(rq) : Alive(t) /\ t # cur /\ t \notin io \cup chanq

(* No lost wake-up: a task that is suspended and not runnable is linked     *)
(* where something will wake it.  A poller park has an event to come, a     *)
(* deadline owner both its timer and its body, an awaiter a body that still *)
(* runs, a joiner a scope with live tasks.                                  *)
Wakeable ==
  outcome = "running" => \A t \in Tasks : Alive(t) /\ t # cur /\ t \notin Elems(rq) =>
    \/ pc[t] \in {"fd", "fdtimer", "sleep"} /\ t \in io /\ \E k \in {"fd", "timer"} : <<t, k>> \in armed \cup batch
    \/ pc[t] = "deadline" /\ t \in io /\ <<t, "timer">> \in armed \cup batch /\ awaiter[timed[t]] = t
    \/ pc[t] = "await" /\ \E f \in Tasks : Alive(f) /\ awaiter[f] = t
    \/ pc[t] = "join" /\ \E s \in Scopes : waiter[s] = t /\ live[s] > 0
    \/ pc[t] = "chan" /\ t \in chanq

(* No task outlives its scope (stdlib/task.sprout, with_scope): the scope   *)
(* record an unfinished task points to is not freed under it.               *)
TasksInsideScopes ==
  \A t \in Tasks : Alive(t) /\ scope[t] # None => sstate[scope[t]] = "open"

(* A force-drop orphans nobody: whoever opened the scope of an unfinished   *)
(* task is there to join it.                                                *)
NoOrphans ==
  \A t \in Tasks : Alive(t) /\ scope[t] # None /\ sstate[scope[t]] = "open" =>
    Alive(owner[scope[t]]) /\ scope[t] \in Elems(stack[owner[scope[t]]])

(* No pointer the scheduler or the poller keeps leads to a freed task: the  *)
(* queues, poller tokens, awaiters, joiners and timed bodies.               *)
NoDanglingTask ==
  /\ \A t \in Elems(rq) \cup io \cup chanq \cup {e[1] : e \in armed \cup batch} : Alive(t)
  /\ \A t \in Tasks : Alive(t) /\ awaiter[t] # None => Alive(awaiter[t])
  /\ \A s \in Scopes : sstate[s] = "open" /\ waiter[s] # None => pc[waiter[s]] = "join"
  /\ \A t \in Tasks : timed[t] # None => pc[timed[t]] \notin {"unborn", "dropped", "freed"}

(* A timer is torn down exactly once: every open timer descriptor belongs   *)
(* to an unfinished task that has not torn it down, and no teardown closed  *)
(* a descriptor that had become another timer's.                            *)
TimersSound ==
  /\ ~misclosed
  /\ \A i \in Timers : timerfd[i] # None =>
       Alive(timerfd[i]) /\ park_timer_id[timerfd[i]] = i /\ ~park_timer_dead[timerfd[i]]

(* A task dropped in the middle of a connect or a request leaves no socket  *)
(* and no memory behind, and one that was woken still owns both.            *)
NothingLeaked == \A t \in sockets : Alive(t) /\ (t \in io => t \in hooked)

(* A bounded park reports what happened: ready only if the descriptor was   *)
(* reported, a timeout only if its timer fired.  A call whose timer cannot  *)
(* be armed answers timeout as well, at once: it never parks.               *)
BoundedParkTruthful ==
  \A t \in Tasks : pc[t] = "fdtimer" /\ t \notin io =>
    IF park_woke_by_timer[t] THEN park_timer_dead[t] ELSE <<t, "fd">> \notin armed \cup batch

(* The pump gives up only when a task waits in a channel call, or awaits a  *)
(* task that is not younger than itself, for which a handle must have been  *)
(* given away: awaits of one's own forks, joins, deadlines and poller parks *)
(* alone never block one another.                                           *)
DeadlockHasCause ==
  outcome = "deadlock" =>
    chanq # {} \/ \E f \in Tasks : Alive(f) /\ awaiter[f] # None /\ awaiter[f] >= f

(* The one guarantee of with_timeout: its caller gets an answer, whatever   *)
(* the body parks on next, unless the program ends.                         *)
DeadlineHonoured ==
  \A t \in Tasks : pc[t] = "deadline" ~> (pc[t] \in {"finish", "body"} \/ outcome # "running")

(* A body that stays parked on a descriptor or a sleep past the deadline is *)
(* dropped, whatever the other tasks do (stdlib/task.sprout on with_timeout:*)
(* the overshoot is at most one scheduling step of the body).               *)
ParkedBodyExpires ==
  \A t \in Tasks :
    (pc[t] = "deadline" /\ timed[t] \in io /\ pc[timed[t]] \in {"fd", "fdtimer", "sleep"}) ~>
      (pc[t] # "deadline" \/ timed[t] \notin io \/ outcome # "running")
=============================================================================
