------------------------------- MODULE Poller -------------------------------
(***************************************************************************)
(* src/runtime/sprout_poll.c: the three backends of the readiness poller,   *)
(* driven the way src/runtime/sprout_scheduler.c drives it.  A task opens a *)
(* socket, parks on it (bounded or not), or sleeps; the pump waits when     *)
(* nothing is runnable; a parked task may be force-dropped.  A socket has   *)
(* one waiter and is closed only while nobody waits on it (the linear Conn  *)
(* of stdlib.net).                                                          *)
(*                                                                          *)
(* pollB is what the backend holds.  epoll and kqueue keep a set of entries *)
(* in the kernel, keyed by descriptor (epoll, where a timer is a descriptor *)
(* too) or by identifier and filter (kqueue).  Windows keeps a compact      *)
(* array of sockets and a heap of timers.  An operation of the poller is a  *)
(* function from such a state to the next one, so that the scheduler's      *)
(* functions compose them in the order of the code.                         *)
(***************************************************************************)
EXTENDS FiniteSets, HeapOps

CONSTANTS PollTasks,
          PollFdMax,    \* descriptors are 1..PollFdMax: RLIMIT_NOFILE
          PollDelays,   \* timer delays
          PollLate,     \* bound: how long a due timer stays unreported
          PollWant      \* events of one batch (64)

ASSUME PollAssumption ==
  IsFiniteSet(PollTasks) /\ PollFdMax \in Nat /\ PollDelays \subseteq Nat \ {0} /\ PollWant \in Nat \ {0}

VARIABLES
  pollTask,  \* per task: st, park kind, its socket, interest, park_timer_id (0: dead)
  pollB,     \* the backend: its name, kernel entries, g_fds, g_timers, open descriptors, misuse
  pollTold   \* what the last sprout_poll_wait reported

pollVars == <<pollTask, pollB, pollTold>>

Backends  == {"epoll", "kqueue", "wsapoll"}
Interests == {"read", "write"}
FreeTask  == [st |-> "free", park |-> "none", fd |-> 0, interest |-> "read", tid |-> 0]

PollInit ==
  /\ pollTask = [t \in PollTasks |-> FreeTask]
  /\ pollB \in [name : Backends, kernel : {{}}, fds : {<<>>}, timers : {<<>>}, open : {{}}, misuse : {{}}]
  /\ pollTold = {}

-----------------------------------------------------------------------------
(* The operations: descriptors *)

Without(b, fd, kind) ==
  {e \in b.kernel : e.fd # fd \/ (b.name = "kqueue" /\ e.kind # kind)}
Misused(b, what, bad) == [b EXCEPT !.misuse = @ \cup IF bad THEN {what} ELSE {}]

\* The position of a socket in the array, 0 when it is not there.
fds_find(s, fd) == SelectInSeq(s, LAMBDA x : x.fd = fd)

(* sprout_poll_add: EPOLL_CTL_MOD or ADD, EV_ADD, or the array entry of that *)
(* socket replaced in place.                                                *)
WinAdd(b, e) ==
  LET i == fds_find(b.fds, e.fd)
  IN [b EXCEPT !.fds = IF i = 0 THEN Append(@, e) ELSE [@ EXCEPT ![i] = e]]
sprout_poll_add(b, fd, kind, t) ==
  IF b.name = "wsapoll" THEN WinAdd(b, [fd |-> fd, kind |-> kind, task |-> t])
  ELSE Misused([b EXCEPT !.kernel = Without(b, fd, kind) \cup
                   {[fd |-> fd, kind |-> kind, task |-> t, armed |-> TRUE, left |-> 0]}],
               "add", fd \notin b.open)

(* sprout_poll_remove: what is not registered is ignored, a descriptor that *)
(* is not open aborts the process (EBADF).                                  *)
WinRemove(b, fd) ==
  LET i == fds_find(b.fds, fd)
  IN [b EXCEPT !.fds = IF i = 0 THEN @ ELSE fds_drop(@, i)]
sprout_poll_remove(b, fd, kind) ==
  IF b.name = "wsapoll" THEN WinRemove(b, fd)
  ELSE Misused([b EXCEPT !.kernel = Without(b, fd, kind)], "remove", fd \notin b.open)

(* close(2) on a descriptor: its entries leave the kernel's set. *)
Closed(b, fd) ==
  [b EXCEPT !.open = @ \ {fd},
            !.kernel = {e \in @ : e.fd # fd \/ (b.name = "kqueue" /\ e.kind = "timer")}]

-----------------------------------------------------------------------------
(* The operations: timers *)

LowestFree(S) == CHOOSE n \in 1 .. PollFdMax : n \notin S /\ \A k \in 1 .. n - 1 : k \in S
(* The identifier of a new timer: the descriptor timerfd_create returns, or *)
(* a counter's next value, which no timer or task still knows.              *)
TimerId(b) ==
  IF b.name = "epoll" THEN LowestFree(b.open)
  ELSE CHOOSE n \in 1 .. Cardinality(PollTasks) + 1 : \A t \in PollTasks : pollTask[t].tid # n
CanArm(b) == b.name = "epoll" => b.open # 1 .. PollFdMax

WinAddTimer(b, entry) == [b EXCEPT !.timers = timer_add(@, entry)]
sprout_poll_add_timer(b, ms, t) ==
  LET id == TimerId(b)
      e  == [fd |-> id, kind |-> "timer", task |-> t, armed |-> TRUE, left |-> ms]
  IN IF b.name = "wsapoll"
     THEN WinAddTimer(b, [id |-> id, left |-> ms, task |-> t])
     ELSE [b EXCEPT !.kernel = @ \cup {e}, !.open = IF b.name = "epoll" THEN @ \cup {id} ELSE @]

(* sprout_poll_remove_timer: DEL and close of the timerfd, EV_DELETE, or a   *)
(* search of the heap.  Only epoll can hit something that is not the timer. *)
CloseTimerFd(b, id) == Misused(Closed(b, id), "close", \A e \in b.kernel : e.fd # id \/ e.kind # "timer")
DeleteTimer(b, id) == [b EXCEPT !.kernel = {e \in @ : e.fd # id \/ e.kind # "timer"}]
TimerAt(h, id) == SelectInSeq(h, LAMBDA e : e.id = id)
WinRemoveTimer(b, id) ==
  LET i == TimerAt(b.timers, id)
  IN [b EXCEPT !.timers = IF i = 0 THEN @ ELSE timer_drop(@, i)]
sprout_poll_remove_timer(b, id) ==
  CASE b.name = "epoll"   -> CloseTimerFd(b, id)
    [] b.name = "kqueue"  -> DeleteTimer(b, id)
    [] b.name = "wsapoll" -> WinRemoveTimer(b, id)

-----------------------------------------------------------------------------
(* sprout_poll_wait: one batch, given the sockets that are ready *)

Event(e) == <<e.task, IF e.kind = "timer" THEN "timer" ELSE "fd">>

(* The kernels report up to PollWant of the entries that fired, in any      *)
(* order; one-shot entries are disarmed (epoll) or removed (kqueue).        *)
KernelWait(ready) ==
  LET fired == {e \in pollB.kernel : e.armed /\ IF e.kind = "timer" THEN e.left <= 0 ELSE e.fd \in ready}
  IN \E batch \in SUBSET fired :
       /\ Cardinality(batch) = IF Cardinality(fired) < PollWant THEN Cardinality(fired) ELSE PollWant
       /\ pollTold' = {Event(e) : e \in batch}
       /\ pollB' = [pollB EXCEPT !.kernel = (@ \ batch) \cup
                      IF pollB.name = "epoll" THEN {[e EXCEPT !.armed = FALSE] : e \in batch} ELSE {}]

(* The scan of the array from the front: the positions reported, as long as *)
(* the batch has room.                                                      *)
Hits(s, ready) ==
  {i \in DOMAIN s : s[i].fd \in ready /\ Cardinality({j \in 1 .. i - 1 : s[j].fd \in ready}) < PollWant}

\* Descending, so that a drop never moves a hit that is still to be dropped.
DropTurn(s) == [s EXCEPT !.fds = IF s.at \in s.hits THEN fds_drop(@, s.at) ELSE @, !.at = @ - 1]
DropHits(s, hits) == After(DropTurn, [fds |-> s, at |-> Len(s), hits |-> hits], Len(s)).fds

(* WSAPoll, then the hits, then the due timers from the root of the heap    *)
(* while the batch has room.                                                *)
WinWait(ready) ==
  LET hits == Hits(pollB.fds, ready)
      rest == Harvest(pollB.timers, PollWant - Cardinality(hits))
  IN /\ pollB' = [pollB EXCEPT !.fds = DropHits(@, hits), !.timers = rest]
     /\ pollTold' = {<<pollB.fds[i].task, "fd">> : i \in hits}
                      \cup {<<e.task, "timer">> : e \in Range(pollB.timers) \ Range(rest)}

-----------------------------------------------------------------------------
(* The scheduler's side *)

sprout_poll_wait ==
  /\ \A t \in PollTasks : pollTask[t].st # "woken"
  /\ pollTold = {}
  /\ \E ready \in SUBSET {pollTask[t].fd : t \in {u \in PollTasks : pollTask[u].park \in {"fd", "both"}}} :
       IF pollB.name = "wsapoll" THEN WinWait(ready) ELSE KernelWait(ready)
  /\ pollTold' # {}
  /\ UNCHANGED pollTask

\* The pump tears the harvested timers down, one after another.
RetireTurn(s) ==
  IF s.ids = <<>> THEN s ELSE [ids |-> Tail(s.ids), b |-> sprout_poll_remove_timer(s.b, Head(s.ids))]
RetireFired(b, fired) ==
  LET ids == SetToSeq({pollTask[t].tid : t \in fired})
  IN After(RetireTurn, [ids |-> ids, b |-> b], Len(ids)).b

(* pump_loop: every reported task is woken once, its fired timer torn down. *)
pump_harvest ==
  /\ pollTold # {}
  /\ LET fired == {t \in PollTasks : <<t, "timer">> \in pollTold}
         woken == {ev[1] : ev \in pollTold}
     IN /\ pollB' = RetireFired(pollB, fired)
        /\ pollTask' = [t \in PollTasks |->
             IF t \notin woken THEN pollTask[t]
             ELSE [pollTask[t] EXCEPT !.st = "woken", !.tid = IF t \in fired THEN 0 ELSE @]]
  /\ pollTold' = {}

Running(t, st) == pollTold = {} /\ pollTask[t].st = st /\ UNCHANGED pollTold

socket_open(t) ==
  /\ Running(t, "free") /\ pollTask[t].fd = 0
  /\ pollB.open # 1 .. PollFdMax
  /\ pollTask' = [pollTask EXCEPT ![t].fd = LowestFree(pollB.open)]
  /\ pollB' = [pollB EXCEPT !.open = @ \cup {LowestFree(pollB.open)}]

scheduler_park_on_fd(t) ==
  /\ Running(t, "free") /\ pollTask[t].fd # 0
  /\ \E i \in Interests :
       /\ pollTask' = [pollTask EXCEPT ![t].st = "parked", ![t].park = "fd", ![t].interest = i]
       /\ pollB' = sprout_poll_add(pollB, pollTask[t].fd, i, t)

(* The timer first: if it cannot be armed the park reports a timeout.       *)
(* Without a socket this is task_sleep, which fails loudly instead.         *)
scheduler_park_on_fd_timeout(t) ==
  /\ Running(t, "free") /\ CanArm(pollB)
  /\ \E i \in Interests, ms \in PollDelays :
       LET armed == sprout_poll_add_timer(pollB, ms, t)
           bound == [pollTask[t] EXCEPT !.st = "parked", !.tid = TimerId(pollB), !.interest = i]
       IN IF pollTask[t].fd = 0
          THEN /\ i = "read"
               /\ pollTask' = [pollTask EXCEPT ![t] = [bound EXCEPT !.park = "timer"]]
               /\ pollB' = armed
          ELSE /\ pollTask' = [pollTask EXCEPT ![t] = [bound EXCEPT !.park = "both"]]
               /\ pollB' = sprout_poll_add(armed, pollTask[t].fd, i, t)

\* The timer of the park, unless it is dead.
RetireTimer(b, t) == IF pollTask[t].tid = 0 THEN b ELSE sprout_poll_remove_timer(b, pollTask[t].tid)

\* Mutant: the loser's descriptor registration stays.
Resumed_KeepsFd(t) == RetireTimer(pollB, t)
\* A bounded park retires the loser, whichever it is.
Resumed(t) == RetireTimer(IF pollTask[t].park = "both"
                          THEN sprout_poll_remove(pollB, pollTask[t].fd, pollTask[t].interest) ELSE pollB, t)
resume(t) ==
  /\ Running(t, "woken")
  /\ pollB' = Resumed(t)
  /\ pollTask' = [pollTask EXCEPT ![t] = [FreeTask EXCEPT !.fd = pollTask[t].fd]]

\* Mutant: the socket is closed before its registration is removed.
Dropped_CloseFirst(t, unowned) ==
  LET b == IF unowned THEN Closed(pollB, pollTask[t].fd) ELSE pollB
      c == RetireTimer(b, t)
  IN IF pollTask[t].park = "timer" THEN c ELSE sprout_poll_remove(c, pollTask[t].fd, pollTask[t].interest)
(* force_drop_task: the timer, the descriptor, and last the close of a      *)
(* socket only the dropped frame knew.                                      *)
Dropped(t, unowned) ==
  LET b == RetireTimer(pollB, t)
      c == IF pollTask[t].park = "timer" THEN b
           ELSE sprout_poll_remove(b, pollTask[t].fd, pollTask[t].interest)
  IN IF unowned THEN Closed(c, pollTask[t].fd) ELSE c
force_drop_task(t) ==
  /\ Running(t, "parked")
  /\ \E unowned \in BOOLEAN :
       /\ unowned => pollTask[t].park # "timer"
       /\ pollB' = Dropped(t, unowned)
       /\ pollTask' = [pollTask EXCEPT ![t] = [FreeTask EXCEPT !.fd = IF unowned THEN 0 ELSE pollTask[t].fd]]

socket_close(t) ==
  /\ Running(t, "free") /\ pollTask[t].fd # 0
  /\ pollTask' = [pollTask EXCEPT ![t].fd = 0]
  /\ pollB' = Closed(pollB, pollTask[t].fd)

Pass(e) == [e EXCEPT !.left = @ - 1]
Tick ==
  /\ pollTold = {}
  /\ \A e \in pollB.kernel : e.kind = "timer" => e.left > -PollLate
  /\ \A e \in Range(pollB.timers) : e.left > -PollLate
  /\ pollB' = [pollB EXCEPT
       !.kernel = {IF e.kind = "timer" /\ e.armed THEN Pass(e) ELSE e : e \in @},
       !.timers = [i \in DOMAIN @ |-> Pass(@[i])]]
  /\ pollB' # pollB
  /\ UNCHANGED <<pollTask, pollTold>>

PollTaskStep(t) ==
  \/ socket_open(t) \/ scheduler_park_on_fd(t) \/ scheduler_park_on_fd_timeout(t)
  \/ resume(t) \/ force_drop_task(t) \/ socket_close(t)
PollNext == sprout_poll_wait \/ pump_harvest \/ Tick \/ \E t \in PollTasks : PollTaskStep(t)
PollSpec == PollInit /\ [][PollNext]_pollVars

-----------------------------------------------------------------------------
(* Properties *)

\* What is armed in a backend, and what each task waits for by that.
Watches(b) == IF b.name = "wsapoll" THEN Range(b.fds)
              ELSE {e \in b.kernel : e.armed /\ e.kind # "timer"}
Alarms(b) == IF b.name = "wsapoll" THEN Range(b.timers)
             ELSE {e \in b.kernel : e.armed /\ e.kind = "timer"}
WatchMap(b) == [t \in PollTasks |->
  LET mine == {e \in Watches(b) : e.task = t}
  IN IF mine = {} THEN [fd |-> 0, kind |-> "none"]
     ELSE LET e == CHOOSE e \in mine : TRUE IN [fd |-> e.fd, kind |-> e.kind]]
AlarmMap(b) == [t \in PollTasks |->
  LET mine == {e \in Alarms(b) : e.task = t}
  IN IF mine = {} THEN <<>> ELSE <<(CHOOSE e \in mine : TRUE).left>>]

Contract == INSTANCE Readiness WITH
  Tasks <- PollTasks, Fds <- 1 .. PollFdMax, Kinds <- Interests, Delays <- PollDelays, Want <- PollWant,
  watch <- WatchMap(pollB), alarm <- AlarmMap(pollB), told <- pollTold

(* Every backend implements the contract the scheduler relies on: a batch   *)
(* consumes exactly the waits it reports, a due timer is left out only of a *)
(* full batch, registering or withdrawing a task's waits touches nobody     *)
(* else's, and what is withdrawn is never reported.                         *)
PollImplements == Contract!Spec

(* The poller is never asked to do what it aborts on, or what would close a *)
(* descriptor that is not the timer's: no add or remove on a closed         *)
(* descriptor, no timerfd torn down twice.                                  *)
PollNeverMisused == pollB.misuse = {}
=============================================================================
