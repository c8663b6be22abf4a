------------------------------ MODULE TcpServer ------------------------------
(***************************************************************************)
(* The tcp_* builtins of src/runtime/sprout_runtime.c as a server uses      *)
(* them: one task accepts in a loop and spawns a handler per connection,    *)
(* and each handler makes one transfer and closes.  All of them share one   *)
(* OS thread under the pump, which runs the ready queue to its end before   *)
(* it polls; clients connect, stop reading and vanish at any moment, and    *)
(* descriptors used by the rest of the process come and go.                 *)
(***************************************************************************)
EXTENDS Integers, Sequences, FiniteSets, SequencesExt

CONSTANTS TcpTable,      \* handles of the connection table (1..2047)
          FdLimit,       \* descriptors the process may have open
          MaxOthers,     \* bound: descriptors the rest of the process has open
          MaxBacklog,    \* bound: connections queued in the kernel
          AcceptStreak,  \* ACCEPT_FAIR_STREAK
          ShedMax,       \* ACCEPT_SHED_MAX_PER_CALL
          SendUnits      \* bound: length of a response

ASSUME TcpAssumption == /\ TcpTable \subseteq Nat \ {0} /\ IsFiniteSet(TcpTable)
                        /\ {FdLimit, MaxOthers, MaxBacklog, AcceptStreak, ShedMax, SendUnits} \subseteq Nat
                        /\ FdLimit >= 2 /\ ShedMax > 0 /\ AcceptStreak > 0

VARIABLES
  tcpCpu,      \* Pump, Acceptor or the handle whose handler runs
  tcpReady,    \* the ready queue
  tcpAcc,      \* the accepting task: pc, streak, shed iterations, an accepted fd without a handle
  tcpConn,     \* per handle: used, and its handler: where it is, its operation, units left,
               \* deadline passed (due), a park ended on it (expired), a timerfd armed; history
               \* since the peer last took bytes: a whole idle period has gone by (idle), no
               \* timer could be armed (unarmed)
  tcpFds,      \* what the kernel has open (a count) and who holds it: the reserve, the others
  tcpBacklog,  \* connections queued on the listener
  tcpRun       \* history: connections accepted since the poller was last consulted

tcpVars == <<tcpCpu, tcpReady, tcpAcc, tcpConn, tcpFds, tcpBacklog, tcpRun>>

\* Handles are positive, so the other users of the thread are not.
Acceptor == 0
Pump == -1
NoHandler == [used |-> FALSE, at |-> "none", op |-> "none", left |-> 0, due |-> FALSE, expired |-> FALSE,
              timer |-> FALSE, idle |-> FALSE, unarmed |-> FALSE, verdict |-> "none"]

(* tcp_listen opened the socket and armed the reserve, while it could. *)
TcpInit ==
  /\ tcpCpu = Acceptor /\ tcpReady = <<>>
  /\ tcpAcc = [pc |-> "call", streak |-> 0, shed |-> 0, held |-> FALSE]
  /\ tcpConn = [h \in TcpTable |-> NoHandler]
  /\ tcpFds \in {[open |-> 2, reserve |-> TRUE, others |-> 0], [open |-> 1, reserve |-> FALSE, others |-> 0]}
  /\ tcpBacklog = 0 /\ tcpRun = 0

-----------------------------------------------------------------------------
(* tcp_accept *)

AccUnchanged == UNCHANGED <<tcpCpu, tcpReady, tcpConn, tcpRun>>
(* accept_park: the streak restarts and the CPU goes to the pump. *)
accept_park == /\ tcpAcc' = [tcpAcc EXCEPT !.pc = "parked", !.streak = 0, !.shed = 0, !.held = FALSE]
               /\ tcpCpu' = Pump
               /\ UNCHANGED <<tcpReady, tcpConn, tcpRun>>

\* Mutant: the streak is never looked at.
accept_call_Unfair ==
  /\ tcpCpu = Acceptor /\ tcpAcc.pc = "call"
  /\ tcpAcc' = [tcpAcc EXCEPT !.pc = "accept"] /\ AccUnchanged
  /\ UNCHANGED <<tcpFds, tcpBacklog>>
(* A call of tcp_accept: after a streak it parks before it accepts. *)
accept_call ==
  /\ tcpCpu = Acceptor /\ tcpAcc.pc = "call"
  /\ IF tcpAcc.streak >= AcceptStreak THEN accept_park
     ELSE tcpAcc' = [tcpAcc EXCEPT !.pc = "accept"] /\ AccUnchanged
  /\ UNCHANGED <<tcpFds, tcpBacklog>>

Accepting == tcpCpu = Acceptor /\ tcpAcc.pc = "accept"

(* EAGAIN parks. *)
accept_empty ==
  /\ Accepting /\ tcpBacklog = 0
  /\ accept_park /\ UNCHANGED <<tcpFds, tcpBacklog>>
(* EINTR takes nothing; the other retryable errnos take the connection they *)
(* are about.  (accept allocates its descriptor first.)                     *)
accept_retry ==
  /\ Accepting /\ tcpFds.open < FdLimit
  /\ tcpBacklog' \in {tcpBacklog} \cup (IF tcpBacklog > 0 THEN {tcpBacklog - 1} ELSE {})
  /\ UNCHANGED <<tcpAcc, tcpFds>> /\ AccUnchanged
(* Any other errno: TcpAcceptFailed.  The caller closes the listener, and   *)
(* with it the queue; stdlib.http_server then panics, while the handlers of *)
(* another program go on.                                                   *)
accept_fails ==
  /\ Accepting
  /\ tcpAcc' = [tcpAcc EXCEPT !.pc = "ended"] /\ tcpCpu' = Pump
  /\ tcpFds' = [tcpFds EXCEPT !.open = @ - 1]
  /\ tcpBacklog' = 0
  /\ UNCHANGED <<tcpReady, tcpConn, tcpRun>>
(* A connection: the kernel opens its descriptor, the frame alone holds it. *)
accept_takes ==
  /\ Accepting /\ tcpBacklog > 0 /\ tcpFds.open < FdLimit
  /\ tcpBacklog' = tcpBacklog - 1
  /\ tcpFds' = [tcpFds EXCEPT !.open = @ + 1]
  /\ tcpAcc' = [tcpAcc EXCEPT !.pc = "install", !.held = TRUE] /\ AccUnchanged

Unused == {h \in TcpTable : ~tcpConn[h].used}
\* Mutant: the connection the table has no room for is not closed.
accept_table_full_Leaks ==
  /\ tcpAcc.pc = "install" /\ Unused = {}
  /\ accept_park /\ UNCHANGED <<tcpFds, tcpBacklog>>
(* The table is full: the connection is closed and the task parks. *)
accept_table_full ==
  /\ tcpAcc.pc = "install" /\ Unused = {}
  /\ tcpFds' = [tcpFds EXCEPT !.open = @ - 1]
  /\ accept_park /\ UNCHANGED tcpBacklog
(* It gets the lowest free handle; the caller spawns its handler and calls  *)
(* again without parking.                                                   *)
accept_installs ==
  /\ tcpAcc.pc = "install" /\ Unused # {}
  /\ LET h == CHOOSE x \in Unused : \A y \in Unused : x <= y
     IN /\ \E op \in {"send", "send_idle", "read_exact", "wait"} :
             tcpConn' = [tcpConn EXCEPT ![h] = [NoHandler EXCEPT !.used = TRUE, !.at = "ready", !.op = op,
                           !.left = IF op \in {"send", "send_idle"} THEN SendUnits ELSE 0]]
        /\ tcpReady' = Append(tcpReady, h)
  /\ tcpAcc' = [tcpAcc EXCEPT !.pc = "call", !.streak = @ + 1, !.held = FALSE]
  /\ tcpRun' = tcpRun + 1
  /\ UNCHANGED <<tcpCpu, tcpFds, tcpBacklog>>

(* EMFILE does not take the connection.  With the reserve unarmed the task  *)
(* just parks; else the reserve's slot is spent on shedding the backlog, ...*)
accept_exhausted ==
  /\ Accepting /\ tcpBacklog > 0 /\ tcpFds.open >= FdLimit
  /\ IF tcpFds.reserve
     THEN /\ tcpFds' = [tcpFds EXCEPT !.open = @ - 1, !.reserve = FALSE]
          /\ tcpAcc' = [tcpAcc EXCEPT !.pc = "shed"] /\ AccUnchanged
     ELSE accept_park /\ UNCHANGED tcpFds
  /\ UNCHANGED tcpBacklog
\* Mutant: the iterations are not counted.
shed_one_Unbounded ==
  /\ tcpAcc.pc = "shed" /\ tcpFds.open < FdLimit
  /\ tcpBacklog > 0 /\ tcpBacklog' \in {tcpBacklog - 1, tcpBacklog}
  /\ UNCHANGED <<tcpAcc, tcpFds>> /\ AccUnchanged
(* ... one iteration: accepted and closed, or a retryable errno, ... *)
shed_one ==
  /\ tcpAcc.pc = "shed" /\ tcpAcc.shed < ShedMax /\ tcpFds.open < FdLimit
  /\ tcpBacklog > 0 /\ tcpBacklog' \in {tcpBacklog - 1, tcpBacklog}
  /\ tcpAcc' = [tcpAcc EXCEPT !.shed = @ + 1]
  /\ UNCHANGED tcpFds /\ AccUnchanged
(* ... until the queue is empty, the iterations are used up or the slot was *)
(* taken by another thread; the reserve is opened again if there is room.   *)
shed_end ==
  /\ tcpAcc.pc = "shed"
  /\ tcpAcc.shed = ShedMax \/ tcpFds.open >= FdLimit \/ tcpBacklog = 0
  /\ tcpFds' = IF tcpFds.open < FdLimit THEN [tcpFds EXCEPT !.open = @ + 1, !.reserve = TRUE] ELSE tcpFds
  /\ accept_park /\ UNCHANGED tcpBacklog

-----------------------------------------------------------------------------
(* Handlers *)

Runs(h, op) == tcpCpu = h /\ tcpConn[h].at = "run" /\ tcpConn[h].op \in op
Handler(h, r) == /\ tcpConn' = [tcpConn EXCEPT ![h] = r]
                 /\ UNCHANGED <<tcpReady, tcpAcc, tcpFds, tcpBacklog, tcpRun>>
ParkHandler(h, r) == Handler(h, [r EXCEPT !.at = "parked"]) /\ tcpCpu' = Pump
(* scheduler_park_on_fd_timeout.  On Linux a bounded park takes a timerfd;  *)
(* when none is left it says at once that the time is up.                   *)
ParkBounded(h, r) ==
  IF tcpFds.open < FdLimit
  THEN /\ tcpConn' = [tcpConn EXCEPT ![h] = [r EXCEPT !.at = "parked", !.timer = TRUE]]
       /\ tcpFds' = [tcpFds EXCEPT !.open = @ + 1]
       /\ tcpCpu' = Pump
       /\ UNCHANGED <<tcpReady, tcpAcc, tcpBacklog, tcpRun>>
  ELSE Handler(h, [r EXCEPT !.expired = TRUE, !.unarmed = TRUE]) /\ UNCHANGED tcpCpu
ToClose(h, r) == Handler(h, [r EXCEPT !.at = "close"]) /\ UNCHANGED tcpCpu

\* Mutant: progress does not re-arm the idle bound.
Rearmed_Not(r) == r
(* Bytes were taken: the idle bound starts again. *)
Rearmed(r) == [r EXCEPT !.expired = FALSE, !.due = FALSE]

(* One send of tcp_send_all.  A timeout is answered only after a refused    *)
(* send; "send" waits for ever, "send_idle" up to its idle bound.           *)
tcp_send_all(h) ==
  /\ Runs(h, {"send", "send_idle"})
  /\ LET r == tcpConn[h]
     IN \/ r.left = 0 /\ ToClose(h, r)
        \/ r.left > 0 /\ Handler(h, [Rearmed(r) EXCEPT !.left = @ - 1, !.idle = FALSE, !.unarmed = FALSE])
           /\ UNCHANGED tcpCpu
        \/ r.left > 0 /\ ToClose(h, r)                          \* an error
        \/ r.left > 0 /\ \* refused
             CASE r.op = "send" -> ParkHandler(h, r)
               [] r.op # "send" /\ (r.expired \/ r.due) -> ToClose(h, [r EXCEPT !.verdict = "timeout"])
               [] OTHER -> ParkBounded(h, r)

(* tcp_read_exact: a byte, end of stream or an error ends it; else it parks *)
(* without a bound.                                                         *)
tcp_read_exact(h) ==
  /\ Runs(h, {"read_exact"})
  /\ \/ ToClose(h, tcpConn[h])
     \/ ParkHandler(h, tcpConn[h])
(* tcp_wait: one bounded park; the non-parking tcp_read_some and            *)
(* tcp_write_some around it do not touch this state.                        *)
tcp_wait(h) ==
  /\ Runs(h, {"wait"})
  /\ \/ tcpConn[h].left = 0 /\ ParkBounded(h, [tcpConn[h] EXCEPT !.left = 1])
     \/ ToClose(h, tcpConn[h])

(* tcp_close, and the handler's task ends. *)
tcp_close(h) ==
  /\ tcpCpu = h /\ tcpConn[h].at = "close"
  /\ tcpConn' = [tcpConn EXCEPT ![h] = NoHandler]
  /\ tcpFds' = [tcpFds EXCEPT !.open = @ - 1]
  /\ tcpCpu' = Pump
  /\ UNCHANGED <<tcpReady, tcpAcc, tcpBacklog, tcpRun>>

-----------------------------------------------------------------------------
(* The pump: the ready queue first, the poller only when it is empty *)

(* A bounded park that resumes retires the timer that did not fire. *)
pump_runs ==
  /\ tcpCpu = Pump /\ tcpReady # <<>>
  /\ tcpCpu' = Head(tcpReady) /\ tcpReady' = Tail(tcpReady)
  /\ IF Head(tcpReady) = Acceptor
     THEN tcpAcc' = [tcpAcc EXCEPT !.pc = "accept"] /\ UNCHANGED <<tcpConn, tcpFds>>
     ELSE /\ tcpConn' = [tcpConn EXCEPT ![Head(tcpReady)].at = "run", ![Head(tcpReady)].timer = FALSE]
          /\ tcpFds' = IF tcpConn[Head(tcpReady)].timer THEN [tcpFds EXCEPT !.open = @ - 1] ELSE tcpFds
          /\ UNCHANGED tcpAcc
  /\ UNCHANGED <<tcpBacklog, tcpRun>>

ParkedHandlers == {h \in TcpTable : tcpConn[h].at = "parked"}
Bounded(h) == tcpConn[h].op \in {"send_idle", "wait"}
(* One poll: a listener with a queue is readable, a timer that has run out  *)
(* fires and is closed, and peers make some of the parked connections ready *)
(* (before their timer, if that fires too).  Events come in any order.      *)
pump_polls ==
  /\ tcpCpu = Pump /\ tcpReady = <<>>
  /\ \E peers \in SUBSET ParkedHandlers :
       LET fired == {h \in ParkedHandlers : Bounded(h) /\ tcpConn[h].due}
           woken == peers \cup fired
                    \cup IF tcpAcc.pc = "parked" /\ tcpBacklog > 0 THEN {Acceptor} ELSE {}
       IN /\ woken # {}
          /\ tcpReady' \in SetToSeqs(woken)
          /\ tcpConn' = [h \in TcpTable |-> IF h \in woken
                           THEN [tcpConn[h] EXCEPT !.at = "ready", !.expired = h \in fired \ peers,
                                                   !.timer = IF h \in fired THEN FALSE ELSE @]
                           ELSE tcpConn[h]]
          /\ tcpFds' = [tcpFds EXCEPT !.open = @ - Cardinality(fired)]
          /\ tcpAcc' = IF Acceptor \in woken THEN [tcpAcc EXCEPT !.pc = "woken"] ELSE tcpAcc
  /\ tcpRun' = 0
  /\ UNCHANGED <<tcpCpu, tcpBacklog>>

-----------------------------------------------------------------------------
(* The outside *)

ClientConnects == /\ tcpBacklog < MaxBacklog /\ tcpAcc.pc # "ended" /\ tcpBacklog' = tcpBacklog + 1
                  /\ UNCHANGED <<tcpCpu, tcpReady, tcpAcc, tcpConn, tcpFds, tcpRun>>
(* Other threads (a resolver) and other parts of the program. *)
OthersOpen  == /\ tcpFds.others < MaxOthers /\ tcpFds.open < FdLimit
               /\ tcpFds' = [tcpFds EXCEPT !.others = @ + 1, !.open = @ + 1]
               /\ UNCHANGED <<tcpCpu, tcpReady, tcpAcc, tcpConn, tcpBacklog, tcpRun>>
OthersClose == /\ tcpFds.others > 0
               /\ tcpFds' = [tcpFds EXCEPT !.others = @ - 1, !.open = @ - 1]
               /\ UNCHANGED <<tcpCpu, tcpReady, tcpAcc, tcpConn, tcpBacklog, tcpRun>>
(* The idle bound of a handler passes without progress. *)
IdlePasses(h) == /\ tcpConn[h].used /\ Bounded(h) /\ ~(tcpConn[h].idle /\ tcpConn[h].due) /\ tcpConn[h].at # "close"
                 /\ tcpConn' = [tcpConn EXCEPT ![h].idle = TRUE, ![h].due = TRUE]
                 /\ UNCHANGED <<tcpCpu, tcpReady, tcpAcc, tcpFds, tcpBacklog, tcpRun>>

-----------------------------------------------------------------------------
AcceptDecides == accept_empty \/ accept_takes \/ accept_exhausted
ThreadStep ==
  \/ accept_call \/ AcceptDecides \/ accept_table_full \/ accept_installs \/ shed_one \/ shed_end
  \/ pump_runs \/ pump_polls
  \/ \E h \in TcpTable : tcp_send_all(h) \/ tcp_read_exact(h) \/ tcp_wait(h) \/ tcp_close(h)
TcpNext == \/ ThreadStep \/ accept_retry \/ accept_fails \/ ClientConnects \/ OthersOpen \/ OthersClose
           \/ \E h \in TcpTable : IdlePasses(h)

TcpSpec == TcpInit /\ [][TcpNext]_tcpVars

(* The thread runs; accept does not answer with retryable errnos for ever;  *)
(* time passes.                                                             *)
TcpFairness == /\ WF_tcpVars(ThreadStep) /\ WF_tcpVars(AcceptDecides)
               /\ \A h \in TcpTable : WF_tcpVars(IdlePasses(h))

-----------------------------------------------------------------------------
(* Properties *)

(* Every descriptor the process has open has an owner: the listener, the    *)
(* reserve, a handle of the table, the timer of a bounded park, the rest of *)
(* the process, or the frame of tcp_accept, which never parks while it      *)
(* holds one.                                                               *)
TcpAccounted ==
  /\ tcpFds.open = (IF tcpAcc.pc = "ended" THEN 0 ELSE 1) + tcpFds.others
                     + Cardinality({h \in TcpTable : tcpConn[h].used})
                     + Cardinality({h \in TcpTable : tcpConn[h].timer})
                     + (IF tcpFds.reserve THEN 1 ELSE 0) + (IF tcpAcc.held THEN 1 ELSE 0)
  /\ tcpFds.open <= FdLimit
  /\ tcpAcc.pc \in {"parked", "woken"} => ~tcpAcc.held

(* tcp_send_all answers a timeout only to a peer that, since it last took   *)
(* bytes, has taken nothing for a whole idle period, or for which no timer  *)
(* could be armed since then because the descriptors had run out.           *)
TcpTimeoutTruthful == \A h \in TcpTable :
  tcpConn[h].verdict = "timeout" => tcpConn[h].idle \/ tcpConn[h].unarmed

(* An accept loop yields: between two visits to the poller it accepts no    *)
(* more than a streak of connections, however many are queued.              *)
TcpAcceptYields == tcpRun <= AcceptStreak

(* A handler whose transfer is bounded gets the CPU and gives its handle    *)
(* back, however many clients keep connecting, whatever its peer does and   *)
(* whether or not descriptors run out.                                      *)
TcpHandlerEnds == \A h \in TcpTable :
  (tcpConn[h].used /\ Bounded(h)) ~> ~(tcpConn[h].used /\ Bounded(h))
=============================================================================
