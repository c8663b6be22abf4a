------------------------------ MODULE ProcRun ------------------------------
(***************************************************************************)
(* One call of proc_run_raw (src/runtime/sprout_runtime.c): the task forks  *)
(* a child and parks on a completion pipe while a detached helper thread    *)
(* drains the child's output, feeds its stdin, enforces the output cap and  *)
(* reaps it.  Task, helper, child and the child's descendants interleave;   *)
(* the park may end on the deadline or be dropped by a cancel at any moment.*)
(*                                                                          *)
(* Bytes are counted, not stored.  Descriptors and heap blocks form one     *)
(* ledger: releasing what is not live (a descriptor closed twice, a block   *)
(* freed twice) is recorded in procLedger.wrong.  waitpid of our own child  *)
(* does not fail (it does only under an ignored SIGCHLD).                   *)
(***************************************************************************)
EXTENDS Naturals, FiniteSets

CONSTANTS ProcCap,      \* max_output_bytes, in units the child writes
          ProcMaxWrite  \* bound: units written by the child and its descendants

ASSUME ProcAssumption == ProcCap \in Nat /\ ProcMaxWrite \in Nat

VARIABLES
  procTask,    \* the frame of proc_run_raw: pc, args, the ends ProcPipes still names, result
  procReq,     \* the ProcRequest: fields still set, refcount, exited, flags, and the helper's pc and locals;
               \* history: the streams whose read failed (broken)
  procWorld,   \* the child, how it ended, who holds each stream's write end, units written
  procLedger   \* live: what the runtime holds; wrong: what was released while not live

procVars == <<procTask, procReq, procWorld, procLedger>>

ProcStreams == {"out", "err"}
ReadEnd(s) == IF s = "out" THEN "outR" ELSE "errR"
\* The pipes in the order they are created; the third only when stdin is given.
PipeEnds == <<{"outR", "outW"}, {"errR", "errW"}, {"inR", "inW"},
              {"execR", "execW"}, {"doneR", "doneW"}, {"stopR", "stopW"}>>
ChildEnds   == {"outW", "errW", "inR", "execW"}
RequestEnds == {"outR", "errR", "inW", "doneR", "doneW", "stopR", "stopW"}
ProcArgs    == [stdin : {"none", "empty", "data"}, timeout : BOOLEAN, group : BOOLEAN]

ProcInit ==
  /\ procTask \in [pc : {"idle"}, args : ProcArgs, arr : {{}}, result : {"none"}]
  /\ procReq = [helper |-> "none", ends |-> {}, refs |-> 0, exited |-> FALSE, flags |-> {},
                ready |-> {}, read |-> [s \in ProcStreams |-> 0], kept |-> [s \in ProcStreams |-> 0],
                broken |-> {}]
  /\ procWorld = [child |-> "none", status |-> "exit", strike |-> FALSE,
                  holds |-> [s \in ProcStreams |-> {}], wrote |-> [s \in ProcStreams |-> 0]]
  /\ procLedger = [live |-> {}, wrong |-> {}]

-----------------------------------------------------------------------------
(* The ledger, the reference count and the kill protocol *)

Released(S) == [live |-> procLedger.live \ S, wrong |-> procLedger.wrong \cup (S \ procLedger.live)]
\* proc_close_fd closes a field that is set and clears it: idempotent.
CloseFields(S) == procLedger' = Released(S \cap procReq.ends)

RequestBlocks == {"req"} \cup (procLedger.live \cap {"stdin"})
(* proc_request_decref, by a side that has closed the descriptors in S: the *)
(* last reference frees the blocks and closes no descriptor.                *)
DecrefLedger(S) == Released(S \cup IF procReq.refs = 1 THEN RequestBlocks ELSE {})

(* SIGKILL to the child and, with new_group, to what stays in its group.    *)
Killed == [procWorld EXCEPT
             !.strike = @ \/ procWorld.child = "reaped",
             !.child  = IF @ = "reaped" THEN @ ELSE "zombie",
             !.status = IF procWorld.child \in {"forked", "running"} THEN "signal" ELSE @,
             !.holds  = [s \in ProcStreams |->
                           @[s] \ ({"child"} \cup IF procTask.args.group THEN {"kin"} ELSE {})]]

\* Mutant: the signal is sent without looking at `exited`.
proc_kill_Unchecked == Killed
(* proc_kill, one critical section of the request's lock. *)
proc_kill == IF procReq.exited THEN procWorld ELSE Killed

-----------------------------------------------------------------------------
(* The task: proc_run_raw *)

\* The search of PATH, done in the parent.
proc_resolve_path == {"found", "none"}

(* argv, the resolved path and the stdin copy; a failure frees what it has. *)
proc_prepare ==
  /\ procTask.pc = "idle"
  /\ \E path \in proc_resolve_path, memory \in BOOLEAN :
       IF path = "found" /\ memory
       THEN /\ procLedger' = [procLedger EXCEPT !.live =
                 {"argv", "path"} \cup (IF procTask.args.stdin = "data" THEN {"stdin"} ELSE {})]
            /\ procTask' = [procTask EXCEPT !.pc = "pipes"]
       ELSE /\ procTask' = [procTask EXCEPT !.pc = "ended", !.result = "not_started"]
            /\ UNCHANGED procLedger
  /\ UNCHANGED <<procReq, procWorld>>

(* The pipes, created in order until one fails. *)
proc_pipes ==
  /\ procTask.pc = "pipes"
  /\ \E upto \in 0..6 :
       LET wanted == {i \in 1..upto : i # 3 \/ procTask.args.stdin # "none"}
           made   == UNION {PipeEnds[i] : i \in wanted}
       IN /\ procTask' = [procTask EXCEPT !.arr = made, !.pc = IF upto = 6 THEN "fork" ELSE "abort"]
          /\ procLedger' = [procLedger EXCEPT !.live =
               (@ \cup made) \ IF upto = 6 THEN {} ELSE {"argv", "path"}]
  /\ UNCHANGED <<procReq, procWorld>>

(* fork; the parent frees argv and path and closes the child's ends. *)
proc_fork ==
  /\ procTask.pc = "fork"
  /\ \/ /\ procLedger' = Released({"argv", "path"} \cup (ChildEnds \cap procTask.arr))
        /\ procTask' = [procTask EXCEPT !.pc = "exec", !.arr = @ \ ChildEnds]
        /\ procWorld' = [procWorld EXCEPT !.child = "forked", !.holds = [s \in ProcStreams |-> {"child"}]]
     \/ /\ procLedger' = Released({"argv", "path"})
        /\ procTask' = [procTask EXCEPT !.pc = "abort"]
        /\ UNCHANGED procWorld
  /\ UNCHANGED procReq

(* The read of the exec-error pipe ends when the child execs or exits. *)
proc_exec_result ==
  /\ procTask.pc = "exec" /\ procWorld.child # "forked"
  /\ procLedger' = Released({"execR"})
  /\ procTask' = [procTask EXCEPT !.arr = @ \ {"execR"},
                                  !.pc = IF procWorld.status = "noexec" THEN "abort" ELSE "start"]
  /\ UNCHANGED <<procReq, procWorld>>

(* The request and its helper thread; an empty stdin is closed at once.     *)
(* Without the thread the request's ends are closed and it is freed; without*)
(* the request the arrays still own every end.                              *)
proc_start ==
  /\ procTask.pc = "start"
  /\ \/ LET closed == IF procTask.args.stdin = "empty" THEN {"inW"} ELSE {}
        IN /\ procReq' = [procReq EXCEPT !.ends = (RequestEnds \cap procTask.arr) \ closed,
                                         !.refs = 2, !.helper = "poll"]
           /\ procTask' = [procTask EXCEPT !.arr = @ \ RequestEnds, !.pc = "park"]
           /\ procLedger' = [procLedger EXCEPT !.live = (@ \cup {"req"}) \ closed]
     \/ /\ procTask' = [procTask EXCEPT !.arr = @ \ RequestEnds, !.pc = "abort"]
        /\ procLedger' = Released(RequestEnds \cap procTask.arr)
        /\ UNCHANGED procReq
     \/ /\ procTask' = [procTask EXCEPT !.pc = "abort"]
        /\ UNCHANGED <<procReq, procLedger>>
  /\ UNCHANGED procWorld

(* The one exit before the helper owns anything: kill and reap the child,   *)
(* close what the arrays name, free the stdin copy.                         *)
proc_abort ==
  /\ procTask.pc = "abort"
  /\ procLedger' = Released(procTask.arr \cup (procLedger.live \cap {"stdin"}))
  /\ procWorld' = IF procWorld.child = "none" THEN procWorld ELSE [Killed EXCEPT !.child = "reaped"]
  /\ procTask' = [procTask EXCEPT !.pc = "ended", !.arr = {}, !.result = "not_started"]
  /\ UNCHANGED procReq

(* The completion pipe is readable: its byte was written or its other end closed. *)
DoneReadable == "done" \in procReq.flags \/ "doneW" \notin procLedger.live
proc_woken ==
  /\ procTask.pc \in {"park", "late"} /\ DoneReadable
  /\ procTask' = [procTask EXCEPT !.pc = "finish"]
  /\ UNCHANGED <<procReq, procWorld, procLedger>>

\* Mutants: the helper is not told to stop; the kill is not remembered.
proc_expired_NoStop ==
  /\ procTask.pc = "park" /\ procTask.args.timeout
  /\ procWorld' = proc_kill
  /\ procReq' = [procReq EXCEPT !.flags = IF procReq.exited THEN @ ELSE @ \cup {"timed_out"}]
  /\ procTask' = [procTask EXCEPT !.pc = "late"]
  /\ UNCHANGED procLedger
proc_expired_Forgets ==
  /\ procTask.pc = "park" /\ procTask.args.timeout
  /\ procWorld' = proc_kill
  /\ procReq' = [procReq EXCEPT !.flags = IF procReq.exited THEN @ ELSE @ \cup {"stop"}]
  /\ procTask' = [procTask EXCEPT !.pc = "late"]
  /\ UNCHANGED procLedger
(* The deadline ended the park, or its timer could not be armed: the child  *)
(* is killed unless it was already reaped, and the task parks again without *)
(* a bound.                                                                 *)
proc_expired ==
  /\ procTask.pc = "park" /\ procTask.args.timeout
  /\ procWorld' = proc_kill
  /\ procReq' = [procReq EXCEPT !.flags = IF procReq.exited THEN @ ELSE @ \cup {"stop", "timed_out"}]
  /\ procTask' = [procTask EXCEPT !.pc = "late"]
  /\ UNCHANGED procLedger

(* A cancel drops the parked task: force_drop_task closes the completion    *)
(* pipe it parked on, then the cleanup hook kills, stops the helper, closes *)
(* the stop pipe and drops the task's reference.                            *)
proc_cancel_hook ==
  /\ procTask.pc \in {"park", "late"}
  /\ procWorld' = proc_kill
  /\ procReq' = [procReq EXCEPT !.flags = @ \cup {"stop"}, !.refs = @ - 1]
  /\ procLedger' = DecrefLedger({"doneR", "stopW"})
  /\ procTask' = [procTask EXCEPT !.pc = "dropped"]

Verdict == LET f == procReq.flags
           IN IF "failure" \in f THEN "not_started"
              ELSE IF "overflow" \in f THEN "overflow"
              ELSE IF "timed_out" \in f THEN "timeout"
              ELSE procWorld.status
(* The tail of proc_run_raw: close, decide the result, drop the reference. *)
proc_finish ==
  /\ procTask.pc = "finish"
  /\ procTask' = [procTask EXCEPT !.pc = "ended", !.result = Verdict]
  /\ procReq' = [procReq EXCEPT !.refs = @ - 1]
  /\ procLedger' = DecrefLedger({"doneR", "stopW"})
  /\ UNCHANGED procWorld

-----------------------------------------------------------------------------
(* The helper thread *)

Pending(s)   == procWorld.wrote[s] - procReq.read[s]
Readable(s)  == ReadEnd(s) \in procReq.ends /\ (Pending(s) > 0 \/ procWorld.holds[s] = {})
StopReadable == "stop" \in procReq.flags \/ "stopW" \notin procLedger.live
ToReap(flag) == [procReq EXCEPT !.helper = "reap", !.ready = {}, !.flags = @ \cup flag]

(* One poll of proc_collect.  The collection is over when only the stop     *)
(* pipe is left or the stop pipe is readable; a poll that fails kills the   *)
(* child; else the ready descriptors are reported.                          *)
proc_poll ==
  /\ procReq.helper = "poll" /\ procReq.ready = {}
  /\ LET open == procReq.ends \cap {"outR", "errR", "inW"}
     IN \/ /\ open = {} \/ StopReadable
           /\ procReq' = ToReap({}) /\ UNCHANGED procWorld
        \/ /\ open # {} /\ ~StopReadable
           /\ \E in \in {{}} \cup (IF "inW" \in open THEN {{"in"}} ELSE {}) :
                /\ procReq' = [procReq EXCEPT !.ready = {s \in ProcStreams : Readable(s)} \cup in]
                /\ procReq'.ready # {}
           /\ UNCHANGED procWorld
        \/ /\ open # {}
           /\ procReq' = ToReap({"failure"}) /\ procWorld' = proc_kill
  /\ UNCHANGED <<procTask, procLedger>>

\* Reported descriptors are served in the order out, err, in.
Serves(x) == /\ procReq.helper = "poll" /\ x \in procReq.ready
             /\ x = "err" => "out" \notin procReq.ready
             /\ x = "in" => procReq.ready = {"in"}

\* Of n units read from the pipe, `take` are kept.
proc_buf_append(s, n, take) == [procReq EXCEPT !.read[s] = @ + n, !.kept[s] = @ + take]

(* A stream reported readable: end of file closes it, and so does a read    *)
(* that fails, whatever is still in the pipe; EINTR and EAGAIN leave it for *)
(* the next poll.  What is read is kept up to the cap.  One unit past the   *)
(* cap, or a buffer that cannot grow, kills the child and ends the          *)
(* collection.                                                              *)
proc_absorb(s) ==
  /\ Serves(s)
  /\ \/ /\ \E fails \in {{}, {s}} :
             /\ fails = {} => Pending(s) = 0
             /\ procReq' = [procReq EXCEPT !.ready = @ \ {s}, !.ends = @ \ {ReadEnd(s)}, !.broken = @ \cup fails]
        /\ CloseFields({ReadEnd(s)})
        /\ UNCHANGED procWorld
     \/ /\ procReq' = [procReq EXCEPT !.ready = @ \ {s}]
        /\ UNCHANGED <<procWorld, procLedger>>
     \/ /\ \E n \in 1..Pending(s) :
             LET room == ProcCap - procReq.kept[s]
                 took == proc_buf_append(s, n, IF n < room THEN n ELSE room)
             IN IF n > room
                THEN /\ procReq' = [took EXCEPT !.helper = "reap", !.ready = {}, !.flags = @ \cup {"overflow"}]
                     /\ procWorld' = proc_kill
                ELSE /\ procReq' = [took EXCEPT !.ready = @ \ {s}]
                     /\ UNCHANGED procWorld
        /\ UNCHANGED procLedger
     \/ /\ Pending(s) > 0
        /\ procReq' = ToReap({"failure"}) /\ procWorld' = proc_kill
        /\ UNCHANGED procLedger
  /\ UNCHANGED procTask

(* stdin: all of it written, or a write refused, closes it; a short write   *)
(* or EAGAIN leaves it for the next poll.                                   *)
proc_feed ==
  /\ Serves("in")
  /\ \/ /\ CloseFields({"inW"})
        /\ procReq' = [procReq EXCEPT !.ready = {}, !.ends = @ \ {"inW"}]
     \/ /\ procReq' = [procReq EXCEPT !.ready = {}]
        /\ UNCHANGED procLedger
  /\ UNCHANGED <<procTask, procWorld>>

(* waitid(WNOWAIT) returns once the child is dead; the reap and `exited`    *)
(* are one critical section.                                                *)
proc_reap ==
  /\ procReq.helper = "reap" /\ procWorld.child = "zombie"
  /\ procReq' = [procReq EXCEPT !.exited = TRUE, !.helper = "close"]
  /\ procWorld' = [procWorld EXCEPT !.child = "reaped"]
  /\ UNCHANGED <<procTask, procLedger>>

\* Mutant: the read end of the stop pipe is left open.
proc_helper_close_KeepsStop ==
  /\ procReq.helper = "close"
  /\ CloseFields({"outR", "errR", "inW"})
  /\ procReq' = [procReq EXCEPT !.ends = @ \ {"outR", "errR", "inW"}, !.helper = "wake"]
  /\ UNCHANGED <<procTask, procWorld>>
(* proc_helper_thread after the reap: close the helper's ends, ... *)
proc_helper_close ==
  /\ procReq.helper = "close"
  /\ CloseFields({"outR", "errR", "inW", "stopR"})
  /\ procReq' = [procReq EXCEPT !.ends = @ \ {"outR", "errR", "inW", "stopR"}, !.helper = "wake"]
  /\ UNCHANGED <<procTask, procWorld>>
(* ... publish done and wake the task, ... *)
proc_helper_wake ==
  /\ procReq.helper = "wake"
  /\ procReq' = [procReq EXCEPT !.flags = @ \cup {"done"}, !.helper = "shut"]
  /\ UNCHANGED <<procTask, procWorld, procLedger>>
(* ... close the completion end, ... *)
proc_helper_shut ==
  /\ procReq.helper = "shut"
  /\ CloseFields({"doneW"})
  /\ procReq' = [procReq EXCEPT !.ends = @ \ {"doneW"}, !.helper = "drop"]
  /\ UNCHANGED <<procTask, procWorld>>
(* ... and drop the helper's reference. *)
proc_helper_drop ==
  /\ procReq.helper = "drop"
  /\ procReq' = [procReq EXCEPT !.refs = @ - 1, !.helper = "gone"]
  /\ procLedger' = DecrefLedger({})
  /\ UNCHANGED <<procTask, procWorld>>

-----------------------------------------------------------------------------
(* The child and its descendants *)

(* proc_child_exec: exec succeeds, or its errno goes down the pipe. *)
proc_child_exec ==
  /\ procWorld.child = "forked"
  /\ \/ procWorld' = [procWorld EXCEPT !.child = "running"]
     \/ procWorld' = [procWorld EXCEPT !.child = "zombie", !.status = "noexec",
                                       !.holds = [s \in ProcStreams |-> {}]]
  /\ UNCHANGED <<procTask, procReq, procLedger>>

(* What processes outside the runtime do once exec succeeded: write, spawn  *)
(* a descendant that inherits the streams and stays in the child's group    *)
(* ("kin") or leaves it ("stray"), close a stream, exit.                    *)
ProcOutside ==
  /\ \/ \E s \in ProcStreams :
          /\ procWorld.holds[s] # {} /\ procWorld.child # "forked"
          /\ procWorld.wrote["out"] + procWorld.wrote["err"] < ProcMaxWrite
          /\ procWorld' = [procWorld EXCEPT !.wrote[s] = @ + 1]
     \/ \E kind \in {"kin", "stray"} :
          /\ procWorld.child = "running" /\ \A s \in ProcStreams : procWorld.holds[s] = {"child"}
          /\ procWorld' = [procWorld EXCEPT !.holds = [s \in ProcStreams |-> {"child", kind}]]
     \/ \E s \in ProcStreams : \E p \in procWorld.holds[s] :
          /\ procWorld.child # "forked"
          /\ procWorld' = [procWorld EXCEPT !.holds[s] = @ \ {p}]
     \/ \E how \in {"exit", "signal"} :
          /\ procWorld.child = "running"
          /\ procWorld' = [procWorld EXCEPT !.child = "zombie", !.status = how,
                                            !.holds = [s \in ProcStreams |-> @[s] \ {"child"}]]
  /\ UNCHANGED <<procTask, procReq, procLedger>>

ProcTaskSteps ==
  \/ proc_prepare \/ proc_pipes \/ proc_fork \/ proc_exec_result \/ proc_start \/ proc_abort
  \/ proc_woken \/ proc_expired \/ proc_finish
ProcHelperSteps ==
  \/ proc_poll \/ (\E s \in ProcStreams : proc_absorb(s)) \/ proc_feed \/ proc_reap
  \/ proc_helper_close \/ proc_helper_wake \/ proc_helper_shut \/ proc_helper_drop

ProcNext == ProcTaskSteps \/ ProcHelperSteps \/ proc_cancel_hook \/ proc_child_exec \/ ProcOutside

ProcSpec == ProcInit /\ [][ProcNext]_procVars

(* The scheduler thread and the helper thread run, and exec ends.  Nothing  *)
(* is assumed of the child: it may run, or hold its pipes, for ever.        *)
ProcFairness == WF_procVars(ProcTaskSteps) /\ WF_procVars(ProcHelperSteps)
                /\ WF_procVars(proc_child_exec)

ProcAtRest == procTask.pc \in {"ended", "dropped"} /\ procReq.helper \in {"none", "gone"}

-----------------------------------------------------------------------------
(* Properties *)

(* Every descriptor and block of a call is released exactly once: nothing   *)
(* is closed or freed twice, whoever still has steps to take on the request *)
(* finds it allocated, and once both sides are done nothing is left.        *)
ProcReleasedOnce ==
  /\ procLedger.wrong = {}
  /\ procTask.pc \in {"park", "late", "finish"} \/ procReq.helper \notin {"none", "gone"}
       => "req" \in procLedger.live
  /\ ProcAtRest => procLedger.live = {}

(* No signal is sent to a pid that was reaped (another process may have it  *)
(* by then), and no child is left unreaped by the time both sides are done. *)
ProcKillsOwnChild ==
  /\ ~procWorld.strike
  /\ ProcAtRest => procWorld.child \in {"none", "reaped"}

(* The result tells the truth.  "overflow": a stream went past the cap.     *)
(* The child's own status: everything read is in the result, and each       *)
(* stream was read to its end of file, so that nothing written is missing,  *)
(* unless its read failed.                                                  *)
ProcVerdict ==
  /\ procTask.result = "overflow" => \E s \in ProcStreams : procReq.read[s] > ProcCap
  /\ procTask.result \in {"exit", "signal"} =>
       \A s \in ProcStreams :
         /\ procReq.kept[s] = procReq.read[s]
         /\ s \notin procReq.broken => procWorld.holds[s] = {} /\ procReq.read[s] = procWorld.wrote[s]

(* A call with a timeout comes back, whatever the child and its descendants *)
(* do: also when a descendant that left the group keeps the pipes open.     *)
ProcCallEnds == (procTask.pc = "park" /\ procTask.args.timeout) ~> (procTask.pc \in {"ended", "dropped"})
=============================================================================
