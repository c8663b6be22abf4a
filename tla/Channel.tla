------------------------------ MODULE Channel ------------------------------
(***************************************************************************)
(* The channels of runtime/sprout_scheduler.c: chan_send, chan_recv,       *)
(* chan_close and chan_select over growable rings, with direct handoff     *)
(* between tasks and force-drop of parked tasks.                           *)
(*                                                                         *)
(* One OS thread runs the tasks, so a call runs to its park or its return  *)
(* without interruption: one action per call up to the park, and one       *)
(* (Resume) from the park to the return.  The order in which runnable      *)
(* tasks run is left open here; module Scheduler has the ready queue.      *)
(*                                                                         *)
(* The send and receive wait queues are sequences of tasks.  A select      *)
(* registers its task on every channel of its list; selq[c] is the set of  *)
(* the tasks registered on c and elder[t] the selectors parked before t,   *)
(* which orders every selq[c] as the code's FIFO does.  A channel that     *)
(* occurs twice in a list needs one registration: the one with the lower   *)
(* index is ahead in the queue and firing it unlinks both.                 *)
(***************************************************************************)
EXTENDS Integers, Sequences, FiniteSets

CONSTANTS
  Tasks,
  Chans,
  Cap,           \* Cap[c]: the channel's bound, 0 for a rendezvous channel
  InitialSlots,  \* CHAN_INITIAL_SLOTS
  SelectLists,   \* the lists of channels that programs select on
  MaxSends       \* bound: how many sends each channel takes

ASSUME CapAssumption == Cap \in [Chans -> Nat]
ASSUME InitialSlotsAssumption == InitialSlots \in Nat /\ InitialSlots >= 1
ASSUME SelectListsAssumption == SelectLists \subseteq Seq(Chans)
ASSUME MaxSendsAssumption == MaxSends \in [Chans -> Nat]

VARIABLES
  buffer,  \* buffer[c]: the ring, a function on 0 .. slots[c] - 1, 0 when empty
  slots, count, head, tail, closed,
  sendq,   \* send_head .. send_tail: tasks parked in chan_send, in order
  recvq,   \* recv_head .. recv_tail: tasks parked in chan_recv, in order
  selq,    \* select_head .. select_tail: tasks registered by chan_select
  elder,
  op,      \* op[t]: the call t is in ("none", "send", "recv", "select"), or "dropped"
  woken,   \* woken[t]: t was made runnable and has not resumed
  args,    \* args[t]: the channel or channels of that call
  chan_pending, chan_closed_wake, sel_fired_index,
  failed,  \* sprout_fail was called
  sent,    \* sent[c]: how many sends on c were accepted; a message is its number
  got,     \* got[c]: the messages taken out of c, in order
  ended,   \* ended[c]: some receive on c answered Closed
  received \* received[c]: the messages that receives on c have returned

ringVars == <<buffer, slots, count, head, tail>>
waitVars == <<sendq, recvq, selq, elder>>
taskVars == <<op, woken, args, chan_pending, chan_closed_wake, sel_fired_index>>
histVars == <<sent, got, ended, received>>
vars == <<ringVars, closed, waitVars, taskVars, failed, histVars>>

Empty == 0   \* the word in an empty slot and in an idle chan_pending

Elems(q) == {q[i] : i \in 1 .. Len(q)}

\* chan_q_remove: unlink t from anywhere in a wait queue.
chan_q_remove(q, t) ==
  LET i == CHOOSE j \in 1 .. Len(q) : q[j] = t
  IN  IF t \in Elems(q) THEN SubSeq(q, 1, i - 1) \o SubSeq(q, i + 1, Len(q)) ELSE q

chan_ring_next(c, i) == (i + 1) % slots[c]

\* The messages in the ring, oldest first.
Contents(c) == [i \in 1 .. count[c] |-> buffer[c][(head[c] + i - 1) % slots[c]]]

-----------------------------------------------------------------------------

\* __chan_new for every channel.
InitSlots(c) == IF Cap[c] < InitialSlots THEN Cap[c] ELSE InitialSlots

Init ==
  /\ slots = [c \in Chans |-> InitSlots(c)]
  /\ buffer = [c \in Chans |-> [i \in 0 .. InitSlots(c) - 1 |-> Empty]]
  /\ count = [c \in Chans |-> 0]
  /\ head = [c \in Chans |-> 0]
  /\ tail = [c \in Chans |-> 0]
  /\ closed = [c \in Chans |-> FALSE]
  /\ sendq = [c \in Chans |-> <<>>]
  /\ recvq = [c \in Chans |-> <<>>]
  /\ selq = [c \in Chans |-> {}]
  /\ elder = [t \in Tasks |-> {}]
  /\ op = [t \in Tasks |-> "none"]
  /\ woken = [t \in Tasks |-> FALSE]
  /\ args = [t \in Tasks |-> <<>>]
  /\ chan_pending = [t \in Tasks |-> Empty]
  /\ chan_closed_wake = [t \in Tasks |-> FALSE]
  /\ sel_fired_index = [t \in Tasks |-> 0]
  /\ failed = FALSE
  /\ sent = [c \in Chans |-> 0]
  /\ got = [c \in Chans |-> <<>>]
  /\ ended = [c \in Chans |-> FALSE]
  /\ received = [c \in Chans |-> {}]

CanCall(t) == ~failed /\ op[t] = "none"

sprout_fail ==
  /\ failed' = TRUE
  /\ UNCHANGED <<ringVars, closed, waitVars, taskVars, histVars>>

\* select_unlink_all for the tasks in W.
select_unlink_all(W) ==
  /\ selq' = [c \in Chans |-> selq[c] \ W]
  /\ elder' = [t \in Tasks |-> IF t \in W THEN {} ELSE elder[t] \ W]

\* The task whose registration is at the head of c's select queue.
SelectHead(c, t) == t \in selq[c] /\ elder[t] \cap selq[c] = {}

\* Mutant: the first index of the list whatever fired.
FiredIndex_First(t, c) == 1

\* The index of the registration that fires: the lowest one of its channel.
FiredIndex(t, c) == CHOOSE i \in 1 .. Len(args[t]) :
  args[t][i] = c /\ \A j \in 1 .. i - 1 : args[t][j] # c

\* Park the caller in call o on the channels l.
ParkAs(t, o, l) ==
  /\ op' = [op EXCEPT ![t] = o]
  /\ args' = [args EXCEPT ![t] = l]
  /\ UNCHANGED <<woken, chan_closed_wake, sel_fired_index, closed, failed>>

-----------------------------------------------------------------------------
(* __chan_send                                                             *)

SendOnClosed(t, c) ==
  /\ CanCall(t)
  /\ closed[c]
  /\ sprout_fail

\* What every accepted send does to the history, when it delivers at once or not.
Accepted(c) == sent' = [sent EXCEPT ![c] = @ + 1]
Delivered(c, m) == got' = [got EXCEPT ![c] = Append(@, m)]

CanSend(t, c) == CanCall(t) /\ ~closed[c] /\ sent[c] < MaxSends[c]

SendToReceiver(t, c) ==
  /\ CanSend(t, c)
  /\ recvq[c] # <<>>
  /\ recvq' = [recvq EXCEPT ![c] = Tail(@)]
  /\ chan_pending' = [chan_pending EXCEPT ![Head(recvq[c])] = sent[c] + 1]
  /\ woken' = [woken EXCEPT ![Head(recvq[c])] = TRUE]
  /\ Accepted(c)
  /\ Delivered(c, sent[c] + 1)
  /\ UNCHANGED <<ringVars, closed, sendq, selq, elder, op, args, chan_closed_wake,
                 sel_fired_index, failed, ended, received>>

SendToSelector(t, c) ==
  /\ CanSend(t, c)
  /\ recvq[c] = <<>>
  /\ \E st \in selq[c] :
       /\ SelectHead(c, st)
       /\ chan_pending' = [chan_pending EXCEPT ![st] = sent[c] + 1]
       /\ chan_closed_wake' = [chan_closed_wake EXCEPT ![st] = FALSE]
       /\ sel_fired_index' = [sel_fired_index EXCEPT ![st] = FiredIndex(st, c)]
       /\ woken' = [woken EXCEPT ![st] = TRUE]
       /\ select_unlink_all({st})
  /\ Accepted(c)
  /\ Delivered(c, sent[c] + 1)
  /\ UNCHANGED <<ringVars, closed, sendq, recvq, op, args, failed, ended, received>>

NobodyReceives(c) == recvq[c] = <<>> /\ selq[c] = {}

SendBuffered(t, c) ==
  /\ CanSend(t, c)
  /\ NobodyReceives(c)
  /\ count[c] < Cap[c]
  /\ count[c] # slots[c]
  /\ buffer' = [buffer EXCEPT ![c][tail[c]] = sent[c] + 1]
  /\ tail' = [tail EXCEPT ![c] = chan_ring_next(c, @)]
  /\ count' = [count EXCEPT ![c] = @ + 1]
  /\ Accepted(c)
  /\ UNCHANGED <<slots, head, closed, waitVars, taskVars, failed, got, ended, received>>

\* chan_grow: the new size, and the ring copied out in FIFO order.
GrownSlots(c) == IF slots[c] > Cap[c] \div 2 THEN Cap[c] ELSE 2 * slots[c]

\* Mutant: copying from slot 0, not from head.
GrownBuffer_FromZero(c) == [i \in 0 .. GrownSlots(c) - 1 |->
  IF i < count[c] THEN buffer[c][i] ELSE Empty]

GrownBuffer(c) == [i \in 0 .. GrownSlots(c) - 1 |->
  IF i < count[c] THEN buffer[c][(head[c] + i) % slots[c]] ELSE Empty]

\* The ring is full below the bound: chan_grow, then enqueue in the grown ring.
SendGrows(t, c) ==
  /\ CanSend(t, c)
  /\ NobodyReceives(c)
  /\ count[c] < Cap[c]
  /\ count[c] = slots[c]
  /\ slots' = [slots EXCEPT ![c] = GrownSlots(c)]
  /\ buffer' = [buffer EXCEPT ![c] = [GrownBuffer(c) EXCEPT ![count[c]] = sent[c] + 1]]
  /\ head' = [head EXCEPT ![c] = 0]
  /\ tail' = [tail EXCEPT ![c] = (count[c] + 1) % GrownSlots(c)]
  /\ count' = [count EXCEPT ![c] = @ + 1]
  /\ Accepted(c)
  /\ UNCHANGED <<closed, waitVars, taskVars, failed, got, ended, received>>

SendParks(t, c) ==
  /\ CanSend(t, c)
  /\ NobodyReceives(c)
  /\ count[c] >= Cap[c]
  /\ ParkAs(t, "send", <<c>>)
  /\ chan_pending' = [chan_pending EXCEPT ![t] = sent[c] + 1]
  /\ sendq' = [sendq EXCEPT ![c] = Append(@, t)]
  /\ Accepted(c)
  /\ UNCHANGED <<ringVars, recvq, selq, elder, got, ended, received>>

Send(t, c) ==
  \/ SendOnClosed(t, c) \/ SendToReceiver(t, c) \/ SendToSelector(t, c)
  \/ SendBuffered(t, c) \/ SendGrows(t, c) \/ SendParks(t, c)

-----------------------------------------------------------------------------
(* chan_poll_take: take what is ready on c without parking.                *)

Returned(c, m) == received' = [received EXCEPT ![c] = @ \cup {m}]

HeadMessage(c) == buffer[c][head[c]]

TakeBuffered(c) ==
  /\ count[c] > 0
  /\ sendq[c] = <<>>
  /\ buffer' = [buffer EXCEPT ![c][head[c]] = Empty]
  /\ head' = [head EXCEPT ![c] = chan_ring_next(c, @)]
  /\ count' = [count EXCEPT ![c] = @ - 1]
  /\ Delivered(c, HeadMessage(c))
  /\ Returned(c, HeadMessage(c))
  /\ UNCHANGED <<slots, tail, sendq, chan_pending, woken, ended>>

\* Mutant: the freed slot is not refilled and the sender stays parked.
TakeBufferedRefill_Skipped(c) ==
  /\ count[c] > 0
  /\ sendq[c] # <<>>
  /\ buffer' = [buffer EXCEPT ![c][head[c]] = Empty]
  /\ head' = [head EXCEPT ![c] = chan_ring_next(c, @)]
  /\ count' = [count EXCEPT ![c] = @ - 1]
  /\ Delivered(c, HeadMessage(c))
  /\ Returned(c, HeadMessage(c))
  /\ UNCHANGED <<slots, tail, sendq, chan_pending, woken, ended>>

\* The head of the send queue moves its message into the freed slot.
TakeBufferedRefill(c) ==
  /\ count[c] > 0
  /\ sendq[c] # <<>>
  /\ buffer' = [buffer EXCEPT ![c] =
                  [[@ EXCEPT ![head[c]] = Empty] EXCEPT ![tail[c]] = chan_pending[Head(sendq[c])]]]
  /\ head' = [head EXCEPT ![c] = chan_ring_next(c, @)]
  /\ tail' = [tail EXCEPT ![c] = chan_ring_next(c, @)]
  /\ sendq' = [sendq EXCEPT ![c] = Tail(@)]
  /\ chan_pending' = [chan_pending EXCEPT ![Head(sendq[c])] = Empty]
  /\ woken' = [woken EXCEPT ![Head(sendq[c])] = TRUE]
  /\ Delivered(c, HeadMessage(c))
  /\ Returned(c, HeadMessage(c))
  /\ UNCHANGED <<slots, count, ended>>

TakeRendezvous(c) ==
  /\ count[c] = 0
  /\ sendq[c] # <<>>
  /\ sendq' = [sendq EXCEPT ![c] = Tail(@)]
  /\ chan_pending' = [chan_pending EXCEPT ![Head(sendq[c])] = Empty]
  /\ woken' = [woken EXCEPT ![Head(sendq[c])] = TRUE]
  /\ Delivered(c, chan_pending[Head(sendq[c])])
  /\ Returned(c, chan_pending[Head(sendq[c])])
  /\ UNCHANGED <<ringVars, ended>>

TakeClosed(c) ==
  /\ count[c] = 0
  /\ sendq[c] = <<>>
  /\ closed[c]
  /\ ended' = [ended EXCEPT ![c] = TRUE]
  /\ UNCHANGED <<ringVars, sendq, chan_pending, woken, got, received>>

Ready(c) == count[c] > 0 \/ sendq[c] # <<>> \/ closed[c]

chan_poll_take(c) ==
  /\ TakeBuffered(c) \/ TakeBufferedRefill(c) \/ TakeRendezvous(c) \/ TakeClosed(c)
  /\ UNCHANGED <<closed, recvq, selq, elder, op, args, chan_closed_wake, sel_fired_index,
                 failed, sent>>

(* __chan_recv                                                             *)

RecvTakes(t, c) ==
  /\ CanCall(t)
  /\ chan_poll_take(c)

RecvParks(t, c) ==
  /\ CanCall(t)
  /\ ~Ready(c)
  /\ ParkAs(t, "recv", <<c>>)
  /\ recvq' = [recvq EXCEPT ![c] = Append(@, t)]
  /\ UNCHANGED <<ringVars, sendq, selq, elder, chan_pending, histVars>>

(* __chan_select: the lowest ready index wins, otherwise register on all.  *)

SelectTakes(t, l) ==
  /\ CanCall(t)
  /\ \E i \in 1 .. Len(l) :
       /\ \A j \in 1 .. i - 1 : ~Ready(l[j])
       /\ chan_poll_take(l[i])

SelectParks(t, l) ==
  /\ CanCall(t)
  /\ l # <<>>
  /\ \A i \in 1 .. Len(l) : ~Ready(l[i])
  /\ ParkAs(t, "select", l)
  /\ selq' = [c \in Chans |-> IF c \in Elems(l) THEN selq[c] \cup {t} ELSE selq[c]]
  /\ elder' = [elder EXCEPT ![t] = {u \in Tasks : op[u] = "select" /\ ~woken[u]}]
  /\ UNCHANGED <<ringVars, sendq, recvq, chan_pending, histVars>>

SelectEmpty(t, l) ==
  /\ CanCall(t)
  /\ l = <<>>
  /\ sprout_fail

-----------------------------------------------------------------------------
(* __chan_close: wake everybody on c.                                      *)

CloseTwice(t, c) ==
  /\ CanCall(t)
  /\ closed[c]
  /\ sprout_fail

Waiters(c) == Elems(recvq[c]) \cup Elems(sendq[c]) \cup selq[c]

CloseFirst(t, c) ==
  /\ CanCall(t)
  /\ ~closed[c]
  /\ closed' = [closed EXCEPT ![c] = TRUE]
  /\ recvq' = [recvq EXCEPT ![c] = <<>>]
  /\ sendq' = [sendq EXCEPT ![c] = <<>>]
  /\ select_unlink_all(selq[c])
  /\ chan_closed_wake' = [u \in Tasks |-> chan_closed_wake[u] \/ u \in Waiters(c)]
  /\ sel_fired_index' = [u \in Tasks |-> IF u \in selq[c] THEN FiredIndex(u, c)
                                                          ELSE sel_fired_index[u]]
  /\ woken' = [u \in Tasks |-> woken[u] \/ u \in Waiters(c)]
  /\ ended' = [ended EXCEPT ![c] = recvq[c] # <<>> \/ selq[c] # {}]
  /\ UNCHANGED <<ringVars, op, args, chan_pending, failed, sent, got, received>>

(* The second half of a parked call, once its task runs again.             *)

\* The channel that woke t: a select reads sel_fired_index.
WokeOn(t) == IF op[t] = "select" THEN args[t][sel_fired_index[t]] ELSE args[t][1]

ResumeSendOnClosed(t) ==
  /\ ~failed
  /\ op[t] = "send" /\ woken[t] /\ chan_closed_wake[t]
  /\ sprout_fail

\* Return to the program, with Got v when v was handed over.
ResumeReturns(t) ==
  /\ ~failed
  /\ op[t] \in {"send", "recv", "select"} /\ woken[t]
  /\ ~(op[t] = "send" /\ chan_closed_wake[t])
  /\ op' = [op EXCEPT ![t] = "none"]
  /\ args' = [args EXCEPT ![t] = <<>>]
  /\ woken' = [woken EXCEPT ![t] = FALSE]
  /\ chan_closed_wake' = [chan_closed_wake EXCEPT ![t] = FALSE]
  /\ IF op[t] # "send" /\ ~chan_closed_wake[t]
       THEN /\ chan_pending' = [chan_pending EXCEPT ![t] = Empty]
            /\ Returned(WokeOn(t), chan_pending[t])
       ELSE UNCHANGED <<chan_pending, received>>
  /\ UNCHANGED <<ringVars, closed, waitVars, sel_fired_index, failed, sent, got, ended>>

-----------------------------------------------------------------------------
(* force_drop_task, the PARK_CHAN and PARK_SELECT branches: the dropped    *)
(* task is unlinked from every queue and never resumes; the message a      *)
(* dropped sender holds goes with it.                                      *)

\* Mutant: the registrations of a dropped selector stay.
DropSelect_KeepsRegistrations(t) == UNCHANGED <<selq, elder>>

DropSelect(t) ==
  IF op[t] = "select" THEN select_unlink_all({t}) ELSE UNCHANGED <<selq, elder>>

DropParked(t) ==
  /\ ~failed
  /\ op[t] \in {"send", "recv", "select"} /\ ~woken[t]
  /\ sendq' = [c \in Chans |-> IF op[t] = "send" THEN chan_q_remove(sendq[c], t) ELSE sendq[c]]
  /\ recvq' = [c \in Chans |-> IF op[t] = "recv" THEN chan_q_remove(recvq[c], t) ELSE recvq[c]]
  /\ DropSelect(t)
  /\ op' = [op EXCEPT ![t] = "dropped"]
  /\ args' = [args EXCEPT ![t] = <<>>]
  /\ UNCHANGED <<ringVars, closed, woken, chan_pending, chan_closed_wake, sel_fired_index,
                 failed, histVars>>

Next ==
  \/ \E t \in Tasks, c \in Chans : Send(t, c) \/ RecvTakes(t, c) \/ RecvParks(t, c)
  \/ \E t \in Tasks, c \in Chans : CloseTwice(t, c) \/ CloseFirst(t, c)
  \/ \E t \in Tasks, l \in SelectLists : SelectTakes(t, l) \/ SelectParks(t, l) \/ SelectEmpty(t, l)
  \/ \E t \in Tasks : ResumeSendOnClosed(t) \/ ResumeReturns(t) \/ DropParked(t)

Spec == Init /\ [][Next]_vars

-----------------------------------------------------------------------------
(* Properties                                                              *)

Parked(t) == op[t] \in {"send", "recv", "select"} /\ ~woken[t]

Calls == {"none", "send", "recv", "select", "dropped"}

RingTypeOK ==
  /\ slots \in [Chans -> Nat] /\ count \in [Chans -> Nat]
  /\ head \in [Chans -> Nat] /\ tail \in [Chans -> Nat]
  /\ DOMAIN buffer = Chans
  /\ \A c \in Chans : buffer[c] \in [0 .. slots[c] - 1 -> Nat]

QueueTypeOK ==
  /\ sendq \in [Chans -> Seq(Tasks)] /\ recvq \in [Chans -> Seq(Tasks)]
  /\ selq \in [Chans -> SUBSET Tasks] /\ elder \in [Tasks -> SUBSET Tasks]

FlagTypeOK ==
  /\ closed \in [Chans -> BOOLEAN] /\ ended \in [Chans -> BOOLEAN]
  /\ woken \in [Tasks -> BOOLEAN] /\ chan_closed_wake \in [Tasks -> BOOLEAN]
  /\ failed \in BOOLEAN

TaskTypeOK ==
  /\ op \in [Tasks -> Calls]
  /\ args \in [Tasks -> Seq(Chans)]
  /\ chan_pending \in [Tasks -> Nat]

HistoryTypeOK ==
  /\ sent \in [Chans -> Nat]
  /\ got \in [Chans -> Seq(Nat)]
  /\ received \in [Chans -> SUBSET Nat]

(* Every variable has its type. *)
TypeOK == RingTypeOK /\ QueueTypeOK /\ FlagTypeOK /\ TaskTypeOK /\ HistoryTypeOK

(* The invariants stated above chan_ring_alloc in the source: a sender is   *)
(* parked only on a full buffer whose ring has grown to the bound, and a    *)
(* receiver or a selector only on an empty open channel without parked      *)
(* senders.  Handoff without a re-check of the condition rests on them.     *)
WaitersMatchCounts ==
  \A c \in Chans :
    /\ sendq[c] # <<>> => count[c] = Cap[c] /\ slots[c] = Cap[c] /\ ~closed[c]
    /\ recvq[c] # <<>> \/ selq[c] # {} => count[c] = 0 /\ sendq[c] = <<>> /\ ~closed[c]

\* What the ring keeps to before its contents are looked at.
RingBounds ==
  \A c \in Chans :
    /\ count[c] <= slots[c] /\ slots[c] <= Cap[c]
    /\ Cap[c] > 0 => slots[c] > 0 /\ head[c] < slots[c]

ChannelInv == TypeOK /\ RingBounds /\ WaitersMatchCounts

(* A parked task is linked exactly where its call parked it, once, and a    *)
(* task that runs, has been woken or was dropped is linked nowhere: no      *)
(* channel keeps a registration of a task that select_fire or               *)
(* force_drop_task took off another channel.                                *)
LinkedWhereParked ==
  \A c \in Chans, t \in Tasks :
    /\ t \in Elems(sendq[c]) <=> Parked(t) /\ op[t] = "send" /\ args[t][1] = c
    /\ t \in Elems(recvq[c]) <=> Parked(t) /\ op[t] = "recv" /\ args[t][1] = c
    /\ t \in selq[c] <=> Parked(t) /\ op[t] = "select" /\ c \in Elems(args[t])
    /\ Cardinality(Elems(sendq[c])) = Len(sendq[c])
    /\ Cardinality(Elems(recvq[c])) = Len(recvq[c])

\* The messages parked senders hold, in queue order.
HeldBySenders(c) == [i \in 1 .. Len(sendq[c]) |-> chan_pending[sendq[c][i]]]

(* A message handed to a parked receiver or selector reaches the program    *)
(* exactly once and as a message of the channel that the call reports: the  *)
(* messages taken out are those returned and those in the delivery slot of  *)
(* a woken receiver, and in one of the two places only.                     *)
HandedOverOnce ==
  \A c \in Chans :
    LET inFlight == {t \in Tasks : /\ op[t] \in {"recv", "select"} /\ woken[t]
                                   /\ ~chan_closed_wake[t] /\ WokeOn(t) = c}
    IN  /\ Elems(got[c]) = received[c] \cup {chan_pending[t] : t \in inFlight}
        /\ \A t \in inFlight : chan_pending[t] \notin received[c]
        /\ \A t, u \in inFlight : chan_pending[t] = chan_pending[u] => t = u

Fifo == INSTANCE BoundedFifo WITH
  queue <- [c \in Chans |-> Contents(c) \o HeldBySenders(c)]

(* The channels implement the abstract bounded FIFO: in particular every    *)
(* value accepted is received unless its sender is dropped or the channel   *)
(* is closed while the sender is parked, and Closed is answered only after  *)
(* the buffered values are drained.                                         *)
ImplementsFifo == Fifo!FifoSpec
=============================================================================
