----------------------------- MODULE CancelWalk -----------------------------
(***************************************************************************)
(* The walks of __scope_cancel in runtime/sprout_scheduler.c: the poller   *)
(* list, then of every channel the senders, the receivers and the selects, *)
(* dropping the tasks of the scope while the walk stands on them.  Module  *)
(* Scheduler takes the cancel as one step, which is what is checked here.  *)
(*                                                                         *)
(* A list is the sequence of its links.  A link is a task with the number  *)
(* of one of its registrations: a select has one for every channel of its  *)
(* argument, which may name a channel twice.  The walk holds a pointer to  *)
(* a link, and following one that was unlinked reads freed memory.         *)
(*                                                                         *)
(* The caller runs and is on no list.  Tasks park and are not woken before *)
(* the cancel: a wake-up takes a task out and leaves the order of the rest.*)
(***************************************************************************)
EXTENDS Integers, Sequences, FiniteSets

CONSTANTS
  CwTasks,     \* the tasks other than the caller
  CwChans,     \* how many channels there are, numbered from the head of g_all_chans
  CwSelects    \* the lists of channels that programs select on

CwLists == {<<"io", 0>>} \cup ({"send", "recv", "select"} \X (1 .. CwChans))
NULL == <<>>

VARIABLES
  cwScope,     \* the tasks of the scope that is cancelled
  cwq,         \* cwq[l]: the links of list l, from its head
  cwBefore,    \* cwq when the cancel began
  cwAt,        \* where the walk is: [list, link], and whether it runs
  cwGone       \* the tasks dropped, in order

cwVars == <<cwScope, cwq, cwBefore, cwAt, cwGone>>

CwLinks(q) == {q[i] : i \in 1 .. Len(q)}

CwInit ==
  /\ cwScope \in SUBSET CwTasks
  /\ cwq = [l \in CwLists |-> <<>>]
  /\ cwBefore = cwq
  /\ cwAt = [run |-> "parks", list |-> <<"io", 0>>, link |-> NULL]
  /\ cwGone = <<>>

-----------------------------------------------------------------------------
(* How a list comes about                                                  *)

CwFree(t) == cwAt.run = "parks" /\ \A l \in CwLists : \A e \in CwLinks(cwq[l]) : e[1] # t

\* Only cwq changes, to q.
CwPark(q) == cwq' = q /\ UNCHANGED <<cwScope, cwBefore, cwAt, cwGone>>

io_list_push(t) ==
  /\ CwFree(t)
  /\ CwPark([cwq EXCEPT ![<<"io", 0>>] = <<<<t, 1>>>> \o @])

\* Senders park only while nobody receives, receivers while nobody sends.
CwParkSend(t, c) ==
  /\ CwFree(t) /\ cwq[<<"recv", c>>] = <<>> /\ cwq[<<"select", c>>] = <<>>
  /\ CwPark([cwq EXCEPT ![<<"send", c>>] = Append(@, <<t, 1>>)])

CwParkRecv(t, c) ==
  /\ CwFree(t) /\ cwq[<<"send", c>>] = <<>>
  /\ CwPark([cwq EXCEPT ![<<"recv", c>>] = Append(@, <<t, 1>>)])

\* The registrations of task t, selecting on list s, with channel c.
CwRegs(t, s, c) == SelectSeq([i \in 1 .. Len(s) |-> <<t, i>>], LAMBDA e : s[e[2]] = c)

CwParkSelect(t, s) ==
  /\ CwFree(t) /\ \A i \in 1 .. Len(s) : cwq[<<"send", s[i]>>] = <<>>
  /\ CwPark([l \in CwLists |-> IF l[1] = "select" THEN cwq[l] \o CwRegs(t, s, l[2]) ELSE cwq[l]])

-----------------------------------------------------------------------------
(* The walks                                                               *)

CwHead(q) == IF q = <<>> THEN NULL ELSE q[1]

\* The link after e: io_next, chan_next or q_next.
CwNext(q, e) ==
  LET i == CHOOSE j \in 1 .. Len(q) : q[j] = e
  IN  IF i < Len(q) THEN q[i + 1] ELSE NULL

CwBegins ==
  /\ cwAt.run = "parks"
  /\ cwBefore' = cwq
  /\ cwAt' = [run |-> "walks", list |-> <<"io", 0>>, link |-> CwHead(cwq[<<"io", 0>>])]
  /\ UNCHANGED <<cwScope, cwq, cwGone>>

CwOn == cwAt.run = "walks" /\ cwAt.link # NULL
CwTask == cwAt.link[1]

\* What force_drop_task unlinks: every registration, wherever it is.
CwUnlinked(t) == [l \in CwLists |-> SelectSeq(cwq[l], LAMBDA e : e[1] # t)]

\* Mutant: the walk over the selects follows the link it saved.
CwAfterDrop_Saved(q, left) == CwNext(q, cwAt.link)

\* Where the walk goes on after a drop that left the list q as left: the link
\* saved before, but for selects, whose other registrations went as well.
CwAfterDrop(q, left) ==
  IF cwAt.list[1] = "select" THEN CwHead(left) ELSE CwNext(q, cwAt.link)

CwSpares ==
  /\ CwOn /\ CwTask \notin cwScope
  /\ cwAt' = [cwAt EXCEPT !.link = CwNext(cwq[cwAt.list], @)]
  /\ UNCHANGED <<cwScope, cwq, cwBefore, cwGone>>

CwDrops ==
  LET left == CwUnlinked(CwTask) IN
  /\ CwOn /\ CwTask \in cwScope
  /\ cwq' = left
  /\ cwGone' = Append(cwGone, CwTask)
  /\ cwAt' = [cwAt EXCEPT !.link = CwAfterDrop(cwq[cwAt.list], left[cwAt.list])]
  /\ UNCHANGED <<cwScope, cwBefore>>

\* A sibling awaits the task or it is in a deadline: force_drop_task aborts.
CwRefused ==
  /\ CwOn /\ CwTask \in cwScope
  /\ cwAt' = [cwAt EXCEPT !.run = "aborted"]
  /\ UNCHANGED <<cwScope, cwq, cwBefore, cwGone>>

\* The list after l: the next queue of the channel or the next channel.
CwAfter(l) ==
  CASE l[1] = "send" -> <<"recv", l[2]>>
    [] l[1] = "recv" -> <<"select", l[2]>>
    [] OTHER         -> <<"send", l[2] + 1>>

CwListEnds ==
  /\ cwAt.run = "walks" /\ cwAt.link = NULL
  /\ cwAt' = IF CwAfter(cwAt.list) \in CwLists
             THEN [cwAt EXCEPT !.list = CwAfter(@), !.link = CwHead(cwq[CwAfter(cwAt.list)])]
             ELSE [cwAt EXCEPT !.run = "done"]
  /\ UNCHANGED <<cwScope, cwq, cwBefore, cwGone>>

CwNextStep ==
  \/ \E t \in CwTasks : io_list_push(t)
  \/ \E t \in CwTasks, c \in 1 .. CwChans : CwParkSend(t, c) \/ CwParkRecv(t, c)
  \/ \E t \in CwTasks, s \in CwSelects : CwParkSelect(t, s)
  \/ CwBegins \/ CwSpares \/ CwDrops \/ CwRefused \/ CwListEnds

-----------------------------------------------------------------------------

(* A cancel drops each parked task of its scope, wherever and on however    *)
(* many channels it is parked, exactly once, and nobody else: the walk      *)
(* never stands on a link that a drop has unlinked, no task is dropped      *)
(* twice, and at the end every list is what it was without those tasks.     *)
CancelDropsExactly ==
  /\ CwOn => cwAt.link \in CwLinks(cwq[cwAt.list])
  /\ \A i, j \in 1 .. Len(cwGone) : cwGone[i] = cwGone[j] => i = j
  /\ cwAt.run = "done" =>
       \A l \in CwLists : cwq[l] = SelectSeq(cwBefore[l], LAMBDA e : e[1] \notin cwScope)
=============================================================================
