---------------------------- MODULE BoundedFifo ----------------------------
(***************************************************************************)
(* What a Sprout channel promises, without rings, wait queues or handoffs: *)
(* messages leave in the order they were accepted, at most Cap[c] of them  *)
(* are kept for good, and the end of the stream is announced once the      *)
(* stream is closed and drained.                                           *)
(*                                                                         *)
(* Messages of a channel are numbered 1, 2, ... in the order of the sends. *)
(* A message accepted beyond the bound is provisional: its sender is still *)
(* blocked, and the message is forgotten with it when the sender is        *)
(* dropped or the channel closes.                                          *)
(***************************************************************************)
EXTENDS Integers, Sequences

CONSTANTS Chans, Cap

VARIABLES
  sent,    \* sent[c]: how many sends on c have been accepted
  queue,   \* queue[c]: accepted and not yet received
  got,     \* got[c]: received, in order
  closed,  \* closed[c]: chan_close was called
  ended    \* ended[c]: some receiver was told that c is closed

fifoVars == <<sent, queue, got, closed, ended>>

FifoInit ==
  /\ sent = [c \in Chans |-> 0]
  /\ queue = [c \in Chans |-> <<>>]
  /\ got = [c \in Chans |-> <<>>]
  /\ closed = [c \in Chans |-> FALSE]
  /\ ended = [c \in Chans |-> FALSE]

Accept(c) ==
  /\ ~closed[c]
  /\ sent' = [sent EXCEPT ![c] = @ + 1]
  /\ queue' = [queue EXCEPT ![c] = Append(@, sent[c] + 1)]
  /\ UNCHANGED <<got, closed, ended>>

\* A receiver is already waiting: the message passes straight through.
PassThrough(c) ==
  /\ ~closed[c]
  /\ queue[c] = <<>>
  /\ sent' = [sent EXCEPT ![c] = @ + 1]
  /\ got' = [got EXCEPT ![c] = Append(@, sent[c] + 1)]
  /\ UNCHANGED <<queue, closed, ended>>

Receive(c) ==
  /\ queue[c] # <<>>
  /\ got' = [got EXCEPT ![c] = Append(@, Head(queue[c]))]
  /\ queue' = [queue EXCEPT ![c] = Tail(@)]
  /\ UNCHANGED <<sent, closed, ended>>

Forget(c, i) ==
  /\ i > Cap[c]
  /\ queue' = [queue EXCEPT ![c] = SubSeq(@, 1, i - 1) \o SubSeq(@, i + 1, Len(@))]
  /\ UNCHANGED <<sent, got, closed, ended>>

\* Only what is within the bound survives; waiting receivers, who can only wait
\* on an empty channel, are told at once.
Close(c) ==
  /\ ~closed[c]
  /\ closed' = [closed EXCEPT ![c] = TRUE]
  /\ queue' = [queue EXCEPT ![c] = SubSeq(@, 1, IF Len(@) < Cap[c] THEN Len(@) ELSE Cap[c])]
  /\ ended' \in {ended, [ended EXCEPT ![c] = (queue[c] = <<>>)]}
  /\ UNCHANGED <<sent, got>>

Announce(c) ==
  /\ closed[c]
  /\ queue[c] = <<>>
  /\ ended' = [ended EXCEPT ![c] = TRUE]
  /\ UNCHANGED <<sent, queue, got, closed>>

FifoNext ==
  \E c \in Chans :
    \/ Accept(c) \/ PassThrough(c) \/ Receive(c) \/ Close(c) \/ Announce(c)
    \/ \E i \in 1 .. Len(queue[c]) : Forget(c, i)

FifoSpec == FifoInit /\ [][FifoNext]_fifoVars
=============================================================================
