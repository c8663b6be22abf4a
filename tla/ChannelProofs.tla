--------------------------- MODULE ChannelProofs ----------------------------
(* Proofs about Channel, for every set of tasks and channels, every         *)
(* capacity (0 included) and every initial ring size.                       *)
(*                                                                          *)
(* The wait-queue invariants are not inductive alone: a sender parks when   *)
(* count >= cap, and that this means count = cap = slots needs the bounds   *)
(* count <= slots <= cap of the ring, growth included.                      *)
EXTENDS Channel, SequenceTheorems, FiniteSetTheorems, WellFoundedInduction, NaturalsInduction, TLAPS

USE CapAssumption, InitialSlotsAssumption, SelectListsAssumption, MaxSendsAssumption

(* Unlinking a task keeps a wait queue a queue of tasks, and an empty one   *)
(* empty.                                                                   *)
LEMMA RemoveType ==
  ASSUME NEW q \in Seq(Tasks), NEW t
  PROVE  /\ chan_q_remove(q, t) \in Seq(Tasks)
         /\ q = <<>> => chan_q_remove(q, t) = <<>>
<1>1. CASE t \in Elems(q)
  <2> DEFINE i == CHOOSE j \in 1 .. Len(q) : q[j] = t
  <2>1. i \in 1 .. Len(q)
    BY <1>1 DEF Elems
  <2>2. chan_q_remove(q, t) = SubSeq(q, 1, i - 1) \o SubSeq(q, i + 1, Len(q))
    BY <1>1 DEF chan_q_remove
  <2> HIDE DEF i
  <2>3. Len(q) \in Nat /\ q # <<>>
    BY <2>1
  <2>4. SubSeq(q, 1, i - 1) \in Seq(Tasks)
    BY <2>1, <2>3, SubSeqProperties
  <2>5. SubSeq(q, i + 1, Len(q)) \in Seq(Tasks)
    BY <2>1, <2>3, SubSeqProperties
  <2> QED BY <2>2, <2>3, <2>4, <2>5
<1>2. CASE t \notin Elems(q)
  BY <1>2 DEF chan_q_remove
<1> QED BY <1>1, <1>2

(* A channel as __chan_new makes it satisfies the invariant.                *)
LEMMA ChannelInit == Init => ChannelInv
<1> SUFFICES ASSUME Init PROVE ChannelInv
  OBVIOUS
<1>1. \A c \in Chans : InitSlots(c) \in Nat /\ InitSlots(c) <= Cap[c]
                       /\ (Cap[c] > 0 => InitSlots(c) > 0)
  BY DEF InitSlots
<1>2. TypeOK
  <2>1. RingTypeOK
    BY <1>1 DEF Init, Empty, RingTypeOK
  <2>2. QueueTypeOK
    BY DEF Init, QueueTypeOK
  <2>3. FlagTypeOK
    BY DEF Init, FlagTypeOK
  <2>4. TaskTypeOK
    BY DEF Init, TaskTypeOK, Calls, Empty
  <2>5. HistoryTypeOK
    BY DEF Init, HistoryTypeOK
  <2> QED BY <2>1, <2>2, <2>3, <2>4, <2>5 DEF TypeOK
<1>3. RingBounds
  BY <1>1 DEF Init, RingBounds
<1>4. WaitersMatchCounts
  BY DEF Init, WaitersMatchCounts
<1> QED BY <1>2, <1>3, <1>4 DEF ChannelInv

(* A step that changes neither rings, queues nor calls preserves the        *)
(* invariant whatever it does to the failure flag.                          *)
LEMMA FrameInv ==
  ASSUME ChannelInv, UNCHANGED <<ringVars, closed, waitVars, taskVars, histVars>>,
         failed' \in BOOLEAN
  PROVE  ChannelInv'
<1> USE DEF ringVars, waitVars, taskVars, histVars
<1>1. RingTypeOK'
  BY DEF ChannelInv, TypeOK, RingTypeOK
<1>2. QueueTypeOK' /\ TaskTypeOK' /\ HistoryTypeOK'
  BY DEF ChannelInv, TypeOK, QueueTypeOK, TaskTypeOK, HistoryTypeOK
<1>3. FlagTypeOK'
  BY DEF ChannelInv, TypeOK, FlagTypeOK
<1>4. RingBounds' /\ WaitersMatchCounts'
  BY DEF ChannelInv, RingBounds, WaitersMatchCounts
<1> QED BY <1>1, <1>2, <1>3, <1>4 DEF ChannelInv, TypeOK

(* sprout_fail changes nothing but the process.                             *)
LEMMA FailInv ==
  ASSUME ChannelInv, sprout_fail
  PROVE  ChannelInv'
  BY FrameInv DEF sprout_fail

(* select_unlink_all only takes registrations away.                         *)
LEMMA UnlinkType ==
  ASSUME ChannelInv, NEW W \in SUBSET Tasks, select_unlink_all(W)
  PROVE  /\ selq' \in [Chans -> SUBSET Tasks]
         /\ elder' \in [Tasks -> SUBSET Tasks]
         /\ \A d \in Chans : selq'[d] \subseteq selq[d]
  BY DEF ChannelInv, TypeOK, QueueTypeOK, select_unlink_all

(* Replacing the ring of one channel, at its old or at a new size.          *)
LEMMA BufferType ==
  ASSUME RingTypeOK, NEW c \in Chans, NEW b, NEW s,
         b \in [0 .. s - 1 -> Nat],
         buffer' = [buffer EXCEPT ![c] = b],
         slots'[c] = s, \A d \in Chans : d # c => slots'[d] = slots[d]
  PROVE  /\ DOMAIN buffer' = Chans
         /\ \A d \in Chans : buffer'[d] \in [0 .. slots'[d] - 1 -> Nat]
<1>1. DOMAIN buffer = Chans /\ \A d \in Chans : buffer[d] \in [0 .. slots[d] - 1 -> Nat]
  BY DEF RingTypeOK
<1>2. DOMAIN buffer' = Chans /\ buffer'[c] = b /\ \A d \in Chans : d # c => buffer'[d] = buffer[d]
  BY <1>1
<1>3. ASSUME NEW d \in Chans PROVE buffer'[d] \in [0 .. slots'[d] - 1 -> Nat]
  <2>1. CASE d = c
    BY <1>2, <2>1
  <2>2. CASE d # c
    BY <1>1, <1>2, <2>2
  <2> QED BY <2>1, <2>2
<1> QED BY <1>2, <1>3

(* Writing one slot of a ring.                                              *)
LEMMA SlotWrite ==
  ASSUME NEW s \in Nat, NEW b \in [0 .. s - 1 -> Nat], NEW i, NEW v \in Nat
  PROVE  [b EXCEPT ![i] = v] \in [0 .. s - 1 -> Nat]
  OBVIOUS

(* A handoff by __chan_send to a parked receiver keeps the invariant.       *)
LEMMA SendToReceiverInv ==
  ASSUME ChannelInv, NEW t \in Tasks, NEW c \in Chans, SendToReceiver(t, c)
  PROVE  ChannelInv'
<1> DEFINE r == Head(recvq[c])
<1>1. r \in Tasks /\ Tail(recvq[c]) \in Seq(Tasks) /\ recvq[c] # <<>>
  BY DEF ChannelInv, TypeOK, QueueTypeOK, SendToReceiver
<1>2. sent[c] \in Nat /\ sent[c] + 1 \in Nat
  BY DEF ChannelInv, TypeOK, HistoryTypeOK
<1>3. /\ recvq' = [recvq EXCEPT ![c] = Tail(recvq[c])]
      /\ chan_pending' = [chan_pending EXCEPT ![r] = sent[c] + 1]
      /\ woken' = [woken EXCEPT ![r] = TRUE]
  BY DEF SendToReceiver
<1> HIDE DEF r
<1>4. TypeOK'
  <2>1. RingTypeOK'
    BY <1>1, <1>2, <1>3 DEF ChannelInv, TypeOK, RingTypeOK, SendToReceiver, ringVars
  <2>2. QueueTypeOK'
    BY <1>1, <1>2, <1>3 DEF ChannelInv, TypeOK, QueueTypeOK, SendToReceiver
  <2>3. FlagTypeOK'
    BY <1>1, <1>2, <1>3 DEF ChannelInv, TypeOK, FlagTypeOK, SendToReceiver
  <2>4. TaskTypeOK'
    BY <1>1, <1>2, <1>3 DEF ChannelInv, TypeOK, TaskTypeOK, SendToReceiver
  <2>5. HistoryTypeOK'
    BY <1>1, <1>2, <1>3 DEF ChannelInv, TypeOK, HistoryTypeOK, SendToReceiver, Accepted, Delivered
  <2> QED BY <2>1, <2>2, <2>3, <2>4, <2>5 DEF TypeOK
<1>5. RingBounds'
  BY DEF ChannelInv, RingBounds, SendToReceiver, ringVars
<1>6. WaitersMatchCounts'
  <2>1. \A d \in Chans : recvq'[d] # <<>> => recvq[d] # <<>>
    BY <1>1, <1>3 DEF ChannelInv, TypeOK, QueueTypeOK
  <2> QED BY <2>1 DEF ChannelInv, WaitersMatchCounts, SendToReceiver, ringVars
<1> QED BY <1>4, <1>5, <1>6 DEF ChannelInv

(* A handoff by __chan_send to a parked selector keeps the invariant.       *)
LEMMA SendToSelectorInv ==
  ASSUME ChannelInv, NEW t \in Tasks, NEW c \in Chans, SendToSelector(t, c)
  PROVE  ChannelInv'
<1> PICK st \in selq[c] :
       /\ chan_pending' = [chan_pending EXCEPT ![st] = sent[c] + 1]
       /\ chan_closed_wake' = [chan_closed_wake EXCEPT ![st] = FALSE]
       /\ woken' = [woken EXCEPT ![st] = TRUE]
       /\ select_unlink_all({st})
  BY DEF SendToSelector
<1>1. st \in Tasks
  BY DEF ChannelInv, TypeOK, QueueTypeOK
<1>2. sent[c] + 1 \in Nat
  BY DEF ChannelInv, TypeOK, HistoryTypeOK
<1>3. /\ selq' \in [Chans -> SUBSET Tasks] /\ elder' \in [Tasks -> SUBSET Tasks]
      /\ \A d \in Chans : selq'[d] \subseteq selq[d]
  BY <1>1, UnlinkType
<1>4. TypeOK'
  <2>1. RingTypeOK'
    BY <1>1, <1>2, <1>3 DEF ChannelInv, TypeOK, RingTypeOK, SendToSelector, ringVars
  <2>2. QueueTypeOK'
    BY <1>1, <1>2, <1>3 DEF ChannelInv, TypeOK, QueueTypeOK, SendToSelector
  <2>3. FlagTypeOK'
    BY <1>1, <1>2, <1>3 DEF ChannelInv, TypeOK, FlagTypeOK, SendToSelector
  <2>4. TaskTypeOK'
    BY <1>1, <1>2, <1>3 DEF ChannelInv, TypeOK, TaskTypeOK, SendToSelector
  <2>5. HistoryTypeOK'
    BY <1>1, <1>2, <1>3 DEF ChannelInv, TypeOK, HistoryTypeOK, SendToSelector, Accepted, Delivered
  <2> QED BY <2>1, <2>2, <2>3, <2>4, <2>5 DEF TypeOK
<1>5. RingBounds'
  BY DEF ChannelInv, RingBounds, SendToSelector, ringVars
<1>6. WaitersMatchCounts'
  BY <1>3 DEF ChannelInv, WaitersMatchCounts, SendToSelector, ringVars
<1> QED BY <1>4, <1>5, <1>6 DEF ChannelInv

(* A ring index stays inside its ring: chan_ring_next on any place of a      *)
(* ring that has a slot.                                                    *)
LEMMA RingNext ==
  ASSUME NEW c \in Chans, slots[c] \in Nat, slots[c] > 0, NEW i \in Nat
  PROVE  chan_ring_next(c, i) \in 0 .. slots[c] - 1
<1> DEFINE n == slots[c]
<1>1. n \in Nat \ {0} /\ i + 1 \in Nat
  OBVIOUS
<1> HIDE DEF n
<1>2. (i + 1) % n \in 0 .. n - 1
  BY <1>1
<1> QED BY <1>2 DEF n, chan_ring_next

(* __chan_send into a ring with room keeps the invariant: nobody            *)
(* waits to receive, and a parked sender would mean a full buffer.          *)
LEMMA SendBufferedInv ==
  ASSUME ChannelInv, NEW t \in Tasks, NEW c \in Chans, SendBuffered(t, c)
  PROVE  ChannelInv'
<1>1. /\ slots[c] \in Nat /\ count[c] \in Nat /\ Cap[c] \in Nat /\ tail[c] \in Nat
      /\ count[c] < slots[c] /\ count[c] < Cap[c]
  BY DEF ChannelInv, TypeOK, RingTypeOK, RingBounds, SendBuffered
<1>2. chan_ring_next(c, tail[c]) \in Nat
  BY <1>1 DEF chan_ring_next
<1>3. sent[c] + 1 \in Nat
  BY DEF ChannelInv, TypeOK, HistoryTypeOK
<1>4. sendq[c] = <<>> /\ recvq[c] = <<>> /\ selq[c] = {}
  BY <1>1 DEF ChannelInv, WaitersMatchCounts, SendBuffered, NobodyReceives
<1>5. TypeOK'
  <2>1. RingTypeOK'
    <3>1. RingTypeOK /\ buffer[c] \in [0 .. slots[c] - 1 -> Nat]
      BY DEF ChannelInv, TypeOK, RingTypeOK
    <3>2. [buffer[c] EXCEPT ![tail[c]] = sent[c] + 1] \in [0 .. slots[c] - 1 -> Nat]
      BY <1>1, <1>3, <3>1, SlotWrite
    <3>3. /\ buffer' = [buffer EXCEPT ![c] = [buffer[c] EXCEPT ![tail[c]] = sent[c] + 1]]
          /\ slots' = slots /\ head' = head
          /\ tail' = [tail EXCEPT ![c] = chan_ring_next(c, tail[c])]
          /\ count' = [count EXCEPT ![c] = count[c] + 1]
      BY DEF SendBuffered
    <3>4. DOMAIN buffer' = Chans /\ \A d \in Chans : buffer'[d] \in [0 .. slots'[d] - 1 -> Nat]
      BY <3>1, <3>2, <3>3, BufferType
    <3>5. /\ slots' \in [Chans -> Nat] /\ count' \in [Chans -> Nat]
          /\ head' \in [Chans -> Nat] /\ tail' \in [Chans -> Nat]
      BY <1>1, <1>2, <3>1, <3>3 DEF RingTypeOK
    <3> QED BY <3>4, <3>5 DEF RingTypeOK
  <2>2. QueueTypeOK'
    BY DEF ChannelInv, TypeOK, QueueTypeOK, SendBuffered, waitVars
  <2>3. FlagTypeOK'
    BY DEF ChannelInv, TypeOK, FlagTypeOK, SendBuffered, taskVars
  <2>4. TaskTypeOK'
    BY DEF ChannelInv, TypeOK, TaskTypeOK, SendBuffered, taskVars
  <2>5. HistoryTypeOK'
    BY <1>3 DEF ChannelInv, TypeOK, HistoryTypeOK, SendBuffered, Accepted
  <2> QED BY <2>1, <2>2, <2>3, <2>4, <2>5 DEF TypeOK
<1>6. RingBounds'
  BY <1>1 DEF ChannelInv, TypeOK, RingTypeOK, RingBounds, SendBuffered
<1>7. WaitersMatchCounts'
  BY <1>4 DEF ChannelInv, TypeOK, RingTypeOK, WaitersMatchCounts, SendBuffered, waitVars
<1> QED BY <1>5, <1>6, <1>7 DEF ChannelInv

(* Growth keeps the ring within the bound and makes room for one message.   *)
LEMMA GrownSlotsBounds ==
  ASSUME NEW c \in Chans, slots[c] \in Nat, slots[c] < Cap[c], Cap[c] > 0 => slots[c] > 0
  PROVE  GrownSlots(c) \in Nat /\ slots[c] < GrownSlots(c) /\ GrownSlots(c) <= Cap[c]
<1>1. Cap[c] \in Nat /\ slots[c] > 0
  OBVIOUS
<1>2. 2 * (Cap[c] \div 2) <= Cap[c] /\ Cap[c] \div 2 \in Nat
  BY <1>1
<1> QED BY <1>1, <1>2 DEF GrownSlots

(* __chan_send into a full ring below its bound keeps the invariant:        *)
(* chan_grow makes room, so the tail it leaves is inside the new ring.      *)
LEMMA SendGrowsInv ==
  ASSUME ChannelInv, NEW t \in Tasks, NEW c \in Chans, SendGrows(t, c)
  PROVE  ChannelInv'
<1> DEFINE g == GrownSlots(c)
           grown == [GrownBuffer(c) EXCEPT ![count[c]] = sent[c] + 1]
<1>1. /\ slots[c] \in Nat /\ count[c] = slots[c] /\ Cap[c] \in Nat /\ slots[c] < Cap[c]
      /\ head[c] \in Nat /\ slots[c] > 0
  BY DEF ChannelInv, TypeOK, RingTypeOK, RingBounds, SendGrows
<1>2. sent[c] + 1 \in Nat
  BY DEF ChannelInv, TypeOK, HistoryTypeOK
<1>3. g \in Nat /\ slots[c] < g /\ g <= Cap[c]
  BY <1>1, GrownSlotsBounds
<1>4. GrownBuffer(c) \in [0 .. g - 1 -> Nat]
  <2>1. \A i \in 0 .. g - 1 : (head[c] + i) % slots[c] \in 0 .. slots[c] - 1
    BY <1>1
  <2>2. buffer[c] \in [0 .. slots[c] - 1 -> Nat]
    BY DEF ChannelInv, TypeOK, RingTypeOK
  <2> QED BY <2>1, <2>2 DEF GrownBuffer, Empty
<1>5. grown \in [0 .. g - 1 -> Nat]
  BY <1>2, <1>4
<1>6. /\ slots' = [slots EXCEPT ![c] = g] /\ tail' = [tail EXCEPT ![c] = (count[c] + 1) % g]
      /\ buffer' = [buffer EXCEPT ![c] = grown] /\ head' = [head EXCEPT ![c] = 0]
      /\ count' = [count EXCEPT ![c] = count[c] + 1]
  BY DEF SendGrows
<1>7. sendq[c] = <<>> /\ recvq[c] = <<>> /\ selq[c] = {}
  BY <1>1 DEF ChannelInv, WaitersMatchCounts, SendGrows, NobodyReceives
<1> HIDE DEF g, grown
<1>8. TypeOK'
  <2>1. RingTypeOK'
    <3>1. (count[c] + 1) % g \in Nat
      BY <1>1, <1>3
    <3>2. RingTypeOK
      BY DEF ChannelInv, TypeOK
    <3>3. /\ slots' \in [Chans -> Nat] /\ count' \in [Chans -> Nat]
          /\ head' \in [Chans -> Nat] /\ tail' \in [Chans -> Nat]
      BY <1>1, <1>3, <1>6, <3>1, <3>2 DEF RingTypeOK
    <3>4. slots'[c] = g /\ \A d \in Chans : d # c => slots'[d] = slots[d]
      BY <1>6, <3>2 DEF RingTypeOK
    <3>5. DOMAIN buffer' = Chans /\ \A d \in Chans : buffer'[d] \in [0 .. slots'[d] - 1 -> Nat]
      BY <1>5, <1>6, <3>2, <3>4, BufferType
    <3> QED BY <3>3, <3>5 DEF RingTypeOK
  <2>2. QueueTypeOK'
    BY DEF ChannelInv, TypeOK, QueueTypeOK, SendGrows, waitVars
  <2>3. FlagTypeOK'
    BY DEF ChannelInv, TypeOK, FlagTypeOK, SendGrows, taskVars
  <2>4. TaskTypeOK'
    BY DEF ChannelInv, TypeOK, TaskTypeOK, SendGrows, taskVars
  <2>5. HistoryTypeOK'
    BY <1>2 DEF ChannelInv, TypeOK, HistoryTypeOK, SendGrows, Accepted
  <2> QED BY <2>1, <2>2, <2>3, <2>4, <2>5 DEF TypeOK
<1>9. RingBounds'
  BY <1>1, <1>3, <1>6 DEF ChannelInv, TypeOK, RingTypeOK, RingBounds
<1>10. WaitersMatchCounts'
  BY <1>6, <1>7 DEF ChannelInv, TypeOK, RingTypeOK, WaitersMatchCounts, SendGrows, waitVars
<1> QED BY <1>8, <1>9, <1>10 DEF ChannelInv

(* __chan_send parks only on a ring that has grown to its bound.            *)
LEMMA SendParksInv ==
  ASSUME ChannelInv, NEW t \in Tasks, NEW c \in Chans, SendParks(t, c)
  PROVE  ChannelInv'
<1>1. count[c] = Cap[c] /\ slots[c] = Cap[c]
  BY DEF ChannelInv, TypeOK, RingTypeOK, RingBounds, SendParks
<1>2. sent[c] + 1 \in Nat /\ <<c>> \in Seq(Chans)
  BY DEF ChannelInv, TypeOK, HistoryTypeOK
<1>3. TypeOK'
  <2>1. RingTypeOK'
    BY <1>2 DEF ChannelInv, TypeOK, RingTypeOK, SendParks, ringVars
  <2>2. QueueTypeOK'
    BY <1>2 DEF ChannelInv, TypeOK, QueueTypeOK, SendParks
  <2>3. FlagTypeOK'
    BY <1>2 DEF ChannelInv, TypeOK, FlagTypeOK, SendParks, ParkAs
  <2>4. TaskTypeOK'
    BY <1>2 DEF ChannelInv, TypeOK, TaskTypeOK, SendParks, ParkAs, Calls
  <2>5. HistoryTypeOK'
    BY <1>2 DEF ChannelInv, TypeOK, HistoryTypeOK, SendParks, Accepted
  <2> QED BY <2>1, <2>2, <2>3, <2>4, <2>5 DEF TypeOK
<1>4. RingBounds'
  BY DEF ChannelInv, RingBounds, SendParks, ringVars
<1>5. WaitersMatchCounts'
  <2>1. /\ recvq[c] = <<>> /\ selq[c] = {} /\ ~closed[c]
        /\ recvq' = recvq /\ selq' = selq /\ closed' = closed
        /\ slots' = slots /\ count' = count
        /\ \A d \in Chans : d # c => sendq'[d] = sendq[d]
    BY DEF SendParks, ParkAs, NobodyReceives, CanSend, ringVars, ChannelInv, TypeOK, QueueTypeOK
  <2> QED BY <1>1, <2>1 DEF ChannelInv, WaitersMatchCounts
<1> QED BY <1>3, <1>4, <1>5 DEF ChannelInv

(* The four outcomes of chan_poll_take.                                     *)
LEMMA PollTakeInv ==
  ASSUME ChannelInv, NEW c \in Chans, chan_poll_take(c)
  PROVE  ChannelInv'
<1>0. /\ slots[c] \in Nat /\ count[c] \in Nat /\ head[c] \in Nat /\ tail[c] \in Nat
      /\ count[c] <= slots[c] /\ slots[c] <= Cap[c] /\ Cap[c] \in Nat
  BY DEF ChannelInv, TypeOK, RingTypeOK, RingBounds
<1>1. ASSUME count[c] > 0
      PROVE  /\ slots[c] > 0 /\ recvq[c] = <<>> /\ selq[c] = {} /\ HeadMessage(c) \in Nat
             /\ chan_ring_next(c, head[c]) \in 0 .. slots[c] - 1
             /\ chan_ring_next(c, tail[c]) \in 0 .. slots[c] - 1
  <2>1. slots[c] > 0 /\ head[c] \in 0 .. slots[c] - 1
    BY <1>0, <1>1 DEF ChannelInv, RingBounds
  <2>2. HeadMessage(c) \in Nat
    BY <2>1 DEF ChannelInv, TypeOK, RingTypeOK, HeadMessage
  <2>3. recvq[c] = <<>> /\ selq[c] = {}
    BY <1>0, <1>1 DEF ChannelInv, WaitersMatchCounts
  <2>4. /\ chan_ring_next(c, head[c]) \in 0 .. slots[c] - 1
        /\ chan_ring_next(c, tail[c]) \in 0 .. slots[c] - 1
    BY <1>0, <2>1, RingNext
  <2> QED BY <2>1, <2>2, <2>3, <2>4
<1>2. ASSUME sendq[c] # <<>>
      PROVE  /\ Head(sendq[c]) \in Tasks /\ Tail(sendq[c]) \in Seq(Tasks)
             /\ chan_pending[Head(sendq[c])] \in Nat
             /\ recvq[c] = <<>> /\ selq[c] = {} /\ count[c] = Cap[c] /\ slots[c] = Cap[c]
             /\ ~closed[c]
  <2>1. Head(sendq[c]) \in Tasks /\ Tail(sendq[c]) \in Seq(Tasks)
    BY <1>2 DEF ChannelInv, TypeOK, QueueTypeOK
  <2>2. chan_pending[Head(sendq[c])] \in Nat
    BY <2>1 DEF ChannelInv, TypeOK, TaskTypeOK
  <2> QED BY <1>2, <2>1, <2>2 DEF ChannelInv, WaitersMatchCounts
<1>3. CASE TakeBuffered(c)
  <2>1. count[c] > 0 /\ sendq[c] = <<>> /\ count[c] - 1 \in Nat
    BY <1>0, <1>3 DEF TakeBuffered
  <2>2. TypeOK'
    <3>1. RingTypeOK'
      <4>1. RingTypeOK /\ buffer[c] \in [0 .. slots[c] - 1 -> Nat]
        BY DEF ChannelInv, TypeOK, RingTypeOK
      <4>2. [buffer[c] EXCEPT ![head[c]] = Empty] \in [0 .. slots[c] - 1 -> Nat]
        BY <1>0, <4>1, SlotWrite DEF Empty
      <4>3. /\ buffer' = [buffer EXCEPT ![c] = [buffer[c] EXCEPT ![head[c]] = Empty]]
            /\ slots' = slots /\ tail' = tail
            /\ head' = [head EXCEPT ![c] = chan_ring_next(c, head[c])]
            /\ count' = [count EXCEPT ![c] = count[c] - 1]
        BY <1>3 DEF TakeBuffered
      <4>4. DOMAIN buffer' = Chans /\ \A d \in Chans : buffer'[d] \in [0 .. slots'[d] - 1 -> Nat]
        BY <4>1, <4>2, <4>3, BufferType
      <4>5. chan_ring_next(c, head[c]) \in Nat /\ count[c] - 1 \in Nat
        BY <1>0, <1>1, <2>1
      <4>6. /\ slots' \in [Chans -> Nat] /\ count' \in [Chans -> Nat]
            /\ head' \in [Chans -> Nat] /\ tail' \in [Chans -> Nat]
        BY <4>1, <4>3, <4>5 DEF RingTypeOK
      <4> QED BY <4>4, <4>6 DEF RingTypeOK
    <3>2. QueueTypeOK'
      BY <1>0, <1>1, <1>3, <2>1 DEF ChannelInv, TypeOK, QueueTypeOK, TakeBuffered, chan_poll_take
    <3>3. FlagTypeOK'
      BY <1>0, <1>1, <1>3, <2>1 DEF ChannelInv, TypeOK, FlagTypeOK, TakeBuffered, chan_poll_take
    <3>4. TaskTypeOK'
      BY <1>0, <1>1, <1>3, <2>1 DEF ChannelInv, TypeOK, TaskTypeOK, TakeBuffered, chan_poll_take, Empty
    <3>5. HistoryTypeOK'
      BY <1>0, <1>1, <1>3, <2>1, SMTT(20) DEF ChannelInv, TypeOK, HistoryTypeOK, TakeBuffered, chan_poll_take, Delivered, Returned
    <3> QED BY <3>1, <3>2, <3>3, <3>4, <3>5 DEF TypeOK
  <2>3. RingBounds'
    <3>1. chan_ring_next(c, head[c]) \in 0 .. slots[c] - 1
      BY <1>1, <2>1
    <3>2. /\ slots' = slots /\ head' = [head EXCEPT ![c] = chan_ring_next(c, head[c])]
          /\ count' = [count EXCEPT ![c] = count[c] - 1]
      BY <1>3 DEF TakeBuffered
    <3> QED BY <1>0, <3>1, <3>2, SMTT(20) DEF ChannelInv, TypeOK, RingTypeOK, RingBounds
  <2>4. WaitersMatchCounts'
    BY <1>0, <1>1, <1>3, <2>1
       DEF TakeBuffered, chan_poll_take, ChannelInv, TypeOK, RingTypeOK, WaitersMatchCounts
  <2> QED BY <2>2, <2>3, <2>4 DEF ChannelInv
<1>4. CASE TakeBufferedRefill(c)
  <2>1. count[c] > 0 /\ sendq[c] # <<>>
    BY <1>4 DEF TakeBufferedRefill
  <2>2. TypeOK'
    <3>1. RingTypeOK'
      <4> DEFINE v == chan_pending[Head(sendq[c])]
                 b == [[buffer[c] EXCEPT ![head[c]] = Empty] EXCEPT ![tail[c]] = v]
      <4>1. RingTypeOK /\ buffer[c] \in [0 .. slots[c] - 1 -> Nat] /\ v \in Nat
        BY <1>2, <2>1 DEF ChannelInv, TypeOK, RingTypeOK
      <4>2. [buffer[c] EXCEPT ![head[c]] = Empty] \in [0 .. slots[c] - 1 -> Nat]
        BY <1>0, <4>1, SlotWrite DEF Empty
      <4>3. /\ buffer' = [buffer EXCEPT ![c] = b]
            /\ slots' = slots /\ count' = count
            /\ head' = [head EXCEPT ![c] = chan_ring_next(c, head[c])]
            /\ tail' = [tail EXCEPT ![c] = chan_ring_next(c, tail[c])]
        BY <1>4 DEF TakeBufferedRefill
      <4> HIDE DEF v
      <4>4. b \in [0 .. slots[c] - 1 -> Nat]
        BY <1>0, <4>1, <4>2, SlotWrite
      <4> HIDE DEF b
      <4>5. DOMAIN buffer' = Chans /\ \A d \in Chans : buffer'[d] \in [0 .. slots'[d] - 1 -> Nat]
        BY <4>1, <4>3, <4>4, BufferType
      <4>6. chan_ring_next(c, head[c]) \in Nat /\ chan_ring_next(c, tail[c]) \in Nat
        BY <1>0, <1>1, <2>1
      <4>7. /\ slots' \in [Chans -> Nat] /\ count' \in [Chans -> Nat]
            /\ head' \in [Chans -> Nat] /\ tail' \in [Chans -> Nat]
        BY <4>1, <4>3, <4>6 DEF RingTypeOK
      <4> QED BY <4>5, <4>7 DEF RingTypeOK
    <3>2. QueueTypeOK'
      BY <1>0, <1>1, <1>2, <1>4, <2>1 DEF ChannelInv, TypeOK, QueueTypeOK, TakeBufferedRefill, chan_poll_take
    <3>3. FlagTypeOK'
      BY <1>0, <1>1, <1>2, <1>4, <2>1 DEF ChannelInv, TypeOK, FlagTypeOK, TakeBufferedRefill, chan_poll_take
    <3>4. TaskTypeOK'
      BY <1>0, <1>1, <1>2, <1>4, <2>1 DEF ChannelInv, TypeOK, TaskTypeOK, TakeBufferedRefill, chan_poll_take, Empty
    <3>5. HistoryTypeOK'
      <4>1. HeadMessage(c) \in Nat
        BY <1>1, <2>1
      <4>2. /\ sent' = sent /\ got' = [got EXCEPT ![c] = Append(got[c], HeadMessage(c))]
            /\ received' = [received EXCEPT ![c] = received[c] \cup {HeadMessage(c)}]
        BY <1>4 DEF TakeBufferedRefill, chan_poll_take, Delivered, Returned
      <4> QED BY <4>1, <4>2 DEF ChannelInv, TypeOK, HistoryTypeOK
    <3> QED BY <3>1, <3>2, <3>3, <3>4, <3>5 DEF TypeOK
  <2>3. RingBounds'
    BY <1>0, <1>1, <1>4, <2>1 DEF TakeBufferedRefill, ChannelInv, TypeOK, RingTypeOK, RingBounds, ringVars
  <2>4. WaitersMatchCounts'
    <3>1. \A d \in Chans : sendq'[d] # <<>> => sendq[d] # <<>>
      BY <1>4, <2>1 DEF TakeBufferedRefill, ChannelInv, TypeOK, QueueTypeOK
    <3> QED BY <1>4, <3>1 DEF TakeBufferedRefill, chan_poll_take, ChannelInv, WaitersMatchCounts
  <2> QED BY <2>2, <2>3, <2>4 DEF ChannelInv
<1>5. CASE TakeRendezvous(c)
  <2>1. sendq[c] # <<>>
    BY <1>5 DEF TakeRendezvous
  <2>2. TypeOK'
    <3>1. RingTypeOK'
      BY <1>0, <1>2, <1>5, <2>1 DEF ChannelInv, TypeOK, RingTypeOK, TakeRendezvous, chan_poll_take, ringVars
    <3>2. QueueTypeOK'
      BY <1>0, <1>2, <1>5, <2>1 DEF ChannelInv, TypeOK, QueueTypeOK, TakeRendezvous, chan_poll_take
    <3>3. FlagTypeOK'
      BY <1>0, <1>2, <1>5, <2>1 DEF ChannelInv, TypeOK, FlagTypeOK, TakeRendezvous, chan_poll_take
    <3>4. TaskTypeOK'
      BY <1>0, <1>2, <1>5, <2>1 DEF ChannelInv, TypeOK, TaskTypeOK, TakeRendezvous, chan_poll_take, Empty
    <3>5. HistoryTypeOK'
      BY <1>0, <1>2, <1>5, <2>1 DEF ChannelInv, TypeOK, HistoryTypeOK, TakeRendezvous, chan_poll_take, Delivered, Returned
    <3> QED BY <3>1, <3>2, <3>3, <3>4, <3>5 DEF TypeOK
  <2>3. RingBounds'
    BY <1>5 DEF TakeRendezvous, ChannelInv, TypeOK, RingTypeOK, RingBounds, ringVars
  <2>4. WaitersMatchCounts'
    <3>1. \A d \in Chans : sendq'[d] # <<>> => sendq[d] # <<>>
      BY <1>5, <2>1 DEF TakeRendezvous, ChannelInv, TypeOK, QueueTypeOK
    <3> QED BY <1>5, <3>1
            DEF TakeRendezvous, chan_poll_take, ChannelInv, WaitersMatchCounts, ringVars, TypeOK,
                QueueTypeOK
  <2> QED BY <2>2, <2>3, <2>4 DEF ChannelInv
<1>6. CASE TakeClosed(c)
  <2>1. closed[c]
    BY <1>6 DEF TakeClosed
  <2>2. TypeOK'
    <3>1. RingTypeOK'
      BY <1>6, <2>1 DEF ChannelInv, TypeOK, RingTypeOK, TakeClosed, chan_poll_take, ringVars
    <3>2. QueueTypeOK'
      BY <1>6, <2>1 DEF ChannelInv, TypeOK, QueueTypeOK, TakeClosed, chan_poll_take
    <3>3. FlagTypeOK'
      BY <1>6, <2>1 DEF ChannelInv, TypeOK, FlagTypeOK, TakeClosed, chan_poll_take
    <3>4. TaskTypeOK'
      BY <1>6, <2>1 DEF ChannelInv, TypeOK, TaskTypeOK, TakeClosed, chan_poll_take, Empty
    <3>5. HistoryTypeOK'
      BY <1>6, <2>1 DEF ChannelInv, TypeOK, HistoryTypeOK, TakeClosed, chan_poll_take, Delivered, Returned
    <3> QED BY <3>1, <3>2, <3>3, <3>4, <3>5 DEF TypeOK
  <2>3. RingBounds'
    BY <1>6 DEF TakeClosed, ChannelInv, TypeOK, RingTypeOK, RingBounds, ringVars
  <2>4. WaitersMatchCounts'
    BY <1>6 DEF TakeClosed, chan_poll_take, ChannelInv, WaitersMatchCounts, ringVars
  <2> QED BY <2>2, <2>3, <2>4 DEF ChannelInv
<1> QED BY <1>3, <1>4, <1>5, <1>6 DEF chan_poll_take

(* __chan_recv parks only on an empty open channel without senders.         *)
LEMMA RecvParksInv ==
  ASSUME ChannelInv, NEW t \in Tasks, NEW c \in Chans, RecvParks(t, c)
  PROVE  ChannelInv'
<1>1. count[c] = 0 /\ sendq[c] = <<>> /\ ~closed[c]
  BY DEF RecvParks, Ready, ChannelInv, TypeOK, RingTypeOK
<1>2. <<c>> \in Seq(Chans)
  OBVIOUS
<1>3. TypeOK'
  <2>1. RingTypeOK'
    BY <1>2 DEF ChannelInv, TypeOK, RingTypeOK, RecvParks, ringVars
  <2>2. QueueTypeOK'
    BY <1>2 DEF ChannelInv, TypeOK, QueueTypeOK, RecvParks
  <2>3. FlagTypeOK'
    BY <1>2 DEF ChannelInv, TypeOK, FlagTypeOK, RecvParks, ParkAs, histVars
  <2>4. TaskTypeOK'
    BY <1>2 DEF ChannelInv, TypeOK, TaskTypeOK, RecvParks, ParkAs, Calls
  <2>5. HistoryTypeOK'
    BY <1>2 DEF ChannelInv, TypeOK, HistoryTypeOK, RecvParks, histVars
  <2> QED BY <2>1, <2>2, <2>3, <2>4, <2>5 DEF TypeOK
<1>4. RingBounds'
  BY DEF ChannelInv, RingBounds, RecvParks, ringVars
<1>5. WaitersMatchCounts'
  <2>1. /\ sendq' = sendq /\ selq' = selq /\ closed' = closed /\ slots' = slots /\ count' = count
        /\ \A d \in Chans : d # c => recvq'[d] = recvq[d]
    BY DEF RecvParks, ParkAs, ringVars, ChannelInv, TypeOK, QueueTypeOK
  <2> QED BY <1>1, <2>1 DEF ChannelInv, WaitersMatchCounts
<1> QED BY <1>3, <1>4, <1>5 DEF ChannelInv

(* __chan_select parks only when this holds of every listed channel.        *)
LEMMA SelectParksInv ==
  ASSUME ChannelInv, NEW t \in Tasks, NEW l \in SelectLists, SelectParks(t, l)
  PROVE  ChannelInv'
<1>1. l \in Seq(Chans)
  OBVIOUS
<1>2. \A c \in Elems(l) : count[c] = 0 /\ sendq[c] = <<>> /\ ~closed[c]
  <2> SUFFICES ASSUME NEW i \in 1 .. Len(l)
               PROVE  count[l[i]] = 0 /\ sendq[l[i]] = <<>> /\ ~closed[l[i]]
    BY DEF Elems
  <2>1. l[i] \in Chans
    BY <1>1
  <2>2. ~Ready(l[i])
    BY DEF SelectParks
  <2>3. count[l[i]] \in Nat
    BY <2>1 DEF ChannelInv, TypeOK, RingTypeOK
  <2> QED BY <2>2, <2>3 DEF Ready
<1>3. TypeOK'
  <2>1. RingTypeOK'
    BY <1>1 DEF ChannelInv, TypeOK, RingTypeOK, SelectParks, ringVars
  <2>2. QueueTypeOK'
    BY <1>1 DEF ChannelInv, TypeOK, QueueTypeOK, SelectParks
  <2>3. FlagTypeOK'
    BY <1>1 DEF ChannelInv, TypeOK, FlagTypeOK, SelectParks, ParkAs, histVars
  <2>4. TaskTypeOK'
    BY <1>1 DEF ChannelInv, TypeOK, TaskTypeOK, SelectParks, ParkAs, Calls
  <2>5. HistoryTypeOK'
    BY <1>1 DEF ChannelInv, TypeOK, HistoryTypeOK, SelectParks, histVars
  <2> QED BY <2>1, <2>2, <2>3, <2>4, <2>5 DEF TypeOK
<1>4. RingBounds'
  BY DEF ChannelInv, RingBounds, SelectParks, ringVars
<1>5. WaitersMatchCounts'
  BY <1>2 DEF ChannelInv, WaitersMatchCounts, SelectParks, ParkAs, ringVars
<1> QED BY <1>3, <1>4, <1>5 DEF ChannelInv

(* __chan_close leaves no waiter of any kind on the channel.                *)
LEMMA CloseFirstInv ==
  ASSUME ChannelInv, NEW t \in Tasks, NEW c \in Chans, CloseFirst(t, c)
  PROVE  ChannelInv'
<1>1. selq[c] \in SUBSET Tasks
  BY DEF ChannelInv, TypeOK, QueueTypeOK
<1>2. /\ selq' \in [Chans -> SUBSET Tasks] /\ elder' \in [Tasks -> SUBSET Tasks]
      /\ \A d \in Chans : selq'[d] \subseteq selq[d]
      /\ selq'[c] = {}
  BY <1>1, UnlinkType DEF CloseFirst, select_unlink_all
<1>3. TypeOK'
  <2>1. RingTypeOK'
    BY <1>2 DEF ChannelInv, TypeOK, RingTypeOK, CloseFirst, ringVars
  <2>2. QueueTypeOK'
    <3>1. sendq' \in [Chans -> Seq(Tasks)] /\ recvq' \in [Chans -> Seq(Tasks)]
      BY DEF ChannelInv, TypeOK, QueueTypeOK, CloseFirst
    <3> QED BY <1>2, <3>1 DEF QueueTypeOK
  <2>3. FlagTypeOK'
    BY <1>2 DEF ChannelInv, TypeOK, FlagTypeOK, CloseFirst
  <2>4. TaskTypeOK'
    BY <1>2 DEF ChannelInv, TypeOK, TaskTypeOK, CloseFirst
  <2>5. HistoryTypeOK'
    BY <1>2 DEF ChannelInv, TypeOK, HistoryTypeOK, CloseFirst
  <2> QED BY <2>1, <2>2, <2>3, <2>4, <2>5 DEF TypeOK
<1>4. RingBounds'
  BY DEF ChannelInv, RingBounds, CloseFirst, ringVars
<1>5. WaitersMatchCounts'
  <2>1. /\ slots' = slots /\ count' = count /\ sendq'[c] = <<>> /\ recvq'[c] = <<>>
        /\ \A d \in Chans : d # c => /\ sendq'[d] = sendq[d] /\ recvq'[d] = recvq[d]
                                     /\ closed'[d] = closed[d]
    BY DEF CloseFirst, ringVars, ChannelInv, TypeOK, QueueTypeOK, FlagTypeOK
  <2> QED BY <1>2, <2>1 DEF ChannelInv, WaitersMatchCounts
<1> QED BY <1>3, <1>4, <1>5 DEF ChannelInv

(* The return from a parked call touches no ring and no queue.              *)
LEMMA ResumeReturnsInv ==
  ASSUME ChannelInv, NEW t \in Tasks, ResumeReturns(t)
  PROVE  ChannelInv'
<1>1. chan_pending[t] \in Nat
  BY DEF ChannelInv, TypeOK, TaskTypeOK
<1>2. TypeOK'
  <2>1. RingTypeOK'
    BY <1>1 DEF ChannelInv, TypeOK, RingTypeOK, ResumeReturns, ringVars
  <2>2. QueueTypeOK'
    BY <1>1 DEF ChannelInv, TypeOK, QueueTypeOK, ResumeReturns, waitVars
  <2>3. FlagTypeOK'
    BY <1>1 DEF ChannelInv, TypeOK, FlagTypeOK, ResumeReturns
  <2>4. TaskTypeOK'
    <3>1. op' \in [Tasks -> Calls]
      BY DEF ChannelInv, TypeOK, TaskTypeOK, ResumeReturns, Calls
    <3>2. args' \in [Tasks -> Seq(Chans)]
      BY DEF ChannelInv, TypeOK, TaskTypeOK, ResumeReturns
    <3>3. chan_pending' \in [Tasks -> Nat]
      <4>1. chan_pending \in [Tasks -> Nat] /\ Empty \in Nat
        BY DEF ChannelInv, TypeOK, TaskTypeOK, Empty
      <4>2. \/ chan_pending' = [chan_pending EXCEPT ![t] = Empty]
            \/ chan_pending' = chan_pending
        BY DEF ResumeReturns
      <4> QED BY <4>1, <4>2
    <3> QED BY <3>1, <3>2, <3>3 DEF TaskTypeOK
  <2>5. HistoryTypeOK'
    <3>1. sent' = sent /\ got' = got
      BY DEF ResumeReturns
    <3>2. CASE received' = received
      BY <3>1, <3>2 DEF ChannelInv, TypeOK, HistoryTypeOK
    <3>3. CASE received' = [received EXCEPT ![WokeOn(t)] = @ \cup {chan_pending[t]}]
      BY <1>1, <3>1, <3>3 DEF ChannelInv, TypeOK, HistoryTypeOK
    <3> QED BY <3>2, <3>3 DEF ResumeReturns, Returned
  <2> QED BY <2>1, <2>2, <2>3, <2>4, <2>5 DEF TypeOK
<1>3. RingBounds'
  BY DEF ChannelInv, RingBounds, ResumeReturns, ringVars
<1>4. WaitersMatchCounts'
  BY DEF ChannelInv, WaitersMatchCounts, ResumeReturns, ringVars, waitVars
<1> QED BY <1>2, <1>3, <1>4 DEF ChannelInv

(* force_drop_task takes a task out of the queues and adds none.            *)
LEMMA DropParkedInv ==
  ASSUME ChannelInv, NEW t \in Tasks, DropParked(t)
  PROVE  ChannelInv'
<1>1. /\ sendq' \in [Chans -> Seq(Tasks)] /\ recvq' \in [Chans -> Seq(Tasks)]
      /\ \A c \in Chans : (sendq[c] = <<>> => sendq'[c] = <<>>) /\ (recvq[c] = <<>> => recvq'[c] = <<>>)
  BY RemoveType DEF ChannelInv, TypeOK, QueueTypeOK, DropParked
<1>2. /\ selq' \in [Chans -> SUBSET Tasks] /\ elder' \in [Tasks -> SUBSET Tasks]
      /\ \A d \in Chans : selq'[d] \subseteq selq[d]
  <2>1. CASE op[t] = "select"
    BY <2>1, UnlinkType DEF DropParked, DropSelect
  <2>2. CASE op[t] # "select"
    BY <2>2 DEF ChannelInv, TypeOK, QueueTypeOK, DropParked, DropSelect
  <2> QED BY <2>1, <2>2
<1>3. TypeOK'
  <2>1. RingTypeOK'
    BY DEF ChannelInv, TypeOK, RingTypeOK, DropParked, ringVars
  <2>2. QueueTypeOK'
    BY <1>1, <1>2 DEF ChannelInv, TypeOK, QueueTypeOK, DropParked
  <2>3. FlagTypeOK'
    BY DEF ChannelInv, TypeOK, FlagTypeOK, DropParked, histVars
  <2>4. TaskTypeOK'
    BY DEF ChannelInv, TypeOK, TaskTypeOK, DropParked, Calls
  <2>5. HistoryTypeOK'
    BY DEF ChannelInv, TypeOK, HistoryTypeOK, DropParked, histVars
  <2> QED BY <2>1, <2>2, <2>3, <2>4, <2>5 DEF TypeOK
<1>4. RingBounds'
  BY DEF ChannelInv, RingBounds, DropParked, ringVars
<1>5. WaitersMatchCounts'
  <2>1. slots' = slots /\ count' = count /\ closed' = closed
    BY DEF DropParked, ringVars
  <2> QED BY <1>1, <1>2, <2>1 DEF ChannelInv, WaitersMatchCounts
<1> QED BY <1>3, <1>4, <1>5 DEF ChannelInv

(* Every channel call and every resumption keeps the invariant.             *)
LEMMA ChannelNext == ChannelInv /\ [Next]_vars => ChannelInv'
<1> SUFFICES ASSUME ChannelInv, [Next]_vars PROVE ChannelInv'
  OBVIOUS
<1>1. ASSUME NEW t \in Tasks, NEW c \in Chans, Send(t, c) PROVE ChannelInv'
  <2>1. CASE SendOnClosed(t, c)
    BY <2>1, FailInv DEF SendOnClosed
  <2> QED BY <1>1, <2>1, SendToReceiverInv, SendToSelectorInv, SendBufferedInv, SendGrowsInv,
             SendParksInv DEF Send
<1>2. ASSUME NEW t \in Tasks, NEW c \in Chans, RecvTakes(t, c) \/ RecvParks(t, c) PROVE ChannelInv'
  BY <1>2, PollTakeInv, RecvParksInv DEF RecvTakes
<1>3. ASSUME NEW t \in Tasks, NEW c \in Chans, CloseTwice(t, c) \/ CloseFirst(t, c) PROVE ChannelInv'
  BY <1>3, FailInv, CloseFirstInv DEF CloseTwice
<1>4. ASSUME NEW t \in Tasks, NEW l \in SelectLists,
             SelectTakes(t, l) \/ SelectParks(t, l) \/ SelectEmpty(t, l)
      PROVE  ChannelInv'
  <2>1. CASE SelectTakes(t, l)
    <3>1. PICK i \in 1 .. Len(l) : chan_poll_take(l[i])
      BY <2>1 DEF SelectTakes
    <3>2. l[i] \in Chans
      BY <3>1
    <3> QED BY <3>1, <3>2, PollTakeInv
  <2>2. CASE SelectParks(t, l)
    BY <2>2, SelectParksInv
  <2>3. CASE SelectEmpty(t, l)
    BY <2>3, FailInv DEF SelectEmpty
  <2> QED BY <1>4, <2>1, <2>2, <2>3
<1>5. ASSUME NEW t \in Tasks, ResumeSendOnClosed(t) \/ ResumeReturns(t) \/ DropParked(t)
      PROVE  ChannelInv'
  BY <1>5, FailInv, ResumeReturnsInv, DropParkedInv DEF ResumeSendOnClosed
<1>6. CASE UNCHANGED vars
  BY <1>6, FrameInv DEF vars, ChannelInv, TypeOK, FlagTypeOK
<1> QED BY <1>1, <1>2, <1>3, <1>4, <1>5, <1>6 DEF Next

(* Type correctness, the ring's bounds and the wait-queue invariants hold   *)
(* in every reachable state.                                                *)
THEOREM ChannelInvariant == Spec => []ChannelInv
  BY ChannelInit, ChannelNext, PTL DEF Spec

(* The wait-queue invariants that the source states above chan_ring_alloc   *)
(* hold for every capacity, growth policy and number of tasks: senders wait *)
(* only on a full buffer, receivers and selectors only on an empty open     *)
(* channel, and the two never wait on the same channel.                     *)
THEOREM ChannelWaiters == Spec => []WaitersMatchCounts
<1>1. ChannelInv => WaitersMatchCounts
  BY DEF ChannelInv
<1> QED BY <1>1, ChannelInvariant, PTL

-----------------------------------------------------------------------------
(* Channel implements BoundedFifo, for every set of tasks and channels,     *)
(* every capacity (0 included), every first ring size and every list that   *)
(* programs select on.  In three layers, each an inductive invariant that   *)
(* extends the one before:                                                  *)
(*  - LinkInv: a task is linked exactly where its call parked it.  The wait *)
(*    queues say who holds a message, so everything below needs it;         *)
(*  - FifoInv: tail is the slot behind the last message, and Closed was     *)
(*    answered on closed channels only.  A state is mapped to the queue     *)
(*    RingQueue: the ring from head, wrapped, and then the pending words of *)
(*    the parked senders.  The lemmas of the ring algebra say what each     *)
(*    write of the code does to that sequence (append, cut the head, drop   *)
(*    one behind the bound), and each action is then one abstract step;     *)
(*  - HandInv: no message is in two places (MessagesSound, which follows    *)
(*    from the abstract steps alone) and each one taken out is returned or  *)
(*    in the pending word of one woken receiver.                            *)

HIDE MaxSendsAssumption
HIDE SelectListsAssumption
HIDE InitialSlotsAssumption
HIDE CapAssumption

------------------------------------------------------------------------------
(* Wait queues.                                                             *)

\* q holds no task twice.
NoDup(q) == \A i, j \in 1 .. Len(q) : q[i] = q[j] => i = j

(* Parking at the end of a wait queue adds one task.                        *)
LEMMA AppendElems ==
  ASSUME NEW S, NEW q \in Seq(S), NEW t \in S
  PROVE  /\ Elems(Append(q, t)) = Elems(q) \cup {t}
         /\ NoDup(q) /\ t \notin Elems(q) => NoDup(Append(q, t))
<1>1. /\ Append(q, t) \in Seq(S) /\ Len(Append(q, t)) = Len(q) + 1 /\ Len(q) \in Nat
      /\ \A i \in 1 .. Len(q) : Append(q, t)[i] = q[i]
      /\ Append(q, t)[Len(q) + 1] = t
  BY AppendProperties
<1>2. Elems(Append(q, t)) = Elems(q) \cup {t}
  <2>1. ASSUME NEW x \in Elems(Append(q, t)) PROVE x \in Elems(q) \cup {t}
    BY <1>1, <2>1 DEF Elems
  <2>2. ASSUME NEW x \in Elems(q) PROVE x \in Elems(Append(q, t))
    <3>1. PICK i \in 1 .. Len(q) : x = q[i]
      BY DEF Elems
    <3> QED BY <1>1, <3>1 DEF Elems
  <2>3. t \in Elems(Append(q, t))
    BY <1>1 DEF Elems
  <2> QED BY <2>1, <2>2, <2>3
<1>3. ASSUME NoDup(q), t \notin Elems(q) PROVE NoDup(Append(q, t))
  BY <1>1, <1>3 DEF NoDup, Elems
<1> QED BY <1>2, <1>3

(* Unlinking the head of a wait queue.                                      *)
LEMMA TailElems ==
  ASSUME NEW S, NEW q \in Seq(S), q # <<>>
  PROVE  /\ Head(q) \in Elems(q) /\ Head(q) = q[1]
         /\ Len(Tail(q)) = Len(q) - 1 /\ Len(q) \in Nat \ {0}
         /\ \A i \in 1 .. Len(q) - 1 : Tail(q)[i] = q[i + 1]
         /\ NoDup(q) => Elems(Tail(q)) = Elems(q) \ {Head(q)} /\ NoDup(Tail(q))
<1>1. /\ Len(q) \in Nat \ {0} /\ Len(Tail(q)) = Len(q) - 1 /\ Head(q) = q[1]
      /\ \A i \in 1 .. Len(q) - 1 : Tail(q)[i] = q[i + 1]
  BY HeadTailProperties, EmptySeq
<1>2. Head(q) \in Elems(q)
  BY <1>1 DEF Elems
<1>3. ASSUME NoDup(q) PROVE Elems(Tail(q)) = Elems(q) \ {Head(q)} /\ NoDup(Tail(q))
  <2>1. NoDup(Tail(q))
    BY <1>1, <1>3 DEF NoDup
  <2>2. ASSUME NEW x \in Elems(Tail(q)) PROVE x \in Elems(q) /\ x # Head(q)
    <3>1. PICK i \in 1 .. Len(q) - 1 : x = q[i + 1]
      BY <1>1 DEF Elems
    <3> QED BY <1>1, <1>3, <3>1 DEF NoDup, Elems
  <2>3. ASSUME NEW x \in Elems(q), x # Head(q) PROVE x \in Elems(Tail(q))
    <3>1. PICK i \in 1 .. Len(q) : x = q[i]
      BY DEF Elems
    <3>2. i - 1 \in 1 .. Len(q) - 1 /\ Tail(q)[i - 1] = x
      BY <1>1, <2>3, <3>1
    <3> QED BY <1>1, <3>2 DEF Elems
  <2> QED BY <2>1, <2>2, <2>3
<1> QED BY <1>1, <1>2, <1>3

\* chan_q_remove drops the place of t and moves up what is behind it.
LEMMA RemoveShape ==
  ASSUME NEW S, NEW q \in Seq(S), NEW t \in Elems(q)
  PROVE  \E k \in 1 .. Len(q) :
           /\ q[k] = t
           /\ chan_q_remove(q, t) = SubSeq(q, 1, k - 1) \o SubSeq(q, k + 1, Len(q))
           /\ chan_q_remove(q, t) \in Seq(S)
           /\ Len(chan_q_remove(q, t)) = Len(q) - 1
           /\ \A i \in 1 .. Len(q) - 1 :
                chan_q_remove(q, t)[i] = IF i < k THEN q[i] ELSE q[i + 1]
<1> DEFINE k == CHOOSE j \in 1 .. Len(q) : q[j] = t
           u == SubSeq(q, 1, k - 1)
           v == SubSeq(q, k + 1, Len(q))
<1>1. k \in 1 .. Len(q) /\ q[k] = t
  BY DEF Elems
<1>2. chan_q_remove(q, t) = u \o v
  BY DEF chan_q_remove
<1> HIDE DEF k
<1>3. Len(q) \in Nat
  OBVIOUS
<1>4. u \in Seq(S) /\ Len(u) = k - 1 /\ \A i \in 1 .. k - 1 : u[i] = q[i]
  BY <1>1, <1>3, SubSeqProperties
<1>5. v \in Seq(S) /\ Len(v) = Len(q) - k /\ \A i \in 1 .. Len(q) - k : v[i] = q[k + i]
  <2>1. CASE k = Len(q)
    <3>1. v = << >>
      BY <1>1, <1>3, <2>1, SubSeqProperties
    <3> QED BY <1>1, <1>3, <2>1, <3>1
  <2>2. CASE k < Len(q)
    <3>1. k + 1 \in 1 .. Len(q) /\ Len(q) \in 1 .. Len(q) + 1
      BY <1>1, <1>3, <2>2
    <3> QED BY <1>1, <1>3, <2>2, <3>1, SubSeqProperties
  <2> QED BY <1>1, <1>3, <2>1, <2>2
<1> HIDE DEF u, v
<1>6. /\ u \o v \in Seq(S) /\ Len(u \o v) = Len(q) - 1
      /\ \A i \in 1 .. Len(q) - 1 : (u \o v)[i] = IF i < k THEN q[i] ELSE q[i + 1]
  <2>1. /\ u \o v \in Seq(S) /\ Len(u \o v) = Len(u) + Len(v)
        /\ \A i \in 1 .. Len(u) + Len(v) : (u \o v)[i] = IF i <= Len(u) THEN u[i] ELSE v[i - Len(u)]
    BY <1>4, <1>5, ConcatProperties
  <2>2. Len(u) + Len(v) = Len(q) - 1
    BY <1>1, <1>3, <1>4, <1>5
  <2>3. ASSUME NEW i \in 1 .. Len(q) - 1 PROVE (u \o v)[i] = IF i < k THEN q[i] ELSE q[i + 1]
    <3>1. CASE i < k
      <4>1. i \in 1 .. k - 1 /\ i <= Len(u)
        BY <1>1, <1>3, <1>4, <3>1
      <4> QED BY <1>4, <2>1, <2>2, <3>1, <4>1
    <3>2. CASE ~(i < k)
      <4>1. i - Len(u) \in 1 .. Len(q) - k /\ ~(i <= Len(u)) /\ k + (i - Len(u)) = i + 1
        BY <1>1, <1>3, <1>4, <3>2
      <4> QED BY <1>5, <2>1, <2>2, <3>2, <4>1
    <3> QED BY <3>1, <3>2
  <2> QED BY <2>1, <2>2, <2>3
<1> QED BY <1>1, <1>2, <1>6 DEF u, v

(* Unlinking a task from the middle removes it and nobody else.             *)
LEMMA RemoveElems ==
  ASSUME NEW S, NEW q \in Seq(S), NEW t, NoDup(q)
  PROVE  Elems(chan_q_remove(q, t)) = Elems(q) \ {t} /\ NoDup(chan_q_remove(q, t))
<1>1. CASE t \notin Elems(q)
  BY <1>1 DEF chan_q_remove
<1>2. CASE t \in Elems(q)
  <2> DEFINE r == chan_q_remove(q, t)
  <2>1. PICK k \in 1 .. Len(q) :
           /\ q[k] = t
           /\ Len(r) = Len(q) - 1
           /\ \A i \in 1 .. Len(q) - 1 : r[i] = IF i < k THEN q[i] ELSE q[i + 1]
    BY <1>2, RemoveShape, ZenonT(30)
  <2>2. Len(q) \in Nat
    OBVIOUS
  <2> HIDE DEF r
  <2>3. NoDup(r)
    BY <2>1, <2>2 DEF NoDup
  <2>4. ASSUME NEW x \in Elems(r) PROVE x \in Elems(q) /\ x # t
    <3>1. PICK i \in 1 .. Len(q) - 1 : x = IF i < k THEN q[i] ELSE q[i + 1]
      BY <2>1 DEF Elems
    <3> QED BY <2>1, <2>2, <3>1 DEF NoDup, Elems
  <2>5. ASSUME NEW x \in Elems(q), x # t PROVE x \in Elems(r)
    <3>1. PICK i \in 1 .. Len(q) : x = q[i]
      BY DEF Elems
    <3>2. i # k
      BY <2>1, <2>5, <3>1
    <3>3. CASE i < k
      BY <2>1, <2>2, <3>1, <3>3 DEF Elems
    <3>4. CASE i > k
      <4>1. i - 1 \in 1 .. Len(r) /\ r[i - 1] = x
        BY <2>1, <2>2, <3>1, <3>4
      <4> QED BY <4>1 DEF Elems
    <3> QED BY <3>2, <3>3, <3>4
  <2> QED BY <2>3, <2>4, <2>5 DEF r
<1> QED BY <1>1, <1>2

(* A queue without repetition is as long as its set of tasks.               *)
LEMMA NoDupCount ==
  ASSUME NEW S, NEW q \in Seq(S), NoDup(q)
  PROVE  Cardinality(Elems(q)) = Len(q)
<1>1. Len(q) \in Nat /\ DOMAIN q = 1 .. Len(q)
  OBVIOUS
<1>2. IsFiniteSet(1 .. Len(q)) /\ Cardinality(1 .. Len(q)) = Len(q)
  BY <1>1, FS_Interval
<1>3. q \in Bijection(1 .. Len(q), Elems(q))
  <2>1. q \in [1 .. Len(q) -> Elems(q)]
    BY <1>1 DEF Elems
  <2>2. q \in Injection(1 .. Len(q), Elems(q))
    BY <2>1 DEF Injection, IsInjective, NoDup
  <2>3. q \in Surjection(1 .. Len(q), Elems(q))
    BY <2>1 DEF Surjection, Elems
  <2> QED BY <2>2, <2>3 DEF Bijection
<1> QED BY <1>2, <1>3, FS_Bijection DEF ExistsBijection

-----------------------------------------------------------------------------
(* Links.                                                                   *)

\* LinkedWhereParked, with NoDup for the count of the queue.
Linked ==
  /\ \A c \in Chans, t \in Tasks :
       /\ t \in Elems(sendq[c]) <=> Parked(t) /\ op[t] = "send" /\ args[t][1] = c
       /\ t \in Elems(recvq[c]) <=> Parked(t) /\ op[t] = "recv" /\ args[t][1] = c
       /\ t \in selq[c] <=> Parked(t) /\ op[t] = "select" /\ c \in Elems(args[t])
  /\ \A c \in Chans : NoDup(sendq[c]) /\ NoDup(recvq[c])

\* A task is woken out of a call, and a fired select knows its channel.
WakeSound ==
  /\ sel_fired_index \in [Tasks -> Nat]
  /\ \A t \in Tasks :
       /\ chan_closed_wake[t] => woken[t]
       /\ woken[t] => op[t] \in {"send", "recv", "select"}
       /\ op[t] \in {"send", "recv"} => args[t] # <<>>
       /\ op[t] = "select" /\ woken[t] => sel_fired_index[t] \in 1 .. Len(args[t])

LinkInv == ChannelInv /\ Linked /\ WakeSound

(* Waking the parked tasks W and unlinking them everywhere, as a handoff    *)
(* and chan_close do.                                                       *)
LEMMA WakeStep ==
  ASSUME LinkInv, NEW W \in SUBSET Tasks, \A u \in W : Parked(u),
         op' = op, args' = args,
         \A u \in Tasks : woken'[u] <=> woken[u] \/ u \in W,
         \A u \in Tasks : chan_closed_wake'[u] => chan_closed_wake[u] \/ u \in W,
         sel_fired_index' \in [Tasks -> Nat],
         \A u \in Tasks : IF u \in W /\ op[u] = "select"
                            THEN sel_fired_index'[u] \in 1 .. Len(args[u])
                            ELSE sel_fired_index'[u] = sel_fired_index[u],
         \A d \in Chans : /\ Elems(sendq'[d]) = Elems(sendq[d]) \ W /\ NoDup(sendq'[d])
                          /\ Elems(recvq'[d]) = Elems(recvq[d]) \ W /\ NoDup(recvq'[d])
                          /\ selq'[d] = selq[d] \ W
  PROVE  Linked' /\ WakeSound'
<1>1. Linked'
  <2>1. ASSUME NEW d \in Chans, NEW u \in Tasks
        PROVE  /\ u \in Elems(sendq'[d]) <=> Parked(u)' /\ op'[u] = "send" /\ args'[u][1] = d
               /\ u \in Elems(recvq'[d]) <=> Parked(u)' /\ op'[u] = "recv" /\ args'[u][1] = d
               /\ u \in selq'[d] <=> Parked(u)' /\ op'[u] = "select" /\ d \in Elems(args'[u])
    <3>1. Parked(u)' <=> Parked(u) /\ u \notin W
      BY DEF Parked
    <3> QED BY <3>1 DEF LinkInv, Linked
  <2> QED BY <2>1 DEF Linked
<1>2. WakeSound'
  BY DEF LinkInv, WakeSound, Parked
<1> QED BY <1>1, <1>2

(* A running task parks in call o on the channels l.                        *)
LEMMA ParkStep ==
  ASSUME LinkInv, NEW t \in Tasks, NEW o \in {"send", "recv", "select"}, NEW l \in Seq(Chans),
         l # <<>>, op[t] = "none",
         op'[t] = o, args'[t] = l, woken' = woken,
         \A u \in Tasks : u # t => op'[u] = op[u] /\ args'[u] = args[u],
         chan_closed_wake' = chan_closed_wake, sel_fired_index' = sel_fired_index,
         \A d \in Chans :
           /\ \A u \in Tasks :
                /\ u \in Elems(sendq'[d]) <=> u \in Elems(sendq[d]) \/ (u = t /\ o = "send" /\ l[1] = d)
                /\ u \in Elems(recvq'[d]) <=> u \in Elems(recvq[d]) \/ (u = t /\ o = "recv" /\ l[1] = d)
                /\ u \in selq'[d] <=> u \in selq[d] \/ (u = t /\ o = "select" /\ d \in Elems(l))
           /\ NoDup(sendq'[d]) /\ NoDup(recvq'[d])
  PROVE  Linked' /\ WakeSound'
<1>1. ~woken[t] /\ ~Parked(t)
  BY DEF LinkInv, WakeSound, Parked
<1>2. /\ woken' = woken /\ chan_closed_wake' = chan_closed_wake /\ sel_fired_index' = sel_fired_index
      /\ op'[t] = o /\ args'[t] = l
      /\ \A u \in Tasks : u # t => op'[u] = op[u] /\ args'[u] = args[u]
  BY DEF LinkInv, ChannelInv, TypeOK, TaskTypeOK
<1>3. Linked'
  <2>1. ASSUME NEW d \in Chans, NEW u \in Tasks
        PROVE  /\ u \in Elems(sendq'[d]) <=> Parked(u)' /\ op'[u] = "send" /\ args'[u][1] = d
               /\ u \in Elems(recvq'[d]) <=> Parked(u)' /\ op'[u] = "recv" /\ args'[u][1] = d
               /\ u \in selq'[d] <=> Parked(u)' /\ op'[u] = "select" /\ d \in Elems(args'[u])
    <3>1. CASE u = t
      <4>1. u \notin Elems(sendq[d]) /\ u \notin Elems(recvq[d]) /\ u \notin selq[d]
        BY <1>1, <3>1 DEF LinkInv, Linked
      <4>2. Parked(u)' /\ op'[u] = o /\ args'[u] = l
        BY <1>1, <1>2, <3>1 DEF Parked
      <4> QED BY <3>1, <4>1, <4>2
    <3>2. CASE u # t
      <4>1. Parked(u)' <=> Parked(u)
        BY <1>2, <3>2 DEF Parked
      <4> QED BY <1>2, <3>2, <4>1 DEF LinkInv, Linked
    <3> QED BY <3>1, <3>2
  <2> QED BY <2>1 DEF Linked
<1>4. WakeSound'
  <2>1. ASSUME NEW u \in Tasks
        PROVE  /\ chan_closed_wake'[u] => woken'[u]
               /\ woken'[u] => op'[u] \in {"send", "recv", "select"}
               /\ op'[u] \in {"send", "recv"} => args'[u] # <<>>
               /\ op'[u] = "select" /\ woken'[u] => sel_fired_index'[u] \in 1 .. Len(args'[u])
    <3>1. CASE u = t
      BY <1>1, <1>2, <3>1 DEF LinkInv, WakeSound
    <3>2. CASE u # t
      BY <1>2, <3>2 DEF LinkInv, WakeSound
    <3> QED BY <3>1, <3>2
  <2> QED BY <1>2, <2>1 DEF LinkInv, WakeSound
<1> QED BY <1>3, <1>4

(* A task leaves its call, by returning or by being dropped.                *)
LEMMA LeaveStep ==
  ASSUME LinkInv, NEW t \in Tasks, NEW o \in {"none", "dropped"},
         op' = [op EXCEPT ![t] = o], args' = [args EXCEPT ![t] = <<>>],
         ~woken'[t], ~chan_closed_wake'[t], sel_fired_index' = sel_fired_index,
         \A u \in Tasks : u # t => woken'[u] = woken[u] /\ chan_closed_wake'[u] = chan_closed_wake[u],
         \A d \in Chans : /\ Elems(sendq'[d]) = Elems(sendq[d]) \ {t} /\ NoDup(sendq'[d])
                          /\ Elems(recvq'[d]) = Elems(recvq[d]) \ {t} /\ NoDup(recvq'[d])
                          /\ selq'[d] = selq[d] \ {t}
  PROVE  Linked' /\ WakeSound'
<1>2. /\ op'[t] = o /\ args'[t] = <<>>
      /\ \A u \in Tasks : u # t => op'[u] = op[u] /\ args'[u] = args[u]
  BY DEF LinkInv, ChannelInv, TypeOK, TaskTypeOK
<1>3. Linked'
  <2>1. ASSUME NEW d \in Chans, NEW u \in Tasks
        PROVE  /\ u \in Elems(sendq'[d]) <=> Parked(u)' /\ op'[u] = "send" /\ args'[u][1] = d
               /\ u \in Elems(recvq'[d]) <=> Parked(u)' /\ op'[u] = "recv" /\ args'[u][1] = d
               /\ u \in selq'[d] <=> Parked(u)' /\ op'[u] = "select" /\ d \in Elems(args'[u])
    <3>1. CASE u = t
      BY <1>2, <3>1 DEF Parked
    <3>2. CASE u # t
      <4>1. Parked(u)' <=> Parked(u)
        BY <1>2, <3>2 DEF Parked
      <4>2. op'[u] = op[u] /\ args'[u] = args[u]
        BY <1>2, <3>2
      <4>3. /\ u \in Elems(sendq'[d]) <=> u \in Elems(sendq[d])
            /\ u \in Elems(recvq'[d]) <=> u \in Elems(recvq[d])
            /\ u \in selq'[d] <=> u \in selq[d]
        BY <3>2
      <4>4. /\ u \in Elems(sendq[d]) <=> Parked(u) /\ op[u] = "send" /\ args[u][1] = d
            /\ u \in Elems(recvq[d]) <=> Parked(u) /\ op[u] = "recv" /\ args[u][1] = d
            /\ u \in selq[d] <=> Parked(u) /\ op[u] = "select" /\ d \in Elems(args[u])
        BY DEF LinkInv, Linked
      <4> QED BY <4>1, <4>2, <4>3, <4>4
    <3> QED BY <3>1, <3>2
  <2> QED BY <2>1 DEF Linked
<1>4. WakeSound'
  <2>1. ASSUME NEW u \in Tasks
        PROVE  /\ chan_closed_wake'[u] => woken'[u]
               /\ woken'[u] => op'[u] \in {"send", "recv", "select"}
               /\ op'[u] \in {"send", "recv"} => args'[u] # <<>>
               /\ op'[u] = "select" /\ woken'[u] => sel_fired_index'[u] \in 1 .. Len(args'[u])
    <3>1. CASE u = t
      BY <1>2, <3>1 DEF LinkInv, WakeSound
    <3>2. CASE u # t
      BY <1>2, <3>2 DEF LinkInv, WakeSound
    <3> QED BY <3>1, <3>2
  <2> QED BY <2>1 DEF LinkInv, WakeSound
<1> QED BY <1>3, <1>4

(* A step that leaves the queues and the calls alone.                       *)
LEMMA LinkFrame ==
  ASSUME LinkInv, sendq' = sendq, recvq' = recvq, selq' = selq, op' = op, woken' = woken,
         args' = args, chan_closed_wake' = chan_closed_wake, sel_fired_index' = sel_fired_index
  PROVE  Linked' /\ WakeSound'
  BY DEF LinkInv, Linked, WakeSound, Parked

(* A selector is fired on an index of its list that holds the channel.      *)
LEMMA FiredOn ==
  ASSUME NEW t, args[t] \in Seq(Chans), NEW c \in Elems(args[t])
  PROVE  FiredIndex(t, c) \in 1 .. Len(args[t]) /\ args[t][FiredIndex(t, c)] = c
<1> DEFINE R == OpToRel(<, Nat)
           D == {i \in 1 .. Len(args[t]) : args[t][i] = c}
<1>1. Len(args[t]) \in Nat /\ D \subseteq Nat /\ D # {}
  BY DEF Elems
<1>2. \A p \in Nat \X Nat : p[1] < p[2] => p \in R
  BY Zenon DEF OpToRel
<1>3. IsWellFoundedOn(R, Nat)
  BY NatLessThanWellFounded
<1> HIDE DEF R
<1>4. PICK i \in D : \A j \in D : ~ (<<j, i>> \in R)
  BY <1>1, <1>3, WFMin
<1>5. i \in 1 .. Len(args[t]) /\ args[t][i] = c /\ \A j \in 1 .. i - 1 : args[t][j] # c
  <2>1. ASSUME NEW j \in 1 .. i - 1, args[t][j] = c PROVE FALSE
    <3>1. j \in D /\ j < i /\ <<j, i>> \in Nat \X Nat
      BY <1>1, <2>1
    <3>2. <<j, i>> \in R
      BY <1>2, <3>1
    <3> QED BY <1>4, <3>1, <3>2
  <2> QED BY <2>1
<1> QED BY <1>5 DEF FiredIndex

(* Nobody waits at first.                                                   *)
LEMMA LinkInit == Init => LinkInv
<1> SUFFICES ASSUME Init PROVE LinkInv
  OBVIOUS
<1>1. ChannelInv
  BY ChannelInit
<1>2. Linked
  <2>1. Elems(<<>>) = {} /\ NoDup(<<>>)
    BY DEF Elems, NoDup
  <2> QED BY <2>1 DEF Init, Linked, Parked
<1>3. WakeSound
  BY DEF Init, WakeSound
<1> QED BY <1>1, <1>2, <1>3 DEF LinkInv

(* What a wait queue's elements are known to be.                            *)
LEMMA LinkedTypes ==
  ASSUME LinkInv
  PROVE  /\ sendq \in [Chans -> Seq(Tasks)] /\ recvq \in [Chans -> Seq(Tasks)]
         /\ selq \in [Chans -> SUBSET Tasks]
         /\ woken \in [Tasks -> BOOLEAN] /\ chan_closed_wake \in [Tasks -> BOOLEAN]
         /\ sel_fired_index \in [Tasks -> Nat]
         /\ op \in [Tasks -> Calls] /\ args \in [Tasks -> Seq(Chans)]
         /\ \A d \in Chans : NoDup(sendq[d]) /\ NoDup(recvq[d])
         /\ \A d \in Chans, u \in Tasks :
              /\ u \in Elems(sendq[d]) => Parked(u) /\ op[u] = "send" /\ args[u][1] = d
              /\ u \in Elems(recvq[d]) => Parked(u) /\ op[u] = "recv" /\ args[u][1] = d
              /\ u \in selq[d] => Parked(u) /\ op[u] = "select" /\ d \in Elems(args[u])
         /\ \A d \in Chans : Elems(sendq[d]) \subseteq Tasks /\ Elems(recvq[d]) \subseteq Tasks
<1>1. sendq \in [Chans -> Seq(Tasks)] /\ recvq \in [Chans -> Seq(Tasks)]
  BY DEF LinkInv, ChannelInv, TypeOK, QueueTypeOK
<1>2. \A d \in Chans : Elems(sendq[d]) \subseteq Tasks /\ Elems(recvq[d]) \subseteq Tasks
  BY <1>1 DEF Elems
<1>3. selq \in [Chans -> SUBSET Tasks]
  BY DEF LinkInv, ChannelInv, TypeOK, QueueTypeOK
<1>4. woken \in [Tasks -> BOOLEAN] /\ chan_closed_wake \in [Tasks -> BOOLEAN]
  BY DEF LinkInv, ChannelInv, TypeOK, FlagTypeOK
<1>5. sel_fired_index \in [Tasks -> Nat]
  BY DEF LinkInv, WakeSound
<1>6. op \in [Tasks -> Calls] /\ args \in [Tasks -> Seq(Chans)]
  BY DEF LinkInv, ChannelInv, TypeOK, TaskTypeOK
<1> QED BY <1>1, <1>2, <1>3, <1>4, <1>5, <1>6 DEF LinkInv, Linked

(* The receiver that a send wakes is unlinked.                              *)
LEMMA SendToReceiverLink ==
  ASSUME LinkInv, NEW t \in Tasks, NEW c \in Chans, SendToReceiver(t, c)
  PROVE  Linked' /\ WakeSound'
<1> DEFINE r == Head(recvq[c])
<1>1. /\ recvq[c] # <<>> /\ recvq' = [recvq EXCEPT ![c] = Tail(recvq[c])]
      /\ woken' = [woken EXCEPT ![r] = TRUE]
      /\ UNCHANGED <<sendq, selq, op, args, chan_closed_wake, sel_fired_index>>
  BY DEF SendToReceiver
<1>2. r \in Elems(recvq[c]) /\ Elems(Tail(recvq[c])) = Elems(recvq[c]) \ {r} /\ NoDup(Tail(recvq[c]))
  BY <1>1, TailElems, LinkedTypes
<1>3. r \in Tasks /\ Parked(r) /\ op[r] = "recv" /\ args[r][1] = c
  BY <1>2, LinkedTypes
<1> HIDE DEF r
<1>4. \A d \in Chans : Elems(recvq'[d]) = Elems(recvq[d]) \ {r} /\ NoDup(recvq'[d])
  <2>1. ASSUME NEW d \in Chans PROVE Elems(recvq'[d]) = Elems(recvq[d]) \ {r} /\ NoDup(recvq'[d])
    <3>1. CASE d = c
      BY <1>1, <1>2, <3>1, LinkedTypes
    <3>2. CASE d # c
      <4>1. recvq'[d] = recvq[d] /\ r \notin Elems(recvq[d]) /\ NoDup(recvq[d])
        BY <1>1, <1>3, <3>2, LinkedTypes
      <4> QED BY <4>1
    <3> QED BY <3>1, <3>2
  <2> QED BY <2>1
<1>5. \A d \in Chans : r \notin Elems(sendq[d]) /\ r \notin selq[d]
  BY <1>3, LinkedTypes
<1>6. \A u \in Tasks : woken'[u] <=> woken[u] \/ u \in {r}
  BY <1>1, <1>3, LinkedTypes
<1>7. \A d \in Chans : /\ Elems(sendq'[d]) = Elems(sendq[d]) \ {r} /\ NoDup(sendq'[d])
                       /\ selq'[d] = selq[d] \ {r}
  BY <1>1, <1>5, LinkedTypes
<1>8. op' = op /\ args' = args /\ chan_closed_wake' = chan_closed_wake /\ sel_fired_index' = sel_fired_index
  BY <1>1
<1>9. /\ \A u \in Tasks : IF u \in {r} /\ op[u] = "select"
                            THEN sel_fired_index'[u] \in 1 .. Len(args[u])
                            ELSE sel_fired_index'[u] = sel_fired_index[u]
      /\ sel_fired_index' \in [Tasks -> Nat]
      /\ \A u \in Tasks : chan_closed_wake'[u] => chan_closed_wake[u] \/ u \in {r}
      /\ {r} \in SUBSET Tasks /\ \A u \in {r} : Parked(u)
  BY <1>3, <1>8, LinkedTypes
<1> HIDE DEF r
<1> QED BY <1>4, <1>6, <1>7, <1>8, <1>9, WakeStep

(* select_fire unlinks the selector from every channel of its list.         *)
LEMMA SendToSelectorLink ==
  ASSUME LinkInv, NEW t \in Tasks, NEW c \in Chans, SendToSelector(t, c)
  PROVE  Linked' /\ WakeSound'
<1>1. PICK st \in selq[c] :
       /\ chan_closed_wake' = [chan_closed_wake EXCEPT ![st] = FALSE]
       /\ sel_fired_index' = [sel_fired_index EXCEPT ![st] = FiredIndex(st, c)]
       /\ woken' = [woken EXCEPT ![st] = TRUE]
       /\ select_unlink_all({st})
  BY DEF SendToSelector
<1>2. UNCHANGED <<sendq, recvq, op, args>>
  BY DEF SendToSelector
<1>3. st \in Tasks /\ Parked(st) /\ op[st] = "select" /\ c \in Elems(args[st]) /\ args[st] \in Seq(Chans)
  BY LinkedTypes
<1>4. FiredIndex(st, c) \in 1 .. Len(args[st]) /\ Len(args[st]) \in Nat
  BY <1>3, FiredOn
<1>5. \A d \in Chans : selq'[d] = selq[d] \ {st}
  BY <1>1 DEF select_unlink_all
<1>6. \A d \in Chans : st \notin Elems(sendq[d]) /\ st \notin Elems(recvq[d])
  BY <1>3, LinkedTypes
<1>7. \A d \in Chans : /\ Elems(sendq'[d]) = Elems(sendq[d]) \ {st} /\ NoDup(sendq'[d])
                       /\ Elems(recvq'[d]) = Elems(recvq[d]) \ {st} /\ NoDup(recvq'[d])
  BY <1>2, <1>6, LinkedTypes
<1>8. \A u \in Tasks : woken'[u] <=> woken[u] \/ u \in {st}
  BY <1>1, <1>3, LinkedTypes
<1>9. \A u \in Tasks : chan_closed_wake'[u] => chan_closed_wake[u] \/ u \in {st}
  BY <1>1, <1>3, LinkedTypes
<1>10. /\ sel_fired_index' \in [Tasks -> Nat]
       /\ \A u \in Tasks : IF u \in {st} /\ op[u] = "select"
                             THEN sel_fired_index'[u] \in 1 .. Len(args[u])
                             ELSE sel_fired_index'[u] = sel_fired_index[u]
  <2>1. FiredIndex(st, c) \in Nat
    BY <1>4
  <2>2. sel_fired_index' \in [Tasks -> Nat] /\ sel_fired_index'[st] = FiredIndex(st, c)
        /\ \A u \in Tasks : u # st => sel_fired_index'[u] = sel_fired_index[u]
    BY <1>1, <1>3, <2>1, LinkedTypes
  <2> QED BY <1>3, <1>4, <2>2
<1>11. op' = op /\ args' = args /\ {st} \in SUBSET Tasks /\ \A u \in {st} : Parked(u)
  BY <1>2, <1>3
<1> QED BY <1>5, <1>7, <1>8, <1>9, <1>10, <1>11, WakeStep

(* The sender that a take wakes is unlinked.                                *)
LEMMA WakeSenderLink ==
  ASSUME LinkInv, NEW c \in Chans, sendq[c] # <<>>,
         sendq' = [sendq EXCEPT ![c] = Tail(sendq[c])],
         woken' = [woken EXCEPT ![Head(sendq[c])] = TRUE],
         UNCHANGED <<recvq, selq, op, args, chan_closed_wake, sel_fired_index>>
  PROVE  Linked' /\ WakeSound'
<1> DEFINE r == Head(sendq[c])
<1>2. r \in Elems(sendq[c]) /\ Elems(Tail(sendq[c])) = Elems(sendq[c]) \ {r} /\ NoDup(Tail(sendq[c]))
  BY TailElems, LinkedTypes
<1>3. r \in Tasks /\ Parked(r) /\ op[r] = "send" /\ args[r][1] = c
  BY <1>2, LinkedTypes
<1>1. woken' = [woken EXCEPT ![r] = TRUE]
  OBVIOUS
<1> HIDE DEF r
<1>4. \A d \in Chans : Elems(sendq'[d]) = Elems(sendq[d]) \ {r} /\ NoDup(sendq'[d])
  <2>1. ASSUME NEW d \in Chans PROVE Elems(sendq'[d]) = Elems(sendq[d]) \ {r} /\ NoDup(sendq'[d])
    <3>1. CASE d = c
      BY <1>2, <3>1, LinkedTypes
    <3>2. CASE d # c
      <4>1. sendq'[d] = sendq[d] /\ r \notin Elems(sendq[d]) /\ NoDup(sendq[d])
        BY <1>3, <3>2, LinkedTypes
      <4> QED BY <4>1
    <3> QED BY <3>1, <3>2
  <2> QED BY <2>1
<1>5. \A d \in Chans : r \notin Elems(recvq[d]) /\ r \notin selq[d]
  BY <1>3, LinkedTypes
<1>6. \A u \in Tasks : woken'[u] <=> woken[u] \/ u \in {r}
  BY <1>1, <1>3, LinkedTypes
<1>7. \A d \in Chans : /\ Elems(recvq'[d]) = Elems(recvq[d]) \ {r} /\ NoDup(recvq'[d])
                       /\ selq'[d] = selq[d] \ {r}
  BY <1>5, LinkedTypes
<1>9. /\ \A u \in Tasks : IF u \in {r} /\ op[u] = "select"
                            THEN sel_fired_index'[u] \in 1 .. Len(args[u])
                            ELSE sel_fired_index'[u] = sel_fired_index[u]
      /\ sel_fired_index' \in [Tasks -> Nat]
      /\ \A u \in Tasks : chan_closed_wake'[u] => chan_closed_wake[u] \/ u \in {r}
      /\ {r} \in SUBSET Tasks /\ \A u \in {r} : Parked(u)
      /\ op' = op /\ args' = args
  BY <1>3, LinkedTypes
<1> QED BY <1>4, <1>6, <1>7, <1>9, WakeStep

(* chan_poll_take unlinks at most the sender it wakes.                      *)
LEMMA PollTakeLink ==
  ASSUME LinkInv, NEW c \in Chans, chan_poll_take(c)
  PROVE  Linked' /\ WakeSound'
<1>1. UNCHANGED <<recvq, selq, op, args, chan_closed_wake, sel_fired_index>>
  BY DEF chan_poll_take
<1>2. CASE TakeBuffered(c) \/ TakeClosed(c)
  <2>1. sendq' = sendq /\ woken' = woken
    BY <1>2 DEF TakeBuffered, TakeClosed
  <2> QED BY <1>1, <2>1, LinkFrame
<1>3. CASE TakeBufferedRefill(c) \/ TakeRendezvous(c)
  <2>1. /\ sendq[c] # <<>> /\ sendq' = [sendq EXCEPT ![c] = Tail(sendq[c])]
        /\ woken' = [woken EXCEPT ![Head(sendq[c])] = TRUE]
    BY <1>3 DEF TakeBufferedRefill, TakeRendezvous
  <2> QED BY <1>1, <2>1, WakeSenderLink
<1> QED BY <1>2, <1>3 DEF chan_poll_take

(* A sender parks on one channel.                                           *)
LEMMA SendParksLink ==
  ASSUME LinkInv, NEW t \in Tasks, NEW c \in Chans, SendParks(t, c)
  PROVE  Linked' /\ WakeSound'
<1>1. /\ op[t] = "none" /\ ParkAs(t, "send", <<c>>)
      /\ sendq' = [sendq EXCEPT ![c] = Append(sendq[c], t)] /\ recvq' = recvq /\ selq' = selq
  BY DEF SendParks, CanSend, CanCall
<1>2. t \notin Elems(sendq[c])
  BY <1>1, LinkedTypes
<1>3. Elems(Append(sendq[c], t)) = Elems(sendq[c]) \cup {t} /\ NoDup(Append(sendq[c], t))
  BY <1>2, LinkedTypes, AppendElems
<1>4. /\ sendq'[c] = Append(sendq[c], t)
      /\ \A d \in Chans : d # c => sendq'[d] = sendq[d]
  BY <1>1, LinkedTypes
<1>5. <<c>> \in Seq(Chans) /\ <<c>> # <<>> /\ <<c>>[1] = c
  OBVIOUS
<1>l. PICK l \in Seq(Chans) : l = <<c>>
  BY <1>5
<1>o. PICK o \in {"send", "recv", "select"} : o = "send"
  OBVIOUS
<1>7. /\ op[t] = "none" /\ l # <<>>
      /\ op'[t] = o /\ args'[t] = l
      /\ \A u \in Tasks : u # t => op'[u] = op[u] /\ args'[u] = args[u]
      /\ woken' = woken /\ chan_closed_wake' = chan_closed_wake /\ sel_fired_index' = sel_fired_index
  BY <1>1, <1>5, <1>l, <1>o, LinkedTypes DEF ParkAs
<1>6. \A d \in Chans :
           /\ \A u \in Tasks :
                /\ u \in Elems(sendq'[d]) <=> u \in Elems(sendq[d]) \/ (u = t /\ o = "send" /\ l[1] = d)
                /\ u \in Elems(recvq'[d]) <=> u \in Elems(recvq[d]) \/ (u = t /\ o = "recv" /\ l[1] = d)
                /\ u \in selq'[d] <=> u \in selq[d] \/ (u = t /\ o = "select" /\ d \in Elems(l))
           /\ NoDup(sendq'[d]) /\ NoDup(recvq'[d])
  BY <1>1, <1>3, <1>4, <1>5, <1>l, <1>o, LinkedTypes
<1>8. l \in Seq(Chans) /\ o \in {"send", "recv", "select"}
  BY <1>l, <1>o
<1> QED BY <1>6, <1>7, <1>8, ParkStep

(* A receiver parks on one channel.                                         *)
LEMMA RecvParksLink ==
  ASSUME LinkInv, NEW t \in Tasks, NEW c \in Chans, RecvParks(t, c)
  PROVE  Linked' /\ WakeSound'
<1>1. /\ op[t] = "none" /\ ParkAs(t, "recv", <<c>>)
      /\ recvq' = [recvq EXCEPT ![c] = Append(recvq[c], t)] /\ sendq' = sendq /\ selq' = selq
  BY DEF RecvParks, CanCall
<1>2. t \notin Elems(recvq[c])
  BY <1>1, LinkedTypes
<1>3. Elems(Append(recvq[c], t)) = Elems(recvq[c]) \cup {t} /\ NoDup(Append(recvq[c], t))
  BY <1>2, LinkedTypes, AppendElems
<1>4. /\ recvq'[c] = Append(recvq[c], t)
      /\ \A d \in Chans : d # c => recvq'[d] = recvq[d]
  BY <1>1, LinkedTypes
<1>5. <<c>> \in Seq(Chans) /\ <<c>> # <<>> /\ <<c>>[1] = c
  OBVIOUS
<1>l. PICK l \in Seq(Chans) : l = <<c>>
  BY <1>5
<1>o. PICK o \in {"send", "recv", "select"} : o = "recv"
  OBVIOUS
<1>7. /\ op[t] = "none" /\ l # <<>>
      /\ op'[t] = o /\ args'[t] = l
      /\ \A u \in Tasks : u # t => op'[u] = op[u] /\ args'[u] = args[u]
      /\ woken' = woken /\ chan_closed_wake' = chan_closed_wake /\ sel_fired_index' = sel_fired_index
  BY <1>1, <1>5, <1>l, <1>o, LinkedTypes DEF ParkAs
<1>6. \A d \in Chans :
           /\ \A u \in Tasks :
                /\ u \in Elems(sendq'[d]) <=> u \in Elems(sendq[d]) \/ (u = t /\ o = "send" /\ l[1] = d)
                /\ u \in Elems(recvq'[d]) <=> u \in Elems(recvq[d]) \/ (u = t /\ o = "recv" /\ l[1] = d)
                /\ u \in selq'[d] <=> u \in selq[d] \/ (u = t /\ o = "select" /\ d \in Elems(l))
           /\ NoDup(sendq'[d]) /\ NoDup(recvq'[d])
  BY <1>1, <1>3, <1>4, <1>5, <1>l, <1>o, LinkedTypes
<1>8. l \in Seq(Chans) /\ o \in {"send", "recv", "select"}
  BY <1>l, <1>o
<1> QED BY <1>6, <1>7, <1>8, ParkStep

(* A selector registers on exactly the channels of its list.                *)
LEMMA SelectParksLink ==
  ASSUME LinkInv, NEW t \in Tasks, NEW l \in SelectLists, SelectParks(t, l)
  PROVE  Linked' /\ WakeSound'
<1>1. /\ op[t] = "none" /\ ParkAs(t, "select", l) /\ l # <<>>
      /\ recvq' = recvq /\ sendq' = sendq
      /\ \A d \in Chans : selq'[d] = selq[d] \cup (IF d \in Elems(l) THEN {t} ELSE {})
  BY DEF SelectParks, CanCall
<1> DEFINE o == "select"
<1>2. /\ l \in Seq(Chans) /\ o \in {"send", "recv", "select"}
      /\ op'[t] = o /\ args'[t] = l
      /\ \A u \in Tasks : u # t => op'[u] = op[u] /\ args'[u] = args[u]
      /\ woken' = woken /\ chan_closed_wake' = chan_closed_wake /\ sel_fired_index' = sel_fired_index
  BY <1>1, SelectListsAssumption, LinkedTypes DEF ParkAs
<1> HIDE DEF o
<1>3. \A d \in Chans :
           /\ \A u \in Tasks :
                /\ u \in Elems(sendq'[d]) <=> u \in Elems(sendq[d]) \/ (u = t /\ o = "send" /\ l[1] = d)
                /\ u \in Elems(recvq'[d]) <=> u \in Elems(recvq[d]) \/ (u = t /\ o = "recv" /\ l[1] = d)
                /\ u \in selq'[d] <=> u \in selq[d] \/ (u = t /\ o = "select" /\ d \in Elems(l))
           /\ NoDup(sendq'[d]) /\ NoDup(recvq'[d])
  BY <1>1, LinkedTypes DEF o
<1> QED BY <1>1, <1>2, <1>3, ParkStep

(* chan_close unlinks everybody on c, selectors from their other channels too. *)
LEMMA CloseFirstLink ==
  ASSUME LinkInv, NEW t \in Tasks, NEW c \in Chans, CloseFirst(t, c)
  PROVE  Linked' /\ WakeSound'
<1> DEFINE W == Waiters(c)
<1>1. /\ recvq' = [recvq EXCEPT ![c] = <<>>] /\ sendq' = [sendq EXCEPT ![c] = <<>>]
      /\ op' = op /\ args' = args
      /\ \A d \in Chans : selq'[d] = selq[d] \ selq[c]
  BY DEF CloseFirst, select_unlink_all
<1>2. /\ \A u \in Tasks : chan_closed_wake'[u] <=> chan_closed_wake[u] \/ u \in W
      /\ \A u \in Tasks : woken'[u] <=> woken[u] \/ u \in W
  BY LinkedTypes DEF CloseFirst
<1>3. sel_fired_index' = [u \in Tasks |-> IF u \in selq[c] THEN FiredIndex(u, c) ELSE sel_fired_index[u]]
  BY DEF CloseFirst
<1>4. /\ W \in SUBSET Tasks /\ \A u \in W : Parked(u)
      /\ \A u \in W : op[u] = "select" => u \in selq[c]
      /\ \A u \in selq[c] : op[u] = "select" /\ u \in W
  <2>1. ASSUME NEW u \in W
        PROVE  u \in Tasks /\ Parked(u) /\ (op[u] = "select" => u \in selq[c])
    <3>1. CASE u \in Elems(recvq[c]) \cup Elems(sendq[c])
      BY <3>1, LinkedTypes
    <3>2. CASE u \in selq[c]
      BY <3>2, LinkedTypes
    <3> QED BY <3>1, <3>2 DEF Waiters
  <2>2. ASSUME NEW u \in selq[c] PROVE op[u] = "select" /\ u \in W
    BY LinkedTypes DEF Waiters
  <2> QED BY <2>1, <2>2
<1>5. \A u \in selq[c] : FiredIndex(u, c) \in 1 .. Len(args[u]) /\ FiredIndex(u, c) \in Nat
  <2>1. ASSUME NEW u \in selq[c] PROVE FiredIndex(u, c) \in 1 .. Len(args[u]) /\ FiredIndex(u, c) \in Nat
    <3>1. u \in Tasks /\ c \in Elems(args[u]) /\ args[u] \in Seq(Chans)
      BY LinkedTypes
    <3> QED BY <3>1, FiredOn
  <2> QED BY <2>1
<1>6. /\ sel_fired_index' \in [Tasks -> Nat]
      /\ \A u \in Tasks : IF u \in W /\ op[u] = "select"
                            THEN sel_fired_index'[u] \in 1 .. Len(args[u])
                            ELSE sel_fired_index'[u] = sel_fired_index[u]
  BY <1>3, <1>4, <1>5, LinkedTypes
<1>7. \A d \in Chans : /\ d # c => Elems(sendq[d]) \cap W = {} /\ Elems(recvq[d]) \cap W = {}
                       /\ selq[d] \cap W = selq[d] \cap selq[c]
  <2>1. ASSUME NEW d \in Chans, NEW u \in W
        PROVE  /\ d # c => u \notin Elems(sendq[d]) /\ u \notin Elems(recvq[d])
               /\ u \in selq[d] => u \in selq[c]
    <3>1. CASE u \in Elems(sendq[c])
      <4>1. u \in Tasks /\ op[u] = "send" /\ args[u][1] = c
        BY <3>1, LinkedTypes
      <4> QED BY <4>1, LinkedTypes
    <3>2. CASE u \in Elems(recvq[c])
      <4>1. u \in Tasks /\ op[u] = "recv" /\ args[u][1] = c
        BY <3>2, LinkedTypes
      <4> QED BY <4>1, LinkedTypes
    <3>3. CASE u \in selq[c]
      <4>1. u \in Tasks /\ op[u] = "select"
        BY <3>3, LinkedTypes
      <4> QED BY <3>3, <4>1, LinkedTypes
    <3> QED BY <3>1, <3>2, <3>3 DEF Waiters
  <2> QED BY <1>4, <2>1
<1>8. Elems(<<>>) = {} /\ NoDup(<<>>) /\ Elems(sendq[c]) \subseteq W /\ Elems(recvq[c]) \subseteq W
  BY DEF Elems, NoDup, Waiters
<1> HIDE DEF W
<1>9. \A d \in Chans : /\ Elems(sendq'[d]) = Elems(sendq[d]) \ W /\ NoDup(sendq'[d])
                       /\ Elems(recvq'[d]) = Elems(recvq[d]) \ W /\ NoDup(recvq'[d])
                       /\ selq'[d] = selq[d] \ W
  <2>1. ASSUME NEW d \in Chans
        PROVE  /\ Elems(sendq'[d]) = Elems(sendq[d]) \ W /\ NoDup(sendq'[d])
               /\ Elems(recvq'[d]) = Elems(recvq[d]) \ W /\ NoDup(recvq'[d])
               /\ selq'[d] = selq[d] \ W
    <3>1. selq'[d] = selq[d] \ W
      BY <1>1, <1>7
    <3>2. CASE d = c
      BY <1>1, <1>8, <3>1, <3>2, LinkedTypes
    <3>3. CASE d # c
      <4>1. sendq'[d] = sendq[d] /\ recvq'[d] = recvq[d] /\ NoDup(sendq[d]) /\ NoDup(recvq[d])
        BY <1>1, <3>3, LinkedTypes
      <4> QED BY <1>7, <3>1, <3>3, <4>1
    <3> QED BY <3>2, <3>3
  <2> QED BY <2>1
<1> QED BY <1>1, <1>2, <1>4, <1>6, <1>9, WakeStep

(* A woken task is linked nowhere when it returns.                          *)
LEMMA ResumeReturnsLink ==
  ASSUME LinkInv, NEW t \in Tasks, ResumeReturns(t)
  PROVE  Linked' /\ WakeSound'
<1>1. /\ op' = [op EXCEPT ![t] = "none"] /\ args' = [args EXCEPT ![t] = <<>>]
      /\ woken' = [woken EXCEPT ![t] = FALSE] /\ woken[t]
      /\ chan_closed_wake' = [chan_closed_wake EXCEPT ![t] = FALSE]
      /\ UNCHANGED <<sendq, recvq, selq, sel_fired_index>>
  BY DEF ResumeReturns, waitVars
<1>2. ~Parked(t)
  BY <1>1 DEF Parked
<1>3. \A d \in Chans : t \notin Elems(sendq[d]) /\ t \notin Elems(recvq[d]) /\ t \notin selq[d]
  BY <1>2, LinkedTypes
<1>4. \A d \in Chans : /\ Elems(sendq'[d]) = Elems(sendq[d]) \ {t} /\ NoDup(sendq'[d])
                       /\ Elems(recvq'[d]) = Elems(recvq[d]) \ {t} /\ NoDup(recvq'[d])
                       /\ selq'[d] = selq[d] \ {t}
  BY <1>1, <1>3, LinkedTypes
<1>5. /\ ~woken'[t] /\ ~chan_closed_wake'[t]
      /\ \A u \in Tasks : u # t => woken'[u] = woken[u] /\ chan_closed_wake'[u] = chan_closed_wake[u]
  BY <1>1, LinkedTypes
<1>6. op' = [op EXCEPT ![t] = "none"] /\ args' = [args EXCEPT ![t] = <<>>]
      /\ sel_fired_index' = sel_fired_index
  BY <1>1
<1> QED BY <1>4, <1>5, <1>6, LeaveStep

(* force_drop_task unlinks the task wherever it is parked.                  *)
LEMMA DropParkedLink ==
  ASSUME LinkInv, NEW t \in Tasks, DropParked(t)
  PROVE  Linked' /\ WakeSound'
<1>1. /\ op' = [op EXCEPT ![t] = "dropped"] /\ args' = [args EXCEPT ![t] = <<>>]
      /\ ~woken[t]
      /\ UNCHANGED <<woken, chan_closed_wake, sel_fired_index>>
  BY DEF DropParked
<1>2. ~chan_closed_wake[t]
  BY <1>1 DEF LinkInv, WakeSound
<1>3. ASSUME NEW d \in Chans PROVE Elems(sendq'[d]) = Elems(sendq[d]) \ {t} /\ NoDup(sendq'[d])
  <2>1. CASE op[t] = "send"
    <3>1. sendq'[d] = chan_q_remove(sendq[d], t)
      BY <2>1 DEF DropParked
    <3> QED BY <3>1, RemoveElems, LinkedTypes
  <2>2. CASE op[t] # "send"
    <3>1. sendq'[d] = sendq[d] /\ t \notin Elems(sendq[d])
      BY <2>2, LinkedTypes DEF DropParked
    <3> QED BY <3>1, LinkedTypes
  <2> QED BY <2>1, <2>2
<1>4. ASSUME NEW d \in Chans PROVE Elems(recvq'[d]) = Elems(recvq[d]) \ {t} /\ NoDup(recvq'[d])
  <2>1. CASE op[t] = "recv"
    <3>1. recvq'[d] = chan_q_remove(recvq[d], t)
      BY <2>1 DEF DropParked
    <3> QED BY <3>1, RemoveElems, LinkedTypes
  <2>2. CASE op[t] # "recv"
    <3>1. recvq'[d] = recvq[d] /\ t \notin Elems(recvq[d])
      BY <2>2, LinkedTypes DEF DropParked
    <3> QED BY <3>1, LinkedTypes
  <2> QED BY <2>1, <2>2
<1>5. \A d \in Chans : selq'[d] = selq[d] \ {t}
  <2>1. CASE op[t] = "select"
    BY <2>1 DEF DropParked, DropSelect, select_unlink_all
  <2>2. CASE op[t] # "select"
    <3>1. selq' = selq /\ \A d \in Chans : t \notin selq[d]
      BY <2>2, LinkedTypes DEF DropParked, DropSelect
    <3> QED BY <3>1
  <2> QED BY <2>1, <2>2
<1> QED BY <1>1, <1>2, <1>3, <1>4, <1>5, LeaveStep

(* Every step keeps the links and the wake flags sound.                     *)
LEMMA LinkNext == LinkInv /\ [Next]_vars => LinkInv'
<1> SUFFICES ASSUME LinkInv, [Next]_vars PROVE LinkInv'
  OBVIOUS
<1>0. ChannelInv'
  BY ChannelNext DEF LinkInv
<1>f. ASSUME sprout_fail PROVE Linked' /\ WakeSound'
  BY <1>f, LinkFrame DEF sprout_fail, waitVars, taskVars
<1>1. ASSUME NEW t \in Tasks, NEW c \in Chans, Send(t, c) PROVE Linked' /\ WakeSound'
  <2>1. CASE SendOnClosed(t, c)
    BY <1>f, <2>1 DEF SendOnClosed
  <2>2. CASE SendBuffered(t, c)
    BY <2>2, LinkFrame DEF SendBuffered, waitVars, taskVars
  <2>3. CASE SendGrows(t, c)
    BY <2>3, LinkFrame DEF SendGrows, waitVars, taskVars
  <2> QED BY <1>1, <2>1, <2>2, <2>3, SendToReceiverLink, SendToSelectorLink, SendParksLink DEF Send
<1>2. ASSUME NEW t \in Tasks, NEW c \in Chans, RecvTakes(t, c) \/ RecvParks(t, c)
      PROVE  Linked' /\ WakeSound'
  BY <1>2, PollTakeLink, RecvParksLink DEF RecvTakes
<1>3. ASSUME NEW t \in Tasks, NEW c \in Chans, CloseTwice(t, c) \/ CloseFirst(t, c)
      PROVE  Linked' /\ WakeSound'
  BY <1>f, <1>3, CloseFirstLink DEF CloseTwice
<1>4. ASSUME NEW t \in Tasks, NEW l \in SelectLists,
             SelectTakes(t, l) \/ SelectParks(t, l) \/ SelectEmpty(t, l)
      PROVE  Linked' /\ WakeSound'
  <2>1. CASE SelectTakes(t, l)
    <3>1. PICK i \in 1 .. Len(l) : chan_poll_take(l[i])
      BY <2>1 DEF SelectTakes
    <3>2. l[i] \in Chans
      BY <3>1, SelectListsAssumption
    <3> QED BY <3>1, <3>2, PollTakeLink
  <2>2. CASE SelectParks(t, l)
    BY <2>2, SelectParksLink
  <2>3. CASE SelectEmpty(t, l)
    BY <1>f, <2>3 DEF SelectEmpty
  <2> QED BY <1>4, <2>1, <2>2, <2>3
<1>5. ASSUME NEW t \in Tasks, ResumeSendOnClosed(t) \/ ResumeReturns(t) \/ DropParked(t)
      PROVE  Linked' /\ WakeSound'
  BY <1>f, <1>5, ResumeReturnsLink, DropParkedLink DEF ResumeSendOnClosed
<1>6. ASSUME UNCHANGED vars PROVE Linked' /\ WakeSound'
  <2>1. UNCHANGED <<sendq, recvq, selq, op, woken, args, chan_closed_wake, sel_fired_index>>
    BY <1>6 DEF vars, waitVars, taskVars
  <2> QED BY <2>1, LinkFrame
<1>7. Linked' /\ WakeSound'
  <2>1. CASE Next
    BY <1>1, <1>2, <1>3, <1>4, <1>5, <2>1 DEF Next
  <2> QED BY <1>6, <2>1
<1> QED BY <1>0, <1>7 DEF LinkInv

(* The wait queues and the wake flags of the tasks agree in every reachable *)
(* state.                                                                   *)
THEOREM LinkInvariant == Spec => []LinkInv
  BY LinkInit, LinkNext, PTL DEF Spec

(* chan_send, chan_recv, chan_select, chan_close and force_drop_task link a *)
(* task exactly where its call parked it and nowhere else, for every        *)
(* number of tasks and channels and for every select list.                  *)
THEOREM ChannelLinks == Spec => []LinkedWhereParked
<1>1. LinkInv => LinkedWhereParked
  <2> SUFFICES ASSUME LinkInv PROVE LinkedWhereParked
    OBVIOUS
  <2>1. ASSUME NEW c \in Chans
        PROVE  /\ Cardinality(Elems(sendq[c])) = Len(sendq[c])
               /\ Cardinality(Elems(recvq[c])) = Len(recvq[c])
    BY NoDupCount, LinkedTypes
  <2> QED BY <2>1 DEF LinkInv, Linked, LinkedWhereParked
<1> QED BY <1>1, LinkInvariant, PTL

-----------------------------------------------------------------------------
(* The queue a ring and a wait queue stand for.                             *)

\* The slot of the i-th message behind head h in a ring of n slots.
Place(h, i, n) == IF h + i < n THEN h + i ELSE (h + i) - n

\* Contents \o HeldBySenders of one channel, as a function of its fields.
RingQueue(n, k, h, b, q, p) ==
  [i \in 1 .. k |-> b[(h + i - 1) % n]] \o [i \in 1 .. Len(q) |-> p[q[i]]]

Fits(n, k, h, b, q, p) ==
  /\ n \in Nat /\ k \in Nat /\ k <= n /\ h \in Nat /\ (n > 0 => h < n)
  /\ b \in [0 .. n - 1 -> Nat] /\ q \in Seq(Tasks) /\ p \in [Tasks -> Nat]

(* An index inside the ring is its own remainder.                           *)
LEMMA ModBelow == ASSUME NEW n \in Nat \ {0}, NEW a \in Nat, a < n PROVE a % n = a
  BY Z3

(* An index that runs past the end wraps once.                              *)
LEMMA ModOnce == ASSUME NEW n \in Nat \ {0}, NEW a \in Nat, n <= a, a < 2 * n PROVE a % n = a - n
  BY Z3

(* Place is what chan_ring_next and chan_grow compute with %.               *)
LEMMA PlaceMod ==
  ASSUME NEW n \in Nat \ {0}, NEW h \in 0 .. n - 1, NEW i \in 0 .. n
  PROVE  (h + i) % n = Place(h, i, n) /\ Place(h, i, n) \in 0 .. n - 1
<1>1. CASE h + i < n
  BY <1>1, ModBelow DEF Place
<1>2. CASE n <= h + i
  <2>1. PICK a \in Nat : a = h + i
    OBVIOUS
  <2>2. n <= a /\ a < 2 * n
    BY <1>2, <2>1
  <2>3. a % n = a - n
    BY <2>2, ModOnce
  <2> QED BY <1>2, <2>1, <2>3 DEF Place
<1> QED BY <1>1, <1>2

\* What the places of such a queue hold.
Shaped(A, n, k, h, b, q, p) ==
  /\ A \in Seq(Nat) /\ Len(A) = k + Len(q) /\ Len(q) \in Nat
  /\ \A i \in 1 .. k + Len(q) : A[i] = IF i <= k THEN b[Place(h, i - 1, n)] ELSE p[q[i - k]]

(* The queue is the ring from its head and then the parked senders.         *)
LEMMA RingQueueShape ==
  ASSUME NEW n, NEW k, NEW h, NEW b, NEW q, NEW p, Fits(n, k, h, b, q, p)
  PROVE  Shaped(RingQueue(n, k, h, b, q, p), n, k, h, b, q, p)
<1> DEFINE u == [i \in 1 .. k |-> b[(h + i - 1) % n]]
           v == [i \in 1 .. Len(q) |-> p[q[i]]]
<1>1. /\ n \in Nat /\ k \in Nat /\ k <= n /\ h \in Nat /\ (n > 0 => h < n)
      /\ b \in [0 .. n - 1 -> Nat] /\ q \in Seq(Tasks) /\ p \in [Tasks -> Nat] /\ Len(q) \in Nat
  BY DEF Fits
<1>2. \A i \in 1 .. k : (h + i - 1) % n = Place(h, i - 1, n) /\ Place(h, i - 1, n) \in 0 .. n - 1
  <2>1. ASSUME NEW i \in 1 .. k
        PROVE  (h + i - 1) % n = Place(h, i - 1, n) /\ Place(h, i - 1, n) \in 0 .. n - 1
    <3>1. n \in Nat \ {0} /\ h \in 0 .. n - 1 /\ i - 1 \in 0 .. n /\ h + i - 1 = h + (i - 1)
      BY <1>1
    <3> QED BY <3>1, PlaceMod
  <2> QED BY <2>1
<1>3. u \in Seq(Nat) /\ Len(u) = k /\ \A i \in 1 .. k : u[i] = b[Place(h, i - 1, n)]
  <2>1. u \in [1 .. k -> Nat]
    BY <1>1, <1>2
  <2>2. \A i \in 1 .. k : u[i] = b[(h + i - 1) % n]
    OBVIOUS
  <2>3. \A i \in 1 .. k : u[i] = b[Place(h, i - 1, n)]
    BY <1>2, <2>2
  <2> HIDE DEF u
  <2>4. u \in Seq(Nat) /\ Len(u) = k
    BY <1>1, <2>1
  <2> QED BY <2>3, <2>4
<1>4. v \in Seq(Nat) /\ Len(v) = Len(q) /\ \A i \in 1 .. Len(q) : v[i] = p[q[i]]
  <2>1. v \in [1 .. Len(q) -> Nat]
    BY <1>1
  <2> QED BY <1>1, <2>1
<1>5. RingQueue(n, k, h, b, q, p) = u \o v
  BY DEF RingQueue
<1> HIDE DEF u, v
<1>6. /\ u \o v \in Seq(Nat) /\ Len(u \o v) = Len(u) + Len(v)
      /\ \A i \in 1 .. Len(u) + Len(v) : (u \o v)[i] = IF i <= Len(u) THEN u[i] ELSE v[i - Len(u)]
  BY <1>3, <1>4, ConcatProperties
<1>7. ASSUME NEW i \in 1 .. k + Len(q)
      PROVE  (u \o v)[i] = IF i <= k THEN b[Place(h, i - 1, n)] ELSE p[q[i - k]]
  <2>1. CASE i <= k
    BY <1>1, <1>3, <1>4, <1>6, <2>1
  <2>2. CASE ~(i <= k)
    <3>1. i - k \in 1 .. Len(q)
      BY <1>1, <2>2
    <3> QED BY <1>1, <1>3, <1>4, <1>6, <2>2, <3>1
  <2> QED BY <2>1, <2>2
<1> QED BY <1>1, <1>3, <1>4, <1>5, <1>6, <1>7 DEF Shaped

(* One place of the queue.                                                  *)
LEMMA ShapedAt ==
  ASSUME NEW A, NEW n, NEW k, NEW h, NEW b, NEW q, NEW p, Shaped(A, n, k, h, b, q, p),
         NEW i \in 1 .. k + Len(q)
  PROVE  (i <= k => A[i] = b[Place(h, i - 1, n)]) /\ (~(i <= k) => A[i] = p[q[i - k]])
  BY DEF Shaped

(* Sequences that agree place by place with an appended or a cut one.       *)
LEMMA AppendEq ==
  ASSUME NEW A \in Seq(Nat), NEW B \in Seq(Nat), NEW v \in Nat, Len(B) = Len(A) + 1,
         \A i \in 1 .. Len(A) : B[i] = A[i], B[Len(A) + 1] = v
  PROVE  B = Append(A, v)
<1>1. /\ Append(A, v) \in Seq(Nat) /\ Len(Append(A, v)) = Len(A) + 1 /\ Append(A, v)[Len(A) + 1] = v
      /\ \A i \in 1 .. Len(A) : Append(A, v)[i] = A[i] /\ Len(A) \in Nat
  BY AppendProperties
<1>2. ASSUME NEW i \in 1 .. Len(B) PROVE B[i] = Append(A, v)[i]
  <2>1. i \in 1 .. Len(A) \/ i = Len(A) + 1
    OBVIOUS
  <2> QED BY <1>1, <2>1
<1> QED BY <1>1, <1>2, SeqEqual

(* A sequence that agrees place by place with a cut one.                    *)
LEMMA TailEq ==
  ASSUME NEW A \in Seq(Nat), NEW B \in Seq(Nat), Len(A) = Len(B) + 1,
         \A i \in 1 .. Len(B) : B[i] = A[i + 1]
  PROVE  A # <<>> /\ B = Tail(A) /\ Head(A) = A[1]
<1>1. A # <<>> /\ Len(B) \in Nat
  OBVIOUS
<1>2. Tail(A) \in Seq(Nat) /\ Len(Tail(A)) = Len(A) - 1 /\ \A i \in 1 .. Len(Tail(A)) : Tail(A)[i] = A[i + 1]
  BY <1>1, HeadTailProperties
<1>3. Len(B) = Len(Tail(A))
  BY <1>1, <1>2
<1>4. \A i \in 1 .. Len(B) : B[i] = Tail(A)[i]
  BY <1>2, <1>3
<1>5. Head(A) = A[1]
  OBVIOUS
<1> QED BY <1>1, <1>2, <1>3, <1>4, <1>5, SeqEqual

\* b2 is the ring b of n slots with v written to slot w.
Written(b2, b, n, w, v) ==
  b2 \in [0 .. n - 1 -> Nat] /\ b2[w] = v /\ \A j \in 0 .. n - 1 : j # w => b2[j] = b[j]

(* Enqueueing in the slot behind the last one appends.                      *)
LEMMA EnqueueAppends ==
  ASSUME NEW n, NEW k, NEW h, NEW b, NEW p, Fits(n, k, h, b, <<>>, p), k < n, NEW v \in Nat,
         NEW b2, Written(b2, b, n, Place(h, k, n), v)
  PROVE  RingQueue(n, k + 1, h, b2, <<>>, p) = Append(RingQueue(n, k, h, b, <<>>, p), v)
<1> DEFINE A == RingQueue(n, k, h, b, <<>>, p)
           B == RingQueue(n, k + 1, h, b2, <<>>, p)
<1>1. n \in Nat \ {0} /\ k \in Nat /\ h \in 0 .. n - 1 /\ b \in [0 .. n - 1 -> Nat] /\ p \in [Tasks -> Nat]
  BY DEF Fits
<1>2. /\ b2 \in [0 .. n - 1 -> Nat] /\ b2[Place(h, k, n)] = v
      /\ \A j \in 0 .. n - 1 : j # Place(h, k, n) => b2[j] = b[j]
  BY DEF Written
<1>4. Fits(n, k + 1, h, b2, <<>>, p)
  BY <1>1, <1>2 DEF Fits
<1>5. Shaped(A, n, k, h, b, <<>>, p) /\ Shaped(B, n, k + 1, h, b2, <<>>, p)
  BY <1>4, RingQueueShape
<1> HIDE DEF A, B
<1>6. Len(<<>>) = 0 /\ A \in Seq(Nat) /\ B \in Seq(Nat) /\ Len(A) = k /\ Len(B) = k + 1
  BY <1>1, <1>5 DEF Shaped
<1>7. ASSUME NEW i \in 1 .. k PROVE B[i] = A[i]
  <2>1. Place(h, i - 1, n) \in 0 .. n - 1 /\ Place(h, i - 1, n) # Place(h, k, n)
    BY <1>1 DEF Place
  <2>0. i \in 1 .. k + Len(<<>>) /\ i \in 1 .. k + 1 + Len(<<>>) /\ i <= k /\ i <= k + 1
    BY <1>1, <1>6
  <2>2. A[i] = b[Place(h, i - 1, n)]
    BY <1>5, <2>0, ShapedAt
  <2>3. B[i] = b2[Place(h, i - 1, n)]
    BY <1>1, <1>5, <1>6, <2>0 DEF Shaped
  <2> QED BY <1>2, <2>1, <2>2, <2>3
<1>8. B[k + 1] = v
  <2>1. B[k + 1] = b2[Place(h, (k + 1) - 1, n)] /\ (k + 1) - 1 = k
    BY <1>1, <1>5, <1>6 DEF Shaped
  <2> QED BY <1>2, <2>1
<1>9. B = Append(A, v)
  BY <1>6, <1>7, <1>8, AppendEq
<1> QED BY <1>9 DEF A, B

(* chan_grow copies the ring out in order and the new message goes behind.  *)
LEMMA GrowAppends ==
  ASSUME NEW n, NEW h, NEW b, NEW p, Fits(n, n, h, b, <<>>, p), n > 0,
         NEW g \in Nat, n < g, NEW v \in Nat, NEW b2 \in [0 .. g - 1 -> Nat],
         \A i \in 0 .. n - 1 : b2[i] = b[(h + i) % n], b2[n] = v
  PROVE  /\ Fits(g, n + 1, 0, b2, <<>>, p)
         /\ RingQueue(g, n + 1, 0, b2, <<>>, p) = Append(RingQueue(n, n, h, b, <<>>, p), v)
<1> DEFINE A == RingQueue(n, n, h, b, <<>>, p)
           B == RingQueue(g, n + 1, 0, b2, <<>>, p)
<1>1. n \in Nat \ {0} /\ h \in 0 .. n - 1 /\ b \in [0 .. n - 1 -> Nat] /\ p \in [Tasks -> Nat] /\ Len(<<>>) = 0
  BY DEF Fits
<1>2. Fits(g, n + 1, 0, b2, <<>>, p)
  BY <1>1 DEF Fits
<1>3. Shaped(A, n, n, h, b, <<>>, p) /\ Shaped(B, g, n + 1, 0, b2, <<>>, p)
  BY <1>2, RingQueueShape
<1> HIDE DEF A, B
<1>4. A \in Seq(Nat) /\ B \in Seq(Nat) /\ Len(A) = n /\ Len(B) = n + 1
  BY <1>1, <1>3 DEF Shaped
<1>5. ASSUME NEW i \in 1 .. n PROVE B[i] = A[i]
  <2>1. i - 1 \in 0 .. n /\ i - 1 \in 0 .. n - 1 /\ Place(0, i - 1, g) = i - 1
    BY <1>1 DEF Place
  <2>0. i \in 1 .. n + Len(<<>>) /\ i \in 1 .. n + 1 + Len(<<>>) /\ i <= n /\ i <= n + 1
    BY <1>1
  <2>2. A[i] = b[Place(h, i - 1, n)]
    BY <1>3, <2>0, ShapedAt
  <2>3. B[i] = b2[Place(0, i - 1, g)]
    BY <1>3, <2>0, ShapedAt
  <2>5. (h + (i - 1)) % n = Place(h, i - 1, n)
    BY <1>1, <2>1, PlaceMod
  <2>6. b2[i - 1] = b[(h + (i - 1)) % n]
    BY <2>1
  <2> QED BY <2>1, <2>2, <2>3, <2>5, <2>6
<1>6. B[n + 1] = v
  <2>0. n + 1 \in 1 .. (n + 1) + Len(<<>>) /\ n + 1 <= n + 1 /\ (n + 1) - 1 = n
    BY <1>1
  <2>3. PICK k : k = n + 1
    OBVIOUS
  <2>4. Shaped(B, g, k, 0, b2, <<>>, p) /\ k \in 1 .. k + Len(<<>>) /\ k <= k
    BY <1>3, <2>0, <2>3
  <2>5. B[k] = b2[Place(0, k - 1, g)]
    BY <2>4, ShapedAt
  <2>1. B[n + 1] = b2[Place(0, (n + 1) - 1, g)] /\ (n + 1) - 1 = n
    BY <2>0, <2>3, <2>5
  <2>2. Place(0, n, g) = n
    BY <1>1 DEF Place
  <2> QED BY <2>1, <2>2
<1>8. B = Append(A, v)
  BY <1>4, <1>5, <1>6, AppendEq
<1> QED BY <1>2, <1>8 DEF A, B

(* A parking sender's message goes behind everything.                       *)
LEMMA ParkAppends ==
  ASSUME NEW n, NEW k, NEW h, NEW b, NEW q, NEW p, Fits(n, k, h, b, q, p),
         NEW t \in Tasks, t \notin Elems(q), NEW v \in Nat,
         NEW p2 \in [Tasks -> Nat], p2[t] = v, \A u \in Tasks : u # t => p2[u] = p[u]
  PROVE  RingQueue(n, k, h, b, Append(q, t), p2) = Append(RingQueue(n, k, h, b, q, p), v)
<1> DEFINE q2 == Append(q, t)
           A == RingQueue(n, k, h, b, q, p)
           B == RingQueue(n, k, h, b, q2, p2)
<1>1. n \in Nat /\ k \in Nat /\ q \in Seq(Tasks) /\ Len(q) \in Nat
  BY DEF Fits
<1>2. q2 \in Seq(Tasks) /\ Len(q2) = Len(q) + 1 /\ q2[Len(q) + 1] = t
      /\ \A i \in 1 .. Len(q) : q2[i] = q[i]
  BY <1>1, AppendProperties
<1> HIDE DEF q2
<1>3. Fits(n, k, h, b, q2, p2)
  BY <1>2 DEF Fits
<1>4. Shaped(A, n, k, h, b, q, p) /\ Shaped(B, n, k, h, b, q2, p2)
  BY <1>3, RingQueueShape
<1> HIDE DEF A, B
<1>5. A \in Seq(Nat) /\ B \in Seq(Nat) /\ Len(A) = k + Len(q) /\ Len(B) = Len(A) + 1
  BY <1>1, <1>2, <1>4 DEF Shaped
<1>6. ASSUME NEW i \in 1 .. k + Len(q) PROVE B[i] = A[i]
  <2>0. i \in 1 .. k + Len(q2)
    BY <1>1, <1>2
  <2>1. /\ i <= k => A[i] = b[Place(h, i - 1, n)] /\ B[i] = b[Place(h, i - 1, n)]
        /\ ~(i <= k) => A[i] = p[q[i - k]] /\ B[i] = p2[q2[i - k]]
    BY <1>4, <2>0, ShapedAt
  <2>3. CASE ~(i <= k)
    <3>1. i - k \in 1 .. Len(q)
      BY <1>1, <2>3
    <3>2. q2[i - k] = q[i - k] /\ q[i - k] \in Tasks /\ q[i - k] # t
      BY <1>1, <1>2, <3>1 DEF Elems
    <3> QED BY <2>1, <2>3, <3>2
  <2> QED BY <2>1, <2>3
<1>7. B[Len(A) + 1] = v
  <2>1. /\ k + Len(q) + 1 \in 1 .. k + Len(q2) /\ ~(k + Len(q) + 1 <= k)
        /\ (k + Len(q) + 1) - k = Len(q) + 1
    BY <1>1, <1>2
  <2>2. B[k + Len(q) + 1] = p2[q2[(k + Len(q) + 1) - k]]
    BY <1>4, <2>1 DEF Shaped
  <2> QED BY <1>2, <1>5, <2>1, <2>2
<1>9. B = Append(A, v)
  BY <1>5, <1>6, <1>7, AppendEq
<1> QED BY <1>9 DEF A, B, q2

(* Taking the head of the ring, with nobody parked.                         *)
LEMMA TakeTails ==
  ASSUME NEW n, NEW k, NEW h, NEW b, NEW p, Fits(n, k, h, b, <<>>, p), k > 0,
         NEW b2 \in [0 .. n - 1 -> Nat], \A i \in 0 .. n - 1 : i # h => b2[i] = b[i]
  PROVE  LET A == RingQueue(n, k, h, b, <<>>, p)
         IN  /\ A # <<>> /\ Head(A) = b[h]
             /\ RingQueue(n, k - 1, Place(h, 1, n), b2, <<>>, p) = Tail(A)
<1> DEFINE h2 == Place(h, 1, n)
           A == RingQueue(n, k, h, b, <<>>, p)
           B == RingQueue(n, k - 1, h2, b2, <<>>, p)
<1>1. /\ n \in Nat \ {0} /\ k \in Nat \ {0} /\ k <= n /\ h \in 0 .. n - 1 /\ b \in [0 .. n - 1 -> Nat]
      /\ p \in [Tasks -> Nat] /\ Len(<<>>) = 0
  BY DEF Fits
<1>2. h2 \in 0 .. n - 1
  BY <1>1 DEF Place
<1>3. Fits(n, k - 1, h2, b2, <<>>, p)
  BY <1>1, <1>2 DEF Fits
<1>4. Shaped(A, n, k, h, b, <<>>, p) /\ Shaped(B, n, k - 1, h2, b2, <<>>, p)
  BY <1>3, RingQueueShape
<1> HIDE DEF A, B
<1>5. A \in Seq(Nat) /\ B \in Seq(Nat) /\ Len(A) = Len(B) + 1 /\ Len(B) = k - 1
  BY <1>1, <1>4 DEF Shaped
<1>6. ASSUME NEW i \in 1 .. k - 1 PROVE B[i] = A[i + 1]
  <2>1. i + 1 \in 1 .. k + 0 /\ i + 1 <= k /\ (i + 1) - 1 = i
    BY <1>1
  <2>2. Place(h2, i - 1, n) = Place(h, i, n) /\ Place(h, i, n) \in 0 .. n - 1 /\ Place(h, i, n) # h
    BY <1>1 DEF Place
  <2>3. A[i + 1] = b[Place(h, i, n)]
    BY <1>1, <1>4, <2>1 DEF Shaped
  <2>4. B[i] = b2[Place(h2, i - 1, n)]
    BY <1>1, <1>4 DEF Shaped
  <2> QED BY <2>2, <2>3, <2>4
<1>7. A[1] = b[h]
  <2>1. 1 \in 1 .. k + 0 /\ 1 <= k /\ Place(h, 1 - 1, n) = h
    BY <1>1 DEF Place
  <2> QED BY <1>1, <1>4, <2>1 DEF Shaped
<1>9. A # <<>> /\ B = Tail(A) /\ Head(A) = A[1]
  BY <1>5, <1>6, TailEq
<1> QED BY <1>7, <1>9 DEF A, B

\* p2 is p but for the pending word of r.
Released(p2, p, r) == p2 \in [Tasks -> Nat] /\ \A u \in Tasks : u # r => p2[u] = p[u]

\* b is full, b2 is b with the first parked sender's message in the slot of the
\* head, and p2 is p without that message.
Refilled(n, h, b, q, p, b2, p2) ==
  /\ Fits(n, n, h, b, q, p) /\ n # 0 /\ q # <<>> /\ NoDup(q)
  /\ Written(b2, b, n, h, p[Head(q)])
  /\ Released(p2, p, Head(q))

(* Taking the head of a full ring and moving the first parked sender's      *)
(* message into the freed slot.                                             *)
LEMMA RefillTails ==
  ASSUME NEW n, NEW h, NEW b, NEW q, NEW p, NEW b2, NEW p2, Refilled(n, h, b, q, p, b2, p2)
  PROVE  LET A == RingQueue(n, n, h, b, q, p)
         IN  /\ A # <<>> /\ Head(A) = b[h]
             /\ RingQueue(n, n, Place(h, 1, n), b2, Tail(q), p2) = Tail(A)
<1>0. /\ Fits(n, n, h, b, q, p) /\ n # 0 /\ q # <<>> /\ NoDup(q)
      /\ b2 \in [0 .. n - 1 -> Nat] /\ b2[h] = p[Head(q)]
      /\ \A i \in 0 .. n - 1 : i # h => b2[i] = b[i]
      /\ p2 \in [Tasks -> Nat] /\ \A u \in Tasks : u # Head(q) => p2[u] = p[u]
  BY DEF Refilled, Written, Released
<1> USE <1>0
<1> DEFINE h2 == Place(h, 1, n)
           q2 == Tail(q)
           A == RingQueue(n, n, h, b, q, p)
           B == RingQueue(n, n, h2, b2, q2, p2)
<1>1. /\ n \in Nat \ {0} /\ h \in 0 .. n - 1 /\ b \in [0 .. n - 1 -> Nat]
      /\ p \in [Tasks -> Nat] /\ q \in Seq(Tasks)
  BY DEF Fits
<1>2. h2 \in 0 .. n - 1
  BY <1>1 DEF Place
<1>3. /\ q2 \in Seq(Tasks) /\ Len(q) \in Nat \ {0} /\ Len(q2) = Len(q) - 1 /\ Head(q) = q[1]
      /\ \A i \in 1 .. Len(q) - 1 : q2[i] = q[i + 1]
  BY <1>1, TailElems
<1> HIDE DEF q2, h2
<1>4. Fits(n, n, h2, b2, q2, p2)
  BY <1>1, <1>2, <1>3, SMTT(20) DEF Fits
<1>5. Shaped(A, n, n, h, b, q, p) /\ Shaped(B, n, n, h2, b2, q2, p2)
  BY <1>4, RingQueueShape
<1> HIDE DEF A, B
<1>6. A \in Seq(Nat) /\ B \in Seq(Nat) /\ Len(A) = Len(B) + 1 /\ Len(B) = n + Len(q2)
  BY <1>1, <1>3, <1>5 DEF Shaped
<1>7. ASSUME NEW i \in 1 .. n + Len(q2) PROVE B[i] = A[i + 1]
  <2>1. i + 1 \in 1 .. n + Len(q) /\ (i + 1) - 1 = i
    BY <1>1, <1>3
  <2>2. CASE i < n
    <3>1. Place(h2, i - 1, n) = Place(h, i, n) /\ Place(h, i, n) \in 0 .. n - 1 /\ Place(h, i, n) # h
      BY <1>1, <2>2, SMTT(20) DEF Place, h2
    <3>2. i <= n /\ i + 1 <= n
      BY <1>1, <2>2
    <3>3. A[i + 1] = b[Place(h, (i + 1) - 1, n)]
      BY <1>5, <2>1, <3>2, ShapedAt
    <3>4. B[i] = b2[Place(h2, i - 1, n)]
      <4>1. Shaped(B, n, n, h2, b2, q2, p2)
        BY <1>5
      <4>2. \A j \in 1 .. n + Len(q2) : j <= n => B[j] = b2[Place(h2, j - 1, n)]
        BY <1>1, <1>3, <4>1 DEF Shaped
      <4> QED BY <3>2, <4>2
    <3> QED BY <2>1, <3>1, <3>3, <3>4
  <2>3. CASE i = n
    <3>1. Place(h2, i - 1, n) = h
      BY <1>1, <2>3 DEF Place, h2
    <3>2. i <= n /\ ~(i + 1 <= n) /\ (i + 1) - n = 1
      BY <1>1, <2>3
    <3>3. A[i + 1] = p[q[(i + 1) - n]]
      BY <1>5, <2>1, <3>2, ShapedAt
    <3>4. B[i] = b2[Place(h2, i - 1, n)]
      <4>1. Shaped(B, n, n, h2, b2, q2, p2)
        BY <1>5
      <4>2. \A j \in 1 .. n + Len(q2) : j <= n => B[j] = b2[Place(h2, j - 1, n)]
        BY <1>1, <1>3, <4>1 DEF Shaped
      <4> QED BY <3>2, <4>2
    <3> QED BY <1>3, <3>1, <3>2, <3>3, <3>4
  <2>4. CASE i > n
    <3>1. ~(i <= n) /\ ~(i + 1 <= n) /\ (i + 1) - n = (i - n) + 1 /\ i - n \in 1 .. Len(q) - 1
      BY <1>1, <1>3, <2>4
    <3>2. A[i + 1] = p[q[(i + 1) - n]] /\ B[i] = p2[q2[i - n]]
      BY <1>5, <2>1, <3>1, ShapedAt
    <3>3. q2[i - n] = q[(i - n) + 1] /\ q[(i - n) + 1] \in Tasks /\ q[(i - n) + 1] # q[1]
      <4>1. (i - n) + 1 \in 1 .. Len(q) /\ 1 \in 1 .. Len(q) /\ (i - n) + 1 # 1
        BY <1>3, <3>1
      <4>2. q[(i - n) + 1] \in Tasks
        BY <1>1, <4>1
      <4>3. q[(i - n) + 1] # q[1]
        BY <4>1 DEF NoDup
      <4>4. q2[i - n] = q[(i - n) + 1]
        BY <1>3, <3>1
      <4> QED BY <4>2, <4>3, <4>4
    <3> QED BY <1>3, <3>1, <3>2, <3>3
  <2> QED BY <1>1, <2>2, <2>3, <2>4
<1>8. A[1] = b[h]
  <2>1. 1 \in 1 .. n + Len(q) /\ 1 <= n /\ Place(h, 1 - 1, n) = h
    BY <1>1, <1>3 DEF Place
  <2> QED BY <1>5, <2>1, ShapedAt
<1>9. A # <<>> /\ B = Tail(A) /\ Head(A) = A[1]
  BY <1>6, <1>7, TailEq
<1> QED BY <1>8, <1>9 DEF A, B, q2, h2

(* Taking the first parked sender's message from a channel without buffer.  *)
LEMMA RendezvousTails ==
  ASSUME NEW n, NEW h, NEW b, NEW q, NEW p, Fits(n, 0, h, b, q, p), q # <<>>, NoDup(q),
         NEW p2, Released(p2, p, Head(q))
  PROVE  LET A == RingQueue(n, 0, h, b, q, p)
         IN  /\ A # <<>> /\ Head(A) = p[Head(q)]
             /\ RingQueue(n, 0, h, b, Tail(q), p2) = Tail(A)
<1>0. p2 \in [Tasks -> Nat] /\ \A u \in Tasks : u # Head(q) => p2[u] = p[u]
  BY DEF Released
<1> USE <1>0
<1> DEFINE q2 == Tail(q)
           A == RingQueue(n, 0, h, b, q, p)
           B == RingQueue(n, 0, h, b, q2, p2)
<1>1. p \in [Tasks -> Nat] /\ q \in Seq(Tasks)
  BY DEF Fits
<1>3. /\ q2 \in Seq(Tasks) /\ Len(q) \in Nat \ {0} /\ Len(q2) = Len(q) - 1 /\ Head(q) = q[1]
      /\ \A i \in 1 .. Len(q) - 1 : q2[i] = q[i + 1]
  BY <1>1, TailElems
<1> HIDE DEF q2
<1>4. Fits(n, 0, h, b, q2, p2)
  BY <1>1, <1>3 DEF Fits
<1>5. Shaped(A, n, 0, h, b, q, p) /\ Shaped(B, n, 0, h, b, q2, p2)
  BY <1>4, RingQueueShape
<1> HIDE DEF A, B
<1>6. A \in Seq(Nat) /\ B \in Seq(Nat) /\ Len(A) = Len(B) + 1 /\ Len(B) = Len(q2)
  BY <1>1, <1>3, <1>5 DEF Shaped
<1>7. ASSUME NEW i \in 1 .. Len(q2) PROVE B[i] = A[i + 1]
  <2>1. /\ i + 1 \in 1 .. 0 + Len(q) /\ i \in 1 .. 0 + Len(q2) /\ ~(i <= 0) /\ ~(i + 1 <= 0)
        /\ i - 0 = i /\ (i + 1) - 0 = i + 1 /\ i \in 1 .. Len(q) - 1
    BY <1>3
  <2>2. A[i + 1] = p[q[(i + 1) - 0]] /\ B[i] = p2[q2[i - 0]]
    BY <1>5, <2>1, ShapedAt
  <2>3. q2[i] = q[i + 1] /\ q[i + 1] \in Tasks /\ q[i + 1] # q[1]
    <3>1. i + 1 \in 1 .. Len(q) /\ 1 \in 1 .. Len(q) /\ i + 1 # 1
      BY <1>3, <2>1
    <3>2. q[i + 1] \in Tasks
      BY <1>1, <3>1
    <3>3. q[i + 1] # q[1]
      BY <3>1 DEF NoDup
    <3>4. q2[i] = q[i + 1]
      BY <1>3, <2>1
    <3> QED BY <3>2, <3>3, <3>4
  <2> QED BY <1>3, <2>1, <2>2, <2>3
<1>8. A[1] = p[Head(q)]
  <2>1. 1 \in 1 .. 0 + Len(q) /\ ~(1 <= 0) /\ 1 - 0 = 1
    BY <1>3
  <2>2. A[1] = p[q[1 - 0]]
    BY <1>5, <2>1, ShapedAt
  <2> QED BY <1>3, <2>1, <2>2
<1>9. A # <<>> /\ B = Tail(A) /\ Head(A) = A[1]
  BY <1>6, <1>7, TailEq
<1> QED BY <1>8, <1>9 DEF A, B, q2

\* B is A without one of the elements behind the k-th.
OneForgotten(A, B, k) ==
  \E j \in 1 .. Len(A) : j > k /\ B = SubSeq(A, 1, j - 1) \o SubSeq(A, j + 1, Len(A))

(* Dropping a parked sender forgets the message it holds.                   *)
LEMMA RemoveForgets ==
  ASSUME NEW n, NEW k, NEW h, NEW b, NEW q, NEW p, Fits(n, k, h, b, q, p), NEW t \in Elems(q)
  PROVE  OneForgotten(RingQueue(n, k, h, b, q, p), RingQueue(n, k, h, b, chan_q_remove(q, t), p), k)
<1> DEFINE q2 == chan_q_remove(q, t)
           A == RingQueue(n, k, h, b, q, p)
           B == RingQueue(n, k, h, b, q2, p)
<1>1. k \in Nat /\ q \in Seq(Tasks) /\ Len(q) \in Nat
  BY DEF Fits
<1>2. PICK m \in 1 .. Len(q) :
           /\ q2 \in Seq(Tasks) /\ Len(q2) = Len(q) - 1
           /\ \A i \in 1 .. Len(q) - 1 : q2[i] = IF i < m THEN q[i] ELSE q[i + 1]
  BY <1>1, RemoveShape, ZenonT(30)
<1> HIDE DEF q2
<1>3. Fits(n, k, h, b, q2, p)
  BY <1>2 DEF Fits
<1>4. Shaped(A, n, k, h, b, q, p) /\ Shaped(B, n, k, h, b, q2, p)
  BY <1>3, RingQueueShape
<1> HIDE DEF A, B
<1>5. A \in Seq(Nat) /\ B \in Seq(Nat) /\ Len(A) = k + Len(q) /\ Len(B) = Len(A) - 1
  BY <1>1, <1>2, <1>4 DEF Shaped
<1> DEFINE j == k + m
           u == SubSeq(A, 1, j - 1)
           v == SubSeq(A, j + 1, Len(A))
<1>6. j \in 1 .. Len(A) /\ j > k
  BY <1>1, <1>5
<1>7. u \in Seq(Nat) /\ Len(u) = j - 1 /\ \A i \in 1 .. j - 1 : u[i] = A[i]
  <2>1. \A i \in 1 .. j - 1 : A[i] \in Nat
    BY <1>5, <1>6, SMTT(20)
  <2>2. 1 \in Int /\ j - 1 \in Int /\ (1 <= j - 1 \/ j - 1 = 0)
    BY <1>1, <1>6
  <2> HIDE DEF j
  <2>3. /\ u \in Seq(Nat) /\ Len(u) = IF 1 <= j - 1 THEN (j - 1) - 1 + 1 ELSE 0
        /\ \A i \in 1 .. (j - 1) - 1 + 1 : u[i] = A[1 + i - 1]
    BY <2>1, <2>2, SubSeqProperties
  <2> HIDE DEF u
  <2> QED BY <2>2, <2>3
<1>8. v \in Seq(Nat) /\ Len(v) = Len(A) - j /\ \A i \in 1 .. Len(A) - j : v[i] = A[j + i]
  <2>1. \A i \in j + 1 .. Len(A) : A[i] \in Nat
    BY <1>5, <1>6, SMTT(20)
  <2>2. j + 1 \in Int /\ Len(A) \in Int /\ j \in Int /\ j <= Len(A)
    BY <1>1, <1>5, <1>6
  <2> HIDE DEF j
  <2>3. /\ v \in Seq(Nat) /\ Len(v) = IF j + 1 <= Len(A) THEN Len(A) - (j + 1) + 1 ELSE 0
        /\ \A i \in 1 .. Len(A) - (j + 1) + 1 : v[i] = A[(j + 1) + i - 1]
    BY <2>1, <2>2, SubSeqProperties
  <2> HIDE DEF v
  <2> QED BY <2>2, <2>3
<1> HIDE DEF j, u, v
<1>9. /\ u \o v \in Seq(Nat) /\ Len(u \o v) = Len(u) + Len(v)
      /\ \A i \in 1 .. Len(u) + Len(v) : (u \o v)[i] = IF i <= Len(u) THEN u[i] ELSE v[i - Len(u)]
  BY <1>7, <1>8, ConcatProperties
<1>10. j \in Nat /\ Len(A) \in Nat /\ Len(u) + Len(v) = Len(B) /\ Len(B) = (k + Len(q)) - 1
  BY <1>5, <1>6, <1>7, <1>8
<1>11. ASSUME NEW i \in 1 .. Len(B) PROVE B[i] = (u \o v)[i]
  <2>0. i \in 1 .. k + Len(q2) /\ i \in 1 .. k + Len(q) /\ i + 1 \in 1 .. k + Len(q)
    BY <1>1, <1>2, <1>10
  <2>1. CASE i <= k
    <3>1. i <= Len(u) /\ i \in 1 .. j - 1
      BY <1>1, <1>7, <2>0, <2>1 DEF j
    <3>2. (u \o v)[i] = A[i]
      BY <1>7, <1>9, <1>10, <3>1
    <3>3. A[i] = b[Place(h, i - 1, n)] /\ B[i] = b[Place(h, i - 1, n)]
      BY <1>4, <2>0, <2>1, ShapedAt
    <3> QED BY <3>2, <3>3
  <2>2. CASE k < i /\ i < j
    <3>1. i <= Len(u) /\ i \in 1 .. j - 1 /\ ~(i <= k) /\ i - k \in 1 .. Len(q) - 1 /\ i - k < m
      BY <1>1, <1>2, <1>7, <2>0, <2>2 DEF j
    <3>2. (u \o v)[i] = A[i]
      BY <1>7, <1>9, <1>10, <3>1
    <3>3. A[i] = p[q[i - k]] /\ B[i] = p[q2[i - k]]
      BY <1>4, <2>0, <3>1, ShapedAt
    <3>4. q2[i - k] = q[i - k]
      BY <1>2, <3>1
    <3> QED BY <3>2, <3>3, <3>4
  <2>3. CASE j <= i
    <3>1. /\ ~(i <= Len(u)) /\ i - Len(u) \in 1 .. Len(A) - j /\ j + (i - Len(u)) = i + 1
          /\ ~(i <= k) /\ ~(i + 1 <= k) /\ i - k \in 1 .. Len(q) - 1 /\ ~(i - k < m)
          /\ (i + 1) - k = (i - k) + 1
      <4>1. /\ k \in Nat /\ m \in Nat /\ 1 <= m /\ Len(q) \in Nat /\ Len(q2) = Len(q) - 1
            /\ Len(A) = k + Len(q) /\ Len(u) = (k + m) - 1 /\ j = k + m /\ i \in 1 .. k + Len(q2)
            /\ k + m <= i
        BY <1>1, <1>2, <1>5, <1>7, <2>0, <2>3 DEF j
      <4> QED BY <4>1
    <3>2. (u \o v)[i] = A[i + 1]
      <4>1. (u \o v)[i] = v[i - Len(u)]
        BY <1>9, <1>10, <3>1
      <4>2. v[i - Len(u)] = A[j + (i - Len(u))]
        BY <1>8, <3>1
      <4> QED BY <3>1, <4>1, <4>2
    <3>3. A[i + 1] = p[q[(i + 1) - k]] /\ B[i] = p[q2[i - k]]
      BY <1>4, <2>0, <3>1, ShapedAt
    <3>4. q2[i - k] = q[(i - k) + 1]
      BY <1>2, <3>1
    <3> QED BY <3>1, <3>2, <3>3, <3>4
  <2> QED BY <1>1, <1>10, <2>1, <2>2, <2>3
<1>12. B = u \o v
  BY <1>5, <1>9, <1>10, <1>11, SeqEqual
<1>13. OneForgotten(A, B, k)
  <2>1. B = SubSeq(A, 1, j - 1) \o SubSeq(A, j + 1, Len(A))
    BY <1>12 DEF u, v
  <2> HIDE DEF j
  <2> QED BY <1>6, <2>1 DEF OneForgotten
<1> QED BY <1>13 DEF A, B, q2

(* Closing keeps the buffered messages only.                                *)
LEMMA CloseKeeps ==
  ASSUME NEW n, NEW k, NEW h, NEW b, NEW q, NEW p, Fits(n, k, h, b, q, p)
  PROVE  RingQueue(n, k, h, b, <<>>, p) = SubSeq(RingQueue(n, k, h, b, q, p), 1, k)
<1> DEFINE A == RingQueue(n, k, h, b, q, p)
           B == RingQueue(n, k, h, b, <<>>, p)
           u == SubSeq(A, 1, k)
<1>1. k \in Nat /\ q \in Seq(Tasks) /\ Len(q) \in Nat /\ Len(<<>>) = 0
  BY DEF Fits
<1>2. Fits(n, k, h, b, <<>>, p)
  BY DEF Fits
<1>3. Shaped(A, n, k, h, b, q, p) /\ Shaped(B, n, k, h, b, <<>>, p)
  BY <1>2, RingQueueShape
<1> HIDE DEF A, B
<1>4. A \in Seq(Nat) /\ B \in Seq(Nat) /\ Len(A) = k + Len(q) /\ Len(B) = k
  BY <1>1, <1>3 DEF Shaped
<1>5. u \in Seq(Nat) /\ Len(u) = k /\ \A i \in 1 .. k : u[i] = A[i]
  <2>1. \A i \in 1 .. k : A[i] \in Nat
    BY <1>1, <1>4
  <2>3. /\ u \in Seq(Nat) /\ Len(u) = IF 1 <= k THEN k - 1 + 1 ELSE 0
        /\ \A i \in 1 .. k - 1 + 1 : u[i] = A[1 + i - 1]
    BY <1>1, <2>1, SubSeqProperties
  <2> HIDE DEF u
  <2> QED BY <1>1, <2>3
<1> HIDE DEF u
<1>6. ASSUME NEW i \in 1 .. k PROVE B[i] = A[i]
  <2>1. i \in 1 .. k + Len(q) /\ i \in 1 .. k + Len(<<>>) /\ i <= k
    BY <1>1
  <2> QED BY <1>3, <2>1, ShapedAt
<1>7. \A i \in 1 .. Len(B) : B[i] = u[i]
  BY <1>4, <1>5, <1>6
<1>8. B = u
  BY <1>4, <1>5, <1>7, SeqEqual
<1> QED BY <1>8 DEF A, B, u

(* The queue depends on the pending words of its own parked senders only.   *)
LEMMA PendingFrame ==
  ASSUME NEW n, NEW k, NEW h, NEW b, NEW q, NEW p, NEW p2, \A u \in Elems(q) : p2[u] = p[u]
  PROVE  RingQueue(n, k, h, b, q, p2) = RingQueue(n, k, h, b, q, p)
<1>1. [i \in 1 .. Len(q) |-> p2[q[i]]] = [i \in 1 .. Len(q) |-> p[q[i]]]
  BY DEF Elems
<1> QED BY <1>1 DEF RingQueue

-----------------------------------------------------------------------------
(* The refinement.                                                          *)

\* tail is the slot behind the last message.
RingSound == \A c \in Chans : slots[c] > 0 => tail[c] = Place(head[c], count[c], slots[c])

\* Closed is answered on closed channels only.
EndedSound == \A c \in Chans : ended[c] => closed[c]

FifoInv == LinkInv /\ RingSound /\ EndedSound

\* The queue of the abstract channel.
Queue == [c \in Chans |-> Contents(c) \o HeldBySenders(c)]

(* The queue of a channel from its ring, its senders and their pending words. *)
LEMMA QueueAt ==
  ASSUME NEW d \in Chans
  PROVE  /\ Queue[d] = RingQueue(slots[d], count[d], head[d], buffer[d], sendq[d], chan_pending)
         /\ Queue'[d] = RingQueue(slots'[d], count'[d], head'[d], buffer'[d], sendq'[d], chan_pending')
  BY DEF Queue, RingQueue, Contents, HeldBySenders

(* Every channel's ring and senders have the shape the ring algebra needs.  *)
LEMMA QueueFits ==
  ASSUME LinkInv, NEW d \in Chans
  PROVE  Fits(slots[d], count[d], head[d], buffer[d], sendq[d], chan_pending)
<1>1. /\ slots[d] \in Nat /\ count[d] \in Nat /\ head[d] \in Nat
      /\ buffer[d] \in [0 .. slots[d] - 1 -> Nat]
  BY DEF LinkInv, ChannelInv, TypeOK, RingTypeOK
<1>2. count[d] <= slots[d] /\ (slots[d] > 0 => head[d] < slots[d])
  <2>1. /\ count[d] <= slots[d] /\ slots[d] <= Cap[d] /\ (Cap[d] > 0 => head[d] < slots[d])
        /\ Cap[d] \in Nat
    BY CapAssumption DEF LinkInv, ChannelInv, RingBounds
  <2> QED BY <1>1, <2>1
<1>3. sendq[d] \in Seq(Tasks) /\ chan_pending \in [Tasks -> Nat]
  BY DEF LinkInv, ChannelInv, TypeOK, QueueTypeOK, TaskTypeOK
<1> QED BY <1>1, <1>2, <1>3 DEF Fits

(* The queue is as long as the ring's count and the send queue together.    *)
LEMMA QueueType ==
  ASSUME LinkInv, NEW d \in Chans
  PROVE  /\ Queue[d] \in Seq(Nat) /\ Len(Queue[d]) = count[d] + Len(sendq[d])
         /\ count[d] \in Nat /\ Len(sendq[d]) \in Nat
         /\ Queue[d] = <<>> <=> count[d] = 0 /\ sendq[d] = <<>>
<1>1. Fits(slots[d], count[d], head[d], buffer[d], sendq[d], chan_pending)
  BY QueueFits
<1>2. Shaped(Queue[d], slots[d], count[d], head[d], buffer[d], sendq[d], chan_pending)
  <2>1. Shaped(RingQueue(slots[d], count[d], head[d], buffer[d], sendq[d], chan_pending),
               slots[d], count[d], head[d], buffer[d], sendq[d], chan_pending)
    BY <1>1, RingQueueShape
  <2> QED BY <2>1, QueueAt
<1>3. count[d] \in Nat /\ sendq[d] \in Seq(Tasks)
  BY <1>1 DEF Fits
<1>4. /\ Queue[d] \in Seq(Nat) /\ Len(Queue[d]) = count[d] + Len(sendq[d]) /\ Len(sendq[d]) \in Nat
  BY <1>2 DEF Shaped
<1>5. (Queue[d] = <<>> <=> Len(Queue[d]) = 0) /\ (sendq[d] = <<>> <=> Len(sendq[d]) = 0)
  BY <1>3, <1>4
<1> QED BY <1>3, <1>4, <1>5

(* A channel none of whose fields change keeps its queue.                   *)
LEMMA OtherQueue ==
  ASSUME NEW d \in Chans, slots'[d] = slots[d], count'[d] = count[d], head'[d] = head[d],
         buffer'[d] = buffer[d], sendq'[d] = sendq[d],
         \A u \in Elems(sendq[d]) : chan_pending'[u] = chan_pending[u]
  PROVE  Queue'[d] = Queue[d]
<1>1. RingQueue(slots[d], count[d], head[d], buffer[d], sendq[d], chan_pending')
        = RingQueue(slots[d], count[d], head[d], buffer[d], sendq[d], chan_pending)
  BY PendingFrame
<1> QED BY <1>1, QueueAt

(* The queue of one channel changes, the others do not.                     *)
LEMMA OneQueue ==
  ASSUME NEW c \in Chans, NEW x, Queue'[c] = x, \A d \in Chans : d # c => Queue'[d] = Queue[d]
  PROVE  Queue' = [Queue EXCEPT ![c] = x]
<1>1. Queue' = [d \in Chans |-> Queue'[d]] /\ Queue = [d \in Chans |-> Queue[d]]
  BY DEF Queue
<1> HIDE DEF Queue
<1> QED BY <1>1

(* No queue changes when none changes at any channel.                       *)
LEMMA NoQueue ==
  ASSUME \A d \in Chans : Queue'[d] = Queue[d]
  PROVE  Queue' = Queue
<1>1. Queue' = [d \in Chans |-> Queue'[d]] /\ Queue = [d \in Chans |-> Queue[d]]
  BY DEF Queue
<1> QED BY <1>1

(* A step that moves no ring and no send queue, and writes the pending      *)
(* words of tasks that are not parked senders, moves no queue.              *)
LEMMA SameQueue ==
  ASSUME LinkInv, slots' = slots, count' = count, head' = head, buffer' = buffer, sendq' = sendq,
         \A u \in Tasks : Parked(u) /\ op[u] = "send" => chan_pending'[u] = chan_pending[u]
  PROVE  Queue' = Queue
<1>1. ASSUME NEW d \in Chans PROVE Queue'[d] = Queue[d]
  <2>1. \A u \in Elems(sendq[d]) : chan_pending'[u] = chan_pending[u]
    BY LinkedTypes
  <2> QED BY <2>1, OtherQueue
<1> QED BY <1>1, NoQueue

(* The initial state maps to the initial state.                             *)
LEMMA FifoInitial == Init => FifoInv /\ Fifo!FifoInit
<1> SUFFICES ASSUME Init PROVE FifoInv /\ Fifo!FifoInit
  OBVIOUS
<1>1. LinkInv
  BY LinkInit
<1>2. RingSound
  BY <1>1, CapAssumption, InitialSlotsAssumption
     DEF Init, RingSound, Place, InitSlots
<1>3. EndedSound
  BY DEF Init, EndedSound
<1>4. ASSUME NEW c \in Chans PROVE Queue[c] = <<>>
  <2>1. count[c] = 0 /\ sendq[c] = <<>>
    BY DEF Init
  <2> QED BY <1>1, <2>1, QueueType
<1>5. Queue = [c \in Chans |-> <<>>]
  <2>1. Queue = [d \in Chans |-> Queue[d]]
    BY DEF Queue
  <2> QED BY <1>4, <2>1
<1>6. Fifo!FifoInit
  BY <1>5 DEF Init, Fifo!FifoInit, Queue
<1> QED BY <1>1, <1>2, <1>3, <1>6 DEF FifoInv

\* What a step of the channels is to the abstract channels.
FifoStep == [Fifo!FifoNext]_(Fifo!fifoVars)

(* A send accepted behind everything is Accept.                             *)
LEMMA AcceptStep ==
  ASSUME NEW c \in Chans, ~closed[c], sent' = [sent EXCEPT ![c] = sent[c] + 1],
         Queue' = [Queue EXCEPT ![c] = Append(Queue[c], sent[c] + 1)],
         got' = got, closed' = closed, ended' = ended
  PROVE  FifoStep
<1>1. Fifo!Accept(c)
  BY DEF Fifo!Accept, Queue
<1> QED BY <1>1 DEF FifoStep, Fifo!FifoNext

(* A handoff by a send on a channel without messages is PassThrough.        *)
LEMMA PassStep ==
  ASSUME NEW c \in Chans, ~closed[c], Queue[c] = <<>>, sent' = [sent EXCEPT ![c] = sent[c] + 1],
         got' = [got EXCEPT ![c] = Append(got[c], sent[c] + 1)],
         Queue' = Queue, closed' = closed, ended' = ended
  PROVE  FifoStep
<1>1. Fifo!PassThrough(c)
  BY DEF Fifo!PassThrough, Queue
<1> QED BY <1>1 DEF FifoStep, Fifo!FifoNext

(* Taking the first message is Receive.                                     *)
LEMMA ReceiveStep ==
  ASSUME NEW c \in Chans, Queue[c] # <<>>, Queue' = [Queue EXCEPT ![c] = Tail(Queue[c])],
         got' = [got EXCEPT ![c] = Append(got[c], Head(Queue[c]))],
         sent' = sent, closed' = closed, ended' = ended
  PROVE  FifoStep
<1>1. Fifo!Receive(c)
  BY DEF Fifo!Receive, Queue
<1> QED BY <1>1 DEF FifoStep, Fifo!FifoNext

(* A step that changes no mapped variable is a stutter.                     *)
LEMMA StutterStep ==
  ASSUME Queue' = Queue, sent' = sent, got' = got, closed' = closed, ended' = ended
  PROVE  FifoStep
<1>1. UNCHANGED Fifo!fifoVars
  BY DEF Fifo!fifoVars, Queue
<1> QED BY <1>1 DEF FifoStep

(* Steps that move neither ring nor end.                                    *)
LEMMA SoundFrame ==
  ASSUME FifoInv, UNCHANGED ringVars, closed' = closed, ended' = ended
  PROVE  RingSound' /\ EndedSound'
  BY DEF FifoInv, RingSound, EndedSound, ringVars

(* sprout_fail is a stutter.                                                *)
LEMMA FailFifo ==
  ASSUME FifoInv, sprout_fail
  PROVE  FifoStep /\ RingSound' /\ EndedSound'
<1>1. /\ slots' = slots /\ count' = count /\ head' = head /\ buffer' = buffer /\ tail' = tail
      /\ sendq' = sendq /\ chan_pending' = chan_pending /\ closed' = closed
      /\ sent' = sent /\ got' = got /\ ended' = ended
  BY DEF sprout_fail, ringVars, waitVars, taskVars, histVars
<1>2. Queue' = Queue
  BY <1>1, SameQueue DEF FifoInv
<1>3. FifoStep
  BY <1>1, <1>2, StutterStep
<1>4. RingSound' /\ EndedSound'
  BY <1>1, SoundFrame DEF ringVars
<1> QED BY <1>3, <1>4

(* A handoff to a parked receiver is PassThrough.                           *)
LEMMA SendToReceiverFifo ==
  ASSUME FifoInv, NEW t \in Tasks, NEW c \in Chans, SendToReceiver(t, c)
  PROVE  FifoStep /\ RingSound' /\ EndedSound'
<1> DEFINE r == Head(recvq[c])
<1>1. /\ recvq[c] # <<>> /\ ~closed[c]
      /\ chan_pending' = [chan_pending EXCEPT ![r] = sent[c] + 1]
      /\ sent' = [sent EXCEPT ![c] = sent[c] + 1]
      /\ got' = [got EXCEPT ![c] = Append(got[c], sent[c] + 1)]
      /\ UNCHANGED <<ringVars, closed, sendq, ended>>
  BY DEF SendToReceiver, CanSend, Accepted, Delivered
<1>0. LinkInv
  BY DEF FifoInv
<1>2. r \in Tasks /\ op[r] = "recv"
  <2>1. r \in Elems(recvq[c])
    BY <1>0, <1>1, TailElems, LinkedTypes
  <2> QED BY <1>0, <2>1, LinkedTypes
<1>3. count[c] = 0 /\ sendq[c] = <<>>
  BY <1>0, <1>1 DEF LinkInv, ChannelInv, WaitersMatchCounts
<1> HIDE DEF r
<1>4. \A u \in Tasks : Parked(u) /\ op[u] = "send" => chan_pending'[u] = chan_pending[u]
  BY <1>0, <1>1, <1>2 DEF LinkInv, ChannelInv, TypeOK, TaskTypeOK
<1>5. /\ slots' = slots /\ count' = count /\ head' = head /\ buffer' = buffer /\ sendq' = sendq
      /\ closed' = closed /\ ended' = ended /\ UNCHANGED ringVars
  BY <1>1 DEF ringVars
<1>6. Queue' = Queue
  BY <1>0, <1>4, <1>5, SameQueue
<1>7. Queue[c] = <<>>
  BY <1>0, <1>3, QueueType
<1>8. FifoStep
  BY <1>1, <1>5, <1>6, <1>7, PassStep
<1> QED BY <1>5, <1>8, SoundFrame

(* A handoff to a parked selector is PassThrough.                           *)
LEMMA SendToSelectorFifo ==
  ASSUME FifoInv, NEW t \in Tasks, NEW c \in Chans, SendToSelector(t, c)
  PROVE  FifoStep /\ RingSound' /\ EndedSound'
<1>0. LinkInv
  BY DEF FifoInv
<1>1. PICK r \in selq[c] : chan_pending' = [chan_pending EXCEPT ![r] = sent[c] + 1]
  BY DEF SendToSelector
<1>a. /\ ~closed[c]
      /\ sent' = [sent EXCEPT ![c] = sent[c] + 1]
      /\ got' = [got EXCEPT ![c] = Append(got[c], sent[c] + 1)]
      /\ UNCHANGED <<ringVars, closed, sendq, ended>>
  BY DEF SendToSelector, CanSend, Accepted, Delivered
<1>2. r \in Tasks /\ op[r] = "select"
  BY <1>0, <1>1, LinkedTypes
<1>3. count[c] = 0 /\ sendq[c] = <<>>
  BY <1>0, <1>1 DEF LinkInv, ChannelInv, WaitersMatchCounts
<1>4. \A u \in Tasks : Parked(u) /\ op[u] = "send" => chan_pending'[u] = chan_pending[u]
  BY <1>0, <1>1, <1>2 DEF LinkInv, ChannelInv, TypeOK, TaskTypeOK
<1>5. /\ slots' = slots /\ count' = count /\ head' = head /\ buffer' = buffer /\ sendq' = sendq
      /\ closed' = closed /\ ended' = ended /\ UNCHANGED ringVars
  BY <1>a DEF ringVars
<1>6. Queue' = Queue
  BY <1>0, <1>4, <1>5, SameQueue
<1>7. Queue[c] = <<>>
  BY <1>0, <1>3, QueueType
<1>8. FifoStep
  BY <1>a, <1>5, <1>6, <1>7, PassStep
<1> QED BY <1>5, <1>8, SoundFrame

(* A send into a free slot is Accept.                                       *)
LEMMA SendBufferedFifo ==
  ASSUME FifoInv, NEW t \in Tasks, NEW c \in Chans, SendBuffered(t, c)
  PROVE  FifoStep /\ RingSound' /\ EndedSound'
<1> DEFINE n == slots[c]
           k == count[c]
           h == head[c]
           v == sent[c] + 1
           b2 == [buffer[c] EXCEPT ![tail[c]] = v]
<1>0. LinkInv /\ RingTypeOK
  BY DEF FifoInv, LinkInv, ChannelInv, TypeOK
<1>1. Fits(n, k, h, buffer[c], sendq[c], chan_pending)
  BY <1>0, QueueFits
<1>2. n \in Nat /\ k \in Nat /\ k < n /\ h \in 0 .. n - 1 /\ v \in Nat
  <2>1. k <= n /\ k # n
    BY <1>1 DEF Fits, SendBuffered
  <2>2. sent[c] \in Nat
    BY <1>0 DEF LinkInv, ChannelInv, TypeOK, HistoryTypeOK
  <2> QED BY <1>1, <2>1, <2>2 DEF Fits
<1>3. tail[c] = Place(h, k, n)
  BY <1>2 DEF FifoInv, RingSound
<1>4. sendq[c] = <<>>
  BY <1>0, CapAssumption DEF LinkInv, ChannelInv, WaitersMatchCounts, SendBuffered, RingTypeOK
<1>5. /\ ~closed[c] /\ sent' = [sent EXCEPT ![c] = v] /\ got' = got /\ closed' = closed /\ ended' = ended
      /\ sendq' = sendq /\ chan_pending' = chan_pending /\ slots' = slots /\ head' = head
      /\ buffer' = [buffer EXCEPT ![c] = b2]
      /\ tail' = [tail EXCEPT ![c] = (tail[c] + 1) % slots[c]]
      /\ count' = [count EXCEPT ![c] = k + 1]
  BY DEF SendBuffered, CanSend, Accepted, waitVars, taskVars, chan_ring_next
<1>6. /\ buffer'[c] = b2 /\ count'[c] = k + 1 /\ tail'[c] = (tail[c] + 1) % n
      /\ \A d \in Chans : d # c => /\ buffer'[d] = buffer[d] /\ count'[d] = count[d]
                                   /\ tail'[d] = tail[d]
  BY <1>0, <1>5 DEF RingTypeOK
<1> HIDE DEF n, k, h, v
<1>7. RingQueue(n, k + 1, h, b2, <<>>, chan_pending) = Append(RingQueue(n, k, h, buffer[c], <<>>, chan_pending), v)
  <2>1. PICK b : b = buffer[c]
    OBVIOUS
  <2>2. Fits(n, k, h, b, <<>>, chan_pending) /\ k < n /\ v \in Nat
    BY <1>1, <1>2, <1>4, <2>1
  <2>3. b \in [0 .. n - 1 -> Nat] /\ Place(h, k, n) \in 0 .. n - 1
    BY <1>2, <2>2, PlaceMod DEF Fits
  <2>4. Written(b2, b, n, Place(h, k, n), v)
    BY <1>2, <1>3, <2>1, <2>3 DEF Written
  <2> HIDE DEF b2
  <2>5. RingQueue(n, k + 1, h, b2, <<>>, chan_pending) = Append(RingQueue(n, k, h, b, <<>>, chan_pending), v)
    BY <2>2, <2>4, EnqueueAppends
  <2> QED BY <2>1, <2>5
<1> HIDE DEF b2
<1>8. Queue'[c] = Append(Queue[c], v)
  BY <1>4, <1>5, <1>6, <1>7, QueueAt DEF n, k, h
<1>9. \A d \in Chans : d # c => Queue'[d] = Queue[d]
  BY <1>5, <1>6, OtherQueue
<1>10. FifoStep
  <2>1. Queue' = [Queue EXCEPT ![c] = Append(Queue[c], v)]
    BY <1>8, <1>9, OneQueue
  <2> QED BY <1>5, <2>1, AcceptStep DEF v
<1>11. RingSound'
  <2>1. tail'[c] = Place(h, k + 1, n)
    <3>1. tail[c] \in 0 .. n - 1 /\ (tail[c] + 1) % n = Place(tail[c], 1, n)
      BY <1>2, <1>3, PlaceMod
    <3>2. Place(Place(h, k, n), 1, n) = Place(h, k + 1, n)
      BY <1>2 DEF Place
    <3> QED BY <1>3, <1>6, <3>1, <3>2
  <2>2. ASSUME NEW d \in Chans, slots'[d] > 0 PROVE tail'[d] = Place(head'[d], count'[d], slots'[d])
    <3>1. CASE d = c
      BY <1>5, <1>6, <2>1, <3>1 DEF n, h
    <3>2. CASE d # c
      BY <1>5, <1>6, <2>2, <3>2 DEF FifoInv, RingSound
    <3> QED BY <3>1, <3>2
  <2> QED BY <2>2 DEF RingSound
<1>12. EndedSound'
  BY <1>5 DEF FifoInv, EndedSound
<1> QED BY <1>10, <1>11, <1>12

(* A send that grows the ring is Accept: the copy keeps the order.          *)
LEMMA SendGrowsFifo ==
  ASSUME FifoInv, NEW t \in Tasks, NEW c \in Chans, SendGrows(t, c)
  PROVE  FifoStep /\ RingSound' /\ EndedSound'
<1> DEFINE n == slots[c]
           h == head[c]
           v == sent[c] + 1
           g == GrownSlots(c)
           b2 == [GrownBuffer(c) EXCEPT ![count[c]] = v]
<1>0. LinkInv /\ RingTypeOK
  BY DEF FifoInv, LinkInv, ChannelInv, TypeOK
<1>1. Fits(n, count[c], h, buffer[c], sendq[c], chan_pending) /\ count[c] = n
  BY <1>0, QueueFits DEF SendGrows
<1>2. n \in Nat \ {0} /\ h \in 0 .. n - 1 /\ v \in Nat /\ n < Cap[c] /\ Cap[c] \in Nat
      /\ buffer[c] \in [0 .. n - 1 -> Nat]
  <2>1. n < Cap[c] /\ Cap[c] \in Nat
    BY <1>1, CapAssumption DEF SendGrows
  <2>2. sent[c] \in Nat
    BY <1>0 DEF LinkInv, ChannelInv, TypeOK, HistoryTypeOK
  <2>3. n \in Nat /\ n > 0
    BY <1>1, <2>1 DEF FifoInv, LinkInv, ChannelInv, RingBounds, Fits
  <2> QED BY <1>1, <2>1, <2>2, <2>3 DEF Fits
<1>3. g \in Nat /\ n < g
  BY <1>2, GrownSlotsBounds
<1>4. sendq[c] = <<>>
  BY <1>1, <1>2 DEF FifoInv, LinkInv, ChannelInv, WaitersMatchCounts
<1>5. /\ ~closed[c] /\ sent' = [sent EXCEPT ![c] = v] /\ got' = got /\ closed' = closed /\ ended' = ended
      /\ sendq' = sendq /\ chan_pending' = chan_pending
      /\ slots' = [slots EXCEPT ![c] = g] /\ head' = [head EXCEPT ![c] = 0]
      /\ buffer' = [buffer EXCEPT ![c] = b2]
      /\ tail' = [tail EXCEPT ![c] = (count[c] + 1) % g]
      /\ count' = [count EXCEPT ![c] = count[c] + 1]
  BY DEF SendGrows, CanSend, Accepted, waitVars, taskVars
<1>6. /\ b2 \in [0 .. g - 1 -> Nat] /\ b2[n] = v
      /\ \A i \in 0 .. n - 1 : b2[i] = buffer[c][(h + i) % n]
  <2>1. \A i \in 0 .. n - 1 : (h + i) % n \in 0 .. n - 1
    BY <1>2, PlaceMod
  <2>2. GrownBuffer(c) = [i \in 0 .. g - 1 |-> IF i < n THEN buffer[c][(h + i) % n] ELSE 0]
    BY <1>1 DEF GrownBuffer, Empty
  <2> HIDE DEF n, h, v, g
  <2>3. GrownBuffer(c) \in [0 .. g - 1 -> Nat]
    <3>1. \A i \in 0 .. g - 1 : (IF i < n THEN buffer[c][(h + i) % n] ELSE 0) \in Nat
      BY <1>2, <1>3, <2>1
    <3> QED BY <2>2, <3>1
  <2>4. n \in 0 .. g - 1 /\ \A i \in 0 .. n - 1 : i \in 0 .. g - 1 /\ i < n /\ i # n
    BY <1>2, <1>3
  <2>5. \A i \in 0 .. n - 1 : GrownBuffer(c)[i] = buffer[c][(h + i) % n]
    BY <2>2, <2>4
  <2>6. b2 = [GrownBuffer(c) EXCEPT ![n] = v]
    BY <1>1
  <2> HIDE DEF b2
  <2> QED BY <1>2, <2>3, <2>4, <2>5, <2>6
<1>7. /\ slots'[c] = g /\ head'[c] = 0 /\ buffer'[c] = b2 /\ tail'[c] = (n + 1) % g /\ count'[c] = n + 1
      /\ \A d \in Chans : d # c => /\ slots'[d] = slots[d] /\ head'[d] = head[d] /\ buffer'[d] = buffer[d]
                                   /\ count'[d] = count[d] /\ tail'[d] = tail[d]
  BY <1>0, <1>1, <1>5 DEF RingTypeOK
<1> HIDE DEF n, h, v, g, b2
<1>8. RingQueue(g, n + 1, 0, b2, <<>>, chan_pending) = Append(RingQueue(n, n, h, buffer[c], <<>>, chan_pending), v)
  <2>1. PICK b : b = buffer[c]
    OBVIOUS
  <2>2. Fits(n, n, h, b, <<>>, chan_pending) /\ n > 0 /\ v \in Nat
    BY <1>1, <1>2, <1>4, <2>1
  <2>3. b2 \in [0 .. g - 1 -> Nat] /\ b2[n] = v /\ \A i \in 0 .. n - 1 : b2[i] = b[(h + i) % n]
    BY <1>6, <2>1
  <2>4. RingQueue(g, n + 1, 0, b2, <<>>, chan_pending) = Append(RingQueue(n, n, h, b, <<>>, chan_pending), v)
    BY <1>3, <2>2, <2>3, GrowAppends
  <2> QED BY <2>1, <2>4
<1>9. Queue'[c] = Append(Queue[c], v)
  BY <1>1, <1>4, <1>5, <1>7, <1>8, QueueAt DEF n, h
<1>10. \A d \in Chans : d # c => Queue'[d] = Queue[d]
  BY <1>5, <1>7, OtherQueue
<1>11. FifoStep
  <2>1. Queue' = [Queue EXCEPT ![c] = Append(Queue[c], v)]
    BY <1>9, <1>10, OneQueue
  <2> QED BY <1>5, <2>1, AcceptStep DEF v
<1>12. RingSound'
  <2>1. tail'[c] = Place(0, n + 1, g)
    <3>1. g \in Nat \ {0} /\ 0 \in 0 .. g - 1 /\ n + 1 \in 0 .. g /\ 0 + (n + 1) = n + 1
      BY <1>2, <1>3
    <3>2. (0 + (n + 1)) % g = Place(0, n + 1, g)
      BY <3>1, PlaceMod
    <3> QED BY <1>7, <3>1, <3>2
  <2>2. ASSUME NEW d \in Chans, slots'[d] > 0 PROVE tail'[d] = Place(head'[d], count'[d], slots'[d])
    <3>1. CASE d = c
      BY <1>7, <2>1, <3>1
    <3>2. CASE d # c
      BY <1>7, <2>2, <3>2 DEF FifoInv, RingSound
    <3> QED BY <3>1, <3>2
  <2> QED BY <2>2 DEF RingSound
<1>13. EndedSound'
  BY <1>5 DEF FifoInv, EndedSound
<1> QED BY <1>11, <1>12, <1>13

(* A send that parks is Accept: its message is behind everything.           *)
LEMMA SendParksFifo ==
  ASSUME FifoInv, NEW t \in Tasks, NEW c \in Chans, SendParks(t, c)
  PROVE  FifoStep /\ RingSound' /\ EndedSound'
<1> DEFINE v == sent[c] + 1
<1>0. LinkInv
  BY DEF FifoInv
<1>1. /\ op[t] = "none" /\ ~closed[c] /\ sent' = [sent EXCEPT ![c] = v] /\ got' = got
      /\ closed' = closed /\ ended' = ended /\ UNCHANGED ringVars
      /\ sendq' = [sendq EXCEPT ![c] = Append(sendq[c], t)]
      /\ chan_pending' = [chan_pending EXCEPT ![t] = v]
  BY DEF SendParks, CanSend, CanCall, Accepted, ParkAs
<1>2. v \in Nat
  BY <1>0 DEF LinkInv, ChannelInv, TypeOK, HistoryTypeOK
<1>3. \A d \in Chans : t \notin Elems(sendq[d]) /\ Elems(sendq[d]) \subseteq Tasks
  BY <1>0, <1>1, LinkedTypes
<1> HIDE DEF v
<1>4. /\ chan_pending' \in [Tasks -> Nat] /\ chan_pending'[t] = v
      /\ \A u \in Tasks : u # t => chan_pending'[u] = chan_pending[u]
  BY <1>0, <1>1, <1>2 DEF LinkInv, ChannelInv, TypeOK, TaskTypeOK
<1>5. sendq'[c] = Append(sendq[c], t) /\ \A d \in Chans : d # c => sendq'[d] = sendq[d]
  BY <1>0, <1>1, LinkedTypes
<1>6. slots' = slots /\ count' = count /\ head' = head /\ buffer' = buffer
  BY <1>1 DEF ringVars
<1>7. Queue'[c] = Append(Queue[c], v)
  <2>1. Fits(slots[c], count[c], head[c], buffer[c], sendq[c], chan_pending) /\ t \notin Elems(sendq[c])
    BY <1>0, <1>3, QueueFits
  <2>2. RingQueue(slots[c], count[c], head[c], buffer[c], Append(sendq[c], t), chan_pending')
          = Append(RingQueue(slots[c], count[c], head[c], buffer[c], sendq[c], chan_pending), v)
    BY <1>2, <1>4, <2>1, ParkAppends
  <2> QED BY <1>5, <1>6, <2>2, QueueAt
<1>8. \A d \in Chans : d # c => Queue'[d] = Queue[d]
  <2>1. ASSUME NEW d \in Chans, d # c PROVE Queue'[d] = Queue[d]
    <3>1. \A u \in Elems(sendq[d]) : chan_pending'[u] = chan_pending[u]
      BY <1>3, <1>4
    <3> QED BY <1>5, <1>6, <2>1, <3>1, OtherQueue
  <2> QED BY <2>1
<1>9. FifoStep
  <2>1. Queue' = [Queue EXCEPT ![c] = Append(Queue[c], v)]
    BY <1>7, <1>8, OneQueue
  <2> QED BY <1>1, <2>1, AcceptStep DEF v
<1>10. RingSound' /\ EndedSound'
  BY <1>1, SoundFrame
<1> QED BY <1>9, <1>10

(* Taking the head of the ring is Receive.                                  *)
LEMMA TakeBufferedFifo ==
  ASSUME FifoInv, NEW c \in Chans, chan_poll_take(c), TakeBuffered(c)
  PROVE  FifoStep /\ RingSound' /\ EndedSound'
<1> DEFINE n == slots[c]
           k == count[c]
           h == head[c]
           b2 == [buffer[c] EXCEPT ![h] = 0]
<1>0. LinkInv /\ RingTypeOK
  BY DEF FifoInv, LinkInv, ChannelInv, TypeOK
<1>1. Fits(n, k, h, buffer[c], sendq[c], chan_pending) /\ sendq[c] = <<>> /\ k > 0
  BY <1>0, QueueFits DEF TakeBuffered
<1>2. n \in Nat \ {0} /\ k \in Nat \ {0} /\ k <= n /\ h \in 0 .. n - 1 /\ buffer[c] \in [0 .. n - 1 -> Nat]
  BY <1>1 DEF Fits
<1>3. tail[c] = Place(h, k, n)
  BY <1>2 DEF FifoInv, RingSound
<1>5. /\ sent' = sent /\ got' = [got EXCEPT ![c] = Append(got[c], buffer[c][h])]
      /\ closed' = closed /\ ended' = ended
      /\ sendq' = sendq /\ chan_pending' = chan_pending /\ slots' = slots /\ tail' = tail
      /\ buffer' = [buffer EXCEPT ![c] = b2]
      /\ head' = [head EXCEPT ![c] = (h + 1) % n]
      /\ count' = [count EXCEPT ![c] = k - 1]
  BY DEF TakeBuffered, chan_poll_take, Delivered, HeadMessage, chan_ring_next, Empty
<1>4. (h + 1) % n = Place(h, 1, n)
  <2>1. n \in Nat \ {0} /\ h \in 0 .. n - 1 /\ 1 \in 0 .. n
    BY <1>2
  <2> HIDE DEF n, h
  <2> QED BY <2>1, PlaceMod
<1>6. /\ buffer'[c] = b2 /\ count'[c] = k - 1 /\ head'[c] = Place(h, 1, n)
      /\ \A d \in Chans : d # c => /\ buffer'[d] = buffer[d] /\ count'[d] = count[d]
                                   /\ head'[d] = head[d]
  BY <1>0, <1>4, <1>5 DEF RingTypeOK
<1> HIDE DEF n, k, h
<1>7. b2 \in [0 .. n - 1 -> Nat] /\ \A i \in 0 .. n - 1 : i # h => b2[i] = buffer[c][i]
  BY <1>2
<1> HIDE DEF b2
<1>8. LET A == RingQueue(n, k, h, buffer[c], <<>>, chan_pending)
      IN  /\ A # <<>> /\ Head(A) = buffer[c][h]
          /\ RingQueue(n, k - 1, Place(h, 1, n), b2, <<>>, chan_pending) = Tail(A)
  <2>1. PICK b : b = buffer[c]
    OBVIOUS
  <2>2. Fits(n, k, h, b, <<>>, chan_pending) /\ k > 0
    BY <1>1, <1>2, <2>1
  <2>3. b2 \in [0 .. n - 1 -> Nat] /\ \A i \in 0 .. n - 1 : i # h => b2[i] = b[i]
    BY <1>7, <2>1
  <2>4. LET A == RingQueue(n, k, h, b, <<>>, chan_pending)
        IN  /\ A # <<>> /\ Head(A) = b[h]
            /\ RingQueue(n, k - 1, Place(h, 1, n), b2, <<>>, chan_pending) = Tail(A)
    BY <2>2, <2>3, TakeTails, ZenonT(30)
  <2> QED BY <2>1, <2>4
<1>9. Queue[c] # <<>> /\ Head(Queue[c]) = buffer[c][h] /\ Queue'[c] = Tail(Queue[c])
  BY <1>1, <1>5, <1>6, <1>8, QueueAt DEF n, k, h
<1>10. \A d \in Chans : d # c => Queue'[d] = Queue[d]
  BY <1>5, <1>6, OtherQueue
<1>11. FifoStep
  <2>1. Queue' = [Queue EXCEPT ![c] = Tail(Queue[c])]
    BY <1>9, <1>10, OneQueue
  <2> QED BY <1>5, <1>9, <2>1, ReceiveStep
<1>12. RingSound'
  <2>1. tail'[c] = Place(Place(h, 1, n), k - 1, n)
    <3>1. Place(Place(h, 1, n), k - 1, n) = Place(h, k, n)
      BY <1>2 DEF Place
    <3> QED BY <1>3, <1>5, <3>1
  <2>2. ASSUME NEW d \in Chans, slots'[d] > 0 PROVE tail'[d] = Place(head'[d], count'[d], slots'[d])
    <3>1. CASE d = c
      BY <1>5, <1>6, <2>1, <3>1 DEF n
    <3>2. CASE d # c
      BY <1>5, <1>6, <2>2, <3>2 DEF FifoInv, RingSound
    <3> QED BY <3>1, <3>2
  <2> QED BY <2>2 DEF RingSound
<1>13. EndedSound'
  BY <1>5 DEF FifoInv, EndedSound
<1> QED BY <1>11, <1>12, <1>13

\* What a take that wakes the first parked sender of c does to the senders.
WakesSender(c) ==
  /\ sendq[c] # <<>>
  /\ sendq' = [sendq EXCEPT ![c] = Tail(sendq[c])]
  /\ chan_pending' = [chan_pending EXCEPT ![Head(sendq[c])] = 0]

(* Only the pending word and the place of the woken sender change.          *)
LEMMA WokenSender ==
  ASSUME LinkInv, NEW c \in Chans, WakesSender(c)
  PROVE  /\ Head(sendq[c]) \in Tasks /\ chan_pending' \in [Tasks -> Nat]
         /\ \A u \in Tasks : u # Head(sendq[c]) => chan_pending'[u] = chan_pending[u]
         /\ sendq'[c] = Tail(sendq[c]) /\ NoDup(sendq[c])
         /\ \A d \in Chans : d # c => sendq'[d] = sendq[d]
         /\ \A d \in Chans : d # c => \A u \in Elems(sendq[d]) : chan_pending'[u] = chan_pending[u]
<1> DEFINE r == Head(sendq[c])
<1>1. r \in Elems(sendq[c])
  BY TailElems, LinkedTypes DEF WakesSender
<1>2. r \in Tasks /\ args[r][1] = c
  BY <1>1, LinkedTypes
<1>3. chan_pending' = [chan_pending EXCEPT ![r] = 0] /\ chan_pending \in [Tasks -> Nat]
  BY DEF WakesSender, LinkInv, ChannelInv, TypeOK, TaskTypeOK
<1> HIDE DEF r
<1>4. chan_pending' \in [Tasks -> Nat] /\ \A u \in Tasks : u # r => chan_pending'[u] = chan_pending[u]
  BY <1>2, <1>3
<1>5. ASSUME NEW d \in Chans, d # c, NEW u \in Elems(sendq[d]) PROVE u \in Tasks /\ u # r
  <2>1. u \in Tasks
    BY LinkedTypes
  <2>2. args[u][1] = d
    BY <2>1, LinkedTypes
  <2> QED BY <1>2, <1>5, <2>1, <2>2
<1>6. /\ sendq'[c] = Tail(sendq[c]) /\ NoDup(sendq[c])
      /\ \A d \in Chans : d # c => sendq'[d] = sendq[d]
  BY LinkedTypes DEF WakesSender
<1> QED BY <1>2, <1>4, <1>5, <1>6 DEF r

(* Taking the head and refilling its slot from the first sender is Receive. *)
LEMMA TakeRefillFifo ==
  ASSUME FifoInv, NEW c \in Chans, chan_poll_take(c), TakeBufferedRefill(c)
  PROVE  FifoStep /\ RingSound' /\ EndedSound'
<1> DEFINE n == slots[c]
           h == head[c]
           r == Head(sendq[c])
           m == chan_pending[r]
           b2 == [[buffer[c] EXCEPT ![h] = 0] EXCEPT ![h] = m]
<1>0. LinkInv /\ RingTypeOK
  BY DEF FifoInv, LinkInv, ChannelInv, TypeOK
<1>1. /\ Fits(n, count[c], h, buffer[c], sendq[c], chan_pending) /\ sendq[c] # <<>> /\ count[c] > 0
      /\ count[c] = n
  <2>1. count[c] = Cap[c] /\ slots[c] = Cap[c]
    BY <1>0 DEF LinkInv, ChannelInv, WaitersMatchCounts, TakeBufferedRefill
  <2> QED BY <1>0, <2>1, QueueFits DEF TakeBufferedRefill
<1>2. n \in Nat \ {0} /\ h \in 0 .. n - 1 /\ buffer[c] \in [0 .. n - 1 -> Nat]
  BY <1>1 DEF Fits
<1>3. tail[c] = h
  <2>1. tail[c] = Place(h, n, n)
    BY <1>1, <1>2 DEF FifoInv, RingSound
  <2>2. Place(h, n, n) = h
    BY <1>2 DEF Place
  <2> QED BY <2>1, <2>2
<1>5. /\ sent' = sent /\ got' = [got EXCEPT ![c] = Append(got[c], buffer[c][h])]
      /\ closed' = closed /\ ended' = ended
      /\ sendq' = [sendq EXCEPT ![c] = Tail(sendq[c])]
      /\ chan_pending' = [chan_pending EXCEPT ![r] = 0]
      /\ slots' = slots /\ count' = count
      /\ buffer' = [buffer EXCEPT ![c] = b2]
      /\ head' = [head EXCEPT ![c] = (h + 1) % n]
      /\ tail' = [tail EXCEPT ![c] = (h + 1) % n]
  BY <1>3 DEF TakeBufferedRefill, chan_poll_take, Delivered, HeadMessage, chan_ring_next, Empty
<1>6. /\ r \in Tasks /\ chan_pending' \in [Tasks -> Nat]
      /\ \A u \in Tasks : u # r => chan_pending'[u] = chan_pending[u]
      /\ sendq'[c] = Tail(sendq[c]) /\ NoDup(sendq[c])
      /\ \A d \in Chans : d # c => sendq'[d] = sendq[d]
      /\ \A d \in Chans : d # c => \A u \in Elems(sendq[d]) : chan_pending'[u] = chan_pending[u]
  BY <1>0, <1>1, <1>5, WokenSender DEF WakesSender
<1>4. (h + 1) % n = Place(h, 1, n)
  <2>1. n \in Nat \ {0} /\ h \in 0 .. n - 1 /\ 1 \in 0 .. n
    BY <1>2
  <2> HIDE DEF n, h
  <2> QED BY <2>1, PlaceMod
<1>7. /\ buffer'[c] = b2 /\ head'[c] = Place(h, 1, n) /\ tail'[c] = Place(h, 1, n)
      /\ \A d \in Chans : d # c => buffer'[d] = buffer[d] /\ head'[d] = head[d] /\ tail'[d] = tail[d]
  BY <1>0, <1>4, <1>5 DEF RingTypeOK
<1>8. m \in Nat
  BY <1>0, <1>6 DEF LinkInv, ChannelInv, TypeOK, TaskTypeOK
<1> HIDE DEF n, h, m, r
<1>9. b2 \in [0 .. n - 1 -> Nat] /\ b2[h] = m /\ \A i \in 0 .. n - 1 : i # h => b2[i] = buffer[c][i]
  BY <1>2, <1>8
<1> HIDE DEF b2
<1>10. LET A == RingQueue(n, n, h, buffer[c], sendq[c], chan_pending)
       IN  /\ A # <<>> /\ Head(A) = buffer[c][h]
           /\ RingQueue(n, n, Place(h, 1, n), b2, Tail(sendq[c]), chan_pending') = Tail(A)
  <2>1. PICK b : b = buffer[c]
    OBVIOUS
  <2>2. PICK q : q = sendq[c]
    OBVIOUS
  <2>3. PICK p : p = chan_pending
    OBVIOUS
  <2>4. PICK p2 : p2 = chan_pending'
    OBVIOUS
  <2>5. Fits(n, n, h, b, q, p) /\ n # 0 /\ q # <<>> /\ NoDup(q)
    BY <1>1, <1>2, <1>6, <2>1, <2>2, <2>3
  <2>6. r = Head(q) /\ m = p[r]
    BY <2>2, <2>3 DEF r, m
  <2>7. Written(b2, b, n, h, m)
    BY <1>9, <2>1, <2>6 DEF Written
  <2>8. Released(p2, p, r)
    BY <1>6, <2>3, <2>4, <2>6 DEF Released
  <2>9. Refilled(n, h, b, q, p, b2, p2)
    BY <2>5, <2>6, <2>7, <2>8 DEF Refilled
  <2>10. LET A == RingQueue(n, n, h, b, q, p)
         IN  /\ A # <<>> /\ Head(A) = b[h]
             /\ RingQueue(n, n, Place(h, 1, n), b2, Tail(q), p2) = Tail(A)
    BY <2>9, RefillTails
  <2> QED BY <2>1, <2>2, <2>3, <2>4, <2>10
<1>11. Queue[c] # <<>> /\ Head(Queue[c]) = buffer[c][h] /\ Queue'[c] = Tail(Queue[c])
  BY <1>1, <1>5, <1>6, <1>7, <1>10, QueueAt DEF n, h
<1>12. \A d \in Chans : d # c => Queue'[d] = Queue[d]
  BY <1>5, <1>6, <1>7, OtherQueue
<1>13. FifoStep
  <2>1. Queue' = [Queue EXCEPT ![c] = Tail(Queue[c])]
    BY <1>11, <1>12, OneQueue
  <2> QED BY <1>5, <1>11, <2>1, ReceiveStep
<1>14. RingSound'
  <2>1. Place(Place(h, 1, n), n, n) = Place(h, 1, n)
    BY <1>2 DEF Place
  <2>2. ASSUME NEW d \in Chans, slots'[d] > 0 PROVE tail'[d] = Place(head'[d], count'[d], slots'[d])
    <3>1. CASE d = c
      BY <1>1, <1>5, <1>7, <2>1, <3>1 DEF n
    <3>2. CASE d # c
      BY <1>5, <1>7, <2>2, <3>2 DEF FifoInv, RingSound
    <3> QED BY <3>1, <3>2
  <2> QED BY <2>2 DEF RingSound
<1>15. EndedSound'
  BY <1>5 DEF FifoInv, EndedSound
<1> QED BY <1>13, <1>14, <1>15

(* Taking a parked sender's message directly is Receive.                    *)
LEMMA TakeRendezvousFifo ==
  ASSUME FifoInv, NEW c \in Chans, chan_poll_take(c), TakeRendezvous(c)
  PROVE  FifoStep /\ RingSound' /\ EndedSound'
<1> DEFINE r == Head(sendq[c])
<1>0. LinkInv
  BY DEF FifoInv
<1>1. /\ Fits(slots[c], count[c], head[c], buffer[c], sendq[c], chan_pending)
      /\ sendq[c] # <<>> /\ count[c] = 0
  BY <1>0, QueueFits DEF TakeRendezvous
<1>2. /\ sent' = sent /\ got' = [got EXCEPT ![c] = Append(got[c], chan_pending[r])]
      /\ closed' = closed /\ ended' = ended
      /\ sendq' = [sendq EXCEPT ![c] = Tail(sendq[c])]
      /\ chan_pending' = [chan_pending EXCEPT ![r] = 0]
      /\ UNCHANGED ringVars
  BY DEF TakeRendezvous, chan_poll_take, Delivered, Empty
<1>3. slots' = slots /\ count' = count /\ head' = head /\ buffer' = buffer
  BY <1>2 DEF ringVars
<1>4. /\ r \in Tasks /\ chan_pending' \in [Tasks -> Nat]
      /\ \A u \in Tasks : u # r => chan_pending'[u] = chan_pending[u]
      /\ sendq'[c] = Tail(sendq[c]) /\ NoDup(sendq[c])
      /\ \A d \in Chans : d # c => sendq'[d] = sendq[d]
      /\ \A d \in Chans : d # c => \A u \in Elems(sendq[d]) : chan_pending'[u] = chan_pending[u]
  BY <1>0, <1>1, <1>2, WokenSender DEF WakesSender
<1>5. LET A == RingQueue(slots[c], 0, head[c], buffer[c], sendq[c], chan_pending)
      IN  /\ A # <<>> /\ Head(A) = chan_pending[r]
          /\ RingQueue(slots[c], 0, head[c], buffer[c], Tail(sendq[c]), chan_pending') = Tail(A)
  <2>1. PICK b : b = buffer[c]
    OBVIOUS
  <2>2. PICK q : q = sendq[c]
    OBVIOUS
  <2>3. PICK p : p = chan_pending
    OBVIOUS
  <2>4. PICK p2 : p2 = chan_pending'
    OBVIOUS
  <2>5. Fits(slots[c], 0, head[c], b, q, p) /\ q # <<>> /\ NoDup(q)
    BY <1>1, <1>4, <2>1, <2>2, <2>3
  <2>8. Released(p2, p, Head(q))
    BY <1>4, <2>2, <2>3, <2>4 DEF Released
  <2>9. LET A == RingQueue(slots[c], 0, head[c], b, q, p)
        IN  /\ A # <<>> /\ Head(A) = p[Head(q)]
            /\ RingQueue(slots[c], 0, head[c], b, Tail(q), p2) = Tail(A)
    BY <2>5, <2>8, RendezvousTails
  <2> QED BY <2>1, <2>2, <2>3, <2>4, <2>9
<1> HIDE DEF r
<1>6. Queue[c] # <<>> /\ Head(Queue[c]) = chan_pending[r] /\ Queue'[c] = Tail(Queue[c])
  BY <1>1, <1>3, <1>4, <1>5, QueueAt
<1>7. \A d \in Chans : d # c => Queue'[d] = Queue[d]
  BY <1>3, <1>4, OtherQueue
<1>8. FifoStep
  <2>1. Queue' = [Queue EXCEPT ![c] = Tail(Queue[c])]
    BY <1>6, <1>7, OneQueue
  <2> QED BY <1>2, <1>6, <2>1, ReceiveStep
<1>9. RingSound' /\ EndedSound'
  BY <1>2, SoundFrame
<1> QED BY <1>8, <1>9

(* Answering Closed on a drained channel is Announce.                       *)
LEMMA TakeClosedFifo ==
  ASSUME FifoInv, NEW c \in Chans, chan_poll_take(c), TakeClosed(c)
  PROVE  FifoStep /\ RingSound' /\ EndedSound'
<1>0. LinkInv
  BY DEF FifoInv
<1>1. /\ count[c] = 0 /\ sendq[c] = <<>> /\ closed[c] /\ sent' = sent /\ got' = got
      /\ closed' = closed /\ ended' = [ended EXCEPT ![c] = TRUE]
      /\ sendq' = sendq /\ chan_pending' = chan_pending
      /\ slots' = slots /\ count' = count /\ head' = head /\ buffer' = buffer /\ tail' = tail
  BY DEF TakeClosed, chan_poll_take, ringVars
<1>2. Queue[c] = <<>>
  BY <1>0, <1>1, QueueType
<1>3. Queue' = Queue
  BY <1>0, <1>1, SameQueue
<1>4. Fifo!Announce(c)
  BY <1>1, <1>2, <1>3 DEF Fifo!Announce, Queue
<1>5. FifoStep
  BY <1>4 DEF FifoStep, Fifo!FifoNext
<1>6. RingSound'
  BY <1>1 DEF FifoInv, RingSound
<1>7. EndedSound'
  <2>1. ended \in [Chans -> BOOLEAN]
    BY <1>0 DEF LinkInv, ChannelInv, TypeOK, FlagTypeOK
  <2> QED BY <1>1, <2>1 DEF FifoInv, EndedSound
<1> QED BY <1>5, <1>6, <1>7

(* chan_poll_take is Receive or Announce.                                   *)
LEMMA PollTakeFifo ==
  ASSUME FifoInv, NEW c \in Chans, chan_poll_take(c)
  PROVE  FifoStep /\ RingSound' /\ EndedSound'
<1>1. TakeBuffered(c) \/ TakeBufferedRefill(c) \/ TakeRendezvous(c) \/ TakeClosed(c)
  BY DEF chan_poll_take
<1> QED BY <1>1, TakeBufferedFifo, TakeRefillFifo, TakeRendezvousFifo, TakeClosedFifo


(* A receive that parks is a stutter.                                       *)
LEMMA RecvParksFifo ==
  ASSUME FifoInv, NEW t \in Tasks, NEW c \in Chans, RecvParks(t, c)
  PROVE  FifoStep /\ RingSound' /\ EndedSound'
<1>1. /\ slots' = slots /\ count' = count /\ head' = head /\ buffer' = buffer /\ tail' = tail
      /\ sendq' = sendq /\ chan_pending' = chan_pending /\ closed' = closed
      /\ sent' = sent /\ got' = got /\ ended' = ended
  BY DEF RecvParks, ParkAs, ringVars, histVars
<1>2. Queue' = Queue
  BY <1>1, SameQueue DEF FifoInv
<1>3. RingSound' /\ EndedSound'
  BY <1>1, SoundFrame DEF ringVars
<1> QED BY <1>1, <1>2, <1>3, StutterStep

(* A select that parks is a stutter.                                        *)
LEMMA SelectParksFifo ==
  ASSUME FifoInv, NEW t \in Tasks, NEW l \in SelectLists, SelectParks(t, l)
  PROVE  FifoStep /\ RingSound' /\ EndedSound'
<1>1. /\ slots' = slots /\ count' = count /\ head' = head /\ buffer' = buffer /\ tail' = tail
      /\ sendq' = sendq /\ chan_pending' = chan_pending /\ closed' = closed
      /\ sent' = sent /\ got' = got /\ ended' = ended
  BY DEF SelectParks, ParkAs, ringVars, histVars
<1>2. Queue' = Queue
  BY <1>1, SameQueue DEF FifoInv
<1>3. RingSound' /\ EndedSound'
  BY <1>1, SoundFrame DEF ringVars
<1> QED BY <1>1, <1>2, <1>3, StutterStep

(* chan_close drops the messages of the parked senders, and tells the end   *)
(* only to receivers that were waiting on an empty channel: Close.          *)
LEMMA CloseFirstFifo ==
  ASSUME FifoInv, NEW t \in Tasks, NEW c \in Chans, CloseFirst(t, c)
  PROVE  FifoStep /\ RingSound' /\ EndedSound'
<1> DEFINE w == recvq[c] # <<>> \/ selq[c] # {}
           k == IF Len(Queue[c]) < Cap[c] THEN Len(Queue[c]) ELSE Cap[c]
<1>0. LinkInv
  BY DEF FifoInv
<1>1. /\ ~closed[c] /\ closed' = [closed EXCEPT ![c] = TRUE] /\ ended' = [ended EXCEPT ![c] = w]
      /\ sendq' = [sendq EXCEPT ![c] = <<>>] /\ chan_pending' = chan_pending
      /\ sent' = sent /\ got' = got
      /\ slots' = slots /\ count' = count /\ head' = head /\ buffer' = buffer /\ tail' = tail
  BY DEF CloseFirst, ringVars
<1>2. /\ Queue[c] \in Seq(Nat) /\ Len(Queue[c]) = count[c] + Len(sendq[c])
      /\ count[c] \in Nat /\ Len(sendq[c]) \in Nat
      /\ Queue[c] = <<>> <=> count[c] = 0 /\ sendq[c] = <<>>
  BY <1>0, QueueType
<1>3. /\ sendq[c] # <<>> => count[c] = Cap[c]
      /\ w => count[c] = 0 /\ sendq[c] = <<>>
      /\ count[c] <= Cap[c] /\ Cap[c] \in Nat
  <2>1. /\ sendq[c] # <<>> => count[c] = Cap[c]
        /\ w => count[c] = 0 /\ sendq[c] = <<>>
    BY <1>0 DEF LinkInv, ChannelInv, WaitersMatchCounts
  <2>2. count[c] <= slots[c] /\ slots[c] <= Cap[c] /\ slots[c] \in Nat /\ Cap[c] \in Nat
    BY <1>0, CapAssumption DEF LinkInv, ChannelInv, RingBounds, TypeOK, RingTypeOK
  <2> QED BY <1>2, <2>1, <2>2
<1>4. k = count[c]
  <2>1. sendq[c] = <<>> => Len(sendq[c]) = 0
    OBVIOUS
  <2>2. Len(Queue[c]) \in Nat
    BY <1>2
  <2> QED BY <1>2, <1>3, <2>1, <2>2
<1>5. sendq'[c] = <<>> /\ \A d \in Chans : d # c => sendq'[d] = sendq[d]
  BY <1>0, <1>1, LinkedTypes
<1>6. Queue'[c] = SubSeq(Queue[c], 1, count[c])
  <2>1. RingQueue(slots[c], count[c], head[c], buffer[c], <<>>, chan_pending)
          = SubSeq(RingQueue(slots[c], count[c], head[c], buffer[c], sendq[c], chan_pending), 1, count[c])
    BY <1>0, QueueFits, CloseKeeps
  <2> QED BY <1>1, <1>5, <2>1, QueueAt
<1>7. \A d \in Chans : d # c => Queue'[d] = Queue[d]
  BY <1>1, <1>5, OtherQueue
<1>8. Queue' = [Queue EXCEPT ![c] = SubSeq(Queue[c], 1, count[c])]
  BY <1>6, <1>7, OneQueue
<1>9. ended' \in {ended, [ended EXCEPT ![c] = (Queue[c] = <<>>)]}
  <2>1. ended \in [Chans -> BOOLEAN]
    BY <1>0 DEF LinkInv, ChannelInv, TypeOK, FlagTypeOK
  <2>2. CASE w
    <3>1. Queue[c] = <<>> /\ w = TRUE
      BY <1>2, <1>3, <2>2
    <3>2. (Queue[c] = <<>>) = TRUE
      BY <3>1
    <3> HIDE DEF w
    <3> QED BY <1>1, <3>1, <3>2
  <2>3. CASE ~w
    <3>1. ended[c] = FALSE /\ w = FALSE
      BY <1>1, <2>1, <2>3 DEF FifoInv, EndedSound
    <3> HIDE DEF w
    <3>2. ended' = ended
      BY <1>1, <2>1, <3>1
    <3> QED BY <3>2
  <2> QED BY <2>2, <2>3
<1>10. FifoStep
  <2>1. Queue' = [Queue EXCEPT ![c] = SubSeq(Queue[c], 1, k)]
    BY <1>4, <1>8
  <2>2. Fifo!Close(c)
    BY <1>1, <1>9, <2>1 DEF Fifo!Close, Queue
  <2> QED BY <2>2 DEF FifoStep, Fifo!FifoNext
<1>11. RingSound'
  BY <1>1 DEF FifoInv, RingSound
<1>12. EndedSound'
  <2>1. closed \in [Chans -> BOOLEAN] /\ ended \in [Chans -> BOOLEAN]
    BY <1>0 DEF LinkInv, ChannelInv, TypeOK, FlagTypeOK
  <2>2. closed'[c] /\ \A d \in Chans : d # c => closed'[d] = closed[d] /\ ended'[d] = ended[d]
    BY <1>1, <2>1
  <2> QED BY <2>2 DEF FifoInv, EndedSound
<1> QED BY <1>10, <1>11, <1>12

(* The return of a woken call is a stutter: the message left before.        *)
LEMMA ResumeReturnsFifo ==
  ASSUME FifoInv, NEW t \in Tasks, ResumeReturns(t)
  PROVE  FifoStep /\ RingSound' /\ EndedSound'
<1>0. LinkInv /\ chan_pending \in [Tasks -> Nat]
  BY DEF FifoInv, LinkInv, ChannelInv, TypeOK, TaskTypeOK
<1>1. /\ slots' = slots /\ count' = count /\ head' = head /\ buffer' = buffer /\ tail' = tail
      /\ sendq' = sendq /\ closed' = closed /\ woken[t]
      /\ sent' = sent /\ got' = got /\ ended' = ended
  BY DEF ResumeReturns, ringVars, waitVars
<1>2. chan_pending' = chan_pending \/ chan_pending' = [chan_pending EXCEPT ![t] = Empty]
  BY DEF ResumeReturns
<1>3. \A u \in Tasks : Parked(u) /\ op[u] = "send" => chan_pending'[u] = chan_pending[u]
  <2>1. ~Parked(t)
    BY <1>1 DEF Parked
  <2>2. \A u \in Tasks : u # t => chan_pending'[u] = chan_pending[u]
    BY <1>0, <1>2
  <2> QED BY <2>1, <2>2
<1>4. Queue' = Queue
  BY <1>0, <1>1, <1>3, SameQueue
<1>5. RingSound' /\ EndedSound'
  BY <1>1, SoundFrame DEF ringVars
<1> QED BY <1>1, <1>4, <1>5, StutterStep

(* force_drop_task: a dropped sender takes its message with it, which was   *)
(* behind the bound (Forget); a dropped receiver moves no message.          *)
LEMMA DropParkedFifo ==
  ASSUME FifoInv, NEW t \in Tasks, DropParked(t)
  PROVE  FifoStep /\ RingSound' /\ EndedSound'
<1>0. LinkInv
  BY DEF FifoInv
<1>1. /\ slots' = slots /\ count' = count /\ head' = head /\ buffer' = buffer /\ tail' = tail
      /\ chan_pending' = chan_pending /\ closed' = closed /\ sent' = sent /\ got' = got /\ ended' = ended
      /\ sendq' = [d \in Chans |-> IF op[t] = "send" THEN chan_q_remove(sendq[d], t) ELSE sendq[d]]
      /\ Parked(t)
  BY DEF DropParked, ringVars, histVars, Parked
<1>2. RingSound' /\ EndedSound'
  BY <1>1, SoundFrame DEF ringVars
<1>3. CASE op[t] # "send"
  <2>1. sendq' = sendq
    BY <1>0, <1>1, <1>3, LinkedTypes
  <2>2. Queue' = Queue
    BY <1>0, <1>1, <2>1, SameQueue
  <2> QED BY <1>1, <1>2, <2>2, StutterStep
<1>4. CASE op[t] = "send"
  <2> DEFINE c == args[t][1]
  <2>1. c \in Chans
    <3>1. args[t] \in Seq(Chans) /\ args[t] # <<>>
      BY <1>0, <1>4, LinkedTypes DEF LinkInv, WakeSound
    <3> QED BY <3>1
  <2>2. t \in Elems(sendq[c]) /\ \A d \in Chans : d # c => t \notin Elems(sendq[d])
    BY <1>0, <1>1, <1>4, <2>1 DEF LinkInv, Linked
  <2> HIDE DEF c
  <2>3. \A d \in Chans : sendq'[d] = chan_q_remove(sendq[d], t)
    BY <1>1, <1>4
  <2>4. \A d \in Chans : d # c => sendq'[d] = sendq[d]
    BY <2>2, <2>3 DEF chan_q_remove
  <2>5. \A d \in Chans : d # c => Queue'[d] = Queue[d]
    BY <1>1, <2>4, OtherQueue
  <2>6. count[c] = Cap[c]
    <3>1. sendq[c] # <<>>
      BY <2>2 DEF Elems
    <3> QED BY <1>0, <2>1, <3>1 DEF LinkInv, ChannelInv, WaitersMatchCounts
  <2>7. PICK j \in 1 .. Len(Queue[c]) :
           /\ j > count[c]
           /\ Queue'[c] = SubSeq(Queue[c], 1, j - 1) \o SubSeq(Queue[c], j + 1, Len(Queue[c]))
    <3>1. PICK q : q = sendq[c]
      OBVIOUS
    <3>2. PICK b : b = buffer[c]
      OBVIOUS
    <3>4. Fits(slots[c], count[c], head[c], b, q, chan_pending) /\ t \in Elems(q)
      BY <1>0, <2>1, <2>2, <3>1, <3>2, QueueFits
    <3>5. OneForgotten(RingQueue(slots[c], count[c], head[c], b, q, chan_pending),
                       RingQueue(slots[c], count[c], head[c], b, chan_q_remove(q, t), chan_pending),
                       count[c])
      BY <3>4, RemoveForgets
    <3>6. /\ Queue[c] = RingQueue(slots[c], count[c], head[c], b, q, chan_pending)
          /\ Queue'[c] = RingQueue(slots[c], count[c], head[c], b, chan_q_remove(q, t), chan_pending)
      BY <1>1, <2>1, <2>3, <3>1, <3>2, QueueAt
    <3>7. OneForgotten(Queue[c], Queue'[c], count[c])
      BY <3>5, <3>6
    <3> QED BY <3>7 DEF OneForgotten
  <2>8. Queue' = [Queue EXCEPT ![c] = SubSeq(Queue[c], 1, j - 1) \o SubSeq(Queue[c], j + 1, Len(Queue[c]))]
    BY <2>1, <2>5, <2>7, OneQueue
  <2>9. Fifo!Forget(c, j)
    BY <1>1, <2>6, <2>7, <2>8 DEF Fifo!Forget, Queue
  <2>10. FifoStep
    BY <2>1, <2>9 DEF FifoStep, Fifo!FifoNext, Queue
  <2> QED BY <1>2, <2>10
<1> QED BY <1>3, <1>4

(* Every step of the channels is a step of the bounded FIFOs or a stutter.  *)
LEMMA FifoNextStep == FifoInv /\ [Next]_vars => FifoInv' /\ FifoStep
<1> SUFFICES ASSUME FifoInv, [Next]_vars PROVE FifoInv' /\ FifoStep
  OBVIOUS
<1>0. LinkInv'
  BY LinkNext DEF FifoInv
<1> DEFINE Goal == FifoStep /\ RingSound' /\ EndedSound'
<1>f. ASSUME sprout_fail PROVE Goal
  BY <1>f, FailFifo
<1>1. ASSUME NEW t \in Tasks, NEW c \in Chans, Send(t, c) PROVE Goal
  <2>1. CASE SendOnClosed(t, c)
    BY <1>f, <2>1 DEF SendOnClosed
  <2> QED BY <1>1, <2>1, SendToReceiverFifo, SendToSelectorFifo, SendBufferedFifo, SendGrowsFifo,
             SendParksFifo DEF Send
<1>2. ASSUME NEW t \in Tasks, NEW c \in Chans, RecvTakes(t, c) \/ RecvParks(t, c) PROVE Goal
  BY <1>2, PollTakeFifo, RecvParksFifo DEF RecvTakes
<1>3. ASSUME NEW t \in Tasks, NEW c \in Chans, CloseTwice(t, c) \/ CloseFirst(t, c) PROVE Goal
  BY <1>f, <1>3, CloseFirstFifo DEF CloseTwice
<1>4. ASSUME NEW t \in Tasks, NEW l \in SelectLists,
             SelectTakes(t, l) \/ SelectParks(t, l) \/ SelectEmpty(t, l)
      PROVE  Goal
  <2>1. CASE SelectTakes(t, l)
    <3>1. PICK i \in 1 .. Len(l) : chan_poll_take(l[i])
      BY <2>1 DEF SelectTakes
    <3>2. l[i] \in Chans
      BY <3>1, SelectListsAssumption
    <3> QED BY <3>1, <3>2, PollTakeFifo
  <2>2. CASE SelectParks(t, l)
    BY <2>2, SelectParksFifo
  <2>3. CASE SelectEmpty(t, l)
    BY <1>f, <2>3 DEF SelectEmpty
  <2> QED BY <1>4, <2>1, <2>2, <2>3
<1>5. ASSUME NEW t \in Tasks, ResumeSendOnClosed(t) \/ ResumeReturns(t) \/ DropParked(t) PROVE Goal
  BY <1>f, <1>5, ResumeReturnsFifo, DropParkedFifo DEF ResumeSendOnClosed
<1>6. ASSUME UNCHANGED vars PROVE Goal
  <2>1. /\ slots' = slots /\ count' = count /\ head' = head /\ buffer' = buffer /\ tail' = tail
        /\ sendq' = sendq /\ chan_pending' = chan_pending /\ closed' = closed
        /\ sent' = sent /\ got' = got /\ ended' = ended
    BY <1>6 DEF vars, ringVars, waitVars, taskVars, histVars
  <2>2. Queue' = Queue
    BY <2>1, SameQueue DEF FifoInv
  <2>3. RingSound' /\ EndedSound'
    BY <2>1, SoundFrame DEF ringVars
  <2> QED BY <2>1, <2>2, <2>3, StutterStep
<1>7. Goal
  <2>1. CASE Next
    BY <1>1, <1>2, <1>3, <1>4, <1>5, <2>1 DEF Next
  <2> QED BY <1>6, <2>1
<1> QED BY <1>0, <1>7 DEF FifoInv

(* The rings, the wait queues and the handoffs of sprout_scheduler.c        *)
(* implement the bounded FIFO: for every number of tasks and channels,      *)
(* every capacity, every size of the first ring and every select list,      *)
(* messages leave in the order their sends were accepted, only a message    *)
(* beyond the bound is ever forgotten, and Closed is answered on a closed   *)
(* and drained channel only.                                                *)
THEOREM ChannelImplementsFifo == Spec => ImplementsFifo
  BY FifoInitial, FifoNextStep, PTL DEF Spec, ImplementsFifo, Fifo!FifoSpec, FifoStep

-----------------------------------------------------------------------------
(* Every message is handed over once.                                       *)

\* Of s accepted messages, g were taken out and q wait: no message is in two places.
Fresh(g, q, s) ==
  /\ g \in Seq(Nat) /\ q \in Seq(Nat) /\ s \in Nat
  /\ Elems(g) \subseteq 1 .. s /\ Elems(q) \subseteq 1 .. s
  /\ Elems(g) \cap Elems(q) = {} /\ NoDup(g) /\ NoDup(q)

(* A new message is in neither place before it is accepted.                 *)
LEMMA FreshAccept ==
  ASSUME NEW g, NEW q, NEW s, Fresh(g, q, s)
  PROVE  Fresh(g, Append(q, s + 1), s + 1)
<1>1. /\ g \in Seq(Nat) /\ q \in Seq(Nat) /\ s \in Nat
      /\ Elems(g) \subseteq 1 .. s /\ Elems(q) \subseteq 1 .. s
      /\ Elems(g) \cap Elems(q) = {} /\ NoDup(g) /\ NoDup(q)
  BY DEF Fresh
<1>2. s + 1 \in Nat /\ s + 1 \notin 1 .. s /\ 1 .. s + 1 = (1 .. s) \cup {s + 1}
  BY <1>1
<1>3. /\ Elems(Append(q, s + 1)) = Elems(q) \cup {s + 1} /\ Append(q, s + 1) \in Seq(Nat)
      /\ NoDup(Append(q, s + 1))
  BY <1>1, <1>2, AppendElems
<1> QED BY <1>1, <1>2, <1>3 DEF Fresh

(* A message that passes through was never in the queue.                    *)
LEMMA FreshPass ==
  ASSUME NEW g, NEW q, NEW s, Fresh(g, q, s), q = <<>>
  PROVE  Fresh(Append(g, s + 1), q, s + 1)
<1>1. /\ g \in Seq(Nat) /\ q \in Seq(Nat) /\ s \in Nat
      /\ Elems(g) \subseteq 1 .. s /\ Elems(q) \subseteq 1 .. s
      /\ Elems(g) \cap Elems(q) = {} /\ NoDup(g) /\ NoDup(q)
  BY DEF Fresh
<1>2. s + 1 \in Nat /\ s + 1 \notin 1 .. s /\ 1 .. s + 1 = (1 .. s) \cup {s + 1}
  BY <1>1
<1>3. /\ Elems(Append(g, s + 1)) = Elems(g) \cup {s + 1} /\ Append(g, s + 1) \in Seq(Nat)
      /\ NoDup(Append(g, s + 1))
  BY <1>1, <1>2, AppendElems
<1>4. s + 1 \notin Elems(q)
  BY <1>1, <1>2
<1> QED BY <1>1, <1>2, <1>3, <1>4 DEF Fresh

(* A message that is received leaves the queue.                             *)
LEMMA FreshReceive ==
  ASSUME NEW g, NEW q, NEW s, Fresh(g, q, s), q # <<>>
  PROVE  Fresh(Append(g, Head(q)), Tail(q), s)
<1> DEFINE m == Head(q)
           r == Tail(q)
<1>1. /\ g \in Seq(Nat) /\ q \in Seq(Nat) /\ s \in Nat
      /\ Elems(g) \subseteq 1 .. s /\ Elems(q) \subseteq 1 .. s
      /\ Elems(g) \cap Elems(q) = {} /\ NoDup(g) /\ NoDup(q)
  BY DEF Fresh
<1>2. m \in Elems(q) /\ Elems(r) = Elems(q) \ {m} /\ NoDup(r) /\ r \in Seq(Nat) /\ m \in Nat
  BY <1>1, TailElems
<1> HIDE DEF m, r
<1>3. /\ Elems(Append(g, m)) = Elems(g) \cup {m} /\ Append(g, m) \in Seq(Nat)
      /\ NoDup(Append(g, m))
  BY <1>1, <1>2, AppendElems
<1>4. Fresh(Append(g, m), r, s)
  BY <1>1, <1>2, <1>3 DEF Fresh
<1> QED BY <1>4 DEF m, r

(* Forgetting a message leaves the others.                                  *)
LEMMA FreshForget ==
  ASSUME NEW g, NEW q, NEW s, Fresh(g, q, s), NEW i \in 1 .. Len(q)
  PROVE  Fresh(g, SubSeq(q, 1, i - 1) \o SubSeq(q, i + 1, Len(q)), s)
<1>1. /\ g \in Seq(Nat) /\ q \in Seq(Nat) /\ s \in Nat
      /\ Elems(g) \subseteq 1 .. s /\ Elems(q) \subseteq 1 .. s
      /\ Elems(g) \cap Elems(q) = {} /\ NoDup(g) /\ NoDup(q)
  BY DEF Fresh
<1>2. PICK t : t = q[i]
  OBVIOUS
<1>3. t \in Elems(q)
  BY <1>2 DEF Elems
<1>4. chan_q_remove(q, t) = SubSeq(q, 1, i - 1) \o SubSeq(q, i + 1, Len(q))
  <2> DEFINE k == CHOOSE j \in 1 .. Len(q) : q[j] = t
  <2>1. k \in 1 .. Len(q) /\ q[k] = t
    BY <1>2
  <2>2. chan_q_remove(q, t) = SubSeq(q, 1, k - 1) \o SubSeq(q, k + 1, Len(q))
    BY <1>3 DEF chan_q_remove
  <2> HIDE DEF k
  <2>3. k = i
    BY <1>1, <1>2, <2>1 DEF NoDup
  <2> QED BY <2>2, <2>3
<1>5. chan_q_remove(q, t) \in Seq(Nat)
  BY <1>1, <1>3, RemoveShape
<1>6. Elems(chan_q_remove(q, t)) = Elems(q) \ {t} /\ NoDup(chan_q_remove(q, t))
  BY <1>1, RemoveElems
<1>7. Fresh(g, chan_q_remove(q, t), s)
  BY <1>1, <1>5, <1>6 DEF Fresh
<1> QED BY <1>4, <1>7

(* Closing cuts the queue.                                                  *)
LEMMA FreshClose ==
  ASSUME NEW g, NEW q, NEW s, Fresh(g, q, s), NEW k \in 0 .. Len(q)
  PROVE  Fresh(g, SubSeq(q, 1, k), s)
<1> DEFINE r == SubSeq(q, 1, k)
<1>1. /\ g \in Seq(Nat) /\ q \in Seq(Nat) /\ s \in Nat /\ Len(q) \in Nat
      /\ Elems(g) \subseteq 1 .. s /\ Elems(q) \subseteq 1 .. s
      /\ Elems(g) \cap Elems(q) = {} /\ NoDup(g) /\ NoDup(q)
  BY DEF Fresh
<1>2. r \in Seq(Nat) /\ Len(r) = k /\ \A i \in 1 .. k : r[i] = q[i]
  <2>1. \A i \in 1 .. k : q[i] \in Nat
    BY <1>1
  <2>3. /\ r \in Seq(Nat) /\ Len(r) = IF 1 <= k THEN k - 1 + 1 ELSE 0
        /\ \A i \in 1 .. k - 1 + 1 : r[i] = q[1 + i - 1]
    BY <1>1, <2>1, SubSeqProperties
  <2> HIDE DEF r
  <2> QED BY <1>1, <2>3
<1> HIDE DEF r
<1>3. Elems(r) \subseteq Elems(q) /\ NoDup(r)
  <2>1. \A i \in 1 .. k : i \in 1 .. Len(q)
    BY <1>1
  <2>2. ASSUME NEW x \in Elems(r) PROVE x \in Elems(q)
    <3>1. PICK i \in 1 .. k : x = r[i]
      BY <1>2 DEF Elems
    <3> QED BY <1>2, <2>1, <3>1 DEF Elems
  <2>3. ASSUME NEW i \in 1 .. Len(r), NEW j \in 1 .. Len(r), r[i] = r[j] PROVE i = j
    <3>1. i \in 1 .. k /\ j \in 1 .. k
      BY <1>2
    <3> QED BY <1>1, <1>2, <2>1, <2>3, <3>1 DEF NoDup
  <2> QED BY <2>2, <2>3 DEF NoDup
<1>4. Fresh(g, r, s)
  BY <1>1, <1>2, <1>3 DEF Fresh
<1> QED BY <1>4 DEF r

\* No message of a channel is taken out twice, or taken out and still waiting.
MessagesSound == \A c \in Chans : Fresh(got[c], Queue[c], sent[c])

(* No message has been sent at first.                                       *)
LEMMA MessagesInit == Init => MessagesSound
<1> SUFFICES ASSUME Init, NEW c \in Chans PROVE Fresh(got[c], Queue[c], sent[c])
  BY DEF MessagesSound
<1>1. LinkInv /\ count[c] = 0 /\ sendq[c] = <<>>
  BY LinkInit DEF Init
<1>2. Queue[c] = <<>>
  BY <1>1, QueueType
<1>3. got[c] = <<>> /\ sent[c] = 0
  BY DEF Init
<1>4. Elems(<<>>) = {} /\ NoDup(<<>>) /\ <<>> \in Seq(Nat)
  BY DEF Elems, NoDup
<1> QED BY <1>2, <1>3, <1>4 DEF Fresh

(* What the abstract steps do to the messages of a channel.                 *)
LEMMA MessagesNext ==
  ASSUME FifoInv, MessagesSound, FifoStep
  PROVE  MessagesSound'
<1>0. /\ sent \in [Chans -> Nat] /\ got \in [Chans -> Seq(Nat)]
      /\ Cap \in [Chans -> Nat] /\ DOMAIN Queue = Chans
  BY CapAssumption DEF FifoInv, LinkInv, ChannelInv, TypeOK, HistoryTypeOK, Queue
<1> DEFINE Others(c) == \A d \in Chans : d # c => /\ got'[d] = got[d] /\ Queue'[d] = Queue[d]
                                                  /\ sent'[d] = sent[d]
<1>one. ASSUME NEW c \in Chans, Others(c), Fresh(got'[c], Queue'[c], sent'[c]) PROVE MessagesSound'
  <2>1. ASSUME NEW d \in Chans PROVE Fresh(got'[d], Queue'[d], sent'[d])
    BY <1>one DEF MessagesSound
  <2> QED BY <2>1 DEF MessagesSound
<1>1. ASSUME NEW c \in Chans, Fifo!Accept(c) PROVE MessagesSound'
  <2>1. /\ Queue' = [Queue EXCEPT ![c] = Append(Queue[c], sent[c] + 1)]
        /\ sent' = [sent EXCEPT ![c] = sent[c] + 1] /\ got' = got
    BY <1>1 DEF Fifo!Accept, Queue
  <2>2. /\ Queue'[c] = Append(Queue[c], sent[c] + 1) /\ sent'[c] = sent[c] + 1 /\ got'[c] = got[c]
        /\ Others(c)
    BY <1>0, <2>1
  <2>3. Fresh(got'[c], Queue'[c], sent'[c])
    BY <2>2, FreshAccept DEF MessagesSound
  <2> QED BY <1>one, <2>2, <2>3
<1>2. ASSUME NEW c \in Chans, Fifo!PassThrough(c) PROVE MessagesSound'
  <2>1. /\ got' = [got EXCEPT ![c] = Append(got[c], sent[c] + 1)]
        /\ sent' = [sent EXCEPT ![c] = sent[c] + 1] /\ Queue' = Queue /\ Queue[c] = <<>>
    BY <1>2 DEF Fifo!PassThrough, Queue
  <2>2. /\ got'[c] = Append(got[c], sent[c] + 1) /\ sent'[c] = sent[c] + 1 /\ Queue'[c] = Queue[c]
        /\ Others(c)
    BY <1>0, <2>1
  <2>3. Fresh(got'[c], Queue'[c], sent'[c])
    BY <2>1, <2>2, FreshPass DEF MessagesSound
  <2> QED BY <1>one, <2>2, <2>3
<1>3. ASSUME NEW c \in Chans, Fifo!Receive(c) PROVE MessagesSound'
  <2>1. /\ got' = [got EXCEPT ![c] = Append(got[c], Head(Queue[c]))]
        /\ sent' = sent /\ Queue' = [Queue EXCEPT ![c] = Tail(Queue[c])] /\ Queue[c] # <<>>
    BY <1>3 DEF Fifo!Receive, Queue
  <2>2. /\ got'[c] = Append(got[c], Head(Queue[c])) /\ sent'[c] = sent[c] /\ Queue'[c] = Tail(Queue[c])
        /\ Others(c)
    BY <1>0, <2>1
  <2>3. Fresh(got'[c], Queue'[c], sent'[c])
    BY <2>1, <2>2, FreshReceive DEF MessagesSound
  <2> QED BY <1>one, <2>2, <2>3
<1>4. ASSUME NEW c \in Chans, Fifo!Close(c) PROVE MessagesSound'
  <2> DEFINE k == IF Len(Queue[c]) < Cap[c] THEN Len(Queue[c]) ELSE Cap[c]
  <2>1. got' = got /\ sent' = sent /\ Queue' = [Queue EXCEPT ![c] = SubSeq(Queue[c], 1, k)]
    BY <1>4 DEF Fifo!Close, Queue
  <2>0. Queue[c] \in Seq(Nat) /\ Fresh(got[c], Queue[c], sent[c])
    BY DEF MessagesSound, Fresh
  <2>3. k \in 0 .. Len(Queue[c])
    BY <1>0, <2>0
  <2> HIDE DEF k
  <2>2. /\ got'[c] = got[c] /\ sent'[c] = sent[c] /\ Queue'[c] = SubSeq(Queue[c], 1, k) /\ Others(c)
    BY <1>0, <2>1
  <2>4. Fresh(got'[c], Queue'[c], sent'[c])
    BY <2>0, <2>2, <2>3, FreshClose
  <2> QED BY <1>one, <2>2, <2>4
<1>5. ASSUME NEW c \in Chans, Fifo!Announce(c) PROVE MessagesSound'
  <2>1. got' = got /\ sent' = sent /\ Queue' = Queue
    BY <1>5 DEF Fifo!Announce, Queue
  <2> QED BY <2>1 DEF MessagesSound
<1>6. ASSUME NEW c \in Chans, NEW i \in 1 .. Len(Queue[c]), Fifo!Forget(c, i) PROVE MessagesSound'
  <2> DEFINE r == SubSeq(Queue[c], 1, i - 1) \o SubSeq(Queue[c], i + 1, Len(Queue[c]))
  <2>1. got' = got /\ sent' = sent /\ Queue' = [Queue EXCEPT ![c] = r]
    BY <1>6 DEF Fifo!Forget, Queue
  <2>2. Fresh(got[c], r, sent[c])
    BY <1>6, FreshForget DEF MessagesSound
  <2> HIDE DEF r
  <2>3. /\ got'[c] = got[c] /\ sent'[c] = sent[c] /\ Queue'[c] = r /\ Others(c)
    BY <1>0, <2>1
  <2> QED BY <1>one, <2>2, <2>3
<1>7. ASSUME UNCHANGED Fifo!fifoVars PROVE MessagesSound'
  <2>1. got' = got /\ sent' = sent /\ Queue' = Queue
    BY <1>7 DEF Fifo!fifoVars, Queue
  <2> QED BY <2>1 DEF MessagesSound
<1>8. CASE Fifo!FifoNext
  <2>1. PICK c \in Chans : \/ Fifo!Accept(c) \/ Fifo!PassThrough(c) \/ Fifo!Receive(c) \/ Fifo!Close(c)
                           \/ Fifo!Announce(c)
                           \/ \E i \in 1 .. Len(Queue[c]) : Fifo!Forget(c, i)
    BY <1>8 DEF Fifo!FifoNext, Queue
  <2> QED BY <1>1, <1>2, <1>3, <1>4, <1>5, <1>6, <2>1
<1> QED BY <1>7, <1>8 DEF FifoStep

\* t was handed a message of d and has not returned it yet.
Flying(t, d) ==
  /\ op[t] \in {"recv", "select"} /\ woken[t] /\ ~chan_closed_wake[t]
  /\ WokeOn(t) = d

InFlight(d) == {t \in Tasks : Flying(t, d)}

\* The messages g are those returned (r) and those in the pending words p of F.
HandedBy(g, r, F, p) ==
  /\ Elems(g) = r \cup {p[t] : t \in F}
  /\ \A t \in F : p[t] \notin r
  /\ \A t, u \in F : p[t] = p[u] => t = u

(* HandedOverOnce, channel by channel.                                      *)
LEMMA HandedEach ==
  HandedOverOnce <=> \A d \in Chans : HandedBy(got[d], received[d], InFlight(d), chan_pending)
  BY DEF HandedOverOnce, HandedBy, InFlight, Flying

(* Only the pending words of the tasks in flight count.                     *)
LEMMA HandedFrame ==
  ASSUME NEW g, NEW r, NEW F, NEW p, HandedBy(g, r, F, p), NEW p2, \A t \in F : p2[t] = p[t]
  PROVE  HandedBy(g, r, F, p2)
  BY DEF HandedBy

\* p2 is p with the message m in the word of t.
Handed(p2, p, F, t, m) == p2[t] = m /\ \A u \in F : p2[u] = p[u]

(* A message is handed to a task that was parked.                           *)
LEMMA HandedGives ==
  ASSUME NEW g \in Seq(Nat), NEW r, NEW F, NEW p, HandedBy(g, r, F, p),
         NEW m \in Nat, m \notin Elems(g), NEW t, t \notin F, NEW p2, Handed(p2, p, F, t, m)
  PROVE  HandedBy(Append(g, m), r, F \cup {t}, p2)
<1>1. Elems(Append(g, m)) = Elems(g) \cup {m}
  BY AppendElems
<1>2. Elems(g) = r \cup {p2[u] : u \in F} /\ \A u \in F : p2[u] = p[u] /\ p2[u] \in Elems(g)
  BY DEF HandedBy, Handed
<1>3. p2[t] = m
  BY DEF Handed
<1>4. {p2[u] : u \in F \cup {t}} = {p2[u] : u \in F} \cup {m}
  BY <1>3
<1> QED BY <1>1, <1>2, <1>3, <1>4 DEF HandedBy

(* A message is taken without a handoff.                                    *)
LEMMA HandedTakes ==
  ASSUME NEW g \in Seq(Nat), NEW r, NEW F, NEW p, HandedBy(g, r, F, p),
         NEW m \in Nat, m \notin Elems(g)
  PROVE  HandedBy(Append(g, m), r \cup {m}, F, p)
<1>1. Elems(Append(g, m)) = Elems(g) \cup {m}
  BY AppendElems
<1>2. \A u \in F : p[u] \in Elems(g)
  BY DEF HandedBy
<1> QED BY <1>1, <1>2 DEF HandedBy

(* A task returns the message it was handed.                                *)
LEMMA HandedReturns ==
  ASSUME NEW g, NEW r, NEW F, NEW p, HandedBy(g, r, F, p), NEW t \in F
  PROVE  HandedBy(g, r \cup {p[t]}, F \ {t}, p)
<1>1. {p[u] : u \in F} = {p[u] : u \in F \ {t}} \cup {p[t]}
  OBVIOUS
<1> QED BY <1>1 DEF HandedBy

(* A message that a step appends to a sound got was not there before.       *)
LEMMA NewMessage ==
  ASSUME NEW g \in Seq(Nat), NEW m \in Nat, NoDup(Append(g, m))
  PROVE  m \notin Elems(g)
<1>1. /\ Len(Append(g, m)) = Len(g) + 1 /\ Len(g) \in Nat
      /\ \A i \in 1 .. Len(g) : Append(g, m)[i] = g[i]
      /\ Append(g, m)[Len(g) + 1] = m
  BY AppendProperties
<1>2. ASSUME NEW i \in 1 .. Len(g), m = g[i] PROVE FALSE
  <2>1. i \in 1 .. Len(g) + 1 /\ Len(g) + 1 \in 1 .. Len(g) + 1 /\ i # Len(g) + 1
    BY <1>1
  <2> QED BY <1>1, <1>2, <2>1 DEF NoDup
<1> QED BY <1>2 DEF Elems

\* Nothing that Flying reads of t changes.
Quiet(t) == /\ op'[t] = op[t] /\ woken'[t] = woken[t] /\ args'[t] = args[t]
            /\ chan_closed_wake'[t] = chan_closed_wake[t]
            /\ sel_fired_index'[t] = sel_fired_index[t]

(* A task that a step does not touch stays in flight, or out of it.         *)
LEMMA QuietFlight ==
  ASSUME NEW t, NEW d, Quiet(t)
  PROVE  Flying(t, d)' <=> Flying(t, d)
  BY DEF Quiet, Flying, WokeOn

(* The tasks that a step touches were not in flight and are not after it.   *)
LEMMA SameFlight ==
  ASSUME NEW d, NEW W, \A u \in Tasks : u \in W => ~Flying(u, d) /\ ~Flying(u, d)',
         \A u \in Tasks : u \notin W => Quiet(u)
  PROVE  InFlight(d)' = InFlight(d)
  BY QuietFlight DEF InFlight

HandInv == FifoInv /\ MessagesSound /\ HandedOverOnce

(* What the invariant says of each channel and each task in flight.         *)
LEMMA HandTypes ==
  ASSUME HandInv
  PROVE  /\ LinkInv /\ got \in [Chans -> Seq(Nat)] /\ received \in [Chans -> SUBSET Nat]
         /\ sent \in [Chans -> Nat] /\ chan_pending \in [Tasks -> Nat]
         /\ \A d \in Chans : HandedBy(got[d], received[d], InFlight(d), chan_pending)
         /\ \A d \in Chans : InFlight(d) \subseteq Tasks
         /\ \A u \in Tasks, d \in Chans : Flying(u, d) => woken[u] /\ op[u] \in {"recv", "select"}
<1>1. LinkInv /\ HandedOverOnce
  BY DEF HandInv, FifoInv
<1>2. /\ got \in [Chans -> Seq(Nat)] /\ received \in [Chans -> SUBSET Nat]
      /\ sent \in [Chans -> Nat] /\ chan_pending \in [Tasks -> Nat]
  BY <1>1 DEF LinkInv, ChannelInv, TypeOK, HistoryTypeOK, TaskTypeOK
<1> QED BY <1>1, <1>2, HandedEach DEF InFlight, Flying

(* HandedOverOnce after a step, channel by channel.                         *)
LEMMA HandedAll ==
  ASSUME \A d \in Chans : HandedBy(got'[d], received'[d], InFlight(d)', chan_pending')
  PROVE  HandedOverOnce'
  BY DEF HandedOverOnce, HandedBy, InFlight, Flying

\* The step moves no message out of a channel and changes only tasks of W, of
\* which none is in flight before it or after it.
StillBut(W) ==
  /\ got' = got /\ received' = received
  /\ \A u \in Tasks : u \in W => \A d \in Chans : ~Flying(u, d) /\ ~Flying(u, d)'
  /\ \A u \in Tasks : u \notin W => Quiet(u) /\ chan_pending'[u] = chan_pending[u]

(* A step that touches nobody in flight keeps HandedOverOnce.               *)
LEMMA HandStill ==
  ASSUME HandInv, NEW W, StillBut(W)
  PROVE  HandedOverOnce'
<1> USE DEF StillBut
<1>1. ASSUME NEW d \in Chans PROVE HandedBy(got'[d], received'[d], InFlight(d)', chan_pending')
  <2>1. InFlight(d)' = InFlight(d)
    BY SameFlight
  <2>2. \A u \in InFlight(d) : chan_pending'[u] = chan_pending[u]
    BY DEF InFlight
  <2>3. HandedBy(got[d], received[d], InFlight(d), chan_pending)
    BY HandTypes
  <2>4. HandedBy(got[d], received[d], InFlight(d), chan_pending')
    BY <2>2, <2>3, HandedFrame
  <2> QED BY <2>1, <2>4
<1> QED BY <1>1, HandedAll

(* A step that touches no call at all keeps HandedOverOnce.                 *)
LEMMA HandQuiet ==
  ASSUME HandInv, got' = got, received' = received,
         \A u \in Tasks : Quiet(u) /\ chan_pending'[u] = chan_pending[u]
  PROVE  HandedOverOnce'
<1>1. StillBut({})
  BY DEF StillBut
<1> QED BY <1>1, HandStill

\* A step that appends m to the messages taken out of c.
TakesOut(c, m) == m \in Nat /\ got' = [got EXCEPT ![c] = Append(got[c], m)]

(* A message that a step takes out of c was not taken out before.           *)
LEMMA TakenOut ==
  ASSUME HandInv, MessagesSound', NEW c \in Chans, NEW m, TakesOut(c, m)
  PROVE  /\ got'[c] = Append(got[c], m) /\ m \in Nat /\ m \notin Elems(got[c]) /\ got[c] \in Seq(Nat)
         /\ \A d \in Chans : d # c => got'[d] = got[d]
<1>1. m \in Nat /\ got' = [got EXCEPT ![c] = Append(got[c], m)]
  BY DEF TakesOut
<1>2. got'[c] = Append(got[c], m) /\ \A d \in Chans : d # c => got'[d] = got[d]
  BY <1>1, HandTypes
<1>3. NoDup(got'[c])
  BY DEF MessagesSound, Fresh
<1>4. got[c] \in Seq(Nat)
  BY HandTypes
<1>5. m \notin Elems(got[c])
  BY <1>1, <1>2, <1>3, <1>4, NewMessage
<1> QED BY <1>1, <1>2, <1>4, <1>5

\* The step hands m, a message of c, to the task r that was parked.
GivenTo(c, m, r) ==
  /\ TakesOut(c, m) /\ received' = received
  /\ r \in Tasks /\ ~woken[r] /\ Flying(r, c)' /\ chan_pending'[r] = m
  /\ \A u \in Tasks : u # r => Quiet(u) /\ chan_pending'[u] = chan_pending[u]

(* A send hands its message to the parked task r.                           *)
LEMMA HandGiven ==
  ASSUME HandInv, MessagesSound', NEW c \in Chans, NEW m, NEW r, GivenTo(c, m, r)
  PROVE  HandedOverOnce'
<1> USE DEF GivenTo
<1>1. /\ got'[c] = Append(got[c], m) /\ m \in Nat /\ m \notin Elems(got[c]) /\ got[c] \in Seq(Nat)
      /\ \A d \in Chans : d # c => got'[d] = got[d]
  BY TakenOut
<1>2. \A d \in Chans : r \notin InFlight(d)
  BY DEF InFlight, Flying
<1>3. \A d \in Chans : \A u \in InFlight(d) : u \in Tasks /\ u # r /\ chan_pending'[u] = chan_pending[u]
  BY <1>2 DEF InFlight
<1>4. InFlight(c)' = InFlight(c) \cup {r}
  <2>1. ASSUME NEW u \in Tasks, u # r PROVE Flying(u, c)' <=> Flying(u, c)
    BY <2>1, QuietFlight
  <2> QED BY <2>1 DEF InFlight
<1>5. ASSUME NEW d \in Chans, d # c PROVE InFlight(d)' = InFlight(d)
  <2>1. ASSUME NEW u \in Tasks, u # r PROVE Flying(u, d)' <=> Flying(u, d)
    BY <2>1, QuietFlight
  <2>2. ~Flying(r, d)' /\ ~Flying(r, d)
    BY <1>5 DEF Flying
  <2> QED BY <2>1, <2>2 DEF InFlight
<1>6. HandedBy(got'[c], received'[c], InFlight(c)', chan_pending')
  <2>1. HandedBy(got[c], received[c], InFlight(c), chan_pending) /\ r \notin InFlight(c)
    BY <1>2, HandTypes
  <2>2. Handed(chan_pending', chan_pending, InFlight(c), r, m)
    BY <1>3 DEF Handed
  <2>3. HandedBy(Append(got[c], m), received[c], InFlight(c) \cup {r}, chan_pending')
    BY <1>1, <2>1, <2>2, HandedGives
  <2> QED BY <1>1, <1>4, <2>3
<1>7. ASSUME NEW d \in Chans, d # c
      PROVE  HandedBy(got'[d], received'[d], InFlight(d)', chan_pending')
  <2>1. HandedBy(got[d], received[d], InFlight(d), chan_pending)
    BY HandTypes
  <2>2. HandedBy(got[d], received[d], InFlight(d), chan_pending')
    BY <1>3, <2>1, HandedFrame
  <2> QED BY <1>1, <1>5, <1>7, <2>2
<1>8. ASSUME NEW d \in Chans PROVE HandedBy(got'[d], received'[d], InFlight(d)', chan_pending')
  BY <1>6, <1>7
<1> QED BY <1>8, HandedAll

(* chan_poll_take returns a message at once; a sender that it wakes is      *)
(* handed nothing.                                                          *)
LEMMA HandTaken ==
  ASSUME HandInv, MessagesSound', NEW c \in Chans, NEW m, TakesOut(c, m),
         received'[c] = received[c] \cup {m}, \A d \in Chans : d # c => received'[d] = received[d],
         op' = op, args' = args, chan_closed_wake' = chan_closed_wake,
         sel_fired_index' = sel_fired_index,
         \A u \in Tasks : op[u] # "send" => woken'[u] = woken[u] /\ chan_pending'[u] = chan_pending[u]
  PROVE  HandedOverOnce'
<1>1. /\ got'[c] = Append(got[c], m) /\ m \in Nat /\ m \notin Elems(got[c]) /\ got[c] \in Seq(Nat)
      /\ \A d \in Chans : d # c => got'[d] = got[d]
  BY TakenOut
<1>2. ASSUME NEW d \in Chans PROVE InFlight(d)' = InFlight(d)
  <2>1. ASSUME NEW u \in Tasks PROVE Flying(u, d)' <=> Flying(u, d)
    <3>1. CASE op[u] = "send"
      BY <3>1 DEF Flying
    <3>2. CASE op[u] # "send"
      BY <3>2, QuietFlight DEF Quiet
    <3> QED BY <3>1, <3>2
  <2> QED BY <2>1 DEF InFlight
<1>3. ASSUME NEW d \in Chans PROVE HandedBy(got[d], received[d], InFlight(d), chan_pending')
  <2>1. HandedBy(got[d], received[d], InFlight(d), chan_pending)
    BY HandTypes
  <2>2. \A u \in InFlight(d) : chan_pending'[u] = chan_pending[u]
    BY DEF InFlight, Flying
  <2> QED BY <2>1, <2>2, HandedFrame
<1>4. HandedBy(Append(got[c], m), received[c] \cup {m}, InFlight(c), chan_pending')
  BY <1>1, <1>3, HandedTakes
<1>5. ASSUME NEW d \in Chans PROVE HandedBy(got'[d], received'[d], InFlight(d)', chan_pending')
  <2>1. CASE d = c
    BY <1>1, <1>2, <1>4, <2>1
  <2>2. CASE d # c
    BY <1>1, <1>2, <1>3, <2>2
  <2> QED BY <2>1, <2>2
<1> QED BY <1>5, HandedAll

(* The receiver at the head of the queue is now in flight on c.             *)
LEMMA SendToReceiverHand ==
  ASSUME HandInv, MessagesSound', NEW t \in Tasks, NEW c \in Chans, SendToReceiver(t, c)
  PROVE  HandedOverOnce'
<1> DEFINE m == sent[c] + 1
<1>0. LinkInv /\ chan_pending \in [Tasks -> Nat] /\ sent[c] \in Nat
  BY HandTypes
<1>r. PICK r : r = Head(recvq[c])
  OBVIOUS
<1>1. /\ recvq[c] # <<>>
      /\ chan_pending' = [chan_pending EXCEPT ![r] = m] /\ woken' = [woken EXCEPT ![r] = TRUE]
      /\ got' = [got EXCEPT ![c] = Append(got[c], m)]
  BY <1>r DEF SendToReceiver, Delivered
<1>a. /\ op' = op /\ args' = args /\ chan_closed_wake' = chan_closed_wake
      /\ sel_fired_index' = sel_fired_index /\ received' = received
  BY DEF SendToReceiver
<1>2. r \in Elems(recvq[c])
  BY <1>0, <1>1, <1>r, TailElems, LinkedTypes
<1>3. r \in Tasks /\ Parked(r) /\ op[r] = "recv" /\ args[r][1] = c
  BY <1>0, <1>2, LinkedTypes
<1>4. ~woken[r] /\ ~chan_closed_wake[r]
  BY <1>0, <1>3 DEF Parked, LinkInv, WakeSound
<1>5. TakesOut(c, m)
  BY <1>0, <1>1 DEF TakesOut
<1> HIDE DEF m
<1>6. /\ woken'[r] /\ chan_pending'[r] = m
      /\ \A u \in Tasks : u # r => woken'[u] = woken[u] /\ chan_pending'[u] = chan_pending[u]
  BY <1>0, <1>1, <1>3, LinkedTypes
<1>7. Flying(r, c)'
  BY <1>a, <1>3, <1>4, <1>6 DEF Flying, WokeOn
<1>8. \A u \in Tasks : u # r => Quiet(u) /\ chan_pending'[u] = chan_pending[u]
  BY <1>a, <1>6 DEF Quiet
<1>9. GivenTo(c, m, r)
  BY <1>a, <1>3, <1>4, <1>5, <1>6, <1>7, <1>8 DEF GivenTo
<1> QED BY <1>9, HandGiven

(* The fired selector is in flight on c: its index names c.                 *)
LEMMA SendToSelectorHand ==
  ASSUME HandInv, MessagesSound', NEW t \in Tasks, NEW c \in Chans, SendToSelector(t, c)
  PROVE  HandedOverOnce'
<1> DEFINE m == sent[c] + 1
<1>0. LinkInv /\ chan_pending \in [Tasks -> Nat] /\ sent[c] \in Nat
  BY HandTypes
<1>1. PICK r \in selq[c] :
        /\ chan_pending' = [chan_pending EXCEPT ![r] = m] /\ woken' = [woken EXCEPT ![r] = TRUE]
        /\ chan_closed_wake' = [chan_closed_wake EXCEPT ![r] = FALSE]
        /\ sel_fired_index' = [sel_fired_index EXCEPT ![r] = FiredIndex(r, c)]
  BY DEF SendToSelector
<1>2. /\ got' = [got EXCEPT ![c] = Append(got[c], m)] /\ op' = op /\ args' = args
      /\ received' = received
  BY DEF SendToSelector, Delivered
<1>3. r \in Tasks /\ Parked(r) /\ op[r] = "select" /\ c \in Elems(args[r]) /\ args[r] \in Seq(Chans)
  BY <1>0, <1>1, LinkedTypes
<1>4. ~woken[r]
  BY <1>3 DEF Parked
<1>5. TakesOut(c, m)
  BY <1>0, <1>2 DEF TakesOut
<1>6. args[r][FiredIndex(r, c)] = c
  BY <1>3, FiredOn
<1> HIDE DEF m
<1>7. /\ woken'[r] /\ chan_pending'[r] = m /\ ~chan_closed_wake'[r]
      /\ sel_fired_index'[r] = FiredIndex(r, c)
      /\ \A u \in Tasks : u # r => /\ woken'[u] = woken[u] /\ chan_pending'[u] = chan_pending[u]
                                   /\ chan_closed_wake'[u] = chan_closed_wake[u]
                                   /\ sel_fired_index'[u] = sel_fired_index[u]
  BY <1>0, <1>1, <1>3, LinkedTypes
<1>8. Flying(r, c)'
  BY <1>2, <1>3, <1>6, <1>7 DEF Flying, WokeOn
<1>9. \A u \in Tasks : u # r => Quiet(u) /\ chan_pending'[u] = chan_pending[u]
  BY <1>2, <1>7 DEF Quiet
<1>10. GivenTo(c, m, r)
  BY <1>2, <1>3, <1>4, <1>5, <1>7, <1>8, <1>9 DEF GivenTo
<1> QED BY <1>10, HandGiven

(* chan_poll_take returns what it takes.                                    *)
LEMMA PollTakeHand ==
  ASSUME HandInv, MessagesSound', NEW c \in Chans, chan_poll_take(c)
  PROVE  HandedOverOnce'
<1>0. /\ LinkInv /\ chan_pending \in [Tasks -> Nat] /\ received \in [Chans -> SUBSET Nat]
      /\ woken \in [Tasks -> BOOLEAN]
  BY HandTypes, LinkedTypes
<1>1. /\ op' = op /\ args' = args /\ chan_closed_wake' = chan_closed_wake
      /\ sel_fired_index' = sel_fired_index
  BY DEF chan_poll_take
<1>2. HeadMessage(c) \in Nat \/ ~(count[c] > 0)
  <2>1. Fits(slots[c], count[c], head[c], buffer[c], sendq[c], chan_pending)
    BY <1>0, QueueFits
  <2> QED BY <2>1 DEF Fits, HeadMessage
<1>r. ASSUME NEW m, TakesOut(c, m), Returned(c, m),
             \A u \in Tasks : op[u] # "send" => woken'[u] = woken[u] /\ chan_pending'[u] = chan_pending[u]
      PROVE  HandedOverOnce'
  <2>1. received'[c] = received[c] \cup {m} /\ \A d \in Chans : d # c => received'[d] = received[d]
    BY <1>0, <1>r DEF Returned
  <2> QED BY <1>1, <1>r, <2>1, HandTaken
<1>s. ASSUME sendq[c] # <<>>, chan_pending' = [chan_pending EXCEPT ![Head(sendq[c])] = Empty],
             woken' = [woken EXCEPT ![Head(sendq[c])] = TRUE]
      PROVE  /\ Head(sendq[c]) \in Tasks
             /\ \A u \in Tasks : op[u] # "send" => woken'[u] = woken[u] /\ chan_pending'[u] = chan_pending[u]
  <2>1. Head(sendq[c]) \in Elems(sendq[c])
    BY <1>0, <1>s, TailElems, LinkedTypes
  <2>2. Head(sendq[c]) \in Tasks /\ op[Head(sendq[c])] = "send"
    BY <1>0, <2>1, LinkedTypes
  <2> QED BY <1>0, <1>s, <2>2
<1>3. CASE TakeBuffered(c)
  <2>1. TakesOut(c, HeadMessage(c)) /\ Returned(c, HeadMessage(c)) /\ woken' = woken /\ chan_pending' = chan_pending
    BY <1>2, <1>3 DEF TakeBuffered, Delivered, TakesOut
  <2> QED BY <1>r, <2>1
<1>4. CASE TakeBufferedRefill(c)
  <2>1. /\ TakesOut(c, HeadMessage(c)) /\ Returned(c, HeadMessage(c)) /\ sendq[c] # <<>>
        /\ chan_pending' = [chan_pending EXCEPT ![Head(sendq[c])] = Empty]
        /\ woken' = [woken EXCEPT ![Head(sendq[c])] = TRUE]
    BY <1>2, <1>4 DEF TakeBufferedRefill, Delivered, TakesOut
  <2> QED BY <1>r, <1>s, <2>1
<1>5. CASE TakeRendezvous(c)
  <2> DEFINE m == chan_pending[Head(sendq[c])]
  <2>1. /\ Delivered(c, m) /\ Returned(c, m) /\ sendq[c] # <<>>
        /\ chan_pending' = [chan_pending EXCEPT ![Head(sendq[c])] = Empty]
        /\ woken' = [woken EXCEPT ![Head(sendq[c])] = TRUE]
    BY <1>5 DEF TakeRendezvous
  <2>2. m \in Nat
    BY <1>0, <1>s, <2>1
  <2>3. TakesOut(c, m)
    BY <2>1, <2>2 DEF Delivered, TakesOut
  <2> QED BY <1>r, <1>s, <2>1, <2>3
<1>6. CASE TakeClosed(c)
  <2>1. got' = got /\ received' = received /\ woken' = woken /\ chan_pending' = chan_pending
    BY <1>6 DEF TakeClosed
  <2>2. \A u \in Tasks : Quiet(u) /\ chan_pending'[u] = chan_pending[u]
    BY <1>1, <2>1 DEF Quiet
  <2> QED BY <2>1, <2>2, HandQuiet
<1> QED BY <1>3, <1>4, <1>5, <1>6 DEF chan_poll_take

(* A call that parks t, or the drop of the parked t: t is in flight neither *)
(* before nor after.                                                        *)
LEMMA HandParks ==
  ASSUME HandInv, got' = got, received' = received, NEW t \in Tasks, ~woken[t], woken' = woken,
         \A u \in Tasks : u # t => /\ op'[u] = op[u] /\ args'[u] = args[u]
                                   /\ chan_pending'[u] = chan_pending[u],
         chan_closed_wake' = chan_closed_wake, sel_fired_index' = sel_fired_index
  PROVE  HandedOverOnce'
<1>1. \A d \in Chans : ~Flying(t, d) /\ ~Flying(t, d)'
  BY DEF Flying
<1>2. \A u \in Tasks : u # t => Quiet(u) /\ chan_pending'[u] = chan_pending[u]
  BY DEF Quiet
<1>3. StillBut({t})
  BY <1>1, <1>2 DEF StillBut
<1> QED BY <1>3, HandStill

(* A send into the ring hands nothing over.                                 *)
LEMMA SendBuffersHand ==
  ASSUME HandInv, NEW t \in Tasks, NEW c \in Chans, SendBuffered(t, c) \/ SendGrows(t, c)
  PROVE  HandedOverOnce'
<1>1. /\ got' = got /\ received' = received /\ op' = op /\ woken' = woken /\ args' = args
      /\ chan_pending' = chan_pending /\ chan_closed_wake' = chan_closed_wake
      /\ sel_fired_index' = sel_fired_index
  BY DEF SendBuffered, SendGrows, taskVars
<1>2. \A u \in Tasks : Quiet(u) /\ chan_pending'[u] = chan_pending[u]
  BY <1>1 DEF Quiet
<1> QED BY <1>1, <1>2, HandQuiet

(* A call that parks is not in flight.                                      *)
LEMMA ParksHand ==
  ASSUME HandInv, NEW t \in Tasks, NEW o, NEW l, CanCall(t), ParkAs(t, o, l),
         got' = got, received' = received,
         \A u \in Tasks : u # t => chan_pending'[u] = chan_pending[u]
  PROVE  HandedOverOnce'
<1>1. ~woken[t] /\ op \in [Tasks -> Calls] /\ args \in [Tasks -> Seq(Chans)]
  BY HandTypes, LinkedTypes DEF CanCall, LinkInv, WakeSound
<1>2. /\ op' = [op EXCEPT ![t] = o] /\ args' = [args EXCEPT ![t] = l] /\ woken' = woken
      /\ chan_closed_wake' = chan_closed_wake /\ sel_fired_index' = sel_fired_index
  BY DEF ParkAs
<1>3. \A u \in Tasks : u # t => /\ op'[u] = op[u] /\ args'[u] = args[u]
                                /\ chan_pending'[u] = chan_pending[u]
  BY <1>1, <1>2
<1>4. woken' = woken /\ chan_closed_wake' = chan_closed_wake /\ sel_fired_index' = sel_fired_index
  BY <1>2
<1> QED BY <1>1, <1>3, <1>4, HandParks

(* A send that parks hands nothing over.                                    *)
LEMMA SendParksHand ==
  ASSUME HandInv, NEW t \in Tasks, NEW c \in Chans, SendParks(t, c)
  PROVE  HandedOverOnce'
<1>1. CanCall(t) /\ ParkAs(t, "send", <<c>>) /\ got' = got /\ received' = received
  BY DEF SendParks, CanSend
<1>2. \A u \in Tasks : u # t => chan_pending'[u] = chan_pending[u]
  BY HandTypes DEF SendParks
<1> QED BY <1>1, <1>2, ParksHand

(* A receive that parks has been handed nothing.                            *)
LEMMA RecvParksHand ==
  ASSUME HandInv, NEW t \in Tasks, NEW c \in Chans, RecvParks(t, c)
  PROVE  HandedOverOnce'
<1>1. /\ CanCall(t) /\ ParkAs(t, "recv", <<c>>) /\ got' = got /\ received' = received
      /\ chan_pending' = chan_pending
  BY DEF RecvParks, histVars
<1> QED BY <1>1, ParksHand

(* A select that parks has been handed nothing.                             *)
LEMMA SelectParksHand ==
  ASSUME HandInv, NEW t \in Tasks, NEW l \in SelectLists, SelectParks(t, l)
  PROVE  HandedOverOnce'
<1>1. /\ CanCall(t) /\ ParkAs(t, "select", l) /\ got' = got /\ received' = received
      /\ chan_pending' = chan_pending
  BY DEF SelectParks, histVars
<1> QED BY <1>1, ParksHand

(* Whoever chan_close wakes is told Closed, and was parked before.          *)
LEMMA CloseFirstHand ==
  ASSUME HandInv, NEW t \in Tasks, NEW c \in Chans, CloseFirst(t, c)
  PROVE  HandedOverOnce'
<1>0. LinkInv
  BY HandTypes
<1>1. /\ got' = got /\ received' = received /\ op' = op /\ args' = args
      /\ chan_pending' = chan_pending
  BY DEF CloseFirst
<1>2. /\ chan_closed_wake' = [u \in Tasks |-> chan_closed_wake[u] \/ u \in Waiters(c)]
      /\ sel_fired_index' = [u \in Tasks |-> IF u \in selq[c] THEN FiredIndex(u, c)
                                                              ELSE sel_fired_index[u]]
      /\ woken' = [u \in Tasks |-> woken[u] \/ u \in Waiters(c)]
  BY DEF CloseFirst
<1>3. ASSUME NEW u \in Tasks, u \in Waiters(c) PROVE \A d \in Chans : ~Flying(u, d) /\ ~Flying(u, d)'
  <2>1. ~woken[u]
    BY <1>0, <1>3, LinkedTypes DEF Waiters, Parked
  <2>2. chan_closed_wake'[u]
    BY <1>2, <1>3
  <2> QED BY <2>1, <2>2 DEF Flying
<1>4. ASSUME NEW u \in Tasks, u \notin Waiters(c) PROVE Quiet(u) /\ chan_pending'[u] = chan_pending[u]
  <2>1. u \notin selq[c] /\ woken[u] \in BOOLEAN /\ chan_closed_wake[u] \in BOOLEAN
    BY <1>0, <1>4, LinkedTypes DEF Waiters
  <2>2. woken'[u] = woken[u] /\ chan_closed_wake'[u] = chan_closed_wake[u]
    BY <1>2, <1>4, <2>1
  <2>3. sel_fired_index'[u] = sel_fired_index[u]
    BY <1>2, <2>1
  <2> QED BY <1>1, <2>2, <2>3 DEF Quiet
<1>5. StillBut(Waiters(c))
  BY <1>1, <1>3, <1>4 DEF StillBut
<1> QED BY <1>5, HandStill

(* A woken receiver returns the message it was handed, on the channel it    *)
(* was handed on.                                                           *)
LEMMA ResumeReturnsHand ==
  ASSUME HandInv, NEW t \in Tasks, ResumeReturns(t)
  PROVE  HandedOverOnce'
<1>0. LinkInv /\ chan_pending \in [Tasks -> Nat] /\ received \in [Chans -> SUBSET Nat]
  BY HandTypes
<1>1. /\ op[t] \in {"send", "recv", "select"} /\ woken[t]
      /\ op' = [op EXCEPT ![t] = "none"] /\ args' = [args EXCEPT ![t] = <<>>]
      /\ woken' = [woken EXCEPT ![t] = FALSE]
      /\ chan_closed_wake' = [chan_closed_wake EXCEPT ![t] = FALSE]
      /\ sel_fired_index' = sel_fired_index /\ got' = got
  BY DEF ResumeReturns
<1>2. op'[t] = "none" /\ \A u \in Tasks : u # t => Quiet(u)
  BY <1>0, <1>1, LinkedTypes DEF Quiet
<1>3. got' = got /\ woken[t] /\ \A d \in Chans : ~Flying(t, d)'
  BY <1>1, <1>2 DEF Flying
<1>4. CASE ~(op[t] # "send" /\ ~chan_closed_wake[t])
  <2>1. chan_pending' = chan_pending /\ received' = received
    BY <1>4 DEF ResumeReturns
  <2>2. \A d \in Chans : ~Flying(t, d)
    BY <1>4 DEF Flying
  <2>3. StillBut({t})
    BY <1>2, <1>3, <2>1, <2>2 DEF StillBut
  <2> QED BY <2>3, HandStill
<1>5. CASE op[t] # "send" /\ ~chan_closed_wake[t]
  <2>1. PICK c : c = WokeOn(t)
    OBVIOUS
  <2>2. c \in Chans
    <3>1. args[t] \in Seq(Chans)
      BY <1>0, LinkedTypes
    <3>2. CASE op[t] = "select"
      <4>1. sel_fired_index[t] \in 1 .. Len(args[t])
        BY <1>0, <1>3, <3>2 DEF LinkInv, WakeSound
      <4> QED BY <2>1, <3>1, <3>2, <4>1 DEF WokeOn
    <3>3. CASE op[t] # "select"
      <4>1. args[t] # <<>>
        BY <1>0, <1>1, <3>3 DEF LinkInv, WakeSound
      <4> QED BY <2>1, <3>1, <3>3, <4>1 DEF WokeOn
    <3> QED BY <3>2, <3>3
  <2>3. /\ chan_pending' = [chan_pending EXCEPT ![t] = Empty]
        /\ received' = [received EXCEPT ![c] = received[c] \cup {chan_pending[t]}]
    BY <1>5, <2>1 DEF ResumeReturns, Returned
  <2>4. /\ \A u \in Tasks : u # t => chan_pending'[u] = chan_pending[u]
        /\ received'[c] = received[c] \cup {chan_pending[t]}
        /\ \A d \in Chans : d # c => received'[d] = received[d]
    BY <1>0, <2>2, <2>3
  <2>5. Flying(t, c) /\ \A d \in Chans : d # c => ~Flying(t, d)
    BY <1>1, <1>5, <2>1 DEF Flying
  <2>6. ASSUME NEW d \in Chans PROVE InFlight(d)' = InFlight(d) \ {t}
    <3>1. ASSUME NEW u \in Tasks, u # t PROVE Flying(u, d)' <=> Flying(u, d)
      BY <1>2, <3>1, QuietFlight
    <3> QED BY <1>3, <3>1 DEF InFlight
  <2>7. ASSUME NEW d \in Chans PROVE \A u \in InFlight(d) \ {t} : chan_pending'[u] = chan_pending[u]
    BY <2>4 DEF InFlight
  <2>8. HandedBy(got'[c], received'[c], InFlight(c)', chan_pending')
    <3>1. HandedBy(got[c], received[c], InFlight(c), chan_pending) /\ t \in InFlight(c)
      BY <2>2, <2>5, HandTypes DEF InFlight
    <3>2. HandedBy(got[c], received[c] \cup {chan_pending[t]}, InFlight(c) \ {t}, chan_pending)
      BY <3>1, HandedReturns
    <3>3. HandedBy(got[c], received[c] \cup {chan_pending[t]}, InFlight(c) \ {t}, chan_pending')
      BY <2>2, <2>7, <3>2, HandedFrame
    <3> QED BY <1>3, <2>2, <2>4, <2>6, <3>3
  <2>9. ASSUME NEW d \in Chans, d # c
        PROVE  HandedBy(got'[d], received'[d], InFlight(d)', chan_pending')
    <3>1. InFlight(d) \ {t} = InFlight(d)
      BY <2>5, <2>9 DEF InFlight
    <3>2. HandedBy(got[d], received[d], InFlight(d), chan_pending)
      BY HandTypes
    <3>3. HandedBy(got[d], received[d], InFlight(d), chan_pending')
      BY <2>7, <3>1, <3>2, HandedFrame
    <3> QED BY <1>3, <2>4, <2>6, <2>9, <3>1, <3>3
  <2>10. ASSUME NEW d \in Chans PROVE HandedBy(got'[d], received'[d], InFlight(d)', chan_pending')
    BY <2>8, <2>9
  <2> QED BY <2>10, HandedAll
<1> QED BY <1>4, <1>5

(* A task that is dropped while parked was handed nothing.                  *)
LEMMA DropParkedHand ==
  ASSUME HandInv, NEW t \in Tasks, DropParked(t)
  PROVE  HandedOverOnce'
<1>0. op \in [Tasks -> Calls] /\ args \in [Tasks -> Seq(Chans)]
  BY HandTypes, LinkedTypes
<1>1. op' = [op EXCEPT ![t] = "dropped"] /\ args' = [args EXCEPT ![t] = <<>>]
  BY DEF DropParked
<1>2. \A u \in Tasks : u # t => op'[u] = op[u] /\ args'[u] = args[u]
  BY <1>0, <1>1
<1>3. /\ got' = got /\ received' = received /\ woken' = woken /\ ~woken[t]
      /\ chan_pending' = chan_pending /\ chan_closed_wake' = chan_closed_wake
      /\ sel_fired_index' = sel_fired_index
  BY DEF DropParked, histVars
<1> QED BY <1>2, <1>3, HandParks

(* Nothing has been handed over at first.                                   *)
LEMMA HandInitial == Init => HandInv
<1> SUFFICES ASSUME Init PROVE HandInv
  OBVIOUS
<1>1. FifoInv /\ MessagesSound
  BY FifoInitial, MessagesInit
<1>2. ASSUME NEW d \in Chans PROVE HandedBy(got[d], received[d], InFlight(d), chan_pending)
  <2>1. got[d] = <<>> /\ received[d] = {} /\ InFlight(d) = {}
    BY DEF Init, InFlight, Flying
  <2>2. Elems(<<>>) = {}
    BY DEF Elems
  <2> QED BY <2>1, <2>2 DEF HandedBy
<1>3. HandedOverOnce
  BY <1>2, HandedEach
<1> QED BY <1>1, <1>3 DEF HandInv

(* Every step keeps the messages apart and hands each over once.            *)
LEMMA HandNext == HandInv /\ [Next]_vars => HandInv'
<1> SUFFICES ASSUME HandInv, [Next]_vars PROVE HandInv'
  OBVIOUS
<1>0. FifoInv' /\ FifoStep
  BY FifoNextStep DEF HandInv
<1>m. MessagesSound'
  BY <1>0, MessagesNext DEF HandInv
<1>q. ASSUME got' = got, received' = received, op' = op, woken' = woken, args' = args,
             chan_pending' = chan_pending, chan_closed_wake' = chan_closed_wake,
             sel_fired_index' = sel_fired_index
      PROVE  HandedOverOnce'
  <2>1. \A u \in Tasks : Quiet(u) /\ chan_pending'[u] = chan_pending[u]
    BY <1>q DEF Quiet
  <2> QED BY <1>q, <2>1, HandQuiet
<1>f. ASSUME sprout_fail PROVE HandedOverOnce'
  BY <1>f, <1>q DEF sprout_fail, taskVars, histVars
<1>1. ASSUME NEW t \in Tasks, NEW c \in Chans, Send(t, c) PROVE HandedOverOnce'
  <2>1. CASE SendOnClosed(t, c)
    BY <1>f, <2>1 DEF SendOnClosed
  <2> QED BY <1>1, <1>m, <2>1, SendToReceiverHand, SendToSelectorHand, SendBuffersHand, SendParksHand
          DEF Send
<1>2. ASSUME NEW t \in Tasks, NEW c \in Chans, RecvTakes(t, c) \/ RecvParks(t, c) PROVE HandedOverOnce'
  BY <1>2, <1>m, PollTakeHand, RecvParksHand DEF RecvTakes
<1>3. ASSUME NEW t \in Tasks, NEW c \in Chans, CloseTwice(t, c) \/ CloseFirst(t, c) PROVE HandedOverOnce'
  BY <1>f, <1>3, CloseFirstHand DEF CloseTwice
<1>4. ASSUME NEW t \in Tasks, NEW l \in SelectLists,
             SelectTakes(t, l) \/ SelectParks(t, l) \/ SelectEmpty(t, l)
      PROVE  HandedOverOnce'
  <2>1. CASE SelectTakes(t, l)
    <3>1. PICK i \in 1 .. Len(l) : chan_poll_take(l[i])
      BY <2>1 DEF SelectTakes
    <3>2. l[i] \in Chans
      BY <3>1, SelectListsAssumption
    <3> QED BY <1>m, <3>1, <3>2, PollTakeHand
  <2>2. CASE SelectParks(t, l)
    BY <2>2, SelectParksHand
  <2>3. CASE SelectEmpty(t, l)
    BY <1>f, <2>3 DEF SelectEmpty
  <2> QED BY <1>4, <2>1, <2>2, <2>3
<1>5. ASSUME NEW t \in Tasks, ResumeSendOnClosed(t) \/ ResumeReturns(t) \/ DropParked(t)
      PROVE  HandedOverOnce'
  BY <1>f, <1>5, ResumeReturnsHand, DropParkedHand DEF ResumeSendOnClosed
<1>6. ASSUME UNCHANGED vars PROVE HandedOverOnce'
  BY <1>6, <1>q DEF vars, taskVars, histVars
<1>7. HandedOverOnce'
  <2>1. CASE Next
    BY <1>1, <1>2, <1>3, <1>4, <1>5, <2>1 DEF Next
  <2> QED BY <1>6, <2>1
<1> QED BY <1>0, <1>m, <1>7 DEF HandInv

(* A message that chan_send hands to a parked receiver or selector is       *)
(* returned by exactly that call, as a message of the channel that the call *)
(* reports, whatever else runs between the handoff and the return: for      *)
(* every number of tasks and channels, every capacity and every select      *)
(* list.                                                                    *)
THEOREM ChannelHandsOver == Spec => []HandedOverOnce
<1>1. HandInv => HandedOverOnce
  BY DEF HandInv
<1> QED BY <1>1, HandInitial, HandNext, PTL DEF Spec
=============================================================================
