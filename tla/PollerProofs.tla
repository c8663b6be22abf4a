---------------------------- MODULE PollerProofs ----------------------------
(* Proofs about the timer heap and the poller, for any number of tasks,     *)
(* descriptors and timers, any delays and any size of a batch.              *)
(*                                                                          *)
(* The heap's property is inductive once the ids of the armed timers are    *)
(* known to differ (HeapInd); the lemmas of LoopProofs say what the sifts   *)
(* and the harvest do to the array.                                         *)
(*                                                                          *)
(* The contract of the poller holds of no backend alone: that a removal     *)
(* hits the caller's wait and no other needs the tasks (PollInv: every entry*)
(* of a backend is where its task says, no descriptor and no timer is known *)
(* to two tasks, what was reported is no longer armed).  WatchView and      *)
(* AlarmView give the armed waits of the three backends one shape, so that  *)
(* each operation is described once; then each step of the scheduler keeps  *)
(* PollInv and is a step of the contract.                                   *)
EXTENDS Poller, TimerHeap, LoopProofs

(* A sequence without repetitions is as long as it has entries.             *)
LEMMA DistinctCount ==
  ASSUME NEW E, NEW h \in Seq(E), Distinct(h)
  PROVE  IsFiniteSet(Range(h)) /\ Cardinality(Range(h)) = Len(h)
<1>1. Len(h) \in Nat /\ DOMAIN h = 1 .. Len(h)
  BY SeqHeap
<1>2. h \in [1 .. Len(h) -> Range(h)] /\ \A e \in Range(h) : \E i \in 1 .. Len(h) : h[i] = e
  BY <1>1 DEF Range
<1>3. h \in Bijection(1 .. Len(h), Range(h))
  <2>1. h \in Surjection(1 .. Len(h), Range(h))
    BY <1>2 DEF Surjection
  <2>2. h \in Injection(1 .. Len(h), Range(h))
    BY <1>1, <1>2 DEF Injection, Distinct, IsInjective
  <2> QED BY <2>1, <2>2 DEF Bijection
<1>4. IsFiniteSet(1 .. Len(h)) /\ Cardinality(1 .. Len(h)) = Len(h)
  BY <1>1, FS_Interval
<1> QED BY <1>3, <1>4, FS_Bijection DEF ExistsBijection

HeapEntries == [id : Int, left : Int, task : Int]

\* A heap in order without repetitions, whose entries are the armed timers, each of its own id.
HeapInd ==
  /\ timerHeap \in GoodHeaps(HeapEntries)
  /\ Range(timerHeap) = timerSet
  /\ \A a, b \in timerSet : a.id = b.id => a = b

(* Entries are timers.                                                      *)
LEMMA HeapEntriesTimed == Timers(HeapEntries)
  BY DEF Timers, HeapEntries

(* No timer at first.                                                       *)
LEMMA HeapStart == HeapInit => HeapInd
<1> SUFFICES ASSUME HeapInit PROVE HeapInd
  OBVIOUS
<1>1. timerHeap \in Seq(HeapEntries) /\ Len(timerHeap) = 0 /\ DOMAIN timerHeap = {} /\ timerSet = {}
  BY DEF HeapInit
<1> QED BY <1>1 DEF HeapInd, GoodHeaps, Ordered, Distinct, Range

(* A new timer gets an id no armed timer has.                               *)
LEMMA HeapArmKeeps == HeapInd /\ HeapArm => HeapInd'
<1> SUFFICES ASSUME HeapInd, HeapArm PROVE HeapInd'
  OBVIOUS
<1> DEFINE id == CHOOSE n \in 1 .. HeapMax : \A e \in timerSet : e.id # n
<1>1. PICK ms \in HeapDelays :
        /\ timerHeap' = timer_add(timerHeap, [id |-> id, left |-> ms, task |-> id])
        /\ timerSet' = timerSet \cup {[id |-> id, left |-> ms, task |-> id]}
  BY Zenon DEF HeapArm
<1>2. id \in 1 .. HeapMax /\ \A e \in timerSet : e.id # id
  <2> DEFINE ids == {e.id : e \in timerSet}
             f == [e \in timerSet |-> e.id]
  <2>1. timerHeap \in Seq(HeapEntries) /\ Distinct(timerHeap) /\ Range(timerHeap) = timerSet
    BY DEF HeapInd, GoodHeaps
  <2>2. IsFiniteSet(timerSet) /\ Cardinality(timerSet) = Len(timerHeap)
    BY <2>1, DistinctCount
  <2>3. f \in Surjection(timerSet, ids)
    BY DEF Surjection
  <2>4. IsFiniteSet(ids) /\ Cardinality(ids) <= Len(timerHeap)
    <3> HIDE DEF f, ids
    <3> QED BY <2>2, <2>3, FS_Surjection
  <2>5. \E n \in 1 .. HeapMax : n \notin ids
    <3> HIDE DEF ids
    <3> SUFFICES ASSUME 1 .. HeapMax \subseteq ids PROVE FALSE
      OBVIOUS
    <3>1. Cardinality(1 .. HeapMax) = HeapMax /\ Cardinality(1 .. HeapMax) <= Cardinality(ids)
      BY <2>4, HeapAssumption, FS_Interval, FS_Subset
    <3>2. Len(timerHeap) < HeapMax /\ Len(timerHeap) \in Nat /\ Cardinality(ids) \in Nat
      BY <2>1, <2>4, FS_CardinalityType DEF HeapArm
    <3> QED BY <2>4, <3>1, <3>2, HeapAssumption
  <2>6. \E n \in 1 .. HeapMax : \A e \in timerSet : e.id # n
    BY <2>5
  <2> QED BY <2>6, Zenon
<1> HIDE DEF id
<1> DEFINE e == [id |-> id, left |-> ms, task |-> id]
<1>3. e \in HeapEntries /\ e \notin timerSet /\ e.id = id
  BY <1>2, HeapAssumption DEF HeapEntries
<1> HIDE DEF e
<1>4. timerHeap' = timer_add(timerHeap, e) /\ timerSet' = timerSet \cup {e}
  BY <1>1 DEF e
<1>5. timerHeap' \in GoodHeaps(HeapEntries) /\ Range(timerHeap') = timerSet'
  BY <1>3, <1>4, HeapEntriesTimed, GoodAdd DEF HeapInd
<1>6. \A a, b \in timerSet' : a.id = b.id => a = b
  BY <1>2, <1>3, <1>4 DEF HeapInd
<1> QED BY <1>5, <1>6 DEF HeapInd

(* A timer removed from anywhere in the heap.                               *)
LEMMA HeapRemoveKeeps == HeapInd /\ HeapRemove => HeapInd'
<1> SUFFICES ASSUME HeapInd, HeapRemove PROVE HeapInd'
  OBVIOUS
<1>1. PICK i \in DOMAIN timerHeap : timerHeap' = timer_drop(timerHeap, i) /\ timerSet' = timerSet \ {timerHeap[i]}
  BY DEF HeapRemove
<1>2. timerHeap' \in GoodHeaps(HeapEntries) /\ Range(timerHeap') = timerSet'
  BY <1>1, HeapEntriesTimed, GoodDrop DEF HeapInd
<1> QED BY <1>1, <1>2 DEF HeapInd

(* The harvest of a wait.                                                   *)
LEMMA HeapWaitKeeps == HeapInd /\ HeapWait => HeapInd'
<1> SUFFICES ASSUME HeapInd, HeapWait PROVE HeapInd'
  OBVIOUS
<1>1. PICK room \in 1 .. 2 : /\ timerHeap' = Harvest(timerHeap, room)
                             /\ timerSet' = timerSet \ (Range(timerHeap) \ Range(timerHeap'))
  BY DEF HeapWait
<1>2. room \in Nat /\ timerHeap \in GoodHeaps(HeapEntries)
  BY DEF HeapInd
<1>3. timerHeap' \in GoodHeaps(HeapEntries) /\ Range(timerHeap') \subseteq Range(timerHeap)
  BY <1>1, <1>2, HeapEntriesTimed, Harvested
<1> QED BY <1>1, <1>3 DEF HeapInd

(* Time passes for all timers alike.                                        *)
LEMMA HeapTickKeeps == HeapInd /\ HeapTick => HeapInd'
<1> SUFFICES ASSUME HeapInd, HeapTick PROVE HeapInd'
  OBVIOUS
<1> DEFINE n == Len(timerHeap)
           P(e) == [e EXCEPT !.left = @ - 1]
<1>1. /\ timerHeap' = [i \in DOMAIN timerHeap |-> P(timerHeap[i])]
      /\ timerSet' = {P(e) : e \in timerSet}
  BY DEF HeapTick
<1>2. n \in Nat /\ DOMAIN timerHeap = 1 .. n /\ timerHeap \in Seq(HeapEntries) /\ \A i \in 1 .. n : timerHeap[i] \in HeapEntries /\ timerHeap[i] \in timerSet
  BY SeqHeap DEF HeapInd, GoodHeaps, Range
<1>3. \A e \in HeapEntries : P(e) \in HeapEntries /\ P(e).id = e.id /\ P(e).left = e.left - 1 /\ e.left \in Int
  BY DEF HeapEntries
<1> HIDE DEF n, P
<1>4. timerHeap' \in [1 .. n -> HeapEntries] /\ \A i \in 1 .. n : timerHeap'[i] = P(timerHeap[i])
  BY <1>1, <1>2, <1>3
<1>5. timerHeap' \in Seq(HeapEntries) /\ Len(timerHeap') = n /\ DOMAIN timerHeap' = 1 .. n
  BY <1>2, <1>4
<1>6. Ordered(timerHeap', n)
  <2>1. ASSUME NEW j \in 2 .. n PROVE timerHeap'[j \div 2].left <= timerHeap'[j].left
    <3>1. j \in 1 .. n /\ j \div 2 \in 1 .. n
      BY <1>2
    <3>2. timerHeap[j \div 2].left <= timerHeap[j].left
      BY DEF HeapInd, GoodHeaps, Ordered, n
    <3> QED BY <1>2, <1>3, <1>4, <3>1, <3>2
  <2> QED BY <2>1 DEF Ordered
<1>7. Distinct(timerHeap')
  <2>1. ASSUME NEW i \in 1 .. n, NEW j \in 1 .. n, timerHeap'[i] = timerHeap'[j] PROVE i = j
    <3>1. timerHeap[i].id = timerHeap[j].id
      BY <1>2, <1>3, <1>4, <2>1
    <3>2. timerHeap[i] = timerHeap[j]
      BY <1>2, <3>1 DEF HeapInd
    <3> QED BY <1>2, <3>2 DEF HeapInd, GoodHeaps, Distinct
  <2> QED BY <1>5, <2>1 DEF Distinct
<1>8. Range(timerHeap') = timerSet'
  <2>1. Range(timerHeap') = {P(timerHeap[i]) : i \in 1 .. n}
    BY <1>4, <1>5 DEF Range
  <2>2. timerSet = {timerHeap[i] : i \in 1 .. n}
    BY <1>2 DEF HeapInd, Range
  <2> QED BY <1>1, <2>1, <2>2
<1>9. \A a, b \in timerSet' : a.id = b.id => a = b
  <2>1. timerSet \subseteq HeapEntries
    BY DEF HeapInd, GoodHeaps, Range
  <2> QED BY <1>1, <1>3, <2>1 DEF HeapInd
<1> QED BY <1>5, <1>6, <1>7, <1>8, <1>9 DEF HeapInd, GoodHeaps

(* However timers are armed, removed and harvested, the root is the nearest *)
(* deadline and no timer is lost or doubled.                                *)
THEOREM HeapStaysSound == HeapSpec => []HeapSound
<1>1. HeapInit => HeapInd
  BY HeapStart
<1>2. HeapInd /\ [HeapNext]_heapVars => HeapInd'
  <2> SUFFICES ASSUME HeapInd, [HeapNext]_heapVars PROVE HeapInd'
    OBVIOUS
  <2>1. CASE UNCHANGED heapVars
    BY <2>1 DEF HeapInd, heapVars
  <2> QED BY <2>1, HeapArmKeeps, HeapRemoveKeeps, HeapWaitKeeps, HeapTickKeeps DEF HeapNext
<1>3. HeapInd => HeapSound
  <2> SUFFICES ASSUME HeapInd PROVE HeapSound
    OBVIOUS
  <2>1. timerHeap \in Seq(HeapEntries) /\ Ordered(timerHeap, Len(timerHeap)) /\ Distinct(timerHeap) /\ Range(timerHeap) = timerSet
    BY DEF HeapInd, GoodHeaps
  <2> QED BY <2>1, DistinctCount DEF HeapSound, Ordered
<1> QED BY <1>1, <1>2, <1>3, PTL DEF HeapSpec

-----------------------------------------------------------------------------
(* The invariant of the poller *)

\* What the variables hold.
TaskStates == [st : {"free", "parked", "woken"}, park : {"none", "fd", "timer", "both"}, fd : 0 .. PollFdMax,
               interest : Interests, tid : Nat]
FdEntries == [fd : 1 .. PollFdMax, kind : Interests, task : PollTasks]
TimerEntries == [id : Nat \ {0}, left : Int, task : PollTasks]
KernelEntries == [fd : Nat \ {0}, kind : Interests \cup {"timer"}, task : PollTasks, armed : BOOLEAN, left : Int]
Events == PollTasks \X {"fd", "timer"}

\* The armed waits of a backend, in one shape for all three.
Armed(b, timer) == {e \in b.kernel : e.armed /\ (e.kind = "timer") = timer}
WatchView(b) == IF b.name = "wsapoll" THEN Range(b.fds)
                ELSE {[fd |-> e.fd, kind |-> e.kind, task |-> e.task] : e \in Armed(b, FALSE)}
AlarmView(b) == IF b.name = "wsapoll" THEN Range(b.timers)
                ELSE {[id |-> e.fd, left |-> e.left, task |-> e.task] : e \in Armed(b, TRUE)}

\* A backend by itself: what each of the three keeps, under which keys.
ArrayKeyed(s) == \A i, j \in DOMAIN s : s[i].fd = s[j].fd => i = j
KernelKeyed(b) == \A d, e \in b.kernel : d.fd = e.fd /\ (b.name = "epoll" \/ d.kind = e.kind) => d = e
Backend == [name : Backends, kernel : SUBSET KernelEntries, fds : Seq(FdEntries), timers : Seq(TimerEntries),
            open : SUBSET (1 .. PollFdMax), misuse : {{}}]
BackendSound(b) ==
  /\ b \in Backend
  /\ b.name = "wsapoll" => b.kernel = {} /\ ArrayKeyed(b.fds) /\ b.timers \in GoodHeaps(TimerEntries)
  /\ b.name # "wsapoll" => IsFiniteSet(b.kernel) /\ KernelKeyed(b)
  /\ b.name = "kqueue" => \A e \in b.kernel : e.armed

\* The tasks by themselves.
TasksSound(T, open) ==
  /\ T \in [PollTasks -> TaskStates]
  /\ \A t \in PollTasks :
       /\ T[t].st = "free" <=> T[t].park = "none"
       /\ T[t].st = "free" => T[t].interest = "read"
       /\ T[t].park \in {"none", "fd"} => T[t].tid = 0
       /\ T[t].park = "timer" => T[t].fd = 0
       /\ T[t].park \in {"fd", "both"} => T[t].fd # 0
       /\ T[t].fd # 0 => T[t].fd \in open
  /\ \A t, u \in PollTasks : T[t].fd = T[u].fd /\ T[t].fd # 0 => t = u
  /\ \A t, u \in PollTasks : T[t].tid = T[u].tid /\ T[t].tid # 0 => t = u

\* epoll: every entry, armed or spent, is at its task's descriptor or timer; timers are descriptors too.
EpollFits(T, b) == b.name = "epoll" =>
  /\ \A e \in b.kernel : e.fd = IF e.kind = "timer" THEN T[e.task].tid ELSE T[e.task].fd
  /\ \A t \in PollTasks : T[t].tid # 0 =>
       /\ T[t].tid \in b.open /\ \A u \in PollTasks : T[u].fd # T[t].tid
       /\ \E e \in b.kernel : e.kind = "timer" /\ e.fd = T[t].tid

\* An armed wait is its task's, and was not reported.
WatchesFit(T, b, told) == \A w \in WatchView(b) :
  /\ w.fd = T[w.task].fd /\ w.kind = T[w.task].interest
  /\ T[w.task].park \in {"fd", "both"} /\ (T[w.task].st = "woken" => T[w.task].park = "both")
  /\ <<w.task, "fd">> \notin told
AlarmsFit(T, b, told) ==
  /\ \A a \in AlarmView(b) : a.id = T[a.task].tid /\ <<a.task, "timer">> \notin told
  /\ \A a, c \in AlarmView(b) : a.id = c.id => a = c

\* What was reported is a wait of a parked task.
ToldFits(T, told) ==
  /\ told \subseteq Events
  /\ \A t \in PollTasks :
       /\ <<t, "fd">> \in told => T[t].st = "parked" /\ T[t].park \in {"fd", "both"}
       /\ <<t, "timer">> \in told => T[t].st = "parked" /\ T[t].tid # 0

\* The inductive invariant.
PollSound(T, b, told) ==
  /\ BackendSound(b) /\ TasksSound(T, b.open) /\ EpollFits(T, b)
  /\ WatchesFit(T, b, told) /\ AlarmsFit(T, b, told) /\ ToldFits(T, told)
PollInv == PollSound(pollTask, pollB, pollTold)

-----------------------------------------------------------------------------
(* The operations of the backends *)

(* Members of the views of a kernel backend.                                *)
LEMMA KernelViews ==
  ASSUME NEW b, b.name # "wsapoll"
  PROVE  /\ \A w : w \in WatchView(b) <=> \E e \in b.kernel : /\ e.armed /\ e.kind # "timer"
                                                          /\ w = [fd |-> e.fd, kind |-> e.kind, task |-> e.task]
         /\ \A a : a \in AlarmView(b) <=> \E e \in b.kernel : /\ e.armed /\ e.kind = "timer"
                                                          /\ a = [id |-> e.fd, left |-> e.left, task |-> e.task]
  BY DEF WatchView, AlarmView, Armed

(* Registering a descriptor.                                                *)
LEMMA AddKernel ==
  ASSUME NEW b, BackendSound(b), b.name # "wsapoll", NEW fd \in b.open, NEW kind \in Interests, NEW t \in PollTasks,
         \A w \in WatchView(b) : w.fd # fd,
         b.name = "epoll" => \A e \in b.kernel : e.fd = fd => e.kind # "timer",
         NEW c, c = sprout_poll_add(b, fd, kind, t)
  PROVE  /\ BackendSound(c) /\ c.name = b.name /\ c.open = b.open
         /\ WatchView(c) = WatchView(b) \cup {[fd |-> fd, kind |-> kind, task |-> t]}
         /\ AlarmView(c) = AlarmView(b)
         /\ \A e \in c.kernel : e \in b.kernel \/ (e.fd = fd /\ e.kind = kind /\ e.task = t)
         /\ \A e \in b.kernel : e.kind = "timer" => e \in c.kernel
<1> DEFINE e0 == [fd |-> fd, kind |-> kind, task |-> t, armed |-> TRUE, left |-> 0]
           K == Without(b, fd, kind) \cup {e0}
<1>1. c = [[b EXCEPT !.kernel = K] EXCEPT !.misuse = {}]
  BY DEF sprout_poll_add, Misused, BackendSound, Backend
<1>2. b.kernel \subseteq KernelEntries /\ IsFiniteSet(b.kernel) /\ b.open \subseteq 1 .. PollFdMax /\ KernelKeyed(b)
  BY DEF BackendSound, Backend
<1>3. e0 \in KernelEntries /\ e0.fd = fd /\ e0.kind = kind /\ e0.task = t /\ e0.armed = TRUE /\ kind # "timer"
  BY <1>2 DEF KernelEntries, Interests
<1> HIDE DEF e0
<1>4. ASSUME NEW e \in b.kernel, e.armed, e.kind # "timer" PROVE e.fd # fd
  <2> DEFINE w == [fd |-> e.fd, kind |-> e.kind, task |-> e.task]
  <2>1. w \in WatchView(b) /\ w.fd = e.fd
    BY <1>4, KernelViews
  <2> QED BY <2>1
<1>5. \A e : e \in K <=> e = e0 \/ (e \in b.kernel /\ (e.fd # fd \/ (b.name = "kqueue" /\ e.kind # kind)))
  BY DEF Without
<1>6. K \in SUBSET KernelEntries
  BY <1>2, <1>3, <1>5
<1>7. IsFiniteSet(K)
  <2>1. IsFiniteSet(Without(b, fd, kind))
    BY <1>2, FS_Subset DEF Without
  <2> QED BY <2>1, FS_AddElement
<1> HIDE DEF K
<1>8. \A d, e \in K : d.fd = e.fd /\ (b.name = "epoll" \/ d.kind = e.kind) => d = e
  BY <1>2, <1>3, <1>5 DEF KernelKeyed, BackendSound, Backend, Backends
<1>9. BackendSound(c) /\ c.name = b.name /\ c.kernel = K /\ c.open = b.open
  <2>1. b.name = "kqueue" => \A e \in K : e.armed
    BY <1>3, <1>5 DEF BackendSound
  <2>2. c \in Backend /\ c.name = b.name /\ c.kernel = K /\ c.open = b.open /\ c.misuse = {}
    BY <1>1, <1>6 DEF BackendSound, Backend
  <2> QED BY <1>7, <1>8, <2>1, <2>2 DEF BackendSound, KernelKeyed
<1>10. \A e \in b.kernel : e.armed => e \in K
  BY <1>4, <1>5, <1>3 DEF BackendSound, Backend, Backends
<1>11. WatchView(c) = WatchView(b) \cup {[fd |-> fd, kind |-> kind, task |-> t]}
  <2>1. ASSUME NEW w \in WatchView(c) PROVE w \in WatchView(b) \cup {[fd |-> fd, kind |-> kind, task |-> t]}
    BY <1>3, <1>5, <1>9, KernelViews
  <2>2. ASSUME NEW w \in WatchView(b) PROVE w \in WatchView(c)
    BY <1>9, <1>10, KernelViews
  <2>3. [fd |-> fd, kind |-> kind, task |-> t] \in WatchView(c)
    BY <1>3, <1>5, <1>9, KernelViews
  <2> QED BY <2>1, <2>2, <2>3
<1>12. AlarmView(c) = AlarmView(b)
  <2>1. ASSUME NEW a \in AlarmView(c) PROVE a \in AlarmView(b)
    BY <1>3, <1>5, <1>9, KernelViews
  <2>2. ASSUME NEW a \in AlarmView(b) PROVE a \in AlarmView(c)
    BY <1>9, <1>10, KernelViews
  <2> QED BY <2>1, <2>2
<1>13. \A e \in b.kernel : e.kind = "timer" => e \in c.kernel
  BY <1>3, <1>5, <1>9 DEF BackendSound, Backend, Backends
<1>14. \A e \in c.kernel : e \in b.kernel \/ (e.fd = fd /\ e.kind = kind /\ e.task = t)
  BY <1>3, <1>5, <1>9
<1> QED BY <1>9, <1>11, <1>12, <1>13, <1>14

(* A kernel that lost entries is sound.                                     *)
LEMMA ShrunkKernel ==
  ASSUME NEW b, BackendSound(b), b.name # "wsapoll", NEW c \in Backend, c.name = b.name, c.kernel \subseteq b.kernel
  PROVE  BackendSound(c)
<1>1. IsFiniteSet(c.kernel)
  BY FS_Subset DEF BackendSound
<1> QED BY <1>1 DEF BackendSound, KernelKeyed

\* From b to c the kernel lost the armed watches on X and the armed timers Y, and no other.
KernelLost(b, c, X, Y) ==
  /\ b.name # "wsapoll" /\ c.name = b.name /\ c.kernel \subseteq b.kernel
  /\ \A e \in b.kernel : e.armed /\ e.kind # "timer" => (e \in c.kernel <=> e.fd \notin X)
  /\ \A e \in b.kernel : e.armed /\ e.kind = "timer" => (e \in c.kernel <=> e.fd \notin Y)

(* So do its views.                                                         *)
LEMMA ShrunkViews ==
  ASSUME NEW b, NEW c, NEW X, NEW Y, KernelLost(b, c, X, Y)
  PROVE  /\ WatchView(c) = {w \in WatchView(b) : w.fd \notin X}
         /\ AlarmView(c) = {a \in AlarmView(b) : a.id \notin Y}
<1> USE DEF KernelLost
<1>1. ASSUME NEW w \in WatchView(c) PROVE w \in WatchView(b) /\ w.fd \notin X
  <2>1. PICK e \in c.kernel : e.armed /\ e.kind # "timer" /\ w = [fd |-> e.fd, kind |-> e.kind, task |-> e.task]
    BY KernelViews
  <2> QED BY <2>1, KernelViews
<1>2. ASSUME NEW w \in WatchView(b), w.fd \notin X PROVE w \in WatchView(c)
  <2>1. PICK e \in b.kernel : e.armed /\ e.kind # "timer" /\ w = [fd |-> e.fd, kind |-> e.kind, task |-> e.task]
    BY KernelViews
  <2> QED BY <1>2, <2>1, KernelViews
<1>3. ASSUME NEW a \in AlarmView(c) PROVE a \in AlarmView(b) /\ a.id \notin Y
  <2>1. PICK e \in c.kernel : e.armed /\ e.kind = "timer" /\ a = [id |-> e.fd, left |-> e.left, task |-> e.task]
    BY KernelViews
  <2> QED BY <2>1, KernelViews
<1>4. ASSUME NEW a \in AlarmView(b), a.id \notin Y PROVE a \in AlarmView(c)
  <2>1. PICK e \in b.kernel : e.armed /\ e.kind = "timer" /\ a = [id |-> e.fd, left |-> e.left, task |-> e.task]
    BY KernelViews
  <2> QED BY <1>4, <2>1, KernelViews
<1> QED BY <1>1, <1>2, <1>3, <1>4

(* Removing a descriptor.                                                   *)
LEMMA RemoveKernel ==
  ASSUME NEW b, BackendSound(b), b.name # "wsapoll", NEW fd \in b.open, NEW kind \in Interests,
         \A w \in WatchView(b) : w.fd = fd => w.kind = kind,
         b.name = "epoll" => \A e \in b.kernel : e.fd = fd => e.kind # "timer",
         NEW c, c = sprout_poll_remove(b, fd, kind)
  PROVE  /\ BackendSound(c) /\ c.name = b.name /\ c.open = b.open
         /\ WatchView(c) = {w \in WatchView(b) : w.fd # fd} /\ AlarmView(c) = AlarmView(b)
         /\ c.kernel \subseteq b.kernel
         /\ \A e \in b.kernel : e.kind = "timer" => e \in c.kernel
<1>1. c = [[b EXCEPT !.kernel = Without(b, fd, kind)] EXCEPT !.misuse = {}]
  BY DEF sprout_poll_remove, Misused, BackendSound, Backend
<1>2. Without(b, fd, kind) \subseteq b.kernel
  BY DEF Without
<1>3. c \in Backend /\ c.name = b.name /\ c.open = b.open /\ c.kernel = Without(b, fd, kind)
  BY <1>1, <1>2 DEF BackendSound, Backend
<1>4. BackendSound(c)
  BY <1>2, <1>3, ShrunkKernel
<1>5. ASSUME NEW e \in b.kernel, e.armed, e.kind # "timer" PROVE e \in c.kernel <=> e.fd \notin {fd}
  <2> DEFINE w == [fd |-> e.fd, kind |-> e.kind, task |-> e.task]
  <2>1. w \in WatchView(b) /\ w.fd = e.fd /\ w.kind = e.kind
    BY <1>5, KernelViews
  <2>2. e.fd = fd => e.kind = kind
    BY <2>1
  <2> QED BY <1>3, <2>2 DEF Without
<1>6. ASSUME NEW e \in b.kernel, e.kind = "timer" PROVE e \in c.kernel
  BY <1>3, <1>6 DEF Without, BackendSound, Backend, Backends, Interests
<1> DEFINE X == {fd}
           Y == {}
<1>7. /\ WatchView(c) = {w \in WatchView(b) : w.fd \notin X}
      /\ AlarmView(c) = {a \in AlarmView(b) : a.id \notin Y}
  <2>1. \A e \in b.kernel : e.armed /\ e.kind = "timer" => (e \in c.kernel <=> e.fd \notin Y)
    BY <1>6
  <2>2. \A e \in b.kernel : e.armed /\ e.kind # "timer" => (e \in c.kernel <=> e.fd \notin X)
    BY <1>5
  <2>3. c.kernel \subseteq b.kernel
    BY <1>2, <1>3
  <2> HIDE DEF X, Y
  <2>33. b.name # "wsapoll" /\ c.name = b.name /\ c.kernel \subseteq b.kernel
    BY <1>3, <2>1, <2>2, <2>3
  <2>4. KernelLost(b, c, X, Y)
    BY <2>1, <2>2, <2>33 DEF KernelLost
  <2> QED BY <2>4, ShrunkViews
<1> QED BY <1>2, <1>3, <1>4, <1>6, <1>7

(* Closing a socket nobody waits on.                                        *)
LEMMA CloseKernel ==
  ASSUME NEW b, BackendSound(b), b.name # "wsapoll", NEW fd,
         \A w \in WatchView(b) : w.fd # fd,
         b.name = "epoll" => \A e \in b.kernel : e.fd = fd => e.kind # "timer",
         NEW c, c = Closed(b, fd)
  PROVE  /\ BackendSound(c) /\ c.name = b.name /\ c.open = b.open \ {fd}
         /\ WatchView(c) = WatchView(b) /\ AlarmView(c) = AlarmView(b)
         /\ c.kernel \subseteq b.kernel
         /\ \A e \in b.kernel : e.kind = "timer" => e \in c.kernel
         /\ \A e \in c.kernel : e.kind # "timer" => e.fd # fd
<1> DEFINE K == {e \in b.kernel : e.fd # fd \/ (b.name = "kqueue" /\ e.kind = "timer")}
<1>1. c = [[b EXCEPT !.open = b.open \ {fd}] EXCEPT !.kernel = K]
  BY DEF Closed, BackendSound, Backend
<1>2. c \in Backend /\ c.name = b.name /\ c.open = b.open \ {fd} /\ c.kernel = K
  BY <1>1 DEF BackendSound, Backend
<1>3. c.kernel \subseteq b.kernel /\ \A e \in c.kernel : e.kind # "timer" => e.fd # fd
  BY <1>2
<1>4. BackendSound(c)
  BY <1>2, <1>3, ShrunkKernel
<1>5. ASSUME NEW e \in b.kernel, e.armed, e.kind # "timer" PROVE e \in c.kernel <=> e.fd \notin {}
  <2> DEFINE w == [fd |-> e.fd, kind |-> e.kind, task |-> e.task]
  <2>1. w \in WatchView(b) /\ w.fd = e.fd /\ w.kind = e.kind
    BY <1>5, KernelViews
  <2> QED BY <1>2, <2>1
<1>6. ASSUME NEW e \in b.kernel, e.kind = "timer" PROVE e \in c.kernel
  BY <1>2, <1>6 DEF BackendSound, Backend, Backends, Interests
<1> DEFINE X == {}
           Y == {}
<1>7. /\ WatchView(c) = {w \in WatchView(b) : w.fd \notin X}
      /\ AlarmView(c) = {a \in AlarmView(b) : a.id \notin Y}
  <2>1. \A e \in b.kernel : e.armed /\ e.kind = "timer" => (e \in c.kernel <=> e.fd \notin Y)
    BY <1>6
  <2>2. \A e \in b.kernel : e.armed /\ e.kind # "timer" => (e \in c.kernel <=> e.fd \notin X)
    BY <1>5
  <2> HIDE DEF K, X, Y
  <2>33. b.name # "wsapoll" /\ c.name = b.name /\ c.kernel \subseteq b.kernel
    BY <1>2, <1>3, <2>1, <2>2
  <2>4. KernelLost(b, c, X, Y)
    BY <2>1, <2>2, <2>33 DEF KernelLost
  <2> QED BY <2>4, ShrunkViews
<1> QED BY <1>2, <1>3, <1>4, <1>6, <1>7

\* With epoll: id is the descriptor of a timer.
TimerDescriptor(b, id) == b.name = "epoll" =>
  /\ \A e \in b.kernel : e.fd = id => e.kind = "timer"
  /\ \E e \in b.kernel : e.fd = id

(* Tearing a timer down.                                                    *)
LEMMA RetireKernel ==
  ASSUME NEW b, BackendSound(b), b.name # "wsapoll", NEW id,
         TimerDescriptor(b, id),
         NEW c, c = sprout_poll_remove_timer(b, id)
  PROVE  /\ BackendSound(c) /\ c.name = b.name /\ c.open = IF b.name = "epoll" THEN b.open \ {id} ELSE b.open
         /\ WatchView(c) = WatchView(b) /\ AlarmView(c) = {a \in AlarmView(b) : a.id # id}
         /\ c.kernel = {e \in b.kernel : e.fd # id \/ e.kind # "timer"}
<1> DEFINE K == {e \in b.kernel : e.fd # id \/ e.kind # "timer"}
           O == IF b.name = "epoll" THEN b.open \ {id} ELSE b.open
<1>1. c \in Backend /\ c.name = b.name /\ c.open = O /\ c.kernel = K
  <2>1. CASE b.name = "epoll"
    <3>1. {e \in b.kernel : e.fd # id \/ (b.name = "kqueue" /\ e.kind = "timer")} = K
      BY <2>1 DEF TimerDescriptor
    <3>2. ~(\A e \in b.kernel : e.fd # id \/ e.kind # "timer")
      BY <2>1 DEF TimerDescriptor
    <3> HIDE DEF K
    <3>3. c = [[[b EXCEPT !.open = b.open \ {id}] EXCEPT !.kernel = K] EXCEPT !.misuse = {}]
      BY <2>1, <3>1, <3>2 DEF sprout_poll_remove_timer, CloseTimerFd, Closed, Misused, BackendSound, Backend
    <3>4. K \subseteq b.kernel
      BY DEF K
    <3> QED BY <2>1, <3>3, <3>4 DEF BackendSound, Backend
  <2>2. CASE b.name = "kqueue"
    <3>3. c = [b EXCEPT !.kernel = K]
      BY <2>2 DEF sprout_poll_remove_timer, DeleteTimer, BackendSound, Backend
    <3> QED BY <2>2, <3>3 DEF BackendSound, Backend
  <2> QED BY <2>1, <2>2 DEF BackendSound, Backend, Backends
<1>2. c.kernel \subseteq b.kernel
  BY <1>1
<1>3. BackendSound(c)
  <2> HIDE DEF K, O
  <2> QED BY <1>1, <1>2, ShrunkKernel
<1> DEFINE X == {}
           Y == {id}
<1>4. /\ WatchView(c) = {w \in WatchView(b) : w.fd \notin X}
      /\ AlarmView(c) = {a \in AlarmView(b) : a.id \notin Y}
  <2>1. \A e \in b.kernel : e.armed /\ e.kind = "timer" => (e \in c.kernel <=> e.fd \notin Y)
    BY <1>1
  <2>2. \A e \in b.kernel : e.armed /\ e.kind # "timer" => (e \in c.kernel <=> e.fd \notin X)
    BY <1>1
  <2> HIDE DEF K, O, X, Y
  <2>33. b.name # "wsapoll" /\ c.name = b.name /\ c.kernel \subseteq b.kernel
    BY <1>1, <1>2, <2>1, <2>2
  <2>4. KernelLost(b, c, X, Y)
    BY <2>1, <2>2, <2>33 DEF KernelLost
  <2> QED BY <2>4, ShrunkViews
<1> QED BY <1>1, <1>3, <1>4

(* Arming a timer under a fresh identifier.                                 *)
LEMMA ArmKernel ==
  ASSUME NEW b, BackendSound(b), b.name # "wsapoll", NEW t \in PollTasks, NEW ms \in Int,
         NEW id \in Nat \ {0}, id = TimerId(b),
         b.name = "epoll" => id \in 1 .. PollFdMax /\ \A e \in b.kernel : e.fd # id,
         \A e \in b.kernel : e.kind = "timer" => e.fd # id,
         NEW c, c = sprout_poll_add_timer(b, ms, t)
  PROVE  /\ BackendSound(c) /\ c.name = b.name /\ c.open = IF b.name = "epoll" THEN b.open \cup {id} ELSE b.open
         /\ WatchView(c) = WatchView(b) /\ AlarmView(c) = AlarmView(b) \cup {[id |-> id, left |-> ms, task |-> t]}
         /\ c.kernel = b.kernel \cup {[fd |-> id, kind |-> "timer", task |-> t, armed |-> TRUE, left |-> ms]}
<1> DEFINE e0 == [fd |-> id, kind |-> "timer", task |-> t, armed |-> TRUE, left |-> ms]
           K == b.kernel \cup {e0}
           O == IF b.name = "epoll" THEN b.open \cup {id} ELSE b.open
<1>0. e0 \in KernelEntries /\ e0.fd = id /\ e0.kind = "timer" /\ e0.task = t /\ e0.armed = TRUE /\ e0.left = ms
  BY DEF KernelEntries
<1>1. c = [[b EXCEPT !.kernel = K] EXCEPT !.open = O]
  BY DEF sprout_poll_add_timer, BackendSound, Backend
<1> HIDE DEF e0
<1>2. c \in Backend /\ c.name = b.name /\ c.open = O /\ c.kernel = K
  <2>1. O \in SUBSET (1 .. PollFdMax) /\ K \in SUBSET KernelEntries
    BY <1>0 DEF BackendSound, Backend
  <2> HIDE DEF O, K
  <2> QED BY <1>1, <2>1 DEF BackendSound, Backend
<1>3. BackendSound(c)
  <2>1. IsFiniteSet(K)
    BY FS_AddElement DEF BackendSound
  <2>2. \A d, e \in K : d.fd = e.fd /\ (b.name = "epoll" \/ d.kind = e.kind) => d = e
    BY <1>0 DEF BackendSound, KernelKeyed
  <2>3. b.name = "kqueue" => \A e \in K : e.armed
    BY <1>0 DEF BackendSound
  <2> HIDE DEF K
  <2> QED BY <1>2, <2>1, <2>2, <2>3 DEF BackendSound, KernelKeyed
<1>4. WatchView(c) = WatchView(b)
  <2>1. ASSUME NEW w \in WatchView(c) PROVE w \in WatchView(b)
    BY <1>0, <1>2, KernelViews
  <2>2. ASSUME NEW w \in WatchView(b) PROVE w \in WatchView(c)
    BY <1>2, KernelViews
  <2> QED BY <2>1, <2>2
<1>5. AlarmView(c) = AlarmView(b) \cup {[id |-> id, left |-> ms, task |-> t]}
  <2>1. ASSUME NEW a \in AlarmView(c) PROVE a \in AlarmView(b) \cup {[id |-> id, left |-> ms, task |-> t]}
    BY <1>0, <1>2, KernelViews
  <2>2. ASSUME NEW a \in AlarmView(b) PROVE a \in AlarmView(c)
    BY <1>2, KernelViews
  <2>3. [id |-> id, left |-> ms, task |-> t] \in AlarmView(c)
    BY <1>0, <1>2, KernelViews
  <2> QED BY <2>1, <2>2, <2>3
<1> QED BY <1>2, <1>3, <1>4, <1>5 DEF e0

(* The scan of an array for a key finds it, or there is none.               *)
LEMMA FindFd ==
  ASSUME NEW s \in Seq(FdEntries), ArrayKeyed(s), NEW fd, NEW i, i = fds_find(s, fd)
  PROVE  \/ i = 0 /\ \A x \in Range(s) : x.fd # fd
         \/ i \in DOMAIN s /\ s[i].fd = fd
<1> DEFINE I == {j \in 1 .. Len(s) : s[j].fd = fd}
<1>1. i = IF I # {} THEN Min(I) ELSE 0
  BY DEF SelectInSeq, fds_find
<1>2. DOMAIN s = 1 .. Len(s) /\ Len(s) \in Nat
  OBVIOUS
<1>3. CASE I = {}
  BY <1>1, <1>2, <1>3 DEF Range
<1>4. CASE I # {}
  <2>1. PICK j \in I : TRUE
    BY <1>4
  <2>2. \A k \in I : k = j
    BY <1>2 DEF ArrayKeyed
  <2>3. j \in I /\ \A k \in I : j <= k
    BY <2>2
  <2>4. Min(I) \in I
    <3> HIDE DEF I
    <3> QED BY <2>3 DEF Min
  <2> QED BY <1>1, <1>2, <1>4, <2>4
<1> QED BY <1>3, <1>4

(* The same of the heap of timers.                                          *)
LEMMA FindTimer ==
  ASSUME NEW h \in GoodHeaps(TimerEntries), \A a, c \in Range(h) : a.id = c.id => a = c,
         NEW id, NEW i, i = TimerAt(h, id)
  PROVE  \/ i = 0 /\ \A x \in Range(h) : x.id # id
         \/ i \in DOMAIN h /\ h[i].id = id
<1> DEFINE I == {j \in 1 .. Len(h) : h[j].id = id}
<1>1. i = IF I # {} THEN Min(I) ELSE 0
  BY DEF SelectInSeq, TimerAt
<1>2. DOMAIN h = 1 .. Len(h) /\ Len(h) \in Nat
  BY DEF GoodHeaps
<1>3. CASE I = {}
  BY <1>1, <1>2, <1>3 DEF Range
<1>4. CASE I # {}
  <2>1. PICK j \in I : TRUE
    BY <1>4
  <2>2. \A k \in I : k = j
    BY <1>2 DEF GoodHeaps, Distinct, Range
  <2>3. j \in I /\ \A k \in I : j <= k
    BY <2>2
  <2>4. Min(I) \in I
    <3> HIDE DEF I
    <3> QED BY <2>3 DEF Min
  <2> QED BY <1>1, <1>2, <1>4, <2>4
<1> QED BY <1>3, <1>4

(* What is sound of a backend that keeps arrays.                            *)
LEMMA NewArrays ==
  ASSUME NEW b, BackendSound(b), b.name = "wsapoll", NEW s \in Seq(FdEntries), ArrayKeyed(s),
         NEW h \in GoodHeaps(TimerEntries), NEW c \in Backend, c.name = b.name, c.kernel = b.kernel,
         c.fds = s, c.timers = h
  PROVE  BackendSound(c) /\ WatchView(c) = Range(s) /\ AlarmView(c) = Range(h)
  BY DEF BackendSound, WatchView, AlarmView

(* The parts of a sound backend that keeps arrays.                          *)
LEMMA Arrays ==
  ASSUME NEW b, BackendSound(b), b.name = "wsapoll"
  PROVE  /\ b \in Backend /\ b.kernel = {} /\ b.fds \in Seq(FdEntries) /\ ArrayKeyed(b.fds)
         /\ b.timers \in GoodHeaps(TimerEntries) /\ b.timers \in Seq(TimerEntries)
         /\ b.open \in SUBSET (1 .. PollFdMax) /\ b.misuse = {}
         /\ WatchView(b) = Range(b.fds) /\ AlarmView(b) = Range(b.timers)
  BY DEF BackendSound, Backend, WatchView, AlarmView

(* Timers have a time left.                                                 *)
LEMMA TimerEntriesTimed == Timers(TimerEntries)
  BY DEF Timers, TimerEntries

(* Registering a descriptor: it is not in the array yet, and is appended.   *)
LEMMA AddArray ==
  ASSUME NEW b, BackendSound(b), b.name = "wsapoll", NEW fd \in b.open, NEW kind \in Interests, NEW t \in PollTasks,
         \A w \in WatchView(b) : w.fd # fd,
         NEW c, c = sprout_poll_add(b, fd, kind, t)
  PROVE  /\ BackendSound(c) /\ c.name = b.name /\ c.open = b.open /\ c.kernel = b.kernel
         /\ WatchView(c) = WatchView(b) \cup {[fd |-> fd, kind |-> kind, task |-> t]}
         /\ AlarmView(c) = AlarmView(b)
<1> DEFINE e == [fd |-> fd, kind |-> kind, task |-> t]
           i == fds_find(b.fds, e.fd)
           s == Append(b.fds, e)
<1>1. /\ b \in Backend /\ b.fds \in Seq(FdEntries) /\ ArrayKeyed(b.fds) /\ WatchView(b) = Range(b.fds)
      /\ AlarmView(b) = Range(b.timers) /\ b.timers \in GoodHeaps(TimerEntries) /\ b.open \in SUBSET (1 .. PollFdMax)
  BY Arrays
<1>2. e \in FdEntries /\ e.fd = fd
  BY <1>1 DEF FdEntries
<1>3. i = 0
  <2>1. i = fds_find(b.fds, fd)
    BY <1>2
  <2> HIDE DEF i
  <2>2. \/ i = 0
        \/ i \in DOMAIN b.fds /\ b.fds[i].fd = fd
    BY <1>1, <2>1, FindFd
  <2> QED BY <1>1, <2>2 DEF Range
<1>4. c = [b EXCEPT !.fds = s]
  BY <1>1, <1>3 DEF sprout_poll_add, WinAdd, Backend
<1> HIDE DEF e
<1>5. s \in Seq(FdEntries) /\ Len(s) = Len(b.fds) + 1 /\ s[Len(b.fds) + 1] = e /\ \A k \in 1 .. Len(b.fds) : s[k] = b.fds[k]
  BY <1>1, <1>2, AppendProperties
<1> HIDE DEF s
<1>6. DOMAIN s = 1 .. Len(b.fds) + 1 /\ DOMAIN b.fds = 1 .. Len(b.fds) /\ Len(b.fds) \in Nat
  BY <1>1, <1>5
<1>7. Range(s) = Range(b.fds) \cup {e}
  <2>1. ASSUME NEW x \in Range(s) PROVE x \in Range(b.fds) \cup {e}
    BY <1>5, <1>6 DEF Range
  <2>2. ASSUME NEW x \in Range(b.fds) PROVE x \in Range(s)
    BY <1>5, <1>6 DEF Range
  <2>3. e \in Range(s)
    BY <1>5, <1>6 DEF Range
  <2> QED BY <2>1, <2>2, <2>3
<1>8. ArrayKeyed(s)
  <2>1. \A k \in 1 .. Len(b.fds) : b.fds[k].fd # fd
    BY <1>1, <1>6 DEF Range
  <2>2. ASSUME NEW k \in 1 .. Len(b.fds) + 1, NEW l \in 1 .. Len(b.fds) + 1, s[k].fd = s[l].fd PROVE k = l
    <3>1. k \in 1 .. Len(b.fds) \/ k = Len(b.fds) + 1
      BY <1>6
    <3>2. l \in 1 .. Len(b.fds) \/ l = Len(b.fds) + 1
      BY <1>6
    <3>3. ASSUME k \in 1 .. Len(b.fds), l \in 1 .. Len(b.fds) PROVE k = l
      BY <1>1, <1>5, <1>6, <2>2, <3>3 DEF ArrayKeyed
    <3> QED BY <1>2, <1>5, <2>1, <2>2, <3>1, <3>2, <3>3
  <2> QED BY <1>6, <2>2 DEF ArrayKeyed
<1>9. c \in Backend /\ c.name = b.name /\ c.open = b.open /\ c.kernel = b.kernel /\ c.fds = s /\ c.timers = b.timers
  BY <1>1, <1>4, <1>5 DEF Backend
<1>10. BackendSound(c) /\ WatchView(c) = Range(s) /\ AlarmView(c) = Range(b.timers)
  BY <1>1, <1>5, <1>8, <1>9, NewArrays
<1> QED BY <1>1, <1>7, <1>9, <1>10 DEF e

(* Removing a descriptor, whether or not it is there.                       *)
LEMMA RemoveArray ==
  ASSUME NEW b, BackendSound(b), b.name = "wsapoll", NEW fd, NEW kind,
         NEW c, c = sprout_poll_remove(b, fd, kind)
  PROVE  /\ BackendSound(c) /\ c.name = b.name /\ c.open = b.open /\ c.kernel = b.kernel
         /\ WatchView(c) = {w \in WatchView(b) : w.fd # fd} /\ AlarmView(c) = AlarmView(b)
<1> DEFINE i == fds_find(b.fds, fd)
           n == Len(b.fds)
           d == fds_drop(b.fds, i)
<1>1. /\ b \in Backend /\ b.fds \in Seq(FdEntries) /\ ArrayKeyed(b.fds) /\ WatchView(b) = Range(b.fds)
      /\ AlarmView(b) = Range(b.timers) /\ b.timers \in GoodHeaps(TimerEntries)
  BY Arrays
<1>2. c = [b EXCEPT !.fds = IF i = 0 THEN b.fds ELSE d]
  BY <1>1 DEF sprout_poll_remove, WinRemove, Backend
<1>3. \/ i = 0 /\ \A x \in Range(b.fds) : x.fd # fd
      \/ i \in DOMAIN b.fds /\ b.fds[i].fd = fd
  BY <1>1, FindFd
<1> HIDE DEF i
<1>4. CASE i = 0 /\ \A x \in Range(b.fds) : x.fd # fd
  <2>1. c \in Backend /\ c.name = b.name /\ c.open = b.open /\ c.kernel = b.kernel /\ c.fds = b.fds /\ c.timers = b.timers
    BY <1>1, <1>2, <1>4 DEF Backend
  <2>2. BackendSound(c) /\ WatchView(c) = Range(b.fds) /\ AlarmView(c) = Range(b.timers)
    BY <1>1, <2>1, NewArrays
  <2> QED BY <1>1, <1>4, <2>1, <2>2
<1>5. CASE i \in DOMAIN b.fds /\ b.fds[i].fd = fd
  <2>1. n \in Nat \ {0} /\ b.fds \in Heaps(FdEntries, n) /\ i \in 1 .. n /\ DOMAIN b.fds = 1 .. n
    BY <1>1, <1>5 DEF Heaps
  <2>2. Distinct(b.fds)
    BY <1>1 DEF ArrayKeyed, Distinct
  <2>3. /\ d \in Heaps(FdEntries, n - 1) /\ Distinct(d) /\ Range(d) = Range(b.fds) \ {b.fds[i]}
        /\ \A k \in 1 .. n - 1 : d[k] = IF k = i THEN b.fds[n] ELSE b.fds[k]
    <3> HIDE DEF n, d
    <3>1. /\ fds_drop(b.fds, i) \in Heaps(FdEntries, n - 1)
          /\ \A k \in 1 .. n - 1 : fds_drop(b.fds, i)[k] = IF k = i THEN b.fds[n] ELSE b.fds[k]
          /\ Distinct(b.fds) => Distinct(fds_drop(b.fds, i)) /\ Range(fds_drop(b.fds, i)) = Range(b.fds) \ {b.fds[i]}
      BY <2>1, FdsDrop
    <3> QED BY <2>2, <3>1 DEF d
  <2> HIDE DEF d, n
  <2>4. d \in Seq(FdEntries) /\ DOMAIN d = 1 .. n - 1
    BY <2>1, <2>3 DEF Heaps
  <2>5. ArrayKeyed(d)
    BY <1>1, <2>1, <2>3, <2>4, SMTT(20) DEF ArrayKeyed
  <2>6. c \in Backend /\ c.name = b.name /\ c.open = b.open /\ c.kernel = b.kernel /\ c.fds = d /\ c.timers = b.timers
    <3>1. i # 0
      BY <2>1
    <3> QED BY <1>1, <1>2, <2>4, <3>1 DEF Backend
  <2>7. BackendSound(c) /\ WatchView(c) = Range(d) /\ AlarmView(c) = Range(b.timers)
    BY <1>1, <2>4, <2>5, <2>6, NewArrays
  <2>8. Range(d) = {w \in Range(b.fds) : w.fd # fd}
    <3>1. ASSUME NEW w \in Range(b.fds) PROVE w.fd = fd <=> w = b.fds[i]
      BY <1>1, <1>5 DEF ArrayKeyed, Range
    <3> QED BY <2>3, <3>1
  <2> QED BY <1>1, <2>6, <2>7, <2>8
<1> QED BY <1>3, <1>4, <1>5

(* Closing a socket leaves the arrays alone.                                *)
LEMMA CloseArray ==
  ASSUME NEW b, BackendSound(b), b.name = "wsapoll", NEW fd, NEW c, c = Closed(b, fd)
  PROVE  /\ BackendSound(c) /\ c.name = b.name /\ c.open = b.open \ {fd} /\ c.kernel = b.kernel
         /\ WatchView(c) = WatchView(b) /\ AlarmView(c) = AlarmView(b)
<1>1. /\ b \in Backend /\ b.fds \in Seq(FdEntries) /\ ArrayKeyed(b.fds) /\ WatchView(b) = Range(b.fds) /\ b.kernel = {}
      /\ AlarmView(b) = Range(b.timers) /\ b.timers \in GoodHeaps(TimerEntries) /\ b.open \in SUBSET (1 .. PollFdMax)
  BY Arrays
<1>2. c = [[b EXCEPT !.open = b.open \ {fd}] EXCEPT !.kernel = {}]
  BY <1>1 DEF Closed, Backend
<1>3. c \in Backend /\ c.name = b.name /\ c.open = b.open \ {fd} /\ c.kernel = b.kernel /\ c.fds = b.fds /\ c.timers = b.timers
  BY <1>1, <1>2 DEF Backend
<1>4. BackendSound(c) /\ WatchView(c) = Range(b.fds) /\ AlarmView(c) = Range(b.timers)
  BY <1>1, <1>3 DEF BackendSound, WatchView, AlarmView
<1> QED BY <1>1, <1>3, <1>4

(* Arming a timer.                                                          *)
LEMMA ArmArray ==
  ASSUME NEW b, BackendSound(b), b.name = "wsapoll", NEW t \in PollTasks, NEW ms \in Int,
         NEW id \in Nat \ {0}, id = TimerId(b), \A a \in AlarmView(b) : a.id # id,
         NEW c, c = sprout_poll_add_timer(b, ms, t)
  PROVE  /\ BackendSound(c) /\ c.name = b.name /\ c.open = b.open /\ c.kernel = b.kernel
         /\ WatchView(c) = WatchView(b) /\ AlarmView(c) = AlarmView(b) \cup {[id |-> id, left |-> ms, task |-> t]}
<1> DEFINE e == [id |-> id, left |-> ms, task |-> t]
           h == timer_add(b.timers, e)
<1>1. /\ b \in Backend /\ b.fds \in Seq(FdEntries) /\ ArrayKeyed(b.fds) /\ WatchView(b) = Range(b.fds)
      /\ AlarmView(b) = Range(b.timers) /\ b.timers \in GoodHeaps(TimerEntries)
  BY Arrays
<1>2. e \in TimerEntries /\ e \notin Range(b.timers)
  BY <1>1 DEF TimerEntries
<1>3. c = [b EXCEPT !.timers = h]
  BY <1>1 DEF sprout_poll_add_timer, WinAddTimer, Backend
<1> HIDE DEF e
<1>4. h \in GoodHeaps(TimerEntries) /\ Range(h) = Range(b.timers) \cup {e}
  BY <1>1, <1>2, TimerEntriesTimed, GoodAdd
<1> HIDE DEF h
<1>5. h \in Seq(TimerEntries)
  BY <1>4 DEF GoodHeaps
<1>6. c \in Backend /\ c.name = b.name /\ c.open = b.open /\ c.kernel = b.kernel /\ c.fds = b.fds /\ c.timers = h
  BY <1>1, <1>3, <1>5 DEF Backend
<1>7. BackendSound(c) /\ WatchView(c) = Range(b.fds) /\ AlarmView(c) = Range(h)
  BY <1>1, <1>4, <1>6, NewArrays
<1> QED BY <1>1, <1>4, <1>6, <1>7 DEF e

(* Tearing a timer down, whether or not it is there.                        *)
LEMMA RetireArray ==
  ASSUME NEW b, BackendSound(b), b.name = "wsapoll", NEW id,
         \A a, d \in AlarmView(b) : a.id = d.id => a = d,
         NEW c, c = sprout_poll_remove_timer(b, id)
  PROVE  /\ BackendSound(c) /\ c.name = b.name /\ c.open = b.open /\ c.kernel = b.kernel
         /\ WatchView(c) = WatchView(b) /\ AlarmView(c) = {a \in AlarmView(b) : a.id # id}
<1> DEFINE i == TimerAt(b.timers, id)
           h == IF i = 0 THEN b.timers ELSE timer_drop(b.timers, i)
<1>1. /\ b \in Backend /\ b.fds \in Seq(FdEntries) /\ ArrayKeyed(b.fds) /\ WatchView(b) = Range(b.fds)
      /\ AlarmView(b) = Range(b.timers) /\ b.timers \in GoodHeaps(TimerEntries)
  BY Arrays
<1>2. c = [b EXCEPT !.timers = h]
  BY <1>1 DEF sprout_poll_remove_timer, WinRemoveTimer, Backend
<1>3. \/ i = 0 /\ \A x \in Range(b.timers) : x.id # id
      \/ i \in DOMAIN b.timers /\ b.timers[i].id = id
  BY <1>1, FindTimer
<1> HIDE DEF i
<1>4. h \in GoodHeaps(TimerEntries) /\ Range(h) = {a \in Range(b.timers) : a.id # id}
  <2>1. CASE i = 0 /\ \A x \in Range(b.timers) : x.id # id
    BY <1>1, <2>1
  <2>2. CASE i \in DOMAIN b.timers /\ b.timers[i].id = id
    <3>1. i # 0
      BY <1>1, <2>2 DEF GoodHeaps
    <3>2. /\ timer_drop(b.timers, i) \in GoodHeaps(TimerEntries)
          /\ Range(timer_drop(b.timers, i)) = Range(b.timers) \ {b.timers[i]}
      BY <1>1, <2>2, TimerEntriesTimed, GoodDrop
    <3>3. \A a \in Range(b.timers) : a.id = id <=> a = b.timers[i]
      BY <1>1, <2>2 DEF Range
    <3> QED BY <3>1, <3>2, <3>3
  <2> QED BY <1>3, <2>1, <2>2
<1> HIDE DEF h
<1>5. h \in Seq(TimerEntries)
  BY <1>4 DEF GoodHeaps
<1>6. c \in Backend /\ c.name = b.name /\ c.open = b.open /\ c.kernel = b.kernel /\ c.fds = b.fds /\ c.timers = h
  BY <1>1, <1>2, <1>5 DEF Backend
<1>7. BackendSound(c) /\ WatchView(c) = Range(b.fds) /\ AlarmView(c) = Range(h)
  BY <1>1, <1>4, <1>6, NewArrays
<1> QED BY <1>1, <1>4, <1>6, <1>7

(* Each operation on whatever backend.                                      *)
LEMMA Added ==
  ASSUME NEW b, BackendSound(b), NEW fd \in b.open, NEW kind \in Interests, NEW t \in PollTasks,
         \A w \in WatchView(b) : w.fd # fd,
         b.name = "epoll" => \A e \in b.kernel : e.fd = fd => e.kind # "timer",
         NEW c, c = sprout_poll_add(b, fd, kind, t)
  PROVE  /\ BackendSound(c) /\ c.name = b.name /\ c.open = b.open
         /\ WatchView(c) = WatchView(b) \cup {[fd |-> fd, kind |-> kind, task |-> t]}
         /\ AlarmView(c) = AlarmView(b)
         /\ \A e \in c.kernel : e \in b.kernel \/ (e.fd = fd /\ e.kind = kind /\ e.task = t)
         /\ \A e \in b.kernel : e.kind = "timer" => e \in c.kernel
<1>1. CASE b.name = "wsapoll"
  <2>1. /\ BackendSound(c) /\ c.name = b.name /\ c.open = b.open /\ c.kernel = b.kernel
        /\ WatchView(c) = WatchView(b) \cup {[fd |-> fd, kind |-> kind, task |-> t]}
        /\ AlarmView(c) = AlarmView(b)
    BY <1>1, AddArray
  <2> QED BY <2>1
<1>2. CASE b.name # "wsapoll"
  BY <1>2, AddKernel
<1> QED BY <1>1, <1>2

(* Removing a descriptor, on every backend.                                 *)
LEMMA Removed ==
  ASSUME NEW b, BackendSound(b), NEW fd \in b.open, NEW kind \in Interests,
         \A w \in WatchView(b) : w.fd = fd => w.kind = kind,
         b.name = "epoll" => \A e \in b.kernel : e.fd = fd => e.kind # "timer",
         NEW c, c = sprout_poll_remove(b, fd, kind)
  PROVE  /\ BackendSound(c) /\ c.name = b.name /\ c.open = b.open
         /\ WatchView(c) = {w \in WatchView(b) : w.fd # fd} /\ AlarmView(c) = AlarmView(b)
         /\ c.kernel \subseteq b.kernel
         /\ \A e \in b.kernel : e.kind = "timer" => e \in c.kernel
<1>1. CASE b.name = "wsapoll"
  <2>1. /\ BackendSound(c) /\ c.name = b.name /\ c.open = b.open /\ c.kernel = b.kernel
        /\ WatchView(c) = {w \in WatchView(b) : w.fd # fd} /\ AlarmView(c) = AlarmView(b)
    BY <1>1, RemoveArray
  <2> QED BY <2>1
<1>2. CASE b.name # "wsapoll"
  BY <1>2, RemoveKernel
<1> QED BY <1>1, <1>2

(* close(2) on a socket nobody watches any more, on every backend.          *)
LEMMA ClosedOff ==
  ASSUME NEW b, BackendSound(b), NEW fd,
         \A w \in WatchView(b) : w.fd # fd,
         b.name = "epoll" => \A e \in b.kernel : e.fd = fd => e.kind # "timer",
         NEW c, c = Closed(b, fd)
  PROVE  /\ BackendSound(c) /\ c.name = b.name /\ c.open = b.open \ {fd}
         /\ WatchView(c) = WatchView(b) /\ AlarmView(c) = AlarmView(b)
         /\ c.kernel \subseteq b.kernel
         /\ \A e \in b.kernel : e.kind = "timer" => e \in c.kernel
         /\ \A e \in c.kernel : e.kind # "timer" => e.fd # fd
<1>1. CASE b.name = "wsapoll"
  <2>1. /\ BackendSound(c) /\ c.name = b.name /\ c.open = b.open \ {fd} /\ c.kernel = b.kernel
        /\ WatchView(c) = WatchView(b) /\ AlarmView(c) = AlarmView(b)
    BY <1>1, CloseArray
  <2>2. b.kernel = {}
    BY <1>1, Arrays
  <2> QED BY <2>1, <2>2
<1>2. CASE b.name # "wsapoll"
  BY <1>2, CloseKernel
<1> QED BY <1>1, <1>2

(* Tearing a timer down, on every backend.                                  *)
LEMMA Retired ==
  ASSUME NEW b, BackendSound(b), NEW id,
         TimerDescriptor(b, id),
         \A a, d \in AlarmView(b) : a.id = d.id => a = d,
         NEW c, c = sprout_poll_remove_timer(b, id)
  PROVE  /\ BackendSound(c) /\ c.name = b.name /\ c.open = IF b.name = "epoll" THEN b.open \ {id} ELSE b.open
         /\ WatchView(c) = WatchView(b) /\ AlarmView(c) = {a \in AlarmView(b) : a.id # id}
         /\ c.kernel = {e \in b.kernel : e.fd # id \/ e.kind # "timer"}
<1>1. CASE b.name = "wsapoll"
  <2>1. /\ BackendSound(c) /\ c.name = b.name /\ c.open = b.open /\ c.kernel = b.kernel
        /\ WatchView(c) = WatchView(b) /\ AlarmView(c) = {a \in AlarmView(b) : a.id # id}
    BY <1>1, RetireArray
  <2>2. b.kernel = {}
    BY <1>1, Arrays
  <2> QED BY <1>1, <2>1, <2>2
<1>2. CASE b.name # "wsapoll"
  BY <1>2, RetireKernel, SMTT(20)
<1> QED BY <1>1, <1>2

(* Arming a new timer, on every backend.                                    *)
LEMMA NewlyArmed ==
  ASSUME NEW b, BackendSound(b), NEW t \in PollTasks, NEW ms \in Int,
         NEW id \in Nat \ {0}, id = TimerId(b),
         b.name = "epoll" => id \in 1 .. PollFdMax /\ \A e \in b.kernel : e.fd # id,
         \A e \in b.kernel : e.kind = "timer" => e.fd # id,
         \A a \in AlarmView(b) : a.id # id,
         NEW c, c = sprout_poll_add_timer(b, ms, t)
  PROVE  /\ BackendSound(c) /\ c.name = b.name /\ c.open = IF b.name = "epoll" THEN b.open \cup {id} ELSE b.open
         /\ WatchView(c) = WatchView(b) /\ AlarmView(c) = AlarmView(b) \cup {[id |-> id, left |-> ms, task |-> t]}
         /\ b.name # "wsapoll" =>
              c.kernel = b.kernel \cup {[fd |-> id, kind |-> "timer", task |-> t, armed |-> TRUE, left |-> ms]}
<1>1. CASE b.name = "wsapoll"
  <2>1. /\ BackendSound(c) /\ c.name = b.name /\ c.open = b.open /\ c.kernel = b.kernel
        /\ WatchView(c) = WatchView(b) /\ AlarmView(c) = AlarmView(b) \cup {[id |-> id, left |-> ms, task |-> t]}
    BY <1>1, ArmArray
  <2> QED BY <1>1, <2>1
<1>2. CASE b.name # "wsapoll"
  BY <1>2, ArmKernel, SMTT(20)
<1> QED BY <1>1, <1>2

-----------------------------------------------------------------------------

(* Types of the views.                                                      *)
LEMMA ViewTypes ==
  ASSUME NEW b, BackendSound(b)
  PROVE  /\ WatchView(b) \subseteq [fd : Nat \ {0}, kind : Interests, task : PollTasks]
         /\ AlarmView(b) \subseteq TimerEntries
<1>1. CASE b.name = "wsapoll"
  <2>1. /\ b.fds \in Seq(FdEntries) /\ b.timers \in Seq(TimerEntries)
        /\ WatchView(b) = Range(b.fds) /\ AlarmView(b) = Range(b.timers)
    BY <1>1, Arrays
  <2>2. Range(b.fds) \subseteq FdEntries /\ Range(b.timers) \subseteq TimerEntries
    BY <2>1 DEF Range
  <2>3. FdEntries \subseteq [fd : Nat \ {0}, kind : Interests, task : PollTasks]
    BY PollAssumption DEF FdEntries
  <2> QED BY <2>1, <2>2, <2>3
<1>2. CASE b.name # "wsapoll"
  <2>1. \A e \in b.kernel : e \in KernelEntries
    BY DEF BackendSound, Backend
  <2>2. \A e \in KernelEntries : e.kind # "timer" => [fd |-> e.fd, kind |-> e.kind, task |-> e.task] \in [fd : Nat \ {0}, kind : Interests, task : PollTasks]
    BY DEF KernelEntries
  <2>3. \A e \in KernelEntries : [id |-> e.fd, left |-> e.left, task |-> e.task] \in TimerEntries
    BY DEF KernelEntries, TimerEntries
  <2>4. ASSUME NEW w \in WatchView(b) PROVE w \in [fd : Nat \ {0}, kind : Interests, task : PollTasks]
    BY <1>2, <2>1, <2>2, KernelViews
  <2>5. ASSUME NEW a \in AlarmView(b) PROVE a \in TimerEntries
    BY <1>2, <2>1, <2>3, KernelViews
  <2> QED BY <2>4, <2>5
<1> QED BY <1>1, <1>2

Nothing == [fd |-> 0, kind |-> "none"]

(* What a task waits for, read off the views.                               *)
LEMMA WatchMapIs ==
  ASSUME NEW T, NEW b, NEW told, BackendSound(b), WatchesFit(T, b, told)
  PROVE  WatchMap(b) = [t \in PollTasks |-> IF \E w \in WatchView(b) : w.task = t
                                            THEN [fd |-> T[t].fd, kind |-> T[t].interest] ELSE Nothing]
<1>1. ASSUME NEW e \in Watches(b) PROVE e.fd = T[e.task].fd /\ e.kind = T[e.task].interest /\ \E w \in WatchView(b) : w.task = e.task
  <2>1. CASE b.name = "wsapoll"
    <3>1. e \in WatchView(b)
      BY <1>1, <2>1 DEF Watches, WatchView
    <3> QED BY <3>1 DEF WatchesFit
  <2>2. CASE b.name # "wsapoll"
    <3> DEFINE w == [fd |-> e.fd, kind |-> e.kind, task |-> e.task]
    <3>1. w \in WatchView(b) /\ w.fd = e.fd /\ w.kind = e.kind /\ w.task = e.task
      BY <1>1, <2>2, KernelViews DEF Watches
    <3> HIDE DEF w
    <3> QED BY <3>1 DEF WatchesFit
  <2> QED BY <2>1, <2>2
<1>2. ASSUME NEW w \in WatchView(b) PROVE \E e \in Watches(b) : e.task = w.task
  <2>1. CASE b.name = "wsapoll"
    BY <2>1 DEF Watches, WatchView
  <2>2. CASE b.name # "wsapoll"
    BY <2>2, KernelViews DEF Watches
  <2> QED BY <2>1, <2>2
<1>3. ASSUME NEW t \in PollTasks
      PROVE  WatchMap(b)[t] = IF \E w \in WatchView(b) : w.task = t THEN [fd |-> T[t].fd, kind |-> T[t].interest] ELSE Nothing
  <2> DEFINE mine == {e \in Watches(b) : e.task = t}
             e0 == CHOOSE e \in mine : TRUE
  <2>1. WatchMap(b)[t] = IF mine = {} THEN Nothing ELSE [fd |-> e0.fd, kind |-> e0.kind]
    BY DEF WatchMap, Nothing
  <2>2. mine # {} => e0 \in mine
    <3> HIDE DEF mine
    <3> QED OBVIOUS
  <2>3. mine # {} => e0.fd = T[t].fd /\ e0.kind = T[t].interest
    <3> HIDE DEF e0
    <3> QED BY <1>1, <2>2
  <2>4. mine = {} <=> ~\E w \in WatchView(b) : w.task = t
    BY <1>1, <1>2
  <2> HIDE DEF e0, mine
  <2> QED BY <2>1, <2>3, <2>4
<1>4. DOMAIN WatchMap(b) = PollTasks /\ WatchMap(b) = [t \in PollTasks |-> WatchMap(b)[t]]
  BY DEF WatchMap
<1> QED BY <1>3, <1>4

(* What the contract sees of the timers.                                    *)
LEMMA AlarmMapIs ==
  ASSUME NEW T, NEW b, NEW told, BackendSound(b), AlarmsFit(T, b, told)
  PROVE  /\ AlarmMap(b) = [t \in PollTasks |-> AlarmMap(b)[t]]
         /\ \A t \in PollTasks : (~\E a \in AlarmView(b) : a.task = t) => AlarmMap(b)[t] = <<>>
         /\ \A a \in AlarmView(b) : AlarmMap(b)[a.task] = <<a.left>>
<1>1. ASSUME NEW e \in Alarms(b) PROVE \E a \in AlarmView(b) : a.task = e.task /\ a.left = e.left
  <2>1. CASE b.name = "wsapoll"
    BY <2>1 DEF Alarms, AlarmView
  <2>2. CASE b.name # "wsapoll"
    <3> DEFINE a == [id |-> e.fd, left |-> e.left, task |-> e.task]
    <3>1. a \in AlarmView(b) /\ a.left = e.left /\ a.task = e.task
      BY <1>1, <2>2, KernelViews DEF Alarms
    <3> HIDE DEF a
    <3> QED BY <3>1
  <2> QED BY <2>1, <2>2
<1>2. ASSUME NEW a \in AlarmView(b) PROVE \E e \in Alarms(b) : e.task = a.task
  <2>1. CASE b.name = "wsapoll"
    BY <2>1 DEF Alarms, AlarmView
  <2>2. CASE b.name # "wsapoll"
    BY <2>2, KernelViews DEF Alarms
  <2> QED BY <2>1, <2>2
<1>3. \A a, c \in AlarmView(b) : a.task = c.task => a = c
  BY DEF AlarmsFit
<1>4. ASSUME NEW t \in PollTasks
      PROVE  /\ (~\E a \in AlarmView(b) : a.task = t) => AlarmMap(b)[t] = <<>>
             /\ \A a \in AlarmView(b) : a.task = t => AlarmMap(b)[t] = <<a.left>>
  <2> DEFINE mine == {e \in Alarms(b) : e.task = t}
             e0 == CHOOSE e \in mine : TRUE
  <2>1. AlarmMap(b)[t] = IF mine = {} THEN <<>> ELSE <<e0.left>>
    BY DEF AlarmMap
  <2>2. mine # {} => e0 \in mine
    <3> HIDE DEF mine
    <3> QED OBVIOUS
  <2>3. mine = {} <=> ~\E a \in AlarmView(b) : a.task = t
    BY <1>1, <1>2
  <2>4. ASSUME NEW a \in AlarmView(b), a.task = t PROVE e0.left = a.left
    <3>1. e0 \in Alarms(b) /\ e0.task = t
      BY <2>2, <2>3, <2>4
    <3> HIDE DEF e0, mine
    <3> QED BY <1>1, <1>3, <2>4, <3>1
  <2> HIDE DEF e0, mine
  <2> QED BY <2>1, <2>3, <2>4
<1>5. AlarmMap(b) = [t \in PollTasks |-> AlarmMap(b)[t]]
  BY DEF AlarmMap
<1>6. \A a \in AlarmView(b) : a.task \in PollTasks
  BY ViewTypes DEF TimerEntries
<1> QED BY <1>4, <1>5, <1>6

-----------------------------------------------------------------------------
(* The steps of the scheduler *)

\* The waits of all tasks but t are the same.
Elsewhere(b, c, t) ==
  /\ \A w : w.task # t => (w \in WatchView(b) <=> w \in WatchView(c))
  /\ \A a : a.task # t => (a \in AlarmView(b) <=> a \in AlarmView(c))
OthersKept(T, T1, t) == \A u \in PollTasks : u # t => T1[u] = T[u]

(* A step of one task leaves the waits of the others in agreement.          *)
LEMMA OneTaskFits ==
  ASSUME NEW T, NEW T1, NEW b, NEW c, NEW t \in PollTasks, BackendSound(c),
         WatchesFit(T, b, {}), AlarmsFit(T, b, {}), OthersKept(T, T1, t), Elsewhere(b, c, t),
         \A w \in WatchView(c) : w.task = t => /\ w.fd = T1[t].fd /\ w.kind = T1[t].interest
                                               /\ T1[t].park \in {"fd", "both"} /\ T1[t].st # "woken",
         \A a \in AlarmView(c) : a.task = t => a.id = T1[t].tid,
         \A a, d \in AlarmView(c) : a.id = d.id => a = d
  PROVE  WatchesFit(T1, c, {}) /\ AlarmsFit(T1, c, {})
<1>0. /\ \A w \in WatchView(c) : w.task \in PollTasks
      /\ \A a \in AlarmView(c) : a.task \in PollTasks
  BY ViewTypes DEF TimerEntries
<1>1. ASSUME NEW w \in WatchView(c)
      PROVE  /\ w.fd = T1[w.task].fd /\ w.kind = T1[w.task].interest
             /\ T1[w.task].park \in {"fd", "both"} /\ (T1[w.task].st = "woken" => T1[w.task].park = "both")
  <2>1. CASE w.task = t
    BY <2>1
  <2>2. CASE w.task # t
    BY <1>0, <2>2 DEF WatchesFit, Elsewhere, OthersKept
  <2> QED BY <2>1, <2>2
<1>2. ASSUME NEW a \in AlarmView(c) PROVE a.id = T1[a.task].tid
  <2>1. CASE a.task = t
    BY <2>1
  <2>2. CASE a.task # t
    BY <1>0, <2>2 DEF AlarmsFit, Elsewhere, OthersKept
  <2> QED BY <2>1, <2>2
<1>3. WatchesFit(T1, c, {})
  BY <1>1 DEF WatchesFit
<1>4. AlarmsFit(T1, c, {})
  BY <1>2 DEF AlarmsFit
<1> QED BY <1>3, <1>4

(* A step of one task is seen at that task only.                            *)
LEMMA OneTaskMaps ==
  ASSUME NEW T, NEW T1, NEW b, NEW c, NEW t \in PollTasks, BackendSound(b), BackendSound(c),
         WatchesFit(T, b, {}), AlarmsFit(T, b, {}), WatchesFit(T1, c, {}), AlarmsFit(T1, c, {}),
         OthersKept(T, T1, t), Elsewhere(b, c, t)
  PROVE  /\ WatchMap(c) = [WatchMap(b) EXCEPT ![t] = WatchMap(c)[t]]
         /\ AlarmMap(c) = [AlarmMap(b) EXCEPT ![t] = AlarmMap(c)[t]]
<1>1. \A u \in PollTasks : u # t => ((\E w \in WatchView(b) : w.task = u) <=> (\E w \in WatchView(c) : w.task = u))
  BY DEF Elsewhere
<1>2. ASSUME NEW u \in PollTasks, u # t PROVE WatchMap(c)[u] = WatchMap(b)[u]
  BY <1>1, <1>2, WatchMapIs DEF OthersKept
<1>3. ASSUME NEW u \in PollTasks, u # t PROVE AlarmMap(c)[u] = AlarmMap(b)[u]
  <2>1. CASE \E a \in AlarmView(b) : a.task = u
    <3>1. PICK a \in AlarmView(b) : a.task = u
      BY <2>1
    <3>2. a \in AlarmView(c)
      BY <1>3, <3>1 DEF Elsewhere
    <3> QED BY <3>1, <3>2, AlarmMapIs
  <2>2. CASE ~\E a \in AlarmView(b) : a.task = u
    <3>1. ~\E a \in AlarmView(c) : a.task = u
      BY <1>3, <2>2 DEF Elsewhere
    <3> QED BY <2>2, <3>1, AlarmMapIs
  <2> QED BY <2>1, <2>2
<1>4. /\ DOMAIN WatchMap(b) = PollTasks /\ DOMAIN AlarmMap(b) = PollTasks
      /\ WatchMap(c) = [u \in PollTasks |-> WatchMap(c)[u]] /\ AlarmMap(c) = [u \in PollTasks |-> AlarmMap(c)[u]]
  BY DEF WatchMap, AlarmMap
<1>5. WatchMap(c) = [WatchMap(b) EXCEPT ![t] = WatchMap(c)[t]]
  BY <1>2, <1>4
<1>6. AlarmMap(c) = [AlarmMap(b) EXCEPT ![t] = AlarmMap(c)[t]]
  BY <1>3, <1>4
<1> QED BY <1>5, <1>6

PollStep == [Contract!Next]_<<WatchMap(pollB), AlarmMap(pollB), pollTold>>

\* A step of t that leaves t without waits, seen from the invariant.
LEMMA WithdrawStep ==
  ASSUME NEW t \in PollTasks, PollInv, pollTold = {}, pollTold' = {}, BackendSound(pollB'),
         WatchesFit(pollTask', pollB', {}), AlarmsFit(pollTask', pollB', {}),
         OthersKept(pollTask, pollTask', t), Elsewhere(pollB, pollB', t),
         \A w \in WatchView(pollB') : w.task # t, \A a \in AlarmView(pollB') : a.task # t
  PROVE  PollStep
<1> DEFINE T == pollTask
           b == pollB
           T1 == pollTask'
           c == pollB'
<1>1. BackendSound(b) /\ WatchesFit(T, b, {}) /\ AlarmsFit(T, b, {})
  BY DEF PollInv, PollSound
<1>2. /\ WatchMap(c) = [WatchMap(b) EXCEPT ![t] = WatchMap(c)[t]]
      /\ AlarmMap(c) = [AlarmMap(b) EXCEPT ![t] = AlarmMap(c)[t]]
  <2>1. BackendSound(c) /\ WatchesFit(T1, c, {}) /\ AlarmsFit(T1, c, {}) /\ OthersKept(T, T1, t) /\ Elsewhere(b, c, t)
    OBVIOUS
  <2> HIDE DEF T, b, T1, c
  <2> QED BY <1>1, <2>1, OneTaskMaps
<1>3. WatchMap(c)[t] = Nothing
  <2> HIDE DEF T1
  <2>1. WatchesFit(T1, c, {})
    BY DEF T1
  <2> QED BY <2>1, WatchMapIs
<1>4. AlarmMap(c)[t] = <<>>
  <2> HIDE DEF T1
  <2>1. AlarmsFit(T1, c, {})
    BY DEF T1
  <2> QED BY <2>1, AlarmMapIs
<1>5. Contract!Withdraw(t)
  <2>1. /\ WatchMap(pollB)' = WatchMap(pollB')
        /\ AlarmMap(pollB)' = AlarmMap(pollB')
    OBVIOUS
  <2> QED BY <1>2, <1>3, <1>4 DEF Contract!Withdraw, Contract!NoWatch, Contract!NoAlarm, Nothing
<1> QED BY <1>5 DEF PollStep, Contract!Next

\* A step of t that gives t waits.
LEMMA RegisterStep ==
  ASSUME NEW t \in PollTasks, PollInv, pollTold = {}, pollTold' = {}, BackendSound(pollB'),
         WatchesFit(pollTask', pollB', {}), AlarmsFit(pollTask', pollB', {}),
         OthersKept(pollTask, pollTask', t), Elsewhere(pollB, pollB', t),
         \A w \in WatchView(pollB) : w.task # t, \A a \in AlarmView(pollB) : a.task # t,
         \A w \in WatchView(pollB') : w.task = t => w.fd \in 1 .. PollFdMax /\ w.kind \in Interests,
         \A a \in AlarmView(pollB') : a.task = t => a.left \in PollDelays,
         (\E w \in WatchView(pollB') : w.task = t) \/ (\E a \in AlarmView(pollB') : a.task = t)
  PROVE  PollStep
<1> DEFINE T == pollTask
           b == pollB
           T1 == pollTask'
           c == pollB'
<1>1. BackendSound(b) /\ WatchesFit(T, b, {}) /\ AlarmsFit(T, b, {})
  BY DEF PollInv, PollSound
<1>2. /\ WatchMap(c) = [WatchMap(b) EXCEPT ![t] = WatchMap(c)[t]]
      /\ AlarmMap(c) = [AlarmMap(b) EXCEPT ![t] = AlarmMap(c)[t]]
  <2>1. BackendSound(c) /\ WatchesFit(T1, c, {}) /\ AlarmsFit(T1, c, {}) /\ OthersKept(T, T1, t) /\ Elsewhere(b, c, t)
    OBVIOUS
  <2> HIDE DEF T, b, T1, c
  <2> QED BY <1>1, <2>1, OneTaskMaps
<1>3. WatchMap(b)[t] = Nothing /\ AlarmMap(b)[t] = <<>>
  <2> HIDE DEF T, b
  <2>1. (\A w \in WatchView(b) : w.task # t) /\ (\A a \in AlarmView(b) : a.task # t)
    BY DEF b
  <2>2. WatchMap(b)[t] = Nothing
    BY <1>1, <2>1, WatchMapIs
  <2>3. AlarmMap(b)[t] = <<>>
    BY <1>1, <2>1, AlarmMapIs
  <2> QED BY <2>2, <2>3
<1>4. /\ ~(\E w \in WatchView(c) : w.task = t) => WatchMap(c)[t] = Nothing
      /\ \A w \in WatchView(c) : w.task = t => WatchMap(c)[t] = [fd |-> w.fd, kind |-> w.kind]
  <2> HIDE DEF T1
  <2>1. WatchesFit(T1, c, {})
    BY DEF T1
  <2>2. WatchMap(c)[t] = IF \E w \in WatchView(c) : w.task = t
                         THEN [fd |-> T1[t].fd, kind |-> T1[t].interest] ELSE Nothing
    BY <2>1, WatchMapIs
  <2>3. \A w \in WatchView(c) : w.task = t => w.fd = T1[t].fd /\ w.kind = T1[t].interest
    BY <2>1 DEF WatchesFit
  <2> QED BY <2>2, <2>3
<1>5. /\ ~(\E a \in AlarmView(c) : a.task = t) => AlarmMap(c)[t] = <<>>
      /\ \A a \in AlarmView(c) : a.task = t => AlarmMap(c)[t] = <<a.left>>
  <2> HIDE DEF T1
  <2>1. AlarmsFit(T1, c, {})
    BY DEF T1
  <2> QED BY <2>1, AlarmMapIs
<1>6. /\ (\E w \in WatchView(c) : w.task = t) => WatchMap(c)[t] \in [fd : 1 .. PollFdMax, kind : Interests]
      /\ WatchMap(c)[t] \in {Nothing} \cup [fd : 1 .. PollFdMax, kind : Interests]
  <2>1. ASSUME NEW w \in WatchView(c), w.task = t PROVE WatchMap(c)[t] \in [fd : 1 .. PollFdMax, kind : Interests]
    <3>1. w.fd \in 1 .. PollFdMax /\ w.kind \in Interests
      BY <2>1
    <3>2. WatchMap(c)[t] = [fd |-> w.fd, kind |-> w.kind]
      BY <1>4, <2>1
    <3> QED BY <3>1, <3>2
  <2> QED BY <1>4, <2>1
<1>7. AlarmMap(c)[t] \in {<<>>} \cup {<<d>> : d \in PollDelays}
  BY <1>5
<1>8. WatchMap(c) # WatchMap(b) \/ AlarmMap(c) # AlarmMap(b)
  <2>1. CASE \E w \in WatchView(c) : w.task = t
    <3>1. WatchMap(c)[t] \in [fd : 1 .. PollFdMax, kind : Interests]
      BY <1>6, <2>1
    <3>2. WatchMap(c)[t].fd \in 1 .. PollFdMax /\ Nothing.fd = 0
      BY <3>1 DEF Nothing
    <3> QED BY <1>3, <3>2, PollAssumption
  <2>2. CASE \E a \in AlarmView(c) : a.task = t
    BY <1>3, <1>5, <2>2
  <2> QED BY <2>1, <2>2
<1>9. Contract!Register(t)
  <2> HIDE DEF T, T1
  <2> QED BY <1>2, <1>3, <1>6, <1>7, <1>8 DEF Contract!Register, Contract!NoWatch, Contract!NoAlarm, Nothing
<1> QED BY <1>9 DEF PollStep, Contract!Next

(* A descriptor table that is not full has a lowest free descriptor.        *)
LEMMA LowestFreeIs ==
  ASSUME NEW O \in SUBSET (1 .. PollFdMax), O # 1 .. PollFdMax
  PROVE  LowestFree(O) \in 1 .. PollFdMax /\ LowestFree(O) \notin O
<1>1. \E n \in 1 .. PollFdMax : n \notin O /\ \A k \in 1 .. n - 1 : k \in O
  <2> SUFFICES ASSUME \A n \in 1 .. PollFdMax : (\A k \in 1 .. n - 1 : k \in O) => n \in O PROVE FALSE
    OBVIOUS
  <2> DEFINE S == {n \in Nat : \A k \in 1 .. n : k <= PollFdMax => k \in O}
  <2>1. 0 \in S
    OBVIOUS
  <2>2. ASSUME NEW n \in Nat, n \in S PROVE n + 1 \in S
    <3>1. CASE n + 1 <= PollFdMax
      <4>1. n + 1 \in 1 .. PollFdMax /\ \A k \in 1 .. (n + 1) - 1 : k \in O
        BY <2>2, <3>1, PollAssumption
      <4>2. n + 1 \in O
        BY <4>1
      <4> QED BY <2>2, <4>2
    <3>2. CASE ~(n + 1 <= PollFdMax)
      BY <2>2, <3>2, PollAssumption
    <3> QED BY <3>1, <3>2
  <2>3. PollFdMax \in S
    <3> HIDE DEF S
    <3> QED BY <2>1, <2>2, Induct, PollAssumption
  <2>4. \A k \in 1 .. PollFdMax : k \in O
    BY <2>3, PollAssumption
  <2>5. O = 1 .. PollFdMax
    BY ONLY <2>4, O \in SUBSET (1 .. PollFdMax)
  <2> QED BY <2>5
<1> QED BY <1>1 DEF LowestFree

(* There is always a timer number no task knows.                            *)
LEMMA FreshNumber ==
  ASSUME NEW T \in [PollTasks -> TaskStates]
  PROVE  \E n \in 1 .. Cardinality(PollTasks) + 1 : \A t \in PollTasks : T[t].tid # n
<1> DEFINE ids == {T[t].tid : t \in PollTasks}
           f == [t \in PollTasks |-> T[t].tid]
           m == Cardinality(PollTasks)
<1>1. f \in Surjection(PollTasks, ids)
  BY DEF Surjection
<1>2. IsFiniteSet(PollTasks) /\ m \in Nat
  BY PollAssumption, FS_CardinalityType
<1>3. IsFiniteSet(ids) /\ Cardinality(ids) <= m
  <2> HIDE DEF f, ids
  <2> QED BY <1>1, <1>2, FS_Surjection
<1>4. \E n \in 1 .. m + 1 : n \notin ids
  <2> HIDE DEF ids, m
  <2> SUFFICES ASSUME 1 .. m + 1 \subseteq ids PROVE FALSE
    OBVIOUS
  <2>1. Cardinality(1 .. m + 1) = m + 1
    BY <1>2, FS_Interval
  <2>2. Cardinality(1 .. m + 1) <= Cardinality(ids) /\ Cardinality(ids) \in Nat
    BY <1>3, FS_Subset, FS_CardinalityType
  <2> QED BY <1>2, <1>3, <2>1, <2>2
<1> QED BY <1>4

(* A socket's descriptor is no timer's.                                     *)
LEMMA SocketDescriptor ==
  ASSUME NEW T, NEW b, NEW told, PollSound(T, b, told), NEW t \in PollTasks, T[t].fd # 0
  PROVE  b.name = "epoll" => \A e \in b.kernel : e.fd = T[t].fd => e.kind # "timer"
<1> SUFFICES ASSUME b.name = "epoll", NEW e \in b.kernel, e.fd = T[t].fd, e.kind = "timer" PROVE FALSE
  OBVIOUS
<1>1. e.task \in PollTasks /\ e.fd # 0
  BY DEF PollSound, BackendSound, Backend, KernelEntries
<1>2. e.fd = T[e.task].tid
  BY DEF PollSound, EpollFits
<1>3. T[t].fd # T[e.task].tid
  BY <1>1, <1>2 DEF PollSound, EpollFits
<1> QED BY <1>2, <1>3

(* A timer's descriptor is no socket's, and registered.                     *)
LEMMA TimersDescriptor ==
  ASSUME NEW T, NEW b, NEW told, PollSound(T, b, told), NEW t \in PollTasks, T[t].tid # 0
  PROVE  TimerDescriptor(b, T[t].tid)
<1> SUFFICES ASSUME b.name = "epoll"
             PROVE  /\ \A e \in b.kernel : e.fd = T[t].tid => e.kind = "timer"
                    /\ \E e \in b.kernel : e.fd = T[t].tid
  BY DEF TimerDescriptor
<1>1. \A e \in b.kernel : e.task \in PollTasks
  BY DEF PollSound, BackendSound, Backend, KernelEntries
<1> QED BY <1>1 DEF PollSound, EpollFits

(* The watch on a task's socket is the task's.                              *)
LEMMA SoleWatch ==
  ASSUME NEW T, NEW b, NEW told, PollSound(T, b, told), NEW t \in PollTasks, NEW w \in WatchView(b)
  PROVE  /\ T[t].fd # 0 => (w.fd = T[t].fd <=> w.task = t)
         /\ w.task = t => w.fd = T[t].fd /\ w.kind = T[t].interest /\ T[t].park \in {"fd", "both"}
<1>1. w.task \in PollTasks
  BY ViewTypes DEF PollSound
<1>2. w.fd = T[w.task].fd /\ w.kind = T[w.task].interest /\ T[w.task].park \in {"fd", "both"}
  BY DEF PollSound, WatchesFit
<1>3. T[t].fd # 0 /\ T[w.task].fd = T[t].fd => w.task = t
  BY <1>1 DEF PollSound, TasksSound
<1> QED BY <1>1, <1>2, <1>3

(* The timer a task knows is the task's.                                    *)
LEMMA SoleAlarm ==
  ASSUME NEW T, NEW b, NEW told, PollSound(T, b, told), NEW t \in PollTasks, NEW a \in AlarmView(b)
  PROVE  /\ T[t].tid # 0 => (a.id = T[t].tid <=> a.task = t)
         /\ T[t].tid = 0 => a.task # t
<1>1. a.task \in PollTasks /\ a.id # 0
  BY ViewTypes DEF PollSound, TimerEntries
<1> QED BY <1>1 DEF PollSound, AlarmsFit, TasksSound

(* Tearing down the timer of a park.                                        *)
LEMMA RetireTask ==
  ASSUME NEW b, BackendSound(b), NEW t \in PollTasks, NEW c, c = RetireTimer(b, t),
         NEW id, id = pollTask[t].tid, id # 0 => TimerDescriptor(b, id),
         \A a, d \in AlarmView(b) : a.id = d.id => a = d,
         \A a \in AlarmView(b) : (id # 0 => (a.id = id <=> a.task = t)) /\ (id = 0 => a.task # t)
  PROVE  /\ BackendSound(c) /\ c.name = b.name
         /\ c.open = IF b.name = "epoll" /\ id # 0 THEN b.open \ {id} ELSE b.open
         /\ WatchView(c) = WatchView(b) /\ AlarmView(c) = {a \in AlarmView(b) : a.task # t}
         /\ c.kernel \subseteq b.kernel
         /\ \A e \in b.kernel : e \in c.kernel <=> (id # 0 => e.fd # id \/ e.kind # "timer")
<1>1. CASE id = 0
  <2>1. c = b
    BY <1>1 DEF RetireTimer
  <2>2. AlarmView(b) = {a \in AlarmView(b) : a.task # t}
    BY <1>1
  <2> QED BY <1>1, <2>1, <2>2
<1>2. CASE id # 0
  <2>1. c = sprout_poll_remove_timer(b, id)
    BY <1>2 DEF RetireTimer
  <2>2. /\ BackendSound(c) /\ c.name = b.name /\ c.open = IF b.name = "epoll" THEN b.open \ {id} ELSE b.open
        /\ WatchView(c) = WatchView(b) /\ AlarmView(c) = {a \in AlarmView(b) : a.id # id}
        /\ c.kernel = {e \in b.kernel : e.fd # id \/ e.kind # "timer"}
    BY <1>2, <2>1, Retired
  <2>3. {a \in AlarmView(b) : a.id # id} = {a \in AlarmView(b) : a.task # t}
    BY <1>2
  <2> QED BY <1>2, <2>2, <2>3
<1> QED BY <1>1, <1>2

FreedTask(f) == [FreeTask EXCEPT !.fd = f]

(* A task that ends its park, or its socket, without waits.                 *)
LEMMA Freed ==
  ASSUME PollInv, pollTold = {}, pollTold' = {}, NEW t \in PollTasks, NEW f, f \in {0, pollTask[t].fd},
         pollTask' = [pollTask EXCEPT ![t] = FreedTask(f)],
         NEW c, c = pollB', BackendSound(c), c.name = pollB.name,
         WatchView(c) = {w \in WatchView(pollB) : w.task # t},
         AlarmView(c) = {a \in AlarmView(pollB) : a.task # t},
         \A x \in pollB.open : \/ x \in c.open \/ (f = 0 /\ x = pollTask[t].fd)
                               \/ (pollB.name = "epoll" /\ x = pollTask[t].tid),
         c.kernel \subseteq pollB.kernel,
         pollB.name = "epoll" => \A e \in c.kernel : e.task = t => e.kind # "timer" /\ e.fd = f,
         pollB.name = "epoll" => \A e \in pollB.kernel : e.kind = "timer" /\ e.task # t => e \in c.kernel
  PROVE  PollInv' /\ PollStep
<1> DEFINE T == pollTask
           b == pollB
           T1 == pollTask'
<1>0. PollSound(T, b, {})
  BY DEF PollInv
<1>1. /\ BackendSound(b) /\ TasksSound(T, b.open) /\ EpollFits(T, b)
      /\ WatchesFit(T, b, {}) /\ AlarmsFit(T, b, {})
  BY <1>0 DEF PollSound
<1>2. T \in [PollTasks -> TaskStates] /\ b.open \subseteq 1 .. PollFdMax
  BY <1>1 DEF TasksSound, BackendSound, Backend
<1>3. FreedTask(f) \in TaskStates /\ FreedTask(f) = [st |-> "free", park |-> "none", fd |-> f, interest |-> "read", tid |-> 0]
  BY <1>2, PollAssumption DEF FreedTask, FreeTask, TaskStates, Interests
<1>4. /\ T1 \in [PollTasks -> TaskStates] /\ T1[t] = FreedTask(f)
      /\ OthersKept(T, T1, t)
  BY <1>2, <1>3 DEF OthersKept
<1>5. T1[t].st = "free" /\ T1[t].park = "none" /\ T1[t].fd = f /\ T1[t].tid = 0 /\ T1[t].interest = "read"
  BY <1>3, <1>4
<1> HIDE DEF T, T1, b
<1>6. \A u \in PollTasks : u # t => T1[u] = T[u]
  BY <1>4 DEF OthersKept
<1>7. /\ \A x \in b.open : x \in c.open \/ (f = 0 /\ x = T[t].fd) \/ (b.name = "epoll" /\ x = T[t].tid)
      /\ f \in {0, T[t].fd} /\ c.name = b.name /\ c.kernel \subseteq b.kernel
      /\ b.name = "epoll" => \A e \in b.kernel : e.kind = "timer" /\ e.task # t => e \in c.kernel
      /\ b.name = "epoll" => \A e \in c.kernel : e.task = t => e.kind # "timer" /\ e.fd = f
      /\ WatchView(c) = {w \in WatchView(b) : w.task # t} /\ AlarmView(c) = {a \in AlarmView(b) : a.task # t}
  BY DEF T, b
<1>8. Elsewhere(b, c, t)
  BY <1>7 DEF Elsewhere
<1>9. WatchesFit(T1, c, {}) /\ AlarmsFit(T1, c, {})
  <2>1. \A a, d \in AlarmView(c) : a.id = d.id => a = d
    BY <1>1, <1>7 DEF AlarmsFit
  <2>2. (\A w \in WatchView(c) : w.task # t) /\ (\A a \in AlarmView(c) : a.task # t)
    BY <1>7
  <2> QED BY <1>1, <1>4, <1>8, <2>1, <2>2, OneTaskFits
<1>10. TasksSound(T1, c.open)
  <2>1. ASSUME NEW u \in PollTasks, T1[u].fd # 0 PROVE T1[u].fd \in c.open
    <3>1. CASE u = t
      <4>1. f # 0 /\ f = T[t].fd /\ T[t].fd \in b.open
        BY <1>1, <1>5, <1>7, <2>1, <3>1 DEF TasksSound
      <4>2. b.name = "epoll" => f # T[t].tid
        BY <1>1, <4>1 DEF EpollFits
      <4> QED BY <1>5, <1>7, <3>1, <4>1, <4>2
    <3>2. CASE u # t
      <4>1. T1[u] = T[u] /\ T[u].fd \in b.open /\ T[u].fd # 0
        BY <1>1, <1>6, <2>1, <3>2 DEF TasksSound
      <4>2. T[u].fd # T[t].fd
        BY <1>1, <3>2, <4>1 DEF TasksSound
      <4>3. b.name = "epoll" => T[u].fd # T[t].tid
        BY <1>1, <4>1 DEF EpollFits
      <4> QED BY <1>7, <4>1, <4>2, <4>3
    <3> QED BY <3>1, <3>2
  <2>2. \A u \in PollTasks :
          /\ T1[u].st = "free" <=> T1[u].park = "none"
          /\ T1[u].st = "free" => T1[u].interest = "read"
          /\ T1[u].park \in {"none", "fd"} => T1[u].tid = 0
          /\ T1[u].park = "timer" => T1[u].fd = 0
          /\ T1[u].park \in {"fd", "both"} => T1[u].fd # 0
    BY <1>1, <1>5, <1>6 DEF TasksSound
  <2>3. \A u, v \in PollTasks : T1[u].fd = T1[v].fd /\ T1[u].fd # 0 => u = v
    BY <1>1, <1>5, <1>6, <1>7 DEF TasksSound
  <2>4. \A u, v \in PollTasks : T1[u].tid = T1[v].tid /\ T1[u].tid # 0 => u = v
    BY <1>1, <1>5, <1>6 DEF TasksSound
  <2> QED BY <1>4, <2>1, <2>2, <2>3, <2>4 DEF TasksSound
<1>11. EpollFits(T1, c)
  <2> SUFFICES ASSUME b.name = "epoll"
               PROVE  /\ \A e \in c.kernel : e.fd = IF e.kind = "timer" THEN T1[e.task].tid ELSE T1[e.task].fd
                      /\ \A u \in PollTasks : T1[u].tid # 0 =>
                           /\ T1[u].tid \in c.open /\ \A v \in PollTasks : T1[v].fd # T1[u].tid
                           /\ \E e \in c.kernel : e.kind = "timer" /\ e.fd = T1[u].tid
    BY <1>7 DEF EpollFits
  <2>0. \A e \in b.kernel : e.task \in PollTasks
    BY <1>1 DEF BackendSound, Backend, KernelEntries
  <2>1. ASSUME NEW e \in c.kernel PROVE e.fd = IF e.kind = "timer" THEN T1[e.task].tid ELSE T1[e.task].fd
    <3>1. CASE e.task = t
      BY <1>5, <1>7, <3>1
    <3>2. CASE e.task # t
      BY <1>1, <1>6, <1>7, <2>0, <3>2 DEF EpollFits
    <3> QED BY <3>1, <3>2
  <2>2. ASSUME NEW u \in PollTasks, T1[u].tid # 0
        PROVE  /\ T1[u].tid \in c.open /\ \A v \in PollTasks : T1[v].fd # T1[u].tid
               /\ \E e \in c.kernel : e.kind = "timer" /\ e.fd = T1[u].tid
    <3>1. u # t /\ T1[u] = T[u] /\ T[u].tid # 0
      BY <1>5, <1>6, <2>2
    <3>2. PICK e \in b.kernel : e.kind = "timer" /\ e.fd = T[u].tid
      BY <1>1, <3>1 DEF EpollFits
    <3>3. e.task = u
      <4>1. e.fd = T[e.task].tid /\ e.task \in PollTasks
        BY <1>1, <2>0, <3>2 DEF EpollFits
      <4> QED BY <1>1, <3>1, <3>2, <4>1 DEF TasksSound
    <3>4. e \in c.kernel
      BY <1>7, <3>1, <3>2, <3>3
    <3>5. T[u].tid # T[t].tid /\ T[u].tid # T[t].fd /\ T[u].tid \in b.open /\ \A v \in PollTasks : T[v].fd # T[u].tid
      BY <1>1, <3>1 DEF TasksSound, EpollFits
    <3>6. T[u].tid \in c.open
      BY <1>7, <3>5
    <3>7. \A v \in PollTasks : T1[v].fd # T[u].tid
      BY <1>5, <1>6, <1>7, <3>1, <3>5
    <3> QED BY <3>1, <3>2, <3>4, <3>6, <3>7
  <2> QED BY <2>1, <2>2
<1>12. PollInv'
  <2>1. ToldFits(T1, {})
    BY DEF ToldFits
  <2>2. PollSound(T1, c, {})
    BY <1>9, <1>10, <1>11, <2>1 DEF PollSound
  <2> QED BY <2>2 DEF PollInv, T1
<1>13. PollStep
  <2>1. (\A w \in WatchView(c) : w.task # t) /\ (\A a \in AlarmView(c) : a.task # t)
    BY <1>7
  <2> QED BY <1>4, <1>8, <1>9, <2>1, WithdrawStep DEF T, T1, b
<1> QED BY <1>12, <1>13

(* Facts about the running task every step below starts from.               *)
LEMMA RunningTask ==
  ASSUME PollInv, NEW t \in PollTasks, NEW st, Running(t, st)
  PROVE  /\ PollSound(pollTask, pollB, {}) /\ pollTold = {} /\ pollTold' = {} /\ pollTask[t].st = st
         /\ BackendSound(pollB) /\ pollB \in Backend /\ pollTask[t] \in TaskStates
         /\ pollTask[t].fd # 0 => pollTask[t].fd \in pollB.open
         /\ \A a, d \in AlarmView(pollB) : a.id = d.id => a = d
         /\ st = "free" => pollTask[t].park = "none" /\ pollTask[t].tid = 0
  BY DEF PollInv, PollSound, Running, TasksSound, AlarmsFit, BackendSound

(* resume: whichever wait of the park lost is retired.                      *)
LEMMA ResumeStep ==
  ASSUME PollInv, NEW t \in PollTasks, resume(t)
  PROVE  PollInv' /\ PollStep
<1> DEFINE T == pollTask
           b == pollB
           id == T[t].tid
           fd == T[t].fd
           d == IF T[t].park = "both" THEN sprout_poll_remove(b, fd, T[t].interest) ELSE b
           c == RetireTimer(d, t)
<1>1. Running(t, "woken") /\ pollB' = c /\ pollTask' = [pollTask EXCEPT ![t] = FreedTask(fd)]
  BY DEF resume, Resumed, FreedTask
<1>2. /\ PollSound(T, b, {}) /\ pollTold = {} /\ pollTold' = {} /\ T[t].st = "woken" /\ BackendSound(b) /\ b \in Backend
      /\ T[t] \in TaskStates /\ (fd # 0 => fd \in b.open) /\ \A a, e \in AlarmView(b) : a.id = e.id => a = e
  BY <1>1, RunningTask
<1>3. /\ \A w \in WatchView(b) : /\ fd # 0 => (w.fd = fd <=> w.task = t)
                                 /\ w.task = t => w.fd = fd /\ w.kind = T[t].interest /\ T[t].park \in {"fd", "both"}
      /\ \A a \in AlarmView(b) : (id # 0 => (a.id = id <=> a.task = t)) /\ (id = 0 => a.task # t)
      /\ id # 0 => TimerDescriptor(b, id)
      /\ fd # 0 => (b.name = "epoll" => \A e \in b.kernel : e.fd = fd => e.kind # "timer")
  <2> HIDE DEF T, b
  <2>1. \A w \in WatchView(b) : /\ T[t].fd # 0 => (w.fd = T[t].fd <=> w.task = t)
                                /\ w.task = t => w.fd = T[t].fd /\ w.kind = T[t].interest /\ T[t].park \in {"fd", "both"}
    BY <1>2, SoleWatch
  <2>2. \A a \in AlarmView(b) : (T[t].tid # 0 => (a.id = T[t].tid <=> a.task = t)) /\ (T[t].tid = 0 => a.task # t)
    BY <1>2, SoleAlarm
  <2>3. T[t].tid # 0 => TimerDescriptor(b, T[t].tid)
    BY <1>2, TimersDescriptor
  <2>4. T[t].fd # 0 => (b.name = "epoll" => \A e \in b.kernel : e.fd = T[t].fd => e.kind # "timer")
    BY <1>2, SocketDescriptor
  <2> QED BY <2>1, <2>2, <2>3, <2>4
<1>4. /\ BackendSound(d) /\ d.name = b.name /\ d.open = b.open
      /\ WatchView(d) = {w \in WatchView(b) : w.task # t} /\ AlarmView(d) = AlarmView(b)
      /\ d.kernel \subseteq b.kernel
      /\ \A e \in b.kernel : e.kind = "timer" => e \in d.kernel
  <2>1. CASE T[t].park = "both"
    <3>1. fd # 0 /\ fd \in b.open /\ T[t].interest \in Interests /\ d = sprout_poll_remove(b, fd, T[t].interest)
      BY <1>2, <2>1 DEF PollSound, TasksSound, TaskStates
    <3>2. /\ BackendSound(d) /\ d.name = b.name /\ d.open = b.open
          /\ WatchView(d) = {w \in WatchView(b) : w.fd # fd} /\ AlarmView(d) = AlarmView(b)
          /\ d.kernel \subseteq b.kernel
          /\ \A e \in b.kernel : e.kind = "timer" => e \in d.kernel
      <4> DEFINE k == T[t].interest
      <4>1. /\ fd \in b.open /\ k \in Interests /\ d = sprout_poll_remove(b, fd, k)
            /\ \A w \in WatchView(b) : w.fd = fd => w.kind = k
            /\ b.name = "epoll" => \A e \in b.kernel : e.fd = fd => e.kind # "timer"
        BY <1>3, <3>1
      <4> HIDE DEF T, b, fd, k, d
      <4> QED BY <1>2, <4>1, Removed
    <3>3. {w \in WatchView(b) : w.fd # fd} = {w \in WatchView(b) : w.task # t}
      BY <1>3, <3>1
    <3> QED BY <3>2, <3>3
  <2>2. CASE T[t].park # "both"
    <3>1. d = b
      BY <2>2
    <3>2. \A w \in WatchView(b) : w.task # t
      BY <1>2, <2>2 DEF PollSound, WatchesFit
    <3> HIDE DEF d
    <3> QED BY <1>2, <3>1, <3>2
  <2> QED BY <2>1, <2>2
<1> HIDE DEF d
<1>5. id # 0 => TimerDescriptor(d, id)
  <2>1. ASSUME id # 0, d.name = "epoll" PROVE \E e \in d.kernel : e.fd = id
    <3>1. PICK e \in b.kernel : e.fd = id /\ e.kind = "timer"
      BY <1>3, <1>4, <2>1 DEF TimerDescriptor
    <3> QED BY <1>4, <3>1
  <2> QED BY <1>3, <1>4, <2>1 DEF TimerDescriptor
<1>6. /\ BackendSound(c) /\ c.name = d.name
      /\ c.open = IF d.name = "epoll" /\ id # 0 THEN d.open \ {id} ELSE d.open
      /\ WatchView(c) = WatchView(d) /\ AlarmView(c) = {a \in AlarmView(d) : a.task # t}
      /\ c.kernel \subseteq d.kernel
      /\ \A e \in d.kernel : e \in c.kernel <=> (id # 0 => e.fd # id \/ e.kind # "timer")
  <2>1. id = pollTask[t].tid
    OBVIOUS
  <2>2. /\ \A a, e \in AlarmView(d) : a.id = e.id => a = e
        /\ \A a \in AlarmView(d) : (id # 0 => (a.id = id <=> a.task = t)) /\ (id = 0 => a.task # t)
    BY <1>2, <1>3, <1>4
  <2> HIDE DEF T, b, id
  <2> QED BY <1>4, <1>5, <2>1, <2>2, RetireTask
<1> HIDE DEF c
<1>7. WatchView(c) = {w \in WatchView(pollB) : w.task # t} /\ AlarmView(c) = {a \in AlarmView(pollB) : a.task # t}
  BY <1>4, <1>6
<1>8. \A x \in b.open : x \in c.open \/ (b.name = "epoll" /\ x = id)
  BY <1>4, <1>6
<1>9. c.kernel \subseteq b.kernel
  BY <1>4, <1>6
<1>10. ASSUME NEW e \in c.kernel, e.task = t, b.name = "epoll" PROVE e.kind # "timer" /\ e.fd = fd
  <2>1. e.fd = (IF e.kind = "timer" THEN id ELSE fd) /\ e.fd # 0
    BY <1>2, <1>9, <1>10 DEF PollSound, EpollFits, BackendSound, Backend, KernelEntries
  <2>2. e.kind # "timer"
    BY <1>4, <1>6, <1>9, <1>10, <2>1
  <2> QED BY <2>1, <2>2
<1>11. ASSUME NEW e \in b.kernel, e.kind = "timer", e.task # t, b.name = "epoll" PROVE e \in c.kernel
  <2>1. e.fd = T[e.task].tid /\ e.fd # 0 /\ e.task \in PollTasks
    BY <1>2, <1>11 DEF PollSound, EpollFits, BackendSound, Backend, KernelEntries
  <2>2. e.fd # id
    BY <1>2, <1>11, <2>1 DEF PollSound, TasksSound
  <2> QED BY <1>4, <1>6, <1>11, <2>2
<1> QED BY <1>1, <1>2, <1>4, <1>6, <1>7, <1>8, <1>9, <1>10, <1>11, Freed

(* What the invariant says of one task's waits.                             *)
LEMMA TaskWaits ==
  ASSUME NEW T, NEW b, PollSound(T, b, {}), NEW t \in PollTasks, NEW id, id = T[t].tid, NEW fd, fd = T[t].fd
  PROVE  /\ \A w \in WatchView(b) : /\ fd # 0 => (w.fd = fd <=> w.task = t)
                                    /\ w.task = t => w.fd = fd /\ w.kind = T[t].interest /\ T[t].park \in {"fd", "both"}
         /\ \A a \in AlarmView(b) : (id # 0 => (a.id = id <=> a.task = t)) /\ (id = 0 => a.task # t)
         /\ id # 0 => TimerDescriptor(b, id)
         /\ fd # 0 => (b.name = "epoll" => \A e \in b.kernel : e.fd = fd => e.kind # "timer")
         /\ b.name = "epoll" => \A e \in b.kernel : e.task = t => e.fd = IF e.kind = "timer" THEN id ELSE fd
         /\ b.name = "epoll" => \A e \in b.kernel : e.kind = "timer" /\ e.task # t => e.fd # id
<1>1. \A w \in WatchView(b) : /\ fd # 0 => (w.fd = fd <=> w.task = t)
                              /\ w.task = t => w.fd = fd /\ w.kind = T[t].interest /\ T[t].park \in {"fd", "both"}
  BY SoleWatch
<1>2. \A a \in AlarmView(b) : (id # 0 => (a.id = id <=> a.task = t)) /\ (id = 0 => a.task # t)
  BY SoleAlarm
<1>3. id # 0 => TimerDescriptor(b, id)
  BY TimersDescriptor
<1>4. fd # 0 => (b.name = "epoll" => \A e \in b.kernel : e.fd = fd => e.kind # "timer")
  BY SocketDescriptor
<1>5. ASSUME NEW e \in b.kernel, b.name = "epoll"
      PROVE  /\ e.task = t => e.fd = IF e.kind = "timer" THEN id ELSE fd
             /\ e.kind = "timer" /\ e.task # t => e.fd # id
  <2>1. e.fd = (IF e.kind = "timer" THEN T[e.task].tid ELSE T[e.task].fd) /\ e.fd # 0 /\ e.task \in PollTasks
    BY <1>5 DEF PollSound, EpollFits, BackendSound, Backend, KernelEntries
  <2> QED BY <2>1 DEF PollSound, TasksSound
<1> QED BY <1>1, <1>2, <1>3, <1>4, <1>5

(* force_drop_task.                                                         *)
LEMMA DropStep ==
  ASSUME PollInv, NEW t \in PollTasks, force_drop_task(t)
  PROVE  PollInv' /\ PollStep
<1>0. PICK unowned \in BOOLEAN :
        /\ unowned => pollTask[t].park # "timer"
        /\ pollB' = Dropped(t, unowned)
        /\ pollTask' = [pollTask EXCEPT ![t] = [FreeTask EXCEPT !.fd = IF unowned THEN 0 ELSE pollTask[t].fd]]
  BY DEF force_drop_task
<1> DEFINE T == pollTask
           b == pollB
           id == T[t].tid
           fd == T[t].fd
           k == T[t].interest
           d == RetireTimer(b, t)
           r == IF T[t].park = "timer" THEN d ELSE sprout_poll_remove(d, fd, k)
           c == IF unowned THEN Closed(r, fd) ELSE r
           f == IF unowned THEN 0 ELSE fd
<1>1. Running(t, "parked") /\ pollB' = c /\ pollTask' = [pollTask EXCEPT ![t] = FreedTask(f)]
  BY <1>0 DEF force_drop_task, Dropped, FreedTask
<1>2. /\ PollSound(T, b, {}) /\ pollTold = {} /\ pollTold' = {} /\ T[t].st = "parked" /\ BackendSound(b) /\ b \in Backend
      /\ T[t] \in TaskStates /\ (fd # 0 => fd \in b.open) /\ \A a, e \in AlarmView(b) : a.id = e.id => a = e
  BY <1>1, RunningTask
<1>3. /\ \A w \in WatchView(b) : /\ fd # 0 => (w.fd = fd <=> w.task = t)
                                 /\ w.task = t => w.fd = fd /\ w.kind = k /\ T[t].park \in {"fd", "both"}
      /\ \A a \in AlarmView(b) : (id # 0 => (a.id = id <=> a.task = t)) /\ (id = 0 => a.task # t)
      /\ id # 0 => TimerDescriptor(b, id)
      /\ fd # 0 => (b.name = "epoll" => \A e \in b.kernel : e.fd = fd => e.kind # "timer")
      /\ b.name = "epoll" => \A e \in b.kernel : e.task = t => e.fd = IF e.kind = "timer" THEN id ELSE fd
      /\ b.name = "epoll" => \A e \in b.kernel : e.kind = "timer" /\ e.task # t => e.fd # id
  <2> HIDE DEF T, b
  <2> QED BY <1>2, TaskWaits
<1>4. /\ BackendSound(d) /\ d.name = b.name
      /\ d.open = IF b.name = "epoll" /\ id # 0 THEN b.open \ {id} ELSE b.open
      /\ WatchView(d) = WatchView(b) /\ AlarmView(d) = {a \in AlarmView(b) : a.task # t}
      /\ d.kernel \subseteq b.kernel
      /\ \A e \in b.kernel : e \in d.kernel <=> (id # 0 => e.fd # id \/ e.kind # "timer")
  <2>1. id = pollTask[t].tid /\ d = RetireTimer(b, t)
    OBVIOUS
  <2> HIDE DEF T, b, id, d
  <2> QED BY <1>2, <1>3, <2>1, RetireTask
<1>5. /\ T[t].park # "timer" => fd # 0 /\ fd \in d.open
      /\ k \in Interests
  <2>1. T[t].park # "timer" => fd # 0
    BY <1>2 DEF PollSound, TasksSound, TaskStates
  <2>2. fd # 0 /\ b.name = "epoll" => fd # id
    BY <1>2 DEF PollSound, EpollFits
  <2> QED BY <1>2, <1>4, <2>1, <2>2 DEF TaskStates
<1> HIDE DEF d
<1>6. /\ BackendSound(r) /\ r.name = b.name /\ r.open = d.open
      /\ WatchView(r) = {w \in WatchView(b) : w.task # t} /\ AlarmView(r) = AlarmView(d)
      /\ r.kernel \subseteq d.kernel
      /\ \A e \in d.kernel : e.kind = "timer" => e \in r.kernel
  <2>1. CASE T[t].park # "timer"
    <3>1. fd # 0 /\ fd \in d.open /\ k \in Interests /\ r = sprout_poll_remove(d, fd, k)
      BY <1>5, <2>1
    <3>2. /\ \A w \in WatchView(d) : w.fd = fd => w.kind = k
          /\ d.name = "epoll" => \A e \in d.kernel : e.fd = fd => e.kind # "timer"
      BY <1>3, <1>4, <3>1
    <3>3. /\ BackendSound(r) /\ r.name = d.name /\ r.open = d.open
          /\ WatchView(r) = {w \in WatchView(d) : w.fd # fd} /\ AlarmView(r) = AlarmView(d)
          /\ r.kernel \subseteq d.kernel
          /\ \A e \in d.kernel : e.kind = "timer" => e \in r.kernel
      <4> HIDE DEF T, b, fd, k, r
      <4> QED BY <1>4, <3>1, <3>2, Removed
    <3>4. {w \in WatchView(d) : w.fd # fd} = {w \in WatchView(b) : w.task # t}
      BY <1>3, <1>4, <3>1
    <3> QED BY <1>4, <3>3, <3>4
  <2>2. CASE T[t].park = "timer"
    <3>1. r = d
      BY <2>2
    <3>2. \A w \in WatchView(b) : w.task # t
      BY <1>3, <2>2
    <3>3. WatchView(b) = {w \in WatchView(b) : w.task # t}
      BY <3>2
    <3> HIDE DEF r
    <3> QED BY <1>4, <3>1, <3>3
  <2> QED BY <2>1, <2>2
<1> HIDE DEF r
<1>7. /\ BackendSound(c) /\ c.name = b.name /\ c.open = IF unowned THEN d.open \ {fd} ELSE d.open
      /\ WatchView(c) = WatchView(r) /\ AlarmView(c) = AlarmView(r)
      /\ c.kernel \subseteq r.kernel
      /\ \A e \in r.kernel : e.kind = "timer" => e \in c.kernel
      /\ unowned => \A e \in c.kernel : e.kind # "timer" => e.fd # fd
  <2>1. CASE unowned
    <3>1. fd # 0 /\ c = Closed(r, fd)
      BY <1>0, <1>5, <2>1
    <3>2. /\ \A w \in WatchView(r) : w.fd # fd
          /\ r.name = "epoll" => \A e \in r.kernel : e.fd = fd => e.kind # "timer"
      BY <1>3, <1>4, <1>6, <3>1
    <3>3. /\ BackendSound(c) /\ c.name = r.name /\ c.open = r.open \ {fd}
          /\ WatchView(c) = WatchView(r) /\ AlarmView(c) = AlarmView(r)
          /\ c.kernel \subseteq r.kernel
          /\ \A e \in r.kernel : e.kind = "timer" => e \in c.kernel
          /\ \A e \in c.kernel : e.kind # "timer" => e.fd # fd
      <4> HIDE DEF T, b, fd, c
      <4> QED BY <1>6, <3>1, <3>2, ClosedOff
    <3> HIDE DEF c
    <3> QED BY <1>6, <2>1, <3>3
  <2>2. CASE ~unowned
    <3>1. c = r
      BY <2>2
    <3> HIDE DEF c
    <3> QED BY <1>6, <2>2, <3>1
  <2> QED BY <2>1, <2>2
<1> HIDE DEF c
<1>8. WatchView(c) = {w \in WatchView(pollB) : w.task # t} /\ AlarmView(c) = {a \in AlarmView(pollB) : a.task # t}
  BY <1>4, <1>6, <1>7
<1>9. \A x \in b.open : x \in c.open \/ (f = 0 /\ x = fd) \/ (b.name = "epoll" /\ x = id)
  BY <1>4, <1>7
<1>10. c.kernel \subseteq b.kernel
  BY <1>4, <1>6, <1>7
<1>11. ASSUME NEW e \in c.kernel, e.task = t, b.name = "epoll" PROVE e.kind # "timer" /\ e.fd = f
  <2>1. e.fd = (IF e.kind = "timer" THEN id ELSE fd) /\ e.fd # 0
    BY <1>2, <1>3, <1>10, <1>11 DEF BackendSound, Backend, KernelEntries
  <2>2. e.kind # "timer"
    BY <1>4, <1>6, <1>7, <1>10, <1>11, <2>1
  <2> QED BY <1>7, <2>1, <2>2
<1>12. ASSUME NEW e \in b.kernel, e.kind = "timer", e.task # t, b.name = "epoll" PROVE e \in c.kernel
  BY <1>3, <1>4, <1>6, <1>7, <1>12
<1>13. f \in {0, pollTask[t].fd}
  OBVIOUS
<1> HIDE DEF f
<1> QED BY <1>1, <1>2, <1>4, <1>6, <1>7, <1>8, <1>9, <1>10, <1>11, <1>12, <1>13, Freed

(* socket_close.                                                            *)
LEMMA CloseStep ==
  ASSUME PollInv, NEW t \in PollTasks, socket_close(t)
  PROVE  PollInv' /\ PollStep
<1> DEFINE T == pollTask
           b == pollB
           id == T[t].tid
           fd == T[t].fd
           c == Closed(b, fd)
<1>1. Running(t, "free") /\ fd # 0 /\ pollB' = c /\ pollTask' = [pollTask EXCEPT ![t].fd = 0]
  BY DEF socket_close
<1>2. /\ PollSound(T, b, {}) /\ pollTold = {} /\ pollTold' = {} /\ T[t].st = "free" /\ BackendSound(b) /\ b \in Backend
      /\ T[t] \in TaskStates /\ T[t].park = "none" /\ id = 0
  BY <1>1, RunningTask
<1>3. /\ \A w \in WatchView(b) : /\ fd # 0 => (w.fd = fd <=> w.task = t)
                                 /\ w.task = t => w.fd = fd /\ w.kind = T[t].interest /\ T[t].park \in {"fd", "both"}
      /\ \A a \in AlarmView(b) : (id # 0 => (a.id = id <=> a.task = t)) /\ (id = 0 => a.task # t)
      /\ id # 0 => TimerDescriptor(b, id)
      /\ fd # 0 => (b.name = "epoll" => \A e \in b.kernel : e.fd = fd => e.kind # "timer")
      /\ b.name = "epoll" => \A e \in b.kernel : e.task = t => e.fd = IF e.kind = "timer" THEN id ELSE fd
      /\ b.name = "epoll" => \A e \in b.kernel : e.kind = "timer" /\ e.task # t => e.fd # id
  <2> HIDE DEF T, b
  <2> QED BY <1>2, TaskWaits
<1>4. pollTask' = [pollTask EXCEPT ![t] = FreedTask(0)]
  <2>1. T \in [PollTasks -> TaskStates] /\ T[t].interest = "read"
    BY <1>2 DEF PollSound, TasksSound
  <2>2. T[t] = [st |-> "free", park |-> "none", fd |-> fd, interest |-> "read", tid |-> 0]
    BY <1>2, <2>1 DEF TaskStates
  <2>3. [T[t] EXCEPT !.fd = 0] = FreedTask(0)
    BY <2>2 DEF FreedTask, FreeTask
  <2> QED BY <1>1, <2>3
<1>5. /\ BackendSound(c) /\ c.name = b.name /\ c.open = b.open \ {fd}
      /\ WatchView(c) = WatchView(b) /\ AlarmView(c) = AlarmView(b)
      /\ c.kernel \subseteq b.kernel
      /\ \A e \in b.kernel : e.kind = "timer" => e \in c.kernel
      /\ \A e \in c.kernel : e.kind # "timer" => e.fd # fd
  <2>1. c = Closed(b, fd) /\ \A w \in WatchView(b) : w.fd # fd
    BY <1>1, <1>2, <1>3
  <2> HIDE DEF T, b, fd, c
  <2> QED BY <1>1, <1>2, <1>3, <2>1, ClosedOff
<1> HIDE DEF c
<1>6. WatchView(c) = {w \in WatchView(pollB) : w.task # t} /\ AlarmView(c) = {a \in AlarmView(pollB) : a.task # t}
  BY <1>2, <1>3, <1>5
<1>7. ASSUME NEW e \in c.kernel, e.task = t, b.name = "epoll" PROVE e.kind # "timer" /\ e.fd = 0
  <2>1. e.fd = (IF e.kind = "timer" THEN 0 ELSE fd) /\ e.fd # 0
    BY <1>2, <1>3, <1>5, <1>7 DEF BackendSound, Backend, KernelEntries
  <2> QED BY <1>5, <2>1
<1> QED BY <1>1, <1>2, <1>4, <1>5, <1>6, <1>7, Freed

(* socket_open.                                                             *)
LEMMA OpenStep ==
  ASSUME PollInv, NEW t \in PollTasks, socket_open(t)
  PROVE  PollInv' /\ PollStep
<1> DEFINE T == pollTask
           b == pollB
           n == LowestFree(b.open)
           T1 == pollTask'
           c == pollB'
<1>1. /\ Running(t, "free") /\ T[t].fd = 0 /\ b.open # 1 .. PollFdMax
      /\ T1 = [T EXCEPT ![t].fd = n] /\ c = [b EXCEPT !.open = @ \cup {n}]
  BY DEF socket_open
<1>2. /\ PollSound(T, b, {}) /\ pollTold = {} /\ pollTold' = {} /\ T[t].st = "free" /\ BackendSound(b) /\ b \in Backend
      /\ T[t] \in TaskStates /\ T[t].park = "none" /\ T[t].tid = 0
  BY <1>1, RunningTask
<1>3. n \in 1 .. PollFdMax /\ n \notin b.open
  <2>1. b.open \in SUBSET (1 .. PollFdMax)
    BY <1>2 DEF Backend
  <2> HIDE DEF b
  <2> QED BY <1>1, <2>1, LowestFreeIs
<1>4. /\ TasksSound(T, b.open) /\ EpollFits(T, b) /\ WatchesFit(T, b, {}) /\ AlarmsFit(T, b, {})
      /\ T \in [PollTasks -> TaskStates]
  BY <1>2 DEF PollSound, TasksSound
<1> HIDE DEF n
<1>5. /\ T1 \in [PollTasks -> TaskStates] /\ T1[t].st = "free" /\ T1[t].park = "none" /\ T1[t].fd = n /\ T1[t].tid = 0
      /\ T1[t].interest = T[t].interest /\ OthersKept(T, T1, t)
  <2>1. T1[t] = [T[t] EXCEPT !.fd = n] /\ n \in 0 .. PollFdMax
    BY <1>1, <1>3, <1>4
  <2>2. T1[t] \in TaskStates /\ T1[t].st = "free" /\ T1[t].park = "none" /\ T1[t].fd = n /\ T1[t].tid = 0
        /\ T1[t].interest = T[t].interest
    BY <1>2, <2>1 DEF TaskStates
  <2>3. T1 = [T EXCEPT ![t] = T1[t]]
    BY <1>1, <1>4
  <2>4. T1 \in [PollTasks -> TaskStates] /\ OthersKept(T, T1, t)
    BY <1>4, <2>2, <2>3 DEF OthersKept
  <2> QED BY <2>2, <2>4
<1>6. /\ c \in Backend /\ c.name = b.name /\ c.kernel = b.kernel /\ c.fds = b.fds /\ c.timers = b.timers
      /\ c.open = b.open \cup {n}
  BY <1>1, <1>2, <1>3 DEF Backend
<1> HIDE DEF T, b, T1, c
<1>7. BackendSound(c) /\ WatchView(c) = WatchView(b) /\ AlarmView(c) = AlarmView(b)
  BY <1>2, <1>6 DEF BackendSound, KernelKeyed, WatchView, AlarmView, Armed
<1>8. (\A w \in WatchView(c) : w.task # t) /\ (\A a \in AlarmView(c) : a.task # t)
  <2>1. ASSUME NEW w \in WatchView(b) PROVE w.task # t
    BY <1>2, <1>4 DEF WatchesFit
  <2>2. ASSUME NEW a \in AlarmView(b) PROVE a.task # t
    <3>1. a.id # 0
      BY <1>2, ViewTypes DEF TimerEntries
    <3> QED BY <1>2, <1>4, <3>1 DEF AlarmsFit
  <2> QED BY <1>7, <2>1, <2>2
<1>9. Elsewhere(b, c, t)
  BY <1>7 DEF Elsewhere
<1>10. WatchesFit(T1, c, {}) /\ AlarmsFit(T1, c, {})
  <2>1. \A a, d \in AlarmView(c) : a.id = d.id => a = d
    BY <1>4, <1>7 DEF AlarmsFit
  <2> QED BY <1>4, <1>5, <1>7, <1>8, <1>9, <2>1, OneTaskFits
<1>11. \A u \in PollTasks : u # t => T1[u] = T[u]
  BY <1>5 DEF OthersKept
<1>12. TasksSound(T1, c.open)
  <2>1. \A u \in PollTasks :
          /\ T1[u].st = "free" <=> T1[u].park = "none"
          /\ T1[u].st = "free" => T1[u].interest = "read"
          /\ T1[u].park \in {"none", "fd"} => T1[u].tid = 0
          /\ T1[u].park = "timer" => T1[u].fd = 0
          /\ T1[u].park \in {"fd", "both"} => T1[u].fd # 0
          /\ T1[u].fd # 0 => T1[u].fd \in c.open
    BY <1>2, <1>3, <1>4, <1>5, <1>6, <1>11 DEF TasksSound
  <2>2. \A u \in PollTasks : u # t => T1[u].fd # n
    BY <1>3, <1>4, <1>11 DEF TasksSound
  <2>3. \A u, v \in PollTasks : T1[u].fd = T1[v].fd /\ T1[u].fd # 0 => u = v
    BY <1>4, <1>5, <1>11, <2>2 DEF TasksSound
  <2>4. \A u, v \in PollTasks : T1[u].tid = T1[v].tid /\ T1[u].tid # 0 => u = v
    BY <1>4, <1>5, <1>11 DEF TasksSound
  <2> QED BY <1>5, <2>1, <2>3, <2>4 DEF TasksSound
<1>13. EpollFits(T1, c)
  <2> SUFFICES ASSUME b.name = "epoll"
               PROVE  /\ \A e \in b.kernel : e.fd = IF e.kind = "timer" THEN T1[e.task].tid ELSE T1[e.task].fd
                      /\ \A u \in PollTasks : T1[u].tid # 0 =>
                           /\ T1[u].tid \in c.open /\ \A v \in PollTasks : T1[v].fd # T1[u].tid
                           /\ \E e \in b.kernel : e.kind = "timer" /\ e.fd = T1[u].tid
    BY <1>6 DEF EpollFits
  <2>1. ASSUME NEW e \in b.kernel PROVE e.fd = IF e.kind = "timer" THEN T1[e.task].tid ELSE T1[e.task].fd
    <3>1. e.fd = (IF e.kind = "timer" THEN T[e.task].tid ELSE T[e.task].fd) /\ e.fd # 0 /\ e.task \in PollTasks
      BY <1>2, <1>4 DEF EpollFits, BackendSound, Backend, KernelEntries
    <3>2. e.task # t
      BY <1>1, <1>2, <3>1
    <3> QED BY <1>11, <3>1, <3>2
  <2>2. ASSUME NEW u \in PollTasks, T1[u].tid # 0
        PROVE  /\ T1[u].tid \in c.open /\ \A v \in PollTasks : T1[v].fd # T1[u].tid
               /\ \E e \in b.kernel : e.kind = "timer" /\ e.fd = T1[u].tid
    <3>1. u # t /\ T1[u] = T[u] /\ T[u].tid # 0
      BY <1>5, <1>11, <2>2
    <3>2. /\ T[u].tid \in b.open /\ \A v \in PollTasks : T[v].fd # T[u].tid
          /\ \E e \in b.kernel : e.kind = "timer" /\ e.fd = T[u].tid
      BY <1>4, <3>1 DEF EpollFits
    <3>3. \A v \in PollTasks : T1[v].fd # T[u].tid
      BY <1>3, <1>5, <1>11, <3>2
    <3> QED BY <1>6, <3>1, <3>2, <3>3
  <2> QED BY <2>1, <2>2
<1>14. PollInv'
  <2>1. ToldFits(T1, {})
    BY DEF ToldFits
  <2>2. PollSound(T1, c, {})
    BY <1>7, <1>10, <1>12, <1>13, <2>1 DEF PollSound
  <2> QED BY <1>2, <2>2 DEF PollInv, T1, c
<1>15. PollStep
  BY <1>2, <1>5, <1>7, <1>8, <1>9, <1>10, WithdrawStep DEF T, T1, b, c
<1> QED BY <1>14, <1>15

\* The park p of a task whose socket is fd: what it waits for, and the entries that stand for it.
ParkOf(p, fd) == /\ p \in TaskStates /\ p.st = "parked" /\ p.park \in {"fd", "timer", "both"} /\ p.fd = fd
                 /\ p.park = "timer" <=> fd = 0
                 /\ p.park = "fd" <=> p.tid = 0
\* The timer of p is new: no task knows it, and to epoll it is a descriptor of its own.
NewTimer(T, c, p) == p.tid # 0 =>
  /\ \A u \in PollTasks : T[u].tid # p.tid
  /\ c.name = "epoll" => /\ p.tid \in c.open /\ \A u \in PollTasks : T[u].fd # p.tid
                         /\ \E e \in c.kernel : e.kind = "timer" /\ e.fd = p.tid

(* A free task parks.                                                       *)
LEMMA Parks ==
  ASSUME PollInv, NEW t \in PollTasks, Running(t, "free"), NEW p, ParkOf(p, pollTask[t].fd), NEW ms,
         p.park # "fd" => ms \in PollDelays, pollTask' = [pollTask EXCEPT ![t] = p],
         NEW c, c = pollB', BackendSound(c), c.name = pollB.name, pollB.open \subseteq c.open,
         NewTimer(pollTask, c, p),
         \A w : w \in WatchView(c) <=> \/ w \in WatchView(pollB)
                                       \/ p.park # "timer" /\ w = [fd |-> p.fd, kind |-> p.interest, task |-> t],
         \A a : a \in AlarmView(c) <=> \/ a \in AlarmView(pollB)
                                       \/ p.park # "fd" /\ a = [id |-> p.tid, left |-> ms, task |-> t],
         c.name = "epoll" => \A e \in pollB.kernel : e.kind = "timer" => e \in c.kernel,
         c.name = "epoll" => \A e \in c.kernel : \/ e \in pollB.kernel
                                                 \/ e.task = t /\ e.fd = IF e.kind = "timer" THEN p.tid ELSE p.fd
  PROVE  PollInv' /\ PollStep
<1> DEFINE T == pollTask
           b == pollB
           T1 == pollTask'
<1>1. /\ PollSound(T, b, {}) /\ pollTold = {} /\ pollTold' = {} /\ T[t].st = "free" /\ BackendSound(b) /\ b \in Backend
      /\ T[t] \in TaskStates /\ T[t].park = "none" /\ T[t].tid = 0
  BY RunningTask
<1>2. /\ TasksSound(T, b.open) /\ EpollFits(T, b) /\ WatchesFit(T, b, {}) /\ AlarmsFit(T, b, {})
      /\ T \in [PollTasks -> TaskStates] /\ b.open \subseteq 1 .. PollFdMax
  BY <1>1 DEF PollSound, TasksSound, Backend
<1>3. /\ p \in TaskStates /\ p.st = "parked" /\ p.park \in {"fd", "timer", "both"} /\ p.fd = T[t].fd
      /\ p.park = "timer" <=> T[t].fd = 0
      /\ p.park = "fd" <=> p.tid = 0
  BY DEF ParkOf
<1>4. T1 \in [PollTasks -> TaskStates] /\ T1[t] = p /\ OthersKept(T, T1, t)
  BY <1>2, <1>3 DEF OthersKept
<1>5. /\ NewTimer(T, c, p) /\ c.name = b.name /\ b.open \subseteq c.open
      /\ \A w : w \in WatchView(c) <=> \/ w \in WatchView(b)
                                       \/ p.park # "timer" /\ w = [fd |-> p.fd, kind |-> p.interest, task |-> t]
      /\ \A a : a \in AlarmView(c) <=> \/ a \in AlarmView(b)
                                       \/ p.park # "fd" /\ a = [id |-> p.tid, left |-> ms, task |-> t]
      /\ c.name = "epoll" => \A e \in b.kernel : e.kind = "timer" => e \in c.kernel
      /\ c.name = "epoll" => \A e \in c.kernel : \/ e \in b.kernel
                                                 \/ e.task = t /\ e.fd = IF e.kind = "timer" THEN p.tid ELSE p.fd
  OBVIOUS
<1> HIDE DEF T, b, T1
<1>6. \A u \in PollTasks : u # t => T1[u] = T[u]
  BY <1>4 DEF OthersKept
<1>7. (\A w \in WatchView(b) : w.task # t) /\ (\A a \in AlarmView(b) : a.task # t)
  <2>1. ASSUME NEW w \in WatchView(b) PROVE w.task # t
    BY <1>1, <1>2 DEF WatchesFit
  <2>2. ASSUME NEW a \in AlarmView(b) PROVE a.task # t
    <3>1. a.id # 0
      BY <1>1, ViewTypes DEF TimerEntries
    <3> QED BY <1>1, <1>2, <3>1 DEF AlarmsFit
  <2> QED BY <2>1, <2>2
<1>8. Elsewhere(b, c, t)
  BY <1>5 DEF Elsewhere
<1>9. WatchesFit(T1, c, {}) /\ AlarmsFit(T1, c, {})
  <2>1. ASSUME NEW w \in WatchView(c), w.task = t
        PROVE  w.fd = T1[t].fd /\ w.kind = T1[t].interest /\ T1[t].park \in {"fd", "both"} /\ T1[t].st # "woken"
    <3>1. w = [fd |-> p.fd, kind |-> p.interest, task |-> t] /\ p.park # "timer"
      BY <1>5, <1>7, <2>1
    <3> QED BY <1>3, <1>4, <3>1
  <2>2. ASSUME NEW a \in AlarmView(c), a.task = t PROVE a.id = T1[t].tid
    BY <1>4, <1>5, <1>7, <2>2
  <2>3. ASSUME NEW a \in AlarmView(b), p.tid # 0 PROVE a.id # p.tid
    <3>1. a.task \in PollTasks
      BY <1>1, ViewTypes DEF TimerEntries
    <3> QED BY <1>2, <1>5, <2>3, <3>1 DEF AlarmsFit, NewTimer
  <2>4. \A a, d \in AlarmView(c) : a.id = d.id => a = d
    <3>1. \A a, d \in AlarmView(b) : a.id = d.id => a = d
      BY <1>2 DEF AlarmsFit
    <3> QED BY <1>3, <1>5, <2>3, <3>1
  <2> QED BY <1>2, <1>4, <1>8, <2>1, <2>2, <2>4, OneTaskFits
<1>10. TasksSound(T1, c.open)
  <2>1. ASSUME NEW u \in PollTasks
        PROVE  /\ T1[u].st = "free" <=> T1[u].park = "none"
               /\ T1[u].st = "free" => T1[u].interest = "read"
               /\ T1[u].park \in {"none", "fd"} => T1[u].tid = 0
               /\ T1[u].park = "timer" => T1[u].fd = 0
               /\ T1[u].park \in {"fd", "both"} => T1[u].fd # 0
               /\ T1[u].fd # 0 => T1[u].fd \in c.open
    <3>1. CASE u = t
      BY <1>2, <1>3, <1>4, <1>5, <3>1 DEF TasksSound
    <3>2. CASE u # t
      BY <1>2, <1>5, <1>6, <3>2 DEF TasksSound
    <3> QED BY <3>1, <3>2
  <2>2. \A u, v \in PollTasks : T1[u].fd = T1[v].fd /\ T1[u].fd # 0 => u = v
    <3>1. \A u \in PollTasks : T1[u].fd = T[u].fd
      BY <1>3, <1>4, <1>6
    <3> QED BY <1>2, <3>1 DEF TasksSound
  <2>3. \A u, v \in PollTasks : T1[u].tid = T1[v].tid /\ T1[u].tid # 0 => u = v
    <3>1. p.tid # 0 => \A u \in PollTasks : u # t => T1[u].tid # p.tid
      BY <1>5, <1>6 DEF NewTimer
    <3> QED BY <1>2, <1>4, <1>6, <3>1 DEF TasksSound
  <2> QED BY <1>4, <2>1, <2>2, <2>3 DEF TasksSound
<1>11. EpollFits(T1, c)
  <2> SUFFICES ASSUME c.name = "epoll"
               PROVE  /\ \A e \in c.kernel : e.fd = IF e.kind = "timer" THEN T1[e.task].tid ELSE T1[e.task].fd
                      /\ \A u \in PollTasks : T1[u].tid # 0 =>
                           /\ T1[u].tid \in c.open /\ \A v \in PollTasks : T1[v].fd # T1[u].tid
                           /\ \E e \in c.kernel : e.kind = "timer" /\ e.fd = T1[u].tid
    BY DEF EpollFits
  <2>1. ASSUME NEW e \in c.kernel PROVE e.fd = IF e.kind = "timer" THEN T1[e.task].tid ELSE T1[e.task].fd
    <3>1. CASE e \in b.kernel
      <4>1. e.fd = (IF e.kind = "timer" THEN T[e.task].tid ELSE T[e.task].fd) /\ e.fd # 0 /\ e.task \in PollTasks
        BY <1>1, <1>2, <1>5, <3>1 DEF EpollFits, BackendSound, Backend, KernelEntries
      <4>2. e.task # t \/ (e.kind # "timer" /\ T1[t].fd = T[t].fd)
        BY <1>1, <1>3, <1>4, <4>1
      <4> QED BY <1>6, <4>1, <4>2
    <3>2. CASE e \notin b.kernel
      BY <1>4, <1>5, <3>2
    <3> QED BY <3>1, <3>2
  <2>2. ASSUME NEW u \in PollTasks, T1[u].tid # 0
        PROVE  /\ T1[u].tid \in c.open /\ \A v \in PollTasks : T1[v].fd # T1[u].tid
               /\ \E e \in c.kernel : e.kind = "timer" /\ e.fd = T1[u].tid
    <3>0. \A v \in PollTasks : T1[v].fd = T[v].fd
      BY <1>3, <1>4, <1>6
    <3>1. CASE u = t
      BY <1>4, <1>5, <2>2, <3>0, <3>1 DEF NewTimer
    <3>2. CASE u # t
      <4>1. T1[u] = T[u]
        BY <1>6, <3>2
      <4>2. /\ T[u].tid \in b.open /\ \A v \in PollTasks : T[v].fd # T[u].tid
            /\ \E e \in b.kernel : e.kind = "timer" /\ e.fd = T[u].tid
        BY <1>2, <1>5, <2>2, <4>1 DEF EpollFits
      <4>3. \E e \in c.kernel : e.kind = "timer" /\ e.fd = T[u].tid
        BY <1>5, <4>2
      <4> QED BY <1>5, <3>0, <4>1, <4>2, <4>3
    <3> QED BY <3>1, <3>2
  <2> QED BY <2>1, <2>2
<1>12. PollInv'
  <2>1. ToldFits(T1, {})
    BY DEF ToldFits
  <2>2. PollSound(T1, c, {})
    BY <1>9, <1>10, <1>11, <2>1 DEF PollSound
  <2> QED BY <1>1, <2>2 DEF PollInv, T1
<1>13. PollStep
  <2>1. \A w \in WatchView(c) : w.task = t => w.fd \in 1 .. PollFdMax /\ w.kind \in Interests
    <3>1. p.park # "timer" => p.fd \in 1 .. PollFdMax
      BY <1>2, <1>3 DEF TasksSound
    <3>2. p.interest \in Interests
      BY <1>3 DEF TaskStates
    <3> QED BY <1>5, <1>7, <3>1, <3>2
  <2>2. \A a \in AlarmView(c) : a.task = t => a.left \in PollDelays
    BY <1>5, <1>7
  <2>3. (\E w \in WatchView(c) : w.task = t) \/ (\E a \in AlarmView(c) : a.task = t)
    <3>1. CASE p.park = "fd"
      <4>1. [fd |-> p.fd, kind |-> p.interest, task |-> t] \in WatchView(c)
        BY <1>5, <3>1
      <4> QED BY <4>1
    <3>2. CASE p.park # "fd"
      <4>1. [id |-> p.tid, left |-> ms, task |-> t] \in AlarmView(c)
        BY <1>5, <3>2
      <4> QED BY <4>1
    <3> QED BY <3>1, <3>2
  <2> QED BY <1>1, <1>4, <1>7, <1>8, <1>9, <2>1, <2>2, <2>3, RegisterStep DEF T, T1, b
<1> QED BY <1>12, <1>13

\* A free task's record with the fields of a park.
FdPark(q, i) == [[[q EXCEPT !.st = "parked"] EXCEPT !.park = "fd"] EXCEPT !.interest = i]
TimedPark(q, i, id, k) == [[q EXCEPT !.st = "parked", !.tid = id, !.interest = i] EXCEPT !.park = k]

(* The fields of a parked task's record.                                    *)
LEMMA ParkedRecord ==
  ASSUME NEW q, NEW fd, q = [st |-> "free", park |-> "none", fd |-> fd, interest |-> "read", tid |-> 0],
         NEW i, NEW id, NEW k
  PROVE  /\ FdPark(q, i) = [st |-> "parked", park |-> "fd", fd |-> fd, interest |-> i, tid |-> 0]
         /\ TimedPark(q, i, id, k) = [st |-> "parked", park |-> k, fd |-> fd, interest |-> i, tid |-> id]
<1> DEFINE q1 == [q EXCEPT !.st = "parked"]
           q2 == [q1 EXCEPT !.park = "fd"]
           r2 == [q1 EXCEPT !.tid = id]
           r3 == [r2 EXCEPT !.interest = i]
<1>1. q1 = [st |-> "parked", park |-> "none", fd |-> fd, interest |-> "read", tid |-> 0]
  OBVIOUS
<1> HIDE DEF q1
<1>2. /\ q2 = [st |-> "parked", park |-> "fd", fd |-> fd, interest |-> "read", tid |-> 0]
      /\ r2 = [st |-> "parked", park |-> "none", fd |-> fd, interest |-> "read", tid |-> id]
  BY <1>1
<1> HIDE DEF q2, r2
<1>3. /\ [q2 EXCEPT !.interest = i] = [st |-> "parked", park |-> "fd", fd |-> fd, interest |-> i, tid |-> 0]
      /\ r3 = [st |-> "parked", park |-> "none", fd |-> fd, interest |-> i, tid |-> id]
  BY <1>2
<1> HIDE DEF r3
<1>4. [r3 EXCEPT !.park = k] = [st |-> "parked", park |-> k, fd |-> fd, interest |-> i, tid |-> id]
  BY <1>3
<1> QED BY <1>3, <1>4 DEF FdPark, TimedPark, q1, q2, r2, r3

(* scheduler_park_on_fd.                                                    *)
LEMMA ParkFdStep ==
  ASSUME PollInv, NEW t \in PollTasks, scheduler_park_on_fd(t)
  PROVE  PollInv' /\ PollStep
<1>0. PICK i \in Interests :
        /\ pollTask' = [pollTask EXCEPT ![t].st = "parked", ![t].park = "fd", ![t].interest = i]
        /\ pollB' = sprout_poll_add(pollB, pollTask[t].fd, i, t)
  BY DEF scheduler_park_on_fd
<1> DEFINE T == pollTask
           b == pollB
           fd == T[t].fd
           c == sprout_poll_add(b, fd, i, t)
           p == [st |-> "parked", park |-> "fd", fd |-> fd, interest |-> i, tid |-> 0]
<1>1. Running(t, "free") /\ fd # 0 /\ pollB' = c
  BY <1>0 DEF scheduler_park_on_fd
<1>2. /\ PollSound(T, b, {}) /\ T[t].st = "free" /\ BackendSound(b) /\ b \in Backend
      /\ T[t] \in TaskStates /\ T[t].park = "none" /\ T[t].tid = 0 /\ fd \in b.open
  BY <1>1, RunningTask
<1>3. /\ \A w \in WatchView(b) : w.fd # fd
      /\ b.name = "epoll" => \A e \in b.kernel : e.fd = fd => e.kind # "timer"
  <2>1. fd = T[t].fd
    OBVIOUS
  <2> HIDE DEF T, b, fd
  <2> QED BY <1>1, <1>2, <2>1, TaskWaits
<1>4. pollTask' = [pollTask EXCEPT ![t] = p] /\ ParkOf(p, pollTask[t].fd)
  <2>1. T \in [PollTasks -> TaskStates]
    BY <1>2 DEF PollSound, TasksSound
  <2>0. T[t] = [st |-> "free", park |-> "none", fd |-> fd, interest |-> "read", tid |-> 0]
    BY <1>2 DEF TaskStates, PollSound, TasksSound
  <2>2. FdPark(T[t], i) = p
    BY <2>0, ParkedRecord
  <2>3. pollTask' = [pollTask EXCEPT ![t] = p]
    BY <1>0, <2>1, <2>2 DEF FdPark
  <2>4. p \in TaskStates
    BY <1>2 DEF TaskStates
  <2> QED BY <1>1, <2>3, <2>4 DEF ParkOf
<1>5. /\ BackendSound(c) /\ c.name = b.name /\ c.open = b.open
      /\ WatchView(c) = WatchView(b) \cup {[fd |-> fd, kind |-> i, task |-> t]}
      /\ AlarmView(c) = AlarmView(b)
      /\ \A e \in c.kernel : e \in b.kernel \/ (e.fd = fd /\ e.kind = i /\ e.task = t)
      /\ \A e \in b.kernel : e.kind = "timer" => e \in c.kernel
  <2>1. c = sprout_poll_add(b, fd, i, t)
    OBVIOUS
  <2> HIDE DEF T, b, fd, c
  <2> QED BY <1>2, <1>3, <2>1, Added
<1>6. p.park = "fd" /\ p.fd = fd /\ p.interest = i /\ p.tid = 0 /\ "fd" # "timer" /\ i # "timer"
  BY DEF Interests
<1>7. NewTimer(pollTask, c, p)
  BY DEF NewTimer
<1> HIDE DEF c, p
<1>8. /\ \A w : w \in WatchView(c) <=> \/ w \in WatchView(pollB)
                                       \/ p.park # "timer" /\ w = [fd |-> p.fd, kind |-> p.interest, task |-> t]
      /\ \A a : a \in AlarmView(c) <=> \/ a \in AlarmView(pollB)
                                       \/ p.park # "fd" /\ a = [id |-> p.tid, left |-> 0, task |-> t]
      /\ c.name = "epoll" => \A e \in pollB.kernel : e.kind = "timer" => e \in c.kernel
      /\ c.name = "epoll" => \A e \in c.kernel : \/ e \in pollB.kernel
                                                 \/ e.task = t /\ e.fd = IF e.kind = "timer" THEN p.tid ELSE p.fd
      /\ c.name = pollB.name /\ pollB.open \subseteq c.open /\ c = pollB'
  BY <1>1, <1>5, <1>6
<1> QED BY <1>1, <1>4, <1>5, <1>6, <1>7, <1>8, Parks

(* The identifier of a new timer is new.                                    *)
LEMMA NewId ==
  ASSUME NEW b, b = pollB, PollSound(pollTask, b, {}), CanArm(b), NEW id, id = TimerId(b)
  PROVE  /\ id \in Nat \ {0} /\ (\A u \in PollTasks : pollTask[u].tid # id)
         /\ b.name = "epoll" => id \in 1 .. PollFdMax /\ id \notin b.open
         /\ \A e \in b.kernel : (b.name = "epoll" \/ e.kind = "timer") => e.fd # id
         /\ \A a \in AlarmView(b) : a.id # id
<1>1. /\ BackendSound(b) /\ b \in Backend /\ TasksSound(pollTask, b.open) /\ EpollFits(pollTask, b)
      /\ AlarmsFit(pollTask, b, {}) /\ pollTask \in [PollTasks -> TaskStates] /\ b.open \in SUBSET (1 .. PollFdMax)
  BY DEF PollSound, BackendSound, TasksSound, Backend
<1>2. \A u \in PollTasks : pollTask[u].tid \in Nat
  BY <1>1 DEF TaskStates
<1>3. \A e \in b.kernel : e.fd # 0 /\ e.task \in PollTasks
  BY <1>1 DEF Backend, KernelEntries
<1>4. CASE b.name = "epoll"
  <2>1. id = LowestFree(b.open) /\ b.open # 1 .. PollFdMax
    BY <1>4 DEF TimerId, CanArm
  <2>2. id \in 1 .. PollFdMax /\ id \notin b.open
    BY <1>1, <2>1, LowestFreeIs
  <2>3. id \in Nat \ {0}
    BY <2>2, PollAssumption
  <2>4. \A u \in PollTasks : pollTask[u].tid # id
    BY <1>1, <1>4, <2>2, <2>3 DEF EpollFits
  <2>5. ASSUME NEW e \in b.kernel PROVE e.fd # id
    <3>1. e.fd = IF e.kind = "timer" THEN pollTask[e.task].tid ELSE pollTask[e.task].fd
      BY <1>1, <1>4 DEF EpollFits
    <3>2. pollTask[e.task].fd # 0 => pollTask[e.task].fd \in b.open
      BY <1>1, <1>3 DEF TasksSound
    <3> QED BY <1>3, <2>2, <2>4, <3>1, <3>2
  <2>6. ASSUME NEW a \in AlarmView(b) PROVE a.id # id
    <3>1. a.task \in PollTasks
      BY <1>1, ViewTypes DEF TimerEntries
    <3> QED BY <1>1, <2>4, <3>1 DEF AlarmsFit
  <2> QED BY <1>4, <2>2, <2>3, <2>4, <2>5, <2>6
<1>5. CASE b.name # "epoll"
  <2> DEFINE m == Cardinality(PollTasks)
  <2>1. id = CHOOSE n \in 1 .. m + 1 : \A u \in PollTasks : pollTask[u].tid # n
    BY <1>5 DEF TimerId
  <2>2. \E n \in 1 .. m + 1 : \A u \in PollTasks : pollTask[u].tid # n
    BY <1>1, FreshNumber
  <2>3. id \in 1 .. m + 1 /\ \A u \in PollTasks : pollTask[u].tid # id
    BY <2>1, <2>2
  <2>4. id \in Nat \ {0}
    BY <2>3, FS_CardinalityType, PollAssumption
  <2>5. ASSUME NEW a \in AlarmView(b) PROVE a.id # id
    <3>1. a.task \in PollTasks
      BY <1>1, ViewTypes DEF TimerEntries
    <3> QED BY <1>1, <2>3, <3>1 DEF AlarmsFit
  <2>6. ASSUME NEW e \in b.kernel, e.kind = "timer" PROVE e.fd # id
    <3>1. b.name = "kqueue" /\ e.armed
      BY <1>1, <1>5 DEF BackendSound, Backend, Backends
    <3> DEFINE a == [id |-> e.fd, left |-> e.left, task |-> e.task]
    <3>2. a \in AlarmView(b) /\ a.id = e.fd
      BY <2>6, <3>1, KernelViews
    <3> HIDE DEF a
    <3> QED BY <2>5, <3>2
  <2> QED BY <1>5, <2>3, <2>4, <2>5, <2>6
<1> QED BY <1>4, <1>5

(* scheduler_park_on_fd_timeout.                                            *)
LEMMA ParkTimeoutStep ==
  ASSUME PollInv, NEW t \in PollTasks, scheduler_park_on_fd_timeout(t)
  PROVE  PollInv' /\ PollStep
<1> DEFINE T == pollTask
           b == pollB
           id == TimerId(b)
           fd == T[t].fd
           kindOf == IF fd = 0 THEN "timer" ELSE "both"
<1>0. PICK i \in Interests, ms \in PollDelays :
        /\ pollTask' = [pollTask EXCEPT ![t] = TimedPark(T[t], i, id, kindOf)]
        /\ pollB' = IF fd = 0 THEN sprout_poll_add_timer(b, ms, t)
                    ELSE sprout_poll_add(sprout_poll_add_timer(b, ms, t), fd, i, t)
  BY DEF scheduler_park_on_fd_timeout, TimedPark
<1> DEFINE d == sprout_poll_add_timer(b, ms, t)
           c == IF fd = 0 THEN d ELSE sprout_poll_add(d, fd, i, t)
           p == [st |-> "parked", park |-> kindOf, fd |-> fd, interest |-> i, tid |-> id]
<1>1. Running(t, "free") /\ CanArm(b) /\ pollB' = c
  BY <1>0 DEF scheduler_park_on_fd_timeout
<1>2. /\ PollSound(T, b, {}) /\ T[t].st = "free" /\ BackendSound(b) /\ b \in Backend
      /\ T[t] \in TaskStates /\ T[t].park = "none" /\ T[t].tid = 0 /\ (fd # 0 => fd \in b.open)
  BY <1>1, RunningTask
<1>3. /\ fd # 0 => \A w \in WatchView(b) : w.fd # fd
      /\ fd # 0 => (b.name = "epoll" => \A e \in b.kernel : e.fd = fd => e.kind # "timer")
  <2>1. fd = T[t].fd
    OBVIOUS
  <2> HIDE DEF T, b, fd
  <2> QED BY <1>1, <1>2, <2>1, TaskWaits
<1>4. /\ id \in Nat \ {0} /\ (\A u \in PollTasks : T[u].tid # id)
      /\ b.name = "epoll" => id \in 1 .. PollFdMax /\ id \notin b.open
      /\ \A e \in b.kernel : (b.name = "epoll" \/ e.kind = "timer") => e.fd # id
      /\ \A a \in AlarmView(b) : a.id # id
  <2>1. b = pollB /\ id = TimerId(b)
    OBVIOUS
  <2> HIDE DEF b, id
  <2> QED BY <1>1, <1>2, <2>1, NewId
<1>5. pollTask' = [pollTask EXCEPT ![t] = p] /\ ParkOf(p, pollTask[t].fd)
  <2> HIDE DEF id
  <2>0. T[t] = [st |-> "free", park |-> "none", fd |-> fd, interest |-> "read", tid |-> 0]
    BY <1>2 DEF TaskStates, PollSound, TasksSound
  <2>1. TimedPark(T[t], i, id, kindOf) = p
    BY <2>0, ParkedRecord
  <2>2. p \in TaskStates
    BY <1>2, <1>4 DEF TaskStates
  <2> QED BY <1>0, <1>4, <2>1, <2>2 DEF ParkOf
<1>6. /\ BackendSound(d) /\ d.name = b.name /\ d.open = IF b.name = "epoll" THEN b.open \cup {id} ELSE b.open
      /\ WatchView(d) = WatchView(b) /\ AlarmView(d) = AlarmView(b) \cup {[id |-> id, left |-> ms, task |-> t]}
      /\ b.name # "wsapoll" =>
           d.kernel = b.kernel \cup {[fd |-> id, kind |-> "timer", task |-> t, armed |-> TRUE, left |-> ms]}
  <2>1. ms \in Int
    BY PollAssumption
  <2>2. id = TimerId(b) /\ d = sprout_poll_add_timer(b, ms, t)
    OBVIOUS
  <2> HIDE DEF b, id, d
  <2> QED BY <1>2, <1>4, <2>1, <2>2, NewlyArmed
<1>7. b.name = "epoll" => \A u \in PollTasks : T[u].fd # id
  <2> HIDE DEF id
  <2> QED BY <1>2, <1>4 DEF PollSound, TasksSound
<1> HIDE DEF d, id
<1>8. /\ BackendSound(c) /\ c.name = b.name /\ c.open = d.open
      /\ \A w : w \in WatchView(c) <=> w \in WatchView(b) \/ (fd # 0 /\ w = [fd |-> fd, kind |-> i, task |-> t])
      /\ AlarmView(c) = AlarmView(d)
      /\ \A e \in c.kernel : e \in d.kernel \/ (e.fd = fd /\ e.kind = i /\ e.task = t)
      /\ \A e \in d.kernel : e.kind = "timer" => e \in c.kernel
  <2>1. CASE fd = 0
    <3>1. c = d
      BY <2>1
    <3> HIDE DEF c
    <3> QED BY <1>6, <2>1, <3>1
  <2>2. CASE fd # 0
    <3>1. c = sprout_poll_add(d, fd, i, t) /\ fd \in d.open
      BY <1>2, <1>6, <2>2
    <3>2. \A w \in WatchView(d) : w.fd # fd
      BY <1>3, <1>6, <2>2
    <3>3. d.name = "epoll" => \A e \in d.kernel : e.fd = fd => e.kind # "timer"
      BY <1>3, <1>6, <1>7, <2>2
    <3>4. /\ BackendSound(c) /\ c.name = d.name /\ c.open = d.open
          /\ WatchView(c) = WatchView(d) \cup {[fd |-> fd, kind |-> i, task |-> t]}
          /\ AlarmView(c) = AlarmView(d)
          /\ \A e \in c.kernel : e \in d.kernel \/ (e.fd = fd /\ e.kind = i /\ e.task = t)
          /\ \A e \in d.kernel : e.kind = "timer" => e \in c.kernel
      <4> HIDE DEF T, b, fd, c
      <4> QED BY <1>6, <3>1, <3>2, <3>3, Added
    <3> HIDE DEF c
    <3> QED BY <1>6, <2>2, <3>4
  <2> QED BY <2>1, <2>2
<1>9. p.park = kindOf /\ p.fd = fd /\ p.interest = i /\ p.tid = id /\ i # "timer" /\ kindOf # "fd" /\ (kindOf = "timer" <=> fd = 0)
  BY DEF Interests
<1> HIDE DEF c, p
<1>10. NewTimer(pollTask, c, p)
  <2>1. c.name = "epoll" => \E e \in c.kernel : e.kind = "timer" /\ e.fd = id
    <3> DEFINE e0 == [fd |-> id, kind |-> "timer", task |-> t, armed |-> TRUE, left |-> ms]
    <3>1. c.name = "epoll" => e0 \in d.kernel
      BY <1>6, <1>8
    <3>2. e0.kind = "timer" /\ e0.fd = id
      OBVIOUS
    <3> HIDE DEF e0
    <3> QED BY <1>8, <3>1, <3>2
  <2> QED BY <1>4, <1>6, <1>7, <1>8, <1>9, <2>1 DEF NewTimer
<1>11. /\ \A w : w \in WatchView(c) <=> \/ w \in WatchView(pollB)
                                        \/ p.park # "timer" /\ w = [fd |-> p.fd, kind |-> p.interest, task |-> t]
       /\ \A a : a \in AlarmView(c) <=> \/ a \in AlarmView(pollB)
                                        \/ p.park # "fd" /\ a = [id |-> p.tid, left |-> ms, task |-> t]
  BY <1>6, <1>8, <1>9
<1>12. c.name = pollB.name /\ pollB.open \subseteq c.open /\ c = pollB'
  BY <1>1, <1>6, <1>8
<1>13. c.name = "epoll" => \A e \in pollB.kernel : e.kind = "timer" => e \in c.kernel
  BY <1>6, <1>8
<1>14. c.name = "epoll" => \A e \in c.kernel : \/ e \in pollB.kernel
                                               \/ e.task = t /\ e.fd = IF e.kind = "timer" THEN p.tid ELSE p.fd
  BY <1>6, <1>8, <1>9
<1> QED BY <1>1, <1>5, <1>8, <1>10, <1>11, <1>12, <1>13, <1>14, Parks

\* An entry of the kernel a moment later.
Passed(e) == IF e.kind = "timer" /\ e.armed THEN Pass(e) ELSE e

(* The fields of an entry a moment later.                                   *)
LEMMA PassedFields ==
  /\ \A e \in KernelEntries : /\ Passed(e) \in KernelEntries /\ Passed(e).fd = e.fd /\ Passed(e).kind = e.kind
                              /\ Passed(e).task = e.task /\ Passed(e).armed = e.armed
                              /\ e.kind = "timer" /\ e.armed => Passed(e).left = e.left - 1
  /\ \A e \in TimerEntries : Pass(e) \in TimerEntries /\ Pass(e).id = e.id /\ Pass(e).task = e.task /\ Pass(e).left = e.left - 1
<1>1. ASSUME NEW e \in KernelEntries
      PROVE  /\ Passed(e) \in KernelEntries /\ Passed(e).fd = e.fd /\ Passed(e).kind = e.kind
             /\ Passed(e).task = e.task /\ Passed(e).armed = e.armed
             /\ e.kind = "timer" /\ e.armed => Passed(e).left = e.left - 1
  <2>1. /\ Pass(e) \in KernelEntries /\ Pass(e).fd = e.fd /\ Pass(e).kind = e.kind
        /\ Pass(e).task = e.task /\ Pass(e).armed = e.armed /\ Pass(e).left = e.left - 1
    BY DEF Pass, KernelEntries
  <2> QED BY <2>1 DEF Passed
<1>2. ASSUME NEW e \in TimerEntries PROVE Pass(e) \in TimerEntries /\ Pass(e).id = e.id /\ Pass(e).task = e.task /\ Pass(e).left = e.left - 1
  BY DEF Pass, TimerEntries
<1> QED BY <1>1, <1>2

(* A moment passes in the kernel.                                           *)
LEMMA TickKernel ==
  ASSUME NEW b, BackendSound(b), b.name # "wsapoll", NEW c \in Backend, c.name = b.name,
         c.kernel = {Passed(e) : e \in b.kernel}
  PROVE  /\ BackendSound(c) /\ WatchView(c) = WatchView(b)
         /\ \A a : a \in AlarmView(c) <=> \E d \in AlarmView(b) : a = Pass(d)
<1>1. b.kernel \subseteq KernelEntries /\ c.kernel \subseteq KernelEntries /\ IsFiniteSet(b.kernel)
  BY DEF BackendSound, Backend
<1>2. \A e \in b.kernel : /\ Passed(e) \in c.kernel /\ Passed(e).fd = e.fd /\ Passed(e).kind = e.kind
                          /\ Passed(e).task = e.task /\ Passed(e).armed = e.armed
                          /\ e.kind = "timer" /\ e.armed => Passed(e).left = e.left - 1
  BY <1>1, PassedFields
<1>3. \A e \in c.kernel : \E x \in b.kernel : e = Passed(x)
  OBVIOUS
<1>4. BackendSound(c)
  <2>1. IsFiniteSet(c.kernel)
    <3> DEFINE f == [e \in b.kernel |-> Passed(e)]
    <3>1. f \in Surjection(b.kernel, c.kernel)
      BY DEF Surjection
    <3> HIDE DEF f
    <3> QED BY <1>1, <3>1, FS_Surjection
  <2>2. KernelKeyed(c)
    <3> SUFFICES ASSUME NEW d \in c.kernel, NEW e \in c.kernel, d.fd = e.fd, b.name = "epoll" \/ d.kind = e.kind
                 PROVE  d = e
      BY DEF KernelKeyed
    <3>1. PICK x \in b.kernel, y \in b.kernel : d = Passed(x) /\ e = Passed(y)
      BY <1>3
    <3>2. x.fd = y.fd /\ (b.name = "epoll" \/ x.kind = y.kind)
      BY <1>2, <3>1
    <3>3. x = y
      BY <3>2 DEF BackendSound, KernelKeyed
    <3> QED BY <3>1, <3>3
  <2>3. c.name = "kqueue" => \A e \in c.kernel : e.armed
    BY <1>2, <1>3 DEF BackendSound
  <2> QED BY <2>1, <2>2, <2>3 DEF BackendSound
<1>5. ASSUME NEW w PROVE w \in WatchView(c) <=> w \in WatchView(b)
  <2>1. w \in WatchView(c) <=> \E e \in c.kernel : e.armed /\ e.kind # "timer" /\ w = [fd |-> e.fd, kind |-> e.kind, task |-> e.task]
    BY KernelViews
  <2>2. w \in WatchView(b) <=> \E e \in b.kernel : e.armed /\ e.kind # "timer" /\ w = [fd |-> e.fd, kind |-> e.kind, task |-> e.task]
    BY KernelViews
  <2>3. \A e \in b.kernel : e.kind # "timer" => Passed(e) = e
    BY DEF Passed
  <2> QED BY <1>2, <1>3, <2>1, <2>2, <2>3
<1>6. ASSUME NEW a PROVE a \in AlarmView(c) <=> \E d \in AlarmView(b) : a = Pass(d)
  <2>0. \A e \in b.kernel : e.armed /\ e.kind = "timer" =>
           [id |-> Passed(e).fd, left |-> Passed(e).left, task |-> Passed(e).task]
             = Pass([id |-> e.fd, left |-> e.left, task |-> e.task])
    BY <1>2 DEF Pass
  <2>1. ASSUME a \in AlarmView(c) PROVE \E d \in AlarmView(b) : a = Pass(d)
    <3>1. PICK e \in c.kernel : e.armed /\ e.kind = "timer" /\ a = [id |-> e.fd, left |-> e.left, task |-> e.task]
      BY <2>1, KernelViews
    <3>2. PICK x \in b.kernel : e = Passed(x)
      BY <1>3
    <3>3. x.armed /\ x.kind = "timer"
      BY <1>2, <3>1, <3>2
    <3>4. [id |-> x.fd, left |-> x.left, task |-> x.task] \in AlarmView(b)
      BY <3>3, KernelViews
    <3> QED BY <2>0, <3>1, <3>2, <3>3, <3>4
  <2>2. ASSUME NEW d \in AlarmView(b), a = Pass(d) PROVE a \in AlarmView(c)
    <3>1. PICK e \in b.kernel : e.armed /\ e.kind = "timer" /\ d = [id |-> e.fd, left |-> e.left, task |-> e.task]
      BY KernelViews
    <3>2. Passed(e) \in c.kernel /\ Passed(e).armed /\ Passed(e).kind = "timer"
      BY <1>2, <3>1
    <3>3. [id |-> Passed(e).fd, left |-> Passed(e).left, task |-> Passed(e).task] \in AlarmView(c)
      BY <3>2, KernelViews
    <3> QED BY <2>0, <2>2, <3>1, <3>3
  <2> QED BY <2>1, <2>2
<1>7. WatchView(c) = WatchView(b)
  BY <1>5
<1> QED BY <1>4, <1>6, <1>7

(* A moment passes in the heap: the order of the deadlines stays.           *)
LEMMA TickArray ==
  ASSUME NEW b, BackendSound(b), b.name = "wsapoll", NEW c \in Backend, c.name = b.name, c.kernel = b.kernel,
         c.fds = b.fds, c.timers = [i \in DOMAIN b.timers |-> Pass(b.timers[i])],
         \A a, d \in AlarmView(b) : a.id = d.id => a = d
  PROVE  /\ BackendSound(c) /\ WatchView(c) = WatchView(b)
         /\ \A a : a \in AlarmView(c) <=> \E d \in AlarmView(b) : a = Pass(d)
<1> DEFINE h == b.timers
           g == c.timers
           n == Len(h)
<1>1. /\ h \in GoodHeaps(TimerEntries) /\ h \in Seq(TimerEntries) /\ b.fds \in Seq(FdEntries) /\ ArrayKeyed(b.fds)
      /\ WatchView(b) = Range(b.fds) /\ AlarmView(b) = Range(h)
  BY Arrays
<1>2. n \in Nat /\ DOMAIN h = 1 .. n /\ \A i \in 1 .. n : h[i] \in TimerEntries /\ h[i] \in AlarmView(b)
  BY <1>1 DEF Range
<1>3. g = [i \in DOMAIN h |-> Pass(h[i])]
  OBVIOUS
<1>4. Ordered(h, n) /\ Distinct(h)
  BY <1>1 DEF GoodHeaps
<1> HIDE DEF h, g, n
<1>5. g \in [1 .. n -> TimerEntries] /\ \A i \in 1 .. n : g[i] = Pass(h[i])
  BY <1>2, <1>3, PassedFields
<1>6. g \in Seq(TimerEntries) /\ Len(g) = n /\ DOMAIN g = 1 .. n
  BY <1>2, <1>5
<1>7. \A i \in 1 .. n : g[i].left = h[i].left - 1 /\ g[i].id = h[i].id /\ h[i].left \in Int
  BY <1>2, <1>5, PassedFields DEF TimerEntries
<1>8. Ordered(g, n)
  <2>1. ASSUME NEW j \in 2 .. n PROVE g[j \div 2].left <= g[j].left
    <3>1. j \in 1 .. n /\ j \div 2 \in 1 .. n
      BY <1>2
    <3>2. h[j \div 2].left <= h[j].left
      BY <1>4 DEF Ordered
    <3> QED BY <1>7, <3>1, <3>2
  <2> QED BY <2>1 DEF Ordered
<1>9. Distinct(g)
  <2>1. ASSUME NEW i \in 1 .. n, NEW j \in 1 .. n, g[i] = g[j] PROVE i = j
    <3>1. h[i].id = h[j].id
      BY <1>7, <2>1
    <3>2. h[i] = h[j]
      BY <1>2, <3>1
    <3> QED BY <1>2, <1>4, <3>2 DEF Distinct
  <2> QED BY <1>6, <2>1 DEF Distinct
<1>10. g \in GoodHeaps(TimerEntries)
  BY <1>6, <1>8, <1>9 DEF GoodHeaps
<1>11. BackendSound(c) /\ WatchView(c) = Range(b.fds) /\ AlarmView(c) = Range(g)
  <2>1. c.timers = g
    BY DEF g
  <2> QED BY <1>1, <1>10, <2>1, NewArrays
<1>12. \A a : a \in Range(g) <=> \E d \in Range(h) : a = Pass(d)
  <2>1. \A a : a \in Range(g) <=> \E i \in 1 .. n : a = Pass(h[i])
    BY <1>5, <1>6 DEF Range
  <2>2. \A d : d \in Range(h) <=> \E i \in 1 .. n : d = h[i]
    BY <1>2 DEF Range
  <2> QED BY <2>1, <2>2
<1> QED BY <1>1, <1>11, <1>12

(* Tick.                                                                    *)
LEMMA TickStep ==
  ASSUME PollInv, Tick
  PROVE  PollInv' /\ PollStep
<1> DEFINE T == pollTask
           b == pollB
           c == pollB'
           K == {Passed(e) : e \in b.kernel}
           h == [i \in DOMAIN b.timers |-> Pass(b.timers[i])]
<1>1. pollTold = {} /\ pollTold' = {} /\ pollTask' = T
  BY DEF Tick
<1>2. /\ PollSound(T, b, {}) /\ BackendSound(b) /\ b \in Backend /\ TasksSound(T, b.open) /\ EpollFits(T, b)
      /\ WatchesFit(T, b, {}) /\ AlarmsFit(T, b, {}) /\ \A a, d \in AlarmView(b) : a.id = d.id => a = d
  BY <1>1 DEF PollInv, PollSound, BackendSound, AlarmsFit
<1>3. c = [[b EXCEPT !.kernel = K] EXCEPT !.timers = h]
  BY <1>2 DEF Tick, Passed, Backend
<1>4. K \subseteq KernelEntries /\ h \in Seq(TimerEntries)
  <2>1. b.kernel \subseteq KernelEntries /\ b.timers \in Seq(TimerEntries)
    BY <1>2 DEF Backend
  <2>2. K \subseteq KernelEntries
    BY <2>1, PassedFields
  <2>3. h \in [1 .. Len(b.timers) -> TimerEntries]
    BY <2>1, PassedFields
  <2> QED BY <2>1, <2>2, <2>3
<1>5. c \in Backend /\ c.name = b.name /\ c.kernel = K /\ c.fds = b.fds /\ c.timers = h /\ c.open = b.open
  <2> HIDE DEF K, h
  <2> QED BY <1>2, <1>3, <1>4 DEF Backend
<1>6. /\ BackendSound(c) /\ WatchView(c) = WatchView(b)
      /\ \A a : a \in AlarmView(c) <=> \E d \in AlarmView(b) : a = Pass(d)
  <2>1. CASE b.name = "wsapoll"
    <3>1. c.kernel = b.kernel
      BY <1>2, <1>5, <2>1, Arrays
    <3>2. c.timers = [i \in DOMAIN b.timers |-> Pass(b.timers[i])]
      BY <1>5
    <3> HIDE DEF b, c, K, h
    <3> QED BY <1>2, <1>5, <2>1, <3>1, <3>2, TickArray
  <2>2. CASE b.name # "wsapoll"
    <3>1. c.kernel = {Passed(e) : e \in b.kernel}
      BY <1>5
    <3> HIDE DEF b, c, K, h
    <3> QED BY <1>2, <1>5, <2>2, <3>1, TickKernel
  <2> QED BY <2>1, <2>2
<1>7. EpollFits(T, c)
  <2>1. /\ \A e \in b.kernel : Passed(e) \in c.kernel /\ Passed(e).fd = e.fd /\ Passed(e).kind = e.kind /\ Passed(e).task = e.task
        /\ \A e \in c.kernel : \E x \in b.kernel : e = Passed(x)
    BY <1>2, <1>5, PassedFields DEF Backend
  <2> HIDE DEF T, b, c, K, h
  <2> SUFFICES ASSUME b.name = "epoll"
               PROVE  /\ \A e \in c.kernel : e.fd = IF e.kind = "timer" THEN T[e.task].tid ELSE T[e.task].fd
                      /\ \A u \in PollTasks : T[u].tid # 0 =>
                           /\ T[u].tid \in c.open /\ \A v \in PollTasks : T[v].fd # T[u].tid
                           /\ \E e \in c.kernel : e.kind = "timer" /\ e.fd = T[u].tid
    BY <1>5 DEF EpollFits
  <2>2. ASSUME NEW e \in c.kernel PROVE e.fd = IF e.kind = "timer" THEN T[e.task].tid ELSE T[e.task].fd
    <3>1. PICK x \in b.kernel : e = Passed(x)
      BY <2>1
    <3>2. e.fd = x.fd /\ e.kind = x.kind /\ e.task = x.task
      BY <2>1, <3>1
    <3> QED BY <1>2, <3>2 DEF EpollFits
  <2>3. ASSUME NEW u \in PollTasks, T[u].tid # 0
        PROVE  /\ T[u].tid \in c.open /\ \A v \in PollTasks : T[v].fd # T[u].tid
               /\ \E e \in c.kernel : e.kind = "timer" /\ e.fd = T[u].tid
    <3>1. /\ T[u].tid \in b.open /\ \A v \in PollTasks : T[v].fd # T[u].tid
          /\ \E e \in b.kernel : e.kind = "timer" /\ e.fd = T[u].tid
      BY <1>2, <2>3 DEF EpollFits
    <3>2. \E e \in c.kernel : e.kind = "timer" /\ e.fd = T[u].tid
      BY <2>1, <3>1
    <3> QED BY <1>5, <3>1, <3>2
  <2> QED BY <2>2, <2>3
<1> HIDE DEF T, b, c, K, h
<1>8. \A d \in AlarmView(b) : /\ Pass(d).id = d.id /\ Pass(d).task = d.task /\ Pass(d).left = d.left - 1
                              /\ Pass(d) \in AlarmView(c)
  BY <1>2, <1>6, ViewTypes, PassedFields
<1>9. WatchesFit(T, c, {}) /\ AlarmsFit(T, c, {})
  <2>1. WatchesFit(T, c, {})
    BY <1>2, <1>6 DEF WatchesFit
  <2>2. ASSUME NEW a \in AlarmView(c) PROVE a.id = T[a.task].tid
    <3>1. PICK d \in AlarmView(b) : a = Pass(d)
      BY <1>6
    <3> QED BY <1>2, <1>8, <3>1 DEF AlarmsFit
  <2>3. ASSUME NEW a \in AlarmView(c), NEW e \in AlarmView(c), a.id = e.id PROVE a = e
    <3>1. PICK d \in AlarmView(b), f \in AlarmView(b) : a = Pass(d) /\ e = Pass(f)
      BY <1>6
    <3>2. d = f
      BY <1>2, <1>8, <2>3, <3>1
    <3> QED BY <3>1, <3>2
  <2> QED BY <2>1, <2>2, <2>3 DEF AlarmsFit
<1>10. PollInv'
  <2>1. ToldFits(T, {}) /\ TasksSound(T, c.open)
    BY <1>2, <1>5 DEF ToldFits
  <2>2. PollSound(T, c, {})
    BY <1>6, <1>7, <1>9, <2>1 DEF PollSound
  <2> QED BY <1>1, <2>2 DEF PollInv, c
<1>11. WatchMap(c) = WatchMap(b)
  BY <1>2, <1>6, <1>9, WatchMapIs
<1>12. ASSUME NEW t \in PollTasks
       PROVE  AlarmMap(c)[t] = IF AlarmMap(b)[t] = <<>> THEN <<>> ELSE <<AlarmMap(b)[t][1] - 1>>
  <2>0. /\ \A a \in AlarmView(b) : AlarmMap(b)[a.task] = <<a.left>>
        /\ \A a \in AlarmView(c) : AlarmMap(c)[a.task] = <<a.left>>
        /\ (~\E a \in AlarmView(b) : a.task = t) => AlarmMap(b)[t] = <<>>
        /\ (~\E a \in AlarmView(c) : a.task = t) => AlarmMap(c)[t] = <<>>
    BY <1>2, <1>6, <1>9, AlarmMapIs
  <2>1. CASE \E d \in AlarmView(b) : d.task = t
    <3>1. PICK d \in AlarmView(b) : d.task = t
      BY <2>1
    <3>2. AlarmMap(b)[t] = <<d.left>> /\ AlarmMap(c)[t] = <<d.left - 1>>
      BY <1>8, <2>0, <3>1
    <3> QED BY <3>2
  <2>2. CASE ~\E d \in AlarmView(b) : d.task = t
    <3>1. ~\E a \in AlarmView(c) : a.task = t
      BY <1>6, <1>8, <2>2
    <3> QED BY <2>0, <2>2, <3>1
  <2> QED BY <2>1, <2>2
<1>13. AlarmMap(c) = [t \in PollTasks |-> IF AlarmMap(b)[t] = <<>> THEN <<>> ELSE <<AlarmMap(b)[t][1] - 1>>]
  <2>1. AlarmMap(c) = [t \in PollTasks |-> AlarmMap(c)[t]]
    BY <1>6, <1>9, AlarmMapIs
  <2> QED BY <1>12, <2>1
<1>14. Contract!Tick
  BY <1>1, <1>11, <1>13 DEF Contract!Tick, Contract!NoAlarm, b, c
<1> QED BY <1>10, <1>14 DEF PollStep, Contract!Next

(* A finite set in some order.                                              *)
LEMMA Enumerated ==
  ASSUME NEW S, IsFiniteSet(S), NEW q, q = SetToSeq(S)
  PROVE  /\ q \in Seq(S) /\ (\A i, j \in DOMAIN q : q[i] = q[j] => i = j)
         /\ Range(q) = S
<1> DEFINE n == Cardinality(S)
<1>1. n \in Nat /\ ExistsBijection(1 .. n, S)
  BY FS_CardinalityType
<1>2. \E f \in [1 .. n -> S] : IsInjective(f)
  BY <1>1 DEF ExistsBijection, Bijection, Injection, IsInjective
<1>3. q \in [1 .. n -> S] /\ IsInjective(q)
  BY <1>2 DEF SetToSeq
<1> HIDE DEF n
<1>4. q \in Injection(1 .. n, S)
  BY <1>3 DEF Injection
<1>5. Cardinality(1 .. n) = n
  BY <1>1, FS_Interval
<1>6. q \in Surjection(1 .. n, S)
  BY <1>4, <1>5, FS_Injection DEF n
<1>7. Range(q) = S
  BY <1>3, <1>6 DEF Range, Surjection
<1>8. q \in Seq(S) /\ DOMAIN q = 1 .. n
  BY <1>1, <1>3
<1> QED BY <1>3, <1>7, <1>8 DEF IsInjective

\* The states of the pump's loop: the timers still to be torn down are there.
Retiring == {s \in [ids : Seq(Nat), b : Backend] :
  /\ BackendSound(s.b)
  /\ \A a, d \in AlarmView(s.b) : a.id = d.id => a = d
  /\ \A i, j \in DOMAIN s.ids : s.ids[i] = s.ids[j] => i = j
  /\ \A id \in Range(s.ids) : TimerDescriptor(s.b, id)}

\* From b to c the timers in G were torn down, and nothing else.
Lost(b, c, G) ==
  /\ c.name = b.name
  /\ c.open = IF b.name = "epoll" THEN b.open \ G ELSE b.open
  /\ WatchView(c) = WatchView(b) /\ AlarmView(c) = {a \in AlarmView(b) : a.id \notin G}
  /\ c.kernel = {e \in b.kernel : e.fd \notin G \/ e.kind # "timer"}

(* The first of a sequence without repetitions, and the others.             *)
LEMMA HeadTail ==
  ASSUME NEW q \in Seq(Nat), q # <<>>, \A i, j \in DOMAIN q : q[i] = q[j] => i = j
  PROVE  /\ Tail(q) \in Seq(Nat) /\ Len(Tail(q)) = Len(q) - 1 /\ Len(q) \in Nat \ {0}
         /\ \A i, j \in DOMAIN Tail(q) : Tail(q)[i] = Tail(q)[j] => i = j
         /\ Range(Tail(q)) = Range(q) \ {Head(q)} /\ Head(q) \in Range(q)
<1> DEFINE n == Len(q)
           r == Tail(q)
<1>1. n \in Nat \ {0} /\ DOMAIN q = 1 .. n /\ Head(q) = q[1] /\ r \in Seq(Nat) /\ Len(r) = n - 1
  OBVIOUS
<1>2. DOMAIN r = 1 .. n - 1 /\ \A i \in 1 .. n - 1 : r[i] = q[i + 1]
  BY <1>1
<1> HIDE DEF n, r
<1>3. \A i, j \in DOMAIN r : r[i] = r[j] => i = j
  <2>1. ASSUME NEW i \in 1 .. n - 1, NEW j \in 1 .. n - 1, r[i] = r[j] PROVE i = j
    <3>1. i + 1 \in DOMAIN q /\ j + 1 \in DOMAIN q /\ q[i + 1] = q[j + 1]
      BY <1>1, <1>2, <2>1
    <3>2. i + 1 = j + 1
      BY <3>1
    <3> QED BY <3>2
  <2> QED BY <1>2, <2>1
<1>4. ASSUME NEW x \in Range(r) PROVE x \in Range(q) /\ x # Head(q)
  <2>1. PICK i \in 1 .. n - 1 : x = r[i]
    BY <1>2 DEF Range
  <2>2. i + 1 \in DOMAIN q /\ 1 \in DOMAIN q /\ x = q[i + 1] /\ i + 1 # 1
    BY <1>1, <1>2, <2>1
  <2> QED BY <1>1, <2>2 DEF Range
<1>5. ASSUME NEW x \in Range(q), x # Head(q) PROVE x \in Range(r)
  <2>1. PICK i \in 1 .. n : x = q[i]
    BY <1>1 DEF Range
  <2>2. i - 1 \in 1 .. n - 1 /\ r[i - 1] = q[(i - 1) + 1] /\ (i - 1) + 1 = i
    BY <1>1, <1>2, <1>5, <2>1
  <2> QED BY <1>2, <2>1, <2>2 DEF Range
<1>6. Head(q) \in Range(q)
  BY <1>1 DEF Range
<1> QED BY <1>1, <1>3, <1>4, <1>5, <1>6 DEF n, r

(* One turn of the loop.                                                    *)
LEMMA RetireKeeps ==
  ASSUME NEW s \in Retiring, NEW u, u = RetireTurn(s)
  PROVE  /\ u \in Retiring
         /\ s.ids = <<>> => u = s
         /\ s.ids # <<>> => /\ Len(u.ids) = Len(s.ids) - 1 /\ Len(s.ids) \in Nat \ {0}
                            /\ Range(u.ids) = Range(s.ids) \ {Head(s.ids)} /\ Head(s.ids) \in Range(s.ids)
                            /\ Lost(s.b, u.b, {Head(s.ids)})
<1>1. CASE s.ids = <<>>
  BY <1>1 DEF RetireTurn
<1>2. CASE s.ids # <<>>
  <2> DEFINE q == s.ids
             id == Head(q)
             b == s.b
             c == u.b
  <2>1. /\ q \in Seq(Nat) /\ (\A i, j \in DOMAIN q : q[i] = q[j] => i = j) /\ BackendSound(b)
        /\ (\A a, d \in AlarmView(b) : a.id = d.id => a = d)
        /\ \A x \in Range(q) : TimerDescriptor(b, x)
    BY DEF Retiring
  <2>2. u = [ids |-> Tail(q), b |-> sprout_poll_remove_timer(b, id)]
    BY <1>2 DEF RetireTurn
  <2>3. u.ids = Tail(q) /\ c = sprout_poll_remove_timer(b, id)
    BY <2>2
  <2>4. /\ Tail(q) \in Seq(Nat) /\ Len(Tail(q)) = Len(q) - 1 /\ Len(q) \in Nat \ {0}
        /\ \A i, j \in DOMAIN Tail(q) : Tail(q)[i] = Tail(q)[j] => i = j
        /\ Range(Tail(q)) = Range(q) \ {id} /\ id \in Range(q)
    <3> HIDE DEF q
    <3> QED BY <1>2, <2>1, HeadTail DEF q
  <2>5. /\ BackendSound(c) /\ c.name = b.name /\ c.open = IF b.name = "epoll" THEN b.open \ {id} ELSE b.open
        /\ WatchView(c) = WatchView(b) /\ AlarmView(c) = {a \in AlarmView(b) : a.id # id}
        /\ c.kernel = {e \in b.kernel : e.fd # id \/ e.kind # "timer"}
    <3>1. TimerDescriptor(b, id)
      BY <2>1, <2>4
    <3>2. /\ BackendSound(b) /\ (\A a, d \in AlarmView(b) : a.id = d.id => a = d)
          /\ c = sprout_poll_remove_timer(b, id)
      BY <2>1, <2>3
    <3> HIDE DEF b, c, id, q
    <3> QED BY ONLY <3>1, <3>2, Retired
  <2>6. Lost(b, c, {id})
    <3> HIDE DEF b, c, id
    <3> QED BY <2>5 DEF Lost
  <2>7. ASSUME NEW x \in Range(q) \ {id} PROVE TimerDescriptor(c, x)
    <3>1. TimerDescriptor(b, x)
      BY <2>1
    <3> HIDE DEF b, c, id, q
    <3>2. c.name = "epoll" => /\ \A e \in b.kernel : e.fd = x => e.kind = "timer"
                              /\ \E e \in b.kernel : e.fd = x
      BY <2>5, <3>1 DEF TimerDescriptor
    <3> QED BY <2>5, <3>2 DEF TimerDescriptor
  <2>8. u \in [ids : Seq(Nat), b : Backend]
    BY <2>2, <2>3, <2>4, <2>5 DEF BackendSound
  <2>9. \A a, d \in AlarmView(c) : a.id = d.id => a = d
    BY <2>1, <2>5
  <2>10. u \in Retiring
    <3> HIDE DEF b, c, id, q
    <3> QED BY <2>3, <2>4, <2>5, <2>7, <2>8, <2>9 DEF Retiring, c
  <2> QED BY <1>2, <2>3, <2>4, <2>6, <2>10
<1> QED BY <1>1, <1>2

RetireRun(x, k) == After(RetireTurn, x, k)

(* The loop, turn after turn.                                               *)
LEMMA RetireLoop ==
  ASSUME NEW x \in Retiring
  PROVE  /\ RetireRun(x, 0) = x
         /\ \A k \in Nat : RetireRun(x, k) \in Retiring /\ RetireRun(x, k + 1) = RetireTurn(RetireRun(x, k))
<1> DEFINE S == Retiring
           F == [s \in S |-> RetireTurn(s)]
           Run(g) == g = [k \in Nat |-> IF k = 0 THEN x ELSE RetireTurn(g[k - 1])]
           run == CHOOSE g : Run(g)
<1> HIDE DEF S
<1>1. F \in [S -> S] /\ \A s \in S : F[s] = RetireTurn(s)
  BY RetireKeeps DEF S
<1> HIDE DEF F
<1>2. PICK g \in [Nat -> S] : g[0] = x /\ \A k \in Nat : g[k + 1] = F[g[k]]
  <2>1. x \in S /\ F \in [S -> S]
    BY <1>1 DEF S
  <2>2. RunsOf(S, F, x) # {}
    BY <2>1, Iterate
  <2> QED BY <2>2 DEF RunsOf
<1>3. Run(g)
  <2>1. ASSUME NEW k \in Nat PROVE g[k] = IF k = 0 THEN x ELSE RetireTurn(g[k - 1])
    <3>1. CASE k # 0
      <4>1. k - 1 \in Nat /\ (k - 1) + 1 = k
        BY <3>1
      <4>2. g[(k - 1) + 1] = F[g[k - 1]]
        BY <1>2, <4>1
      <4> QED BY <1>1, <1>2, <3>1, <4>1, <4>2
    <3> QED BY <1>2, <3>1
  <2> QED BY <2>1
<1>4. Run(run)
  BY <1>3
<1>5. \A k : RetireRun(x, k) = run[k]
  BY DEF After, RetireRun
<1> HIDE DEF run
<1>6. run[0] = x /\ \A k \in Nat : run[k + 1] = RetireTurn(run[k])
  BY <1>4
<1> DEFINE T == {k \in Nat : run[k] \in S}
<1>7. 0 \in T /\ \A k \in Nat : k \in T => k + 1 \in T
  BY <1>1, <1>6 DEF S
<1> HIDE DEF T
<1>8. Nat \subseteq T
  BY <1>7, Induct
<1> QED BY <1>5, <1>6, <1>8 DEF T, S

(* Two losses in a row.                                                     *)
LEMMA LostTwice ==
  ASSUME NEW b, NEW c, NEW d, NEW G, NEW H, Lost(b, c, G), Lost(c, d, H)
  PROVE  Lost(b, d, G \cup H)
  BY DEF Lost

(* What the pump's loop tears down: the timers of the tasks that fired.     *)
LEMMA RetiredAll ==
  ASSUME NEW b, NEW q, [ids |-> q, b |-> b] \in Retiring, NEW c, c = RetireRun([ids |-> q, b |-> b], Len(q)).b
  PROVE  BackendSound(c) /\ Lost(b, c, Range(q))
<1> DEFINE x == [ids |-> q, b |-> b]
           St(k) == RetireRun(x, k)
           n == Len(q)
           Left(s, k) == Len(s.ids) <= (IF k <= n THEN n - k ELSE 0)
           Got(s) == Range(s.ids) \subseteq Range(q) /\ Lost(b, s.b, Range(q) \ Range(s.ids))
           T == {k \in Nat : Left(St(k), k) /\ Got(St(k))}
<1>1. x \in Retiring /\ x.ids = q /\ x.b = b /\ n \in Nat
  BY DEF Retiring
<1>2. St(0) = x /\ \A k \in Nat : St(k) \in Retiring /\ St(k + 1) = RetireTurn(St(k))
  <2> HIDE DEF x
  <2> QED BY <1>1, RetireLoop
<1>3. c = St(n).b
  OBVIOUS
<1> HIDE DEF x, St, n
<1>4. 0 \in T
  <2>1. Lost(b, b, {})
    BY DEF Lost
  <2>2. Range(q) \ Range(q) = {}
    OBVIOUS
  <2>3. Left(St(0), 0)
    BY <1>1, <1>2 DEF n
  <2>4. Got(St(0))
    BY <1>1, <1>2, <2>1, <2>2
  <2> HIDE DEF Left, Got
  <2> QED BY <2>3, <2>4
<1>5. ASSUME NEW k \in Nat, k \in T PROVE k + 1 \in T
  <2> DEFINE s == St(k)
             u == St(k + 1)
  <2>1. s \in Retiring /\ u = RetireTurn(s) /\ u \in Retiring
    <3>1. k + 1 \in Nat
      OBVIOUS
    <3> QED BY <1>2, <3>1
  <2>2. /\ Left(s, k) /\ Range(s.ids) \subseteq Range(q)
        /\ Lost(b, s.b, Range(q) \ Range(s.ids)) /\ s.ids \in Seq(Nat) /\ Len(s.ids) \in Nat
    BY <1>5, <2>1 DEF Retiring
  <2>3. /\ s.ids = <<>> => u = s
        /\ s.ids # <<>> => /\ Len(u.ids) = Len(s.ids) - 1 /\ Len(s.ids) \in Nat \ {0}
                           /\ Range(u.ids) = Range(s.ids) \ {Head(s.ids)} /\ Head(s.ids) \in Range(s.ids)
                           /\ Lost(s.b, u.b, {Head(s.ids)})
    <3> HIDE DEF s, u
    <3> QED BY <2>1, RetireKeeps
  <2>4. CASE s.ids = <<>>
    <3>1. u = s /\ Len(s.ids) = 0
      BY <2>3, <2>4
    <3>2. Left(u, k + 1)
      BY <1>1, <3>1
    <3>3. Got(u)
      <4> HIDE DEF s, u
      <4> QED BY <2>2, <3>1
    <3>4. k + 1 \in Nat
      OBVIOUS
    <3> HIDE DEF Left, Got
    <3> QED BY <3>2, <3>3, <3>4
  <2>5. CASE s.ids # <<>>
    <3> HIDE DEF s, u
    <3>1. Lost(b, u.b, (Range(q) \ Range(s.ids)) \cup {Head(s.ids)})
      BY <2>2, <2>3, <2>5, LostTwice
    <3>2. (Range(q) \ Range(s.ids)) \cup {Head(s.ids)} = Range(q) \ Range(u.ids)
      BY <2>2, <2>3, <2>5
    <3>3. Left(u, k + 1)
      BY <1>1, <2>2, <2>3, <2>5
    <3>4. Range(u.ids) \subseteq Range(q)
      BY <2>2, <2>3, <2>5
    <3> DEFINE G == Range(q) \ Range(u.ids)
    <3>5. Lost(b, u.b, G)
      <4> DEFINE H == (Range(q) \ Range(s.ids)) \cup {Head(s.ids)}
      <4>1. Lost(b, u.b, H) /\ H = G
        BY <3>1, <3>2
      <4> HIDE DEF G, H
      <4> QED BY <4>1
    <3>6. Got(u) /\ k + 1 \in Nat
      BY <3>4, <3>5
    <3> HIDE DEF Left, Got
    <3> QED BY <3>3, <3>6 DEF u
  <2> QED BY <2>4, <2>5
<1>6. n \in T
  <2> HIDE DEF T
  <2> QED BY <1>1, <1>4, <1>5, Induct
<1>7. St(n) \in Retiring /\ St(n).ids \in Seq(Nat) /\ BackendSound(St(n).b)
  BY <1>1, <1>2 DEF Retiring
<1>8. St(n).ids = <<>>
  BY <1>1, <1>6, <1>7
<1>9. Range(St(n).ids) = {}
  BY <1>8 DEF Range
<1>10. Lost(b, c, Range(q) \ {})
  BY <1>3, <1>6, <1>9
<1>11. Range(q) \ {} = Range(q)
  OBVIOUS
<1> QED BY <1>3, <1>7, <1>10, <1>11

(* pump_harvest: the backend.                                               *)
LEMMA PumpBackend ==
  ASSUME PollInv, NEW fired, fired = {t \in PollTasks : <<t, "timer">> \in pollTold},
         NEW c, c = RetireFired(pollB, fired)
  PROVE  BackendSound(c) /\ Lost(pollB, c, {pollTask[t].tid : t \in fired})
<1> DEFINE T == pollTask
           b == pollB
           G == {T[t].tid : t \in fired}
           q == SetToSeq(G)
<1>1. /\ PollSound(T, b, pollTold) /\ BackendSound(b) /\ b \in Backend /\ T \in [PollTasks -> TaskStates]
      /\ \A a, d \in AlarmView(b) : a.id = d.id => a = d
      /\ \A t \in fired : t \in PollTasks /\ T[t].tid # 0
  BY DEF PollInv, PollSound, BackendSound, AlarmsFit, TasksSound, ToldFits
<1>2. G \subseteq Nat /\ \A id \in G : TimerDescriptor(b, id)
  <2>1. ASSUME NEW t \in fired PROVE T[t].tid \in Nat /\ TimerDescriptor(b, T[t].tid)
    <3>1. t \in PollTasks /\ T[t].tid # 0 /\ T[t].tid \in Nat
      BY <1>1 DEF TaskStates
    <3> HIDE DEF T, b
    <3> QED BY <1>1, <3>1, TimersDescriptor
  <2> QED BY <2>1
<1>3. IsFiniteSet(G)
  <2> DEFINE f == [t \in fired |-> T[t].tid]
  <2>1. f \in Surjection(fired, G)
    BY DEF Surjection
  <2>2. IsFiniteSet(fired)
    BY FS_Subset, PollAssumption
  <2> HIDE DEF f, G
  <2> QED BY <2>1, <2>2, FS_Surjection
<1>4. q \in Seq(G) /\ (\A i, j \in DOMAIN q : q[i] = q[j] => i = j) /\ Range(q) = G
  <2> HIDE DEF G
  <2> QED BY <1>3, Enumerated
<1>5. c = RetireRun([ids |-> q, b |-> b], Len(q)).b
  BY DEF RetireFired, RetireRun
<1> HIDE DEF T, b, G, q
<1>6. q \in Seq(Nat)
  <2>1. Len(q) \in Nat /\ q \in [1 .. Len(q) -> G]
    BY <1>4
  <2>2. q \in [1 .. Len(q) -> Nat]
    BY <1>2, <2>1
  <2> QED BY <2>1, <2>2
<1> DEFINE s == [ids |-> q, b |-> b]
<1>7. s \in [ids : Seq(Nat), b : Backend] /\ s.ids = q /\ s.b = b
  BY <1>1, <1>6
<1> HIDE DEF s
<1>8. s \in Retiring
  BY <1>1, <1>2, <1>4, <1>7 DEF Retiring
<1>9. BackendSound(c) /\ Lost(b, c, Range(q))
  <2>1. [ids |-> q, b |-> b] \in Retiring
    BY <1>8 DEF s
  <2> QED BY <1>5, <2>1, RetiredAll
<1> QED BY <1>4, <1>9 DEF G, T, b

(* pump_harvest.                                                            *)
LEMMA PumpStep ==
  ASSUME PollInv, pump_harvest
  PROVE  PollInv' /\ PollStep
<1> DEFINE T == pollTask
           b == pollB
           told == pollTold
           fired == {t \in PollTasks : <<t, "timer">> \in pollTold}
           woken == {ev[1] : ev \in pollTold}
           T1 == pollTask'
           c == pollB'
           G == {T[t].tid : t \in fired}
<1>1. /\ c = RetireFired(b, fired) /\ pollTold' = {}
      /\ T1 = [t \in PollTasks |-> IF t \notin woken THEN T[t]
                                   ELSE [T[t] EXCEPT !.st = "woken", !.tid = IF t \in fired THEN 0 ELSE @]]
  BY DEF pump_harvest
<1>2. BackendSound(c) /\ Lost(b, c, G)
  <2> HIDE DEF fired
  <2>1. fired = {t \in PollTasks : <<t, "timer">> \in pollTold}
    BY DEF fired
  <2> QED BY <1>1, <2>1, PumpBackend
<1>3. /\ BackendSound(b) /\ TasksSound(T, b.open) /\ EpollFits(T, b) /\ T \in [PollTasks -> TaskStates]
      /\ WatchesFit(T, b, told) /\ AlarmsFit(T, b, told) /\ ToldFits(T, told) /\ told \subseteq Events
  BY DEF PollInv, PollSound, TasksSound, ToldFits
<1>4. \A t \in PollTasks : /\ t \in woken <=> <<t, "fd">> \in told \/ <<t, "timer">> \in told
                           /\ t \in fired <=> <<t, "timer">> \in told
  BY <1>3 DEF Events
<1>5. ASSUME NEW t \in PollTasks
      PROVE  /\ T1[t] \in TaskStates /\ T1[t].park = T[t].park /\ T1[t].fd = T[t].fd /\ T1[t].interest = T[t].interest
             /\ T1[t].st = IF t \in woken THEN "woken" ELSE T[t].st
             /\ T1[t].tid = IF t \in fired THEN 0 ELSE T[t].tid
  <2>0. T[t] \in TaskStates
    BY <1>3
  <2>1. CASE t \notin woken
    <3>1. T1[t] = T[t] /\ t \notin fired
      BY <1>1, <1>4, <2>1
    <3> QED BY <2>0, <2>1, <3>1
  <2>2. CASE t \in woken
    <3> DEFINE r == [T[t] EXCEPT !.st = "woken"]
               id == IF t \in fired THEN 0 ELSE T[t].tid
    <3>1. /\ r \in TaskStates /\ r.park = T[t].park /\ r.fd = T[t].fd /\ r.interest = T[t].interest
          /\ r.st = "woken" /\ r.tid = T[t].tid
      BY <2>0 DEF TaskStates
    <3>2. T1[t] = [r EXCEPT !.tid = id]
      BY <1>1, <2>0, <2>2, <3>1
    <3>3. id \in Nat
      BY <2>0 DEF TaskStates
    <3> HIDE DEF r, id, T1
    <3>4. /\ T1[t] \in TaskStates /\ T1[t].park = r.park /\ T1[t].fd = r.fd /\ T1[t].interest = r.interest
          /\ T1[t].st = r.st /\ T1[t].tid = id
      BY <3>1, <3>2, <3>3 DEF TaskStates
    <3> QED BY <2>2, <3>1, <3>4 DEF id
  <2> QED BY <2>1, <2>2
<1>6. T1 \in [PollTasks -> TaskStates]
  <2>1. T1 = [t \in PollTasks |-> T1[t]]
    BY <1>1
  <2> HIDE DEF T1
  <2> QED BY <1>5, <2>1
<1>7. \A t \in PollTasks : /\ t \in fired => T[t].tid \in G
                           /\ T[t].tid # 0 /\ T[t].tid \in G => t \in fired
  BY <1>3, <1>4 DEF TasksSound
<1>8. G \subseteq {T[t].tid : t \in PollTasks} /\ 0 \notin G
  BY <1>3, <1>4 DEF ToldFits
<1>9. \A t \in PollTasks : t \in woken => T[t].st = "parked"
  BY <1>3, <1>4 DEF ToldFits
<1> HIDE DEF T, b, told, fired, woken, T1, c, G
<1>10. /\ c.name = b.name /\ c.open = (IF b.name = "epoll" THEN b.open \ G ELSE b.open)
       /\ WatchView(c) = WatchView(b) /\ AlarmView(c) = {a \in AlarmView(b) : a.id \notin G}
       /\ c.kernel = {e \in b.kernel : e.fd \notin G \/ e.kind # "timer"}
  BY <1>2 DEF Lost
<1>11. \A a \in AlarmView(b) : a.task \in PollTasks /\ a.id # 0 /\ a.id = T[a.task].tid /\ a.task \notin fired /\ a.id \notin G
  <2>1. ASSUME NEW a \in AlarmView(b)
        PROVE a.task \in PollTasks /\ a.id # 0 /\ a.id = T[a.task].tid /\ a.task \notin fired
    <3>1. a.task \in PollTasks /\ a.id # 0
      BY <1>3, ViewTypes DEF TimerEntries
    <3> QED BY <1>3, <1>4, <3>1 DEF AlarmsFit
  <2> QED BY <1>7, <2>1
<1>12. AlarmView(c) = AlarmView(b)
  BY <1>10, <1>11
<1>13. WatchesFit(T1, c, {})
  <2>1. ASSUME NEW w \in WatchView(b)
        PROVE  /\ w.fd = T1[w.task].fd /\ w.kind = T1[w.task].interest
               /\ T1[w.task].park \in {"fd", "both"} /\ (T1[w.task].st = "woken" => T1[w.task].park = "both")
    <3>1. w.task \in PollTasks
      BY <1>3, ViewTypes
    <3>2. /\ w.fd = T[w.task].fd /\ w.kind = T[w.task].interest
          /\ T[w.task].park \in {"fd", "both"} /\ (T[w.task].st = "woken" => T[w.task].park = "both")
          /\ <<w.task, "fd">> \notin told
      BY <1>3 DEF WatchesFit
    <3>3. w.task \in woken => T[w.task].park = "both"
      <4>1. w.task \in woken => T[w.task].tid # 0
        BY <1>3, <1>4, <3>1, <3>2 DEF ToldFits
      <4> QED BY <1>3, <3>1, <3>2, <4>1 DEF TasksSound
    <3> QED BY <1>5, <3>1, <3>2, <3>3
  <2> QED BY <1>10, <2>1 DEF WatchesFit
<1>14. AlarmsFit(T1, c, {})
  <2>1. \A a, d \in AlarmView(b) : a.id = d.id => a = d
    BY <1>3 DEF AlarmsFit
  <2> QED BY <1>5, <1>11, <1>12, <2>1 DEF AlarmsFit
<1>15. TasksSound(T1, c.open)
  <2>1. ASSUME NEW u \in PollTasks
        PROVE  /\ T1[u].st = "free" <=> T1[u].park = "none"
               /\ T1[u].st = "free" => T1[u].interest = "read"
               /\ T1[u].park \in {"none", "fd"} => T1[u].tid = 0
               /\ T1[u].park = "timer" => T1[u].fd = 0
               /\ T1[u].park \in {"fd", "both"} => T1[u].fd # 0
    <3>1. T[u].st = "parked" => T[u].park # "none"
      BY <1>3 DEF TasksSound
    <3> QED BY <1>3, <1>5, <1>9, <3>1 DEF TasksSound
  <2>2. ASSUME NEW u \in PollTasks, T1[u].fd # 0 PROVE T1[u].fd \in c.open
    <3>1. T1[u].fd = T[u].fd /\ T[u].fd \in b.open
      BY <1>3, <1>5, <2>2 DEF TasksSound
    <3>2. b.name = "epoll" => \A v \in PollTasks : T[v].tid # 0 => T[u].fd # T[v].tid
      BY <1>3 DEF EpollFits
    <3>3. b.name = "epoll" => T[u].fd \notin G
      BY <1>8, <3>2
    <3> QED BY <1>10, <3>1, <3>3
  <2>3. \A u, v \in PollTasks : T1[u].fd = T1[v].fd /\ T1[u].fd # 0 => u = v
    BY <1>3, <1>5 DEF TasksSound
  <2>4. \A u, v \in PollTasks : T1[u].tid = T1[v].tid /\ T1[u].tid # 0 => u = v
    BY <1>3, <1>5 DEF TasksSound
  <2> QED BY <1>6, <2>1, <2>2, <2>3, <2>4 DEF TasksSound
<1>16. EpollFits(T1, c)
  <2> SUFFICES ASSUME b.name = "epoll"
               PROVE  /\ \A e \in c.kernel : e.fd = IF e.kind = "timer" THEN T1[e.task].tid ELSE T1[e.task].fd
                      /\ \A u \in PollTasks : T1[u].tid # 0 =>
                           /\ T1[u].tid \in c.open /\ \A v \in PollTasks : T1[v].fd # T1[u].tid
                           /\ \E e \in c.kernel : e.kind = "timer" /\ e.fd = T1[u].tid
    BY <1>10 DEF EpollFits
  <2>1. ASSUME NEW e \in c.kernel PROVE e.fd = IF e.kind = "timer" THEN T1[e.task].tid ELSE T1[e.task].fd
    <3>1. e \in b.kernel /\ (e.fd \notin G \/ e.kind # "timer")
      BY <1>10
    <3>2. e.task \in PollTasks
      BY <1>3, <3>1 DEF BackendSound, Backend, KernelEntries
    <3>3. e.fd = IF e.kind = "timer" THEN T[e.task].tid ELSE T[e.task].fd
      BY <1>3, <3>1 DEF EpollFits
    <3> QED BY <1>5, <1>7, <3>1, <3>2, <3>3
  <2>2. ASSUME NEW u \in PollTasks, T1[u].tid # 0
        PROVE  /\ T1[u].tid \in c.open /\ \A v \in PollTasks : T1[v].fd # T1[u].tid
               /\ \E e \in c.kernel : e.kind = "timer" /\ e.fd = T1[u].tid
    <3>1. u \notin fired /\ T1[u].tid = T[u].tid /\ T[u].tid # 0 /\ T[u].tid \notin G
      BY <1>5, <1>7, <2>2
    <3>2. /\ T[u].tid \in b.open /\ \A v \in PollTasks : T[v].fd # T[u].tid
          /\ \E e \in b.kernel : e.kind = "timer" /\ e.fd = T[u].tid
      BY <1>3, <3>1 DEF EpollFits
    <3>3. \E e \in c.kernel : e.kind = "timer" /\ e.fd = T[u].tid
      BY <1>10, <3>1, <3>2
    <3>4. \A v \in PollTasks : T1[v].fd # T[u].tid
      BY <1>5, <3>2
    <3> QED BY <1>10, <3>1, <3>2, <3>3, <3>4
  <2> QED BY <2>1, <2>2
<1>17. PollInv'
  <2>1. ToldFits(T1, {})
    BY DEF ToldFits
  <2>2. PollSound(T1, c, {})
    BY <1>2, <1>13, <1>14, <1>15, <1>16, <2>1 DEF PollSound
  <2> QED BY <1>1, <2>2 DEF PollInv, T1, c
<1>18. WatchMap(c) = WatchMap(b) /\ AlarmMap(c) = AlarmMap(b)
  <2>1. /\ WatchMap(c) = [t \in PollTasks |-> IF \E w \in WatchView(c) : w.task = t
                                              THEN [fd |-> T1[t].fd, kind |-> T1[t].interest] ELSE Nothing]
        /\ WatchMap(b) = [t \in PollTasks |-> IF \E w \in WatchView(b) : w.task = t
                                              THEN [fd |-> T[t].fd, kind |-> T[t].interest] ELSE Nothing]
    BY <1>2, <1>3, <1>13, WatchMapIs
  <2>2. WatchMap(c) = WatchMap(b)
    BY <1>5, <1>10, <2>1
  <2>3. /\ AlarmMap(c) = [t \in PollTasks |-> AlarmMap(c)[t]] /\ AlarmMap(b) = [t \in PollTasks |-> AlarmMap(b)[t]]
        /\ \A t \in PollTasks : (~\E a \in AlarmView(b) : a.task = t) => AlarmMap(b)[t] = <<>> /\ AlarmMap(c)[t] = <<>>
        /\ \A a \in AlarmView(b) : AlarmMap(b)[a.task] = <<a.left>> /\ AlarmMap(c)[a.task] = <<a.left>>
    BY <1>2, <1>3, <1>12, <1>14, AlarmMapIs
  <2>4. ASSUME NEW t \in PollTasks PROVE AlarmMap(c)[t] = AlarmMap(b)[t]
    <3>1. CASE \E a \in AlarmView(b) : a.task = t
      <4>1. PICK a \in AlarmView(b) : a.task = t
        BY <3>1
      <4> QED BY <2>3, <4>1
    <3>2. CASE ~\E a \in AlarmView(b) : a.task = t
      BY <2>3, <3>2
    <3> QED BY <3>1, <3>2
  <2>5. AlarmMap(c) = AlarmMap(b)
    BY <2>3, <2>4
  <2> QED BY <2>2, <2>5
<1>19. Contract!Taken
  BY <1>1, <1>18 DEF Contract!Taken, b, c
<1> QED BY <1>17, <1>19 DEF PollStep, Contract!Next

\* From b to c the kernel's entries kept their keys and owners.
SameEntries(b, c) ==
  /\ \A e \in c.kernel : \E x \in b.kernel : e.fd = x.fd /\ e.kind = x.kind /\ e.task = x.task
  /\ \A x \in b.kernel : \E e \in c.kernel : e.fd = x.fd /\ e.kind = x.kind /\ e.task = x.task

(* The contract counts as the poller does.                                  *)
LEMMA SameCount == \A S : Contract!Cardinality(S) = Cardinality(S)
  BY DEF Contract!Cardinality, Cardinality

(* A batch that reports the descriptors of the tasks f and the timers of    *)
(* the tasks d, and consumes exactly those.                                 *)
LEMMA Reported ==
  ASSUME PollInv, pollTold = {}, \A t \in PollTasks : pollTask[t].st # "woken", pollTask' = pollTask,
         NEW c, c = pollB', BackendSound(c), c.name = pollB.name, c.open = pollB.open,
         pollB.name = "epoll" => SameEntries(pollB, c),
         NEW f \in SUBSET PollTasks, NEW d \in SUBSET PollTasks,
         WatchView(c) = {w \in WatchView(pollB) : w.task \notin f},
         AlarmView(c) = {a \in AlarmView(pollB) : a.task \notin d},
         \A t \in f : \E w \in WatchView(pollB) : w.task = t,
         \A t \in d : \E a \in AlarmView(pollB) : a.task = t /\ a.left <= 0,
         pollTold' = (f \X {"fd"}) \cup (d \X {"timer"}),
         Cardinality(f) + Cardinality(d) \in 1 .. PollWant,
         Cardinality(f) + Cardinality(d) = PollWant \/ \A a \in AlarmView(c) : a.left > 0
  PROVE  PollInv' /\ PollStep
<1> DEFINE T == pollTask
           b == pollB
           told == (f \X {"fd"}) \cup (d \X {"timer"})
<1>1. /\ BackendSound(b) /\ TasksSound(T, b.open) /\ EpollFits(T, b) /\ T \in [PollTasks -> TaskStates]
      /\ WatchesFit(T, b, {}) /\ AlarmsFit(T, b, {})
  BY DEF PollInv, PollSound, TasksSound
<1>2. \A t \in PollTasks : /\ <<t, "fd">> \in told <=> t \in f
                           /\ <<t, "timer">> \in told <=> t \in d
  OBVIOUS
<1>3. told \subseteq Events /\ pollTold' = told
  BY DEF Events
<1>4. /\ WatchView(c) = {w \in WatchView(b) : w.task \notin f} /\ AlarmView(c) = {a \in AlarmView(b) : a.task \notin d}
      /\ c.name = b.name /\ c.open = b.open /\ (b.name = "epoll" => SameEntries(b, c))
      /\ \A t \in f : \E w \in WatchView(b) : w.task = t
      /\ \A t \in d : \E a \in AlarmView(b) : a.task = t /\ a.left <= 0
      /\ \A t \in PollTasks : T[t].st # "woken"
  OBVIOUS
<1> HIDE DEF T, b, told
<1>5. /\ \A w \in WatchView(b) : w.task \in PollTasks
      /\ \A a \in AlarmView(b) : a.task \in PollTasks /\ a.id # 0 /\ a.left \in Int
  BY <1>1, ViewTypes DEF TimerEntries
<1>6. WatchesFit(T, c, told) /\ WatchesFit(T, c, {})
  BY <1>1, <1>2, <1>4, <1>5 DEF WatchesFit
<1>7. AlarmsFit(T, c, told) /\ AlarmsFit(T, c, {})
  BY <1>1, <1>2, <1>4, <1>5 DEF AlarmsFit
<1>8. ToldFits(T, told)
  <2>1. ASSUME NEW t \in PollTasks, t \in f PROVE T[t].st = "parked" /\ T[t].park \in {"fd", "both"}
    <3>1. T[t].park \in {"fd", "both"}
      BY <1>1, <1>4, <2>1 DEF WatchesFit
    <3>2. T[t].st # "free" /\ T[t].st # "woken" /\ T[t].st \in {"free", "parked", "woken"}
      BY <1>1, <1>4, <3>1 DEF TasksSound, TaskStates
    <3> QED BY <3>1, <3>2
  <2>2. ASSUME NEW t \in PollTasks, t \in d PROVE T[t].st = "parked" /\ T[t].tid # 0
    <3>1. T[t].tid # 0
      BY <1>1, <1>4, <1>5, <2>2 DEF AlarmsFit
    <3>2. T[t].st # "free" /\ T[t].st # "woken" /\ T[t].st \in {"free", "parked", "woken"}
      BY <1>1, <1>4, <3>1 DEF TasksSound, TaskStates
    <3> QED BY <3>1, <3>2
  <2> QED BY <1>2, <1>3, <2>1, <2>2 DEF ToldFits
<1>9. EpollFits(T, c)
  <2> SUFFICES ASSUME b.name = "epoll"
               PROVE  /\ \A e \in c.kernel : e.fd = IF e.kind = "timer" THEN T[e.task].tid ELSE T[e.task].fd
                      /\ \A u \in PollTasks : T[u].tid # 0 =>
                           /\ T[u].tid \in c.open /\ \A v \in PollTasks : T[v].fd # T[u].tid
                           /\ \E e \in c.kernel : e.kind = "timer" /\ e.fd = T[u].tid
    BY <1>4 DEF EpollFits
  <2>1. ASSUME NEW e \in c.kernel PROVE e.fd = IF e.kind = "timer" THEN T[e.task].tid ELSE T[e.task].fd
    <3>1. PICK x \in b.kernel : e.fd = x.fd /\ e.kind = x.kind /\ e.task = x.task
      BY <1>4 DEF SameEntries
    <3> QED BY <1>1, <3>1 DEF EpollFits
  <2>2. ASSUME NEW u \in PollTasks, T[u].tid # 0
        PROVE  /\ T[u].tid \in c.open /\ \A v \in PollTasks : T[v].fd # T[u].tid
               /\ \E e \in c.kernel : e.kind = "timer" /\ e.fd = T[u].tid
    <3>1. /\ T[u].tid \in b.open /\ \A v \in PollTasks : T[v].fd # T[u].tid
          /\ \E e \in b.kernel : e.kind = "timer" /\ e.fd = T[u].tid
      BY <1>1, <2>2 DEF EpollFits
    <3>2. \E e \in c.kernel : e.kind = "timer" /\ e.fd = T[u].tid
      BY <1>4, <3>1 DEF SameEntries
    <3> QED BY <1>4, <3>1, <3>2
  <2> QED BY <2>1, <2>2
<1>10. PollInv'
  <2>1. PollSound(T, c, told)
    BY <1>1, <1>4, <1>6, <1>7, <1>8, <1>9 DEF PollSound
  <2> QED BY <1>3, <2>1 DEF PollInv, T
<1>11. WatchMap(c) = [t \in PollTasks |-> IF t \in f THEN Nothing ELSE WatchMap(b)[t]]
  <2>1. /\ WatchMap(c) = [t \in PollTasks |-> IF \E w \in WatchView(c) : w.task = t
                                              THEN [fd |-> T[t].fd, kind |-> T[t].interest] ELSE Nothing]
        /\ WatchMap(b) = [t \in PollTasks |-> IF \E w \in WatchView(b) : w.task = t
                                              THEN [fd |-> T[t].fd, kind |-> T[t].interest] ELSE Nothing]
    BY <1>1, <1>6, WatchMapIs
  <2>2. \A t \in PollTasks : (\E w \in WatchView(c) : w.task = t) <=> (t \notin f /\ \E w \in WatchView(b) : w.task = t)
    BY <1>4
  <2> QED BY <2>1, <2>2
<1>12. \A t \in f : WatchMap(b)[t] # Nothing
  <2>1. ASSUME NEW t \in f PROVE WatchMap(b)[t] # Nothing
    <3>1. PICK w \in WatchView(b) : w.task = t
      BY <1>4
    <3>2. WatchMap(b)[t] = [fd |-> T[t].fd, kind |-> T[t].interest]
      BY <1>1, <3>1, WatchMapIs
    <3>3. T[t].fd # 0
      BY <1>1, <3>1 DEF WatchesFit, TasksSound
    <3>4. WatchMap(b)[t].fd # Nothing.fd
      BY <3>2, <3>3 DEF Nothing
    <3> QED BY <3>4
  <2> QED BY <2>1
<1>13. /\ \A t \in PollTasks : (~\E a \in AlarmView(b) : a.task = t) => AlarmMap(b)[t] = <<>>
       /\ \A t \in PollTasks : (~\E a \in AlarmView(c) : a.task = t) => AlarmMap(c)[t] = <<>>
       /\ \A a \in AlarmView(b) : AlarmMap(b)[a.task] = <<a.left>>
       /\ \A a \in AlarmView(c) : AlarmMap(c)[a.task] = <<a.left>>
       /\ AlarmMap(c) = [t \in PollTasks |-> AlarmMap(c)[t]]
  <2>1. /\ \A t \in PollTasks : (~\E a \in AlarmView(b) : a.task = t) => AlarmMap(b)[t] = <<>>
        /\ \A a \in AlarmView(b) : AlarmMap(b)[a.task] = <<a.left>>
    BY <1>1, AlarmMapIs
  <2>2. /\ \A t \in PollTasks : (~\E a \in AlarmView(c) : a.task = t) => AlarmMap(c)[t] = <<>>
        /\ \A a \in AlarmView(c) : AlarmMap(c)[a.task] = <<a.left>>
        /\ AlarmMap(c) = [t \in PollTasks |-> AlarmMap(c)[t]]
    <3>1. BackendSound(c) /\ AlarmsFit(T, c, {})
      BY <1>7
    <3> QED BY ONLY <3>1, AlarmMapIs
  <2> QED BY <2>1, <2>2
<1>14. AlarmMap(c) = [t \in PollTasks |-> IF t \in d THEN <<>> ELSE AlarmMap(b)[t]]
  <2>1. ASSUME NEW t \in PollTasks PROVE AlarmMap(c)[t] = IF t \in d THEN <<>> ELSE AlarmMap(b)[t]
    <3>1. CASE t \in d
      BY <1>4, <1>13, <3>1
    <3>2. CASE t \notin d /\ \E a \in AlarmView(b) : a.task = t
      <4>1. PICK a \in AlarmView(b) : a.task = t
        BY <3>2
      <4>2. a \in AlarmView(c)
        BY <1>4, <3>2, <4>1
      <4>3. AlarmMap(b)[t] = <<a.left>> /\ AlarmMap(c)[t] = <<a.left>>
        BY <1>13, <4>1, <4>2
      <4> QED BY <3>2, <4>3
    <3>3. CASE t \notin d /\ ~\E a \in AlarmView(b) : a.task = t
      BY <1>4, <1>13, <3>3
    <3> QED BY <3>1, <3>2, <3>3
  <2> QED BY <1>13, <2>1
<1> DEFINE due == {t \in PollTasks : AlarmMap(b)[t] # <<>> /\ AlarmMap(b)[t][1] <= 0}
<1>15. d \subseteq due /\ (d = due \/ Cardinality(f) + Cardinality(d) = PollWant)
  <2>1. ASSUME NEW t \in d PROVE t \in due
    <3>1. PICK a \in AlarmView(b) : a.task = t /\ a.left <= 0
      BY <1>4
    <3>2. AlarmMap(b)[t] = <<a.left>> /\ t \in PollTasks
      BY <1>13, <3>1
    <3>3. AlarmMap(b)[t] # <<>> /\ AlarmMap(b)[t][1] = a.left
      BY <3>2
    <3> QED BY <3>1, <3>2, <3>3
  <2>2. ASSUME NEW t \in due, t \notin d, \A a \in AlarmView(c) : a.left > 0 PROVE FALSE
    <3>1. PICK a \in AlarmView(b) : a.task = t
      BY <1>13
    <3>2. a \in AlarmView(c) /\ a.left \in Int /\ AlarmMap(b)[t] = <<a.left>>
      BY <1>4, <1>5, <1>13, <2>2, <3>1
    <3> QED BY <2>2, <3>2
  <2> QED BY <2>1, <2>2
<1>16. Contract!Report
  <2>1. /\ f \in SUBSET {t \in PollTasks : WatchMap(b)[t] # Nothing} /\ d \in SUBSET due
        /\ Cardinality(f) + Cardinality(d) \in 1 .. PollWant
        /\ (d = due \/ Cardinality(f) + Cardinality(d) = PollWant)
        /\ WatchMap(c) = [t \in PollTasks |-> IF t \in f THEN Nothing ELSE WatchMap(b)[t]]
        /\ AlarmMap(c) = [t \in PollTasks |-> IF t \in d THEN <<>> ELSE AlarmMap(b)[t]]
        /\ pollTold' = (f \X {"fd"}) \cup (d \X {"timer"})
    BY <1>11, <1>12, <1>14, <1>15
  <2>2. b = pollB /\ c = pollB'
    BY DEF b
  <2> DEFINE W == WatchMap(pollB)
             A == AlarmMap(pollB)
             W1 == WatchMap(pollB')
             A1 == AlarmMap(pollB')
             told1 == pollTold'
             late == {t \in PollTasks : A[t] # <<>> /\ A[t][1] <= 0}
  <2>3. /\ f \in SUBSET {t \in PollTasks : W[t] # Nothing} /\ d \in SUBSET late
        /\ Cardinality(f) + Cardinality(d) \in 1 .. PollWant
        /\ (d = late \/ Cardinality(f) + Cardinality(d) = PollWant)
        /\ W1 = [t \in PollTasks |-> IF t \in f THEN Nothing ELSE W[t]]
        /\ A1 = [t \in PollTasks |-> IF t \in d THEN <<>> ELSE A[t]]
        /\ told1 = (f \X {"fd"}) \cup (d \X {"timer"})
    BY <2>1, <2>2
  <2> HIDE DEF W, A, W1, A1, told1, late
  <2>4. \E g \in SUBSET {t \in PollTasks : W[t] # Nothing}, h \in SUBSET late :
                 /\ Cardinality(g) + Cardinality(h) \in 1 .. PollWant
                 /\ h = late \/ Cardinality(g) + Cardinality(h) = PollWant
                 /\ W1 = [t \in PollTasks |-> IF t \in g THEN Nothing ELSE W[t]]
                 /\ A1 = [t \in PollTasks |-> IF t \in h THEN <<>> ELSE A[t]]
                 /\ told1 = (g \X {"fd"}) \cup (h \X {"timer"})
    BY <2>3
  <2> QED BY <2>4, SameCount, Zenon DEF Contract!Report, Contract!NoWatch, Contract!NoAlarm, Nothing, W, A, W1, A1, told1, late
<1> QED BY <1>10, <1>16 DEF PollStep, Contract!Next

\* A one-shot entry that was reported: epoll keeps it, disarmed.
Spent(e) == [e EXCEPT !.armed = FALSE]

\* The backend after a batch.
Batched(b, batch) ==
  [b EXCEPT !.kernel = (@ \ batch) \cup IF b.name = "epoll" THEN {Spent(e) : e \in batch} ELSE {}]

(* A one-to-one image has as many members.                                  *)
LEMMA SameSize ==
  ASSUME NEW S, IsFiniteSet(S), NEW U, NEW g, g \in [S -> U], \A u \in U : \E x \in S : g[x] = u,
         \A x, y \in S : g[x] = g[y] => x = y
  PROVE  IsFiniteSet(U) /\ Cardinality(U) = Cardinality(S)
<1>1. g \in Surjection(S, U) /\ g \in Injection(S, U)
  BY DEF Surjection, Injection, IsInjective
<1> QED BY <1>1, FS_Surjection

(* The batch in the kernel: which entries are left, and which are armed.    *)
LEMMA KernelBatch ==
  ASSUME NEW b, BackendSound(b), b.name # "wsapoll", NEW batch \in SUBSET b.kernel, \A e \in batch : e.armed,
         NEW c, c = Batched(b, batch)
  PROVE  /\ BackendSound(c) /\ c.name = b.name /\ c.open = b.open
         /\ b.name = "epoll" => SameEntries(b, c)
         /\ \A e : e \in c.kernel /\ e.armed <=> e \in b.kernel /\ e.armed /\ e \notin batch
<1> DEFINE K == (b.kernel \ batch) \cup IF b.name = "epoll" THEN {Spent(e) : e \in batch} ELSE {}
<1>1. b \in Backend /\ b.kernel \subseteq KernelEntries /\ IsFiniteSet(b.kernel) /\ KernelKeyed(b)
  BY DEF BackendSound, Backend
<1>2. \A e \in batch : /\ Spent(e) \in KernelEntries /\ Spent(e).fd = e.fd /\ Spent(e).kind = e.kind
                       /\ Spent(e).task = e.task /\ Spent(e).armed = FALSE
  BY <1>1 DEF Spent, KernelEntries
<1>3. c = [b EXCEPT !.kernel = K]
  BY <1>1 DEF Backend, Batched
<1>4. K \subseteq KernelEntries
  BY <1>1, <1>2
<1>5. c \in Backend /\ c.name = b.name /\ c.open = b.open /\ c.kernel = K
  <2> HIDE DEF K
  <2> QED BY <1>1, <1>3, <1>4 DEF Backend
<1>6. \A e \in K : \/ e \in b.kernel /\ e \notin batch
                   \/ b.name = "epoll" /\ \E x \in batch : e = Spent(x)
  OBVIOUS
<1>7. (\A e \in b.kernel : e \notin batch => e \in K) /\ (b.name = "epoll" => \A x \in batch : Spent(x) \in K)
  OBVIOUS
<1>8. IsFiniteSet(K)
  <2>1. IsFiniteSet(batch) /\ IsFiniteSet(b.kernel \ batch)
    BY <1>1, FS_Subset
  <2> DEFINE U == {Spent(e) : e \in batch}
             g == [e \in batch |-> Spent(e)]
  <2>2. g \in Surjection(batch, U)
    BY DEF Surjection
  <2>3. IsFiniteSet(U)
    <3> HIDE DEF g, U
    <3> QED BY <2>1, <2>2, FS_Surjection
  <2>4. IsFiniteSet(IF b.name = "epoll" THEN U ELSE {})
    <3> HIDE DEF U
    <3> QED BY <2>3, FS_EmptySet
  <2> QED BY <2>1, <2>4, FS_Union
<1> HIDE DEF K
<1>9. \A e \in K : \E x \in b.kernel : /\ e.fd = x.fd /\ e.kind = x.kind /\ e.task = x.task
                                        /\ e = IF x \in batch THEN Spent(x) ELSE x
  BY <1>2, <1>6
<1>10. BackendSound(c)
  <2>1. KernelKeyed(c)
    <3> SUFFICES ASSUME NEW d \in K, NEW e \in K, d.fd = e.fd, b.name = "epoll" \/ d.kind = e.kind PROVE d = e
      BY <1>5 DEF KernelKeyed
    <3>1. PICK x \in b.kernel : d.fd = x.fd /\ d.kind = x.kind /\ d = IF x \in batch THEN Spent(x) ELSE x
      BY <1>9
    <3>2. PICK y \in b.kernel : e.fd = y.fd /\ e.kind = y.kind /\ e = IF y \in batch THEN Spent(y) ELSE y
      BY <1>9
    <3>3. x = y
      BY <1>1, <3>1, <3>2 DEF KernelKeyed
    <3> QED BY <3>1, <3>2, <3>3
  <2>2. c.name = "kqueue" => \A e \in K : e.armed
    BY <1>5, <1>6 DEF BackendSound
  <2> QED BY <1>5, <1>8, <2>1, <2>2 DEF BackendSound
<1>11. b.name = "epoll" => SameEntries(b, c)
  BY <1>2, <1>5, <1>7, <1>9 DEF SameEntries
<1>12. ASSUME NEW e PROVE e \in K /\ e.armed <=> e \in b.kernel /\ e.armed /\ e \notin batch
  BY <1>2, <1>6, <1>7
<1> QED BY <1>5, <1>10, <1>11, <1>12

(* sprout_poll_wait on epoll and kqueue.                                    *)
LEMMA KernelWaitStep ==
  ASSUME PollInv, pollTold = {}, \A t \in PollTasks : pollTask[t].st # "woken", pollTask' = pollTask,
         pollB.name # "wsapoll", NEW ready, KernelWait(ready), pollTold' # {}
  PROVE  PollInv' /\ PollStep
<1> DEFINE T == pollTask
           b == pollB
           c == pollB'
           fired == {e \in b.kernel : e.armed /\ IF e.kind = "timer" THEN e.left <= 0 ELSE e.fd \in ready}
<1>1. PICK batch \in SUBSET fired :
        /\ Cardinality(batch) = IF Cardinality(fired) < PollWant THEN Cardinality(fired) ELSE PollWant
        /\ pollTold' = {Event(e) : e \in batch}
        /\ c = Batched(b, batch)
  BY DEF KernelWait, Spent, Batched
<1>2. /\ BackendSound(b) /\ WatchesFit(T, b, {}) /\ AlarmsFit(T, b, {}) /\ b \in Backend
      /\ IsFiniteSet(b.kernel) /\ KernelKeyed(b) /\ b.kernel \subseteq KernelEntries
  BY DEF PollInv, PollSound, BackendSound, Backend
<1>3. batch \subseteq b.kernel /\ \A e \in batch : e.armed /\ (e.kind = "timer" => e.left <= 0)
  BY <1>1
<1>4. /\ BackendSound(c) /\ c.name = b.name /\ c.open = b.open
      /\ b.name = "epoll" => SameEntries(b, c)
      /\ \A e : e \in c.kernel /\ e.armed <=> e \in b.kernel /\ e.armed /\ e \notin batch
  <2>1. \A e \in batch : e.armed
    BY <1>3
  <2> HIDE DEF b, c, fired
  <2>2. b.name # "wsapoll"
    BY DEF b
  <2> QED BY <1>1, <1>2, <1>3, <2>1, <2>2, KernelBatch
<1> DEFINE bf == {e \in batch : e.kind # "timer"}
           bd == {e \in batch : e.kind = "timer"}
           f == {e.task : e \in bf}
           d == {e.task : e \in bd}
<1>5. /\ f \in SUBSET PollTasks /\ d \in SUBSET PollTasks
      /\ \A t : t \in f <=> \E e \in batch : e.kind # "timer" /\ e.task = t
      /\ \A t : t \in d <=> \E e \in batch : e.kind = "timer" /\ e.task = t
  BY <1>2, <1>3 DEF KernelEntries
<1>6. pollTold' = (f \X {"fd"}) \cup (d \X {"timer"})
  BY <1>1 DEF Event
<1>7. IsFiniteSet(fired) /\ IsFiniteSet(batch) /\ (Cardinality(batch) = Cardinality(fired) => batch = fired)
  BY <1>1, <1>2, FS_Subset
<1>8. Cardinality(fired) \in Nat /\ Cardinality(batch) \in Nat /\ Cardinality(batch) <= PollWant
  <2> HIDE DEF fired
  <2> QED BY <1>1, <1>7, FS_CardinalityType, PollAssumption
<1>9. Cardinality(batch) = PollWant \/ batch = fired
  BY <1>1, <1>7, <1>8, PollAssumption
<1>10. \A e \in fired : e.kind = "timer" => e.left <= 0
  OBVIOUS
<1>11. \A e \in b.kernel : e.armed /\ e.kind = "timer" /\ e \notin fired => ~(e.left <= 0)
  OBVIOUS
<1>12. batch # {}
  BY <1>1
<1> HIDE DEF T, b, c, fired
<1>13. \A x, y \in b.kernel : x.armed /\ y.armed /\ x.kind # "timer" /\ y.kind # "timer" /\ x.task = y.task => x = y
  <2> SUFFICES ASSUME NEW x \in b.kernel, NEW y \in b.kernel, x.armed, y.armed, x.kind # "timer", y.kind # "timer",
                      x.task = y.task
               PROVE  x = y
    OBVIOUS
  <2> DEFINE v == [fd |-> x.fd, kind |-> x.kind, task |-> x.task]
             w == [fd |-> y.fd, kind |-> y.kind, task |-> y.task]
  <2>1. v \in WatchView(b) /\ w \in WatchView(b)
    BY KernelViews DEF b
  <2>2. /\ v.fd = x.fd /\ v.kind = x.kind /\ v.task = x.task
        /\ w.fd = y.fd /\ w.kind = y.kind /\ w.task = y.task
    OBVIOUS
  <2> HIDE DEF v, w
  <2>3. x.fd = y.fd /\ x.kind = y.kind
    BY <1>2, <2>1, <2>2 DEF WatchesFit
  <2> QED BY <1>2, <2>3 DEF KernelKeyed
<1>14. \A x, y \in b.kernel : x.armed /\ y.armed /\ x.kind = "timer" /\ y.kind = "timer" /\ x.task = y.task => x = y
  <2> SUFFICES ASSUME NEW x \in b.kernel, NEW y \in b.kernel, x.armed, y.armed, x.kind = "timer", y.kind = "timer",
                      x.task = y.task
               PROVE  x = y
    OBVIOUS
  <2> DEFINE v == [id |-> x.fd, left |-> x.left, task |-> x.task]
             w == [id |-> y.fd, left |-> y.left, task |-> y.task]
  <2>1. v \in AlarmView(b) /\ w \in AlarmView(b)
    BY KernelViews DEF b
  <2>2. v.id = x.fd /\ v.task = x.task /\ w.id = y.fd /\ w.task = y.task
    OBVIOUS
  <2> HIDE DEF v, w
  <2>3. x.fd = y.fd
    BY <1>2, <2>1, <2>2 DEF AlarmsFit
  <2> QED BY <1>2, <2>3 DEF KernelKeyed
<1>15. Cardinality(f) + Cardinality(d) = Cardinality(batch)
  <2>1. IsFiniteSet(bf) /\ IsFiniteSet(bd)
    BY <1>7, FS_Subset
  <2>2. Cardinality(batch) = Cardinality(bf) + Cardinality(bd)
    <3>1. bf \cup bd = batch /\ bf \cap bd = {}
      OBVIOUS
    <3>2. Cardinality(bf \cup bd) = Cardinality(bf) + Cardinality(bd) - Cardinality(bf \cap bd)
      <4> HIDE DEF bf, bd
      <4> QED BY <2>1, FS_Union
    <3>3. Cardinality(bf) \in Nat /\ Cardinality(bd) \in Nat
      <4> HIDE DEF bf, bd
      <4> QED BY <2>1, FS_CardinalityType
    <3>4. Cardinality(bf \cap bd) = 0 /\ Cardinality(bf \cup bd) = Cardinality(batch)
      <4> HIDE DEF bf, bd
      <4> QED BY <3>1, FS_EmptySet
    <3> HIDE DEF bf, bd
    <3> QED BY <3>2, <3>3, <3>4
  <2>3. Cardinality(f) = Cardinality(bf)
    <3> DEFINE g == [e \in bf |-> e.task]
    <3>1. g \in [bf -> f] /\ \A u \in f : \E x \in bf : g[x] = u
      OBVIOUS
    <3>2. \A x, y \in bf : g[x] = g[y] => x = y
      BY <1>3, <1>13
    <3> HIDE DEF g, f, bf
    <3> QED BY <2>1, <3>1, <3>2, SameSize
  <2>4. Cardinality(d) = Cardinality(bd)
    <3> DEFINE g == [e \in bd |-> e.task]
    <3>1. g \in [bd -> d] /\ \A u \in d : \E x \in bd : g[x] = u
      OBVIOUS
    <3>2. \A x, y \in bd : g[x] = g[y] => x = y
      BY <1>3, <1>14
    <3> HIDE DEF g, d, bd
    <3> QED BY <2>1, <3>1, <3>2, SameSize
  <2> HIDE DEF f, d, bf, bd
  <2> QED BY <2>2, <2>3, <2>4
<1>16. Cardinality(f) + Cardinality(d) \in 1 .. PollWant
  <2>1. Cardinality(batch) # 0
    BY <1>7, <1>12, FS_EmptySet
  <2> HIDE DEF f, d
  <2> QED BY <1>8, <1>15, <2>1, PollAssumption
<1> HIDE DEF f, d, bf, bd
<1>17. b.name # "wsapoll" /\ c.name # "wsapoll"
  BY <1>4 DEF b
<1>18. ASSUME NEW w PROVE w \in WatchView(c) <=> w \in WatchView(b) /\ w.task \notin f
  <2>1. w \in WatchView(c) <=> \E e \in c.kernel : e.armed /\ e.kind # "timer" /\ w = [fd |-> e.fd, kind |-> e.kind, task |-> e.task]
    BY <1>17, KernelViews
  <2>2. w \in WatchView(b) <=> \E e \in b.kernel : e.armed /\ e.kind # "timer" /\ w = [fd |-> e.fd, kind |-> e.kind, task |-> e.task]
    BY <1>17, KernelViews
  <2>3. ASSUME NEW e \in b.kernel, e.armed, e.kind # "timer" PROVE e \in batch <=> e.task \in f
    BY <1>3, <1>5, <1>13, <2>3
  <2>4. \A e \in b.kernel : w = [fd |-> e.fd, kind |-> e.kind, task |-> e.task] => w.task = e.task
    OBVIOUS
  <2> QED BY <1>4, <2>1, <2>2, <2>3, <2>4
<1>19. ASSUME NEW a PROVE a \in AlarmView(c) <=> a \in AlarmView(b) /\ a.task \notin d
  <2>1. a \in AlarmView(c) <=> \E e \in c.kernel : e.armed /\ e.kind = "timer" /\ a = [id |-> e.fd, left |-> e.left, task |-> e.task]
    BY <1>17, KernelViews
  <2>2. a \in AlarmView(b) <=> \E e \in b.kernel : e.armed /\ e.kind = "timer" /\ a = [id |-> e.fd, left |-> e.left, task |-> e.task]
    BY <1>17, KernelViews
  <2>3. ASSUME NEW e \in b.kernel, e.armed, e.kind = "timer" PROVE e \in batch <=> e.task \in d
    BY <1>3, <1>5, <1>14, <2>3
  <2>4. \A e \in b.kernel : a = [id |-> e.fd, left |-> e.left, task |-> e.task] => a.task = e.task
    OBVIOUS
  <2> QED BY <1>4, <2>1, <2>2, <2>3, <2>4
<1>20. WatchView(c) = {w \in WatchView(b) : w.task \notin f} /\ AlarmView(c) = {a \in AlarmView(b) : a.task \notin d}
  BY <1>18, <1>19
<1>21. \A t \in f : \E w \in WatchView(b) : w.task = t
  <2>1. ASSUME NEW t \in f PROVE \E w \in WatchView(b) : w.task = t
    <3>1. PICK e \in batch : e.kind # "timer" /\ e.task = t
      BY <1>5
    <3> DEFINE w == [fd |-> e.fd, kind |-> e.kind, task |-> e.task]
    <3>2. w \in WatchView(b) /\ w.task = t
      BY <1>3, <1>17, <3>1, KernelViews
    <3> HIDE DEF w
    <3> QED BY <3>2
  <2> QED BY <2>1
<1>22. \A t \in d : \E a \in AlarmView(b) : a.task = t /\ a.left <= 0
  <2>1. ASSUME NEW t \in d PROVE \E a \in AlarmView(b) : a.task = t /\ a.left <= 0
    <3>1. PICK e \in batch : e.kind = "timer" /\ e.task = t
      BY <1>5
    <3> DEFINE a == [id |-> e.fd, left |-> e.left, task |-> e.task]
    <3>2. a \in AlarmView(b) /\ a.task = t /\ a.left <= 0
      BY <1>3, <1>17, <3>1, KernelViews
    <3> HIDE DEF a
    <3> QED BY <3>2
  <2> QED BY <2>1
<1>23. Cardinality(f) + Cardinality(d) = PollWant \/ \A a \in AlarmView(c) : a.left > 0
  <2> SUFFICES ASSUME batch = fired, NEW a \in AlarmView(c) PROVE a.left > 0
    BY <1>9, <1>15
  <2>1. PICK e \in c.kernel : e.armed /\ e.kind = "timer" /\ a = [id |-> e.fd, left |-> e.left, task |-> e.task]
    BY <1>17, KernelViews
  <2>2. e \in b.kernel /\ e \notin fired
    BY <1>4, <2>1
  <2>3. ~(e.left <= 0) /\ e.left \in Int /\ a.left = e.left
    BY <1>2, <1>11, <2>1, <2>2 DEF KernelEntries
  <2> QED BY <2>3
<1> QED BY <1>4, <1>5, <1>6, <1>16, <1>20, <1>21, <1>22, <1>23, Reported DEF b, c

(* The scan reports at most a batch.                                        *)
LEMMA HitsBound ==
  ASSUME NEW s \in Seq(FdEntries), NEW ready, NEW hits, hits = Hits(s, ready)
  PROVE  hits \subseteq 1 .. Len(s) /\ IsFiniteSet(hits) /\ Cardinality(hits) \in Nat /\ Cardinality(hits) <= PollWant
<1> DEFINE n == Len(s)
           Ready(k) == {j \in 1 .. k : s[j].fd \in ready}
           Got(k) == {j \in hits : j <= k}
           T == {k \in Nat : IsFiniteSet(Got(k)) /\ Cardinality(Got(k)) \in Nat /\ Cardinality(Got(k)) <= PollWant}
<1>1. n \in Nat /\ DOMAIN s = 1 .. n /\ PollWant \in Nat \ {0}
  BY PollAssumption
<1>2. hits = {i \in 1 .. n : s[i].fd \in ready /\ Cardinality(Ready(i - 1)) < PollWant}
  BY <1>1 DEF Hits
<1>3. hits \subseteq 1 .. n /\ \A i \in hits : i \in 1 .. n /\ s[i].fd \in ready /\ Cardinality(Ready(i - 1)) < PollWant
  BY <1>2
<1> HIDE DEF n
<1>4. 0 \in T
  <2>1. Got(0) = {}
    BY <1>1, <1>3
  <2>2. IsFiniteSet({}) /\ Cardinality({}) = 0
    BY FS_EmptySet
  <2>3. IsFiniteSet(Got(0)) /\ Cardinality(Got(0)) = 0
    <3> HIDE DEF Got
    <3> QED BY <2>1, <2>2
  <2> HIDE DEF Got
  <2>4. 0 <= PollWant
    BY <1>1
  <2> QED BY <2>3, <2>4
<1>5. ASSUME NEW k \in Nat, k \in T PROVE k + 1 \in T
  <2>1. CASE k + 1 \notin hits
    <3>1. Got(k + 1) = Got(k)
      BY <1>1, <1>3, <2>1
    <3>2. k + 1 \in Nat
      OBVIOUS
    <3> HIDE DEF Got
    <3> QED BY <1>5, <3>1, <3>2
  <2>2. CASE k + 1 \in hits
    <3>1. Got(k + 1) = Got(k) \cup {k + 1} /\ k + 1 \notin Got(k)
      BY <1>1, <1>3, <2>2
    <3>2. (k + 1) - 1 = k
      OBVIOUS
    <3>3. Cardinality(Ready(k)) < PollWant
      <4> HIDE DEF Ready
      <4> QED BY <1>3, <2>2, <3>2
    <3>4. Got(k) \subseteq Ready(k) /\ Ready(k) \subseteq 1 .. k
      <4>1. ASSUME NEW j \in Got(k) PROVE j \in 1 .. k /\ s[j].fd \in ready
        <5>1. j \in hits /\ j <= k
          OBVIOUS
        <5> HIDE DEF Ready, Got
        <5>2. j \in 1 .. n /\ s[j].fd \in ready
          BY <1>3, <5>1
        <5> QED BY <1>1, <5>1, <5>2
      <4> QED BY <4>1
    <3>5. IsFiniteSet(1 .. k)
      BY FS_Interval
    <3>6. IsFiniteSet(Got(k)) /\ Cardinality(Got(k)) \in Nat
      BY <1>5
    <3> HIDE DEF Got, Ready
    <3>7. IsFiniteSet(Ready(k)) /\ Cardinality(Ready(k)) \in Nat
      BY <3>4, <3>5, FS_Subset, FS_CardinalityType
    <3>8. Cardinality(Got(k)) <= Cardinality(Ready(k))
      BY <3>4, <3>7, FS_Subset
    <3>9. IsFiniteSet(Got(k + 1)) /\ Cardinality(Got(k + 1)) = Cardinality(Got(k)) + 1
      BY <3>1, <3>6, FS_AddElement
    <3>10. k + 1 \in Nat
      OBVIOUS
    <3>11. Cardinality(Got(k + 1)) \in Nat /\ Cardinality(Got(k + 1)) <= PollWant
      BY <1>1, <3>3, <3>6, <3>7, <3>8, <3>9
    <3> QED BY <3>9, <3>10, <3>11
  <2> QED BY <2>1, <2>2
<1>6. n \in T
  <2> HIDE DEF T
  <2> QED BY <1>1, <1>4, <1>5, Induct
<1>7. Got(n) = hits
  BY <1>1, <1>3
<1>8. hits \subseteq 1 .. Len(s)
  BY <1>3 DEF n
<1> HIDE DEF Got
<1> QED BY <1>6, <1>7, <1>8

\* The states of the descending loop: what is below the cursor is untouched,
\* and of what is above it exactly the hits are gone.
HitsAbove(s, hits, at) == {s[i] : i \in {j \in hits : j > at}}
DropSound(s, hits, fds, at) ==
  /\ ArrayKeyed(fds) /\ at <= Len(fds)
  /\ \A i \in 1 .. at : fds[i] = s[i]
  /\ Range(fds) = Range(s) \ HitsAbove(s, hits, at)
Dropping(s, hits) == {x \in [fds : Seq(FdEntries), at : Int, hits : {hits}] : DropSound(s, hits, x.fds, x.at)}

(* One turn of the loop.                                                    *)
LEMMA DropKeeps ==
  ASSUME NEW s \in Seq(FdEntries), NEW hits \in SUBSET (1 .. Len(s)), NEW x \in Dropping(s, hits), NEW u, u = DropTurn(x)
  PROVE  u \in Dropping(s, hits) /\ u.at = x.at - 1
<1> DEFINE a == x.at
           m == Len(x.fds)
           d == IF a \in hits THEN fds_drop(x.fds, a) ELSE x.fds
<1>1. /\ x.fds \in Seq(FdEntries) /\ a \in Int /\ x.hits = hits /\ ArrayKeyed(x.fds) /\ a <= m /\ m \in Nat
      /\ \A i \in 1 .. a : x.fds[i] = s[i]
      /\ Range(x.fds) = Range(s) \ HitsAbove(s, hits, a)
      /\ DOMAIN x.fds = 1 .. m
  <2>1. x.fds \in Seq(FdEntries) /\ a \in Int /\ x.hits = hits /\ DropSound(s, hits, x.fds, a)
    BY DEF Dropping
  <2>2. m \in Nat /\ DOMAIN x.fds = 1 .. m
    BY <2>1
  <2> QED BY <2>1, <2>2 DEF DropSound
<1>0. \A j \in hits : j \in Nat /\ j >= 1
  OBVIOUS
<1>2. u = [fds |-> d, at |-> a - 1, hits |-> hits]
  BY <1>1 DEF DropTurn, Dropping
<1>3. u.fds = d /\ u.at = a - 1 /\ u.hits = hits
  BY <1>2
<1>4. d \in Seq(FdEntries) /\ ArrayKeyed(d) /\ a - 1 <= Len(d) /\ (\A i \in 1 .. a - 1 : d[i] = s[i])
      /\ Range(d) = Range(s) \ HitsAbove(s, hits, a - 1)
  <2>1. CASE a \notin hits
    <3>1. d = x.fds
      BY <2>1
    <3>2. {j \in hits : j > a - 1} = {j \in hits : j > a}
      <4>1. \A j \in hits : j # a /\ j \in Int /\ a \in Int
        BY <1>0, <1>1, <2>1
      <4> HIDE DEF a
      <4>2. \A j \in hits : j > a - 1 <=> j > a
        BY <4>1
      <4> QED BY <4>2
    <3>3. HitsAbove(s, hits, a - 1) = HitsAbove(s, hits, a)
      <4> HIDE DEF a
      <4> QED BY <3>2 DEF HitsAbove
    <3> HIDE DEF d, a
    <3> QED BY <1>1, <3>1, <3>3
  <2>2. CASE a \in hits
    <3>1. d = fds_drop(x.fds, a)
      BY <2>2
    <3>2. a \in 1 .. m /\ m \in Nat \ {0} /\ x.fds \in Heaps(FdEntries, m)
      BY <1>0, <1>1, <2>2 DEF Heaps
    <3>3. Distinct(x.fds)
      BY <1>1 DEF ArrayKeyed, Distinct
    <3>4. /\ fds_drop(x.fds, a) \in Heaps(FdEntries, m - 1)
          /\ \A k \in 1 .. m - 1 : fds_drop(x.fds, a)[k] = IF k = a THEN x.fds[m] ELSE x.fds[k]
          /\ Range(fds_drop(x.fds, a)) = Range(x.fds) \ {x.fds[a]}
      <4> HIDE DEF a, m
      <4> QED BY <3>2, <3>3, FdsDrop
    <3> HIDE DEF d, a, m
    <3>5. d \in [1 .. m - 1 -> FdEntries] /\ m - 1 \in Nat
      BY <3>1, <3>2, <3>4 DEF Heaps
    <3>6. d \in Seq(FdEntries) /\ DOMAIN d = 1 .. m - 1 /\ Len(d) = m - 1
      BY <3>5
    <3>7. ArrayKeyed(d)
      <4>1. \A k \in 1 .. m - 1 : \E l \in 1 .. m : d[k] = x.fds[l] /\ l = IF k = a THEN m ELSE k
        BY <3>1, <3>2, <3>4
      <4> SUFFICES ASSUME NEW i \in 1 .. m - 1, NEW j \in 1 .. m - 1, d[i].fd = d[j].fd PROVE i = j
        BY <3>6 DEF ArrayKeyed
      <4>2. PICK k \in 1 .. m : d[i] = x.fds[k] /\ k = IF i = a THEN m ELSE i
        BY <4>1
      <4>3. PICK l \in 1 .. m : d[j] = x.fds[l] /\ l = IF j = a THEN m ELSE j
        BY <4>1
      <4>4. k = l
        BY <1>1, <4>2, <4>3 DEF ArrayKeyed
      <4> QED BY <3>2, <4>2, <4>3, <4>4
    <3>8. \A i \in 1 .. a - 1 : d[i] = s[i]
      BY <1>1, <3>1, <3>2, <3>4
    <3>9. x.fds[a] = s[a]
      BY <1>1, <3>2
    <3>10. {j \in hits : j > a - 1} = {j \in hits : j > a} \cup {a}
      <4>1. \A j \in hits : j > a - 1 <=> (j > a \/ j = a)
        BY <1>0, <1>1
      <4>2. a > a - 1
        BY <1>1
      <4> QED BY <2>2, <4>1, <4>2
    <3>11. HitsAbove(s, hits, a - 1) = HitsAbove(s, hits, a) \cup {s[a]}
      BY <3>10 DEF HitsAbove
    <3>12. Range(d) = Range(s) \ HitsAbove(s, hits, a - 1)
      BY <1>1, <3>1, <3>4, <3>9, <3>11
    <3> QED BY <1>1, <3>2, <3>6, <3>7, <3>8, <3>12
  <2> QED BY <2>1, <2>2
<1> HIDE DEF d, a
<1>5. u \in [fds : Seq(FdEntries), at : Int, hits : {hits}]
  BY <1>1, <1>2, <1>4
<1>6. DropSound(s, hits, d, a - 1)
  BY <1>4 DEF DropSound
<1> QED BY <1>3, <1>5, <1>6 DEF Dropping, a

DropRun(x, k) == After(DropTurn, x, k)

(* The loop, turn after turn.                                               *)
LEMMA DropLoop ==
  ASSUME NEW s \in Seq(FdEntries), NEW hits \in SUBSET (1 .. Len(s)), NEW x \in Dropping(s, hits)
  PROVE  /\ DropRun(x, 0) = x
         /\ \A k \in Nat : DropRun(x, k) \in Dropping(s, hits) /\ DropRun(x, k + 1) = DropTurn(DropRun(x, k))
<1> DEFINE S == Dropping(s, hits)
           F == [y \in S |-> DropTurn(y)]
           Run(g) == g = [k \in Nat |-> IF k = 0 THEN x ELSE DropTurn(g[k - 1])]
           run == CHOOSE g : Run(g)
<1> HIDE DEF S
<1>1. F \in [S -> S] /\ \A y \in S : F[y] = DropTurn(y)
  BY DropKeeps DEF S
<1> HIDE DEF F
<1>2. PICK g \in [Nat -> S] : g[0] = x /\ \A k \in Nat : g[k + 1] = F[g[k]]
  <2>1. x \in S /\ F \in [S -> S]
    BY <1>1 DEF S
  <2>2. RunsOf(S, F, x) # {}
    BY <2>1, Iterate
  <2> QED BY <2>2 DEF RunsOf
<1>3. Run(g)
  <2>1. ASSUME NEW k \in Nat PROVE g[k] = IF k = 0 THEN x ELSE DropTurn(g[k - 1])
    <3>1. CASE k # 0
      <4>1. k - 1 \in Nat /\ (k - 1) + 1 = k
        BY <3>1
      <4>2. g[(k - 1) + 1] = F[g[k - 1]]
        BY <1>2, <4>1
      <4> QED BY <1>1, <1>2, <3>1, <4>1, <4>2
    <3> QED BY <1>2, <3>1
  <2> QED BY <2>1
<1>4. Run(run)
  BY <1>3
<1>5. \A k : DropRun(x, k) = run[k]
  BY DEF After, DropRun
<1> HIDE DEF run
<1>6. run[0] = x /\ \A k \in Nat : run[k + 1] = DropTurn(run[k])
  BY <1>4
<1> DEFINE T == {k \in Nat : run[k] \in S}
<1>7. 0 \in T /\ \A k \in Nat : k \in T => k + 1 \in T
  <2>1. x \in S /\ \A y \in S : DropTurn(y) \in S
    BY <1>1 DEF S
  <2> HIDE DEF S
  <2>2. 0 \in T
    BY <1>6, <2>1
  <2>3. ASSUME NEW k \in Nat, k \in T PROVE k + 1 \in T
    <3>1. run[k] \in S /\ run[k + 1] = DropTurn(run[k])
      BY <1>6, <2>3
    <3>2. run[k + 1] \in S
      BY <2>1, <3>1
    <3>3. k + 1 \in Nat
      OBVIOUS
    <3> QED BY <3>2, <3>3
  <2> QED BY <2>2, <2>3
<1> HIDE DEF T
<1>8. Nat \subseteq T
  BY <1>7, Induct
<1> QED BY <1>5, <1>6, <1>8 DEF T, S

(* The loop drops exactly the hits.                                         *)
LEMMA Drops ==
  ASSUME NEW s \in Seq(FdEntries), ArrayKeyed(s), NEW hits \in SUBSET (1 .. Len(s)), NEW r, r = DropHits(s, hits)
  PROVE  r \in Seq(FdEntries) /\ ArrayKeyed(r) /\ Range(r) = Range(s) \ {s[i] : i \in hits}
<1> DEFINE n == Len(s)
           x == [fds |-> s, at |-> n, hits |-> hits]
           St(k) == DropRun(x, k)
           T == {k \in Nat : St(k).at = n - k}
<1>1. n \in Nat /\ x.fds = s /\ x.at = n /\ x.hits = hits
  OBVIOUS
<1>2. {j \in hits : j > n} = {} /\ {j \in hits : j > 0} = hits
  <2>1. \A j \in hits : j \in 1 .. n
    OBVIOUS
  <2>2. \A j \in hits : ~(j > n) /\ j > 0
    BY <1>1, <2>1
  <2> QED BY <2>2
<1>3. x \in Dropping(s, hits)
  <2>1. x \in [fds : Seq(FdEntries), at : Int, hits : {hits}]
    OBVIOUS
  <2>2. HitsAbove(s, hits, n) = {}
    BY <1>2 DEF HitsAbove
  <2>3. DropSound(s, hits, s, n)
    BY <1>1, <2>2 DEF DropSound
  <2> HIDE DEF x
  <2> QED BY <1>1, <2>1, <2>3 DEF Dropping
<1>4. r = St(n).fds
  BY DEF DropHits, DropRun
<1>5. St(0) = x /\ \A k \in Nat : St(k) \in Dropping(s, hits) /\ St(k + 1) = DropTurn(St(k))
  <2> HIDE DEF x
  <2> QED BY <1>3, DropLoop
<1> HIDE DEF x, St, n
<1>6. 0 \in T
  BY <1>1, <1>5
<1>7. ASSUME NEW k \in Nat, k \in T PROVE k + 1 \in T
  <2>1. St(k + 1).at = St(k).at - 1
    <3>1. St(k) \in Dropping(s, hits) /\ St(k + 1) = DropTurn(St(k))
      BY <1>5
    <3> QED BY <3>1, DropKeeps
  <2> QED BY <1>1, <1>7, <2>1
<1>8. n \in T
  <2> HIDE DEF T
  <2> QED BY <1>1, <1>6, <1>7, Induct
<1>9. St(n) \in Dropping(s, hits) /\ St(n).at = 0
  BY <1>1, <1>5, <1>8
<1>10. /\ r \in Seq(FdEntries) /\ ArrayKeyed(r)
       /\ Range(r) = Range(s) \ HitsAbove(s, hits, 0)
  <2>1. r \in Seq(FdEntries) /\ DropSound(s, hits, r, 0)
    BY <1>4, <1>9 DEF Dropping
  <2> QED BY <2>1 DEF DropSound
<1>11. HitsAbove(s, hits, 0) = {s[i] : i \in hits}
  BY <1>2 DEF HitsAbove
<1> QED BY <1>10, <1>11

(* sprout_poll_wait on Windows: the hits of the scan, then the due timers.  *)
LEMMA WinWaitStep ==
  ASSUME PollInv, pollTold = {}, \A t \in PollTasks : pollTask[t].st # "woken", pollTask' = pollTask,
         pollB.name = "wsapoll", NEW ready, WinWait(ready), pollTold' # {}
  PROVE  PollInv' /\ PollStep
<1> DEFINE T == pollTask
           b == pollB
           c == pollB'
           s == b.fds
           h == b.timers
           hits == Hits(s, ready)
           room == PollWant - Cardinality(hits)
           r == DropHits(s, hits)
           rest == Harvest(h, room)
           gone == Range(h) \ Range(rest)
           f == {s[i].task : i \in hits}
           d == {e.task : e \in gone}
<1>1. /\ BackendSound(b) /\ WatchesFit(T, b, {}) /\ AlarmsFit(T, b, {})
      /\ b \in Backend /\ b.kernel = {} /\ s \in Seq(FdEntries) /\ ArrayKeyed(s)
      /\ h \in GoodHeaps(TimerEntries) /\ WatchView(b) = Range(s) /\ AlarmView(b) = Range(h)
  <2>1. BackendSound(b) /\ WatchesFit(T, b, {}) /\ AlarmsFit(T, b, {}) /\ b.name = "wsapoll"
    BY DEF PollInv, PollSound
  <2> HIDE DEF b
  <2> QED BY <2>1, Arrays
<1>2. /\ hits \subseteq 1 .. Len(s) /\ IsFiniteSet(hits)
      /\ Cardinality(hits) \in Nat /\ Cardinality(hits) <= PollWant
  <2> HIDE DEF hits, s
  <2> QED BY <1>1, HitsBound DEF hits
<1>3. room \in Nat /\ PollWant \in Nat /\ PollWant = Cardinality(hits) + room
  <2> HIDE DEF hits
  <2> QED BY <1>2, PollAssumption
<1>4. /\ r \in Seq(FdEntries) /\ ArrayKeyed(r) /\ Range(r) = Range(s) \ {s[i] : i \in hits}
  <2>1. hits \in SUBSET (1 .. Len(s))
    BY <1>2
  <2> HIDE DEF hits, s, r
  <2> QED BY <1>1, <2>1, Drops DEF r
<1>5. /\ rest \in GoodHeaps(TimerEntries) /\ Range(rest) \subseteq Range(h)
      /\ IsFiniteSet(gone) /\ (\A e \in gone : e.left <= 0) /\ Cardinality(gone) <= room
      /\ Cardinality(gone) = room \/ \A e \in Range(rest) : e.left > 0
  <2>1. rest = Harvest(h, room)
    OBVIOUS
  <2> HIDE DEF rest, h, room
  <2> QED BY <1>1, <1>3, <2>1, TimerEntriesTimed, Harvested
<1>6. /\ c = [b EXCEPT !.fds = r, !.timers = rest]
      /\ pollTold' = {<<s[i].task, "fd">> : i \in hits} \cup {<<e.task, "timer">> : e \in gone}
  BY <1>1 DEF WinWait, Backend
<1>7. pollTold' = (f \X {"fd"}) \cup (d \X {"timer"})
  <2> HIDE DEF hits, gone, s
  <2> QED BY <1>6
<1>8. b.name = "wsapoll" /\ pollTold' # {}
  OBVIOUS
<1> HIDE DEF T, b, c, s, h, hits, room, r, rest, gone
<1>9. c \in Backend /\ c.name = b.name /\ c.kernel = b.kernel /\ c.open = b.open /\ c.fds = r /\ c.timers = rest
  <2>1. rest \in Seq(TimerEntries)
    BY <1>5 DEF GoodHeaps
  <2> DEFINE a == [b EXCEPT !.fds = r]
  <2>2. c = [a EXCEPT !.timers = rest]
    BY <1>6
  <2>3. /\ a \in Backend /\ a.name = b.name /\ a.kernel = b.kernel /\ a.open = b.open /\ a.fds = r
    BY <1>1, <1>4 DEF Backend
  <2> HIDE DEF a
  <2> QED BY <2>1, <2>2, <2>3 DEF Backend
<1>10. BackendSound(c) /\ WatchView(c) = Range(r) /\ AlarmView(c) = Range(rest)
  <2>1. /\ BackendSound(b) /\ b.name = "wsapoll" /\ r \in Seq(FdEntries) /\ ArrayKeyed(r)
        /\ rest \in GoodHeaps(TimerEntries) /\ c \in Backend /\ c.name = b.name /\ c.kernel = b.kernel
        /\ c.fds = r /\ c.timers = rest
    BY <1>1, <1>4, <1>5, <1>8, <1>9
  <2> QED BY ONLY <2>1, NewArrays
<1>11. \A i \in hits : s[i] \in WatchView(b) /\ s[i].task \in PollTasks /\ i \in DOMAIN s
  <2>1. ASSUME NEW i \in hits PROVE i \in DOMAIN s
    BY <1>1, <1>2
  <2>2. ASSUME NEW i \in DOMAIN s PROVE s[i] \in Range(s) /\ s[i] \in FdEntries
    BY <1>1 DEF Range
  <2>3. \A e \in FdEntries : e.task \in PollTasks
    BY DEF FdEntries
  <2> QED BY <1>1, <2>1, <2>2, <2>3
<1>12. \A w \in WatchView(b) : \A x \in WatchView(b) : w.task = x.task => w = x
  <2> SUFFICES ASSUME NEW w \in WatchView(b), NEW x \in WatchView(b), w.task = x.task PROVE w = x
    OBVIOUS
  <2>1. w.fd = x.fd
    BY <1>1 DEF WatchesFit
  <2>2. PICK i \in DOMAIN s, j \in DOMAIN s : w = s[i] /\ x = s[j]
    BY <1>1 DEF Range
  <2>3. i = j
    BY <1>1, <2>1, <2>2 DEF ArrayKeyed
  <2> QED BY <2>2, <2>3
<1>13. \A a \in AlarmView(b) : \A x \in AlarmView(b) : a.task = x.task => a = x
  BY <1>1 DEF AlarmsFit
<1>14. gone \subseteq AlarmView(b) /\ (\A e \in gone : e.task \in PollTasks) /\ \A a \in AlarmView(b) : a.left \in Int
  <2>1. \A a \in AlarmView(b) : a \in TimerEntries
    BY <1>1 DEF GoodHeaps, Range
  <2> QED BY <1>1, <2>1 DEF gone, TimerEntries
<1>15. f \in SUBSET PollTasks /\ d \in SUBSET PollTasks
  BY <1>11, <1>14
<1>16. Cardinality(f) = Cardinality(hits)
  <2> DEFINE g == [i \in hits |-> s[i].task]
  <2>1. g \in [hits -> f] /\ \A u \in f : \E x \in hits : g[x] = u
    OBVIOUS
  <2>2. \A x, y \in hits : g[x] = g[y] => x = y
    <3>1. \A x, y \in hits : g[x] = g[y] => s[x] = s[y]
      BY <1>11, <1>12
    <3>2. \A x, y \in hits : s[x] = s[y] => x = y
      BY <1>1, <1>11 DEF ArrayKeyed
    <3> HIDE DEF g
    <3> QED BY <3>1, <3>2
  <2> HIDE DEF g, f
  <2> QED BY <1>2, <2>1, <2>2, SameSize
<1>17. Cardinality(d) = Cardinality(gone)
  <2> DEFINE g == [e \in gone |-> e.task]
  <2>1. g \in [gone -> d] /\ \A u \in d : \E x \in gone : g[x] = u
    OBVIOUS
  <2>2. \A x, y \in gone : g[x] = g[y] => x = y
    BY <1>13, <1>14
  <2> HIDE DEF g, d
  <2> QED BY <1>5, <2>1, <2>2, SameSize
<1>18. Cardinality(gone) \in Nat
  BY <1>5, FS_CardinalityType
<1>19. Cardinality(f) + Cardinality(d) \in 1 .. PollWant
  <2>1. hits # {} \/ gone # {}
    BY <1>6, <1>8
  <2>2. Cardinality(hits) # 0 \/ Cardinality(gone) # 0
    BY <1>2, <1>5, <2>1, FS_EmptySet
  <2> HIDE DEF f, d
  <2> QED BY <1>2, <1>3, <1>5, <1>16, <1>17, <1>18, <2>2
<1>20. Cardinality(f) + Cardinality(d) = PollWant \/ \A a \in AlarmView(c) : a.left > 0
  <2> HIDE DEF f, d
  <2> QED BY <1>2, <1>3, <1>5, <1>10, <1>16, <1>17
<1>21. WatchView(c) = {w \in WatchView(b) : w.task \notin f}
  <2>1. ASSUME NEW w \in WatchView(b) PROVE w \in {s[i] : i \in hits} <=> w.task \in f
    BY <1>11, <1>12, <2>1
  <2>2. WatchView(c) = WatchView(b) \ {s[i] : i \in hits}
    BY <1>1, <1>4, <1>10
  <2> HIDE DEF f
  <2> QED BY <2>1, <2>2
<1>22. AlarmView(c) = {a \in AlarmView(b) : a.task \notin d}
  <2>1. ASSUME NEW a \in AlarmView(b) PROVE a \in gone <=> a.task \in d
    BY <1>13, <1>14, <2>1
  <2>2. AlarmView(c) = AlarmView(b) \ gone
    BY <1>1, <1>5, <1>10 DEF gone
  <2> HIDE DEF d
  <2> QED BY <2>1, <2>2
<1>23. \A t \in f : \E w \in WatchView(b) : w.task = t
  BY <1>11
<1>24. \A t \in d : \E a \in AlarmView(b) : a.task = t /\ a.left <= 0
  BY <1>5, <1>14
<1> HIDE DEF f, d
<1>25. b.name # "epoll"
  BY <1>8
<1> QED BY <1>7, <1>9, <1>10, <1>15, <1>19, <1>20, <1>21, <1>22, <1>23, <1>24, <1>25, Reported DEF b, c

(* sprout_poll_wait, whichever the backend.                                 *)
LEMMA WaitStep ==
  ASSUME PollInv, sprout_poll_wait
  PROVE  PollInv' /\ PollStep
<1>1. /\ pollTold = {} /\ (\A t \in PollTasks : pollTask[t].st # "woken") /\ pollTask' = pollTask /\ pollTold' # {}
      /\ \E ready : IF pollB.name = "wsapoll" THEN WinWait(ready) ELSE KernelWait(ready)
  BY DEF sprout_poll_wait
<1>2. PICK ready : IF pollB.name = "wsapoll" THEN WinWait(ready) ELSE KernelWait(ready)
  BY <1>1
<1>3. CASE pollB.name = "wsapoll"
  BY <1>1, <1>2, <1>3, WinWaitStep
<1>4. CASE pollB.name # "wsapoll"
  BY <1>1, <1>2, <1>4, KernelWaitStep
<1> QED BY <1>3, <1>4

-----------------------------------------------------------------------------
(* The theorems *)

(* Nothing is registered and nobody waits.                                  *)
LEMMA PollStarts == PollInit => PollInv /\ Contract!Init
<1> SUFFICES ASSUME PollInit PROVE PollInv /\ Contract!Init
  OBVIOUS
<1> DEFINE T == pollTask
           b == pollB
<1>1. /\ T = [t \in PollTasks |-> FreeTask] /\ pollTold = {} /\ b.name \in Backends /\ b.kernel = {}
      /\ b.fds = <<>> /\ b.timers = <<>> /\ b.open = {} /\ b.misuse = {}
      /\ b \in [name : Backends, kernel : {{}}, fds : {<<>>}, timers : {<<>>}, open : {{}}, misuse : {{}}]
  BY DEF PollInit
<1> HIDE DEF T, b
<1>2. WatchView(b) = {} /\ AlarmView(b) = {} /\ Watches(b) = {} /\ Alarms(b) = {}
  <2>1. Range(<<>>) = {}
    BY DEF Range
  <2> QED BY <1>1, <2>1 DEF WatchView, AlarmView, Watches, Alarms, Armed
<1>3. BackendSound(b)
  <2>1. b \in Backend
    <3>1. /\ {} \in SUBSET KernelEntries /\ {} \in SUBSET (1 .. PollFdMax)
          /\ <<>> \in Seq(FdEntries) /\ <<>> \in Seq(TimerEntries)
      OBVIOUS
    <3> QED BY ONLY <1>1, <3>1 DEF Backend
  <2>2. ArrayKeyed(<<>>)
    BY DEF ArrayKeyed
  <2>3. <<>> \in GoodHeaps(TimerEntries)
    BY DEF GoodHeaps, Heaps, Distinct, Ordered
  <2>4. IsFiniteSet({})
    BY FS_EmptySet
  <2> QED BY <1>1, <2>1, <2>2, <2>3, <2>4 DEF BackendSound, KernelKeyed
<1>4. FreeTask \in TaskStates
  BY PollAssumption DEF TaskStates, FreeTask, Interests
<1>5. \A t \in PollTasks : /\ T[t].st = "free" /\ T[t].park = "none" /\ T[t].fd = 0
                           /\ T[t].interest = "read" /\ T[t].tid = 0
  BY <1>1 DEF FreeTask
<1>6. TasksSound(T, b.open)
  <2>1. T \in [PollTasks -> TaskStates]
    BY <1>1, <1>4
  <2> QED BY <1>5, <2>1 DEF TasksSound
<1>7. EpollFits(T, b)
  BY <1>1, <1>5 DEF EpollFits
<1>8. WatchesFit(T, b, {}) /\ AlarmsFit(T, b, {}) /\ ToldFits(T, {})
  BY <1>2 DEF WatchesFit, AlarmsFit, ToldFits, Events
<1>9. PollInv
  BY <1>1, <1>3, <1>6, <1>7, <1>8 DEF PollInv, PollSound, T, b
<1>10. /\ WatchMap(b) = [t \in PollTasks |-> [fd |-> 0, kind |-> "none"]]
       /\ AlarmMap(b) = [t \in PollTasks |-> <<>>]
  <2>1. \A t : {e \in Watches(b) : e.task = t} = {} /\ {e \in Alarms(b) : e.task = t} = {}
    BY <1>2
  <2> QED BY <2>1 DEF WatchMap, AlarmMap
<1> QED BY <1>1, <1>9, <1>10 DEF Contract!Init, Contract!NoWatch, Contract!NoAlarm, b

(* Every step keeps the invariant and is a step of the contract.            *)
LEMMA PollSteps == PollInv /\ [PollNext]_pollVars => PollInv' /\ PollStep
<1> SUFFICES ASSUME PollInv, [PollNext]_pollVars PROVE PollInv' /\ PollStep
  OBVIOUS
<1>1. CASE UNCHANGED pollVars
  <2>1. pollTask' = pollTask /\ pollB' = pollB /\ pollTold' = pollTold
    BY <1>1 DEF pollVars
  <2>2. PollInv'
    BY <2>1 DEF PollInv
  <2>3. PollStep
    BY <2>1 DEF PollStep
  <2> QED BY <2>2, <2>3
<1>2. CASE sprout_poll_wait
  BY <1>2, WaitStep
<1>3. CASE pump_harvest
  BY <1>3, PumpStep
<1>4. CASE Tick
  BY <1>4, TickStep
<1>5. ASSUME NEW t \in PollTasks, PollTaskStep(t) PROVE PollInv' /\ PollStep
  <2>1. CASE socket_open(t)
    BY <2>1, OpenStep
  <2>2. CASE scheduler_park_on_fd(t)
    BY <2>2, ParkFdStep
  <2>3. CASE scheduler_park_on_fd_timeout(t)
    BY <2>3, ParkTimeoutStep
  <2>4. CASE resume(t)
    BY <2>4, ResumeStep
  <2>5. CASE force_drop_task(t)
    BY <2>5, DropStep
  <2>6. CASE socket_close(t)
    BY <2>6, CloseStep
  <2> QED BY <1>5, <2>1, <2>2, <2>3, <2>4, <2>5, <2>6 DEF PollTaskStep
<1> QED BY <1>1, <1>2, <1>3, <1>4, <1>5 DEF PollNext

(* The poller's invariant: the backend, the tasks and what was reported     *)
(* agree in every reachable state.                                          *)
THEOREM PollAgrees == PollSpec => []PollInv
<1>1. PollInit => PollInv
  BY PollStarts
<1>2. PollInv /\ [PollNext]_pollVars => PollInv'
  BY PollSteps
<1> QED BY <1>1, <1>2, PTL DEF PollSpec

(* No sequence of parks, waits, drops and closes makes the scheduler call   *)
(* the poller on a descriptor that is closed or not its own.                *)
THEOREM PollSafety == PollSpec => []PollNeverMisused
<1>1. PollInv => PollNeverMisused
  BY DEF PollInv, PollSound, BackendSound, Backend, PollNeverMisused
<1> QED BY <1>1, PollAgrees, PTL

(* Every backend implements the contract.                                   *)
THEOREM PollRefines == PollSpec => PollImplements
<1>1. PollInit => PollInv /\ Contract!Init
  BY PollStarts
<1>2. PollInv /\ [PollNext]_pollVars => PollInv' /\ [Contract!Next]_<<WatchMap(pollB), AlarmMap(pollB), pollTold>>
  BY PollSteps DEF PollStep
<1> QED BY <1>1, <1>2, PTL DEF PollSpec, PollImplements, Contract!Spec
=============================================================================
