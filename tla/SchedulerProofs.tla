-------------------------- MODULE SchedulerProofs --------------------------
(* Proofs about Scheduler, for any number of tasks, scopes and timers.      *)
(*                                                                          *)
(* The properties hold for programs that keep the two rules whose breach    *)
(* the runs SchedulerCapture and SchedulerNested are about (Disciplined).   *)
(* None of the properties is inductive alone: why a task is not queued      *)
(* twice depends on what every other task is parked on, and why a scope is  *)
(* not freed under a task depends on the live count and on who can still    *)
(* name the scope.  SchedInv is the conjunction of what they need, one      *)
(* group of conjuncts per concern: births, queues, the poller, awaits and   *)
(* deadlines, joins, scopes.                                                *)
EXTENDS Scheduler, FiniteSetTheorems, SequenceTheorems, WellFoundedInduction, NaturalsInduction, TLAPS

USE BoundsAssumption, NoneAssumption

\* No scope value escapes to a task that outlives the scope, and no task
\* that can be dropped parks inside a scope of its own.
Disciplined == "capture" \notin Uses /\ "nested" \notin Uses

NoDup(q) == \A i, j \in 1 .. Len(q) : q[i] = q[j] => i = j

Ready(t)   == t = cur \/ t \in Elems(rq)
RunPlaces  == {"body", "finish", "reclassify"}
PollPlaces == {"fd", "fdtimer", "sleep", "deadline"}
Fd(t)      == <<t, "fd">> \in armed \cup batch
Timer(t)   == <<t, "timer">> \in armed \cup batch
Members(s) == {t \in Tasks : Alive(t) /\ scope[t] = s}

-----------------------------------------------------------------------------
(* The inductive invariant.                                                 *)

\* Types; that live counts are naturals follows from ScopeInv.
RunType ==
  /\ cur \in Tasks \cup {None} /\ rq \in Seq(Tasks)
  /\ io \in SUBSET Tasks /\ chanq \in SUBSET Tasks
  /\ pc \in [Tasks -> Places]
PollType ==
  /\ armed \in SUBSET (Tasks \X {"fd", "timer"}) /\ batch \in SUBSET (Tasks \X {"fd", "timer"})
  /\ timerfd \in [Timers -> Tasks \cup {None}] /\ misclosed \in BOOLEAN
  /\ park_timer_id \in [Tasks -> Timers \cup {None}]
  /\ park_timer_dead \in [Tasks -> BOOLEAN] /\ park_woke_by_timer \in [Tasks -> BOOLEAN]
  /\ sockets \in SUBSET Tasks /\ hooked \in SUBSET Tasks
LinkType ==
  /\ awaiter \in [Tasks -> Tasks \cup {None}]
  /\ holder \in [Tasks -> Tasks \cup {None}]
  /\ timed \in [Tasks -> Tasks \cup {None}]
  /\ awaitable \in [Tasks -> BOOLEAN]
  /\ waiter \in [Scopes -> Tasks \cup {None}]
ScopeType ==
  /\ scope \in [Tasks -> Scopes \cup {None}] /\ stack \in [Tasks -> Seq(Scopes)]
  /\ captured \in [Tasks -> SUBSET Scopes] /\ outer \in [Scopes -> SUBSET Scopes]
  /\ live \in [Scopes -> Int] /\ owner \in [Scopes -> Tasks \cup {None}]
  /\ reason \in [Scopes -> {"none", "cancelled", "timed out"}]
  /\ sstate \in [Scopes -> {"unborn", "open", "freed"}]
SchedType == RunType /\ PollType /\ LinkType /\ ScopeType

\* Records are given out in order; main belongs to no scope and does not end.
BirthInv ==
  /\ \A c, d \in Tasks : pc[c] = "unborn" /\ c < d => pc[d] = "unborn"
  /\ \A r, s \in Scopes : sstate[r] = "unborn" /\ r < s => sstate[s] = "unborn"
  /\ \A c \in Tasks : c # Main /\ pc[c] # "unborn" => scope[c] \in Scopes
  /\ Alive(Main) /\ scope[Main] = None
  /\ \A c \in Tasks : pc[c] = "unborn" =>
       /\ timed[c] = None /\ holder[c] = None /\ awaiter[c] = None
       /\ stack[c] = <<>> /\ scope[c] = None

\* A task is in one queue at most, in the one that its place says or ready.
PlacedAt(t) ==
  /\ Ready(t) => Alive(t) /\ t \notin io /\ t \notin chanq
  /\ t \in io => pc[t] \in PollPlaces
  /\ t \in chanq => pc[t] = "chan"
  /\ pc[t] \in RunPlaces => Ready(t)
  /\ pc[t] \in PollPlaces => Ready(t) \/ t \in io
  /\ pc[t] = "chan" => Ready(t) \/ t \in chanq
  /\ pc[t] = "await" => Ready(t) \/ \E f \in Tasks : awaiter[f] = t
  /\ pc[t] = "join" => Ready(t) \/ waiter[Innermost(t)] = t
QueueInv ==
  /\ NoDup(rq) /\ cur \notin Elems(rq) /\ (cur # None => batch = {})
  /\ \A t \in Tasks : PlacedAt(t)

\* The events still to come for a task and its timer, by its place and by
\* whether it is suspended in the poller or has been woken.
PolledAt(t) ==
  /\ Timer(t) <=> ParksOnTimer(t) /\ ~park_timer_dead[t]
  /\ Fd(t) => ParksOnFd(t)
  /\ Timer(t) => park_timer_id[t] \in Timers /\ timerfd[park_timer_id[t]] = t
  /\ t \in io => /\ pc[t] \in {"sleep", "deadline", "fdtimer"} => Timer(t)
                 /\ pc[t] \in {"fd", "fdtimer"} => Fd(t)
  /\ t \notin io => /\ pc[t] = "fd" => ~Fd(t)
                    /\ pc[t] \in {"sleep", "deadline"} => park_timer_dead[t]
                    /\ pc[t] = "fdtimer" => IF park_woke_by_timer[t] THEN park_timer_dead[t] ELSE ~Fd(t)
  /\ t \in sockets => pc[t] \in {"fd", "fdtimer"} /\ (t \in io => t \in hooked)
PollInv ==
  /\ armed \cap batch = {} /\ ~misclosed
  /\ \A i \in Timers : timerfd[i] # None => Timer(timerfd[i]) /\ park_timer_id[timerfd[i]] = i
  /\ \A t \in Tasks : PolledAt(t)

\* f is awaited by one task, parked and not runnable, or in a deadline on f.
AwaitedAt(f) ==
  awaiter[f] # None =>
    /\ Alive(f) /\ pc[awaiter[f]] \in {"await", "deadline"}
    /\ pc[awaiter[f]] = "await" => ~Ready(awaiter[f])
    /\ pc[awaiter[f]] = "deadline" => timed[awaiter[f]] = f
\* The body of a with_timeout: it is in the scope that the call opened, and
\* nobody else waits for it.
TimedAt(t) ==
  /\ timed[t] # None <=> pc[t] \in {"deadline", "reclassify"}
  /\ timed[t] # None =>
       /\ Alive(timed[t]) \/ pc[timed[t]] = "returned"
       /\ awaitable[timed[t]] /\ holder[timed[t]] = None /\ awaiter[timed[t]] \in {None, t}
       /\ stack[t] # <<>> /\ scope[timed[t]] = Innermost(t)
       /\ t \in io => awaiter[timed[t]] = t
       /\ pc[t] = "reclassify" => awaiter[timed[t]] = None
HeldAt(f) == holder[f] # None => awaiter[f] = None /\ pc[f] # "unborn"
AwaitInv ==
  /\ \A f \in Tasks : AwaitedAt(f) /\ TimedAt(f) /\ HeldAt(f)
  /\ \A f, g \in Tasks : awaiter[f] # None /\ awaiter[f] = awaiter[g] => f = g

\* A joiner waits for its innermost scope while that has live tasks, and is
\* runnable only when it has none.
JoinedAt(s) ==
  waiter[s] # None => /\ pc[waiter[s]] = "join" /\ ~Ready(waiter[s])
                      /\ Innermost(waiter[s]) = s /\ live[s] > 0
JoiningAt(t) == pc[t] = "join" => stack[t] # <<>> /\ (Ready(t) => live[Innermost(t)] = 0)
JoinInv == (\A s \in Scopes : JoinedAt(s)) /\ (\A t \in Tasks : JoiningAt(t))

\* The scopes a task has opened are open and its own, the inner ones younger;
\* a task that can be dropped has none.
StackedAt(t) ==
  /\ \A i, j \in 1 .. Len(stack[t]) : i < j => stack[t][i] < stack[t][j]
  /\ \A s \in Elems(stack[t]) : sstate[s] = "open" /\ owner[s] = t
  /\ ~Alive(t) => stack[t] = <<>>
  /\ t \in io \cup chanq /\ scope[t] # None /\ pc[t] # "deadline" => stack[t] = <<>>
\* An open scope is on the stack of its opener, who can still name all that
\* it could name when it opened the scope.
OpenAt(s) ==
  sstate[s] = "open" =>
    /\ owner[s] \in Tasks /\ Alive(owner[s]) /\ s \in Elems(stack[owner[s]])
    /\ outer[s] \subseteq Usable(owner[s])
    /\ \A r \in outer[s] : r < s /\ sstate[r] = "open"
\* A task runs in an open scope older than those it opened, its closure names
\* only scopes that enclose that one, and its opener is an older task.
InsideAt(t) ==
  Alive(t) =>
    /\ scope[t] = None => captured[t] = {}
    /\ scope[t] # None => /\ sstate[scope[t]] = "open" /\ owner[scope[t]] < t
                          /\ captured[t] \subseteq {scope[t]} \cup outer[scope[t]]
                          /\ \A s \in Elems(stack[t]) : scope[t] < s
ScopeInv ==
  /\ \A t \in Tasks : StackedAt(t) /\ InsideAt(t)
  /\ \A s \in Scopes : OpenAt(s)
  /\ \A s \in Scopes : live[s] = Cardinality(Members(s))

SchedInv == SchedType /\ BirthInv /\ QueueInv /\ PollInv /\ AwaitInv /\ JoinInv /\ ScopeInv

-----------------------------------------------------------------------------
(* Queues.                                                                  *)

(* rq_push adds one task at the end.                                        *)
LEMMA PushElems ==
  ASSUME NEW S, NEW q \in Seq(S), NEW t \in S
  PROVE  /\ Elems(Append(q, t)) = Elems(q) \cup {t} /\ Append(q, t) \in Seq(S)
         /\ NoDup(q) /\ t \notin Elems(q) => NoDup(Append(q, t))
<1>1. /\ Append(q, t) \in Seq(S) /\ Len(Append(q, t)) = Len(q) + 1 /\ Len(q) \in Nat
      /\ \A i \in 1 .. Len(q) : Append(q, t)[i] = q[i]
      /\ Append(q, t)[Len(q) + 1] = t
  BY AppendProperties
<1>2. Elems(Append(q, t)) = Elems(q) \cup {t}
  <2>1. ASSUME NEW x \in Elems(Append(q, t)) PROVE x \in Elems(q) \cup {t}
    BY <1>1, <2>1 DEF Elems
  <2>2. ASSUME NEW x \in Elems(q) PROVE x \in Elems(Append(q, t))
    <3>1. PICK i \in 1 .. Len(q) : x = q[i]
      BY DEF Elems
    <3> QED BY <1>1, <3>1 DEF Elems
  <2>3. t \in Elems(Append(q, t))
    BY <1>1 DEF Elems
  <2> QED BY <2>1, <2>2, <2>3
<1>3. ASSUME NoDup(q), t \notin Elems(q) PROVE NoDup(Append(q, t))
  BY <1>1, <1>3 DEF NoDup, Elems
<1> QED BY <1>1, <1>2, <1>3

(* The pump takes the head of the ready queue.                              *)
LEMMA PopElems ==
  ASSUME NEW S, NEW q \in Seq(S), q # <<>>, NoDup(q)
  PROVE  /\ Head(q) \in Elems(q) /\ Head(q) \in S /\ Tail(q) \in Seq(S)
         /\ Elems(Tail(q)) = Elems(q) \ {Head(q)} /\ NoDup(Tail(q))
<1>1. /\ Len(q) \in Nat \ {0} /\ Len(Tail(q)) = Len(q) - 1 /\ Head(q) = q[1]
      /\ \A i \in 1 .. Len(q) - 1 : Tail(q)[i] = q[i + 1]
      /\ Tail(q) \in Seq(S) /\ Head(q) \in S
  BY HeadTailProperties, EmptySeq
<1>2. Head(q) \in Elems(q)
  BY <1>1 DEF Elems
<1>3. ASSUME NEW x \in Elems(Tail(q)) PROVE x \in Elems(q) \ {Head(q)}
  <2>1. PICK i \in 1 .. Len(q) - 1 : x = q[i + 1]
    BY <1>1, <1>3 DEF Elems
  <2>2. i + 1 \in 1 .. Len(q) /\ 1 \in 1 .. Len(q) /\ i + 1 # 1
    BY <1>1, <2>1
  <2> QED BY <1>1, <2>1, <2>2 DEF Elems, NoDup
<1>4. ASSUME NEW x \in Elems(q), x # Head(q) PROVE x \in Elems(Tail(q))
  <2>1. PICK i \in 1 .. Len(q) : x = q[i]
    BY <1>4 DEF Elems
  <2>2. i # 1 /\ i - 1 \in 1 .. Len(q) - 1 /\ Tail(q)[i - 1] = q[i]
    BY <1>1, <1>4, <2>1
  <2> QED BY <1>1, <2>1, <2>2 DEF Elems
<1>5. NoDup(Tail(q))
  <2> SUFFICES ASSUME NEW i \in 1 .. Len(q) - 1, NEW j \in 1 .. Len(q) - 1, Tail(q)[i] = Tail(q)[j]
               PROVE  i = j
    BY <1>1 DEF NoDup
  <2>1. i + 1 \in 1 .. Len(q) /\ j + 1 \in 1 .. Len(q) /\ q[i + 1] = q[j + 1]
    BY <1>1
  <2>2. i + 1 = j + 1
    BY <2>1 DEF NoDup
  <2> QED BY <1>1, <2>2
<1> QED BY <1>1, <1>2, <1>3, <1>4, <1>5

(* A queue without repetition is as long as its set of tasks.               *)
LEMMA NoDupCount ==
  ASSUME NEW S, NEW q \in Seq(S), NoDup(q)
  PROVE  Cardinality(Elems(q)) = Len(q)
<1>1. Len(q) \in Nat /\ DOMAIN q = 1 .. Len(q)
  OBVIOUS
<1>2. IsFiniteSet(1 .. Len(q)) /\ Cardinality(1 .. Len(q)) = Len(q)
  BY <1>1, FS_Interval
<1>3. q \in Bijection(1 .. Len(q), Elems(q))
  <2>1. q \in [1 .. Len(q) -> Elems(q)]
    BY <1>1 DEF Elems
  <2>2. q \in Injection(1 .. Len(q), Elems(q))
    BY <2>1 DEF Injection, IsInjective, NoDup
  <2>3. q \in Surjection(1 .. Len(q), Elems(q))
    BY <2>1 DEF Surjection, Elems
  <2> QED BY <2>2, <2>3 DEF Bijection
<1> QED BY <1>2, <1>3, FS_Bijection DEF ExistsBijection

\* The scopes of a stack, the youngest last.
Rising(q) == \A i, j \in 1 .. Len(q) : i < j => q[i] < q[j]

(* The innermost scope of a stack is its youngest.                          *)
LEMMA TopOfStack ==
  ASSUME NEW q \in Seq(Scopes), q # <<>>, Rising(q)
  PROVE  /\ q[Len(q)] \in Elems(q) /\ q[Len(q)] \in Scopes
         /\ \A s \in Elems(q) : s \in Scopes /\ s <= q[Len(q)]
<1>1. Len(q) \in Nat \ {0} /\ \A i \in 1 .. Len(q) : q[i] \in Scopes
  BY EmptySeq
<1>2. ASSUME NEW i \in 1 .. Len(q) PROVE q[i] <= q[Len(q)]
  <2>1. q[i] \in Int /\ q[Len(q)] \in Int /\ Len(q) \in 1 .. Len(q)
    BY <1>1 DEF Scopes
  <2> QED BY <1>1, <2>1 DEF Rising
<1> QED BY <1>1, <1>2 DEF Elems

(* Joining the innermost scope takes it, and nothing else, off the stack.   *)
LEMMA PopStack ==
  ASSUME NEW q \in Seq(Scopes), q # <<>>, Rising(q)
  PROVE  /\ SubSeq(q, 1, Len(q) - 1) \in Seq(Scopes) /\ Rising(SubSeq(q, 1, Len(q) - 1))
         /\ Elems(SubSeq(q, 1, Len(q) - 1)) = Elems(q) \ {q[Len(q)]}
<1> DEFINE p == SubSeq(q, 1, Len(q) - 1)
<1>1. Len(q) \in Nat \ {0} /\ \A i \in 1 .. Len(q) : q[i] \in Scopes
  BY EmptySeq
<1>2. p \in Seq(Scopes) /\ Len(p) = Len(q) - 1 /\ \A i \in 1 .. Len(q) - 1 : p[i] = q[i]
  <2>1. PICK n \in Int : n = Len(q) - 1
    BY <1>1
  <2>2. \A i \in 1 .. n : q[i] \in Scopes
    BY <1>1, <2>1
  <2>3. /\ SubSeq(q, 1, n) \in Seq(Scopes) /\ Len(SubSeq(q, 1, n)) = IF 1 <= n THEN n - 1 + 1 ELSE 0
        /\ \A i \in 1 .. n - 1 + 1 : SubSeq(q, 1, n)[i] = q[1 + i - 1]
    BY <2>2, SubSeqProperties
  <2> QED BY <1>1, <2>1, <2>3
<1> HIDE DEF p
<1>3. Rising(p)
  BY <1>1, <1>2 DEF Rising
<1>4. ASSUME NEW s \in Elems(p) PROVE s \in Elems(q) \ {q[Len(q)]}
  <2>1. PICK i \in 1 .. Len(q) - 1 : s = q[i]
    BY <1>2, <1>4 DEF Elems
  <2>2. i \in 1 .. Len(q) /\ Len(q) \in 1 .. Len(q) /\ i < Len(q) /\ q[i] \in Int /\ q[Len(q)] \in Int
    BY <1>1, <2>1 DEF Scopes
  <2>3. q[i] < q[Len(q)]
    BY <2>2 DEF Rising
  <2> QED BY <2>1, <2>2, <2>3 DEF Elems
<1>5. ASSUME NEW s \in Elems(q), s # q[Len(q)] PROVE s \in Elems(p)
  <2>1. PICK i \in 1 .. Len(q) : s = q[i]
    BY <1>5 DEF Elems
  <2>2. i \in 1 .. Len(q) - 1
    BY <1>1, <1>5, <2>1
  <2> QED BY <1>2, <2>1, <2>2 DEF Elems
<1> QED BY <1>2, <1>3, <1>4, <1>5 DEF p

(* Opening a scope younger than those on the stack.                         *)
LEMMA PushStack ==
  ASSUME NEW q \in Seq(Scopes), Rising(q), NEW s \in Scopes, \A r \in Elems(q) : r < s
  PROVE  /\ Append(q, s) \in Seq(Scopes) /\ Append(q, s) # <<>> /\ Rising(Append(q, s))
         /\ Elems(Append(q, s)) = Elems(q) \cup {s}
         /\ Append(q, s)[Len(Append(q, s))] = s
<1>1. /\ Append(q, s) \in Seq(Scopes) /\ Len(Append(q, s)) = Len(q) + 1 /\ Len(q) \in Nat
      /\ \A i \in 1 .. Len(q) : Append(q, s)[i] = q[i]
      /\ Append(q, s)[Len(q) + 1] = s
  BY AppendProperties
<1>2. Rising(Append(q, s))
  <2> SUFFICES ASSUME NEW i \in 1 .. Len(q) + 1, NEW j \in 1 .. Len(q) + 1, i < j
               PROVE  Append(q, s)[i] < Append(q, s)[j]
    BY <1>1 DEF Rising
  <2>1. i \in 1 .. Len(q) /\ q[i] \in Elems(q)
    BY <1>1 DEF Elems
  <2>2. CASE j = Len(q) + 1
    BY <1>1, <2>1, <2>2
  <2>3. CASE j # Len(q) + 1
    <3>1. j \in 1 .. Len(q)
      BY <1>1, <2>3
    <3> QED BY <1>1, <2>1, <3>1 DEF Rising
  <2> QED BY <2>2, <2>3
<1>3. Append(q, s) # <<>>
  BY <1>1, EmptySeq
<1> QED BY <1>1, <1>2, <1>3, PushElems

-----------------------------------------------------------------------------
(* Facts drawn from the invariant.                                          *)

(* The running task, and what its place excludes.                           *)
LEMMA RunningTask ==
  ASSUME SchedInv, NEW t \in Tasks, cur = t
  PROVE  /\ Ready(t) /\ Alive(t) /\ t \notin io /\ t \notin chanq /\ t \notin Elems(rq)
         /\ batch = {} /\ t # None
         /\ \A f \in Tasks : awaiter[f] = t => pc[t] = "deadline"
         /\ \A s \in Scopes : waiter[s] # t
<1>1. t # None /\ t \in Nat
  BY DEF Tasks
<1>2. Ready(t) /\ batch = {} /\ t \notin Elems(rq) /\ PlacedAt(t)
  BY <1>1 DEF SchedInv, QueueInv, Ready
<1>3. Alive(t) /\ t \notin io /\ t \notin chanq
  BY <1>2 DEF PlacedAt
<1>4. ASSUME NEW f \in Tasks, awaiter[f] = t PROVE pc[t] = "deadline"
  <2>1. AwaitedAt(f)
    BY DEF SchedInv, AwaitInv
  <2> QED BY <1>1, <1>2, <1>4, <2>1 DEF AwaitedAt
<1>5. ASSUME NEW s \in Scopes, waiter[s] = t PROVE FALSE
  <2>1. JoinedAt(s)
    BY DEF SchedInv, JoinInv
  <2> QED BY <1>1, <1>2, <1>5, <2>1 DEF JoinedAt
<1> QED BY <1>1, <1>2, <1>3, <1>4, <1>5

(* The scopes that have no live task and are innermost on their opener's    *)
(* stack cannot be named by anyone else: whoever could name one runs in it, *)
(* or in a scope opened by one who could, and the oldest such scope would   *)
(* have been opened by a task of the scope itself.                          *)
LEMMA NobodyElseNames ==
  ASSUME SchedInv, NEW t \in Tasks, stack[t] # <<>>, live[Innermost(t)] = 0
  PROVE  /\ \A u \in Tasks : Alive(u) => scope[u] # Innermost(t)
         /\ \A r \in Scopes : sstate[r] = "open" => Innermost(t) \notin outer[r]
         /\ \A u \in Tasks : Alive(u) => Innermost(t) \notin captured[u]
<1> DEFINE s == Innermost(t)
<1>1. stack[t] \in Seq(Scopes) /\ StackedAt(t) /\ Rising(stack[t])
  <2>1. stack[t] \in Seq(Scopes) /\ StackedAt(t)
    BY DEF SchedInv, SchedType, ScopeType, ScopeInv
  <2> QED BY <2>1 DEF StackedAt, Rising
<1>2. s \in Scopes /\ s \in Elems(stack[t]) /\ \A r \in Elems(stack[t]) : r <= s
  BY <1>1, TopOfStack DEF Innermost
<1> HIDE DEF s
<1>3. ASSUME NEW u \in Tasks, Alive(u), scope[u] = s PROVE FALSE
  <2>1. u \in Members(s) /\ Cardinality(Members(s)) = 0
    BY <1>2, <1>3 DEF SchedInv, ScopeInv, Members, s
  <2>2. IsFiniteSet(Tasks) /\ Members(s) \subseteq Tasks
    BY FS_Interval DEF Tasks, Members
  <2>3. IsFiniteSet(Members(s))
    BY <2>2, FS_Subset
  <2> QED BY <2>1, <2>3, FS_EmptySet
<1>4. \A r \in Scopes : sstate[r] = "open" => s \notin outer[r]
  <2> DEFINE D == {r \in Scopes : sstate[r] = "open" /\ s \in outer[r]}
             R == OpToRel(<, Nat)
  <2> SUFFICES ASSUME D # {} PROVE FALSE
    OBVIOUS
  <2>1. D \subseteq Nat
    BY DEF Scopes
  <2>2. \A p \in Nat \X Nat : p[1] < p[2] => p \in R
    BY Zenon DEF OpToRel
  <2>3. IsWellFoundedOn(R, Nat)
    BY NatLessThanWellFounded
  <2> HIDE DEF R
  <2>4. PICK r \in D : \A q \in D : ~ (<<q, r>> \in R)
    BY <2>1, <2>3, WFMin
  <2>5. \A q \in D : ~ (q < r)
    <3> SUFFICES ASSUME NEW q \in D, q < r PROVE FALSE
      OBVIOUS
    <3>1. <<q, r>> \in Nat \X Nat /\ <<q, r>>[1] < <<q, r>>[2]
      BY <2>1
    <3> QED BY <2>2, <2>4, <3>1
  <2>6. PICK u \in Tasks : u = owner[r]
    BY DEF SchedInv, ScopeInv, OpenAt
  <2>7. Alive(u) /\ r \in Elems(stack[u]) /\ s \in Usable(u) /\ s < r
    BY <2>6 DEF SchedInv, ScopeInv, OpenAt
  <2>8. InsideAt(u) /\ StackedAt(u) /\ owner[s] = t
    BY <1>1, <1>2 DEF SchedInv, ScopeInv, StackedAt
  <2>9. CASE s \in Elems(stack[u])
    <3>1. u = t
      BY <2>8, <2>9 DEF StackedAt
    <3>2. r <= s /\ r \in Int /\ s \in Int
      BY <1>2, <2>7, <3>1 DEF Scopes
    <3> QED BY <2>7, <3>2
  <2>10. CASE s \in captured[u]
    <3>1. scope[u] # None /\ scope[u] # s
      BY <1>3, <2>7, <2>8, <2>10 DEF InsideAt
    <3>2. s \in outer[scope[u]] /\ sstate[scope[u]] = "open" /\ scope[u] < r
      BY <2>7, <2>8, <2>10, <3>1 DEF InsideAt
    <3>3. scope[u] \in Scopes
      BY <3>1 DEF SchedInv, SchedType, ScopeType
    <3> QED BY <2>5, <3>2, <3>3
  <2> QED BY <2>7, <2>9, <2>10 DEF Usable
<1>5. ASSUME NEW u \in Tasks, Alive(u), s \in captured[u] PROVE FALSE
  <2>1. InsideAt(u)
    BY DEF SchedInv, ScopeInv
  <2>2. scope[u] # None /\ s \in {scope[u]} \cup outer[scope[u]] /\ sstate[scope[u]] = "open"
    BY <1>5, <2>1 DEF InsideAt
  <2>3. scope[u] \in Scopes
    BY <2>2 DEF SchedInv, SchedType, ScopeType
  <2> QED BY <1>3, <1>4, <1>5, <2>2, <2>3
<1> QED BY <1>3, <1>4, <1>5 DEF s

-----------------------------------------------------------------------------
(* What a step leaves alone.  Each lemma is about one group of conjuncts.   *)

\* u stays in the queue and at the place where it is.
Stays(u) == /\ pc'[u] = pc[u] /\ (Ready(u)' <=> Ready(u))
            /\ (u \in io' <=> u \in io) /\ (u \in chanq' <=> u \in chanq)

(* Births, when no record is given out.                                     *)
LEMMA BirthFrame ==
  ASSUME BirthInv, scope' = scope, sstate' = sstate, Alive(Main)',
         \A u \in Tasks : pc'[u] = "unborn" <=> pc[u] = "unborn",
         \A u \in Tasks : pc[u] = "unborn" => /\ timed'[u] = timed[u] /\ holder'[u] = holder[u]
                                              /\ awaiter'[u] = awaiter[u] /\ stack'[u] = stack[u]
  PROVE  BirthInv'
<1>1. \A c, d \in Tasks : pc'[c] = "unborn" /\ c < d => pc'[d] = "unborn"
  BY DEF BirthInv
<1>2. \A r, s \in Scopes : sstate'[r] = "unborn" /\ r < s => sstate'[s] = "unborn"
  BY DEF BirthInv
<1>3. \A c \in Tasks : c # Main /\ pc'[c] # "unborn" => scope'[c] \in Scopes
  BY DEF BirthInv
<1>4. \A c \in Tasks : pc'[c] = "unborn" =>
        /\ timed'[c] = None /\ holder'[c] = None /\ awaiter'[c] = None
        /\ stack'[c] = <<>> /\ scope'[c] = None
  BY DEF BirthInv
<1> QED BY <1>1, <1>2, <1>3, <1>4 DEF BirthInv

(* The poller, when no task parks in it or leaves it.                       *)
LEMMA PollFrame ==
  ASSUME PollInv, io' = io, UNCHANGED pollVars, UNCHANGED parkVars,
         \A u \in Tasks : pc'[u] = pc[u] \/ (pc[u] \notin PollPlaces /\ pc'[u] \notin PollPlaces)
  PROVE  PollInv'
<1>1. /\ armed' = armed /\ batch' = batch /\ timerfd' = timerfd /\ misclosed' = misclosed
      /\ park_timer_id' = park_timer_id /\ park_timer_dead' = park_timer_dead
      /\ park_woke_by_timer' = park_woke_by_timer /\ sockets' = sockets /\ hooked' = hooked
  BY DEF pollVars, parkVars
<1>2. ASSUME NEW u \in Tasks PROVE PolledAt(u)'
  <2>1. PolledAt(u) /\ (Fd(u)' <=> Fd(u)) /\ (Timer(u)' <=> Timer(u))
    BY <1>1 DEF PollInv, Fd, Timer
  <2>2. CASE pc'[u] = pc[u]
    BY <1>1, <2>1, <2>2 DEF PolledAt, ParksOnTimer, ParksOnFd
  <2>3. CASE pc[u] \notin PollPlaces /\ pc'[u] \notin PollPlaces
    BY <1>1, <2>1, <2>3 DEF PolledAt, ParksOnTimer, ParksOnFd, PollPlaces
  <2> QED BY <2>2, <2>3
<1>3. \A i \in Timers : timerfd'[i] # None => Timer(timerfd[i])' /\ park_timer_id'[timerfd'[i]] = i
  BY <1>1 DEF PollInv, Timer
<1> QED BY <1>1, <1>2, <1>3 DEF PollInv, Timer

\* Where a task is that neither awaits nor is in a deadline.
OpenPlaces == {"body", "join", "finish", "fd", "fdtimer", "sleep", "chan"}
\* A task nobody waits for, gone after the step.
Gone(u) == /\ pc[u] \notin {"await", "deadline", "reclassify", "unborn"} /\ pc'[u] \in {"dropped", "freed"}
           /\ awaiter[u] = None /\ \A x \in Tasks : timed[x] # u

\* A task returns from an await.
Back(u) == pc[u] = "await" /\ pc'[u] = "body" /\ \A f \in Tasks : awaiter[f] # u

(* Awaits and deadlines, when no task begins to wait or ends a deadline.    *)
LEMMA AwaitFrame ==
  ASSUME AwaitInv, LinkType,
         awaiter' = awaiter, timed' = timed, awaitable' = awaitable, scope' = scope,
         \A u \in Tasks : holder[u] = None => holder'[u] = None,
         \A u \in Tasks : pc'[u] = pc[u] \/ {pc[u], pc'[u]} \subseteq OpenPlaces \/ Back(u) \/ Gone(u),
         \A u \in Tasks : pc[u] = "await" /\ Ready(u)' => Ready(u),
         \A u \in Tasks : timed[u] # None => stack'[u] = stack[u] /\ (u \in io' => u \in io)
  PROVE  AwaitInv'
<1>1. ASSUME NEW f \in Tasks PROVE AwaitedAt(f)'
  <2> SUFFICES ASSUME awaiter[f] # None
               PROVE  /\ Alive(f)' /\ pc'[awaiter[f]] \in {"await", "deadline"}
                      /\ pc'[awaiter[f]] = "await" => ~Ready(awaiter[f])'
                      /\ pc'[awaiter[f]] = "deadline" => timed[awaiter[f]] = f
    BY DEF AwaitedAt, Ready
  <2>1. PICK w \in Tasks : w = awaiter[f]
    BY DEF LinkType
  <2>2. AwaitedAt(f)
    BY DEF AwaitInv
  <2>3. Alive(f) /\ pc[w] \in {"await", "deadline"}
    BY <2>1, <2>2 DEF AwaitedAt
  <2>4. pc'[w] = pc[w]
    BY <2>1, <2>3 DEF Gone, Back, OpenPlaces
  <2>5. Alive(f)'
    BY <2>3 DEF Gone, Back, OpenPlaces, Alive
  <2>6. pc[w] = "await" => ~Ready(w)'
    BY <2>2, <2>1 DEF AwaitedAt
  <2>7. pc[w] = "deadline" => timed[w] = f
    BY <2>2, <2>1 DEF AwaitedAt
  <2> QED BY <2>1, <2>3, <2>4, <2>5, <2>6, <2>7
<1>2. ASSUME NEW t \in Tasks PROVE TimedAt(t)'
  <2>1. TimedAt(t)
    BY DEF AwaitInv
  <2>2. timed[t] # None <=> pc'[t] \in {"deadline", "reclassify"}
    BY <2>1 DEF TimedAt, Gone, Back, OpenPlaces
  <2>3. ASSUME timed[t] # None
        PROVE  /\ Alive(timed[t])' \/ pc'[timed[t]] = "returned"
               /\ awaitable[timed[t]] /\ holder'[timed[t]] = None /\ awaiter[timed[t]] \in {None, t}
               /\ stack'[t] # <<>> /\ scope[timed[t]] = Innermost(t)'
               /\ t \in io' => awaiter[timed[t]] = t
               /\ pc'[t] = "reclassify" => awaiter[timed[t]] = None
    <3>1. PICK c \in Tasks : c = timed[t]
      BY <2>3 DEF LinkType
    <3>2. /\ Alive(c) \/ pc[c] = "returned"
          /\ awaitable[c] /\ holder[c] = None /\ awaiter[c] \in {None, t}
          /\ stack[t] # <<>> /\ scope[c] = Innermost(t)
          /\ t \in io => awaiter[c] = t
          /\ pc[t] = "reclassify" => awaiter[c] = None
          /\ pc[t] \in {"deadline", "reclassify"}
      BY <2>1, <2>3, <3>1 DEF TimedAt
    <3>3. pc'[t] = pc[t] /\ stack'[t] = stack[t] /\ holder'[c] = None
      BY <2>3, <3>2 DEF Gone, Back, OpenPlaces
    <3>4. Alive(c)' \/ pc'[c] = "returned"
      BY <3>1, <3>2 DEF Gone, Back, OpenPlaces, Alive
    <3>5. t \in io' => awaiter[c] = t
      BY <2>3, <3>2
    <3> QED BY <3>1, <3>2, <3>3, <3>4, <3>5 DEF Innermost
  <2>4. TimedAt(t)' <=> (/\ timed[t] # None <=> pc'[t] \in {"deadline", "reclassify"}
                         /\ timed[t] # None =>
                              /\ Alive(timed[t])' \/ pc'[timed[t]] = "returned"
                              /\ awaitable[timed[t]] /\ holder'[timed[t]] = None /\ awaiter[timed[t]] \in {None, t}
                              /\ stack'[t] # <<>> /\ scope[timed[t]] = Innermost(t)'
                              /\ t \in io' => awaiter[timed[t]] = t
                              /\ pc'[t] = "reclassify" => awaiter[timed[t]] = None)
    BY DEF TimedAt, Alive
  <2> QED BY <2>2, <2>3, <2>4
<1>3. ASSUME NEW f \in Tasks PROVE HeldAt(f)'
  BY DEF AwaitInv, HeldAt, Gone, Back, OpenPlaces
<1>4. \A f, g \in Tasks : awaiter[f] # None /\ awaiter[f] = awaiter[g] => f = g
  BY DEF AwaitInv
<1> QED BY <1>1, <1>2, <1>3, <1>4 DEF AwaitInv

(* Joins, when nobody begins or ends one; the count of a scope may change   *)
(* if nobody joins the scope.                                               *)
LEMMA JoinFrame ==
  ASSUME JoinInv, LinkType, waiter' = waiter,
         \A u \in Tasks : pc'[u] = "join" <=> pc[u] = "join",
         \A u \in Tasks : pc[u] = "join" => stack'[u] = stack[u] /\ (Ready(u)' <=> Ready(u)),
         \A s \in Scopes : live'[s] = live[s] \/ (\A u \in Tasks : pc[u] = "join" => Innermost(u) # s),
         \A u \in Tasks : pc[u] = "join" => Innermost(u) \in Scopes
  PROVE  JoinInv'
<1>1. ASSUME NEW s \in Scopes PROVE JoinedAt(s)'
  <2> SUFFICES ASSUME waiter[s] # None
               PROVE  /\ pc'[waiter[s]] = "join" /\ ~Ready(waiter[s])'
                      /\ Innermost(waiter[s])' = s /\ live'[s] > 0
    BY DEF JoinedAt, Ready, Innermost
  <2>1. PICK w \in Tasks : w = waiter[s]
    BY DEF LinkType
  <2>2. JoinedAt(s)
    BY DEF JoinInv
  <2>3. pc[w] = "join" /\ ~Ready(w) /\ Innermost(w) = s /\ live[s] > 0
    BY <2>1, <2>2 DEF JoinedAt
  <2>4. pc'[w] = "join" /\ ~Ready(w)' /\ stack'[w] = stack[w]
    BY <2>3
  <2>5. live'[s] = live[s] /\ Innermost(w)' = s
    BY <2>3, <2>4 DEF Innermost
  <2> QED BY <2>1, <2>3, <2>4, <2>5
<1>2. ASSUME NEW t \in Tasks PROVE JoiningAt(t)'
  <2> SUFFICES ASSUME pc[t] = "join" PROVE stack'[t] # <<>> /\ (Ready(t)' => live'[Innermost(t)'] = 0)
    BY DEF JoiningAt
  <2>1. JoiningAt(t)
    BY DEF JoinInv
  <2>2. stack'[t] = stack[t] /\ (Ready(t)' <=> Ready(t)) /\ Innermost(t)' = Innermost(t) /\ Innermost(t) \in Scopes
    BY DEF Innermost
  <2>3. live'[Innermost(t)] = live[Innermost(t)]
    BY <2>2
  <2> QED BY <2>1, <2>2, <2>3 DEF JoiningAt
<1> QED BY <1>1, <1>2 DEF JoinInv

(* Scopes, when none is opened or closed and no task begins or ends.        *)
LEMMA ScopeFrame ==
  ASSUME ScopeInv, ScopeType,
         stack' = stack, sstate' = sstate, owner' = owner, outer' = outer, scope' = scope,
         captured' = captured, live' = live,
         \A u \in Tasks : Alive(u)' <=> Alive(u),
         \A u \in Tasks : u \in io' \cup chanq' /\ pc'[u] # "deadline" =>
           (u \in io \cup chanq /\ pc[u] # "deadline") \/ scope[u] = None \/ stack[u] = <<>>
  PROVE  ScopeInv'
<1>1. ASSUME NEW u \in Tasks PROVE StackedAt(u)'
  <2>1. StackedAt(u)
    BY DEF ScopeInv
  <2> QED BY <2>1 DEF StackedAt
<1>2. ASSUME NEW u \in Tasks PROVE InsideAt(u)'
  <2>1. InsideAt(u)
    BY DEF ScopeInv
  <2> QED BY <2>1 DEF InsideAt
<1>3. ASSUME NEW s \in Scopes PROVE OpenAt(s)'
  <2>1. OpenAt(s) /\ Usable(owner[s])' = Usable(owner[s])
    BY DEF ScopeInv, Usable
  <2>2. owner[s] \in Tasks => (Alive(owner[s])' <=> Alive(owner[s]))
    OBVIOUS
  <2> QED BY <2>1, <2>2 DEF OpenAt, Usable, Alive
<1>4. ASSUME NEW s \in Scopes PROVE live'[s] = Cardinality(Members(s)')
  <2>1. Members(s)' = Members(s)
    BY DEF Members
  <2> QED BY <2>1 DEF ScopeInv
<1> QED BY <1>1, <1>2, <1>3, <1>4 DEF ScopeInv

(* Scopes, when the tasks D of scope s, none with a scope of its own, end.  *)
LEMMA ScopeLeave ==
  ASSUME ScopeInv, ScopeType,
         stack' = stack, sstate' = sstate, owner' = owner, outer' = outer, scope' = scope,
         captured' = captured,
         NEW s \in Scopes, NEW D \in SUBSET Tasks,
         \A d \in D : Alive(d) /\ scope[d] = s /\ stack[d] = <<>>,
         \A u \in Tasks : Alive(u)' <=> Alive(u) /\ u \notin D,
         \A u \in Tasks : u \in io' \cup chanq' /\ pc'[u] # "deadline" => u \in io \cup chanq /\ pc[u] # "deadline",
         live'[s] = live[s] - Cardinality(D),
         \A r \in Scopes : r # s => live'[r] = live[r]
  PROVE  ScopeInv'
<1>1. ASSUME NEW u \in Tasks PROVE StackedAt(u)'
  <2>1. StackedAt(u)
    BY DEF ScopeInv
  <2> QED BY <2>1 DEF StackedAt
<1>2. ASSUME NEW u \in Tasks PROVE InsideAt(u)'
  <2>1. InsideAt(u)
    BY DEF ScopeInv
  <2> QED BY <2>1 DEF InsideAt
<1>3. ASSUME NEW r \in Scopes PROVE OpenAt(r)'
  <2> SUFFICES ASSUME sstate[r] = "open"
               PROVE  /\ owner[r] \in Tasks /\ Alive(owner[r])' /\ r \in Elems(stack[owner[r]])
                      /\ outer[r] \subseteq Usable(owner[r])'
                      /\ \A q \in outer[r] : q < r /\ sstate[q] = "open"
    BY DEF OpenAt, Usable, Alive
  <2>1. OpenAt(r)
    BY DEF ScopeInv
  <2>2. PICK w \in Tasks : w = owner[r]
    BY <2>1 DEF OpenAt
  <2>3. Alive(w) /\ r \in Elems(stack[w]) /\ outer[r] \subseteq Usable(w)
    BY <2>1, <2>2 DEF OpenAt
  <2>4. stack[w] # <<>>
    BY <2>3 DEF Elems
  <2>5. Alive(w)' /\ Usable(w)' = Usable(w)
    BY <2>3, <2>4 DEF Usable
  <2> QED BY <2>1, <2>2, <2>3, <2>5 DEF OpenAt
<1>4. ASSUME NEW r \in Scopes PROVE live'[r] = Cardinality(Members(r)')
  <2>1. live[r] = Cardinality(Members(r))
    BY DEF ScopeInv
  <2>2. IsFiniteSet(Members(r)) /\ IsFiniteSet(D)
    <3>1. IsFiniteSet(Tasks) /\ Members(r) \subseteq Tasks
      BY FS_Interval DEF Members, Tasks
    <3> QED BY <3>1, FS_Subset
  <2>3. CASE r = s
    <3>1. Members(r)' = Members(r) \ D /\ D \subseteq Members(r)
      BY <2>3 DEF Members
    <3>2. Cardinality(Members(r) \ D) = Cardinality(Members(r)) - Cardinality(Members(r) \cap D)
      BY <2>2, FS_Difference
    <3>3. Members(r) \cap D = D
      BY <3>1
    <3> QED BY <2>1, <2>3, <3>1, <3>2, <3>3
  <2>4. CASE r # s
    <3>1. Members(r)' = Members(r)
      BY <2>4 DEF Members
    <3> QED BY <2>1, <2>4, <3>1
  <2> QED BY <2>3, <2>4
<1> QED BY <1>1, <1>2, <1>3, <1>4 DEF ScopeInv

(* Queues: only the tasks M change their place.                             *)
LEMMA QueueFrame ==
  ASSUME SchedInv, NEW M \in SUBSET Tasks,
         NoDup(rq)', (cur \notin Elems(rq))', cur' # None => batch' = {},
         \A u \in Tasks : u \notin M => Stays(u),
         \A f \in Tasks : awaiter'[f] = awaiter[f] \/ awaiter[f] \in M \cup {None},
         \A s \in Scopes : waiter'[s] = waiter[s] \/ waiter[s] \in M \cup {None},
         \A u \in Tasks : u \notin M /\ pc[u] = "join" => stack'[u] = stack[u],
         \A u \in M : PlacedAt(u)'
  PROVE  QueueInv'
<1>1. ASSUME NEW u \in Tasks, u \notin M PROVE PlacedAt(u)'
  <2>1. PlacedAt(u) /\ Stays(u) /\ u # None
    BY <1>1 DEF SchedInv, QueueInv, Tasks
  <2>2. (pc[u] = "await" => Ready(u) \/ \E f \in Tasks : awaiter[f] = u) =>
        (pc[u] = "await" => Ready(u) \/ \E f \in Tasks : awaiter'[f] = u)
    BY <1>1, <2>1
  <2>3. ASSUME pc[u] = "join", waiter[Innermost(u)] = u PROVE waiter'[Innermost(u)'] = u
    <3>1. JoiningAt(u) /\ StackedAt(u) /\ stack[u] \in Seq(Scopes)
      BY DEF SchedInv, JoinInv, ScopeInv, SchedType, ScopeType
    <3>2. stack[u] # <<>> /\ Rising(stack[u])
      BY <2>3, <3>1 DEF JoiningAt, StackedAt, Rising
    <3>3. Innermost(u) \in Scopes
      BY <3>1, <3>2, TopOfStack DEF Innermost
    <3>4. Innermost(u)' = Innermost(u)
      BY <1>1, <2>3 DEF Innermost
    <3> QED BY <1>1, <2>1, <2>3, <3>3, <3>4
  <2>4. /\ Ready(u) => Alive(u) /\ u \notin io /\ u \notin chanq
        /\ u \in io => pc[u] \in PollPlaces
        /\ u \in chanq => pc[u] = "chan"
        /\ pc[u] \in RunPlaces => Ready(u)
        /\ pc[u] \in PollPlaces => Ready(u) \/ u \in io
        /\ pc[u] = "chan" => Ready(u) \/ u \in chanq
        /\ pc[u] = "await" => Ready(u) \/ \E f \in Tasks : awaiter'[f] = u
        /\ pc[u] = "join" => Ready(u) \/ waiter'[Innermost(u)'] = u
    BY <2>1, <2>2, <2>3 DEF PlacedAt
  <2>5. /\ pc'[u] = pc[u] /\ (Ready(u)' <=> Ready(u)) /\ (Alive(u)' <=> Alive(u))
        /\ (u \in io' <=> u \in io) /\ (u \in chanq' <=> u \in chanq)
    BY <2>1 DEF Stays, Alive
  <2> QED BY <2>4, <2>5 DEF PlacedAt
<1> QED BY <1>1 DEF QueueInv

(* The innermost scope of a task is open and its own.                       *)
LEMMA InnermostScope ==
  ASSUME SchedInv, NEW t \in Tasks, stack[t] # <<>>
  PROVE  /\ Innermost(t) \in Scopes /\ Innermost(t) \in Elems(stack[t])
         /\ sstate[Innermost(t)] = "open" /\ owner[Innermost(t)] = t
         /\ \A r \in Elems(stack[t]) : r \in Scopes /\ r <= Innermost(t)
<1>1. stack[t] \in Seq(Scopes) /\ StackedAt(t) /\ Rising(stack[t])
  <2>1. stack[t] \in Seq(Scopes) /\ StackedAt(t)
    BY DEF SchedInv, SchedType, ScopeType, ScopeInv
  <2> QED BY <2>1 DEF StackedAt, Rising
<1>2. Innermost(t) \in Elems(stack[t]) /\ Innermost(t) \in Scopes
      /\ \A r \in Elems(stack[t]) : r \in Scopes /\ r <= Innermost(t)
  BY <1>1, TopOfStack DEF Innermost
<1> QED BY <1>1, <1>2 DEF StackedAt

(* Joiners have a scope to join.                                            *)
LEMMA Joiners ==
  ASSUME SchedInv
  PROVE  \A u \in Tasks : pc[u] = "join" =>
           /\ stack[u] # <<>> /\ Innermost(u) \in Scopes /\ owner[Innermost(u)] = u
           /\ sstate[Innermost(u)] = "open" /\ (Ready(u) => live[Innermost(u)] = 0)
<1> SUFFICES ASSUME NEW u \in Tasks, pc[u] = "join"
             PROVE  /\ stack[u] # <<>> /\ Innermost(u) \in Scopes /\ owner[Innermost(u)] = u
                    /\ sstate[Innermost(u)] = "open" /\ (Ready(u) => live[Innermost(u)] = 0)
  OBVIOUS
<1>1. JoiningAt(u)
  BY DEF SchedInv, JoinInv
<1>2. stack[u] # <<>> /\ (Ready(u) => live[Innermost(u)] = 0)
  BY <1>1 DEF JoiningAt
<1> QED BY <1>2, InnermostScope

(* No null pointer is in the ready queue.                                   *)
LEMMA QueueTasks == SchedInv => rq \in Seq(Tasks) /\ Elems(rq) \subseteq Tasks /\ None \notin Tasks /\ NoDup(rq)
<1>1. None \notin Tasks
  BY DEF Tasks
<1>2. ASSUME NEW q \in Seq(Tasks) PROVE Elems(q) \subseteq Tasks
  BY DEF Elems
<1> QED BY <1>1, <1>2 DEF SchedInv, SchedType, RunType, QueueInv

(* The running task leaves the CPU and is in no queue of the scheduler.     *)
LEMMA CpuParks ==
  ASSUME SchedInv, NEW t \in Tasks, cur = t, cur' = None, rq' = rq
  PROVE  /\ cur' \in Tasks \cup {None} /\ rq' \in Seq(Tasks) /\ NoDup(rq)' /\ (cur \notin Elems(rq))'
         /\ \A u \in Tasks : Ready(u)' <=> Ready(u) /\ u # t
         /\ ~Ready(t)'
<1>1. t \notin Elems(rq) /\ t # None
  BY RunningTask
<1>2. Elems(rq)' = Elems(rq)
  BY DEF Elems
<1>3. ASSUME NEW u \in Tasks PROVE Ready(u)' <=> Ready(u) /\ u # t
  BY <1>1, <1>2, QueueTasks DEF Ready
<1> QED BY <1>1, <1>2, <1>3, QueueTasks DEF NoDup

(* rq_push of a task that is not runnable, by the pump or by another task.  *)
LEMMA CpuPushes ==
  ASSUME SchedInv, NEW w \in Tasks, ~Ready(w), cur' = cur, rq' = Append(rq, w)
  PROVE  /\ cur' \in Tasks \cup {None} /\ rq' \in Seq(Tasks) /\ NoDup(rq)' /\ (cur \notin Elems(rq))'
         /\ \A u \in Tasks : Ready(u)' <=> Ready(u) \/ u = w
<1>1. w # cur /\ w \notin Elems(rq) /\ cur \notin Elems(rq) /\ cur \in Tasks \cup {None}
  BY DEF Ready, SchedInv, QueueInv, SchedType, RunType
<1>2. Elems(Append(rq, w)) = Elems(rq) \cup {w} /\ Append(rq, w) \in Seq(Tasks) /\ NoDup(Append(rq, w))
  BY <1>1, QueueTasks, PushElems
<1>3. Elems(rq)' = Elems(rq) \cup {w} /\ NoDup(rq)'
  BY <1>2 DEF Elems, NoDup
<1>4. ASSUME NEW u \in Tasks PROVE Ready(u)' <=> Ready(u) \/ u = w
  BY <1>3 DEF Ready
<1> QED BY <1>1, <1>2, <1>3, <1>4

(* rq_push of the running task, which leaves the CPU.                       *)
LEMMA CpuYields ==
  ASSUME SchedInv, NEW t \in Tasks, cur = t, cur' = None, rq' = Append(rq, t)
  PROVE  /\ cur' \in Tasks \cup {None} /\ rq' \in Seq(Tasks) /\ NoDup(rq)' /\ (cur \notin Elems(rq))'
         /\ \A u \in Tasks : Ready(u)' <=> Ready(u)
<1>1. t \notin Elems(rq) /\ t # None /\ None \notin Elems(rq)
  BY RunningTask, QueueTasks
<1>2. Elems(Append(rq, t)) = Elems(rq) \cup {t} /\ Append(rq, t) \in Seq(Tasks) /\ NoDup(Append(rq, t))
  BY <1>1, QueueTasks, PushElems
<1>3. Elems(rq)' = Elems(rq) \cup {t} /\ NoDup(rq)'
  BY <1>2 DEF Elems, NoDup
<1>4. ASSUME NEW u \in Tasks PROVE Ready(u)' <=> Ready(u)
  BY <1>3, QueueTasks DEF Ready
<1> QED BY <1>1, <1>2, <1>3, <1>4

(* The running task goes on.                                                *)
LEMMA CpuKeeps ==
  ASSUME SchedInv, cur' = cur, rq' = rq
  PROVE  /\ cur' \in Tasks \cup {None} /\ rq' \in Seq(Tasks) /\ NoDup(rq)' /\ (cur \notin Elems(rq))'
         /\ \A u \in Tasks : Ready(u)' <=> Ready(u)
  BY DEF SchedInv, SchedType, RunType, QueueInv, NoDup, Ready, Elems

-----------------------------------------------------------------------------
(* The pump and the ready queue.                                            *)

(* sprout_fail, and a step that changes nothing.                            *)
LEMMA NothingMoves ==
  ASSUME SchedInv, UNCHANGED <<cur, rq, io, chanq, pollVars, taskVars, parkVars, scopeVars>>
  PROVE  SchedInv'
<1>1. /\ cur' = cur /\ rq' = rq /\ io' = io /\ chanq' = chanq /\ armed' = armed /\ batch' = batch
      /\ timerfd' = timerfd /\ misclosed' = misclosed /\ UNCHANGED pollVars /\ UNCHANGED parkVars
      /\ park_timer_id' = park_timer_id /\ park_timer_dead' = park_timer_dead
      /\ park_woke_by_timer' = park_woke_by_timer /\ sockets' = sockets /\ hooked' = hooked
  BY DEF pollVars, parkVars
<1>2. /\ pc' = pc /\ scope' = scope /\ awaiter' = awaiter /\ awaitable' = awaitable /\ stack' = stack
      /\ captured' = captured /\ holder' = holder /\ timed' = timed /\ live' = live /\ waiter' = waiter
      /\ reason' = reason /\ owner' = owner /\ sstate' = sstate /\ outer' = outer
  BY DEF taskVars, scopeVars
<1>3. SchedType'
  BY <1>1, <1>2 DEF SchedInv, SchedType, RunType, PollType, LinkType, ScopeType
<1>4. /\ SchedType /\ BirthInv /\ PollInv /\ AwaitInv /\ JoinInv /\ ScopeInv /\ LinkType /\ ScopeType
      /\ Alive(Main)' /\ \A u \in Tasks : Alive(u)' <=> Alive(u)
  BY <1>2 DEF SchedInv, SchedType, BirthInv, Alive
<1>5. \A u \in Tasks : Stays(u)
  BY <1>1, <1>2, CpuKeeps DEF Stays
<1>6. BirthInv'
  BY <1>2, <1>4, BirthFrame
<1>7. PollInv'
  BY <1>1, <1>2, <1>4, PollFrame
<1>8. AwaitInv'
  BY <1>1, <1>2, <1>4, <1>5, AwaitFrame DEF Stays
<1>9. JoinInv'
  BY <1>2, <1>4, <1>5, JoinFrame, Joiners DEF Stays
<1>10. ScopeInv'
  BY <1>1, <1>2, <1>4, ScopeFrame
<1>11. NoDup(rq)' /\ (cur \notin Elems(rq))' /\ (cur' # None => batch' = {})
  BY <1>1, CpuKeeps DEF SchedInv, QueueInv
<1>12. QueueInv'
  <2>1. {} \in SUBSET Tasks /\ \A u \in {} : PlacedAt(u)'
    OBVIOUS
  <2> QED BY <1>2, <1>5, <1>11, <2>1, QueueFrame
<1> QED BY <1>3, <1>6, <1>7, <1>8, <1>9, <1>10, <1>12 DEF SchedInv

\* A task that moves without beginning or ending an await, a join or a
\* deadline, and does not park inside a scope of its own.
Moves(u) == /\ pc[u] \notin {"await", "join"} /\ pc[u] # "unborn"
            /\ pc'[u] = pc[u] \/ {pc[u], pc'[u]} \subseteq OpenPlaces \ {"join"}
            /\ u \in io' \cup chanq' => u \in io \cup chanq \/ scope[u] = None \/ stack[u] = <<>>
            /\ timed[u] # None /\ u \in io' => u \in io
            /\ PlacedAt(u)'

(* A step of the pump or a park or wake-up that concerns no scope and no    *)
(* other task's wait.                                                       *)
LEMMA LocalStep ==
  ASSUME SchedInv, NEW M \in SUBSET Tasks,
         UNCHANGED <<scope, awaiter, awaitable, stack, captured, holder, timed, scopeVars>>,
         RunType', PollType', PollInv',
         NoDup(rq)', (cur \notin Elems(rq))', cur' # None => batch' = {},
         \A u \in Tasks : u \notin M => Stays(u),
         \A u \in M : Moves(u)
  PROVE  SchedInv'
<1>1. /\ scope' = scope /\ awaiter' = awaiter /\ awaitable' = awaitable /\ stack' = stack
      /\ captured' = captured /\ holder' = holder /\ timed' = timed /\ live' = live /\ waiter' = waiter
      /\ reason' = reason /\ owner' = owner /\ sstate' = sstate /\ outer' = outer
  BY DEF scopeVars
<1>2. LinkType' /\ ScopeType'
  BY <1>1 DEF SchedInv, SchedType, LinkType, ScopeType
<1>3. SchedType /\ BirthInv /\ AwaitInv /\ JoinInv /\ ScopeInv /\ LinkType /\ ScopeType
  BY DEF SchedInv, SchedType
<1>4. \A u \in Tasks : pc'[u] = pc[u] \/ {pc[u], pc'[u]} \subseteq OpenPlaces \ {"join"}
  BY DEF Stays, Moves
<1>5. \A u \in Tasks : Alive(u)' <=> Alive(u)
  BY <1>4 DEF Alive, OpenPlaces
<1>6. \A u \in Tasks : (pc'[u] = "unborn" <=> pc[u] = "unborn") /\ (pc'[u] = "join" <=> pc[u] = "join")
  BY <1>4 DEF OpenPlaces
<1>7. Alive(Main)'
  BY <1>3, <1>5 DEF BirthInv, Tasks, Main
<1>8. BirthInv'
  BY <1>1, <1>3, <1>6, <1>7, BirthFrame
<1>9. AwaitInv'
  <2>1. \A u \in Tasks : pc'[u] = pc[u] \/ {pc[u], pc'[u]} \subseteq OpenPlaces \/ Back(u) \/ Gone(u)
    BY <1>4
  <2>2. \A u \in Tasks : pc[u] = "await" /\ Ready(u)' => Ready(u)
    BY DEF Stays, Moves
  <2>3. \A u \in Tasks : timed[u] # None => stack'[u] = stack[u] /\ (u \in io' => u \in io)
    BY <1>1 DEF Stays, Moves
  <2> QED BY <1>1, <1>3, <2>1, <2>2, <2>3, AwaitFrame
<1>10. JoinInv'
  <2>1. \A u \in Tasks : pc[u] = "join" => stack'[u] = stack[u] /\ (Ready(u)' <=> Ready(u))
    BY <1>1 DEF Stays, Moves
  <2> QED BY <1>1, <1>3, <1>6, <2>1, JoinFrame, Joiners
<1>11. ScopeInv'
  <2>1. \A u \in Tasks : u \in io' \cup chanq' /\ pc'[u] # "deadline" =>
          (u \in io \cup chanq /\ pc[u] # "deadline") \/ scope[u] = None \/ stack[u] = <<>>
    BY DEF Stays, Moves, OpenPlaces
  <2> QED BY <1>1, <1>3, <1>5, <2>1, ScopeFrame
<1>12. QueueInv'
  <2>1. \A u \in M : PlacedAt(u)'
    BY DEF Moves
  <2> QED BY <1>1, <2>1, QueueFrame
<1> QED BY <1>2, <1>8, <1>9, <1>10, <1>11, <1>12 DEF SchedInv, SchedType

(* The pump switches into the head of the ready queue.                      *)
LEMMA PumpRunsTaskStep ==
  ASSUME SchedInv, PumpRunsTask
  PROVE  SchedInv'
<1>1. /\ cur = None /\ batch = {} /\ rq # <<>> /\ cur' = Head(rq) /\ rq' = Tail(rq)
      /\ io' = io /\ chanq' = chanq /\ UNCHANGED pollVars /\ UNCHANGED parkVars /\ batch' = batch /\ pc' = pc
      /\ UNCHANGED <<scope, awaiter, awaitable, stack, captured, holder, timed, scopeVars>>
  BY DEF PumpRunsTask, PumpRuns, pollVars, taskVars
<1>2. /\ Head(rq) \in Elems(rq) /\ Head(rq) \in Tasks /\ Tail(rq) \in Seq(Tasks)
      /\ Elems(Tail(rq)) = Elems(rq) \ {Head(rq)} /\ NoDup(Tail(rq))
  BY <1>1, QueueTasks, PopElems
<1>3. Elems(rq)' = Elems(rq) \ {Head(rq)} /\ NoDup(rq)'
  <2>1. rq' = Tail(rq)
    BY <1>1
  <2>2. Elems(rq)' = Elems(Tail(rq)) /\ (NoDup(rq)' <=> NoDup(Tail(rq)))
    BY <2>1 DEF Elems, NoDup
  <2> QED BY <1>2, <2>2
<1>4. \A u \in Tasks : Stays(u)
  BY <1>1, <1>2, <1>3, QueueTasks DEF Stays, Ready
<1>5. RunType' /\ PollType'
  BY <1>1, <1>2 DEF SchedInv, SchedType, RunType, PollType, pollVars, parkVars
<1>6. PollInv'
  BY <1>1, PollFrame DEF SchedInv
<1>7. (cur \notin Elems(rq))' /\ (cur' # None => batch' = {})
  BY <1>1, <1>3
<1>8. {} \in SUBSET Tasks /\ \A u \in {} : Moves(u)
  OBVIOUS
<1> QED BY <1>1, <1>3, <1>4, <1>5, <1>6, <1>7, <1>8, LocalStep

(* Yielding is queueing behind the others.                                  *)
LEMMA YieldStep ==
  ASSUME SchedInv, NEW t \in Tasks, task_yield(t)
  PROVE  SchedInv'
<1>1. /\ cur = t /\ cur' = None /\ rq' = Append(rq, t)
      /\ io' = io /\ chanq' = chanq /\ UNCHANGED pollVars /\ UNCHANGED parkVars /\ batch' = batch /\ pc' = pc
      /\ UNCHANGED <<scope, awaiter, awaitable, stack, captured, holder, timed, scopeVars>>
  BY DEF task_yield, Running, rq_push, pollVars, taskVars
<1>2. /\ cur' \in Tasks \cup {None} /\ rq' \in Seq(Tasks) /\ NoDup(rq)' /\ (cur \notin Elems(rq))'
      /\ \A u \in Tasks : Ready(u)' <=> Ready(u)
  BY <1>1, CpuYields
<1>3. \A u \in Tasks : Stays(u)
  BY <1>1, <1>2 DEF Stays
<1>4. RunType' /\ PollType'
  BY <1>1, <1>2 DEF SchedInv, SchedType, RunType, PollType, pollVars, parkVars
<1>5. PollInv'
  BY <1>1, PollFrame DEF SchedInv
<1>6. cur' # None => batch' = {}
  BY <1>1
<1>7. {} \in SUBSET Tasks /\ \A u \in {} : Moves(u)
  OBVIOUS
<1> QED BY <1>1, <1>2, <1>3, <1>4, <1>5, <1>6, <1>7, LocalStep

(* A channel call of the running task wakes w.                              *)
LEMMA ChanWakeStep ==
  ASSUME SchedInv, NEW t \in Tasks, NEW w \in Tasks, chan_wake(t, w)
  PROVE  SchedInv'
<1>1. /\ cur = t /\ cur' = cur /\ rq' = Append(rq, w) /\ w \in chanq /\ chanq' = chanq \ {w}
      /\ io' = io /\ UNCHANGED pollVars /\ UNCHANGED parkVars /\ batch' = batch /\ pc' = pc
      /\ UNCHANGED <<scope, awaiter, awaitable, stack, captured, holder, timed, scopeVars>>
  BY DEF chan_wake, Running, rq_push, pollVars, taskVars
<1>2. PlacedAt(w) /\ TimedAt(w)
  BY DEF SchedInv, QueueInv, AwaitInv
<1>3. pc[w] = "chan" /\ ~Ready(w) /\ w \notin io /\ timed[w] = None
  BY <1>1, <1>2 DEF PlacedAt, PollPlaces, TimedAt
<1>4. /\ cur' \in Tasks \cup {None} /\ rq' \in Seq(Tasks) /\ NoDup(rq)' /\ (cur \notin Elems(rq))'
      /\ \A u \in Tasks : Ready(u)' <=> Ready(u) \/ u = w
  BY <1>1, <1>3, CpuPushes
<1>5. \A u \in Tasks : u \notin {w} => Stays(u)
  BY <1>1, <1>4 DEF Stays
<1>6. Moves(w)
  <2>1. Ready(w)' /\ Alive(w)' /\ w \notin io' /\ w \notin chanq' /\ pc'[w] = "chan"
    BY <1>1, <1>3, <1>4 DEF Alive
  <2>2. PlacedAt(w)'
    BY <2>1 DEF PlacedAt, RunPlaces, PollPlaces
  <2> QED BY <1>1, <1>3, <2>1, <2>2 DEF Moves
<1>7. RunType' /\ PollType'
  BY <1>1, <1>4 DEF SchedInv, SchedType, RunType, PollType, pollVars, parkVars
<1>8. PollInv'
  BY <1>1, PollFrame DEF SchedInv
<1>9. cur' # None => batch' = {}
  BY <1>1, RunningTask
<1>10. {w} \in SUBSET Tasks /\ \A u \in {w} : Moves(u)
  BY <1>6
<1> QED BY <1>1, <1>4, <1>5, <1>7, <1>8, <1>9, <1>10, LocalStep

-----------------------------------------------------------------------------
(* Parks in the poller and in channel calls.                                *)

\* Nothing changes for u in the poller.
PollStays(u) ==
  /\ pc'[u] = pc[u] \/ (pc[u] \notin PollPlaces /\ pc'[u] \notin PollPlaces)
  /\ (u \in io' <=> u \in io) /\ (Fd(u)' <=> Fd(u)) /\ (Timer(u)' <=> Timer(u))
  /\ park_timer_dead'[u] = park_timer_dead[u] /\ park_timer_id'[u] = park_timer_id[u]
  /\ park_woke_by_timer'[u] = park_woke_by_timer[u]
  /\ (u \in sockets' <=> u \in sockets) /\ (u \in hooked' <=> u \in hooked)

(* The poller, when its registrations change for the tasks T only.          *)
LEMMA PollOthers ==
  ASSUME PollInv, PollType', NEW T \in SUBSET Tasks,
         armed' \cap batch' = {}, ~misclosed',
         \A u \in Tasks : u \notin T => PollStays(u),
         \A i \in Timers : timerfd'[i] = timerfd[i] \/ {timerfd[i], timerfd'[i]} \subseteq T \cup {None},
         \A i \in Timers, u \in T : timerfd'[i] = u => Timer(u)' /\ park_timer_id'[u] = i,
         \A u \in T : PolledAt(u)'
  PROVE  PollInv'
<1>1. ASSUME NEW u \in Tasks, u \notin T PROVE PolledAt(u)'
  <2>1. PolledAt(u) /\ PollStays(u) /\ u # None
    BY <1>1 DEF PollInv, Tasks
  <2>2. Timer(u)' => park_timer_id'[u] \in Timers /\ timerfd'[park_timer_id'[u]] = u
    <3> SUFFICES ASSUME Timer(u) PROVE park_timer_id[u] \in Timers /\ timerfd'[park_timer_id[u]] = u
      BY <2>1 DEF PollStays
    <3> QED BY <1>1, <2>1 DEF PolledAt
  <2>3. CASE pc'[u] = pc[u]
    BY <2>1, <2>2, <2>3 DEF PolledAt, PollStays, ParksOnTimer, ParksOnFd
  <2>4. CASE pc[u] \notin PollPlaces /\ pc'[u] \notin PollPlaces
    BY <2>1, <2>2, <2>4 DEF PolledAt, PollStays, ParksOnTimer, ParksOnFd, PollPlaces
  <2> QED BY <2>1, <2>3, <2>4 DEF PollStays
<1>2. ASSUME NEW i \in Timers, NEW u \in Tasks, timerfd'[i] = u PROVE Timer(u)' /\ park_timer_id'[u] = i
  <2>1. CASE u \in T
    BY <1>2, <2>1
  <2>2. CASE u \notin T
    <3>1. timerfd[i] = u /\ u # None
      BY <1>2, <2>2 DEF Tasks
    <3>2. Timer(u) /\ park_timer_id[u] = i
      BY <3>1 DEF PollInv
    <3> QED BY <2>2, <3>2 DEF PollStays
  <2> QED BY <2>1, <2>2
<1>3. \A i \in Timers : timerfd'[i] # None => timerfd'[i] \in Tasks
  BY DEF PollType
<1>5. ASSUME NEW i \in Timers, timerfd'[i] # None
      PROVE  <<timerfd'[i], "timer">> \in armed' \cup batch' /\ park_timer_id'[timerfd'[i]] = i
  <2>1. PICK u \in Tasks : timerfd'[i] = u
    BY <1>3, <1>5
  <2> QED BY <1>2, <2>1 DEF Timer
<1>6. \A u \in Tasks : PolledAt(u)'
  BY <1>1
<1> QED BY <1>5, <1>6 DEF PollInv, Timer

(* A running task has no registration in the poller and holds no socket.    *)
LEMMA Unregistered ==
  ASSUME SchedInv, NEW t \in Tasks, pc[t] \notin PollPlaces
  PROVE  ~Fd(t) /\ ~Timer(t) /\ t \notin sockets /\ \A i \in Timers : timerfd[i] # t
<1>1. PolledAt(t) /\ t # None
  BY DEF SchedInv, PollInv, Tasks
<1>2. ~Fd(t) /\ ~Timer(t) /\ t \notin sockets
  BY <1>1 DEF PolledAt, ParksOnTimer, ParksOnFd, PollPlaces
<1> QED BY <1>1, <1>2 DEF SchedInv, PollInv

(* What a task that parks in a channel call or in the poller, and one that  *)
(* returns from there, have in common.                                      *)
LEMMA ParkMoves ==
  ASSUME SchedInv, Disciplined, NEW t \in Tasks, MayPark(t), cur' = None, rq' = rq,
         pc' = [pc EXCEPT ![t] = "chan"] \/ pc' = [pc EXCEPT ![t] = "fd"]
           \/ pc' = [pc EXCEPT ![t] = "fdtimer"] \/ pc' = [pc EXCEPT ![t] = "sleep"],
         IF pc'[t] = "chan" THEN io' = io /\ chanq' = chanq \cup {t}
                            ELSE io' = io \cup {t} /\ chanq' = chanq
  PROVE  /\ RunType' /\ NoDup(rq)' /\ (cur \notin Elems(rq))'
         /\ \A u \in Tasks : u \notin {t} => Stays(u)
         /\ \A u \in {t} : Moves(u)
         /\ cur = t /\ pc[t] = "body"
<1>1. cur = t /\ pc[t] = "body" /\ (scope[t] = None \/ stack[t] = <<>>)
  BY DEF MayPark, Running, Disciplined
<1>2. /\ cur' \in Tasks \cup {None} /\ rq' \in Seq(Tasks) /\ NoDup(rq)' /\ (cur \notin Elems(rq))'
      /\ \A u \in Tasks : Ready(u)' <=> Ready(u) /\ u # t
      /\ ~Ready(t)'
  BY <1>1, CpuParks
<1>3. pc \in [Tasks -> Places] /\ io \in SUBSET Tasks /\ chanq \in SUBSET Tasks
      /\ t \notin io /\ t \notin chanq
  BY <1>1, RunningTask DEF SchedInv, SchedType, RunType
<1>4. /\ pc' \in [Tasks -> Places] /\ pc'[t] \in {"chan", "fd", "fdtimer", "sleep"}
      /\ \A u \in Tasks : u # t => pc'[u] = pc[u]
  BY <1>3 DEF Places
<1>5. RunType'
  BY <1>2, <1>3, <1>4 DEF RunType
<1>6. \A u \in Tasks : u \notin {t} => Stays(u)
  BY <1>2, <1>4 DEF Stays
<1>7. TimedAt(t)
  BY DEF SchedInv, AwaitInv
<1>8. timed[t] = None
  BY <1>1, <1>7 DEF TimedAt
<1>9. PlacedAt(t)'
  BY <1>2, <1>3, <1>4 DEF PlacedAt, RunPlaces, PollPlaces, Alive
<1>10. Moves(t)
  BY <1>1, <1>4, <1>8, <1>9 DEF Moves, OpenPlaces
<1> QED BY <1>1, <1>2, <1>5, <1>6, <1>10

(* A park returns to the body of the task that was resumed.                 *)
LEMMA ReturnMoves ==
  ASSUME SchedInv, NEW t \in Tasks, cur = t, pc[t] \in {"chan", "fd", "fdtimer", "sleep"},
         cur' = cur, rq' = rq, io' = io, chanq' = chanq, pc' = [pc EXCEPT ![t] = "body"]
  PROVE  /\ RunType' /\ NoDup(rq)' /\ (cur \notin Elems(rq))'
         /\ \A u \in Tasks : u \notin {t} => Stays(u)
         /\ \A u \in {t} : Moves(u)
<1>1. /\ cur' \in Tasks \cup {None} /\ rq' \in Seq(Tasks) /\ NoDup(rq)' /\ (cur \notin Elems(rq))'
      /\ \A u \in Tasks : Ready(u)' <=> Ready(u)
  BY CpuKeeps
<1>2. pc \in [Tasks -> Places] /\ io \in SUBSET Tasks /\ chanq \in SUBSET Tasks
      /\ t \notin io /\ t \notin chanq /\ Ready(t)
  BY RunningTask DEF SchedInv, SchedType, RunType
<1>3. /\ pc' \in [Tasks -> Places] /\ pc'[t] = "body"
      /\ \A u \in Tasks : u # t => pc'[u] = pc[u]
  BY <1>2 DEF Places
<1>4. RunType'
  BY <1>1, <1>2, <1>3 DEF RunType
<1>5. \A u \in Tasks : u \notin {t} => Stays(u)
  BY <1>1, <1>3 DEF Stays
<1>6. PlacedAt(t)'
  BY <1>1, <1>2, <1>3 DEF PlacedAt, RunPlaces, PollPlaces, Alive
<1>7. Moves(t)
  BY <1>2, <1>3, <1>6 DEF Moves, OpenPlaces
<1> QED BY <1>1, <1>4, <1>5, <1>7

(* A channel call parks the running task, and returns when it was woken.    *)
LEMMA ParkOnChanStep ==
  ASSUME SchedInv, Disciplined, NEW t \in Tasks, ParkOnChan(t)
  PROVE  SchedInv'
<1>1. /\ MayPark(t) /\ chanq' = chanq \cup {t} /\ io' = io /\ rq' = rq /\ cur' = None
      /\ pc' = [pc EXCEPT ![t] = "chan"] /\ UNCHANGED pollVars /\ UNCHANGED parkVars
      /\ UNCHANGED <<scope, awaiter, awaitable, stack, captured, holder, timed, scopeVars>>
  BY DEF ParkOnChan, park_to_pump
<1>2. pc \in [Tasks -> Places] /\ pc'[t] = "chan" /\ \A u \in Tasks : u # t => pc'[u] = pc[u]
  BY <1>1 DEF SchedInv, SchedType, RunType
<1>3. /\ RunType' /\ NoDup(rq)' /\ (cur \notin Elems(rq))' /\ pc[t] = "body"
      /\ \A u \in Tasks : u \notin {t} => Stays(u)
      /\ \A u \in {t} : Moves(u)
  BY <1>1, <1>2, ParkMoves
<1>4. PollType'
  BY <1>1 DEF SchedInv, SchedType, PollType, pollVars, parkVars
<1>5. PollInv'
  BY <1>1, <1>2, <1>3, PollFrame DEF SchedInv, PollPlaces
<1>6. {t} \in SUBSET Tasks /\ (cur' # None => batch' = {})
  BY <1>1, <1>4
<1> QED BY <1>1, <1>3, <1>4, <1>5, <1>6, LocalStep

(* The rest of a channel call after its park.                               *)
LEMMA ChanReturnsStep ==
  ASSUME SchedInv, NEW t \in Tasks, ChanReturns(t)
  PROVE  SchedInv'
<1>1. /\ cur = t /\ pc[t] = "chan" /\ chanq' = chanq /\ io' = io /\ rq' = rq /\ cur' = cur
      /\ pc' = [pc EXCEPT ![t] = "body"] /\ UNCHANGED pollVars /\ UNCHANGED parkVars
      /\ UNCHANGED <<scope, awaiter, awaitable, stack, captured, holder, timed, scopeVars>>
  BY DEF ChanReturns, Resumed
<1>2. pc \in [Tasks -> Places] /\ pc'[t] = "body" /\ \A u \in Tasks : u # t => pc'[u] = pc[u]
  BY <1>1 DEF SchedInv, SchedType, RunType
<1>3. /\ RunType' /\ NoDup(rq)' /\ (cur \notin Elems(rq))'
      /\ \A u \in Tasks : u \notin {t} => Stays(u)
      /\ \A u \in {t} : Moves(u)
  BY <1>1, ReturnMoves
<1>4. PollType' /\ batch' = {}
  BY <1>1, RunningTask DEF SchedInv, SchedType, PollType, pollVars, parkVars
<1>5. PollInv'
  BY <1>1, <1>2, PollFrame DEF SchedInv, PollPlaces
<1>6. {t} \in SUBSET Tasks /\ (cur' # None => batch' = {})
  BY <1>1, <1>4
<1> QED BY <1>1, <1>3, <1>4, <1>5, <1>6, LocalStep

(* Tearing down the timers of tasks W whose timers are armed or reported    *)
(* closes each task's own timer.                                            *)
LEMMA TearDown ==
  ASSUME PollInv, PollType, NEW W \in SUBSET Tasks, \A w \in W : Timer(w), sprout_poll_remove_timer(W)
  PROVE  /\ ~misclosed' /\ misclosed' \in BOOLEAN
         /\ timerfd' \in [Timers -> Tasks \cup {None}] /\ park_timer_dead' \in [Tasks -> BOOLEAN]
         /\ \A u \in Tasks : u \in W => park_timer_dead'[u]
         /\ \A u \in Tasks : u \notin W => park_timer_dead'[u] = park_timer_dead[u]
         /\ \A i \in Timers : timerfd'[i] = timerfd[i] \/ {timerfd[i], timerfd'[i]} \subseteq W \cup {None}
         /\ \A i \in Timers : timerfd'[i] \notin W
<1> DEFINE ids == {park_timer_id[w] : w \in W}
<1>1. /\ timerfd' = [i \in Timers |-> IF i \in ids THEN None ELSE timerfd[i]]
      /\ misclosed' = (misclosed \/ \E w \in W : timerfd[park_timer_id[w]] # w)
      /\ park_timer_dead' = [t \in Tasks |-> park_timer_dead[t] \/ t \in W]
  BY DEF sprout_poll_remove_timer
<1>2. \A w \in W : park_timer_id[w] \in Timers /\ timerfd[park_timer_id[w]] = w
  BY DEF PollInv, PolledAt
<1>3. misclosed' = FALSE
  BY <1>1, <1>2 DEF PollInv
<1>4. timerfd' \in [Timers -> Tasks \cup {None}] /\ park_timer_dead' \in [Tasks -> BOOLEAN]
  BY <1>1 DEF PollType
<1>5. ASSUME NEW u \in Tasks
      PROVE  (u \in W => park_timer_dead'[u]) /\ (u \notin W => park_timer_dead'[u] = park_timer_dead[u])
  BY <1>1 DEF PollType
<1>6. ASSUME NEW i \in Timers
      PROVE  /\ timerfd'[i] = timerfd[i] \/ {timerfd[i], timerfd'[i]} \subseteq W \cup {None}
             /\ timerfd'[i] \notin W
  <2>1. CASE i \in ids
    <3>1. PICK w \in W : i = park_timer_id[w]
      BY <2>1
    <3>2. timerfd[i] = w /\ timerfd'[i] = None /\ None \notin Tasks
      BY <1>1, <1>2, <2>1, <3>1 DEF Tasks
    <3> QED BY <3>2
  <2>2. CASE i \notin ids
    <3>1. timerfd'[i] = timerfd[i]
      BY <1>1, <2>2
    <3>2. ASSUME timerfd[i] \in W PROVE FALSE
      <4>1. None \notin Tasks
        BY DEF Tasks
      <4>2. timerfd[i] # None
        BY <3>2, <4>1
      <4>3. park_timer_id[timerfd[i]] = i
        BY <4>2 DEF PollInv
      <4> QED BY <2>2, <3>2, <4>3
    <3> QED BY <3>1, <3>2
  <2> QED BY <2>1, <2>2
<1> QED BY <1>3, <1>4, <1>5, <1>6

(* The events of a task that parks.                                         *)
LEMMA EventsAdded ==
  ASSUME NEW t \in Tasks, NEW E \in SUBSET {<<t, "fd">>, <<t, "timer">>}, armed' = armed \cup E, batch' = batch
  PROVE  /\ \A u \in Tasks : u # t => (Fd(u)' <=> Fd(u)) /\ (Timer(u)' <=> Timer(u))
         /\ (Fd(t)' <=> Fd(t) \/ <<t, "fd">> \in E) /\ (Timer(t)' <=> Timer(t) \/ <<t, "timer">> \in E)
<1>1. ASSUME NEW u \in Tasks, u # t PROVE <<u, "fd">> \notin E /\ <<u, "timer">> \notin E
  <2>1. <<u, "fd">> # <<t, "fd">> /\ <<u, "fd">> # <<t, "timer">>
        /\ <<u, "timer">> # <<t, "fd">> /\ <<u, "timer">> # <<t, "timer">>
    BY <1>1
  <2> QED BY <2>1
<1> QED BY <1>1 DEF Fd, Timer

(* The three parks of the poller.                                           *)
LEMMA ParkOnFdStep ==
  ASSUME SchedInv, Disciplined, NEW t \in Tasks, NEW un \in BOOLEAN, ParkOnFd(t, un)
  PROVE  SchedInv'
<1>1. /\ MayPark(t) /\ io' = io \cup {t} /\ chanq' = chanq /\ rq' = rq /\ cur' = None
      /\ pc' = [pc EXCEPT ![t] = "fd"] /\ armed' = armed \cup {<<t, "fd">>} /\ batch' = batch
      /\ timerfd' = timerfd /\ misclosed' = misclosed
      /\ park_timer_id' = park_timer_id /\ park_timer_dead' = park_timer_dead
      /\ park_woke_by_timer' = park_woke_by_timer /\ Unowned(t, un)
      /\ UNCHANGED <<scope, awaiter, awaitable, stack, captured, holder, timed, scopeVars>>
  BY DEF ParkOnFd, park_to_pump
<1>2. /\ sockets' = IF un THEN sockets \cup {t} ELSE sockets
      /\ hooked' = IF un THEN hooked \cup {t} ELSE hooked
  BY <1>1 DEF Unowned
<1>3. pc \in [Tasks -> Places] /\ pc'[t] = "fd" /\ \A u \in Tasks : u # t => pc'[u] = pc[u]
  BY <1>1 DEF SchedInv, SchedType, RunType
<1>4. /\ RunType' /\ NoDup(rq)' /\ (cur \notin Elems(rq))' /\ pc[t] = "body" /\ cur = t
      /\ \A u \in Tasks : u \notin {t} => Stays(u)
      /\ \A u \in {t} : Moves(u)
  BY <1>1, <1>3, ParkMoves
<1>5. batch = {} /\ ~Fd(t) /\ ~Timer(t) /\ t \notin sockets /\ \A i \in Timers : timerfd[i] # t
  BY <1>4, RunningTask, Unregistered DEF PollPlaces
<1>6. PollType'
  BY <1>1, <1>2 DEF SchedInv, SchedType, PollType
<1>7. /\ \A u \in Tasks : u # t => (Fd(u)' <=> Fd(u)) /\ (Timer(u)' <=> Timer(u))
      /\ Fd(t)' /\ ~Timer(t)'
  <2>1. {<<t, "fd">>} \in SUBSET {<<t, "fd">>, <<t, "timer">>} /\ <<t, "timer">> \notin {<<t, "fd">>}
    OBVIOUS
  <2> QED BY <1>1, <1>5, <2>1, EventsAdded
<1>8. \A u \in Tasks : u \notin {t} => PollStays(u)
  BY <1>1, <1>2, <1>3, <1>7 DEF PollStays
<1>9. PolledAt(t)'
  <2>1. t \in io' /\ t \in sockets' => t \in hooked'
    BY <1>2, <1>5
  <2>2. t \in io'
    BY <1>1
  <2> QED BY <1>3, <1>7, <2>1, <2>2 DEF PolledAt, ParksOnTimer, ParksOnFd
<1>10. PollInv'
  <2>1. PollInv /\ ~misclosed' /\ armed' \cap batch' = {}
    BY <1>1, <1>5 DEF SchedInv, PollInv
  <2>2. {t} \in SUBSET Tasks /\ \A u \in {t} : PolledAt(u)'
    BY <1>9
  <2>3. /\ \A i \in Timers : timerfd'[i] = timerfd[i] \/ {timerfd[i], timerfd'[i]} \subseteq {t} \cup {None}
        /\ \A i \in Timers, u \in {t} : timerfd'[i] = u => Timer(u)' /\ park_timer_id'[u] = i
    BY <1>1, <1>5
  <2> QED BY <1>6, <1>8, <2>1, <2>2, <2>3, PollOthers
<1>11. {t} \in SUBSET Tasks /\ (cur' # None => batch' = {})
  BY <1>1
<1> QED BY <1>1, <1>4, <1>6, <1>10, <1>11, LocalStep

(* A fresh timer for a task that has none.                                  *)
LEMMA Armed ==
  ASSUME PollType, NEW t \in Tasks, NEW i \in Timers, ArmTimer(t, i), \A j \in Timers : timerfd[j] # t
  PROVE  /\ timerfd' \in [Timers -> Tasks \cup {None}] /\ park_timer_id' \in [Tasks -> Timers \cup {None}]
         /\ park_timer_dead' \in [Tasks -> BOOLEAN]
         /\ \A j \in Timers : timerfd'[j] = timerfd[j] \/ {timerfd[j], timerfd'[j]} \subseteq {t} \cup {None}
         /\ \A j \in Timers : timerfd'[j] = t => park_timer_id'[t] = j
         /\ park_timer_id'[t] = i /\ timerfd'[i] = t /\ ~park_timer_dead'[t]
         /\ \A u \in Tasks : u # t => park_timer_id'[u] = park_timer_id[u] /\ park_timer_dead'[u] = park_timer_dead[u]
<1>1. /\ timerfd[i] = None /\ timerfd' = [timerfd EXCEPT ![i] = t]
      /\ park_timer_id' = [park_timer_id EXCEPT ![t] = i]
      /\ park_timer_dead' = [park_timer_dead EXCEPT ![t] = FALSE]
  BY DEF ArmTimer
<1>2. /\ timerfd \in [Timers -> Tasks \cup {None}] /\ park_timer_id \in [Tasks -> Timers \cup {None}]
      /\ park_timer_dead \in [Tasks -> BOOLEAN]
  BY DEF PollType
<1>3. timerfd'[i] = t /\ \A j \in Timers : j # i => timerfd'[j] = timerfd[j]
  BY <1>1, <1>2
<1>4. park_timer_id'[t] = i /\ ~park_timer_dead'[t]
      /\ \A u \in Tasks : u # t => park_timer_id'[u] = park_timer_id[u] /\ park_timer_dead'[u] = park_timer_dead[u]
  BY <1>1, <1>2
<1>5. /\ timerfd' \in [Timers -> Tasks \cup {None}] /\ park_timer_id' \in [Tasks -> Timers \cup {None}]
      /\ park_timer_dead' \in [Tasks -> BOOLEAN]
  BY <1>1, <1>2
<1> QED BY <1>1, <1>3, <1>4, <1>5

(* A bounded park on a descriptor.                                          *)
LEMMA ParkOnFdTimeoutStep ==
  ASSUME SchedInv, Disciplined, NEW t \in Tasks, NEW i \in Timers, NEW un \in BOOLEAN, ParkOnFdTimeout(t, i, un)
  PROVE  SchedInv'
<1>1. /\ MayPark(t) /\ io' = io \cup {t} /\ chanq' = chanq /\ rq' = rq /\ cur' = None
      /\ pc' = [pc EXCEPT ![t] = "fdtimer"] /\ armed' = armed \cup {<<t, "fd">>, <<t, "timer">>} /\ batch' = batch
      /\ misclosed' = misclosed /\ ArmTimer(t, i) /\ Unowned(t, un)
      /\ park_woke_by_timer' = [park_woke_by_timer EXCEPT ![t] = FALSE]
      /\ UNCHANGED <<scope, awaiter, awaitable, stack, captured, holder, timed, scopeVars>>
  BY DEF ParkOnFdTimeout, park_to_pump
<1>2. /\ sockets' = IF un THEN sockets \cup {t} ELSE sockets
      /\ hooked' = IF un THEN hooked \cup {t} ELSE hooked
  BY <1>1 DEF Unowned
<1>3. pc \in [Tasks -> Places] /\ pc'[t] = "fdtimer" /\ \A u \in Tasks : u # t => pc'[u] = pc[u]
  BY <1>1 DEF SchedInv, SchedType, RunType
<1>4. /\ RunType' /\ NoDup(rq)' /\ (cur \notin Elems(rq))' /\ pc[t] = "body" /\ cur = t
      /\ \A u \in Tasks : u \notin {t} => Stays(u)
      /\ \A u \in {t} : Moves(u)
  BY <1>1, <1>3, ParkMoves
<1>5. batch = {} /\ ~Fd(t) /\ ~Timer(t) /\ t \notin sockets /\ (\A j \in Timers : timerfd[j] # t) /\ PollType
  BY <1>4, RunningTask, Unregistered DEF PollPlaces, SchedInv, SchedType
<1>6. /\ timerfd' \in [Timers -> Tasks \cup {None}] /\ park_timer_id' \in [Tasks -> Timers \cup {None}]
      /\ park_timer_dead' \in [Tasks -> BOOLEAN]
      /\ \A j \in Timers : timerfd'[j] = timerfd[j] \/ {timerfd[j], timerfd'[j]} \subseteq {t} \cup {None}
      /\ \A j \in Timers : timerfd'[j] = t => park_timer_id'[t] = j
      /\ park_timer_id'[t] = i /\ timerfd'[i] = t /\ ~park_timer_dead'[t]
      /\ \A u \in Tasks : u # t => park_timer_id'[u] = park_timer_id[u] /\ park_timer_dead'[u] = park_timer_dead[u]
  BY <1>1, <1>5, Armed
<1>7. /\ park_woke_by_timer' \in [Tasks -> BOOLEAN]
      /\ \A u \in Tasks : u # t => park_woke_by_timer'[u] = park_woke_by_timer[u]
  BY <1>1, <1>5 DEF PollType
<1>8. PollType'
  BY <1>1, <1>2, <1>5, <1>6, <1>7 DEF PollType
<1>9. /\ \A u \in Tasks : u # t => (Fd(u)' <=> Fd(u)) /\ (Timer(u)' <=> Timer(u))
      /\ Fd(t)' /\ Timer(t)'
  <2>1. {<<t, "fd">>, <<t, "timer">>} \in SUBSET {<<t, "fd">>, <<t, "timer">>}
    OBVIOUS
  <2> QED BY <1>1, <1>5, <2>1, EventsAdded
<1>10. \A u \in Tasks : u \notin {t} => PollStays(u)
  BY <1>1, <1>2, <1>3, <1>6, <1>7, <1>9 DEF PollStays
<1>11. PolledAt(t)'
  <2>1. t \in io' /\ (t \in sockets' => t \in hooked')
    BY <1>1, <1>2, <1>5
  <2> QED BY <1>3, <1>6, <1>9, <2>1 DEF PolledAt, ParksOnTimer, ParksOnFd
<1>12. PollInv'
  <2>1. PollInv /\ ~misclosed' /\ armed' \cap batch' = {}
    BY <1>1, <1>5 DEF SchedInv, PollInv
  <2>2. {t} \in SUBSET Tasks /\ \A u \in {t} : PolledAt(u)'
    BY <1>11
  <2>3. \A j \in Timers, u \in {t} : timerfd'[j] = u => Timer(u)' /\ park_timer_id'[u] = j
    BY <1>6, <1>9
  <2> QED BY <1>6, <1>8, <1>10, <2>1, <2>2, <2>3, PollOthers
<1>13. {t} \in SUBSET Tasks /\ (cur' # None => batch' = {})
  BY <1>1
<1> QED BY <1>1, <1>4, <1>8, <1>12, <1>13, LocalStep

(* A sleep.                                                                 *)
LEMMA SleepStep ==
  ASSUME SchedInv, Disciplined, NEW t \in Tasks, NEW i \in Timers, Sleep(t, i)
  PROVE  SchedInv'
<1>1. /\ MayPark(t) /\ io' = io \cup {t} /\ chanq' = chanq /\ rq' = rq /\ cur' = None
      /\ pc' = [pc EXCEPT ![t] = "sleep"] /\ armed' = armed \cup {<<t, "timer">>} /\ batch' = batch
      /\ misclosed' = misclosed /\ ArmTimer(t, i) /\ sockets' = sockets /\ hooked' = hooked
      /\ park_woke_by_timer' = park_woke_by_timer
      /\ UNCHANGED <<scope, awaiter, awaitable, stack, captured, holder, timed, scopeVars>>
  BY DEF Sleep, park_to_pump
<1>3. pc \in [Tasks -> Places] /\ pc'[t] = "sleep" /\ \A u \in Tasks : u # t => pc'[u] = pc[u]
  BY <1>1 DEF SchedInv, SchedType, RunType
<1>4. /\ RunType' /\ NoDup(rq)' /\ (cur \notin Elems(rq))' /\ pc[t] = "body" /\ cur = t
      /\ \A u \in Tasks : u \notin {t} => Stays(u)
      /\ \A u \in {t} : Moves(u)
  BY <1>1, <1>3, ParkMoves
<1>5. batch = {} /\ ~Fd(t) /\ ~Timer(t) /\ t \notin sockets /\ (\A j \in Timers : timerfd[j] # t) /\ PollType
  BY <1>4, RunningTask, Unregistered DEF PollPlaces, SchedInv, SchedType
<1>6. /\ timerfd' \in [Timers -> Tasks \cup {None}] /\ park_timer_id' \in [Tasks -> Timers \cup {None}]
      /\ park_timer_dead' \in [Tasks -> BOOLEAN]
      /\ \A j \in Timers : timerfd'[j] = timerfd[j] \/ {timerfd[j], timerfd'[j]} \subseteq {t} \cup {None}
      /\ \A j \in Timers : timerfd'[j] = t => park_timer_id'[t] = j
      /\ park_timer_id'[t] = i /\ timerfd'[i] = t /\ ~park_timer_dead'[t]
      /\ \A u \in Tasks : u # t => park_timer_id'[u] = park_timer_id[u] /\ park_timer_dead'[u] = park_timer_dead[u]
  BY <1>1, <1>5, Armed
<1>8. PollType'
  BY <1>1, <1>5, <1>6 DEF PollType
<1>9. /\ \A u \in Tasks : u # t => (Fd(u)' <=> Fd(u)) /\ (Timer(u)' <=> Timer(u))
      /\ ~Fd(t)' /\ Timer(t)'
  <2>1. {<<t, "timer">>} \in SUBSET {<<t, "fd">>, <<t, "timer">>} /\ <<t, "fd">> \notin {<<t, "timer">>}
    OBVIOUS
  <2> QED BY <1>1, <1>5, <2>1, EventsAdded
<1>10. \A u \in Tasks : u \notin {t} => PollStays(u)
  BY <1>1, <1>3, <1>6, <1>9 DEF PollStays
<1>11. PolledAt(t)'
  <2>1. t \in io' /\ t \notin sockets'
    BY <1>1, <1>5
  <2> QED BY <1>3, <1>6, <1>9, <2>1 DEF PolledAt, ParksOnTimer, ParksOnFd
<1>12. PollInv'
  <2>1. PollInv /\ ~misclosed' /\ armed' \cap batch' = {}
    BY <1>1, <1>5 DEF SchedInv, PollInv
  <2>2. {t} \in SUBSET Tasks /\ \A u \in {t} : PolledAt(u)'
    BY <1>11
  <2>3. \A j \in Timers, u \in {t} : timerfd'[j] = u => Timer(u)' /\ park_timer_id'[u] = j
    BY <1>6, <1>9
  <2> QED BY <1>6, <1>8, <1>10, <2>1, <2>2, <2>3, PollOthers
<1>13. {t} \in SUBSET Tasks /\ (cur' # None => batch' = {})
  BY <1>1
<1> QED BY <1>1, <1>4, <1>8, <1>12, <1>13, LocalStep

(* Registrations removed from the poller while no event is to be harvested. *)
LEMMA EventsRemoved ==
  ASSUME NEW F \in SUBSET Tasks, NEW W \in SUBSET Tasks, batch = {}, batch' = batch,
         armed' = armed \ (TimerEvents(W) \cup FdEvents(F))
  PROVE  \A u \in Tasks : (Fd(u)' <=> Fd(u) /\ u \notin F) /\ (Timer(u)' <=> Timer(u) /\ u \notin W)
<1>1. ASSUME NEW u \in Tasks
      PROVE  /\ <<u, "fd">> \in TimerEvents(W) \cup FdEvents(F) <=> u \in F
             /\ <<u, "timer">> \in TimerEvents(W) \cup FdEvents(F) <=> u \in W
  BY DEF TimerEvents, FdEvents
<1>2. ASSUME NEW u \in Tasks
      PROVE  (Fd(u)' <=> Fd(u) /\ u \notin F) /\ (Timer(u)' <=> Timer(u) /\ u \notin W)
  BY <1>1 DEF Fd, Timer
<1> QED BY <1>2

(* The rest of a sleep or of an unbounded park.                             *)
LEMMA ParkReturnsStep ==
  ASSUME SchedInv, NEW t \in Tasks, ParkReturns(t)
  PROVE  SchedInv'
<1>1. /\ cur = t /\ pc[t] \in {"fd", "sleep"} /\ io' = io /\ chanq' = chanq /\ rq' = rq /\ cur' = cur
      /\ pc' = [pc EXCEPT ![t] = "body"] /\ armed' = armed /\ batch' = batch
      /\ timerfd' = timerfd /\ misclosed' = misclosed
      /\ park_timer_id' = park_timer_id /\ park_timer_dead' = park_timer_dead
      /\ park_woke_by_timer' = park_woke_by_timer /\ sockets' = sockets \ {t} /\ hooked' = hooked \ {t}
      /\ UNCHANGED <<scope, awaiter, awaitable, stack, captured, holder, timed, scopeVars>>
  BY DEF ParkReturns, Resumed, Released, pollVars
<1>2. pc \in [Tasks -> Places] /\ pc'[t] = "body" /\ \A u \in Tasks : u # t => pc'[u] = pc[u]
  BY <1>1 DEF SchedInv, SchedType, RunType
<1>3. /\ RunType' /\ NoDup(rq)' /\ (cur \notin Elems(rq))'
      /\ \A u \in Tasks : u \notin {t} => Stays(u)
      /\ \A u \in {t} : Moves(u)
  BY <1>1, ReturnMoves
<1>4. batch = {} /\ t \notin io /\ t # None /\ PollInv /\ PolledAt(t)
  BY <1>1, RunningTask DEF SchedInv, PollInv
<1>5. ~Fd(t) /\ ~Timer(t)
  BY <1>1, <1>4 DEF PolledAt, ParksOnFd, ParksOnTimer
<1>6. \A i \in Timers : timerfd[i] # t
  BY <1>4, <1>5 DEF PollInv
<1>7. PollType'
  BY <1>1 DEF SchedInv, SchedType, PollType
<1>8. \A u \in Tasks : (Fd(u)' <=> Fd(u)) /\ (Timer(u)' <=> Timer(u))
  BY <1>1 DEF Fd, Timer
<1>9. \A u \in Tasks : u \notin {t} => PollStays(u)
  BY <1>1, <1>2, <1>8 DEF PollStays
<1>10. PolledAt(t)'
  <2>1. t \notin sockets' /\ ~Fd(t)' /\ ~Timer(t)'
    BY <1>1, <1>5, <1>8
  <2> QED BY <1>2, <2>1 DEF PolledAt, ParksOnTimer, ParksOnFd
<1>11. PollInv'
  <2>1. ~misclosed' /\ armed' \cap batch' = {}
    BY <1>1, <1>4 DEF PollInv
  <2>2. {t} \in SUBSET Tasks /\ \A u \in {t} : PolledAt(u)'
    BY <1>10
  <2>3. /\ \A i \in Timers : timerfd'[i] = timerfd[i] \/ {timerfd[i], timerfd'[i]} \subseteq {t} \cup {None}
        /\ \A i \in Timers, u \in {t} : timerfd'[i] = u => Timer(u)' /\ park_timer_id'[u] = i
    BY <1>1, <1>6
  <2> QED BY <1>4, <1>7, <1>9, <2>1, <2>2, <2>3, PollOthers
<1>12. {t} \in SUBSET Tasks /\ (cur' # None => batch' = {})
  BY <1>1, <1>4
<1> QED BY <1>1, <1>3, <1>7, <1>11, <1>12, LocalStep

(* The rest of a bounded park retires the registration that lost.           *)
LEMMA FdTimeoutReturnsStep ==
  ASSUME SchedInv, NEW t \in Tasks, FdTimeoutReturns(t)
  PROVE  SchedInv'
<1> DEFINE W == LosersTimer(t)
<1>1. /\ cur = t /\ pc[t] = "fdtimer" /\ io' = io /\ chanq' = chanq /\ rq' = rq /\ cur' = cur
      /\ pc' = [pc EXCEPT ![t] = "body"] /\ armed' = armed \ (FdEvents({t}) \cup TimerEvents(W)) /\ batch' = batch
      /\ sprout_poll_remove_timer(W)
      /\ park_timer_id' = park_timer_id
      /\ park_woke_by_timer' = [park_woke_by_timer EXCEPT ![t] = FALSE]
      /\ sockets' = sockets \ {t} /\ hooked' = hooked \ {t}
      /\ UNCHANGED <<scope, awaiter, awaitable, stack, captured, holder, timed, scopeVars>>
  BY DEF FdTimeoutReturns, Resumed, Released
<1>2. pc \in [Tasks -> Places] /\ pc'[t] = "body" /\ \A u \in Tasks : u # t => pc'[u] = pc[u]
  BY <1>1 DEF SchedInv, SchedType, RunType
<1>3. /\ RunType' /\ NoDup(rq)' /\ (cur \notin Elems(rq))'
      /\ \A u \in Tasks : u \notin {t} => Stays(u)
      /\ \A u \in {t} : Moves(u)
  BY <1>1, ReturnMoves
<1>4. batch = {} /\ t \notin io /\ t # None /\ PollInv /\ PollType /\ PolledAt(t)
  BY <1>1, RunningTask DEF SchedInv, PollInv, SchedType
<1>5. (Timer(t) <=> t \in W) /\ W \subseteq {t}
  BY <1>1, <1>4 DEF PolledAt, ParksOnTimer, LosersTimer
<1> HIDE DEF W
<1>6. /\ ~misclosed' /\ misclosed' \in BOOLEAN
      /\ timerfd' \in [Timers -> Tasks \cup {None}] /\ park_timer_dead' \in [Tasks -> BOOLEAN]
      /\ \A u \in Tasks : u \notin W => park_timer_dead'[u] = park_timer_dead[u]
      /\ \A i \in Timers : timerfd'[i] = timerfd[i] \/ {timerfd[i], timerfd'[i]} \subseteq W \cup {None}
      /\ \A i \in Timers : timerfd'[i] \notin W
  <2>1. W \in SUBSET Tasks /\ \A w \in W : Timer(w)
    BY <1>5
  <2> QED BY <1>1, <1>4, <2>1, TearDown
<1>7. \A u \in Tasks : (Fd(u)' <=> Fd(u) /\ u \notin {t}) /\ (Timer(u)' <=> Timer(u) /\ u \notin W)
  <2>1. armed' = armed \ (TimerEvents(W) \cup FdEvents({t})) /\ {t} \in SUBSET Tasks /\ W \in SUBSET Tasks
    BY <1>1, <1>5
  <2> QED BY <1>1, <1>4, <2>1, EventsRemoved
<1>8. /\ park_woke_by_timer' \in [Tasks -> BOOLEAN]
      /\ \A u \in Tasks : u # t => park_woke_by_timer'[u] = park_woke_by_timer[u]
  BY <1>1, <1>4 DEF PollType
<1>9. PollType'
  BY <1>1, <1>4, <1>6, <1>8 DEF PollType
<1>10. \A u \in Tasks : u \notin {t} => PollStays(u)
  BY <1>1, <1>2, <1>5, <1>6, <1>7, <1>8 DEF PollStays
<1>11. ~Fd(t)' /\ ~Timer(t)'
  BY <1>5, <1>7
<1>12. PolledAt(t)'
  <2>1. t \notin sockets'
    BY <1>1
  <2> QED BY <1>2, <1>11, <2>1 DEF PolledAt, ParksOnTimer, ParksOnFd
<1>13. PollInv'
  <2>1. armed' \cap batch' = {}
    BY <1>1, <1>4
  <2>2. {t} \in SUBSET Tasks /\ \A u \in {t} : PolledAt(u)'
    BY <1>12
  <2>3. ASSUME NEW i \in Timers PROVE timerfd'[i] # t
    <3>1. timerfd'[i] = t => timerfd[i] = t
      BY <1>4, <1>5, <1>6
    <3>2. timerfd[i] = t => Timer(t)
      BY <1>4 DEF PollInv
    <3> QED BY <1>5, <1>6, <3>1, <3>2
  <2>4. \A i \in Timers : timerfd'[i] = timerfd[i] \/ {timerfd[i], timerfd'[i]} \subseteq {t} \cup {None}
    BY <1>5, <1>6
  <2>5. \A i \in Timers, u \in {t} : timerfd'[i] = u => Timer(u)' /\ park_timer_id'[u] = i
    BY <2>3
  <2> QED BY <1>4, <1>6, <1>9, <1>10, <2>1, <2>2, <2>4, <2>5, PollOthers
<1>14. {t} \in SUBSET Tasks /\ (cur' # None => batch' = {})
  BY <1>1, <1>4
<1> QED BY <1>1, <1>3, <1>9, <1>13, <1>14, LocalStep

(* A wait moves events from the poller to the batch.                        *)
LEMMA PollWaitStep ==
  ASSUME SchedInv, NEW E \in SUBSET armed, sprout_poll_wait(E)
  PROVE  SchedInv'
<1>1. /\ cur = None /\ batch = {} /\ cur' = cur /\ rq' = rq /\ io' = io /\ chanq' = chanq /\ pc' = pc
      /\ batch' = E /\ armed' = armed \ E /\ timerfd' = timerfd /\ misclosed' = misclosed
      /\ park_timer_id' = park_timer_id /\ park_timer_dead' = park_timer_dead
      /\ park_woke_by_timer' = park_woke_by_timer /\ sockets' = sockets /\ hooked' = hooked
      /\ UNCHANGED <<scope, awaiter, awaitable, stack, captured, holder, timed, scopeVars>>
  BY DEF sprout_poll_wait, PumpRuns, taskVars, parkVars
<1>2. /\ cur' \in Tasks \cup {None} /\ rq' \in Seq(Tasks) /\ NoDup(rq)' /\ (cur \notin Elems(rq))'
      /\ \A u \in Tasks : Ready(u)' <=> Ready(u)
  BY <1>1, CpuKeeps
<1>3. \A u \in Tasks : Stays(u)
  BY <1>1, <1>2 DEF Stays
<1>4. RunType' /\ PollType'
  BY <1>1, <1>2 DEF SchedInv, SchedType, RunType, PollType
<1>5. \A u \in Tasks : (Fd(u)' <=> Fd(u)) /\ (Timer(u)' <=> Timer(u))
  BY <1>1 DEF Fd, Timer
<1>6. \A u \in Tasks : PollStays(u)
  BY <1>1, <1>5 DEF PollStays
<1>7. PollInv'
  <2>1. PollInv /\ armed' \cap batch' = {} /\ ~misclosed'
    BY <1>1 DEF SchedInv, PollInv
  <2>2. {} \in SUBSET Tasks /\ \A u \in {} : PolledAt(u)'
    OBVIOUS
  <2>3. /\ \A i \in Timers : timerfd'[i] = timerfd[i] \/ {timerfd[i], timerfd'[i]} \subseteq {} \cup {None}
        /\ \A i \in Timers, u \in {} : timerfd'[i] = u => Timer(u)' /\ park_timer_id'[u] = i
    BY <1>1
  <2> QED BY <1>4, <1>6, <2>1, <2>2, <2>3, PollOthers
<1>8. {} \in SUBSET Tasks /\ (\A u \in {} : Moves(u)) /\ (cur' # None => batch' = {})
  BY <1>1
<1> QED BY <1>1, <1>2, <1>3, <1>4, <1>7, <1>8, LocalStep

(* The pump harvests one event: what it does to the poller.                 *)
LEMMA HarvestPoll ==
  ASSUME SchedInv, NEW w \in Tasks, NEW kind \in {"fd", "timer"}, PumpHarvests(w, kind)
  PROVE  PollType' /\ PollInv'
<1> DEFINE W == Spent(w, kind)
<1>1. /\ <<w, kind>> \in batch /\ batch' = batch \ {<<w, kind>>} /\ armed' = armed /\ pc' = pc
      /\ sprout_poll_remove_timer(W) /\ park_timer_id' = park_timer_id /\ sockets' = sockets
  BY DEF PumpHarvests, taskVars
<1>2. PollInv /\ PollType /\ PolledAt(w) /\ w # None /\ RunType
  BY DEF SchedInv, PollInv, SchedType, Tasks
<1>3. /\ kind = "timer" => Timer(w) /\ W = {w}
      /\ kind = "fd" => Fd(w) /\ W = {}
  BY <1>1, <1>2 DEF PolledAt, Fd, Timer, Spent
<1> HIDE DEF W
<1>4. W \in SUBSET Tasks /\ \A x \in W : Timer(x)
  BY <1>3
<1>5. /\ ~misclosed' /\ misclosed' \in BOOLEAN
      /\ timerfd' \in [Timers -> Tasks \cup {None}] /\ park_timer_dead' \in [Tasks -> BOOLEAN]
      /\ \A u \in Tasks : u \in W => park_timer_dead'[u]
      /\ \A u \in Tasks : u \notin W => park_timer_dead'[u] = park_timer_dead[u]
      /\ \A i \in Timers : timerfd'[i] = timerfd[i] \/ {timerfd[i], timerfd'[i]} \subseteq W \cup {None}
      /\ \A i \in Timers : timerfd'[i] \notin W
  BY <1>1, <1>2, <1>4, TearDown
<1>6. /\ \A u \in Tasks : u # w => (Fd(u)' <=> Fd(u)) /\ (Timer(u)' <=> Timer(u))
      /\ kind = "timer" => ~Timer(w)' /\ (Fd(w)' <=> Fd(w))
      /\ kind = "fd" => ~Fd(w)' /\ (Timer(w)' <=> Timer(w))
  <2>1. <<w, kind>> \notin armed
    BY <1>1, <1>2 DEF PollInv
  <2>2. ASSUME NEW u \in Tasks, u # w PROVE <<u, "fd">> # <<w, kind>> /\ <<u, "timer">> # <<w, kind>>
    BY <2>2
  <2>3. <<w, "fd">> # <<w, "timer">>
    OBVIOUS
  <2>4. \A u \in Tasks : u # w => (Fd(u)' <=> Fd(u)) /\ (Timer(u)' <=> Timer(u))
    BY <1>1, <2>2 DEF Fd, Timer
  <2>5. kind = "timer" => ~Timer(w)' /\ (Fd(w)' <=> Fd(w))
    BY <1>1, <2>1, <2>3 DEF Fd, Timer
  <2>6. kind = "fd" => ~Fd(w)' /\ (Timer(w)' <=> Timer(w))
    BY <1>1, <2>1, <2>3 DEF Fd, Timer
  <2> QED BY <2>4, <2>5, <2>6
<1>7. /\ w \in io => /\ park_woke_by_timer' = [park_woke_by_timer EXCEPT ![w] = TimedOut(w, kind)]
                     /\ io' = io \ {w} /\ hooked' = hooked \ {w}
      /\ w \notin io => park_woke_by_timer' = park_woke_by_timer /\ io' = io /\ hooked' = hooked
  BY DEF PumpHarvests, Wakes
<1>8. /\ park_woke_by_timer' \in [Tasks -> BOOLEAN]
      /\ \A u \in Tasks : u # w => park_woke_by_timer'[u] = park_woke_by_timer[u]
      /\ w \in io => (park_woke_by_timer'[w] <=> TimedOut(w, kind))
      /\ w \notin io => park_woke_by_timer'[w] = park_woke_by_timer[w]
  <2>1. TimedOut(w, kind) \in BOOLEAN
    BY DEF TimedOut
  <2> QED BY <1>2, <1>7, <2>1 DEF PollType
<1>9. w \notin io' /\ (\A u \in Tasks : u # w => (u \in io' <=> u \in io) /\ (u \in hooked' <=> u \in hooked))
      /\ hooked' \in SUBSET Tasks
  BY <1>2, <1>7 DEF PollType
<1>10. PollType'
  BY <1>1, <1>2, <1>5, <1>8, <1>9 DEF PollType
<1>11. \A u \in Tasks : u \notin {w} => PollStays(u)
  <2> SUFFICES ASSUME NEW u \in Tasks, u # w PROVE PollStays(u)
    OBVIOUS
  <2>1. u \notin W
    BY <1>3
  <2> QED BY <1>1, <1>5, <1>6, <1>8, <1>9, <2>1 DEF PollStays
<1>12. PolledAt(w)'
  <2>1. CASE kind = "timer"
    <3>1. park_timer_dead'[w] /\ ~Timer(w)' /\ (Fd(w)' <=> Fd(w))
      BY <1>3, <1>5, <1>6, <2>1
    <3>2. pc'[w] = "fdtimer" => IF park_woke_by_timer'[w] THEN park_timer_dead'[w] ELSE ~Fd(w)'
      <4>1. CASE w \in io
        BY <1>1, <1>8, <2>1, <3>1, <4>1 DEF TimedOut
      <4>2. CASE w \notin io
        BY <1>1, <1>2, <1>8, <3>1, <4>2 DEF PolledAt
      <4> QED BY <4>1, <4>2
    <3>3. pc'[w] = "fd" => ~Fd(w)'
      BY <1>1, <1>2, <1>3, <2>1 DEF PolledAt, ParksOnTimer
    <3>4. (Fd(w)' => ParksOnFd(w)') /\ (w \in sockets' => pc'[w] \in {"fd", "fdtimer"})
      BY <1>1, <1>2, <3>1 DEF PolledAt, ParksOnFd
    <3> QED BY <1>1, <1>9, <3>1, <3>2, <3>3, <3>4 DEF PolledAt
  <2>2. CASE kind = "fd"
    <3>1. park_timer_dead'[w] = park_timer_dead[w] /\ ~Fd(w)' /\ (Timer(w)' <=> Timer(w))
      BY <1>3, <1>5, <1>6, <2>2
    <3>2. pc[w] \in {"fd", "fdtimer"}
      BY <1>2, <1>3, <2>2 DEF PolledAt, ParksOnFd
    <3>3. Timer(w) => park_timer_id[w] \in Timers /\ timerfd'[park_timer_id[w]] = w
      BY <1>2, <1>3, <1>5, <2>2 DEF PolledAt
    <3>4. pc'[w] = "fdtimer" => IF park_woke_by_timer'[w] THEN park_timer_dead'[w] ELSE ~Fd(w)'
      <4>1. CASE w \in io
        BY <1>8, <2>2, <3>1, <4>1 DEF TimedOut
      <4>2. CASE w \notin io
        BY <1>1, <1>2, <1>8, <3>1, <4>2 DEF PolledAt
      <4> QED BY <4>1, <4>2
    <3>5. Timer(w)' <=> ParksOnTimer(w)' /\ ~park_timer_dead'[w]
      BY <1>1, <1>2, <3>1 DEF PolledAt, ParksOnTimer
    <3> QED BY <1>1, <1>9, <3>1, <3>2, <3>3, <3>4, <3>5 DEF PolledAt
  <2> QED BY <2>1, <2>2
<1>13. PollInv'
  <2>1. armed' \cap batch' = {}
    BY <1>1, <1>2 DEF PollInv
  <2>2. {w} \in SUBSET Tasks /\ \A u \in {w} : PolledAt(u)'
    BY <1>12
  <2>3. \A i \in Timers : timerfd'[i] = timerfd[i] \/ {timerfd[i], timerfd'[i]} \subseteq {w} \cup {None}
    BY <1>3, <1>5
  <2>4. ASSUME NEW i \in Timers, timerfd'[i] = w PROVE Timer(w)' /\ park_timer_id'[w] = i
    <3>1. w \notin W /\ timerfd[i] = w
      BY <1>2, <1>5, <2>4
    <3>2. kind = "fd" /\ Timer(w) /\ park_timer_id[w] = i
      BY <1>2, <1>3, <3>1 DEF PollInv
    <3> QED BY <1>1, <1>6, <3>2
  <2>5. \A i \in Timers, u \in {w} : timerfd'[i] = u => Timer(u)' /\ park_timer_id'[u] = i
    BY <2>4
  <2> QED BY <1>2, <1>5, <1>10, <1>11, <2>1, <2>2, <2>3, <2>5, PollOthers
<1> QED BY <1>10, <1>13

(* The pump harvests one event.                                             *)
LEMMA HarvestStep ==
  ASSUME SchedInv, NEW w \in Tasks, NEW kind \in {"fd", "timer"}, PumpHarvests(w, kind)
  PROVE  SchedInv'
<1>1. /\ cur = None /\ cur' = cur /\ chanq' = chanq /\ pc' = pc
      /\ UNCHANGED <<scope, awaiter, awaitable, stack, captured, holder, timed, scopeVars>>
  BY DEF PumpHarvests, PumpRuns, taskVars
<1>2. PollType' /\ PollInv' /\ (cur' # None => batch' = {})
  BY <1>1, HarvestPoll
<1>3. CASE w \in io
  <2>1. io' = io \ {w} /\ rq' = Append(rq, w)
    BY <1>3 DEF PumpHarvests, Wakes, rq_push
  <2>2. PlacedAt(w)
    BY DEF SchedInv, QueueInv
  <2>3. pc[w] \in PollPlaces /\ ~Ready(w) /\ w \notin chanq
    BY <1>3, <2>2 DEF PlacedAt, PollPlaces
  <2>4. /\ cur' \in Tasks \cup {None} /\ rq' \in Seq(Tasks) /\ NoDup(rq)' /\ (cur \notin Elems(rq))'
        /\ \A u \in Tasks : Ready(u)' <=> Ready(u) \/ u = w
    BY <1>1, <2>1, <2>3, CpuPushes
  <2>5. \A u \in Tasks : u \notin {w} => Stays(u)
    BY <1>1, <2>1, <2>4 DEF Stays
  <2>6. RunType'
    BY <1>1, <2>1, <2>4 DEF SchedInv, SchedType, RunType
  <2>7. Moves(w)
    <3>1. Ready(w)' /\ Alive(w)' /\ w \notin io' /\ w \notin chanq' /\ pc'[w] = pc[w]
      BY <1>1, <2>1, <2>3, <2>4 DEF Alive, PollPlaces
    <3>2. PlacedAt(w)'
      BY <2>3, <3>1 DEF PlacedAt, RunPlaces, PollPlaces
    <3> QED BY <1>1, <1>3, <2>3, <3>1, <3>2 DEF Moves, PollPlaces
  <2>8. {w} \in SUBSET Tasks /\ \A u \in {w} : Moves(u)
    BY <2>7
  <2> QED BY <1>1, <1>2, <2>4, <2>5, <2>6, <2>8, LocalStep
<1>4. CASE w \notin io
  <2>1. io' = io /\ rq' = rq
    BY <1>4 DEF PumpHarvests, Wakes
  <2>2. /\ cur' \in Tasks \cup {None} /\ rq' \in Seq(Tasks) /\ NoDup(rq)' /\ (cur \notin Elems(rq))'
        /\ \A u \in Tasks : Ready(u)' <=> Ready(u)
    BY <1>1, <2>1, CpuKeeps
  <2>3. \A u \in Tasks : Stays(u)
    BY <1>1, <2>1, <2>2 DEF Stays
  <2>4. RunType'
    BY <1>1, <2>1, <2>2 DEF SchedInv, SchedType, RunType
  <2>5. {} \in SUBSET Tasks /\ \A u \in {} : Moves(u)
    OBVIOUS
  <2> QED BY <1>1, <1>2, <2>2, <2>3, <2>4, <2>5, LocalStep
<1> QED BY <1>3, <1>4

-----------------------------------------------------------------------------
(* Awaits and joins.                                                        *)

(* An await of a finished body consumes the handle.                         *)
LEMMA AwaitDoneStep ==
  ASSUME SchedInv, NEW t \in Tasks, NEW f \in Tasks, AwaitDone(t, f)
  PROVE  SchedInv'
<1>1. /\ cur' = cur /\ rq' = rq /\ io' = io /\ chanq' = chanq /\ pc' = pc
      /\ UNCHANGED pollVars /\ UNCHANGED parkVars /\ batch' = batch
      /\ scope' = scope /\ awaiter' = awaiter /\ awaitable' = awaitable /\ stack' = stack
      /\ captured' = captured /\ timed' = timed /\ live' = live /\ waiter' = waiter
      /\ reason' = reason /\ owner' = owner /\ sstate' = sstate /\ outer' = outer
  BY DEF AwaitDone, scopeVars, pollVars
<1>2. pc[f] = "returned" /\ holder' = [holder EXCEPT ![f] = None]
  BY DEF AwaitDone, Consume
<1>3. SchedType /\ RunType /\ PollType /\ LinkType /\ ScopeType /\ BirthInv /\ PollInv /\ AwaitInv
      /\ JoinInv /\ ScopeInv
  BY DEF SchedInv, SchedType
<1>4. holder' \in [Tasks -> Tasks \cup {None}] /\ \A u \in Tasks : u # f => holder'[u] = holder[u]
  BY <1>2, <1>3 DEF LinkType
<1>5. \A u \in Tasks : holder[u] = None => holder'[u] = None
  BY <1>2, <1>3 DEF LinkType
<1>6. SchedType'
  BY <1>1, <1>3, <1>4 DEF SchedType, RunType, PollType, LinkType, ScopeType, pollVars, parkVars
<1>7. (\A u \in Tasks : Stays(u)) /\ NoDup(rq)' /\ (cur \notin Elems(rq))' /\ (cur' # None => batch' = {})
  BY <1>1, CpuKeeps DEF Stays, SchedInv, QueueInv
<1>8. Alive(Main)' /\ (\A u \in Tasks : Alive(u)' <=> Alive(u)) /\ \A u \in Tasks : pc[u] = "unborn" => u # f
  BY <1>1, <1>2, <1>3 DEF BirthInv, Alive
<1>9. BirthInv'
  BY <1>1, <1>3, <1>4, <1>8, BirthFrame
<1>10. PollInv'
  BY <1>1, <1>3, PollFrame
<1>11. AwaitInv'
  BY <1>1, <1>3, <1>5, <1>7, AwaitFrame DEF Stays
<1>12. JoinInv'
  BY <1>1, <1>3, <1>7, JoinFrame, Joiners DEF Stays
<1>13. ScopeInv'
  BY <1>1, <1>3, <1>8, ScopeFrame
<1>14. QueueInv'
  <2>1. {} \in SUBSET Tasks /\ \A u \in {} : PlacedAt(u)'
    OBVIOUS
  <2> QED BY <1>1, <1>7, <2>1, QueueFrame
<1> QED BY <1>6, <1>9, <1>10, <1>11, <1>12, <1>13, <1>14 DEF SchedInv

(* The rest of an await.                                                    *)
LEMMA AwaitReturnsStep ==
  ASSUME SchedInv, NEW t \in Tasks, AwaitReturns(t)
  PROVE  SchedInv'
<1>1. /\ cur' = cur /\ rq' = rq /\ io' = io /\ chanq' = chanq
      /\ UNCHANGED pollVars /\ UNCHANGED parkVars /\ batch' = batch
      /\ scope' = scope /\ awaiter' = awaiter /\ awaitable' = awaitable /\ stack' = stack
      /\ captured' = captured /\ timed' = timed /\ live' = live /\ waiter' = waiter /\ holder' = holder
      /\ reason' = reason /\ owner' = owner /\ sstate' = sstate /\ outer' = outer
  BY DEF AwaitReturns, scopeVars, pollVars
<1>2. cur = t /\ pc[t] = "await" /\ pc' = [pc EXCEPT ![t] = "body"]
  BY DEF AwaitReturns, Resumed
<1>3. SchedType /\ RunType /\ PollType /\ LinkType /\ ScopeType /\ BirthInv /\ PollInv /\ AwaitInv
      /\ JoinInv /\ ScopeInv
  BY DEF SchedInv, SchedType
<1>4. pc' \in [Tasks -> Places] /\ pc'[t] = "body" /\ \A u \in Tasks : u # t => pc'[u] = pc[u]
  BY <1>2, <1>3 DEF RunType, Places
<1>5. SchedType'
  BY <1>1, <1>3, <1>4 DEF SchedType, RunType, PollType, LinkType, ScopeType, pollVars, parkVars
<1>6. /\ NoDup(rq)' /\ (cur \notin Elems(rq))' /\ (cur' # None => batch' = {})
      /\ \A u \in Tasks : Ready(u)' <=> Ready(u)
  BY <1>1, CpuKeeps DEF SchedInv, QueueInv
<1>7. /\ Ready(t) /\ t \notin io /\ t \notin chanq /\ \A f \in Tasks : awaiter[f] # t
  BY <1>2, RunningTask
<1>8. (\A u \in Tasks : Alive(u)' <=> Alive(u))
  BY <1>2, <1>4 DEF Alive
<1>9. Alive(Main)'
  BY <1>3, <1>8 DEF BirthInv, Main, Tasks
<1>10. BirthInv'
  <2>1. \A u \in Tasks : pc'[u] = "unborn" <=> pc[u] = "unborn"
    BY <1>2, <1>4
  <2> QED BY <1>1, <1>3, <1>9, <2>1, BirthFrame
<1>11. PollInv'
  BY <1>1, <1>2, <1>3, <1>4, PollFrame DEF PollPlaces
<1>12. AwaitInv'
  <2>1. Back(t)
    BY <1>2, <1>4, <1>7 DEF Back
  <2>2. \A u \in Tasks : pc'[u] = pc[u] \/ {pc[u], pc'[u]} \subseteq OpenPlaces \/ Back(u) \/ Gone(u)
    BY <1>4, <2>1
  <2> QED BY <1>1, <1>3, <1>6, <2>2, AwaitFrame
<1>13. JoinInv'
  <2>1. \A u \in Tasks : pc'[u] = "join" <=> pc[u] = "join"
    BY <1>2, <1>4
  <2> QED BY <1>1, <1>3, <1>6, <2>1, JoinFrame, Joiners
<1>14. ScopeInv'
  <2>1. \A u \in Tasks : u \in io' \cup chanq' /\ pc'[u] # "deadline" =>
          (u \in io \cup chanq /\ pc[u] # "deadline") \/ scope[u] = None \/ stack[u] = <<>>
    BY <1>1, <1>2, <1>4
  <2> QED BY <1>1, <1>3, <1>8, <2>1, ScopeFrame
<1>15. QueueInv'
  <2>1. \A u \in Tasks : u \notin {t} => Stays(u)
    BY <1>1, <1>4, <1>6 DEF Stays
  <2>2. PlacedAt(t)'
    BY <1>1, <1>4, <1>6, <1>7 DEF PlacedAt, RunPlaces, PollPlaces, Alive
  <2>3. {t} \in SUBSET Tasks /\ \A u \in {t} : PlacedAt(u)'
    BY <2>2
  <2> QED BY <1>1, <1>6, <2>1, <2>3, QueueFrame
<1> QED BY <1>5, <1>10, <1>11, <1>12, <1>13, <1>14, <1>15 DEF SchedInv

(* An await of a body that has not finished parks.                          *)
LEMMA AwaitParksAwait ==
  ASSUME SchedInv, NEW t \in Tasks, NEW f \in Tasks, AwaitParks(t, f), LinkType'
  PROVE  AwaitInv'
<1>1. /\ cur = t /\ pc[t] = "body" /\ holder[f] # None /\ Alive(f) /\ cur' = None /\ rq' = rq /\ io' = io
      /\ timed' = timed /\ awaitable' = awaitable /\ scope' = scope /\ stack' = stack
  BY DEF AwaitParks, Running, Holds, park_to_pump
<1>2. /\ holder' = [holder EXCEPT ![f] = None] /\ awaiter' = [awaiter EXCEPT ![f] = t]
      /\ pc' = [pc EXCEPT ![t] = "await"]
  BY DEF AwaitParks, Consume, park_to_pump
<1>3. LinkType /\ RunType /\ AwaitInv
  BY DEF SchedInv, SchedType
<1>4. /\ holder'[f] = None /\ \A u \in Tasks : u # f => holder'[u] = holder[u]
      /\ awaiter'[f] = t /\ \A u \in Tasks : u # f => awaiter'[u] = awaiter[u]
      /\ pc'[t] = "await" /\ \A u \in Tasks : u # t => pc'[u] = pc[u]
  BY <1>2, <1>3 DEF LinkType, RunType
<1>5. /\ \A u \in Tasks : Ready(u)' <=> Ready(u) /\ u # t
      /\ ~Ready(t)'
  BY <1>1, CpuParks
<1>6. t # None /\ \A g \in Tasks : awaiter[g] # t
  BY <1>1, RunningTask
<1>7. HeldAt(f) /\ TimedAt(t)
  BY <1>3 DEF AwaitInv
<1>8. awaiter[f] = None /\ timed[t] = None
  BY <1>1, <1>6, <1>7 DEF HeldAt, TimedAt, Tasks
<1>9. \A u \in Tasks : Alive(u)' <=> Alive(u)
  BY <1>1, <1>4 DEF Alive
<1>10. ASSUME NEW g \in Tasks PROVE AwaitedAt(g)'
  <2>1. CASE g = f
    <3>1. Alive(f)' /\ awaiter'[f] = t /\ pc'[t] = "await" /\ ~Ready(t)'
      BY <1>1, <1>4, <1>5, <1>8, <1>9
    <3> QED BY <2>1, <3>1 DEF AwaitedAt, Ready
  <2>2. CASE g # f
    <3> SUFFICES ASSUME awaiter[g] # None PROVE AwaitedAt(g)'
      BY <1>4, <2>2 DEF AwaitedAt
    <3>1. PICK w \in Tasks : w = awaiter[g]
      BY <1>3 DEF LinkType
    <3>2. AwaitedAt(g) /\ w # t /\ awaiter'[g] = w
      BY <1>3, <1>4, <1>6, <2>2, <3>1 DEF AwaitInv
    <3>3. /\ Alive(g) /\ pc[w] \in {"await", "deadline"}
          /\ (pc[w] = "await" => ~Ready(w)) /\ (pc[w] = "deadline" => timed[w] = g)
      BY <3>1, <3>2 DEF AwaitedAt
    <3>4. pc'[w] = pc[w] /\ (Ready(w)' <=> Ready(w)) /\ Alive(g)' /\ timed'[w] = timed[w]
      BY <1>1, <1>4, <1>5, <1>9, <3>2, <3>3
    <3> QED BY <3>2, <3>3, <3>4 DEF AwaitedAt, Ready
  <2> QED BY <2>1, <2>2
<1>11. ASSUME NEW u \in Tasks PROVE TimedAt(u)'
  <2>1. TimedAt(u)
    BY <1>3 DEF AwaitInv
  <2>2. CASE timed[u] = None
    BY <1>1, <1>4, <1>8, <2>1, <2>2 DEF TimedAt
  <2>3. CASE timed[u] # None
    <3>1. PICK c \in Tasks : c = timed[u]
      BY <1>3, <2>3 DEF LinkType
    <3>2. /\ pc[u] \in {"deadline", "reclassify"}
          /\ Alive(c) \/ pc[c] = "returned"
          /\ awaitable[c] /\ holder[c] = None /\ awaiter[c] \in {None, u}
          /\ stack[u] # <<>> /\ scope[c] = Innermost(u)
          /\ u \in io => awaiter[c] = u
          /\ pc[u] = "reclassify" => awaiter[c] = None
      BY <2>1, <2>3, <3>1 DEF TimedAt
    <3>3. c # f /\ u # t /\ pc[u] \in {"deadline", "reclassify"}
      BY <1>1, <1>6, <1>8, <2>1, <2>3, <3>1, <3>2 DEF TimedAt
    <3>4. /\ awaiter'[c] = awaiter[c] /\ holder'[c] = None /\ pc'[u] = pc[u] /\ timed'[u] = c
          /\ Alive(c)' \/ pc'[c] = "returned"
          /\ Innermost(u)' = Innermost(u)
      BY <1>1, <1>4, <1>9, <2>1, <2>3, <3>1, <3>2, <3>3 DEF TimedAt, Innermost
    <3> QED BY <1>1, <2>3, <3>1, <3>2, <3>3, <3>4 DEF TimedAt, Alive
  <2> QED BY <2>2, <2>3
<1>12. ASSUME NEW g \in Tasks PROVE HeldAt(g)'
  <2>1. HeldAt(g)
    BY <1>3 DEF AwaitInv
  <2>2. CASE g = f
    BY <1>4, <2>2 DEF HeldAt
  <2>3. CASE g # f
    BY <1>1, <1>4, <2>1, <2>3 DEF HeldAt
  <2> QED BY <2>2, <2>3
<1>13. ASSUME NEW g \in Tasks, NEW h \in Tasks, awaiter'[g] # None, awaiter'[g] = awaiter'[h] PROVE g = h
  BY <1>3, <1>4, <1>6, <1>13 DEF AwaitInv
<1> QED BY <1>10, <1>11, <1>12, <1>13 DEF AwaitInv

(* An await of a fork that still runs.                                      *)
LEMMA AwaitParksStep ==
  ASSUME SchedInv, NEW t \in Tasks, NEW f \in Tasks, AwaitParks(t, f)
  PROVE  SchedInv'
<1>1. /\ cur' = None /\ rq' = rq /\ io' = io /\ chanq' = chanq
      /\ UNCHANGED pollVars /\ UNCHANGED parkVars /\ batch' = batch
      /\ scope' = scope /\ awaitable' = awaitable /\ stack' = stack
      /\ captured' = captured /\ timed' = timed /\ live' = live /\ waiter' = waiter
      /\ reason' = reason /\ owner' = owner /\ sstate' = sstate /\ outer' = outer
  BY DEF AwaitParks, park_to_pump, scopeVars, pollVars
<1>2. /\ cur = t /\ pc[t] = "body" /\ holder[f] # None /\ Alive(f)
      /\ holder' = [holder EXCEPT ![f] = None] /\ awaiter' = [awaiter EXCEPT ![f] = t]
      /\ pc' = [pc EXCEPT ![t] = "await"]
  BY DEF AwaitParks, Running, Holds, Consume, park_to_pump
<1>3. SchedType /\ RunType /\ PollType /\ LinkType /\ ScopeType /\ BirthInv /\ PollInv /\ AwaitInv
      /\ JoinInv /\ ScopeInv
  BY DEF SchedInv, SchedType
<1>4. /\ pc' \in [Tasks -> Places] /\ pc'[t] = "await" /\ \A u \in Tasks : u # t => pc'[u] = pc[u]
      /\ awaiter' \in [Tasks -> Tasks \cup {None}] /\ holder' \in [Tasks -> Tasks \cup {None}]
      /\ awaiter'[f] = t /\ \A u \in Tasks : u # f => awaiter'[u] = awaiter[u] /\ holder'[u] = holder[u]
  BY <1>2, <1>3 DEF RunType, LinkType, Places
<1>5. SchedType'
  <2>1. RunType' /\ LinkType'
    BY <1>1, <1>3, <1>4 DEF RunType, LinkType
  <2>2. PollType' /\ ScopeType'
    BY <1>1, <1>3 DEF PollType, ScopeType, pollVars, parkVars
  <2> QED BY <2>1, <2>2 DEF SchedType
<1>6. /\ NoDup(rq)' /\ (cur \notin Elems(rq))' /\ (cur' # None => batch' = {})
      /\ \A u \in Tasks : Ready(u)' <=> Ready(u) /\ u # t
      /\ ~Ready(t)'
  BY <1>1, <1>2, CpuParks
<1>7. t \notin io /\ t \notin chanq /\ t # None
  BY <1>2, RunningTask
<1>8. \A u \in Tasks : Alive(u)' <=> Alive(u)
  BY <1>2, <1>4 DEF Alive
<1>9. Alive(Main)'
  BY <1>3, <1>8 DEF BirthInv, Main, Tasks
<1>10. BirthInv'
  <2>1. \A u \in Tasks : (pc'[u] = "unborn" <=> pc[u] = "unborn") /\ (pc[u] = "unborn" => u # f)
    BY <1>2, <1>4 DEF Alive
  <2> QED BY <1>1, <1>3, <1>4, <1>9, <2>1, BirthFrame
<1>11. PollInv'
  BY <1>1, <1>2, <1>3, <1>4, PollFrame DEF PollPlaces
<1>12. AwaitInv'
  BY <1>5, AwaitParksAwait DEF SchedType
<1>13. JoinInv'
  <2>1. \A u \in Tasks : (pc'[u] = "join" <=> pc[u] = "join") /\ (pc[u] = "join" => (Ready(u)' <=> Ready(u)))
    BY <1>2, <1>4, <1>6
  <2> QED BY <1>1, <1>3, <2>1, JoinFrame, Joiners
<1>14. ScopeInv'
  <2>1. \A u \in Tasks : u \in io' \cup chanq' /\ pc'[u] # "deadline" =>
          (u \in io \cup chanq /\ pc[u] # "deadline") \/ scope[u] = None \/ stack[u] = <<>>
    BY <1>1, <1>2, <1>4
  <2> QED BY <1>1, <1>3, <1>8, <2>1, ScopeFrame
<1>15. QueueInv'
  <2>1. \A u \in Tasks : u \notin {t} => Stays(u)
    BY <1>1, <1>4, <1>6 DEF Stays
  <2>2. PlacedAt(t)'
    BY <1>1, <1>4, <1>6, <1>7 DEF PlacedAt, RunPlaces, PollPlaces, Alive
  <2>3. {t} \in SUBSET Tasks /\ \A u \in {t} : PlacedAt(u)'
    BY <2>2
  <2>4. HeldAt(f)
    BY <1>3 DEF AwaitInv
  <2>5. \A g \in Tasks : awaiter'[g] = awaiter[g] \/ awaiter[g] \in {t} \cup {None}
    BY <1>2, <1>4, <1>7, <2>4 DEF HeldAt
  <2> QED BY <1>1, <1>6, <2>1, <2>3, <2>5, QueueFrame
<1> QED BY <1>5, <1>10, <1>11, <1>12, <1>13, <1>14, <1>15 DEF SchedInv

(* A join of a scope with live tasks parks.                                 *)
LEMMA JoinParksStep ==
  ASSUME SchedInv, NEW t \in Tasks, JoinParks(t)
  PROVE  SchedInv'
<1>1. /\ cur' = None /\ rq' = rq /\ io' = io /\ chanq' = chanq
      /\ UNCHANGED pollVars /\ UNCHANGED parkVars /\ batch' = batch
      /\ scope' = scope /\ awaiter' = awaiter /\ awaitable' = awaitable /\ stack' = stack
      /\ captured' = captured /\ timed' = timed /\ live' = live /\ holder' = holder
      /\ reason' = reason /\ owner' = owner /\ sstate' = sstate /\ outer' = outer
  BY DEF JoinParks, park_to_pump, pollVars
<1>2. /\ cur = t /\ pc[t] \in {"body", "finish"} /\ stack[t] # <<>> /\ live[Innermost(t)] > 0
      /\ waiter' = [waiter EXCEPT ![Innermost(t)] = t] /\ pc' = [pc EXCEPT ![t] = "join"]
  BY DEF JoinParks, Resumed, MustWait, park_to_pump
<1>3. SchedType /\ RunType /\ PollType /\ LinkType /\ ScopeType /\ BirthInv /\ PollInv /\ AwaitInv
      /\ JoinInv /\ ScopeInv
  BY DEF SchedInv, SchedType
<1>4. PICK s \in Scopes : s = Innermost(t)
  BY <1>2, InnermostScope
<1>5. owner[s] = t
  BY <1>2, <1>4, InnermostScope
<1>6. /\ pc' \in [Tasks -> Places] /\ pc'[t] = "join" /\ \A u \in Tasks : u # t => pc'[u] = pc[u]
      /\ waiter' \in [Scopes -> Tasks \cup {None}]
      /\ waiter'[s] = t /\ \A r \in Scopes : r # s => waiter'[r] = waiter[r]
  BY <1>2, <1>3, <1>4 DEF RunType, LinkType, Places
<1>7. SchedType'
  <2>1. RunType' /\ LinkType'
    BY <1>1, <1>3, <1>6 DEF RunType, LinkType
  <2>2. PollType' /\ ScopeType'
    BY <1>1, <1>3 DEF PollType, ScopeType, pollVars, parkVars
  <2> QED BY <2>1, <2>2 DEF SchedType
<1>8. /\ NoDup(rq)' /\ (cur \notin Elems(rq))' /\ (cur' # None => batch' = {})
      /\ \A u \in Tasks : Ready(u)' <=> Ready(u) /\ u # t
      /\ ~Ready(t)'
  BY <1>1, <1>2, CpuParks
<1>9. t \notin io /\ t \notin chanq /\ t # None /\ \A r \in Scopes : waiter[r] # t
  BY <1>2, RunningTask
<1>10. waiter[s] = None
  <2> SUFFICES ASSUME waiter[s] # None PROVE FALSE
    OBVIOUS
  <2>1. PICK w \in Tasks : w = waiter[s]
    BY <1>3 DEF LinkType
  <2>2. pc[w] = "join" /\ Innermost(w) = s
    BY <1>3, <2>1 DEF JoinInv, JoinedAt
  <2>3. owner[s] = w
    BY <2>2, Joiners
  <2> QED BY <1>2, <1>5, <2>2, <2>3
<1>11. \A u \in Tasks : Alive(u)' <=> Alive(u)
  BY <1>2, <1>6 DEF Alive
<1>12. Alive(Main)'
  BY <1>3, <1>11 DEF BirthInv, Main, Tasks
<1>13. BirthInv'
  <2>1. \A u \in Tasks : pc'[u] = "unborn" <=> pc[u] = "unborn"
    BY <1>2, <1>6
  <2> QED BY <1>1, <1>3, <1>12, <2>1, BirthFrame
<1>14. PollInv'
  BY <1>1, <1>2, <1>3, <1>6, PollFrame DEF PollPlaces
<1>15. AwaitInv'
  <2>1. \A u \in Tasks : pc'[u] = pc[u] \/ {pc[u], pc'[u]} \subseteq OpenPlaces \/ Back(u) \/ Gone(u)
    BY <1>2, <1>6 DEF OpenPlaces
  <2>2. \A u \in Tasks : pc[u] = "await" /\ Ready(u)' => Ready(u)
    BY <1>8
  <2> QED BY <1>1, <1>3, <2>1, <2>2, AwaitFrame
<1>16. JoinInv'
  <2>1. ASSUME NEW r \in Scopes PROVE JoinedAt(r)'
    <3>1. CASE r = s
      <4>1. waiter'[s] = t /\ pc'[t] = "join" /\ ~Ready(t)' /\ Innermost(t)' = s /\ live'[s] > 0
        BY <1>1, <1>2, <1>4, <1>6, <1>8 DEF Innermost
      <4> QED BY <3>1, <4>1 DEF JoinedAt, Ready, Innermost
    <3>2. CASE r # s
      <4> SUFFICES ASSUME waiter[r] # None PROVE JoinedAt(r)'
        BY <1>6, <3>2 DEF JoinedAt
      <4>1. PICK w \in Tasks : w = waiter[r]
        BY <1>3 DEF LinkType
      <4>2. JoinedAt(r) /\ w # t /\ waiter'[r] = w
        BY <1>3, <1>6, <1>9, <3>2, <4>1 DEF JoinInv
      <4>3. pc[w] = "join" /\ ~Ready(w) /\ Innermost(w) = r /\ live[r] > 0
        BY <4>1, <4>2 DEF JoinedAt
      <4>4. pc'[w] = "join" /\ ~Ready(w)' /\ Innermost(w)' = r /\ live'[r] > 0
        BY <1>1, <1>6, <1>8, <4>2, <4>3 DEF Innermost
      <4> QED BY <4>2, <4>4 DEF JoinedAt, Ready, Innermost
    <3> QED BY <3>1, <3>2
  <2>2. ASSUME NEW u \in Tasks PROVE JoiningAt(u)'
    <3>1. JoiningAt(u)
      BY <1>3 DEF JoinInv
    <3>2. CASE u = t
      BY <1>1, <1>2, <1>8, <3>2 DEF JoiningAt
    <3>3. CASE u # t
      BY <1>1, <1>6, <1>8, <3>1, <3>3 DEF JoiningAt, Innermost
    <3> QED BY <3>2, <3>3
  <2> QED BY <2>1, <2>2 DEF JoinInv
<1>17. ScopeInv'
  <2>1. \A u \in Tasks : u \in io' \cup chanq' /\ pc'[u] # "deadline" =>
          (u \in io \cup chanq /\ pc[u] # "deadline") \/ scope[u] = None \/ stack[u] = <<>>
    BY <1>1, <1>2, <1>6
  <2> QED BY <1>1, <1>3, <1>11, <2>1, ScopeFrame
<1>18. QueueInv'
  <2>1. \A u \in Tasks : u \notin {t} => Stays(u)
    BY <1>1, <1>6, <1>8 DEF Stays
  <2>2. PlacedAt(t)'
    <3>1. waiter'[Innermost(t)'] = t
      BY <1>1, <1>4, <1>6 DEF Innermost
    <3> QED BY <1>1, <1>6, <1>8, <1>9, <3>1 DEF PlacedAt, RunPlaces, PollPlaces, Alive
  <2>3. {t} \in SUBSET Tasks /\ \A u \in {t} : PlacedAt(u)'
    BY <2>2
  <2>4. \A r \in Scopes : waiter'[r] = waiter[r] \/ waiter[r] \in {t} \cup {None}
    BY <1>6, <1>10
  <2> QED BY <1>1, <1>8, <2>1, <2>3, <2>4, QueueFrame
<1> QED BY <1>7, <1>13, <1>14, <1>15, <1>16, <1>17, <1>18 DEF SchedInv

(* A join closes the innermost scope of the running task, which has no live *)
(* tasks: what a close does, and that it frees no task that has not ended.  *)
LEMMA CloseFacts ==
  ASSUME SchedInv, NEW t \in Tasks, cur = t, stack[t] # <<>>, live[Innermost(t)] = 0,
         pc[t] \in {"body", "finish", "join"}, ScopeCloses(t)
  PROVE  \E s \in Scopes :
           /\ s = Innermost(t) /\ owner[s] = t /\ s \in Elems(stack[t]) /\ waiter[s] = None /\ Members(s) = {}
           /\ sstate' \in [Scopes -> {"unborn", "open", "freed"}] /\ sstate'[s] = "freed"
           /\ \A r \in Scopes : r # s => sstate'[r] = sstate[r] /\ owner'[r] = owner[r] /\ outer'[r] = outer[r]
           /\ owner' \in [Scopes -> Tasks \cup {None}] /\ outer' \in [Scopes -> SUBSET Scopes]
           /\ stack' \in [Tasks -> Seq(Scopes)] /\ Rising(stack'[t])
           /\ Elems(stack'[t]) = Elems(stack[t]) \ {s}
           /\ \A u \in Tasks : u # t => stack'[u] = stack[u]
           /\ waiter' = waiter /\ live' = live
           /\ reason' \in [Scopes -> {"none", "cancelled", "timed out"}]
           /\ pc' \in [Tasks -> Places] /\ pc'[t] = "body"
           /\ \A u \in Tasks : u # t => \/ pc'[u] = pc[u]
                                        \/ /\ pc[u] \in {"returned", "dropped", "freed"} /\ pc'[u] = "freed"
                                           /\ scope[u] = s
<1>1. PICK s \in Scopes : s = Innermost(t)
  BY InnermostScope
<1>2. owner[s] = t /\ s \in Elems(stack[t])
  BY <1>1, InnermostScope
<1>3. /\ sstate' = [sstate EXCEPT ![s] = "freed"]
      /\ stack' = [stack EXCEPT ![t] = SubSeq(@, 1, Len(@) - 1)]
      /\ pc' = [f \in Tasks |-> IF f = t THEN "body"
                                ELSE IF awaitable[f] /\ scope[f] = s THEN "freed" ELSE pc[f]]
      /\ live' = [live EXCEPT ![s] = 0]
      /\ waiter' = [waiter EXCEPT ![s] = None]
      /\ reason' = [reason EXCEPT ![s] = "none"]
      /\ owner' = [owner EXCEPT ![s] = None]
      /\ outer' = [outer EXCEPT ![s] = {}]
  BY <1>1 DEF ScopeCloses
<1>4. RunType /\ LinkType /\ ScopeType
  BY DEF SchedInv, SchedType
<1>5. waiter[s] = None /\ waiter' = waiter
  <2>1. JoinedAt(s)
    BY DEF SchedInv, JoinInv
  <2>2. waiter[s] = None
    BY <1>1, <1>4, <2>1 DEF JoinedAt
  <2> QED BY <1>3, <1>4, <2>2 DEF LinkType
<1>6. live' = live
  BY <1>1, <1>3, <1>4 DEF ScopeType
<1>7. /\ sstate' \in [Scopes -> {"unborn", "open", "freed"}] /\ sstate'[s] = "freed"
      /\ \A r \in Scopes : r # s => sstate'[r] = sstate[r] /\ owner'[r] = owner[r] /\ outer'[r] = outer[r]
  BY <1>3, <1>4 DEF ScopeType
<1>8. /\ owner' \in [Scopes -> Tasks \cup {None}] /\ outer' \in [Scopes -> SUBSET Scopes]
      /\ reason' \in [Scopes -> {"none", "cancelled", "timed out"}]
  BY <1>3, <1>4 DEF ScopeType
<1>9. stack[t] \in Seq(Scopes) /\ Rising(stack[t])
  <2>1. stack[t] \in Seq(Scopes) /\ StackedAt(t)
    BY <1>4 DEF SchedInv, ScopeInv, ScopeType
  <2> QED BY <2>1 DEF StackedAt, Rising
<1>10. /\ SubSeq(stack[t], 1, Len(stack[t]) - 1) \in Seq(Scopes) /\ Rising(SubSeq(stack[t], 1, Len(stack[t]) - 1))
       /\ Elems(SubSeq(stack[t], 1, Len(stack[t]) - 1)) = Elems(stack[t]) \ {s}
  BY <1>1, <1>9, PopStack DEF Innermost
<1>11. /\ stack'[t] = SubSeq(stack[t], 1, Len(stack[t]) - 1)
       /\ \A u \in Tasks : u # t => stack'[u] = stack[u]
  BY <1>3, <1>4 DEF ScopeType
<1>12. stack' \in [Tasks -> Seq(Scopes)]
  BY <1>3, <1>4, <1>10 DEF ScopeType
<1>13. pc' \in [Tasks -> Places] /\ pc'[t] = "body"
  BY <1>3, <1>4 DEF RunType, Places
<1>14. \A u \in Tasks : Alive(u) => scope[u] # s
  BY <1>1, NobodyElseNames
<1>15. Members(s) = {}
  BY <1>14 DEF Members
<1>16. ASSUME NEW u \in Tasks, u # t, pc'[u] # pc[u]
       PROVE  pc[u] \in {"returned", "dropped", "freed"} /\ pc'[u] = "freed" /\ scope[u] = s
  <2>1. scope[u] = s /\ pc'[u] = "freed"
    BY <1>3, <1>16
  <2>2. ~Alive(u) /\ pc[u] # "unborn"
    <3>1. s # None
      BY DEF Scopes
    <3>2. \A c \in Tasks : pc[c] = "unborn" => scope[c] = None
      BY DEF SchedInv, BirthInv
    <3> QED BY <1>14, <2>1, <3>1, <3>2
  <2> QED BY <2>1, <2>2 DEF Alive
<1>17. /\ Rising(stack'[t]) /\ Elems(stack'[t]) = Elems(stack[t]) \ {s}
       /\ \A u \in Tasks : u # t => stack'[u] = stack[u]
  BY <1>10, <1>11
<1> WITNESS s \in Scopes
<1> QED BY <1>1, <1>2, <1>5, <1>6, <1>7, <1>8, <1>12, <1>13, <1>15, <1>16, <1>17

(* Closing that scope.                                                      *)
LEMMA CloseStep ==
  ASSUME SchedInv, NEW t \in Tasks, cur = t, stack[t] # <<>>, live[Innermost(t)] = 0,
         pc[t] \in {"body", "finish", "join"}, ScopeCloses(t)
  PROVE  SchedInv'
<1>1. /\ cur' = cur /\ rq' = rq /\ io' = io /\ chanq' = chanq
      /\ UNCHANGED pollVars /\ UNCHANGED parkVars /\ batch' = batch
      /\ scope' = scope /\ awaiter' = awaiter /\ awaitable' = awaitable
      /\ captured' = captured /\ timed' = timed /\ holder' = holder
  BY DEF ScopeCloses, pollVars
<1>2. PICK s \in Scopes :
        /\ s = Innermost(t) /\ owner[s] = t /\ s \in Elems(stack[t]) /\ waiter[s] = None /\ Members(s) = {}
        /\ sstate' \in [Scopes -> {"unborn", "open", "freed"}] /\ sstate'[s] = "freed"
        /\ \A r \in Scopes : r # s => sstate'[r] = sstate[r] /\ owner'[r] = owner[r] /\ outer'[r] = outer[r]
        /\ owner' \in [Scopes -> Tasks \cup {None}] /\ outer' \in [Scopes -> SUBSET Scopes]
        /\ stack' \in [Tasks -> Seq(Scopes)] /\ Rising(stack'[t])
        /\ Elems(stack'[t]) = Elems(stack[t]) \ {s}
        /\ \A u \in Tasks : u # t => stack'[u] = stack[u]
        /\ waiter' = waiter /\ live' = live
        /\ reason' \in [Scopes -> {"none", "cancelled", "timed out"}]
        /\ pc' \in [Tasks -> Places] /\ pc'[t] = "body"
        /\ \A u \in Tasks : u # t => \/ pc'[u] = pc[u]
                                     \/ /\ pc[u] \in {"returned", "dropped", "freed"} /\ pc'[u] = "freed"
                                        /\ scope[u] = s
  BY CloseFacts
<1>3. RunType /\ PollType /\ LinkType /\ ScopeType /\ BirthInv /\ QueueInv /\ PollInv /\ AwaitInv
      /\ JoinInv /\ ScopeInv
  BY DEF SchedInv, SchedType
<1>4. /\ sstate[s] = "open" /\ \A u \in Tasks : Alive(u) => scope[u] # s
      /\ \A r \in Scopes : sstate[r] = "open" => s \notin outer[r]
  BY <1>2, InnermostScope, NobodyElseNames
<1>5. SchedType'
  <2>1. RunType' /\ LinkType' /\ ScopeType'
    BY <1>1, <1>2, <1>3 DEF RunType, LinkType, ScopeType
  <2>2. PollType'
    BY <1>1, <1>3 DEF PollType, pollVars, parkVars
  <2> QED BY <2>1, <2>2 DEF SchedType
<1>6. /\ NoDup(rq)' /\ (cur \notin Elems(rq))'
      /\ \A u \in Tasks : Ready(u)' <=> Ready(u)
  BY <1>1, CpuKeeps
<1>7. /\ Ready(t) /\ t \notin io /\ t \notin chanq /\ t # None /\ batch = {}
      /\ \A r \in Scopes : waiter[r] # t
  BY RunningTask
<1>8. \A u \in Tasks : (Alive(u)' <=> Alive(u)) /\ (pc'[u] = "unborn" <=> pc[u] = "unborn")
  BY <1>2 DEF Alive
<1>9. timed[t] = None
  BY <1>3 DEF AwaitInv, TimedAt
<1>10. BirthInv'
  <2>1. ASSUME NEW r \in Scopes, NEW q \in Scopes, sstate'[r] = "unborn", r < q PROVE sstate'[q] = "unborn"
    <3>1. r # s /\ sstate[r] = "unborn"
      BY <1>2, <2>1
    <3>2. sstate[q] = "unborn"
      BY <1>3, <2>1, <3>1 DEF BirthInv
    <3> QED BY <1>2, <1>4, <3>2
  <2>2. Alive(Main)'
    BY <1>3, <1>8 DEF BirthInv, Main, Tasks
  <2>3. \A u \in Tasks : pc[u] = "unborn" => stack'[u] = stack[u]
    BY <1>2
  <2>4. \A c, d \in Tasks : pc'[c] = "unborn" /\ c < d => pc'[d] = "unborn"
    BY <1>3, <1>8 DEF BirthInv
  <2>5. \A c \in Tasks : c # Main /\ pc'[c] # "unborn" => scope'[c] \in Scopes
    BY <1>1, <1>3, <1>8 DEF BirthInv
  <2>6. \A c \in Tasks : pc'[c] = "unborn" =>
          /\ timed'[c] = None /\ holder'[c] = None /\ awaiter'[c] = None
          /\ stack'[c] = <<>> /\ scope'[c] = None
    BY <1>1, <1>3, <1>8, <2>3 DEF BirthInv
  <2> QED BY <1>1, <1>3, <2>1, <2>2, <2>4, <2>5, <2>6 DEF BirthInv
<1>11. PollInv'
  BY <1>1, <1>2, <1>3, PollFrame DEF PollPlaces
<1>12. AwaitInv'
  <2>1. ASSUME NEW u \in Tasks, u # t, pc'[u] # pc[u] PROVE Gone(u)
    <3>0. u # None
      BY DEF Tasks
    <3>1. pc[u] \in {"returned", "dropped", "freed"} /\ pc'[u] = "freed" /\ scope[u] = s /\ u # None
      BY <1>2, <2>1, <3>0
    <3>2. awaiter[u] = None
      BY <1>3, <3>1 DEF AwaitInv, AwaitedAt, Alive
    <3>3. ASSUME NEW x \in Tasks, timed[x] = u PROVE FALSE
      <4>1. TimedAt(x)
        BY <1>3 DEF AwaitInv
      <4>2. stack[x] # <<>> /\ Innermost(x) = s
        BY <3>1, <3>3, <4>1 DEF TimedAt
      <4>3. owner[Innermost(x)] = x
        BY <4>2, InnermostScope
      <4>4. owner[s] = t
        BY <1>2
      <4> QED BY <1>9, <3>1, <3>3, <4>2, <4>3, <4>4
    <3> QED BY <3>1, <3>2, <3>3 DEF Gone
  <2>2. \A u \in Tasks : pc'[u] = pc[u] \/ {pc[u], pc'[u]} \subseteq OpenPlaces \/ Back(u) \/ Gone(u)
    BY <1>2, <2>1 DEF OpenPlaces
  <2>3. \A u \in Tasks : timed[u] # None => stack'[u] = stack[u] /\ (u \in io' => u \in io)
    BY <1>1, <1>2, <1>9
  <2>4. \A u \in Tasks : pc[u] = "await" /\ Ready(u)' => Ready(u)
    BY <1>6
  <2> QED BY <1>1, <1>3, <2>2, <2>3, <2>4, AwaitFrame
<1>13. JoinInv'
  <2>1. ASSUME NEW r \in Scopes PROVE JoinedAt(r)'
    <3> SUFFICES ASSUME waiter[r] # None PROVE JoinedAt(r)'
      BY <1>2 DEF JoinedAt
    <3>1. PICK w \in Tasks : w = waiter[r]
      BY <1>3 DEF LinkType
    <3>2. JoinedAt(r) /\ w # t /\ waiter'[r] = w
      BY <1>2, <1>3, <1>7, <3>1 DEF JoinInv
    <3>3. pc[w] = "join" /\ ~Ready(w) /\ Innermost(w) = r /\ live[r] > 0
      BY <3>1, <3>2 DEF JoinedAt
    <3>4. pc'[w] = "join" /\ ~Ready(w)' /\ Innermost(w)' = r /\ live'[r] > 0
      BY <1>2, <1>6, <3>2, <3>3 DEF Innermost
    <3> QED BY <3>2, <3>4 DEF JoinedAt, Ready, Innermost
  <2>2. ASSUME NEW u \in Tasks PROVE JoiningAt(u)'
    <3>1. JoiningAt(u)
      BY <1>3 DEF JoinInv
    <3>2. CASE u = t
      BY <1>2, <3>2 DEF JoiningAt
    <3>3. CASE u # t
      BY <1>2, <1>6, <3>1, <3>3 DEF JoiningAt, Innermost
    <3> QED BY <3>2, <3>3
  <2> QED BY <2>1, <2>2 DEF JoinInv
<1>14. ScopeInv'
  <2>1. ASSUME NEW u \in Tasks PROVE StackedAt(u)'
    <3>1. StackedAt(u) /\ PlacedAt(u) /\ stack[u] \in Seq(Scopes)
      BY <1>3 DEF ScopeInv, QueueInv, ScopeType
    <3>2. CASE u = t
      <4>1. \A i, j \in 1 .. Len(stack'[u]) : i < j => stack'[u][i] < stack'[u][j]
        BY <1>2, <3>2 DEF Rising
      <4>2. \A q \in Elems(stack[t]) : q \in Scopes
        BY <3>1, <3>2 DEF Elems
      <4>3. \A q \in Elems(stack'[u]) : sstate'[q] = "open" /\ owner'[q] = u
        <5>1. ASSUME NEW q \in Elems(stack[t]), q # s PROVE sstate'[q] = "open" /\ owner'[q] = u
          <6>1. q \in Scopes /\ sstate[q] = "open" /\ owner[q] = u
            BY <3>1, <3>2, <4>2, <5>1 DEF StackedAt
          <6> QED BY <1>2, <5>1, <6>1
        <5>2. Elems(stack'[u]) = Elems(stack[t]) \ {s}
          BY <1>2, <3>2
        <5> QED BY <5>1, <5>2
      <4>4. Alive(u)' /\ u \notin io' /\ u \notin chanq'
        BY <1>1, <1>2, <1>7, <3>2 DEF Alive
      <4> QED BY <4>1, <4>3, <4>4 DEF StackedAt
    <3>3. CASE u # t
      <4>1. stack'[u] = stack[u] /\ (Alive(u)' <=> Alive(u))
        BY <1>2, <1>8, <3>3
      <4>2. \A q \in Elems(stack[u]) : q \in Scopes
        BY <3>1 DEF Elems
      <4>3. \A q \in Elems(stack'[u]) : sstate'[q] = "open" /\ owner'[q] = u
        <5>1. ASSUME NEW q \in Elems(stack[u]) PROVE sstate'[q] = "open" /\ owner'[q] = u
          <6>1. q \in Scopes /\ sstate[q] = "open" /\ owner[q] = u
            BY <3>1, <4>2, <5>1 DEF StackedAt
          <6>2. q # s
            BY <1>2, <3>3, <6>1
          <6> QED BY <1>2, <6>1, <6>2
        <5> QED BY <4>1, <5>1
      <4>4. u \in io' \cup chanq' => pc'[u] = pc[u]
        BY <1>1, <1>2, <3>1, <3>3 DEF PlacedAt, PollPlaces
      <4> QED BY <1>1, <3>1, <4>1, <4>3, <4>4 DEF StackedAt
    <3> QED BY <3>2, <3>3
  <2>2. ASSUME NEW u \in Tasks, Alive(u) PROVE InsideAt(u)'
    <3>1. InsideAt(u) /\ scope[u] # s /\ (scope[u] # None => scope[u] \in Scopes)
      BY <1>3, <1>4, <2>2 DEF ScopeInv, ScopeType
    <3>2. Elems(stack'[u]) \subseteq Elems(stack[u])
      BY <1>2
    <3>3. scope[u] # None => sstate'[scope[u]] = sstate[scope[u]] /\ owner'[scope[u]] = owner[scope[u]]
                             /\ outer'[scope[u]] = outer[scope[u]]
      BY <1>2, <3>1
    <3> QED BY <1>1, <2>2, <3>1, <3>2, <3>3 DEF InsideAt
  <2>3. ASSUME NEW u \in Tasks PROVE InsideAt(u)'
    BY <1>8, <2>2 DEF InsideAt
  <2>4. ASSUME NEW r \in Scopes, r # s, sstate[r] = "open" PROVE OpenAt(r)'
    <3>1. OpenAt(r) /\ s \notin outer[r] /\ outer[r] \subseteq Scopes
      BY <1>3, <1>4, <2>4 DEF ScopeInv, ScopeType
    <3>2. PICK w \in Tasks : w = owner[r]
      BY <2>4, <3>1 DEF OpenAt
    <3>3. Alive(w) /\ r \in Elems(stack[w]) /\ outer[r] \subseteq Usable(w)
      BY <2>4, <3>1, <3>2 DEF OpenAt
    <3>4. Alive(w)' /\ r \in Elems(stack'[w]) /\ Usable(w) \ {s} \subseteq Usable(w)'
      BY <1>1, <1>2, <1>8, <2>4, <3>3 DEF Usable
    <3>5. owner'[r] = w /\ outer'[r] = outer[r] /\ outer[r] \subseteq Usable(w)'
      BY <1>2, <2>4, <3>1, <3>2, <3>3, <3>4
    <3>6. \A q \in outer[r] : q < r /\ sstate'[q] = "open"
      BY <1>2, <2>4, <3>1 DEF OpenAt
    <3> QED BY <3>4, <3>5, <3>6 DEF OpenAt, Usable, Alive
  <2>5. ASSUME NEW r \in Scopes PROVE OpenAt(r)'
    <3>1. sstate'[r] = "open" => r # s /\ sstate[r] = "open"
      BY <1>2
    <3> QED BY <2>4, <3>1 DEF OpenAt
  <2>6. ASSUME NEW r \in Scopes PROVE live'[r] = Cardinality(Members(r)')
    <3>1. Members(r)' = Members(r)
      BY <1>1, <1>8 DEF Members
    <3>2. live[r] = Cardinality(Members(r))
      BY <1>3 DEF ScopeInv
    <3>3. live' = live
      BY <1>2
    <3> QED BY <3>1, <3>2, <3>3
  <2> QED BY <2>1, <2>3, <2>5, <2>6 DEF ScopeInv
<1>15. QueueInv'
  <2> DEFINE M == {u \in Tasks : u = t \/ pc'[u] # pc[u]}
  <2>1. \A u \in Tasks : u \notin M => Stays(u)
    BY <1>1, <1>6 DEF Stays
  <2>2. ASSUME NEW u \in M PROVE PlacedAt(u)'
    <3>1. CASE u = t
      BY <1>1, <1>2, <1>6, <1>7, <3>1 DEF PlacedAt, RunPlaces, PollPlaces, Alive
    <3>2. CASE u # t
      <4>1. pc[u] \in {"returned", "dropped", "freed"} /\ pc'[u] = "freed" /\ PlacedAt(u) /\ u \in Tasks
        BY <1>2, <1>3, <3>2 DEF QueueInv
      <4>2. ~Ready(u)' /\ u \notin io' /\ u \notin chanq'
        BY <1>1, <1>6, <4>1 DEF PlacedAt, PollPlaces, Alive
      <4> QED BY <4>1, <4>2 DEF PlacedAt, RunPlaces, PollPlaces
    <3> QED BY <3>1, <3>2
  <2>3. M \in SUBSET Tasks /\ (cur' # None => batch' = {}) /\ \A u \in Tasks : u \notin M /\ pc[u] = "join" => stack'[u] = stack[u]
    BY <1>1, <1>2, <1>7
  <2> HIDE DEF M
  <2> QED BY <1>1, <1>2, <1>6, <2>1, <2>2, <2>3, QueueFrame
<1> QED BY <1>5, <1>10, <1>11, <1>12, <1>13, <1>14, <1>15 DEF SchedInv

(* A join that need not wait, and one that was woken.                       *)
LEMMA JoinStep ==
  ASSUME SchedInv, NEW t \in Tasks, JoinAtOnce(t) \/ JoinReturns(t)
  PROVE  SchedInv'
<1>1. CASE JoinAtOnce(t)
  <2>1. cur = t /\ pc[t] \in {"body", "finish"} /\ stack[t] # <<>> /\ ~(live[Innermost(t)] > 0) /\ ScopeCloses(t)
    BY <1>1 DEF JoinAtOnce, Resumed, MustWait
  <2>2. PICK s \in Scopes : s = Innermost(t)
    BY <2>1, InnermostScope
  <2>3. IsFiniteSet(Tasks) /\ Members(s) \subseteq Tasks
    BY FS_Interval DEF Tasks, Members
  <2>4. live[s] \in Nat
    BY <2>3, FS_Subset, FS_CardinalityType DEF SchedInv, ScopeInv
  <2> QED BY <2>1, <2>2, <2>4, CloseStep
<1>2. CASE JoinReturns(t)
  <2>1. cur = t /\ pc[t] = "join" /\ ScopeCloses(t)
    BY <1>2 DEF JoinReturns, Resumed
  <2>2. stack[t] # <<>> /\ live[Innermost(t)] = 0
    BY <2>1, RunningTask, Joiners
  <2> QED BY <2>1, <2>2, CloseStep
<1> QED BY <1>1, <1>2

-----------------------------------------------------------------------------
(* Opening scopes and creating tasks.                                       *)

(* The scopes that a task can use are open.                                 *)
LEMMA UsableOpen ==
  ASSUME SchedInv, NEW t \in Tasks, Alive(t)
  PROVE  \A r \in Usable(t) : r \in Scopes /\ sstate[r] = "open"
<1>1. StackedAt(t) /\ InsideAt(t) /\ stack[t] \in Seq(Scopes) /\ captured[t] \subseteq Scopes
  BY DEF SchedInv, ScopeInv, SchedType, ScopeType
<1>2. \A r \in Elems(stack[t]) : r \in Scopes /\ sstate[r] = "open"
  BY <1>1 DEF StackedAt, Elems
<1>3. ASSUME NEW r \in captured[t] PROVE r \in Scopes /\ sstate[r] = "open"
  <2>1. scope[t] # None /\ sstate[scope[t]] = "open" /\ r \in {scope[t]} \cup outer[scope[t]]
    BY <1>1 DEF InsideAt
  <2>2. scope[t] \in Scopes
    BY <2>1 DEF SchedInv, SchedType, ScopeType
  <2>3. OpenAt(scope[t])
    BY <2>2 DEF SchedInv, ScopeInv
  <2> QED BY <1>1, <2>1, <2>3 DEF OpenAt
<1> QED BY <1>2, <1>3 DEF Usable

(* A fresh scope record is younger than all others, and nothing refers to   *)
(* it; what opening it does.                                                *)
LEMMA OpenFacts ==
  ASSUME SchedInv, NEW t \in Tasks, cur = t, NEW s \in Scopes, FreshScope(s), Opened(t, s)
  PROVE  /\ sstate[s] = "unborn" /\ \A r \in Scopes : sstate[r] # "unborn" => r < s
         /\ sstate' \in [Scopes -> {"unborn", "open", "freed"}] /\ sstate'[s] = "open"
         /\ owner' \in [Scopes -> Tasks \cup {None}] /\ owner'[s] = t
         /\ outer' \in [Scopes -> SUBSET Scopes] /\ outer'[s] = Usable(t)
         /\ \A r \in Scopes : r # s => sstate'[r] = sstate[r] /\ owner'[r] = owner[r] /\ outer'[r] = outer[r]
         /\ \A r \in Usable(t) : r \in Scopes /\ sstate[r] = "open" /\ r < s
         /\ stack' \in [Tasks -> Seq(Scopes)] /\ stack'[t] # <<>> /\ Rising(stack'[t])
         /\ Elems(stack'[t]) = Elems(stack[t]) \cup {s} /\ Innermost(t)' = s
         /\ \A u \in Tasks : u # t => stack'[u] = stack[u]
         /\ \A u \in Tasks : Alive(u) => scope[u] # s
         /\ waiter[s] = None
<1>1. /\ sstate' = [sstate EXCEPT ![s] = "open"] /\ owner' = [owner EXCEPT ![s] = t]
      /\ outer' = [outer EXCEPT ![s] = Usable(t)] /\ stack' = [stack EXCEPT ![t] = Append(@, s)]
  BY DEF Opened
<1>2. ScopeType /\ LinkType /\ ScopeInv /\ BirthInv /\ JoinInv
  BY DEF SchedInv, SchedType
<1>3. sstate[s] = "unborn"
  BY DEF FreshScope
<1>4. ASSUME NEW r \in Scopes, sstate[r] # "unborn" PROVE r < s
  <2>1. r \in Int /\ s \in Int /\ ~(s < r) /\ r # s
    BY <1>2, <1>3, <1>4 DEF BirthInv, Scopes
  <2> QED BY <2>1
<1>5. Alive(t)
  BY RunningTask
<1>6. \A r \in Usable(t) : r \in Scopes /\ sstate[r] = "open" /\ r < s
  BY <1>4, <1>5, UsableOpen
<1>7. /\ sstate' \in [Scopes -> {"unborn", "open", "freed"}] /\ sstate'[s] = "open"
      /\ owner' \in [Scopes -> Tasks \cup {None}] /\ owner'[s] = t
      /\ \A r \in Scopes : r # s => sstate'[r] = sstate[r] /\ owner'[r] = owner[r]
  BY <1>1, <1>2 DEF ScopeType
<1>8. /\ outer' \in [Scopes -> SUBSET Scopes] /\ outer'[s] = Usable(t)
      /\ \A r \in Scopes : r # s => outer'[r] = outer[r]
  BY <1>1, <1>2, <1>6 DEF ScopeType
<1>9. stack[t] \in Seq(Scopes) /\ Rising(stack[t]) /\ \A r \in Elems(stack[t]) : r < s
  BY <1>2, <1>6 DEF ScopeType, ScopeInv, StackedAt, Rising, Usable
<1>10. /\ Append(stack[t], s) \in Seq(Scopes) /\ Append(stack[t], s) # <<>> /\ Rising(Append(stack[t], s))
       /\ Elems(Append(stack[t], s)) = Elems(stack[t]) \cup {s}
       /\ Append(stack[t], s)[Len(Append(stack[t], s))] = s
  BY <1>9, PushStack
<1>11. stack'[t] = Append(stack[t], s) /\ \A u \in Tasks : u # t => stack'[u] = stack[u]
  BY <1>1, <1>2 DEF ScopeType
<1>12. stack' \in [Tasks -> Seq(Scopes)]
  BY <1>1, <1>2, <1>10 DEF ScopeType
<1>13. Innermost(t)' = s
  BY <1>10, <1>11 DEF Innermost
<1>14. \A u \in Tasks : Alive(u) => scope[u] # s
  <2>1. s # None
    BY DEF Scopes
  <2> QED BY <1>2, <1>3, <2>1 DEF ScopeInv, InsideAt
<1>15. waiter[s] = None
  <2> SUFFICES ASSUME waiter[s] # None PROVE FALSE
    OBVIOUS
  <2>1. PICK w \in Tasks : w = waiter[s]
    BY <1>2 DEF LinkType
  <2>2. pc[w] = "join" /\ Innermost(w) = s
    BY <1>2, <2>1 DEF JoinInv, JoinedAt
  <2>3. sstate[Innermost(w)] = "open"
    BY <2>2, Joiners
  <2> QED BY <1>3, <2>2, <2>3
<1> QED BY <1>3, <1>4, <1>6, <1>7, <1>8, <1>10, <1>11, <1>12, <1>13, <1>14, <1>15

(* What opening a scope keeps of the scopes and of the tasks already there. *)
LEMMA ScopesOpened ==
  ASSUME SchedInv, NEW t \in Tasks, cur = t, NEW s \in Scopes, FreshScope(s), Opened(t, s),
         \A u \in Tasks : Alive(u) => Alive(u)' /\ captured'[u] = captured[u] /\ scope'[u] = scope[u],
         \A u \in Tasks : u \in io' \cup chanq' /\ pc'[u] # "deadline" =>
           u \in io \cup chanq /\ pc[u] # "deadline" /\ u # t
  PROVE  /\ \A u \in Tasks : StackedAt(u)'
         /\ \A r \in Scopes : OpenAt(r)'
         /\ \A u \in Tasks : Alive(u) => InsideAt(u)'
<1>1. /\ sstate[s] = "unborn" /\ \A r \in Scopes : sstate[r] # "unborn" => r < s
      /\ sstate'[s] = "open" /\ owner'[s] = t /\ outer'[s] = Usable(t)
      /\ \A r \in Scopes : r # s => sstate'[r] = sstate[r] /\ owner'[r] = owner[r] /\ outer'[r] = outer[r]
      /\ \A r \in Usable(t) : r \in Scopes /\ sstate[r] = "open" /\ r < s
      /\ Rising(stack'[t])
      /\ Elems(stack'[t]) = Elems(stack[t]) \cup {s}
      /\ \A u \in Tasks : u # t => stack'[u] = stack[u]
      /\ \A u \in Tasks : Alive(u) => scope[u] # s
  BY OpenFacts
<1>2. Alive(t) /\ ScopeType /\ ScopeInv
  BY RunningTask DEF SchedInv, SchedType
<1>3. ASSUME NEW u \in Tasks PROVE StackedAt(u)'
  <2>1. StackedAt(u) /\ stack[u] \in Seq(Scopes)
    BY <1>2 DEF ScopeInv, ScopeType
  <2>2. \A q \in Elems(stack[u]) : q \in Scopes /\ q # s /\ sstate'[q] = "open" /\ owner'[q] = u
    <3>1. \A q \in Elems(stack[u]) : q \in Scopes
      BY <2>1 DEF Elems
    <3> QED BY <1>1, <2>1, <3>1 DEF StackedAt
  <2>3. CASE u = t
    <3>1. \A i, j \in 1 .. Len(stack'[u]) : i < j => stack'[u][i] < stack'[u][j]
      BY <1>1, <2>3 DEF Rising
    <3>2. \A q \in Elems(stack'[u]) : sstate'[q] = "open" /\ owner'[q] = u
      BY <1>1, <2>2, <2>3
    <3>3. Alive(u)' /\ ~(u \in io' \cup chanq' /\ pc'[u] # "deadline")
      BY <1>2, <2>3
    <3> QED BY <3>1, <3>2, <3>3 DEF StackedAt
  <2>4. CASE u # t
    <3>1. stack'[u] = stack[u] /\ (~Alive(u)' => ~Alive(u))
      BY <1>1, <2>4
    <3>2. u \in io' \cup chanq' /\ scope'[u] # None /\ pc'[u] # "deadline" => stack[u] = <<>>
      <4> SUFFICES ASSUME u \in io' \cup chanq', scope'[u] # None, pc'[u] # "deadline" PROVE stack[u] = <<>>
        OBVIOUS
      <4>1. u \in io \cup chanq /\ pc[u] # "deadline"
        OBVIOUS
      <4>2. Alive(u)
        BY <4>1 DEF SchedInv, QueueInv, PlacedAt, PollPlaces, Alive
      <4> QED BY <2>1, <4>1, <4>2 DEF StackedAt
    <3> QED BY <2>1, <2>2, <3>1, <3>2 DEF StackedAt
  <2> QED BY <2>3, <2>4
<1>4. ASSUME NEW r \in Scopes PROVE OpenAt(r)'
  <2>1. CASE r = s
    <3>1. Alive(t)' /\ s \in Elems(stack'[t]) /\ Usable(t) \subseteq Usable(t)'
      BY <1>1, <1>2 DEF Usable
    <3>2. \A q \in Usable(t) : q < s /\ sstate'[q] = "open"
      <4>1. \A q \in Usable(t) : q # s
        BY <1>1
      <4> QED BY <1>1, <4>1
    <3> QED BY <1>1, <2>1, <3>1, <3>2 DEF OpenAt, Usable, Alive
  <2>2. CASE r # s
    <3> SUFFICES ASSUME sstate[r] = "open" PROVE OpenAt(r)'
      BY <1>1, <2>2 DEF OpenAt
    <3>1. OpenAt(r) /\ outer[r] \subseteq Scopes
      BY <1>2 DEF ScopeInv, ScopeType
    <3>2. PICK w \in Tasks : w = owner[r]
      BY <3>1 DEF OpenAt
    <3>3. Alive(w) /\ r \in Elems(stack[w]) /\ outer[r] \subseteq Usable(w)
      BY <3>1, <3>2 DEF OpenAt
    <3>4. Alive(w)' /\ r \in Elems(stack'[w]) /\ Usable(w) \subseteq Usable(w)'
      BY <1>1, <3>3 DEF Usable
    <3>5. owner'[r] = w /\ outer'[r] = outer[r] /\ outer[r] \subseteq Usable(w)'
      BY <1>1, <2>2, <3>2, <3>3, <3>4
    <3>6. \A q \in outer[r] : q < r /\ sstate'[q] = "open"
      BY <1>1, <3>1 DEF OpenAt
    <3> QED BY <3>4, <3>5, <3>6 DEF OpenAt, Usable, Alive
  <2> QED BY <2>1, <2>2
<1>5. ASSUME NEW u \in Tasks, Alive(u) PROVE InsideAt(u)'
  <2>1. InsideAt(u) /\ scope[u] # s /\ (scope[u] # None => scope[u] \in Scopes)
    <3>1. scope[u] # s
      BY <1>1, <1>5
    <3> QED BY <1>2, <3>1 DEF ScopeInv, ScopeType
  <2>2. Alive(u)' /\ captured'[u] = captured[u] /\ scope'[u] = scope[u]
    BY <1>5
  <2>3. scope[u] # None => sstate'[scope[u]] = sstate[scope[u]] /\ owner'[scope[u]] = owner[scope[u]]
                           /\ outer'[scope[u]] = outer[scope[u]]
    BY <1>1, <2>1
  <2>4. scope[u] # None => \A q \in Elems(stack'[u]) : scope[u] < q
    <3> SUFFICES ASSUME scope[u] # None, NEW q \in Elems(stack'[u]) PROVE scope[u] < q
      OBVIOUS
    <3>1. scope[u] \in Scopes /\ sstate[scope[u]] = "open" /\ \A p \in Elems(stack[u]) : scope[u] < p
      BY <1>5, <2>1 DEF InsideAt
    <3>2. q \in Elems(stack[u]) \/ q = s
      BY <1>1
    <3> QED BY <1>1, <3>1, <3>2
  <2> QED BY <1>5, <2>1, <2>2, <2>3, <2>4 DEF InsideAt
<1> QED BY <1>3, <1>4, <1>5

(* with_scope opens a scope.                                                *)
LEMMA ScopeOpenStep ==
  ASSUME SchedInv, NEW t \in Tasks, NEW s \in Scopes, ScopeOpen(t, s)
  PROVE  SchedInv'
<1>1. /\ cur' = cur /\ rq' = rq /\ io' = io /\ chanq' = chanq /\ pc' = pc
      /\ UNCHANGED pollVars /\ UNCHANGED parkVars /\ batch' = batch
      /\ scope' = scope /\ awaiter' = awaiter /\ awaitable' = awaitable
      /\ captured' = captured /\ timed' = timed /\ holder' = holder
      /\ live' = live /\ waiter' = waiter /\ reason' = reason
  BY DEF ScopeOpen, pollVars
<1>2. cur = t /\ pc[t] = "body" /\ FreshScope(s) /\ Opened(t, s)
  BY DEF ScopeOpen, Running
<1>3. /\ sstate[s] = "unborn" /\ \A r \in Scopes : sstate[r] # "unborn" => r < s
      /\ sstate' \in [Scopes -> {"unborn", "open", "freed"}] /\ sstate'[s] = "open"
      /\ owner' \in [Scopes -> Tasks \cup {None}] /\ outer' \in [Scopes -> SUBSET Scopes]
      /\ \A r \in Scopes : r # s => sstate'[r] = sstate[r]
      /\ stack' \in [Tasks -> Seq(Scopes)]
      /\ \A u \in Tasks : u # t => stack'[u] = stack[u]
  BY <1>2, OpenFacts
<1>4. RunType /\ PollType /\ LinkType /\ ScopeType /\ BirthInv /\ QueueInv /\ PollInv /\ AwaitInv
      /\ JoinInv /\ ScopeInv
  BY DEF SchedInv, SchedType
<1>5. SchedType'
  <2>1. RunType' /\ LinkType' /\ ScopeType'
    BY <1>1, <1>3, <1>4 DEF RunType, LinkType, ScopeType
  <2>2. PollType'
    BY <1>1, <1>4 DEF PollType, pollVars, parkVars
  <2> QED BY <2>1, <2>2 DEF SchedType
<1>6. /\ NoDup(rq)' /\ (cur \notin Elems(rq))' /\ (cur' # None => batch' = {})
      /\ \A u \in Tasks : Ready(u)' <=> Ready(u)
  BY <1>1, <1>2, CpuKeeps, RunningTask
<1>7. \A u \in Tasks : Stays(u) /\ (Alive(u)' <=> Alive(u))
  BY <1>1, <1>6 DEF Stays, Alive
<1>8. timed[t] = None /\ t \notin io /\ t \notin chanq
  BY <1>2, <1>4, RunningTask DEF AwaitInv, TimedAt
<1>9. BirthInv'
  <2>1. ASSUME NEW r \in Scopes, NEW q \in Scopes, sstate'[r] = "unborn", r < q PROVE sstate'[q] = "unborn"
    <3>1. r # s /\ sstate[r] = "unborn"
      BY <1>3, <2>1
    <3>2. sstate[q] = "unborn" /\ q # s
      BY <1>2, <1>4, <2>1, <3>1 DEF BirthInv, FreshScope, Scopes
    <3> QED BY <1>3, <3>2
  <2>2. Alive(Main)'
    BY <1>4, <1>7 DEF BirthInv, Main, Tasks
  <2>3. \A u \in Tasks : pc[u] = "unborn" => stack'[u] = stack[u]
    BY <1>2, <1>3
  <2>4. \A c, d \in Tasks : pc'[c] = "unborn" /\ c < d => pc'[d] = "unborn"
    BY <1>1, <1>4 DEF BirthInv
  <2>5. \A c \in Tasks : c # Main /\ pc'[c] # "unborn" => scope'[c] \in Scopes
    BY <1>1, <1>4 DEF BirthInv
  <2>6. \A c \in Tasks : pc'[c] = "unborn" =>
          /\ timed'[c] = None /\ holder'[c] = None /\ awaiter'[c] = None
          /\ stack'[c] = <<>> /\ scope'[c] = None
    BY <1>1, <1>4, <2>3 DEF BirthInv
  <2> QED BY <1>1, <1>4, <2>1, <2>2, <2>4, <2>5, <2>6 DEF BirthInv
<1>10. PollInv'
  BY <1>1, <1>4, PollFrame
<1>11. AwaitInv'
  <2>1. \A u \in Tasks : timed[u] # None => stack'[u] = stack[u] /\ (u \in io' => u \in io)
    BY <1>1, <1>3, <1>8
  <2> QED BY <1>1, <1>4, <1>6, <2>1, AwaitFrame
<1>12. \A u \in Tasks : pc[u] = "join" => stack'[u] = stack[u] /\ (Ready(u)' <=> Ready(u))
  BY <1>2, <1>3, <1>6
<1>13. JoinInv'
  BY <1>1, <1>4, <1>12, JoinFrame, Joiners
<1>14. ScopeInv'
  <2>1. \A u \in Tasks : u \in io' \cup chanq' /\ pc'[u] # "deadline" =>
          u \in io \cup chanq /\ pc[u] # "deadline" /\ u # t
    BY <1>1, <1>8
  <2>2. \A u \in Tasks : Alive(u) => Alive(u)' /\ captured'[u] = captured[u] /\ scope'[u] = scope[u]
    BY <1>1, <1>7
  <2>3. /\ \A u \in Tasks : StackedAt(u)'
        /\ \A r \in Scopes : OpenAt(r)'
        /\ \A u \in Tasks : Alive(u) => InsideAt(u)'
    BY <1>2, <2>1, <2>2, ScopesOpened
  <2>4. \A u \in Tasks : InsideAt(u)'
    BY <1>7, <2>3 DEF InsideAt
  <2>5. ASSUME NEW r \in Scopes PROVE live'[r] = Cardinality(Members(r)')
    <3>1. Members(r)' = Members(r)
      BY <1>1, <1>7 DEF Members
    <3> QED BY <1>1, <1>4, <3>1 DEF ScopeInv
  <2> QED BY <2>3, <2>4, <2>5 DEF ScopeInv
<1>15. QueueInv'
  <2>1. {} \in SUBSET Tasks /\ \A u \in {} : PlacedAt(u)'
    OBVIOUS
  <2> QED BY <1>1, <1>6, <1>7, <1>12, <2>1, QueueFrame
<1> QED BY <1>5, <1>9, <1>10, <1>11, <1>13, <1>14, <1>15 DEF SchedInv

(* A fresh task record is younger than all others, and nothing refers to it.*)
LEMMA FreshFacts ==
  ASSUME SchedInv, NEW c \in Tasks, FreshTask(c)
  PROVE  /\ pc[c] = "unborn" /\ c # Main /\ \A u \in Tasks : pc[u] # "unborn" => u < c
         /\ ~Alive(c) /\ ~Ready(c) /\ c \notin io /\ c \notin chanq
         /\ timed[c] = None /\ holder[c] = None /\ awaiter[c] = None /\ stack[c] = <<>>
<1>1. pc[c] = "unborn"
  BY DEF FreshTask
<1>2. BirthInv /\ PlacedAt(c)
  BY DEF SchedInv, QueueInv
<1>3. c # Main
  BY <1>1, <1>2 DEF BirthInv, Alive
<1>4. ASSUME NEW u \in Tasks, pc[u] # "unborn" PROVE u < c
  <2>1. u \in Int /\ c \in Int /\ ~(c < u) /\ u # c
    BY <1>1, <1>2, <1>4 DEF BirthInv, Tasks
  <2> QED BY <2>1
<1>5. ~Alive(c) /\ ~Ready(c) /\ c \notin io /\ c \notin chanq
  BY <1>1, <1>2 DEF PlacedAt, Alive, PollPlaces
<1>6. timed[c] = None /\ holder[c] = None /\ awaiter[c] = None /\ stack[c] = <<>>
  BY <1>1, <1>2 DEF BirthInv
<1> QED BY <1>1, <1>3, <1>4, <1>5, <1>6

(* Births, when the record c is given out.                                  *)
LEMMA BirthGrows ==
  ASSUME BirthInv, NEW c \in Tasks, FreshTask(c), c # Main, pc'[c] # "unborn", scope'[c] \in Scopes, Alive(Main)',
         \A u \in Tasks : u # c => (pc'[u] = "unborn" <=> pc[u] = "unborn") /\ scope'[u] = scope[u],
         \A u \in Tasks : u # c /\ pc[u] = "unborn" =>
           /\ timed'[u] = timed[u] /\ holder'[u] = holder[u]
           /\ awaiter'[u] = awaiter[u] /\ stack'[u] = stack[u],
         \A r, q \in Scopes : sstate'[r] = "unborn" /\ r < q => sstate'[q] = "unborn"
  PROVE  BirthInv'
<1>1. ASSUME NEW x \in Tasks, NEW y \in Tasks, pc'[x] = "unborn", x < y PROVE pc'[y] = "unborn"
  <2>1. x # c /\ pc[x] = "unborn"
    BY <1>1
  <2>2. pc[y] = "unborn" /\ y # c
    BY <1>1, <2>1 DEF BirthInv, FreshTask, Tasks
  <2> QED BY <2>2
<1>2. \A u \in Tasks : u # Main /\ pc'[u] # "unborn" => scope'[u] \in Scopes
  BY DEF BirthInv
<1>3. \A u \in Tasks : pc'[u] = "unborn" =>
        /\ timed'[u] = None /\ holder'[u] = None /\ awaiter'[u] = None
        /\ stack'[u] = <<>> /\ scope'[u] = None
  BY DEF BirthInv
<1>4. scope'[Main] = None
  BY DEF BirthInv, Main, Tasks
<1> QED BY <1>1, <1>2, <1>3, <1>4 DEF BirthInv

(* Awaits and deadlines, when the running task t creates the task c and     *)
(* perhaps begins a deadline on it.                                         *)
LEMMA AwaitGrows ==
  ASSUME AwaitInv, LinkType, LinkType', NEW t \in Tasks, NEW c \in Tasks, pc[t] = "body", pc[c] = "unborn",
         pc'[c] = "body", Alive(t)', timed[c] = None, awaiter[c] = None, awaiter'[c] \in {None, t},
         \A u \in Tasks : u # c => /\ awaiter'[u] = awaiter[u] /\ holder'[u] = holder[u]
                                   /\ awaitable'[u] = awaitable[u] /\ scope'[u] = scope[u],
         \A u \in Tasks : u # t => timed'[u] = timed[u] /\ stack'[u] = stack[u],
         \A u \in Tasks : u \notin {t, c} => pc'[u] = pc[u] /\ (u \in io' => u \in io),
         \A u \in Tasks : pc[u] = "await" /\ Ready(u)' => Ready(u),
         AwaitedAt(c)', TimedAt(t)', HeldAt(c)'
  PROVE  AwaitInv'
<1>0. t # c /\ t # None /\ c # None
  BY DEF Tasks
<1>1. \A f \in Tasks : awaiter[f] # c /\ awaiter[f] # t
  BY <1>0 DEF AwaitInv, AwaitedAt
<1>2. \A x \in Tasks : timed[x] # c
  <2> SUFFICES ASSUME NEW x \in Tasks, timed[x] = c PROVE FALSE
    OBVIOUS
  <2>1. TimedAt(x)
    BY DEF AwaitInv
  <2> QED BY <1>0, <2>1 DEF TimedAt, Alive
<1>3. ASSUME NEW f \in Tasks, f # c PROVE AwaitedAt(f)'
  <2> SUFFICES ASSUME awaiter[f] # None PROVE AwaitedAt(f)'
    BY <1>3 DEF AwaitedAt
  <2>1. PICK w \in Tasks : w = awaiter[f]
    BY DEF LinkType
  <2>2. AwaitedAt(f) /\ w # c /\ w # t /\ awaiter'[f] = w
    BY <1>1, <1>3, <2>1 DEF AwaitInv
  <2>3. /\ Alive(f) /\ pc[w] \in {"await", "deadline"}
        /\ pc[w] = "await" => ~Ready(w)
        /\ pc[w] = "deadline" => timed[w] = f
    BY <2>1, <2>2 DEF AwaitedAt
  <2>4. pc'[w] = pc[w] /\ timed'[w] = timed[w] /\ (pc[w] = "await" => ~Ready(w)')
    BY <2>2, <2>3
  <2>5. Alive(f)'
    BY <1>3, <2>3 DEF Alive
  <2> QED BY <2>2, <2>3, <2>4, <2>5 DEF AwaitedAt, Ready
<1>4. ASSUME NEW x \in Tasks, x # t PROVE TimedAt(x)'
  <2>1. TimedAt(x) /\ timed'[x] = timed[x]
    BY <1>4 DEF AwaitInv
  <2>2. CASE x = c
    BY <2>1, <2>2 DEF TimedAt
  <2>3. CASE x # c /\ timed[x] = None
    BY <1>4, <2>1, <2>3 DEF TimedAt
  <2>4. CASE x # c /\ timed[x] # None
    <3>1. PICK b \in Tasks : b = timed[x]
      BY <2>4 DEF LinkType
    <3>2. b # c /\ pc'[x] = pc[x] /\ stack'[x] = stack[x] /\ (x \in io' => x \in io)
      BY <1>2, <1>4, <2>4, <3>1
    <3>3. /\ pc[x] \in {"deadline", "reclassify"}
          /\ Alive(b) \/ pc[b] = "returned"
          /\ awaitable[b] /\ holder[b] = None /\ awaiter[b] \in {None, x}
          /\ stack[x] # <<>> /\ scope[b] = Innermost(x)
          /\ x \in io => awaiter[b] = x
          /\ pc[x] = "reclassify" => awaiter[b] = None
      BY <2>1, <2>4, <3>1 DEF TimedAt
    <3>4. Alive(b)' \/ pc'[b] = "returned"
      BY <3>2, <3>3 DEF Alive
    <3>5. awaitable'[b] = awaitable[b] /\ holder'[b] = holder[b] /\ awaiter'[b] = awaiter[b] /\ scope'[b] = scope[b]
          /\ Innermost(x)' = Innermost(x)
      BY <3>2 DEF Innermost
    <3>6. timed'[x] = b /\ b # None
      BY <2>1, <2>4, <3>1
    <3> QED BY <3>2, <3>3, <3>4, <3>5, <3>6 DEF TimedAt, Alive, Innermost
  <2> QED BY <2>2, <2>3, <2>4
<1>5. ASSUME NEW f \in Tasks, f # c PROVE HeldAt(f)'
  <2>1. HeldAt(f) /\ (pc'[f] = "unborn" => pc[f] = "unborn")
    BY <1>5 DEF AwaitInv, Alive
  <2> QED BY <1>5, <2>1 DEF HeldAt
<1>6. ASSUME NEW f \in Tasks, NEW g \in Tasks, awaiter'[f] # None, awaiter'[f] = awaiter'[g] PROVE f = g
  BY <1>1, <1>6 DEF AwaitInv
<1> QED BY <1>3, <1>4, <1>5, <1>6 DEF AwaitInv

(* The live count of a scope counts the task created in it.                 *)
LEMMA LiveGrows ==
  ASSUME ScopeInv, NEW s \in Scopes, NEW c \in Tasks, ~Alive(c),
         \A u \in Tasks : Alive(u)' <=> Alive(u) \/ u = c,
         \A u \in Tasks : u # c => scope'[u] = scope[u],
         scope'[c] = s, live'[s] = live[s] + 1, \A r \in Scopes : r # s => live'[r] = live[r]
  PROVE  \A r \in Scopes : live'[r] = Cardinality(Members(r)')
<1> SUFFICES ASSUME NEW r \in Scopes PROVE live'[r] = Cardinality(Members(r)')
  OBVIOUS
<1>1. live[r] = Cardinality(Members(r))
  BY DEF ScopeInv
<1>2. IsFiniteSet(Members(r))
  <2>1. IsFiniteSet(Tasks) /\ Members(r) \subseteq Tasks
    BY FS_Interval DEF Members, Tasks
  <2> QED BY <2>1, FS_Subset
<1>3. CASE r = s
  <2>1. Members(r)' = Members(r) \cup {c} /\ c \notin Members(r)
    BY <1>3 DEF Members
  <2>2. Cardinality(Members(r) \cup {c}) = Cardinality(Members(r)) + 1
    BY <1>2, <2>1, FS_AddElement
  <2> QED BY <1>1, <1>3, <2>1, <2>2
<1>4. CASE r # s
  <2>1. Members(r)' = Members(r)
    BY <1>4 DEF Members
  <2> QED BY <1>1, <1>4, <2>1
<1> QED BY <1>3, <1>4

(* A running task that can use a scope keeps its joiner parked.             *)
LEMMA UsableJoiner ==
  ASSUME SchedInv, NEW t \in Tasks, Running(t), NEW s \in Usable(t), s \in Scopes,
         NEW u \in Tasks, pc[u] = "join", Innermost(u) = s
  PROVE  ~Ready(u)
<1> SUFFICES ASSUME Ready(u) PROVE FALSE
  OBVIOUS
<1>1. cur = t /\ pc[t] = "body" /\ Alive(t) /\ StackedAt(t)
  BY DEF Running, Alive, SchedInv, ScopeInv
<1>2. stack[u] # <<>> /\ owner[s] = u /\ live[Innermost(u)] = 0
  BY Joiners
<1>3. s \notin captured[t]
  BY <1>1, <1>2, NobodyElseNames
<1>4. owner[s] = t
  BY <1>1, <1>3 DEF Usable, StackedAt
<1> QED BY <1>1, <1>2, <1>4

(* __scope_spawn and __task_fork.                                           *)
LEMMA SpawnStep ==
  ASSUME SchedInv, Disciplined, NEW t \in Tasks, NEW s \in Scopes, NEW c \in Tasks, NEW a \in BOOLEAN,
         Spawn(t, s, c, a)
  PROVE  SchedInv'
<1>1. /\ cur' = cur /\ rq' = Append(rq, c) /\ io' = io /\ chanq' = chanq
      /\ UNCHANGED pollVars /\ UNCHANGED parkVars /\ batch' = batch
      /\ awaiter' = awaiter /\ stack' = stack /\ timed' = timed
      /\ waiter' = waiter /\ reason' = reason /\ owner' = owner /\ sstate' = sstate /\ outer' = outer
  BY DEF Spawn, rq_push, pollVars
<1>2. /\ cur = t /\ pc[t] = "body" /\ s \in Usable(t) /\ sstate[s] = "open" /\ FreshTask(c) /\ Running(t)
      /\ scope' = [scope EXCEPT ![c] = s] /\ awaitable' = [awaitable EXCEPT ![c] = a]
      /\ captured' = [captured EXCEPT ![c] = {s} \cup outer[s]]
      /\ live' = [live EXCEPT ![s] = live[s] + 1]
      /\ pc' = [pc EXCEPT ![c] = "body"]
      /\ holder' = [holder EXCEPT ![c] = IF a THEN t ELSE None]
  BY DEF Spawn, Running, task_create, Counted, Captures, Disciplined
<1>3. RunType /\ PollType /\ LinkType /\ ScopeType /\ BirthInv /\ QueueInv /\ PollInv /\ AwaitInv
      /\ JoinInv /\ ScopeInv
  BY DEF SchedInv, SchedType
<1>4. /\ pc[c] = "unborn" /\ c # Main /\ \A u \in Tasks : pc[u] # "unborn" => u < c
      /\ ~Alive(c) /\ ~Ready(c) /\ c \notin io /\ c \notin chanq
      /\ timed[c] = None /\ holder[c] = None /\ awaiter[c] = None /\ stack[c] = <<>>
  BY <1>2, FreshFacts
<1>5. /\ pc' \in [Tasks -> Places] /\ pc'[c] = "body" /\ \A u \in Tasks : u # c => pc'[u] = pc[u]
      /\ holder' \in [Tasks -> Tasks \cup {None}] /\ holder'[c] \in {t, None}
      /\ \A u \in Tasks : u # c => holder'[u] = holder[u]
      /\ awaitable' \in [Tasks -> BOOLEAN] /\ \A u \in Tasks : u # c => awaitable'[u] = awaitable[u]
  BY <1>2, <1>3 DEF RunType, LinkType, Places
<1>6. /\ scope' \in [Tasks -> Scopes \cup {None}] /\ scope'[c] = s
      /\ \A u \in Tasks : u # c => scope'[u] = scope[u]
      /\ captured' \in [Tasks -> SUBSET Scopes] /\ captured'[c] = {s} \cup outer[s]
      /\ \A u \in Tasks : u # c => captured'[u] = captured[u]
      /\ live' \in [Scopes -> Int] /\ live'[s] = live[s] + 1 /\ live[s] \in Int
      /\ \A r \in Scopes : r # s => live'[r] = live[r]
  <2>1. /\ scope \in [Tasks -> Scopes \cup {None}] /\ captured \in [Tasks -> SUBSET Scopes]
        /\ live \in [Scopes -> Int] /\ {s} \cup outer[s] \in SUBSET Scopes
    BY <1>3 DEF ScopeType
  <2>2. /\ scope' \in [Tasks -> Scopes \cup {None}] /\ scope'[c] = s
        /\ \A u \in Tasks : u # c => scope'[u] = scope[u]
    BY <1>2, <2>1
  <2>3. /\ captured' \in [Tasks -> SUBSET Scopes] /\ captured'[c] = {s} \cup outer[s]
        /\ \A u \in Tasks : u # c => captured'[u] = captured[u]
    BY <1>2, <2>1
  <2>4. /\ live' \in [Scopes -> Int] /\ live'[s] = live[s] + 1 /\ live[s] \in Int
        /\ \A r \in Scopes : r # s => live'[r] = live[r]
    BY <1>2, <2>1
  <2> QED BY <2>2, <2>3, <2>4
<1>7. /\ cur' \in Tasks \cup {None} /\ rq' \in Seq(Tasks) /\ NoDup(rq)' /\ (cur \notin Elems(rq))'
      /\ \A u \in Tasks : Ready(u)' <=> Ready(u) \/ u = c
  BY <1>1, <1>4, CpuPushes
<1>8. SchedType'
  <2>1. RunType' /\ LinkType' /\ ScopeType'
    BY <1>1, <1>3, <1>5, <1>6, <1>7 DEF RunType, LinkType, ScopeType
  <2>2. PollType'
    BY <1>1, <1>3 DEF PollType, pollVars, parkVars
  <2> QED BY <2>1, <2>2 DEF SchedType
<1>9. batch = {} /\ t # None /\ t # c /\ t < c
  BY <1>2, <1>4, RunningTask
<1>10. \A u \in Tasks : Alive(u)' <=> Alive(u) \/ u = c
  BY <1>5 DEF Alive
<1>11. BirthInv'
  <2>1. Alive(Main)'
    BY <1>3, <1>10 DEF BirthInv, Main, Tasks
  <2>2. \A r, q \in Scopes : sstate'[r] = "unborn" /\ r < q => sstate'[q] = "unborn"
    BY <1>1, <1>3 DEF BirthInv
  <2>3. pc'[c] # "unborn" /\ scope'[c] \in Scopes
    BY <1>5, <1>6
  <2>4. \A u \in Tasks : u # c => (pc'[u] = "unborn" <=> pc[u] = "unborn") /\ scope'[u] = scope[u]
    BY <1>5, <1>6
  <2>5. \A u \in Tasks : u # c /\ pc[u] = "unborn" =>
           /\ timed'[u] = timed[u] /\ holder'[u] = holder[u]
           /\ awaiter'[u] = awaiter[u] /\ stack'[u] = stack[u]
    BY <1>1, <1>5
  <2> QED BY <1>2, <1>3, <1>4, <2>1, <2>2, <2>3, <2>4, <2>5, BirthGrows
<1>12. PollInv'
  BY <1>1, <1>3, <1>4, <1>5, PollFrame DEF PollPlaces
<1>13. AwaitInv'
  <2>1. AwaitedAt(c)'
    BY <1>1, <1>4 DEF AwaitedAt
  <2>2. TimedAt(t)'
    BY <1>1, <1>2, <1>3, <1>5, <1>9 DEF AwaitInv, TimedAt
  <2>3. HeldAt(c)'
    BY <1>1, <1>4, <1>5, <1>9 DEF HeldAt
  <2>4. Alive(t)' /\ awaiter'[c] \in {None, t}
    BY <1>1, <1>2, <1>4, <1>5, <1>9 DEF Alive
  <2>5. \A u \in Tasks : u # c => /\ awaiter'[u] = awaiter[u] /\ holder'[u] = holder[u]
                                  /\ awaitable'[u] = awaitable[u] /\ scope'[u] = scope[u]
    BY <1>1, <1>5, <1>6
  <2>6. \A u \in Tasks : u # t => timed'[u] = timed[u] /\ stack'[u] = stack[u]
    BY <1>1
  <2>7. \A u \in Tasks : u \notin {t, c} => pc'[u] = pc[u] /\ (u \in io' => u \in io)
    BY <1>1, <1>5
  <2>8. \A u \in Tasks : pc[u] = "await" /\ Ready(u)' => Ready(u)
    BY <1>4, <1>7
  <2>9. LinkType'
    BY <1>8 DEF SchedType
  <2> QED BY <1>2, <1>3, <1>4, <1>5, <2>1, <2>2, <2>3, <2>4, <2>5, <2>6, <2>7, <2>8, <2>9, AwaitGrows
<1>14. JoinInv'
  <2>1. ASSUME NEW r \in Scopes PROVE JoinedAt(r)'
    <3> SUFFICES ASSUME waiter[r] # None PROVE JoinedAt(r)'
      BY <1>1 DEF JoinedAt
    <3>1. PICK w \in Tasks : w = waiter[r]
      BY <1>3 DEF LinkType
    <3>2. JoinedAt(r) /\ waiter'[r] = w
      BY <1>1, <1>3, <3>1 DEF JoinInv
    <3>3. pc[w] = "join" /\ ~Ready(w) /\ Innermost(w) = r /\ live[r] > 0
      BY <3>1, <3>2 DEF JoinedAt
    <3>4. pc'[w] = "join" /\ ~Ready(w)' /\ Innermost(w)' = r
      BY <1>1, <1>4, <1>5, <1>7, <3>3 DEF Innermost
    <3>5. live'[r] > 0
      BY <1>6, <3>3
    <3> QED BY <3>2, <3>4, <3>5 DEF JoinedAt, Ready, Innermost
  <2>2. ASSUME NEW u \in Tasks PROVE JoiningAt(u)'
    <3>1. CASE pc[u] = "join"
      <4>1. /\ stack[u] # <<>> /\ Innermost(u) \in Scopes /\ (Ready(u) => live[Innermost(u)] = 0)
            /\ u # c /\ Innermost(u)' = Innermost(u) /\ (Ready(u)' <=> Ready(u))
        BY <1>1, <1>4, <1>7, <3>1, Joiners DEF Innermost
      <4>2. Ready(u) => Innermost(u) # s
        BY <1>2, <3>1, UsableJoiner
      <4>3. Ready(u)' => live'[Innermost(u)'] = 0
        BY <1>6, <4>1, <4>2
      <4> QED BY <1>1, <4>1, <4>3 DEF JoiningAt
    <3>2. CASE pc[u] # "join"
      BY <1>5, <3>2 DEF JoiningAt
    <3> QED BY <3>1, <3>2
  <2> QED BY <2>1, <2>2 DEF JoinInv
<1>15. ScopeInv'
  <2>1. ASSUME NEW u \in Tasks PROVE StackedAt(u)'
    <3>1. StackedAt(u)
      BY <1>3 DEF ScopeInv
    <3>2. CASE u = c
      <4>1. Elems(stack[c]) = {} /\ Len(stack[c]) = 0
        BY <1>4 DEF Elems
      <4> QED BY <1>1, <1>4, <3>2, <4>1 DEF StackedAt
    <3>3. CASE u # c
      BY <1>1, <1>5, <1>6, <1>10, <3>1, <3>3 DEF StackedAt
    <3> QED BY <3>2, <3>3
  <2>2. ASSUME NEW u \in Tasks PROVE InsideAt(u)'
    <3>1. InsideAt(u)
      BY <1>3 DEF ScopeInv
    <3>2. CASE u = c
      <4>1. Elems(stack[c]) = {}
        BY <1>4 DEF Elems
      <4>2. owner[s] \in Tasks /\ Alive(owner[s]) /\ s # None
        BY <1>2, <1>3 DEF ScopeInv, OpenAt, Scopes
      <4>3. owner[s] < c
        BY <1>4, <4>2 DEF Alive
      <4> QED BY <1>1, <1>2, <1>6, <3>2, <4>1, <4>2, <4>3 DEF InsideAt
    <3>3. CASE u # c
      <4>1. scope'[u] = scope[u] /\ captured'[u] = captured[u] /\ (Alive(u)' <=> Alive(u))
        BY <1>6, <1>10, <3>3
      <4> QED BY <1>1, <3>1, <4>1 DEF InsideAt
    <3> QED BY <3>2, <3>3
  <2>3. ASSUME NEW r \in Scopes, sstate[r] = "open" PROVE OpenAt(r)'
    <3>1. OpenAt(r)
      BY <1>3 DEF ScopeInv
    <3>2. PICK w \in Tasks : w = owner[r]
      BY <2>3, <3>1 DEF OpenAt
    <3>3. Alive(w) /\ r \in Elems(stack[w]) /\ outer[r] \subseteq Usable(w)
          /\ \A q \in outer[r] : q < r /\ sstate[q] = "open"
      BY <2>3, <3>1, <3>2 DEF OpenAt
    <3>4. Alive(w)' /\ Usable(w)' = Usable(w)
      BY <1>1, <1>4, <1>6, <1>10, <3>3 DEF Usable
    <3> QED BY <1>1, <3>2, <3>3, <3>4 DEF OpenAt, Usable, Alive
  <2>4. \A r \in Scopes : OpenAt(r)'
    BY <1>1, <2>3 DEF OpenAt
  <2>5. \A r \in Scopes : live'[r] = Cardinality(Members(r)')
    BY <1>3, <1>4, <1>6, <1>10, LiveGrows
  <2> QED BY <2>1, <2>2, <2>4, <2>5 DEF ScopeInv
<1>16. QueueInv'
  <2>1. \A u \in Tasks : u \notin {c} => Stays(u)
    BY <1>1, <1>5, <1>7 DEF Stays
  <2>2. PlacedAt(c)'
    BY <1>1, <1>4, <1>5, <1>7 DEF PlacedAt, RunPlaces, PollPlaces, Alive
  <2>3. {c} \in SUBSET Tasks /\ \A u \in {c} : PlacedAt(u)'
    BY <2>2
  <2>4. cur' # None => batch' = {}
    BY <1>1, <1>9
  <2> QED BY <1>1, <1>7, <2>1, <2>3, <2>4, QueueFrame
<1> QED BY <1>8, <1>11, <1>12, <1>13, <1>14, <1>15, <1>16 DEF SchedInv

(* The running task leaves the CPU and pushes another one.                  *)
LEMMA CpuHands ==
  ASSUME SchedInv, NEW t \in Tasks, cur = t, NEW c \in Tasks, ~Ready(c), cur' = None, rq' = Append(rq, c)
  PROVE  /\ cur' \in Tasks \cup {None} /\ rq' \in Seq(Tasks) /\ NoDup(rq)' /\ (cur \notin Elems(rq))'
         /\ \A u \in Tasks : Ready(u)' <=> (Ready(u) /\ u # t) \/ u = c
<1>1. t \notin Elems(rq) /\ t # None /\ c \notin Elems(rq) /\ c # None /\ c # t
  BY RunningTask, QueueTasks DEF Ready
<1>2. Elems(Append(rq, c)) = Elems(rq) \cup {c} /\ Append(rq, c) \in Seq(Tasks) /\ NoDup(Append(rq, c))
  BY <1>1, QueueTasks, PushElems
<1>3. Elems(rq)' = Elems(rq) \cup {c} /\ NoDup(rq)'
  BY <1>2 DEF Elems, NoDup
<1>4. ASSUME NEW u \in Tasks PROVE Ready(u)' <=> (Ready(u) /\ u # t) \/ u = c
  BY <1>1, <1>3, QueueTasks DEF Ready
<1> QED BY <1>1, <1>2, <1>3, <1>4, QueueTasks

(* with_timeout: the poller.                                                *)
LEMMA WithTimeoutPoll ==
  ASSUME SchedInv, NEW t \in Tasks, NEW s \in Scopes, NEW c \in Tasks, NEW i \in Timers, WithTimeout(t, s, c, i)
  PROVE  PollType' /\ PollInv'
<1>1. /\ io' = io \cup {t} /\ armed' = armed \cup {<<t, "timer">>} /\ batch' = batch
      /\ misclosed' = misclosed /\ ArmTimer(t, i) /\ sockets' = sockets /\ hooked' = hooked
      /\ park_woke_by_timer' = park_woke_by_timer
      /\ cur = t /\ pc[t] = "body" /\ FreshTask(c) /\ pc' = [pc EXCEPT ![t] = "deadline", ![c] = "body"]
  BY DEF WithTimeout, Running
<1>2. pc \in [Tasks -> Places] /\ pc[c] = "unborn" /\ t # c
  BY <1>1 DEF SchedInv, SchedType, RunType, FreshTask
<1>3. pc'[t] = "deadline" /\ pc'[c] = "body" /\ \A u \in Tasks : u \notin {t, c} => pc'[u] = pc[u]
  BY <1>1, <1>2
<1>5. batch = {} /\ ~Fd(t) /\ ~Timer(t) /\ t \notin sockets /\ (\A j \in Timers : timerfd[j] # t) /\ PollType
  BY <1>1, RunningTask, Unregistered DEF PollPlaces, SchedInv, SchedType
<1>6. /\ timerfd' \in [Timers -> Tasks \cup {None}] /\ park_timer_id' \in [Tasks -> Timers \cup {None}]
      /\ park_timer_dead' \in [Tasks -> BOOLEAN]
      /\ \A j \in Timers : timerfd'[j] = timerfd[j] \/ {timerfd[j], timerfd'[j]} \subseteq {t} \cup {None}
      /\ \A j \in Timers : timerfd'[j] = t => park_timer_id'[t] = j
      /\ park_timer_id'[t] = i /\ timerfd'[i] = t /\ ~park_timer_dead'[t]
      /\ \A u \in Tasks : u # t => park_timer_id'[u] = park_timer_id[u] /\ park_timer_dead'[u] = park_timer_dead[u]
  BY <1>1, <1>5, Armed
<1>8. PollType'
  BY <1>1, <1>5, <1>6 DEF PollType
<1>9. /\ \A u \in Tasks : u # t => (Fd(u)' <=> Fd(u)) /\ (Timer(u)' <=> Timer(u))
      /\ ~Fd(t)' /\ Timer(t)'
  <2>1. {<<t, "timer">>} \in SUBSET {<<t, "fd">>, <<t, "timer">>} /\ <<t, "fd">> \notin {<<t, "timer">>}
    OBVIOUS
  <2> QED BY <1>1, <1>5, <2>1, EventsAdded
<1>10. \A u \in Tasks : u \notin {t} => PollStays(u)
  BY <1>1, <1>2, <1>3, <1>6, <1>9 DEF PollStays, PollPlaces
<1>11. PolledAt(t)'
  <2>1. t \in io' /\ t \notin sockets'
    BY <1>1, <1>5
  <2> QED BY <1>3, <1>6, <1>9, <2>1 DEF PolledAt, ParksOnTimer, ParksOnFd
<1>12. PollInv'
  <2>1. PollInv /\ ~misclosed' /\ armed' \cap batch' = {}
    BY <1>1, <1>5 DEF SchedInv, PollInv
  <2>2. {t} \in SUBSET Tasks /\ \A u \in {t} : PolledAt(u)'
    BY <1>11
  <2>3. \A j \in Timers, u \in {t} : timerfd'[j] = u => Timer(u)' /\ park_timer_id'[u] = j
    BY <1>6, <1>9
  <2> QED BY <1>6, <1>8, <1>10, <2>1, <2>2, <2>3, PollOthers
<1> QED BY <1>8, <1>12

(* with_timeout: the rest.                                                  *)
LEMMA WithTimeoutStep ==
  ASSUME SchedInv, NEW t \in Tasks, NEW s \in Scopes, NEW c \in Tasks, NEW i \in Timers, WithTimeout(t, s, c, i)
  PROVE  SchedInv'
<1>1. /\ cur' = None /\ rq' = Append(rq, c) /\ io' = io \cup {t} /\ chanq' = chanq
      /\ holder' = holder /\ waiter' = waiter /\ reason' = reason
      /\ cur = t /\ pc[t] = "body" /\ FreshScope(s) /\ FreshTask(c) /\ Opened(t, s)
  BY DEF WithTimeout, Running, rq_push
<1>2. /\ scope' = [scope EXCEPT ![c] = s] /\ awaitable' = [awaitable EXCEPT ![c] = TRUE]
      /\ captured' = [captured EXCEPT ![c] = Usable(t)]
      /\ live' = [live EXCEPT ![s] = live[s] + 1]
      /\ pc' = [pc EXCEPT ![t] = "deadline", ![c] = "body"]
      /\ timed' = [timed EXCEPT ![t] = c] /\ awaiter' = [awaiter EXCEPT ![c] = t]
  BY DEF WithTimeout, task_create, Counted
<1>3. RunType /\ PollType /\ LinkType /\ ScopeType /\ BirthInv /\ QueueInv /\ PollInv /\ AwaitInv
      /\ JoinInv /\ ScopeInv
  BY DEF SchedInv, SchedType
<1>4. /\ pc[c] = "unborn" /\ c # Main /\ \A u \in Tasks : pc[u] # "unborn" => u < c
      /\ ~Alive(c) /\ ~Ready(c) /\ c \notin io /\ c \notin chanq
      /\ timed[c] = None /\ holder[c] = None /\ awaiter[c] = None /\ stack[c] = <<>>
  BY <1>1, FreshFacts
<1>5. t # c /\ t < c /\ t # None /\ t \notin io /\ t \notin chanq /\ Alive(t) /\ timed[t] = None /\ c # None
  <2>1. c # None
    BY DEF Tasks
  <2> QED BY <1>1, <1>3, <1>4, <2>1, RunningTask DEF AwaitInv, TimedAt
<1>6. /\ sstate[s] = "unborn" /\ (\A r \in Scopes : sstate[r] # "unborn" => r < s)
      /\ sstate' \in [Scopes -> {"unborn", "open", "freed"}] /\ sstate'[s] = "open"
      /\ owner' \in [Scopes -> Tasks \cup {None}] /\ owner'[s] = t
      /\ outer' \in [Scopes -> SUBSET Scopes] /\ outer'[s] = Usable(t)
      /\ (\A r \in Scopes : r # s => sstate'[r] = sstate[r])
      /\ stack' \in [Tasks -> Seq(Scopes)] /\ stack'[t] # <<>> /\ Innermost(t)' = s
      /\ (\A u \in Tasks : u # t => stack'[u] = stack[u])
  BY <1>1, OpenFacts
<1>7. /\ pc' \in [Tasks -> Places] /\ pc'[t] = "deadline" /\ pc'[c] = "body"
      /\ \A u \in Tasks : u \notin {t, c} => pc'[u] = pc[u]
  BY <1>2, <1>3, <1>5 DEF RunType, Places
<1>8. /\ awaiter' \in [Tasks -> Tasks \cup {None}] /\ awaiter'[c] = t
      /\ \A u \in Tasks : u # c => awaiter'[u] = awaiter[u]
      /\ timed' \in [Tasks -> Tasks \cup {None}] /\ timed'[t] = c
      /\ \A u \in Tasks : u # t => timed'[u] = timed[u]
      /\ awaitable' \in [Tasks -> BOOLEAN] /\ awaitable'[c]
      /\ \A u \in Tasks : u # c => awaitable'[u] = awaitable[u]
  BY <1>2, <1>3 DEF LinkType
<1>9. /\ scope' \in [Tasks -> Scopes \cup {None}] /\ scope'[c] = s
      /\ \A u \in Tasks : u # c => scope'[u] = scope[u]
      /\ live' \in [Scopes -> Int] /\ live'[s] = live[s] + 1
      /\ \A r \in Scopes : r # s => live'[r] = live[r]
  <2>1. scope \in [Tasks -> Scopes \cup {None}] /\ live \in [Scopes -> Int] /\ live[s] \in Int
    BY <1>3 DEF ScopeType
  <2>2. /\ scope' \in [Tasks -> Scopes \cup {None}] /\ scope'[c] = s
        /\ \A u \in Tasks : u # c => scope'[u] = scope[u]
    BY <1>2, <2>1
  <2>3. /\ live' \in [Scopes -> Int] /\ live'[s] = live[s] + 1
        /\ \A r \in Scopes : r # s => live'[r] = live[r]
    BY <1>2, <2>1
  <2> QED BY <2>2, <2>3
<1>10. /\ captured' \in [Tasks -> SUBSET Scopes] /\ captured'[c] = Usable(t)
       /\ \A u \in Tasks : u # c => captured'[u] = captured[u]
  <2>1. captured \in [Tasks -> SUBSET Scopes] /\ Usable(t) \in SUBSET Scopes
    BY <1>3, <1>5, UsableOpen DEF ScopeType
  <2> QED BY <1>2, <2>1
<1>11. /\ cur' \in Tasks \cup {None} /\ rq' \in Seq(Tasks) /\ NoDup(rq)' /\ (cur \notin Elems(rq))'
       /\ \A u \in Tasks : Ready(u)' <=> (Ready(u) /\ u # t) \/ u = c
  BY <1>1, <1>4, CpuHands
<1>12. SchedType'
  <2>1. RunType' /\ LinkType'
    BY <1>1, <1>3, <1>7, <1>8, <1>11 DEF RunType, LinkType
  <2>2. ScopeType'
    BY <1>1, <1>3, <1>6, <1>9, <1>10 DEF ScopeType
  <2> QED BY <2>1, <2>2, WithTimeoutPoll DEF SchedType
<1>13. \A u \in Tasks : Alive(u)' <=> Alive(u) \/ u = c
  BY <1>1, <1>7 DEF Alive
<1>14. BirthInv'
  <2>1. Alive(Main)'
    BY <1>3, <1>13 DEF BirthInv, Main, Tasks
  <2>2. ASSUME NEW r \in Scopes, NEW q \in Scopes, sstate'[r] = "unborn", r < q PROVE sstate'[q] = "unborn"
    <3>1. r # s /\ sstate[r] = "unborn"
      BY <1>6, <2>2
    <3>2. sstate[q] = "unborn" /\ q # s
      BY <1>1, <1>3, <2>2, <3>1 DEF BirthInv, FreshScope, Scopes
    <3> QED BY <1>6, <3>2
  <2>3. pc'[c] # "unborn" /\ scope'[c] \in Scopes
    BY <1>7, <1>9
  <2>4. \A u \in Tasks : u # c => (pc'[u] = "unborn" <=> pc[u] = "unborn") /\ scope'[u] = scope[u]
    BY <1>1, <1>7, <1>9
  <2>5. \A u \in Tasks : u # c /\ pc[u] = "unborn" =>
           /\ timed'[u] = timed[u] /\ holder'[u] = holder[u]
           /\ awaiter'[u] = awaiter[u] /\ stack'[u] = stack[u]
    BY <1>1, <1>6, <1>8
  <2> QED BY <1>1, <1>3, <1>4, <2>1, <2>2, <2>3, <2>4, <2>5, BirthGrows
<1>15. AwaitInv'
  <2>1. AwaitedAt(c)'
    BY <1>5, <1>7, <1>8, <1>13 DEF AwaitedAt
  <2>2. TimedAt(t)'
    <3>1. Alive(c)' /\ holder'[c] = None
      BY <1>1, <1>4, <1>13
    <3>2. scope'[c] = Innermost(t)'
      BY <1>6, <1>9
    <3> QED BY <1>5, <1>6, <1>7, <1>8, <3>1, <3>2 DEF TimedAt, Alive
  <2>3. HeldAt(c)'
    BY <1>1, <1>4 DEF HeldAt
  <2>4. Alive(t)' /\ awaiter'[c] \in {None, t}
    BY <1>5, <1>8, <1>13
  <2>5. \A u \in Tasks : u # c => /\ awaiter'[u] = awaiter[u] /\ holder'[u] = holder[u]
                                  /\ awaitable'[u] = awaitable[u] /\ scope'[u] = scope[u]
    BY <1>1, <1>8, <1>9
  <2>6. \A u \in Tasks : u # t => timed'[u] = timed[u] /\ stack'[u] = stack[u]
    BY <1>6, <1>8
  <2>7. \A u \in Tasks : u \notin {t, c} => pc'[u] = pc[u] /\ (u \in io' => u \in io)
    BY <1>1, <1>7
  <2>8. \A u \in Tasks : pc[u] = "await" /\ Ready(u)' => Ready(u)
    BY <1>4, <1>11
  <2>9. LinkType'
    BY <1>12 DEF SchedType
  <2> QED BY <1>1, <1>3, <1>4, <1>7, <2>1, <2>2, <2>3, <2>4, <2>5, <2>6, <2>7, <2>8, <2>9, AwaitGrows
<1>16. \A u \in Tasks : pc[u] = "join" => stack'[u] = stack[u] /\ (Ready(u)' <=> Ready(u))
  BY <1>1, <1>4, <1>6, <1>11
<1>17. JoinInv'
  <2>1. \A u \in Tasks : pc'[u] = "join" <=> pc[u] = "join"
    BY <1>1, <1>4, <1>7
  <2>2. \A u \in Tasks : pc[u] = "join" => Innermost(u) \in Scopes /\ Innermost(u) # s
    BY <1>6, Joiners
  <2>3. \A r \in Scopes : live'[r] = live[r] \/ (\A u \in Tasks : pc[u] = "join" => Innermost(u) # r)
    BY <1>9, <2>2
  <2> QED BY <1>1, <1>3, <1>16, <2>1, <2>2, <2>3, JoinFrame
<1>18. ScopeInv'
  <2>1. \A u \in Tasks : u \in io' \cup chanq' /\ pc'[u] # "deadline" =>
          u \in io \cup chanq /\ pc[u] # "deadline" /\ u # t
    BY <1>1, <1>4, <1>5, <1>7
  <2>2. \A u \in Tasks : Alive(u) => Alive(u)' /\ captured'[u] = captured[u] /\ scope'[u] = scope[u]
    BY <1>4, <1>9, <1>10, <1>13
  <2>3. /\ \A u \in Tasks : StackedAt(u)'
        /\ \A r \in Scopes : OpenAt(r)'
        /\ \A u \in Tasks : Alive(u) => InsideAt(u)'
    BY <1>1, <2>1, <2>2, ScopesOpened
  <2>4. InsideAt(c)'
    <3>1. stack'[c] = <<>> /\ s # None
      BY <1>4, <1>5, <1>6 DEF Scopes
    <3>2. Elems(stack'[c]) = {}
      BY <3>1 DEF Elems
    <3> QED BY <1>5, <1>6, <1>9, <1>10, <3>1, <3>2 DEF InsideAt
  <2>5. \A u \in Tasks : InsideAt(u)'
    BY <1>13, <2>3, <2>4 DEF InsideAt
  <2>6. \A r \in Scopes : live'[r] = Cardinality(Members(r)')
    BY <1>3, <1>4, <1>9, <1>13, LiveGrows
  <2> QED BY <2>3, <2>5, <2>6 DEF ScopeInv
<1>19. QueueInv'
  <2>1. \A u \in Tasks : u \notin {t, c} => Stays(u)
    BY <1>1, <1>7, <1>11 DEF Stays
  <2>2. PlacedAt(c)'
    BY <1>1, <1>4, <1>5, <1>7, <1>11 DEF PlacedAt, RunPlaces, PollPlaces, Alive
  <2>3. PlacedAt(t)'
    BY <1>1, <1>5, <1>7, <1>11 DEF PlacedAt, RunPlaces, PollPlaces, Alive
  <2>4. {t, c} \in SUBSET Tasks /\ (\A u \in {t, c} : PlacedAt(u)') /\ (cur' # None => batch' = {})
    BY <1>1, <2>2, <2>3
  <2>5. /\ \A f \in Tasks : awaiter'[f] = awaiter[f] \/ awaiter[f] \in {t, c} \cup {None}
        /\ \A r \in Scopes : waiter'[r] = waiter[r] \/ waiter[r] \in {t, c} \cup {None}
        /\ \A u \in Tasks : u \notin {t, c} /\ pc[u] = "join" => stack'[u] = stack[u]
    BY <1>1, <1>4, <1>8, <1>16
  <2> QED BY <1>11, <2>1, <2>4, <2>5, QueueFrame
<1> QED BY <1>12, <1>14, <1>15, <1>17, <1>18, <1>19, WithTimeoutPoll DEF SchedInv

-----------------------------------------------------------------------------
(* Tasks that end, and deadlines.                                           *)

(* The tasks T leave the poller while no event is to be harvested: the      *)
(* timers that any of them still has are torn down, the descriptors removed.*)
LEMMA PollLeaves ==
  ASSUME SchedInv, batch = {}, batch' = batch,
         NEW T \in SUBSET Tasks, NEW W \in SUBSET T, NEW F \in SUBSET T,
         \A u \in T : (u \in W <=> Timer(u)) /\ (Fd(u) => u \in F),
         sprout_poll_remove_timer(W), armed' = armed \ (TimerEvents(W) \cup FdEvents(F)),
         park_timer_id' = park_timer_id, park_woke_by_timer' = park_woke_by_timer,
         sockets' \subseteq Tasks, hooked' \subseteq Tasks,
         \A u \in Tasks : u \notin T =>
           /\ pc'[u] = pc[u] \/ (pc[u] \notin PollPlaces /\ pc'[u] \notin PollPlaces)
           /\ (u \in io' <=> u \in io) /\ (u \in sockets' <=> u \in sockets) /\ (u \in hooked' <=> u \in hooked),
         \A u \in T : /\ u \notin io' /\ u \notin sockets'
                      /\ pc'[u] \notin PollPlaces \/ (pc'[u] = "deadline" /\ pc[u] = "deadline")
  PROVE  PollType' /\ PollInv'
<1>1. PollInv /\ PollType
  BY DEF SchedInv, SchedType
<1>2. W \in SUBSET Tasks /\ F \in SUBSET Tasks /\ \A w \in W : Timer(w)
  OBVIOUS
<1>3. /\ ~misclosed' /\ misclosed' \in BOOLEAN
      /\ timerfd' \in [Timers -> Tasks \cup {None}] /\ park_timer_dead' \in [Tasks -> BOOLEAN]
      /\ \A u \in Tasks : u \in W => park_timer_dead'[u]
      /\ \A u \in Tasks : u \notin W => park_timer_dead'[u] = park_timer_dead[u]
      /\ \A i \in Timers : timerfd'[i] = timerfd[i] \/ {timerfd[i], timerfd'[i]} \subseteq W \cup {None}
      /\ \A i \in Timers : timerfd'[i] \notin W
  BY <1>1, <1>2, TearDown
<1>4. \A u \in Tasks : (Fd(u)' <=> Fd(u) /\ u \notin F) /\ (Timer(u)' <=> Timer(u) /\ u \notin W)
  BY <1>2, EventsRemoved
<1>5. armed' \subseteq armed
  OBVIOUS
<1>6. PollType'
  BY <1>1, <1>3, <1>5 DEF PollType
<1>7. ASSUME NEW u \in Tasks, u \notin T PROVE PollStays(u)
  <2>1. u \notin W /\ u \notin F
    BY <1>7
  <2> QED BY <1>3, <1>4, <1>7, <2>1 DEF PollStays
<1>8. ASSUME NEW u \in T PROVE PolledAt(u)' /\ ~Timer(u)'
  <2>1. u \in Tasks /\ ~Timer(u)' /\ ~Fd(u)' /\ PolledAt(u)
    BY <1>1, <1>4 DEF PollInv
  <2>2. pc'[u] = "deadline" => park_timer_dead'[u]
    BY <1>3, <2>1 DEF PolledAt, ParksOnTimer, PollPlaces
  <2>3. pc'[u] = "deadline" \/ pc'[u] \notin PollPlaces
    OBVIOUS
  <2> QED BY <2>1, <2>2, <2>3 DEF PolledAt, ParksOnTimer, ParksOnFd, PollPlaces
<1>9. armed' \cap batch' = {}
  BY <1>1
<1>10. \A i \in Timers : timerfd'[i] = timerfd[i] \/ {timerfd[i], timerfd'[i]} \subseteq T \cup {None}
  BY <1>3
<1>11. ASSUME NEW i \in Timers, NEW u \in T, timerfd'[i] = u PROVE FALSE
  <2>1. u \notin W /\ timerfd[i] = u /\ u # None
    <3>1. u # None
      BY DEF Tasks
    <3> QED BY <1>3, <1>11, <3>1
  <2>2. Timer(u)
    BY <1>1, <2>1 DEF PollInv
  <2> QED BY <2>1, <2>2
<1>12. PollInv'
  BY <1>1, <1>3, <1>6, <1>7, <1>8, <1>9, <1>10, <1>11, PollOthers
<1> QED BY <1>6, <1>12

(* A task in a scope is counted there.                                      *)
LEMMA LiveMember ==
  ASSUME SchedInv, NEW t \in Tasks, Alive(t), t # Main
  PROVE  scope[t] \in Scopes /\ scope[t] # None /\ live[scope[t]] \in Nat \ {0}
<1>1. scope[t] \in Scopes
  BY DEF SchedInv, BirthInv, Alive
<1>2. PICK s \in Scopes : s = scope[t]
  BY <1>1
<1>3. s # None
  BY DEF Scopes
<1>4. t \in Members(s) /\ live[s] = Cardinality(Members(s))
  BY <1>2 DEF Members, SchedInv, ScopeInv
<1>5. IsFiniteSet(Tasks) /\ Members(s) \subseteq Tasks
  BY FS_Interval DEF Members, Tasks
<1>6. IsFiniteSet(Members(s)) /\ Cardinality(Members(s)) \in Nat
  BY <1>5, FS_Subset, FS_CardinalityType
<1>7. Cardinality(Members(s)) # 0
  BY <1>4, <1>6, FS_EmptySet
<1> QED BY <1>1, <1>2, <1>3, <1>4, <1>6, <1>7

(* Pushing a sequence of at most one task.                                  *)
LEMMA PushMaybe ==
  ASSUME NEW q \in Seq(Tasks), NoDup(q), NEW X \in SUBSET Tasks, NEW x,
         (X = {} /\ x = <<>>) \/ (\E y \in Tasks : X = {y} /\ x = <<y>> /\ y \notin Elems(q))
  PROVE  q \o x \in Seq(Tasks) /\ NoDup(q \o x) /\ Elems(q \o x) = Elems(q) \cup X
<1>1. CASE X = {} /\ x = <<>>
  <2>1. q \o x = q
    BY <1>1, ConcatEmptySeq
  <2> QED BY <1>1, <2>1
<1>2. CASE \E y \in Tasks : X = {y} /\ x = <<y>> /\ y \notin Elems(q)
  <2>1. PICK y \in Tasks : X = {y} /\ x = <<y>> /\ y \notin Elems(q)
    BY <1>2
  <2>2. q \o x = Append(q, y)
    BY <2>1, AppendIsConcat
  <2>3. Elems(Append(q, y)) = Elems(q) \cup {y} /\ Append(q, y) \in Seq(Tasks) /\ NoDup(Append(q, y))
    BY <2>1, PushElems
  <2> QED BY <2>1, <2>2, <2>3
<1> QED BY <1>1, <1>2

\* The tasks that the end of t makes runnable: its awaiter, unless that is a
\* deadline owner already woken, and the joiner of its scope.
WokenAwaiter(t) == {w \in Tasks : w = awaiter[t] /\ (w \in io \/ pc[w] = "await")}
WokenJoiner(s) == {w \in Tasks : w = waiter[s] /\ live[s] = 1}

(* The ready queue after t has ended: both are pushed, once.                *)
LEMMA ReturnWakes ==
  ASSUME SchedInv, NEW t \in Tasks, cur = t, pc[t] = "body", NEW s \in Scopes,
         cur' = None, rq' = rq \o AwaiterToWake(t) \o JoinerToWake(s)
  PROVE  /\ cur' \in Tasks \cup {None} /\ rq' \in Seq(Tasks) /\ NoDup(rq)' /\ (cur \notin Elems(rq))'
         /\ \A u \in Tasks : Ready(u)' <=> (Ready(u) /\ u # t) \/ u \in WokenAwaiter(t) \/ u \in WokenJoiner(s)
         /\ \A u \in WokenAwaiter(t) : ~Ready(u) /\ u # t
         /\ \A u \in WokenJoiner(s) : ~Ready(u) /\ u # t /\ pc[u] = "join" /\ Innermost(u) = s
         /\ \A u \in Tasks : u = awaiter[t] => /\ pc[u] \in {"await", "deadline"} /\ u # t
                                               /\ u \in io => pc[u] = "deadline"
                                               /\ u \in WokenAwaiter(t) \/ Ready(u)
<1>1. LinkType /\ AwaitedAt(t) /\ JoinedAt(s) /\ Ready(t) /\ None \notin Tasks /\ t \notin Elems(rq)
  BY RunningTask, QueueTasks DEF SchedInv, SchedType, AwaitInv, JoinInv
<1>2. ASSUME NEW w \in Tasks, w = awaiter[t]
      PROVE  /\ pc[w] \in {"await", "deadline"} /\ w # t
             /\ w \in io => pc[w] = "deadline" /\ ~Ready(w)
             /\ pc[w] = "await" => ~Ready(w)
             /\ pc[w] = "deadline" => timed[w] = t
             /\ pc[w] = "deadline" /\ w \notin io => Ready(w)
  <2>1. PlacedAt(w) /\ w # None
    BY <1>1 DEF SchedInv, QueueInv
  <2>2. /\ pc[w] \in {"await", "deadline"}
        /\ pc[w] = "await" => ~Ready(w)
        /\ pc[w] = "deadline" => timed[w] = t
    BY <1>1, <1>2, <2>1 DEF AwaitedAt
  <2> QED BY <2>1, <2>2 DEF PlacedAt, PollPlaces
<1>3. \/ WokenAwaiter(t) = {} /\ AwaiterToWake(t) = <<>>
      \/ \E y \in Tasks : /\ WokenAwaiter(t) = {y} /\ AwaiterToWake(t) = <<y>> /\ y \notin Elems(rq)
                          /\ ~Ready(y) /\ pc[y] \in {"await", "deadline"}
  <2>1. CASE awaiter[t] = None
    BY <1>1, <2>1 DEF WokenAwaiter, AwaiterToWake
  <2>2. CASE awaiter[t] # None
    <3>1. PICK w \in Tasks : w = awaiter[t]
      BY <1>1, <2>2 DEF LinkType
    <3>2. CASE w \in io \/ pc[w] = "await"
      <4>1. ~(w \notin io /\ deadline_child(w) = t)
        BY <1>1, <3>2 DEF deadline_child
      <4>2. WokenAwaiter(t) = {w} /\ AwaiterToWake(t) = <<w>>
        BY <2>2, <3>1, <3>2, <4>1 DEF WokenAwaiter, AwaiterToWake
      <4>3. ~Ready(w) /\ w \notin Elems(rq) /\ pc[w] \in {"await", "deadline"}
        BY <1>2, <3>1, <3>2 DEF Ready
      <4> QED BY <4>2, <4>3
    <3>3. CASE ~(w \in io \/ pc[w] = "await")
      <4>1. deadline_child(w) = t
        BY <1>2, <3>1, <3>3 DEF deadline_child
      <4> QED BY <3>1, <3>3, <4>1 DEF WokenAwaiter, AwaiterToWake
    <3> QED BY <3>2, <3>3
  <2> QED BY <2>1, <2>2
<1>4. \/ WokenJoiner(s) = {} /\ JoinerToWake(s) = <<>>
      \/ \E y \in Tasks : /\ WokenJoiner(s) = {y} /\ JoinerToWake(s) = <<y>> /\ y \notin Elems(rq)
                          /\ ~Ready(y) /\ pc[y] = "join" /\ Innermost(y) = s
  <2>1. CASE waiter[s] = None \/ live[s] # 1
    BY <1>1, <2>1 DEF WokenJoiner, JoinerToWake
  <2>2. CASE waiter[s] # None /\ live[s] = 1
    <3>1. PICK w \in Tasks : w = waiter[s]
      BY <1>1, <2>2 DEF LinkType
    <3>2. WokenJoiner(s) = {w} /\ JoinerToWake(s) = <<w>>
      BY <2>2, <3>1 DEF WokenJoiner, JoinerToWake
    <3>3. ~Ready(w) /\ pc[w] = "join" /\ Innermost(w) = s /\ w \notin Elems(rq)
      BY <1>1, <2>2, <3>1 DEF JoinedAt, Ready
    <3> QED BY <3>2, <3>3
  <2> QED BY <2>1, <2>2
<1>5. PICK q : q = rq \o AwaiterToWake(t)
  OBVIOUS
<1>6. q \in Seq(Tasks) /\ NoDup(q) /\ Elems(q) = Elems(rq) \cup WokenAwaiter(t)
  <2>1. WokenAwaiter(t) \in SUBSET Tasks
    BY DEF WokenAwaiter
  <2>2. rq \in Seq(Tasks) /\ NoDup(rq)
    BY QueueTasks
  <2>3. (WokenAwaiter(t) = {} /\ AwaiterToWake(t) = <<>>) \/
        (\E y \in Tasks : WokenAwaiter(t) = {y} /\ AwaiterToWake(t) = <<y>> /\ y \notin Elems(rq))
    BY <1>3
  <2> QED BY <1>5, <2>1, <2>2, <2>3, PushMaybe
<1>7. rq' = q \o JoinerToWake(s)
  BY <1>5
<1>8. q \o JoinerToWake(s) \in Seq(Tasks) /\ NoDup(q \o JoinerToWake(s))
      /\ Elems(q \o JoinerToWake(s)) = Elems(q) \cup WokenJoiner(s)
  <2>1. WokenJoiner(s) \in SUBSET Tasks
    BY DEF WokenJoiner
  <2>2. \A y \in Tasks : pc[y] = "join" => y \notin WokenAwaiter(t)
    BY <1>3
  <2>3. (WokenJoiner(s) = {} /\ JoinerToWake(s) = <<>>) \/
        (\E y \in Tasks : WokenJoiner(s) = {y} /\ JoinerToWake(s) = <<y>> /\ y \notin Elems(q))
    BY <1>4, <1>6, <2>2
  <2> QED BY <1>6, <2>1, <2>3, PushMaybe
<1>9. rq' \in Seq(Tasks) /\ NoDup(rq)' /\ Elems(rq)' = Elems(rq) \cup WokenAwaiter(t) \cup WokenJoiner(s)
  <2>1. PICK r \in Seq(Tasks) : r = q \o JoinerToWake(s)
    BY <1>8
  <2>2. NoDup(r) /\ Elems(r) = Elems(rq) \cup WokenAwaiter(t) \cup WokenJoiner(s) /\ rq' = r
    BY <1>6, <1>7, <1>8, <2>1
  <2> QED BY <2>2 DEF NoDup, Elems
<1>10. WokenAwaiter(t) \subseteq Tasks /\ WokenJoiner(s) \subseteq Tasks
  BY DEF WokenAwaiter, WokenJoiner
<1>11. (cur \notin Elems(rq))'
  BY <1>1, <1>9, <1>10, QueueTasks
<1>12. ASSUME NEW u \in Tasks
       PROVE  Ready(u)' <=> (Ready(u) /\ u # t) \/ u \in WokenAwaiter(t) \/ u \in WokenJoiner(s)
  BY <1>1, <1>9 DEF Ready
<1>13. \A u \in WokenAwaiter(t) : ~Ready(u) /\ u # t
  BY <1>1, <1>3
<1>14. \A u \in WokenJoiner(s) : ~Ready(u) /\ u # t /\ pc[u] = "join" /\ Innermost(u) = s
  BY <1>1, <1>4
<1>15. \A u \in Tasks : u = awaiter[t] => /\ pc[u] \in {"await", "deadline"} /\ u # t
                                          /\ u \in io => pc[u] = "deadline"
                                          /\ u \in WokenAwaiter(t) \/ Ready(u)
  BY <1>2 DEF WokenAwaiter
<1> QED BY <1>9, <1>11, <1>12, <1>13, <1>14, <1>15

(* The end of a task in the poller: the timer of a deadline owner that      *)
(* still waits there is torn down.                                          *)
LEMMA TaskReturnsPoll ==
  ASSUME SchedInv, NEW t \in Tasks, TaskReturns(t)
  PROVE  PollType' /\ PollInv'
<1> DEFINE W == DeadlineToTearDown(t)
<1>1. /\ cur = t /\ pc[t] = "body" /\ batch' = batch
      /\ sprout_poll_remove_timer(W) /\ armed' = armed \ TimerEvents(W) /\ io' = io \ {awaiter[t]}
      /\ park_timer_id' = park_timer_id /\ park_woke_by_timer' = park_woke_by_timer
      /\ sockets' = sockets /\ hooked' = hooked
      /\ pc' = [pc EXCEPT ![t] = IF awaitable[t] THEN "returned" ELSE "freed"]
  BY DEF TaskReturns, Running, park_to_pump
<1>2. RunType /\ PollType /\ PollInv /\ AwaitedAt(t) /\ batch = {} /\ t \notin io
  BY <1>1, RunningTask DEF SchedInv, SchedType, AwaitInv
<1>3. pc'[t] \in {"returned", "freed"} /\ \A u \in Tasks : u # t => pc'[u] = pc[u]
  BY <1>1, <1>2 DEF RunType
<1>4. ASSUME NEW u \in Tasks, u \in io, u = awaiter[t]
      PROVE  pc[u] = "deadline" /\ (Timer(u) <=> ~park_timer_dead[u]) /\ ~Fd(u) /\ u \notin sockets
  <2>1. u # None
    BY DEF Tasks
  <2>2. PlacedAt(u) /\ PolledAt(u)
    BY <1>2 DEF SchedInv, QueueInv, PollInv
  <2>3. pc[u] = "deadline"
    BY <1>2, <1>4, <2>1, <2>2 DEF AwaitedAt, PlacedAt, PollPlaces
  <2> QED BY <2>2, <2>3 DEF PolledAt, ParksOnTimer, ParksOnFd
<1> DEFINE T == {u \in io : u = awaiter[t]}
<1>5. io \in SUBSET Tasks
  BY <1>2 DEF RunType
<1>6. \A u \in T : u \in W <=> Timer(u)
  BY <1>4, <1>5 DEF DeadlineToTearDown
<1>7. T \in SUBSET Tasks /\ W \in SUBSET T /\ {} \in SUBSET T
  BY <1>5 DEF DeadlineToTearDown
<1>8. \A u \in Tasks : u \notin T => (u \in io' <=> u \in io)
  BY <1>1
<1>9. \A u \in T : u \in Tasks /\ u \notin io' /\ u \notin sockets' /\ ~Fd(u) /\ pc[u] = "deadline" /\ u # t
  BY <1>1, <1>2, <1>4, <1>5
<1> HIDE DEF T, W
<1>10. armed' = armed \ (TimerEvents(W) \cup FdEvents({}))
  BY <1>1 DEF FdEvents
<1>11. sockets' \subseteq Tasks /\ hooked' \subseteq Tasks
  BY <1>1, <1>2 DEF PollType
<1>12. ASSUME NEW u \in Tasks, u \notin T
       PROVE  /\ pc'[u] = pc[u] \/ (pc[u] \notin PollPlaces /\ pc'[u] \notin PollPlaces)
              /\ (u \in io' <=> u \in io) /\ (u \in sockets' <=> u \in sockets) /\ (u \in hooked' <=> u \in hooked)
  <2>1. pc'[u] = pc[u] \/ (pc[u] \notin PollPlaces /\ pc'[u] \notin PollPlaces)
    BY <1>1, <1>3 DEF PollPlaces
  <2> QED BY <1>1, <1>8, <1>12, <2>1
<1>13. \A u \in T : /\ u \notin io' /\ u \notin sockets'
                    /\ pc'[u] \notin PollPlaces \/ (pc'[u] = "deadline" /\ pc[u] = "deadline")
  BY <1>3, <1>9
<1>14. \A u \in T : (u \in W <=> Timer(u)) /\ (Fd(u) => u \in {})
  BY <1>6, <1>9
<1> QED BY <1>1, <1>2, <1>7, <1>10, <1>11, <1>12, <1>13, <1>14, PollLeaves

(* A task ends: what the step does.                                         *)
LEMMA TaskReturnsFacts ==
  ASSUME SchedInv, NEW t \in Tasks, TaskReturns(t)
  PROVE  \E s \in Scopes :
           /\ s = scope[t] /\ live[s] \in Nat \ {0}
           /\ cur = t /\ pc[t] = "body" /\ t # Main /\ stack[t] = <<>>
           /\ cur' = None /\ rq' = rq \o AwaiterToWake(t) \o JoinerToWake(s)
           /\ io' = io \ {awaiter[t]} /\ chanq' = chanq
           /\ scope' = scope /\ awaitable' = awaitable /\ stack' = stack
           /\ captured' = captured /\ holder' = holder /\ timed' = timed
           /\ reason' = reason /\ owner' = owner /\ sstate' = sstate /\ outer' = outer
           /\ awaiter' \in [Tasks -> Tasks \cup {None}] /\ awaiter'[t] = None
           /\ \A u \in Tasks : u # t => awaiter'[u] = awaiter[u]
           /\ live' \in [Scopes -> Int] /\ live'[s] = live[s] - 1
           /\ \A r \in Scopes : r # s => live'[r] = live[r]
           /\ waiter' \in [Scopes -> Tasks \cup {None}]
           /\ waiter'[s] = (IF live[s] = 1 THEN None ELSE waiter[s])
           /\ \A r \in Scopes : r # s => waiter'[r] = waiter[r]
           /\ pc' \in [Tasks -> Places] /\ pc'[t] \in {"returned", "freed"}
           /\ awaitable[t] => pc'[t] = "returned"
           /\ \A u \in Tasks : u # t => pc'[u] = pc[u]
<1>1. cur = t /\ pc[t] = "body" /\ t # Main /\ stack[t] = <<>>
  BY DEF TaskReturns, Running
<1>2. Alive(t)
  BY <1>1, RunningTask
<1>3. PICK s \in Scopes : s = scope[t]
  BY <1>1, <1>2, LiveMember
<1>4. live[s] \in Nat \ {0}
  BY <1>1, <1>2, <1>3, LiveMember
<1>5. /\ cur' = None /\ rq' = rq \o AwaiterToWake(t) \o JoinerToWake(s)
      /\ io' = io \ {awaiter[t]} /\ chanq' = chanq
      /\ scope' = scope /\ awaitable' = awaitable /\ stack' = stack
      /\ captured' = captured /\ holder' = holder /\ timed' = timed
      /\ reason' = reason /\ owner' = owner /\ sstate' = sstate /\ outer' = outer
  BY <1>3 DEF TaskReturns, park_to_pump
<1>6. /\ awaiter' = [awaiter EXCEPT ![t] = None]
      /\ live' = [live EXCEPT ![s] = live[s] - 1]
      /\ waiter' = [waiter EXCEPT ![s] = IF live[s] = 1 THEN None ELSE waiter[s]]
      /\ pc' = [pc EXCEPT ![t] = IF awaitable[t] THEN "returned" ELSE "freed"]
  BY <1>3 DEF TaskReturns, park_to_pump
<1>7. RunType /\ LinkType /\ ScopeType
  BY DEF SchedInv, SchedType
<1>8. /\ awaiter' \in [Tasks -> Tasks \cup {None}] /\ awaiter'[t] = None
      /\ \A u \in Tasks : u # t => awaiter'[u] = awaiter[u]
  BY <1>6, <1>7 DEF LinkType
<1>9. /\ waiter' \in [Scopes -> Tasks \cup {None}]
      /\ waiter'[s] = (IF live[s] = 1 THEN None ELSE waiter[s])
      /\ \A r \in Scopes : r # s => waiter'[r] = waiter[r]
  BY <1>6, <1>7 DEF LinkType
<1>10. /\ live' \in [Scopes -> Int] /\ live'[s] = live[s] - 1
       /\ \A r \in Scopes : r # s => live'[r] = live[r]
  <2>1. live \in [Scopes -> Int]
    BY <1>7 DEF ScopeType
  <2> QED BY <1>6, <2>1
<1>11. /\ pc' \in [Tasks -> Places] /\ pc'[t] \in {"returned", "freed"}
       /\ awaitable[t] => pc'[t] = "returned"
       /\ \A u \in Tasks : u # t => pc'[u] = pc[u]
  BY <1>6, <1>7 DEF RunType, Places
<1> QED BY <1>1, <1>3, <1>4, <1>5, <1>8, <1>9, <1>10, <1>11

(* task_trampoline after the body: the rest of the invariant.               *)
LEMMA TaskReturnsStep ==
  ASSUME SchedInv, NEW t \in Tasks, TaskReturns(t)
  PROVE  SchedInv'
<1>1. PICK s \in Scopes :
        /\ s = scope[t] /\ live[s] \in Nat \ {0}
        /\ cur = t /\ pc[t] = "body" /\ t # Main /\ stack[t] = <<>>
        /\ cur' = None /\ rq' = rq \o AwaiterToWake(t) \o JoinerToWake(s)
        /\ io' = io \ {awaiter[t]} /\ chanq' = chanq
        /\ scope' = scope /\ awaitable' = awaitable /\ stack' = stack
        /\ captured' = captured /\ holder' = holder /\ timed' = timed
        /\ reason' = reason /\ owner' = owner /\ sstate' = sstate /\ outer' = outer
        /\ awaiter' \in [Tasks -> Tasks \cup {None}] /\ awaiter'[t] = None
        /\ \A u \in Tasks : u # t => awaiter'[u] = awaiter[u]
        /\ live' \in [Scopes -> Int] /\ live'[s] = live[s] - 1
        /\ \A r \in Scopes : r # s => live'[r] = live[r]
        /\ waiter' \in [Scopes -> Tasks \cup {None}]
        /\ waiter'[s] = (IF live[s] = 1 THEN None ELSE waiter[s])
        /\ \A r \in Scopes : r # s => waiter'[r] = waiter[r]
        /\ pc' \in [Tasks -> Places] /\ pc'[t] \in {"returned", "freed"}
        /\ awaitable[t] => pc'[t] = "returned"
        /\ \A u \in Tasks : u # t => pc'[u] = pc[u]
  BY TaskReturnsFacts
<1>2. PICK A \in SUBSET Tasks : A = WokenAwaiter(t)
  BY DEF WokenAwaiter
<1>3. PICK J \in SUBSET Tasks : J = WokenJoiner(s)
  BY DEF WokenJoiner
<1>4. /\ cur' \in Tasks \cup {None} /\ rq' \in Seq(Tasks) /\ NoDup(rq)' /\ (cur \notin Elems(rq))'
      /\ \A u \in Tasks : Ready(u)' <=> (Ready(u) /\ u # t) \/ u \in A \/ u \in J
      /\ \A u \in A : ~Ready(u) /\ u # t
      /\ \A u \in J : ~Ready(u) /\ u # t /\ pc[u] = "join" /\ Innermost(u) = s
      /\ \A u \in Tasks : u = awaiter[t] => /\ pc[u] \in {"await", "deadline"} /\ u # t
                                            /\ u \in io => pc[u] = "deadline"
                                            /\ u \in A \/ Ready(u)
  <2>1. cur = t /\ pc[t] = "body" /\ cur' = None /\ rq' = rq \o AwaiterToWake(t) \o JoinerToWake(s)
    BY <1>1
  <2>2. /\ cur' \in Tasks \cup {None} /\ rq' \in Seq(Tasks) /\ NoDup(rq)' /\ (cur \notin Elems(rq))'
        /\ \A u \in Tasks : Ready(u)' <=> (Ready(u) /\ u # t) \/ u \in WokenAwaiter(t) \/ u \in WokenJoiner(s)
        /\ \A u \in WokenAwaiter(t) : ~Ready(u) /\ u # t
        /\ \A u \in WokenJoiner(s) : ~Ready(u) /\ u # t /\ pc[u] = "join" /\ Innermost(u) = s
        /\ \A u \in Tasks : u = awaiter[t] => /\ pc[u] \in {"await", "deadline"} /\ u # t
                                              /\ u \in io => pc[u] = "deadline"
                                              /\ u \in WokenAwaiter(t) \/ Ready(u)
    BY <2>1, ReturnWakes
  <2> QED BY <1>2, <1>3, <2>2
<1>5. /\ \A u \in A : u = awaiter[t]
      /\ J # {} => live[s] = 1
      /\ live[s] = 1 /\ waiter[s] # None => waiter[s] \in J
  <2>1. waiter[s] \in Tasks \cup {None}
    BY DEF SchedInv, SchedType, LinkType
  <2>2. \A u : u \in A <=> u \in Tasks /\ u = awaiter[t] /\ (u \in io \/ pc[u] = "await")
    BY <1>2 DEF WokenAwaiter
  <2>3. \A u : u \in J <=> u \in Tasks /\ u = waiter[s] /\ live[s] = 1
    BY <1>3 DEF WokenJoiner
  <2> QED BY <2>1, <2>2, <2>3
<1>6. RunType /\ PollType /\ LinkType /\ ScopeType /\ BirthInv /\ QueueInv /\ PollInv /\ AwaitInv
      /\ JoinInv /\ ScopeInv
  BY DEF SchedInv, SchedType
<1>7. t \notin io /\ t \notin chanq /\ t # None /\ Alive(t) /\ None \notin Tasks
  BY <1>1, RunningTask, QueueTasks
<1>8. PollType' /\ PollInv'
  BY TaskReturnsPoll
<1>9. SchedType'
  <2>1. RunType' /\ LinkType'
    BY <1>1, <1>4, <1>6 DEF RunType, LinkType
  <2>2. ScopeType'
    BY <1>1, <1>6 DEF ScopeType
  <2> QED BY <1>8, <2>1, <2>2 DEF SchedType
<1>10. \A u \in Tasks : (Alive(u)' <=> Alive(u) /\ u # t) /\ (pc'[u] = "unborn" <=> pc[u] = "unborn")
  BY <1>1 DEF Alive
<1>11. BirthInv'
  <2>1. Alive(Main)'
    BY <1>1, <1>6, <1>10 DEF BirthInv, Main, Tasks
  <2>2. \A u \in Tasks : pc[u] = "unborn" => /\ timed'[u] = timed[u] /\ holder'[u] = holder[u]
                                             /\ awaiter'[u] = awaiter[u] /\ stack'[u] = stack[u]
    BY <1>1
  <2> QED BY <1>1, <1>6, <1>10, <2>1, <2>2, BirthFrame
<1>12. AwaitInv'
  <2>1. ASSUME NEW f \in Tasks PROVE AwaitedAt(f)'
    <3>1. CASE awaiter'[f] = None
      BY <3>1 DEF AwaitedAt
    <3>2. CASE awaiter'[f] # None
      <4>1. f # t /\ awaiter'[f] = awaiter[f]
        BY <1>1, <3>2
      <4>2. PICK w \in Tasks : w = awaiter[f]
        BY <1>6, <3>2, <4>1 DEF LinkType
      <4>3. AwaitedAt(f) /\ w # None
        BY <1>6, <1>7 DEF AwaitInv
      <4>4. /\ Alive(f) /\ pc[w] \in {"await", "deadline"}
            /\ pc[w] = "await" => ~Ready(w)
            /\ pc[w] = "deadline" => timed[w] = f
        BY <4>2, <4>3 DEF AwaitedAt
      <4>5. w \notin A
        BY <1>5, <1>6, <4>1, <4>2, <4>3 DEF AwaitInv
      <4>6. pc'[w] = pc[w] /\ Alive(f)' /\ (pc[w] = "await" => ~Ready(w)')
        BY <1>1, <1>4, <1>10, <4>1, <4>4, <4>5
      <4> QED BY <1>1, <4>1, <4>2, <4>4, <4>6 DEF AwaitedAt, Ready
    <3> QED BY <3>1, <3>2
  <2>2. ASSUME NEW x \in Tasks PROVE TimedAt(x)'
    <3>1. TimedAt(x)
      BY <1>6 DEF AwaitInv
    <3>2. CASE timed[x] = None
      BY <1>1, <3>1, <3>2 DEF TimedAt
    <3>3. CASE timed[x] # None
      <4>1. PICK b \in Tasks : b = timed[x]
        BY <1>6, <3>3 DEF LinkType
      <4>2. /\ pc[x] \in {"deadline", "reclassify"}
            /\ Alive(b) \/ pc[b] = "returned"
            /\ awaitable[b] /\ holder[b] = None /\ awaiter[b] \in {None, x}
            /\ stack[x] # <<>> /\ scope[b] = Innermost(x)
            /\ x \in io => awaiter[b] = x
            /\ pc[x] = "reclassify" => awaiter[b] = None
        BY <3>1, <3>3, <4>1 DEF TimedAt
      <4>3. pc'[x] = pc[x]
        BY <1>1, <4>2
      <4>4. Alive(b)' \/ pc'[b] = "returned"
        BY <1>1, <1>10, <4>2
      <4>5. awaiter'[b] \in {None, x} /\ (pc[x] = "reclassify" => awaiter'[b] = None)
        BY <1>1, <4>2
      <4>6. x \in io' => awaiter'[b] = x
        BY <1>1, <4>2
      <4>7. timed'[x] = b /\ b # None /\ Innermost(x)' = Innermost(x)
        BY <1>1, <1>7, <4>1 DEF Innermost
      <4> QED BY <1>1, <4>2, <4>3, <4>4, <4>5, <4>6, <4>7 DEF TimedAt, Alive, Innermost
    <3> QED BY <3>2, <3>3
  <2>3. ASSUME NEW f \in Tasks PROVE HeldAt(f)'
    <3>1. HeldAt(f) /\ (awaiter'[f] = awaiter[f] \/ awaiter'[f] = None)
      BY <1>1, <1>6 DEF AwaitInv
    <3> QED BY <1>1, <1>10, <3>1 DEF HeldAt
  <2>4. ASSUME NEW f \in Tasks, NEW g \in Tasks, awaiter'[f] # None, awaiter'[f] = awaiter'[g] PROVE f = g
    BY <1>1, <1>6, <2>4 DEF AwaitInv
  <2> QED BY <2>1, <2>2, <2>3, <2>4 DEF AwaitInv
<1>13. ASSUME NEW u \in Tasks, pc[u] = "join"
       PROVE  u # t /\ u \notin A /\ pc'[u] = "join" /\ (Ready(u)' <=> Ready(u) \/ u \in J)
  <2>1. u # t /\ u \notin A
    BY <1>1, <1>4, <1>5, <1>13
  <2> QED BY <1>1, <1>4, <1>13, <2>1
<1>14. JoinInv'
  <2>1. ASSUME NEW r \in Scopes PROVE JoinedAt(r)'
    <3>1. CASE waiter'[r] = None
      BY <3>1 DEF JoinedAt
    <3>2. CASE waiter'[r] # None
      <4>1. waiter'[r] = waiter[r] /\ (r = s => live[s] # 1)
        BY <1>1, <3>2
      <4>2. PICK w \in Tasks : w = waiter[r]
        BY <1>6, <3>2, <4>1 DEF LinkType
      <4>3. pc[w] = "join" /\ ~Ready(w) /\ Innermost(w) = r /\ live[r] > 0
        BY <1>6, <1>7, <4>2 DEF JoinInv, JoinedAt
      <4>4. w \notin J
        BY <1>4, <1>5, <4>1, <4>3
      <4>5. pc'[w] = "join" /\ ~Ready(w)'
        BY <1>13, <4>3, <4>4
      <4>6. live'[r] > 0 /\ Innermost(w)' = r
        BY <1>1, <4>1, <4>3 DEF Innermost
      <4> QED BY <4>1, <4>2, <4>5, <4>6 DEF JoinedAt, Ready, Innermost
    <3> QED BY <3>1, <3>2
  <2>2. ASSUME NEW u \in Tasks PROVE JoiningAt(u)'
    <3>1. CASE pc[u] = "join"
      <4>1. /\ stack[u] # <<>> /\ Innermost(u) \in Scopes /\ (Ready(u) => live[Innermost(u)] = 0)
            /\ Innermost(u)' = Innermost(u)
        BY <1>1, <3>1, Joiners DEF Innermost
      <4>2. Ready(u) => live'[Innermost(u)] = 0
        BY <1>1, <4>1
      <4>3. u \in J => live'[Innermost(u)] = 0
        BY <1>1, <1>4, <1>5
      <4> QED BY <1>1, <1>13, <3>1, <4>1, <4>2, <4>3 DEF JoiningAt
    <3>2. CASE pc[u] # "join"
      BY <1>1, <3>2 DEF JoiningAt
    <3> QED BY <3>1, <3>2
  <2> QED BY <2>1, <2>2 DEF JoinInv
<1>15. ScopeInv'
  <2>1. \A d \in {t} : Alive(d) /\ scope[d] = s /\ stack[d] = <<>>
    BY <1>1, <1>7
  <2>2. Cardinality({t}) = 1
    BY FS_Singleton
  <2>3. \A u \in Tasks : u \in io' \cup chanq' /\ pc'[u] # "deadline" => u \in io \cup chanq /\ pc[u] # "deadline"
    BY <1>1, <1>7
  <2>4. {t} \in SUBSET Tasks /\ \A u \in Tasks : Alive(u)' <=> Alive(u) /\ u \notin {t}
    BY <1>10
  <2>5. /\ stack' = stack /\ sstate' = sstate /\ owner' = owner /\ outer' = outer /\ scope' = scope
        /\ captured' = captured /\ live'[s] = live[s] - Cardinality({t})
        /\ \A r \in Scopes : r # s => live'[r] = live[r]
    BY <1>1, <2>2
  <2> QED BY <1>6, <2>1, <2>3, <2>4, <2>5, ScopeLeave
<1>16. QueueInv'
  <2> DEFINE M == {u \in Tasks : u = t \/ u = awaiter[t] \/ u \in J}
  <2>1. \A u \in Tasks : u \notin M => Stays(u)
    BY <1>1, <1>4, <1>5 DEF Stays
  <2>2. ASSUME NEW u \in M PROVE PlacedAt(u)'
    <3>1. CASE u = t
      <4>1. ~Ready(t)' /\ t \notin io' /\ t \notin chanq'
        BY <1>1, <1>4, <1>7
      <4> QED BY <1>1, <3>1, <4>1 DEF PlacedAt, RunPlaces, PollPlaces
    <3>2. CASE u = awaiter[t]
      <4>1. pc[u] \in {"await", "deadline"} /\ u # t /\ Ready(u)' /\ PlacedAt(u)
        BY <1>4, <1>6, <3>2 DEF QueueInv
      <4>2. pc'[u] = pc[u] /\ u \notin io' /\ u \notin chanq' /\ Alive(u)'
        BY <1>1, <3>2, <4>1 DEF PlacedAt, Alive
      <4> QED BY <4>1, <4>2 DEF PlacedAt, RunPlaces, PollPlaces
    <3>3. CASE u \in J
      <4>1. pc[u] = "join" /\ u # t /\ Ready(u)' /\ PlacedAt(u)
        BY <1>4, <1>6, <3>3 DEF QueueInv
      <4>2. pc'[u] = "join" /\ u \notin io' /\ u \notin chanq' /\ Alive(u)'
        BY <1>1, <4>1 DEF PlacedAt, PollPlaces, Alive
      <4> QED BY <4>1, <4>2 DEF PlacedAt, RunPlaces, PollPlaces
    <3> QED BY <3>1, <3>2, <3>3
  <2>3. \A f \in Tasks : awaiter'[f] = awaiter[f] \/ awaiter[f] \in M \cup {None}
    <3>1. awaiter[t] \in Tasks \cup {None}
      BY <1>6 DEF LinkType
    <3> QED BY <1>1, <3>1
  <2>4. \A r \in Scopes : waiter'[r] = waiter[r] \/ waiter[r] \in M \cup {None}
    BY <1>1, <1>5
  <2>5. M \in SUBSET Tasks /\ (cur' # None => batch' = {})
    BY <1>1
  <2> HIDE DEF M
  <2>6. \A u \in Tasks : u \notin M /\ pc[u] = "join" => stack'[u] = stack[u]
    BY <1>1
  <2> QED BY <1>4, <2>1, <2>2, <2>3, <2>4, <2>5, <2>6, QueueFrame
<1> QED BY <1>8, <1>9, <1>11, <1>12, <1>14, <1>15, <1>16 DEF SchedInv

(* A resumed deadline owner and its body: nobody else waits for the body,   *)
(* and the owner's timer is gone.                                           *)
LEMMA DeadlineFacts ==
  ASSUME SchedInv, NEW t \in Tasks, cur = t, pc[t] \in {"deadline", "reclassify"}
  PROVE  /\ timed[t] \in Tasks /\ (Alive(timed[t]) \/ pc[timed[t]] = "returned")
         /\ awaitable[timed[t]] /\ holder[timed[t]] = None /\ awaiter[timed[t]] \in {None, t}
         /\ stack[t] # <<>> /\ scope[timed[t]] = Innermost(t) /\ Innermost(t) \in Scopes
         /\ owner[Innermost(t)] = t
         /\ \A x \in Tasks : timed[x] = timed[t] => x = t
         /\ \A f \in Tasks : awaiter[f] = t => f = timed[t]
         /\ ~Timer(t) /\ ~Fd(t) /\ t \notin sockets
<1>1. TimedAt(t) /\ LinkType /\ None \notin Tasks
  BY QueueTasks DEF SchedInv, AwaitInv, SchedType
<1>2. PICK c \in Tasks : c = timed[t]
  BY <1>1 DEF TimedAt, LinkType
<1>3. /\ Alive(c) \/ pc[c] = "returned"
      /\ awaitable[c] /\ holder[c] = None /\ awaiter[c] \in {None, t}
      /\ stack[t] # <<>> /\ scope[c] = Innermost(t)
  BY <1>1, <1>2 DEF TimedAt
<1>4. Innermost(t) \in Scopes /\ owner[Innermost(t)] = t
  BY <1>3, InnermostScope
<1>5. ASSUME NEW x \in Tasks, timed[x] = c PROVE x = t
  <2>1. TimedAt(x)
    BY DEF SchedInv, AwaitInv
  <2>2. stack[x] # <<>> /\ scope[c] = Innermost(x)
    BY <1>1, <1>5, <2>1 DEF TimedAt
  <2>3. owner[Innermost(x)] = x
    BY <2>2, InnermostScope
  <2> QED BY <1>3, <1>4, <2>2, <2>3
<1>6. ASSUME NEW f \in Tasks, awaiter[f] = t PROVE f = c
  <2>1. AwaitedAt(f) /\ t # None
    BY <1>1 DEF SchedInv, AwaitInv
  <2> QED BY <1>2, <1>6, <2>1, RunningTask DEF AwaitedAt
<1>7. ~Timer(t) /\ ~Fd(t) /\ t \notin sockets
  <2>1. t \notin io /\ PolledAt(t)
    BY RunningTask DEF SchedInv, PollInv
  <2> QED BY <2>1 DEF PolledAt, ParksOnTimer, ParksOnFd
<1> QED BY <1>2, <1>3, <1>4, <1>5, <1>6, <1>7

(* Awaits and deadlines, when the owner t stops waiting for its body c.     *)
LEMMA DeadlineAwait ==
  ASSUME SchedInv, LinkType', NEW t \in Tasks, cur = t, pc[t] \in {"deadline", "reclassify"},
         NEW c \in Tasks, c = timed[t], c # t,
         awaiter'[c] = None, \A u \in Tasks : u # c => awaiter'[u] = awaiter[u],
         \A u \in Tasks : u # t => timed'[u] = timed[u],
         holder' = holder, awaitable' = awaitable, scope' = scope, stack' = stack,
         \A u \in Tasks : u \notin {t, c} => pc'[u] = pc[u],
         pc'[c] = pc[c] \/ (pc[c] \in {"fd", "fdtimer", "sleep", "chan"} /\ pc'[c] \in {"dropped", "freed"}),
         pc'[t] \in {"finish", "reclassify"}, TimedAt(t)',
         io' \subseteq io, \A u \in Tasks : Ready(u)' => Ready(u)
  PROVE  AwaitInv'
<1>1. AwaitInv /\ LinkType
  BY DEF SchedInv, SchedType
<1>2. /\ \A x \in Tasks : timed[x] = c => x = t
      /\ \A f \in Tasks : awaiter[f] = t => f = c
  BY DeadlineFacts
<1>3. None \notin Tasks
  BY QueueTasks
<1>4. ASSUME NEW f \in Tasks PROVE AwaitedAt(f)'
  <2>1. CASE awaiter'[f] = None
    BY <2>1 DEF AwaitedAt
  <2>2. CASE awaiter'[f] # None
    <3>1. f # c /\ awaiter'[f] = awaiter[f]
      BY <2>2
    <3>2. PICK w \in Tasks : w = awaiter[f]
      BY <1>1, <2>2, <3>1 DEF LinkType
    <3>3. AwaitedAt(f) /\ w # t
      BY <1>1, <1>2, <3>1, <3>2 DEF AwaitInv
    <3>4. /\ Alive(f) /\ pc[w] \in {"await", "deadline"}
          /\ pc[w] = "await" => ~Ready(w)
          /\ pc[w] = "deadline" => timed[w] = f
      BY <2>2, <3>1, <3>2, <3>3 DEF AwaitedAt
    <3>5. pc'[w] = pc[w] /\ timed'[w] = timed[w] /\ (pc[w] = "await" => ~Ready(w)')
      BY <3>3, <3>4
    <3>6. Alive(f)'
      BY <3>1, <3>4 DEF Alive
    <3> QED BY <3>1, <3>2, <3>4, <3>5, <3>6 DEF AwaitedAt, Ready
  <2> QED BY <2>1, <2>2
<1>5. ASSUME NEW x \in Tasks, x # t PROVE TimedAt(x)'
  <2>1. TimedAt(x) /\ timed'[x] = timed[x]
    BY <1>1, <1>5 DEF AwaitInv
  <2>2. CASE timed[x] = None
    <3>1. pc[x] \notin {"deadline", "reclassify"}
      BY <2>1, <2>2 DEF TimedAt
    <3>2. pc'[x] \notin {"deadline", "reclassify"}
      BY <1>5, <3>1
    <3> QED BY <2>1, <2>2, <3>2 DEF TimedAt
  <2>3. CASE timed[x] # None
    <3>1. PICK b \in Tasks : b = timed[x]
      BY <1>1, <2>3 DEF LinkType
    <3>2. b # c
      BY <1>2, <1>5, <3>1
    <3>3. /\ pc[x] \in {"deadline", "reclassify"}
          /\ Alive(b) \/ pc[b] = "returned"
          /\ awaitable[b] /\ holder[b] = None /\ awaiter[b] \in {None, x}
          /\ stack[x] # <<>> /\ scope[b] = Innermost(x)
          /\ x \in io => awaiter[b] = x
          /\ pc[x] = "reclassify" => awaiter[b] = None
      BY <2>1, <2>3, <3>1 DEF TimedAt
    <3>4. pc'[x] = pc[x]
      BY <1>5, <3>3
    <3>5. Alive(b)' \/ pc'[b] = "returned"
      BY <3>2, <3>3 DEF Alive
    <3>6. awaiter'[b] = awaiter[b] /\ (x \in io' => x \in io) /\ timed'[x] = b /\ b # None
          /\ Innermost(x)' = Innermost(x)
      BY <1>3, <2>1, <3>1, <3>2 DEF Innermost
    <3> QED BY <3>3, <3>4, <3>5, <3>6 DEF TimedAt, Alive, Innermost
  <2> QED BY <2>2, <2>3
<1>6. ASSUME NEW f \in Tasks PROVE HeldAt(f)'
  <2>1. HeldAt(f) /\ (awaiter'[f] = awaiter[f] \/ awaiter'[f] = None)
    BY <1>1 DEF AwaitInv
  <2>2. pc'[f] = "unborn" => pc[f] = "unborn"
    OBVIOUS
  <2> QED BY <2>1, <2>2 DEF HeldAt
<1>7. ASSUME NEW f \in Tasks, NEW g \in Tasks, awaiter'[f] # None, awaiter'[f] = awaiter'[g] PROVE f = g
  BY <1>1, <1>7 DEF AwaitInv
<1> QED BY <1>4, <1>5, <1>6, <1>7 DEF AwaitInv

(* The body has finished.                                                   *)
LEMMA DeadlineCompletedStep ==
  ASSUME SchedInv, NEW t \in Tasks, DeadlineCompleted(t)
  PROVE  SchedInv'
<1>1. cur = t /\ pc[t] \in {"deadline", "reclassify"} /\ pc[timed[t]] = "returned"
  BY DEF DeadlineCompleted, InDeadline, Resumed
<1>2. PICK c \in Tasks : c = timed[t]
  BY <1>1, DeadlineFacts
<1>3. t \notin io /\ t \notin chanq /\ batch = {} /\ Ready(t) /\ c # t
  BY <1>1, <1>2, RunningTask
<1>4. /\ cur' = cur /\ rq' = rq /\ io' = io /\ chanq' = chanq /\ batch' = batch
      /\ sprout_poll_remove_timer({}) /\ armed' = armed \ TimerEvents({})
      /\ scope' = scope /\ awaitable' = awaitable /\ stack' = stack /\ captured' = captured /\ holder' = holder
      /\ park_timer_id' = park_timer_id /\ park_woke_by_timer' = park_woke_by_timer
      /\ sockets' = sockets /\ hooked' = hooked
      /\ live' = live /\ waiter' = waiter /\ reason' = reason /\ owner' = owner /\ sstate' = sstate /\ outer' = outer
  BY <1>3 DEF DeadlineCompleted, scopeVars
<1>5. /\ awaiter' = [awaiter EXCEPT ![c] = None] /\ timed' = [timed EXCEPT ![t] = None]
      /\ pc' = [pc EXCEPT ![t] = "finish"]
  BY <1>2 DEF DeadlineCompleted, DeadlineEnds
<1>6. RunType /\ PollType /\ LinkType /\ ScopeType /\ BirthInv /\ QueueInv /\ PollInv /\ AwaitInv
      /\ JoinInv /\ ScopeInv
  BY DEF SchedInv, SchedType
<1>7. /\ pc' \in [Tasks -> Places] /\ pc'[t] = "finish" /\ \A u \in Tasks : u # t => pc'[u] = pc[u]
      /\ awaiter' \in [Tasks -> Tasks \cup {None}] /\ awaiter'[c] = None
      /\ \A u \in Tasks : u # c => awaiter'[u] = awaiter[u]
      /\ timed' \in [Tasks -> Tasks \cup {None}] /\ timed'[t] = None
      /\ \A u \in Tasks : u # t => timed'[u] = timed[u]
  BY <1>5, <1>6 DEF RunType, LinkType, Places
<1>8. /\ cur' \in Tasks \cup {None} /\ rq' \in Seq(Tasks) /\ NoDup(rq)' /\ (cur \notin Elems(rq))'
      /\ \A u \in Tasks : Ready(u)' <=> Ready(u)
  BY <1>4, CpuKeeps
<1>9. PollType' /\ PollInv'
  <2>1. {t} \in SUBSET Tasks /\ {} \in SUBSET {t} /\ {} \in SUBSET {t}
    OBVIOUS
  <2>2. \A u \in {t} : (u \in {} <=> Timer(u)) /\ (Fd(u) => u \in {})
    BY <1>1, DeadlineFacts
  <2>3. armed' = armed \ (TimerEvents({}) \cup FdEvents({}))
    BY <1>4 DEF FdEvents
  <2>4. sockets' \subseteq Tasks /\ hooked' \subseteq Tasks
    BY <1>4, <1>6 DEF PollType
  <2>5. \A u \in Tasks : u \notin {t} =>
           /\ pc'[u] = pc[u] \/ (pc[u] \notin PollPlaces /\ pc'[u] \notin PollPlaces)
           /\ (u \in io' <=> u \in io) /\ (u \in sockets' <=> u \in sockets) /\ (u \in hooked' <=> u \in hooked)
    BY <1>4, <1>7
  <2>6. \A u \in {t} : /\ u \notin io' /\ u \notin sockets'
                       /\ pc'[u] \notin PollPlaces \/ (pc'[u] = "deadline" /\ pc[u] = "deadline")
    BY <1>1, <1>3, <1>4, <1>7, DeadlineFacts DEF PollPlaces
  <2> QED BY <1>3, <1>4, <2>1, <2>2, <2>3, <2>4, <2>5, <2>6, PollLeaves
<1>10. SchedType'
  <2>1. RunType' /\ LinkType'
    BY <1>4, <1>6, <1>7, <1>8 DEF RunType, LinkType
  <2>2. ScopeType'
    BY <1>4, <1>6 DEF ScopeType
  <2> QED BY <1>9, <2>1, <2>2 DEF SchedType
<1>11. \A u \in Tasks : (Alive(u)' <=> Alive(u)) /\ (pc'[u] = "unborn" <=> pc[u] = "unborn")
  BY <1>1, <1>7 DEF Alive
<1>12. BirthInv'
  <2>1. Alive(Main)'
    BY <1>6, <1>11 DEF BirthInv, Main, Tasks
  <2>2. \A u \in Tasks : pc[u] = "unborn" => /\ timed'[u] = timed[u] /\ holder'[u] = holder[u]
                                             /\ awaiter'[u] = awaiter[u] /\ stack'[u] = stack[u]
    BY <1>1, <1>2, <1>4, <1>7
  <2> QED BY <1>4, <1>6, <1>11, <2>1, <2>2, BirthFrame
<1>13. AwaitInv'
  <2>1. TimedAt(t)'
    BY <1>7 DEF TimedAt
  <2>2. LinkType' /\ io' \subseteq io /\ \A u \in Tasks : Ready(u)' => Ready(u)
    BY <1>4, <1>8, <1>10 DEF SchedType
  <2>3. pc'[c] = pc[c] /\ pc'[t] \in {"finish", "reclassify"} /\ \A u \in Tasks : u \notin {t, c} => pc'[u] = pc[u]
    BY <1>3, <1>7
  <2> QED BY <1>1, <1>2, <1>3, <1>4, <1>7, <2>1, <2>2, <2>3, DeadlineAwait
<1>14. JoinInv'
  <2>1. \A u \in Tasks : (pc'[u] = "join" <=> pc[u] = "join") /\ (pc[u] = "join" => (Ready(u)' <=> Ready(u)))
    BY <1>1, <1>7, <1>8
  <2> QED BY <1>4, <1>6, <2>1, JoinFrame, Joiners
<1>15. ScopeInv'
  <2>1. \A u \in Tasks : u \in io' \cup chanq' /\ pc'[u] # "deadline" =>
          (u \in io \cup chanq /\ pc[u] # "deadline") \/ scope[u] = None \/ stack[u] = <<>>
    BY <1>3, <1>4, <1>7
  <2> QED BY <1>4, <1>6, <1>11, <2>1, ScopeFrame
<1>16. QueueInv'
  <2>1. \A u \in Tasks : u \notin {t} => Stays(u)
    BY <1>4, <1>7, <1>8 DEF Stays
  <2>2. PlacedAt(t)'
    BY <1>3, <1>4, <1>7, <1>8 DEF PlacedAt, RunPlaces, PollPlaces, Alive
  <2>3. {t} \in SUBSET Tasks /\ (\A u \in {t} : PlacedAt(u)') /\ (cur' # None => batch' = {})
    BY <1>3, <1>4, <2>2
  <2>4. awaiter[c] \in {None, t}
    BY <1>1, <1>2, DeadlineFacts
  <2>5. \A f \in Tasks : awaiter'[f] = awaiter[f] \/ awaiter[f] \in {t} \cup {None}
    BY <1>7, <2>4
  <2> QED BY <1>4, <1>8, <2>1, <2>3, <2>5, QueueFrame
<1> QED BY <1>9, <1>10, <1>12, <1>13, <1>14, <1>15, <1>16 DEF SchedInv

(* The body is runnable: its owner queues behind it.                        *)
LEMMA DeadlineRequeuesStep ==
  ASSUME SchedInv, NEW t \in Tasks, DeadlineRequeues(t)
  PROVE  SchedInv'
<1>1. cur = t /\ pc[t] \in {"deadline", "reclassify"} /\ timed[t] \in Elems(rq)
  BY DEF DeadlineRequeues, InDeadline, Resumed
<1>2. PICK c \in Tasks : c = timed[t]
  BY <1>1, DeadlineFacts
<1>3. t \notin io /\ t \notin chanq /\ batch = {} /\ Ready(t) /\ c # t /\ t # None
  BY <1>1, <1>2, RunningTask
<1>4. /\ cur' = None /\ rq' = Append(rq, t) /\ io' = io /\ chanq' = chanq
      /\ UNCHANGED pollVars /\ UNCHANGED parkVars /\ batch' = batch
      /\ scope' = scope /\ awaitable' = awaitable /\ stack' = stack /\ captured' = captured /\ holder' = holder
      /\ timed' = timed
      /\ live' = live /\ waiter' = waiter /\ reason' = reason /\ owner' = owner /\ sstate' = sstate /\ outer' = outer
  BY DEF DeadlineRequeues, scopeVars, rq_push, park_to_pump, pollVars
<1>5. /\ awaiter' = [awaiter EXCEPT ![c] = None] /\ pc' = [pc EXCEPT ![t] = "reclassify"]
  BY <1>2 DEF DeadlineRequeues, park_to_pump
<1>6. RunType /\ PollType /\ LinkType /\ ScopeType /\ BirthInv /\ QueueInv /\ PollInv /\ AwaitInv
      /\ JoinInv /\ ScopeInv
  BY DEF SchedInv, SchedType
<1>7. /\ pc' \in [Tasks -> Places] /\ pc'[t] = "reclassify" /\ \A u \in Tasks : u # t => pc'[u] = pc[u]
      /\ awaiter' \in [Tasks -> Tasks \cup {None}] /\ awaiter'[c] = None
      /\ \A u \in Tasks : u # c => awaiter'[u] = awaiter[u]
  BY <1>5, <1>6 DEF RunType, LinkType, Places
<1>8. /\ cur' \in Tasks \cup {None} /\ rq' \in Seq(Tasks) /\ NoDup(rq)' /\ (cur \notin Elems(rq))'
      /\ \A u \in Tasks : Ready(u)' <=> Ready(u)
  BY <1>1, <1>4, CpuYields
<1>9. PollType' /\ PollInv'
  <2>0. PollType'
    BY <1>4, <1>6 DEF PollType, pollVars, parkVars
  <2>1. /\ armed' = armed /\ batch' = batch /\ timerfd' = timerfd /\ misclosed' = misclosed
        /\ park_timer_id' = park_timer_id /\ park_timer_dead' = park_timer_dead
        /\ park_woke_by_timer' = park_woke_by_timer /\ sockets' = sockets /\ hooked' = hooked
    BY <1>4 DEF pollVars, parkVars
  <2>2. \A u \in Tasks : (Fd(u)' <=> Fd(u)) /\ (Timer(u)' <=> Timer(u))
    BY <2>1 DEF Fd, Timer
  <2>3. \A u \in Tasks : u \notin {t} => PollStays(u)
    BY <1>4, <1>7, <2>1, <2>2 DEF PollStays
  <2>4. ~Timer(t) /\ ~Fd(t) /\ t \notin sockets
    BY <1>1, DeadlineFacts
  <2>5. PolledAt(t)'
    BY <1>7, <2>1, <2>2, <2>4 DEF PolledAt, ParksOnTimer, ParksOnFd
  <2>6. \A i \in Timers : timerfd[i] # t
    BY <1>3, <1>6, <2>4 DEF PollInv
  <2>7. /\ \A i \in Timers : timerfd'[i] = timerfd[i] \/ {timerfd[i], timerfd'[i]} \subseteq {t} \cup {None}
        /\ \A i \in Timers, u \in {t} : timerfd'[i] = u => Timer(u)' /\ park_timer_id'[u] = i
    BY <2>1, <2>6
  <2>8. {t} \in SUBSET Tasks /\ (\A u \in {t} : PolledAt(u)') /\ armed' \cap batch' = {} /\ ~misclosed'
    BY <1>6, <2>1, <2>5 DEF PollInv
  <2> QED BY <1>6, <2>0, <2>3, <2>7, <2>8, PollOthers
<1>10. SchedType'
  <2>1. RunType' /\ LinkType'
    BY <1>4, <1>6, <1>7, <1>8 DEF RunType, LinkType
  <2>2. ScopeType'
    BY <1>4, <1>6 DEF ScopeType
  <2> QED BY <1>9, <2>1, <2>2 DEF SchedType
<1>11. \A u \in Tasks : (Alive(u)' <=> Alive(u)) /\ (pc'[u] = "unborn" <=> pc[u] = "unborn")
  BY <1>1, <1>7 DEF Alive
<1>12. pc[c] # "unborn" /\ awaiter[c] \in {None, t}
  BY <1>1, <1>2, DeadlineFacts DEF Alive
<1>13. BirthInv'
  <2>1. Alive(Main)'
    BY <1>6, <1>11 DEF BirthInv, Main, Tasks
  <2>2. \A u \in Tasks : pc[u] = "unborn" => /\ timed'[u] = timed[u] /\ holder'[u] = holder[u]
                                             /\ awaiter'[u] = awaiter[u] /\ stack'[u] = stack[u]
    BY <1>4, <1>7, <1>12
  <2> QED BY <1>4, <1>6, <1>11, <2>1, <2>2, BirthFrame
<1>14. AwaitInv'
  <2>1. TimedAt(t)'
    <3>1. /\ Alive(c) \/ pc[c] = "returned"
          /\ awaitable[c] /\ holder[c] = None /\ stack[t] # <<>> /\ scope[c] = Innermost(t)
      BY <1>1, <1>2, DeadlineFacts
    <3>2. (Alive(c)' \/ pc'[c] = "returned") /\ c # None
      BY <1>3, <1>7, <1>11, <3>1, QueueTasks
    <3>3. timed'[t] = c /\ Innermost(t)' = Innermost(t)
      BY <1>2, <1>4 DEF Innermost
    <3> QED BY <1>3, <1>4, <1>7, <3>1, <3>2, <3>3 DEF TimedAt, Alive, Innermost
  <2>2. LinkType' /\ io' \subseteq io /\ \A u \in Tasks : Ready(u)' => Ready(u)
    BY <1>4, <1>8, <1>10 DEF SchedType
  <2>3. pc'[c] = pc[c] /\ pc'[t] \in {"finish", "reclassify"} /\ \A u \in Tasks : u \notin {t, c} => pc'[u] = pc[u]
    BY <1>3, <1>7
  <2>4. \A u \in Tasks : u # t => timed'[u] = timed[u]
    BY <1>4
  <2> QED BY <1>1, <1>2, <1>3, <1>4, <1>7, <2>1, <2>2, <2>3, <2>4, DeadlineAwait
<1>15. JoinInv'
  <2>1. \A u \in Tasks : (pc'[u] = "join" <=> pc[u] = "join") /\ (pc[u] = "join" => (Ready(u)' <=> Ready(u)))
    BY <1>1, <1>7, <1>8
  <2> QED BY <1>4, <1>6, <2>1, JoinFrame, Joiners
<1>16. ScopeInv'
  <2>1. \A u \in Tasks : u \in io' \cup chanq' /\ pc'[u] # "deadline" =>
          (u \in io \cup chanq /\ pc[u] # "deadline") \/ scope[u] = None \/ stack[u] = <<>>
    BY <1>3, <1>4, <1>7
  <2> QED BY <1>4, <1>6, <1>11, <2>1, ScopeFrame
<1>17. QueueInv'
  <2>1. \A u \in Tasks : u \notin {t} => Stays(u)
    BY <1>4, <1>7, <1>8 DEF Stays
  <2>2. PlacedAt(t)'
    BY <1>3, <1>4, <1>7, <1>8 DEF PlacedAt, RunPlaces, PollPlaces, Alive
  <2>3. {t} \in SUBSET Tasks /\ (\A u \in {t} : PlacedAt(u)') /\ (cur' # None => batch' = {})
    BY <1>3, <1>4, <2>2
  <2>5. \A f \in Tasks : awaiter'[f] = awaiter[f] \/ awaiter[f] \in {t} \cup {None}
    BY <1>7, <1>12
  <2> QED BY <1>4, <1>8, <2>1, <2>3, <2>5, QueueFrame
<1> QED BY <1>9, <1>10, <1>13, <1>14, <1>15, <1>16, <1>17 DEF SchedInv

-----------------------------------------------------------------------------
(* Cancel and expiry.                                                       *)

(* A task that force_drop_task accepts is parked, in no scope of its own.   *)
LEMMA DropFacts ==
  ASSUME SchedInv, NEW t \in Tasks, cur = t, NEW s \in Scopes, NEW d \in Tasks,
         d \in io \cup chanq, scope[d] = s, deadline_child(d) = None
  PROVE  /\ pc[d] \in {"fd", "fdtimer", "sleep", "chan"} /\ Alive(d) /\ stack[d] = <<>>
         /\ d # t /\ ~Ready(d) /\ d # Main
         /\ d \in io <=> pc[d] # "chan"
<1>1. PlacedAt(d) /\ TimedAt(d) /\ StackedAt(d) /\ scope[Main] = None
  BY DEF SchedInv, QueueInv, AwaitInv, ScopeInv, BirthInv
<1>2. s # None
  BY DEF Scopes
<1>3. pc[d] # "deadline"
  <2>1. pc[d] = "deadline" => timed[d] # None
    BY <1>1 DEF TimedAt
  <2> QED BY <2>1 DEF deadline_child
<1>4. pc[d] \in {"fd", "fdtimer", "sleep", "chan"}
  BY <1>1, <1>3 DEF PlacedAt, PollPlaces
<1>5. stack[d] = <<>>
  BY <1>1, <1>2, <1>3 DEF StackedAt
<1>6. ~Ready(d) /\ d # t
  BY <1>1, RunningTask DEF PlacedAt
<1>7. d \in io <=> pc[d] # "chan"
  BY <1>1, <1>4, <1>6 DEF PlacedAt, PollPlaces
<1> QED BY <1>1, <1>2, <1>4, <1>5, <1>6, <1>7 DEF Alive

(* The poller, when the running task t drops the tasks D.                   *)
LEMMA DropPoll ==
  ASSUME SchedInv, NEW t \in Tasks, cur = t, NEW s \in Scopes, NEW D \in SUBSET Tasks,
         \A d \in D : d \in io \cup chanq /\ scope[d] = s /\ deadline_child(d) = None,
         force_drop(D, s), batch' = batch,
         park_timer_id' = park_timer_id, park_woke_by_timer' = park_woke_by_timer,
         ~Timer(t), ~Fd(t), t \notin sockets, pc'[t] \notin PollPlaces,
         \A d \in D : pc'[d] \in {"dropped", "freed"},
         \A u \in Tasks : u \notin D \cup {t} => pc'[u] = pc[u]
  PROVE  PollType' /\ PollInv'
<1>1. PICK W \in SUBSET Tasks : W = DroppedTimers(D)
  BY DEF DroppedTimers
<1>2. PICK F \in SUBSET Tasks : F = DroppedFds(D)
  BY DEF DroppedFds
<1>3. PICK T \in SUBSET Tasks : T = D \cup {t}
  OBVIOUS
<1>4. /\ sprout_poll_remove_timer(W) /\ armed' = armed \ (TimerEvents(W) \cup FdEvents(F))
      /\ io' = io \ D /\ sockets' = sockets \ (D \cap hooked) /\ hooked' = hooked \ D
  BY <1>1, <1>2 DEF force_drop, ClosedOnDrop
<1>5. PollType /\ PollInv
  BY DEF SchedInv, SchedType
<1>6. ASSUME NEW d \in D
      PROVE  /\ (d \in W <=> Timer(d)) /\ (Fd(d) => d \in F)
             /\ d \in sockets => d \in hooked
             /\ d # t
  <2>1. d \in Tasks /\ d \in io \cup chanq /\ scope[d] = s /\ deadline_child(d) = None
    OBVIOUS
  <2>2. pc[d] \in {"fd", "fdtimer", "sleep", "chan"} /\ (d \in io <=> pc[d] # "chan") /\ d # t
    BY <2>1, DropFacts
  <2>3. PolledAt(d)
    BY <1>5, <2>1 DEF PollInv
  <2>4. Timer(d) <=> ParksOnTimer(d) /\ ~park_timer_dead[d]
    BY <2>3 DEF PolledAt
  <2>5. d \in W <=> Timer(d)
    BY <1>1, <2>2, <2>4 DEF DroppedTimers, ParksOnTimer
  <2>6. Fd(d) => d \in F
    BY <1>2, <2>3 DEF PolledAt, DroppedFds
  <2>7. d \in sockets => d \in hooked
    BY <2>2, <2>3 DEF PolledAt
  <2> QED BY <2>2, <2>5, <2>6, <2>7
<1>7. W \in SUBSET T /\ F \in SUBSET T
  BY <1>1, <1>2, <1>3 DEF DroppedTimers, DroppedFds
<1>8. t \notin io /\ batch = {} /\ t \notin D
  BY <1>6, RunningTask
<1>9. \A u \in T : (u \in W <=> Timer(u)) /\ (Fd(u) => u \in F)
  <2>1. t \notin W
    BY <1>1, <1>8 DEF DroppedTimers
  <2> QED BY <1>3, <1>6, <2>1
<1>10. sockets' \subseteq Tasks /\ hooked' \subseteq Tasks
  BY <1>4, <1>5 DEF PollType
<1>11. \A u \in Tasks : u \notin T =>
         /\ pc'[u] = pc[u] \/ (pc[u] \notin PollPlaces /\ pc'[u] \notin PollPlaces)
         /\ (u \in io' <=> u \in io) /\ (u \in sockets' <=> u \in sockets) /\ (u \in hooked' <=> u \in hooked)
  BY <1>3, <1>4
<1>12. \A u \in T : /\ u \notin io' /\ u \notin sockets'
                    /\ pc'[u] \notin PollPlaces \/ (pc'[u] = "deadline" /\ pc[u] = "deadline")
  <2>1. \A u \in D : u \notin io' /\ u \notin sockets' /\ pc'[u] \notin PollPlaces
    BY <1>4, <1>6 DEF PollPlaces
  <2> QED BY <1>3, <1>4, <1>8, <2>1
<1> QED BY <1>4, <1>7, <1>8, <1>9, <1>10, <1>11, <1>12, PollLeaves

(* The owner of a scope cancels it.                                         *)
LEMMA ScopeCancelStep ==
  ASSUME SchedInv, NEW t \in Tasks, NEW s \in Scopes, ScopeCancel(t, s)
  PROVE  SchedInv'
<1>1. cur = t /\ pc[t] = "body" /\ owner[s] = t
  BY DEF ScopeCancel, Running
<1>2. RunType /\ PollType /\ LinkType /\ ScopeType /\ BirthInv /\ QueueInv /\ PollInv /\ AwaitInv
      /\ JoinInv /\ ScopeInv
  BY DEF SchedInv, SchedType
<1>3. PICK D \in SUBSET Tasks : D = ParkedIn(s)
  BY <1>2 DEF ParkedIn, RunType
<1>4. /\ cur' = cur /\ rq' = rq /\ batch' = batch /\ force_drop(D, s)
      /\ io' = io \ D /\ chanq' = chanq \ D
      /\ scope' = scope /\ awaiter' = awaiter /\ awaitable' = awaitable /\ stack' = stack
      /\ captured' = captured /\ holder' = holder /\ timed' = timed
      /\ park_timer_id' = park_timer_id /\ park_woke_by_timer' = park_woke_by_timer
      /\ waiter' = waiter /\ owner' = owner /\ sstate' = sstate /\ outer' = outer
  BY <1>3 DEF ScopeCancel, force_drop
<1>5. /\ reason' = [reason EXCEPT ![s] = "cancelled"]
      /\ live' = [live EXCEPT ![s] = @ - Cardinality(D)]
      /\ pc' = [d \in Tasks |-> IF d \in D THEN Dropped(d) ELSE pc[d]]
      /\ \A d \in D : Droppable(d)
  BY <1>3 DEF ScopeCancel, force_drop, DropCount
<1>6. /\ t \notin io /\ t \notin chanq /\ batch = {} /\ Ready(t) /\ t # None
      /\ \A f \in Tasks : awaiter[f] # t
  BY <1>1, RunningTask
<1>7. \A d \in D : d \in io \cup chanq /\ scope[d] = s /\ deadline_child(d) = None
  BY <1>3, <1>5 DEF ParkedIn, Droppable
<1>8. \A d \in D : /\ pc[d] \in {"fd", "fdtimer", "sleep", "chan"} /\ Alive(d) /\ stack[d] = <<>>
                   /\ d # t /\ ~Ready(d) /\ d # Main
  BY <1>1, <1>7, DropFacts
<1>9. \A d \in D : awaiter[d] = None
  BY <1>1, <1>5, <1>6 DEF Droppable, AwaitedBySibling
<1>10. \A d \in D, x \in Tasks : timed[x] # d
  <2> SUFFICES ASSUME NEW d \in D, NEW x \in Tasks, timed[x] = d PROVE FALSE
    OBVIOUS
  <2>1. TimedAt(x) /\ TimedAt(t) /\ d # None
    BY <1>2, QueueTasks DEF AwaitInv
  <2>2. stack[x] # <<>> /\ scope[d] = Innermost(x) /\ pc[x] # "body"
    BY <2>1 DEF TimedAt
  <2>3. owner[Innermost(x)] = x
    BY <2>2, InnermostScope
  <2> QED BY <1>1, <1>7, <2>2, <2>3
<1>11. /\ pc' \in [Tasks -> Places]
       /\ \A d \in D : pc'[d] \in {"dropped", "freed"}
       /\ \A u \in Tasks : u \notin D => pc'[u] = pc[u]
  <2>1. \A d \in Tasks : Dropped(d) \in {"dropped", "freed"}
    BY DEF Dropped
  <2> QED BY <1>2, <1>5, <2>1 DEF RunType, Places
<1>12. t \notin D /\ pc'[t] = "body"
  BY <1>1, <1>8, <1>11
<1>13. /\ cur' \in Tasks \cup {None} /\ rq' \in Seq(Tasks) /\ NoDup(rq)' /\ (cur \notin Elems(rq))'
       /\ \A u \in Tasks : Ready(u)' <=> Ready(u)
  BY <1>4, CpuKeeps
<1>14. PollType' /\ PollInv'
  <2>1. ~Timer(t) /\ ~Fd(t) /\ t \notin sockets
    BY <1>1, Unregistered DEF PollPlaces
  <2>2. pc'[t] \notin PollPlaces
    BY <1>12 DEF PollPlaces
  <2>3. \A u \in Tasks : u \notin D \cup {t} => pc'[u] = pc[u]
    BY <1>11
  <2> QED BY <1>1, <1>4, <1>7, <1>11, <2>1, <2>2, <2>3, DropPoll
<1>15. /\ live' \in [Scopes -> Int] /\ live'[s] = live[s] - Cardinality(D)
       /\ \A r \in Scopes : r # s => live'[r] = live[r]
  <2>1. live \in [Scopes -> Int] /\ Cardinality(D) \in Int
    <3>1. IsFiniteSet(Tasks)
      BY FS_Interval DEF Tasks
    <3>2. Cardinality(D) \in Nat
      BY <3>1, FS_Subset, FS_CardinalityType
    <3>3. live \in [Scopes -> Int]
      BY <1>2 DEF ScopeType
    <3> QED BY <3>2, <3>3
  <2> QED BY <1>5, <2>1
<1>16. SchedType'
  <2>1. RunType' /\ LinkType'
    BY <1>2, <1>4, <1>11, <1>13 DEF RunType, LinkType
  <2>2. reason' \in [Scopes -> {"none", "cancelled", "timed out"}]
    BY <1>2, <1>5 DEF ScopeType
  <2>3. ScopeType'
    BY <1>2, <1>4, <1>15, <2>2 DEF ScopeType
  <2> QED BY <1>14, <2>1, <2>3 DEF SchedType
<1>17. \A u \in Tasks : (Alive(u)' <=> Alive(u) /\ u \notin D) /\ (pc'[u] = "unborn" <=> pc[u] = "unborn")
  <2>1. \A u \in D : ~Alive(u)' /\ pc'[u] # "unborn" /\ pc[u] # "unborn"
    BY <1>8, <1>11 DEF Alive
  <2>2. \A u \in Tasks : u \notin D => (Alive(u)' <=> Alive(u))
    BY <1>11 DEF Alive
  <2> QED BY <1>11, <2>1, <2>2
<1>18. BirthInv'
  <2>1. Alive(Main)'
    BY <1>2, <1>8, <1>17 DEF BirthInv, Main, Tasks
  <2>2. \A u \in Tasks : pc[u] = "unborn" => /\ timed'[u] = timed[u] /\ holder'[u] = holder[u]
                                             /\ awaiter'[u] = awaiter[u] /\ stack'[u] = stack[u]
    BY <1>4
  <2>3. \A u \in Tasks : pc'[u] = "unborn" <=> pc[u] = "unborn"
    BY <1>17
  <2> QED BY <1>2, <1>4, <2>1, <2>2, <2>3, BirthFrame
<1>19. AwaitInv'
  <2>1. \A u \in Tasks : pc'[u] = pc[u] \/ {pc[u], pc'[u]} \subseteq OpenPlaces \/ Back(u) \/ Gone(u)
    <3>1. \A u \in D : Gone(u)
      BY <1>8, <1>9, <1>10, <1>11 DEF Gone
    <3> QED BY <1>11, <3>1
  <2>2. \A u \in Tasks : timed[u] # None => stack'[u] = stack[u] /\ (u \in io' => u \in io)
    BY <1>4
  <2>3. \A u \in Tasks : pc[u] = "await" /\ Ready(u)' => Ready(u)
    BY <1>13
  <2>4. \A u \in Tasks : holder[u] = None => holder'[u] = None
    BY <1>4
  <2> QED BY <1>2, <1>4, <2>1, <2>2, <2>3, <2>4, AwaitFrame
<1>20. JoinInv'
  <2>1. \A u \in Tasks : pc'[u] = "join" <=> pc[u] = "join"
    BY <1>8, <1>11
  <2>2. \A u \in Tasks : pc[u] = "join" => stack'[u] = stack[u] /\ (Ready(u)' <=> Ready(u))
    BY <1>4, <1>13
  <2>3. \A u \in Tasks : pc[u] = "join" => Innermost(u) \in Scopes /\ Innermost(u) # s
    BY <1>1, Joiners
  <2>4. \A r \in Scopes : live'[r] = live[r] \/ (\A u \in Tasks : pc[u] = "join" => Innermost(u) # r)
    BY <1>15, <2>3
  <2>5. \A u \in Tasks : pc[u] = "join" => Innermost(u) \in Scopes
    BY <2>3
  <2> QED BY <1>2, <1>4, <2>1, <2>2, <2>4, <2>5, JoinFrame
<1>21. ScopeInv'
  <2>1. \A d \in D : Alive(d) /\ scope[d] = s /\ stack[d] = <<>>
    BY <1>7, <1>8
  <2>2. \A u \in Tasks : u \in io' \cup chanq' /\ pc'[u] # "deadline" => u \in io \cup chanq /\ pc[u] # "deadline"
    BY <1>4, <1>11
  <2>3. \A u \in Tasks : Alive(u)' <=> Alive(u) /\ u \notin D
    BY <1>17
  <2> QED BY <1>2, <1>4, <1>15, <2>1, <2>2, <2>3, ScopeLeave
<1>22. QueueInv'
  <2>1. \A u \in Tasks : u \notin D => Stays(u)
    BY <1>4, <1>11, <1>13 DEF Stays
  <2>2. \A u \in D : PlacedAt(u)'
    BY <1>4, <1>8, <1>11, <1>13 DEF PlacedAt, RunPlaces, PollPlaces, Alive
  <2>3. cur' # None => batch' = {}
    BY <1>4, <1>6
  <2>4. /\ \A f \in Tasks : awaiter'[f] = awaiter[f] \/ awaiter[f] \in D \cup {None}
        /\ \A r \in Scopes : waiter'[r] = waiter[r] \/ waiter[r] \in D \cup {None}
        /\ \A u \in Tasks : u \notin D /\ pc[u] = "join" => stack'[u] = stack[u]
    BY <1>4
  <2> QED BY <1>13, <2>1, <2>2, <2>3, <2>4, QueueFrame
<1> QED BY <1>14, <1>16, <1>18, <1>19, <1>20, <1>21, <1>22 DEF SchedInv

(* The deadline expires with the body parked: the body is dropped.          *)
LEMMA DeadlineExpiredStep ==
  ASSUME SchedInv, NEW t \in Tasks, DeadlineExpired(t)
  PROVE  SchedInv'
<1>1. /\ cur = t /\ pc[t] \in {"deadline", "reclassify"}
      /\ timed[t] \in io \cup chanq /\ deadline_child(timed[t]) = None
  BY DEF DeadlineExpired, InDeadline, Resumed
<1>2. PICK c \in Tasks : c = timed[t]
  BY <1>1, DeadlineFacts
<1>3. PICK s \in Scopes : s = Innermost(t)
  BY <1>1, DeadlineFacts
<1>4. scope[c] = s /\ owner[s] = t /\ awaiter[c] \in {None, t}
  BY <1>1, <1>2, <1>3, DeadlineFacts
<1>5. RunType /\ PollType /\ LinkType /\ ScopeType /\ BirthInv /\ QueueInv /\ PollInv /\ AwaitInv
      /\ JoinInv /\ ScopeInv
  BY DEF SchedInv, SchedType
<1>6. /\ cur' = cur /\ rq' = rq /\ batch' = batch /\ force_drop({c}, s)
      /\ io' = io \ {c} /\ chanq' = chanq \ {c}
      /\ scope' = scope /\ awaitable' = awaitable /\ stack' = stack
      /\ captured' = captured /\ holder' = holder
      /\ park_timer_id' = park_timer_id /\ park_woke_by_timer' = park_woke_by_timer
      /\ waiter' = waiter /\ owner' = owner /\ sstate' = sstate /\ outer' = outer
  BY <1>2, <1>4 DEF DeadlineExpired, force_drop
<1>7. /\ reason' = [reason EXCEPT ![s] = "timed out"]
      /\ awaiter' = [awaiter EXCEPT ![c] = None] /\ timed' = [timed EXCEPT ![t] = None]
      /\ pc' = [pc EXCEPT ![t] = "finish", ![c] = Dropped(c)]
  BY <1>2, <1>4 DEF DeadlineExpired, DeadlineEnds
<1>8. live' = [live EXCEPT ![s] = @ - Cardinality({c})]
  BY <1>6 DEF force_drop, DropCount
<1>9. c \in io \cup chanq /\ deadline_child(c) = None
  BY <1>1, <1>2
<1>10. /\ pc[c] \in {"fd", "fdtimer", "sleep", "chan"} /\ Alive(c) /\ stack[c] = <<>>
       /\ c # t /\ ~Ready(c) /\ c # Main
  BY <1>1, <1>4, <1>9, DropFacts
<1>11. t \notin io /\ t \notin chanq /\ batch = {} /\ Ready(t) /\ t # None
  BY <1>1, RunningTask
<1>12. Dropped(c) \in {"dropped", "freed"}
  BY DEF Dropped
<1>13. /\ pc' \in [Tasks -> Places] /\ pc'[t] = "finish" /\ pc'[c] \in {"dropped", "freed"}
       /\ \A u \in Tasks : u \notin {t, c} => pc'[u] = pc[u]
  BY <1>5, <1>7, <1>10, <1>12 DEF RunType, Places
<1>14. /\ awaiter' \in [Tasks -> Tasks \cup {None}] /\ awaiter'[c] = None
       /\ \A u \in Tasks : u # c => awaiter'[u] = awaiter[u]
       /\ timed' \in [Tasks -> Tasks \cup {None}] /\ timed'[t] = None
       /\ \A u \in Tasks : u # t => timed'[u] = timed[u]
  BY <1>5, <1>7 DEF LinkType
<1>15. /\ cur' \in Tasks \cup {None} /\ rq' \in Seq(Tasks) /\ NoDup(rq)' /\ (cur \notin Elems(rq))'
       /\ \A u \in Tasks : Ready(u)' <=> Ready(u)
  BY <1>6, CpuKeeps
<1>16. PollType' /\ PollInv'
  <2>1. ~Timer(t) /\ ~Fd(t) /\ t \notin sockets
    BY <1>1, DeadlineFacts
  <2>2. pc'[t] \notin PollPlaces
    BY <1>13 DEF PollPlaces
  <2>3. {c} \in SUBSET Tasks /\ \A u \in Tasks : u \notin {c} \cup {t} => pc'[u] = pc[u]
    BY <1>13
  <2>4. \A d \in {c} : d \in io \cup chanq /\ scope[d] = s /\ deadline_child(d) = None
    BY <1>4, <1>9
  <2>5. \A d \in {c} : pc'[d] \in {"dropped", "freed"}
    BY <1>13
  <2> QED BY <1>1, <1>6, <2>1, <2>2, <2>3, <2>4, <2>5, DropPoll
<1>17. /\ live' \in [Scopes -> Int] /\ live'[s] = live[s] - Cardinality({c})
       /\ \A r \in Scopes : r # s => live'[r] = live[r]
  <2>1. live \in [Scopes -> Int] /\ Cardinality({c}) \in Int
    <3>1. Cardinality({c}) \in Int
      BY FS_Singleton
    <3>2. live \in [Scopes -> Int]
      BY <1>5 DEF ScopeType
    <3> QED BY <3>1, <3>2
  <2> QED BY <1>8, <2>1
<1>18. SchedType'
  <2>1. RunType' /\ LinkType'
    BY <1>5, <1>6, <1>13, <1>14, <1>15 DEF RunType, LinkType
  <2>2. reason' \in [Scopes -> {"none", "cancelled", "timed out"}]
    BY <1>5, <1>7 DEF ScopeType
  <2>3. ScopeType'
    BY <1>5, <1>6, <1>17, <2>2 DEF ScopeType
  <2> QED BY <1>16, <2>1, <2>3 DEF SchedType
<1>19. \A u \in Tasks : (Alive(u)' <=> Alive(u) /\ u \notin {c}) /\ (pc'[u] = "unborn" <=> pc[u] = "unborn")
  BY <1>1, <1>10, <1>13 DEF Alive
<1>20. BirthInv'
  <2>1. Alive(Main)'
    BY <1>5, <1>10, <1>19 DEF BirthInv, Main, Tasks
  <2>2. \A u \in Tasks : pc[u] = "unborn" => /\ timed'[u] = timed[u] /\ holder'[u] = holder[u]
                                             /\ awaiter'[u] = awaiter[u] /\ stack'[u] = stack[u]
    BY <1>1, <1>6, <1>10, <1>14
  <2> QED BY <1>5, <1>6, <1>19, <2>1, <2>2, BirthFrame
<1>21. AwaitInv'
  <2>1. TimedAt(t)'
    BY <1>13, <1>14 DEF TimedAt
  <2>2. LinkType' /\ io' \subseteq io /\ \A u \in Tasks : Ready(u)' => Ready(u)
    BY <1>6, <1>15, <1>18 DEF SchedType
  <2>3. /\ pc[c] \in {"fd", "fdtimer", "sleep", "chan"} /\ pc'[c] \in {"dropped", "freed"}
        /\ pc'[t] \in {"finish", "reclassify"} /\ \A u \in Tasks : u \notin {t, c} => pc'[u] = pc[u]
    BY <1>10, <1>13
  <2> QED BY <1>1, <1>2, <1>6, <1>10, <1>14, <2>1, <2>2, <2>3, DeadlineAwait
<1>22. JoinInv'
  <2>1. \A u \in Tasks : pc'[u] = "join" <=> pc[u] = "join"
    BY <1>1, <1>10, <1>13
  <2>2. \A u \in Tasks : pc[u] = "join" => stack'[u] = stack[u] /\ (Ready(u)' <=> Ready(u))
    BY <1>6, <1>15
  <2>3. \A u \in Tasks : pc[u] = "join" => Innermost(u) \in Scopes /\ Innermost(u) # s
    BY <1>1, <1>4, Joiners
  <2>4. \A r \in Scopes : live'[r] = live[r] \/ (\A u \in Tasks : pc[u] = "join" => Innermost(u) # r)
    BY <1>17, <2>3
  <2>5. \A u \in Tasks : pc[u] = "join" => Innermost(u) \in Scopes
    BY <2>3
  <2> QED BY <1>5, <1>6, <2>1, <2>2, <2>4, <2>5, JoinFrame
<1>23. ScopeInv'
  <2>1. {c} \in SUBSET Tasks /\ \A d \in {c} : Alive(d) /\ scope[d] = s /\ stack[d] = <<>>
    BY <1>4, <1>10
  <2>2. \A u \in Tasks : u \in io' \cup chanq' /\ pc'[u] # "deadline" => u \in io \cup chanq /\ pc[u] # "deadline"
    <3>1. \A u \in Tasks : u \in io' \cup chanq' => u \in io \cup chanq /\ u # t /\ u # c
      BY <1>6, <1>11
    <3> QED BY <1>13, <3>1
  <2>3. \A u \in Tasks : Alive(u)' <=> Alive(u) /\ u \notin {c}
    BY <1>19
  <2> QED BY <1>5, <1>6, <1>17, <2>1, <2>2, <2>3, ScopeLeave
<1>24. QueueInv'
  <2>1. {t, c} \in SUBSET Tasks /\ \A u \in Tasks : u \notin {t, c} => Stays(u)
    BY <1>6, <1>13, <1>15 DEF Stays
  <2>2. PlacedAt(c)'
    BY <1>6, <1>10, <1>13, <1>15 DEF PlacedAt, RunPlaces, PollPlaces, Alive
  <2>3. PlacedAt(t)'
    BY <1>6, <1>11, <1>13, <1>15 DEF PlacedAt, RunPlaces, PollPlaces, Alive
  <2>4. (\A u \in {t, c} : PlacedAt(u)') /\ (cur' # None => batch' = {})
    BY <1>6, <1>11, <2>2, <2>3
  <2>5. /\ \A f \in Tasks : awaiter'[f] = awaiter[f] \/ awaiter[f] \in {t, c} \cup {None}
        /\ \A r \in Scopes : waiter'[r] = waiter[r] \/ waiter[r] \in {t, c} \cup {None}
        /\ \A u \in Tasks : u \notin {t, c} /\ pc[u] = "join" => stack'[u] = stack[u]
    BY <1>4, <1>6, <1>14
  <2> QED BY <1>15, <2>1, <2>4, <2>5, QueueFrame
<1> QED BY <1>16, <1>18, <1>20, <1>21, <1>22, <1>23, <1>24 DEF SchedInv

-----------------------------------------------------------------------------
(* SchedInv is inductive.                                                   *)

(* The process starts with main running and nothing else.                   *)
LEMMA SchedInit == Init => SchedInv
<1> SUFFICES ASSUME Init PROVE SchedInv
  OBVIOUS
<1>1. /\ None \notin Tasks /\ Main \in Tasks /\ <<>> \in Seq(Tasks) /\ <<>> \in Seq(Scopes)
      /\ None \notin Scopes
  BY DEF Tasks, Scopes, Main
<1>2. Elems(<<>>) = {}
  BY DEF Elems
<1>3. /\ cur = Main /\ rq = <<>> /\ io = {} /\ chanq = {} /\ armed = {} /\ batch = {} /\ misclosed = FALSE
      /\ timerfd = [i \in Timers |-> None] /\ sockets = {} /\ hooked = {}
      /\ pc[Main] = "body" /\ \A u \in Tasks : u # Main => pc[u] = "unborn"
      /\ \A u \in Tasks : /\ scope[u] = None /\ awaiter[u] = None /\ stack[u] = <<>>
                          /\ captured[u] = {} /\ holder[u] = None /\ timed[u] = None
      /\ \A s \in Scopes : live[s] = 0 /\ waiter[s] = None /\ sstate[s] = "unborn"
  BY <1>1 DEF Init
<1>4. SchedType
  <2>1. RunType
    BY <1>1 DEF Init, RunType, Places
  <2>2. PollType
    BY DEF Init, PollType
  <2>3. LinkType
    BY DEF Init, LinkType
  <2>4. ScopeType
    <3>1. stack \in [Tasks -> Seq(Scopes)] /\ scope \in [Tasks -> Scopes \cup {None}]
      BY <1>1 DEF Init
    <3>2. captured \in [Tasks -> SUBSET Scopes] /\ outer \in [Scopes -> SUBSET Scopes]
      BY DEF Init
    <3>3. /\ live \in [Scopes -> Int] /\ owner \in [Scopes -> Tasks \cup {None}]
          /\ reason \in [Scopes -> {"none", "cancelled", "timed out"}]
          /\ sstate \in [Scopes -> {"unborn", "open", "freed"}]
      BY DEF Init
    <3> QED BY <3>1, <3>2, <3>3 DEF ScopeType
  <2> QED BY <2>1, <2>2, <2>3, <2>4 DEF SchedType
<1>5. \A u \in Tasks : Alive(u) <=> u = Main
  BY <1>3 DEF Alive
<1>6. BirthInv
  <2>1. \A c, d \in Tasks : pc[c] = "unborn" /\ c < d => pc[d] = "unborn"
    BY <1>3 DEF Tasks, Main
  <2> QED BY <1>1, <1>3, <1>5, <2>1 DEF BirthInv
<1>7. QueueInv
  <2>1. NoDup(rq) /\ cur \notin Elems(rq) /\ batch = {}
    BY <1>2, <1>3 DEF NoDup
  <2>2. \A u \in Tasks : Ready(u) <=> u = Main
    BY <1>2, <1>3 DEF Ready
  <2>3. \A u \in Tasks : PlacedAt(u)
    BY <1>3, <1>5, <2>2 DEF PlacedAt, PollPlaces, RunPlaces
  <2> QED BY <2>1, <2>3 DEF QueueInv
<1>8. PollInv
  <2>1. \A u \in Tasks : ~Fd(u) /\ ~Timer(u) /\ pc[u] \notin {"sleep", "deadline", "fdtimer", "fd"}
    BY <1>3 DEF Fd, Timer
  <2>2. \A u \in Tasks : PolledAt(u)
    BY <1>3, <2>1 DEF PolledAt, ParksOnTimer, ParksOnFd
  <2> QED BY <1>3, <2>2 DEF PollInv
<1>9. AwaitInv
  BY <1>3 DEF AwaitInv, AwaitedAt, TimedAt, HeldAt
<1>10. JoinInv
  BY <1>3 DEF JoinInv, JoinedAt, JoiningAt
<1>11. ScopeInv
  <2>1. \A u \in Tasks : StackedAt(u)
    <3>1. Len(<<>>) = 0 /\ 1 .. 0 = {}
      OBVIOUS
    <3> QED BY <1>2, <1>3, <3>1 DEF StackedAt
  <2>2. \A u \in Tasks : InsideAt(u)
    BY <1>3 DEF InsideAt
  <2>3. \A s \in Scopes : OpenAt(s)
    BY <1>3 DEF OpenAt
  <2>4. ASSUME NEW s \in Scopes PROVE live[s] = Cardinality(Members(s))
    <3>1. Members(s) = {}
      BY <1>1, <1>3 DEF Members
    <3> QED BY <1>3, <3>1, FS_EmptySet
  <2> QED BY <2>1, <2>2, <2>3, <2>4 DEF ScopeInv
<1> QED BY <1>4, <1>6, <1>7, <1>8, <1>9, <1>10, <1>11 DEF SchedInv

(* The calls of the running task.                                           *)
LEMMA TaskStepKeeps ==
  ASSUME SchedInv, Disciplined, NEW t \in Tasks, TaskStep(t)
  PROVE  SchedInv'
<1>1. ASSUME NEW s \in Scopes, ScopeOpen(t, s) PROVE SchedInv'
  BY <1>1, ScopeOpenStep
<1>2. ASSUME NEW s \in Scopes, NEW c \in Tasks, NEW a \in BOOLEAN, Spawn(t, s, c, a) PROVE SchedInv'
  BY <1>2, SpawnStep
<1>3. CASE TaskReturns(t)
  BY <1>3, TaskReturnsStep
<1>4. CASE task_yield(t)
  BY <1>4, YieldStep
<1>5. ASSUME NEW f \in Tasks, AwaitDone(t, f) PROVE SchedInv'
  BY <1>5, AwaitDoneStep
<1>6. ASSUME NEW f \in Tasks, AwaitParks(t, f) PROVE SchedInv'
  BY <1>6, AwaitParksStep
<1>7. ASSUME NEW f \in Tasks, AwaitRefused(t, f) PROVE SchedInv'
  BY <1>7, NothingMoves DEF AwaitRefused, sprout_fail
<1>8. CASE AwaitReturns(t)
  BY <1>8, AwaitReturnsStep
<1>9. CASE JoinParks(t)
  BY <1>9, JoinParksStep
<1>10. CASE JoinAtOnce(t) \/ JoinReturns(t)
  BY <1>10, JoinStep
<1>11. ASSUME NEW un \in BOOLEAN, ParkOnFd(t, un) PROVE SchedInv'
  BY <1>11, ParkOnFdStep
<1>12. ASSUME NEW un \in BOOLEAN, NEW i \in Timers, ParkOnFdTimeout(t, i, un) PROVE SchedInv'
  BY <1>12, ParkOnFdTimeoutStep
<1>13. ASSUME NEW i \in Timers, Sleep(t, i) PROVE SchedInv'
  BY <1>13, SleepStep
<1>14. CASE SleepFails(t)
  BY <1>14, NothingMoves DEF SleepFails, sprout_fail
<1>15. CASE ParkReturns(t)
  BY <1>15, ParkReturnsStep
<1>16. CASE FdTimeoutReturns(t)
  BY <1>16, FdTimeoutReturnsStep
<1>17. CASE ParkOnChan(t)
  BY <1>17, ParkOnChanStep
<1>18. CASE ChanReturns(t)
  BY <1>18, ChanReturnsStep
<1>19. ASSUME NEW w \in Tasks, chan_wake(t, w) PROVE SchedInv'
  BY <1>19, ChanWakeStep
<1>20. ASSUME NEW s \in Scopes, CancelNotOwner(t, s) \/ CancelRefused(t, s) PROVE SchedInv'
  BY <1>20, NothingMoves DEF CancelNotOwner, CancelRefused, sprout_fail
<1>21. ASSUME NEW s \in Scopes, ScopeCancel(t, s) PROVE SchedInv'
  BY <1>21, ScopeCancelStep
<1>22. ASSUME NEW s \in Scopes, NEW c \in Tasks, NEW i \in Timers, WithTimeout(t, s, c, i) PROVE SchedInv'
  BY <1>22, WithTimeoutStep
<1>23. CASE WithTimeoutFails(t)
  BY <1>23, NothingMoves DEF WithTimeoutFails, sprout_fail
<1>24. CASE DeadlineCompleted(t)
  BY <1>24, DeadlineCompletedStep
<1>25. CASE DeadlineExpired(t)
  BY <1>25, DeadlineExpiredStep
<1>26. CASE DeadlineRequeues(t)
  BY <1>26, DeadlineRequeuesStep
<1>27. CASE DeadlineRefused(t)
  BY <1>27, NothingMoves DEF DeadlineRefused, sprout_fail
<1> QED
  BY <1>1, <1>2, <1>3, <1>4, <1>5, <1>6, <1>7, <1>8, <1>9, <1>10, <1>11, <1>12, <1>13, <1>14, <1>15, <1>16,
     <1>17, <1>18, <1>19, <1>20, <1>21, <1>22, <1>23, <1>24, <1>25, <1>26, <1>27 DEF TaskStep

(* Every step of the scheduler and of its program keeps the invariant.      *)
LEMMA SchedNext ==
  ASSUME SchedInv, Disciplined, [Next]_vars
  PROVE  SchedInv'
<1>1. CASE PumpRunsTask
  BY <1>1, PumpRunsTaskStep
<1>2. ASSUME NEW E \in SUBSET armed, sprout_poll_wait(E) PROVE SchedInv'
  BY <1>2, PollWaitStep
<1>3. ASSUME NEW w \in Tasks, NEW kind \in {"fd", "timer"}, PumpHarvests(w, kind) PROVE SchedInv'
  BY <1>3, HarvestStep
<1>4. CASE PumpDeadlock \/ MainReturns
  BY <1>4, NothingMoves DEF PumpDeadlock, MainReturns, sprout_fail
<1>5. ASSUME NEW t \in Tasks, TaskStep(t) PROVE SchedInv'
  BY <1>5, TaskStepKeeps
<1>6. CASE Ended \/ UNCHANGED vars
  BY <1>6, NothingMoves DEF Ended, vars
<1> QED BY <1>1, <1>2, <1>3, <1>4, <1>5, <1>6 DEF Next, PumpStep

(* The inductive invariant holds in every state of a disciplined program.   *)
THEOREM SchedInvariant == ASSUME Disciplined PROVE Spec => []SchedInv
<1>1. SchedInv /\ [Next]_vars => SchedInv'
  BY SchedNext
<1> QED BY <1>1, SchedInit, PTL DEF Spec

-----------------------------------------------------------------------------
(* What it gives.                                                           *)

(* Every variable of the scheduler keeps its type; in particular a live     *)
(* count is never lowered below zero (live_children of a scope).            *)
THEOREM SchedulerTypes == ASSUME Disciplined PROVE Spec => []TypeOK
<1>1. SchedInv => TypeOK
  <2> SUFFICES ASSUME SchedInv PROVE TypeOK
    OBVIOUS
  <2>1. RunType /\ PollType /\ LinkType /\ ScopeType
    BY DEF SchedInv, SchedType
  <2>2. live \in [Scopes -> Nat]
    <3>1. ASSUME NEW s \in Scopes PROVE live[s] \in Nat
      <4>1. IsFiniteSet(Tasks) /\ Members(s) \subseteq Tasks /\ live[s] = Cardinality(Members(s))
        BY FS_Interval DEF Tasks, Members, SchedInv, ScopeInv
      <4> QED BY <4>1, FS_Subset, FS_CardinalityType
    <3>2. live \in [Scopes -> Int]
      BY <2>1 DEF ScopeType
    <3> QED BY <3>1, <3>2
  <2>3. /\ cur \in Tasks \cup {None} /\ rq \in Seq(Tasks) /\ io \subseteq Tasks /\ chanq \subseteq Tasks
        /\ pc \in [Tasks -> Places]
    BY <2>1 DEF RunType
  <2>4. /\ armed \subseteq Tasks \X {"fd", "timer"} /\ batch \subseteq Tasks \X {"fd", "timer"}
        /\ timerfd \in [Timers -> Tasks \cup {None}] /\ misclosed \in BOOLEAN
        /\ park_timer_id \in [Tasks -> Timers \cup {None}]
        /\ park_timer_dead \in [Tasks -> BOOLEAN] /\ park_woke_by_timer \in [Tasks -> BOOLEAN]
        /\ sockets \subseteq Tasks /\ hooked \subseteq Tasks
    BY <2>1 DEF PollType
  <2>5. /\ \A f \in {awaiter, holder, timed} : f \in [Tasks -> Tasks \cup {None}]
        /\ \A f \in {awaitable, park_timer_dead, park_woke_by_timer} : f \in [Tasks -> BOOLEAN]
    BY <2>1, <2>4 DEF LinkType
  <2>6. \A f \in {waiter, owner} : f \in [Scopes -> Tasks \cup {None}]
    BY <2>1 DEF LinkType, ScopeType
  <2>7. /\ scope \in [Tasks -> Scopes \cup {None}] /\ stack \in [Tasks -> Seq(Scopes)]
        /\ captured \in [Tasks -> SUBSET Scopes] /\ outer \in [Scopes -> SUBSET Scopes]
        /\ reason \in [Scopes -> {"none", "cancelled", "timed out"}]
        /\ sstate \in [Scopes -> {"unborn", "open", "freed"}]
    BY <2>1 DEF ScopeType
  <2> QED BY <2>2, <2>3, <2>4, <2>5, <2>6, <2>7 DEF TypeOK
<1> QED BY <1>1, SchedInvariant, PTL

(* No task is pushed on the ready queue twice, or while it runs, is parked  *)
(* or is gone (rq_push by the pump, a finished child, a channel peer).      *)
THEOREM SchedulerQueue == ASSUME Disciplined PROVE Spec => []QueueSound
<1>1. SchedInv => QueueSound
  <2> SUFFICES ASSUME SchedInv PROVE QueueSound
    OBVIOUS
  <2>1. rq \in Seq(Tasks) /\ Elems(rq) \subseteq Tasks /\ NoDup(rq)
    BY QueueTasks
  <2>2. Cardinality(Elems(rq)) = Len(rq)
    BY <2>1, NoDupCount
  <2>3. ASSUME NEW t \in Elems(rq) PROVE Alive(t) /\ t # cur /\ t \notin io \cup chanq
    <3>1. PlacedAt(t) /\ Ready(t) /\ cur \notin Elems(rq)
      BY <2>1 DEF SchedInv, QueueInv, Ready
    <3> QED BY <3>1 DEF PlacedAt
  <2> QED BY <2>2, <2>3 DEF QueueSound
<1> QED BY <1>1, SchedInvariant, PTL

(* No lost wake-up: whoever is suspended has an event, a body, a child or a *)
(* channel peer to come that will push it.                                  *)
THEOREM SchedulerWakes == ASSUME Disciplined PROVE Spec => []Wakeable
<1>1. SchedInv => Wakeable
  <2> SUFFICES ASSUME SchedInv, NEW t \in Tasks, Alive(t), t # cur, t \notin Elems(rq)
               PROVE
                 \/ pc[t] \in {"fd", "fdtimer", "sleep"} /\ t \in io /\ \E k \in {"fd", "timer"} : <<t, k>> \in armed \cup batch
                 \/ pc[t] = "deadline" /\ t \in io /\ <<t, "timer">> \in armed \cup batch /\ awaiter[timed[t]] = t
                 \/ pc[t] = "await" /\ \E f \in Tasks : Alive(f) /\ awaiter[f] = t
                 \/ pc[t] = "join" /\ \E s \in Scopes : waiter[s] = t /\ live[s] > 0
                 \/ pc[t] = "chan" /\ t \in chanq
    BY DEF Wakeable
  <2>1. ~Ready(t) /\ PlacedAt(t) /\ PolledAt(t) /\ TimedAt(t) /\ t # None
    BY QueueTasks DEF Ready, SchedInv, QueueInv, PollInv, AwaitInv
  <2>2. pc[t] \in PollPlaces \cup {"chan", "await", "join"}
    <3>1. pc[t] \in Places
      BY DEF SchedInv, SchedType, RunType
    <3> QED BY <2>1, <3>1 DEF Places, Alive, PlacedAt, RunPlaces, PollPlaces
  <2>3. CASE pc[t] \in {"fd", "fdtimer", "sleep"}
    BY <2>1, <2>3 DEF PlacedAt, PollPlaces, PolledAt, Fd, Timer
  <2>4. CASE pc[t] = "deadline"
    <3>1. t \in io /\ Timer(t)
      BY <2>1, <2>4 DEF PlacedAt, PollPlaces, PolledAt
    <3>2. awaiter[timed[t]] = t
      BY <2>1, <2>4, <3>1 DEF TimedAt
    <3> QED BY <2>4, <3>1, <3>2 DEF Timer
  <2>5. CASE pc[t] = "await"
    <3>1. PICK f \in Tasks : awaiter[f] = t
      BY <2>1, <2>5 DEF PlacedAt
    <3>2. AwaitedAt(f)
      BY DEF SchedInv, AwaitInv
    <3> QED BY <2>1, <2>5, <3>1, <3>2 DEF AwaitedAt
  <2>6. CASE pc[t] = "join"
    <3>1. PICK s \in Scopes : s = Innermost(t)
      BY <2>6, Joiners
    <3>2. waiter[s] = t /\ JoinedAt(s)
      BY <2>1, <2>6, <3>1 DEF PlacedAt, SchedInv, JoinInv
    <3> QED BY <2>1, <2>6, <3>2 DEF JoinedAt
  <2>7. CASE pc[t] = "chan"
    BY <2>1, <2>7 DEF PlacedAt
  <2> QED BY <2>2, <2>3, <2>4, <2>5, <2>6, <2>7 DEF PollPlaces
<1> QED BY <1>1, SchedInvariant, PTL

(* No queue, poller token, awaiter, joiner or timed body leads to a record  *)
(* that task_free has released.                                             *)
THEOREM SchedulerPointers == ASSUME Disciplined PROVE Spec => []NoDanglingTask
<1>1. SchedInv => NoDanglingTask
  <2> SUFFICES ASSUME SchedInv PROVE NoDanglingTask
    OBVIOUS
  <2>1. \A u \in Tasks : PlacedAt(u) /\ PolledAt(u) /\ AwaitedAt(u) /\ TimedAt(u)
    BY DEF SchedInv, QueueInv, PollInv, AwaitInv
  <2>2. RunType /\ PollType /\ LinkType
    BY DEF SchedInv, SchedType
  <2>3. ASSUME NEW t \in Elems(rq) \cup io \cup chanq PROVE Alive(t)
    <3>1. t \in Tasks
      BY <2>2, QueueTasks DEF RunType
    <3> QED BY <2>1, <3>1 DEF PlacedAt, Ready, Alive, PollPlaces
  <2>4. ASSUME NEW e \in armed \cup batch PROVE Alive(e[1])
    <3>1. PICK u \in Tasks, k \in {"fd", "timer"} : e = <<u, k>>
      BY <2>2 DEF PollType
    <3>2. Fd(u) \/ Timer(u)
      BY <3>1 DEF Fd, Timer
    <3>3. Alive(u)
      BY <2>1, <3>2 DEF PolledAt, ParksOnTimer, ParksOnFd, Alive
    <3> QED BY <3>1, <3>3
  <2>5. \A t \in Tasks : Alive(t) /\ awaiter[t] # None => Alive(awaiter[t])
    BY <2>1 DEF AwaitedAt, Alive
  <2>6. \A s \in Scopes : waiter[s] # None => pc[waiter[s]] = "join"
    BY DEF SchedInv, JoinInv, JoinedAt
  <2>7. \A t \in Tasks : timed[t] # None => pc[timed[t]] \notin {"unborn", "dropped", "freed"}
    BY <2>1 DEF TimedAt, Alive
  <2>8. \A t \in Elems(rq) \cup io \cup chanq \cup {e[1] : e \in armed \cup batch} : Alive(t)
    BY <2>3, <2>4
  <2> QED BY <2>5, <2>6, <2>7, <2>8 DEF NoDanglingTask
<1> QED BY <1>1, SchedInvariant, PTL

(* Every timer descriptor is closed once, by the task that armed it or on   *)
(* its behalf, whoever of the pump, a finished body, a lost race or a       *)
(* cancel comes first (sprout_poll_remove_timer and park_timer_dead).       *)
THEOREM SchedulerTimers == ASSUME Disciplined PROVE Spec => []TimersSound
<1>1. SchedInv => TimersSound
  <2> SUFFICES ASSUME SchedInv PROVE TimersSound
    OBVIOUS
  <2>1. PollInv /\ PollType
    BY DEF SchedInv, SchedType
  <2>2. ASSUME NEW i \in Timers, timerfd[i] # None
        PROVE  Alive(timerfd[i]) /\ park_timer_id[timerfd[i]] = i /\ ~park_timer_dead[timerfd[i]]
    <3>1. PICK u \in Tasks : u = timerfd[i]
      BY <2>1, <2>2 DEF PollType
    <3>2. Timer(u) /\ park_timer_id[u] = i /\ PolledAt(u)
      BY <2>1, <2>2, <3>1 DEF PollInv
    <3>3. Alive(u) /\ ~park_timer_dead[u]
      BY <3>2 DEF PolledAt, ParksOnTimer, Alive
    <3> QED BY <3>1, <3>2, <3>3
  <2> QED BY <2>1, <2>2 DEF TimersSound, PollInv
<1> QED BY <1>1, SchedInvariant, PTL

(* A task dropped in the middle of an unowned park leaves no socket behind: *)
(* park_close_fd is set as long as the poller holds the task.               *)
THEOREM SchedulerLeaks == ASSUME Disciplined PROVE Spec => []NothingLeaked
<1>1. SchedInv => NothingLeaked
  <2> SUFFICES ASSUME SchedInv, NEW t \in sockets PROVE Alive(t) /\ (t \in io => t \in hooked)
    BY DEF NothingLeaked
  <2>1. t \in Tasks
    BY DEF SchedInv, SchedType, PollType
  <2>2. PolledAt(t)
    BY <2>1 DEF SchedInv, PollInv
  <2> QED BY <2>2 DEF PolledAt, Alive
<1> QED BY <1>1, SchedInvariant, PTL

(* A bounded park tells its caller what happened, when its descriptor and   *)
(* its timer are reported in one batch too (park_woke_by_timer).            *)
THEOREM SchedulerTimeouts == ASSUME Disciplined PROVE Spec => []BoundedParkTruthful
<1>1. SchedInv => BoundedParkTruthful
  BY DEF SchedInv, PollInv, PolledAt, BoundedParkTruthful, Fd
<1> QED BY <1>1, SchedInvariant, PTL

(* No task outlives its scope: structured concurrency, for programs that    *)
(* let no scope value escape.                                               *)
THEOREM SchedulerScopes == ASSUME Disciplined PROVE Spec => []TasksInsideScopes
<1>1. SchedInv => TasksInsideScopes
  BY DEF SchedInv, ScopeInv, InsideAt, TasksInsideScopes
<1> QED BY <1>1, SchedInvariant, PTL

(* A drop orphans nobody: the opener of an unfinished task's scope is there *)
(* to join it, for programs whose droppable tasks open no scope of their    *)
(* own around a park.                                                       *)
THEOREM SchedulerOrphans == ASSUME Disciplined PROVE Spec => []NoOrphans
<1>1. SchedInv => NoOrphans
  <2> SUFFICES ASSUME SchedInv, NEW t \in Tasks, scope[t] # None, sstate[scope[t]] = "open"
               PROVE  Alive(owner[scope[t]]) /\ scope[t] \in Elems(stack[owner[scope[t]]])
    BY DEF NoOrphans
  <2>1. scope[t] \in Scopes
    BY DEF SchedInv, SchedType, ScopeType
  <2> QED BY <2>1 DEF SchedInv, ScopeInv, OpenAt
<1> QED BY <1>1, SchedInvariant, PTL

\* A task awaits itself or a task created before it.
AwaitsElder == \E f \in Tasks : Alive(f) /\ awaiter[f] # None /\ awaiter[f] >= f

(* When nothing is runnable and nobody is in the poller, somebody is in a   *)
(* channel call or awaits an elder: else an awaiter waits for a younger task*)
(* and a joiner for the younger tasks of its scope, so the youngest         *)
(* unfinished task does neither.                                            *)
LEMMA YoungestNotBlocked ==
  ASSUME SchedInv, cur = None, rq = <<>>, io = {}
  PROVE  chanq # {} \/ AwaitsElder
<1> SUFFICES ASSUME chanq = {}, ~AwaitsElder PROVE FALSE
  OBVIOUS
<1>1. None \notin Tasks /\ Main \in Tasks /\ Alive(Main) /\ IsFiniteSet(Tasks)
  BY QueueTasks, FS_Interval DEF SchedInv, BirthInv, Tasks, Main
<1>2. \A u \in Tasks : ~Ready(u)
  BY <1>1 DEF Ready, Elems
<1>3. ASSUME NEW u \in Tasks, Alive(u) PROVE pc[u] \in {"await", "join"}
  <2>1. PlacedAt(u) /\ pc[u] \in Places
    BY DEF SchedInv, QueueInv, SchedType, RunType
  <2> QED BY <1>2, <1>3, <2>1 DEF PlacedAt, Places, Alive, RunPlaces, PollPlaces
<1>4. \E m \in Tasks : Alive(m) /\ \A u \in Tasks : Alive(u) => u <= m
  <2> DEFINE D == {n \in Nat : n <= MaxTasks /\ Alive(MaxTasks - n)}
             R == OpToRel(<, Nat)
  <2>1. D \subseteq Nat /\ D # {}
    <3>1. MaxTasks \in D
      BY <1>1 DEF Main
    <3> QED BY <3>1
  <2>2. \A p \in Nat \X Nat : p[1] < p[2] => p \in R
    BY Zenon DEF OpToRel
  <2>3. IsWellFoundedOn(R, Nat)
    BY NatLessThanWellFounded
  <2> HIDE DEF R
  <2>4. PICK n \in D : \A k \in D : ~ (<<k, n>> \in R)
    BY <2>1, <2>3, WFMin
  <2>5. \A k \in D : ~ (k < n)
    <3> SUFFICES ASSUME NEW k \in D, k < n PROVE FALSE
      OBVIOUS
    <3>1. <<k, n>> \in Nat \X Nat /\ <<k, n>>[1] < <<k, n>>[2]
      BY <2>1
    <3> QED BY <2>2, <2>4, <3>1
  <2>6. MaxTasks - n \in Tasks /\ Alive(MaxTasks - n)
    BY DEF Tasks
  <2>7. ASSUME NEW u \in Tasks, Alive(u) PROVE u <= MaxTasks - n
    <3>1. MaxTasks - u \in Nat /\ MaxTasks - (MaxTasks - u) = u /\ MaxTasks - u <= MaxTasks
      BY DEF Tasks
    <3>2. MaxTasks - u \in D
      BY <2>7, <3>1
    <3>3. ~ (MaxTasks - u < n)
      BY <2>5, <3>2
    <3> QED BY <3>1, <3>3 DEF Tasks
  <2> QED BY <2>6, <2>7
<1>5. PICK m \in Tasks : Alive(m) /\ \A u \in Tasks : Alive(u) => u <= m
  BY <1>4
<1>6. PlacedAt(m) /\ ~Ready(m) /\ m \in Int /\ m # None
  BY <1>1, <1>2 DEF SchedInv, QueueInv, Tasks
<1>7. CASE pc[m] = "await"
  <2>1. PICK f \in Tasks : awaiter[f] = m
    BY <1>6, <1>7 DEF PlacedAt
  <2>2. AwaitedAt(f)
    BY DEF SchedInv, AwaitInv
  <2>3. Alive(f) /\ m < f /\ f \in Int
    BY <1>6, <2>1, <2>2 DEF AwaitedAt, AwaitsElder, Tasks
  <2> QED BY <1>5, <1>6, <2>3
<1>8. CASE pc[m] = "join"
  <2>1. PICK s \in Scopes : s = Innermost(m) /\ owner[s] = m
    BY <1>8, Joiners
  <2>2. waiter[s] = m /\ JoinedAt(s)
    BY <1>6, <1>8, <2>1 DEF PlacedAt, SchedInv, JoinInv
  <2>3. live[s] > 0 /\ live[s] = Cardinality(Members(s))
    BY <1>6, <2>2 DEF JoinedAt, SchedInv, ScopeInv
  <2>4. Members(s) # {}
    <3>1. IsFiniteSet({}) /\ Cardinality({}) = 0
      BY FS_EmptySet
    <3>2. Members(s) = {} => Cardinality(Members(s)) = 0
      BY <3>1, Zenon
    <3>3. live[s] # 0
      BY <2>3
    <3> QED BY <2>3, <3>2, <3>3, Zenon
  <2>5. PICK u \in Tasks : Alive(u) /\ scope[u] = s
    BY <2>4 DEF Members
  <2>6. InsideAt(u) /\ s # None /\ u \in Int
    BY DEF SchedInv, ScopeInv, Scopes, Tasks
  <2>7. m < u
    BY <2>1, <2>5, <2>6 DEF InsideAt
  <2> QED BY <1>5, <1>6, <2>5, <2>6, <2>7
<1> QED BY <1>3, <1>5, <1>7, <1>8

(* A task runs only while the process does, and never reports a deadlock.   *)
LEMMA TaskOutcome ==
  ASSUME NEW t \in Tasks, TaskStep(t)
  PROVE  outcome = "running" /\ outcome' # "deadlock"
<1> DEFINE Goes == outcome = "running" /\ outcome' # "deadlock"
<1> USE DEF Running, Resumed, MayPark, sprout_fail
<1>1. ASSUME NEW s \in Scopes, ScopeOpen(t, s) PROVE Goes
  BY <1>1 DEF ScopeOpen
<1>2. ASSUME NEW s \in Scopes, NEW c \in Tasks, NEW a \in BOOLEAN, Spawn(t, s, c, a) PROVE Goes
  BY <1>2 DEF Spawn
<1>3. ASSUME TaskReturns(t) \/ task_yield(t) PROVE Goes
  BY <1>3 DEF TaskReturns, task_yield
<1>4. ASSUME NEW f \in Tasks, AwaitDone(t, f) \/ AwaitParks(t, f) \/ AwaitRefused(t, f) PROVE Goes
  BY <1>4 DEF AwaitDone, AwaitParks, AwaitRefused
<1>5. ASSUME AwaitReturns(t) \/ JoinParks(t) \/ JoinAtOnce(t) \/ JoinReturns(t) PROVE Goes
  BY <1>5 DEF AwaitReturns, JoinParks, JoinAtOnce, JoinReturns, ScopeCloses
<1>6. ASSUME NEW un \in BOOLEAN, ParkOnFd(t, un) PROVE Goes
  BY <1>6 DEF ParkOnFd
<1>7. ASSUME NEW un \in BOOLEAN, NEW i \in Timers, ParkOnFdTimeout(t, i, un) PROVE Goes
  BY <1>7 DEF ParkOnFdTimeout
<1>8. ASSUME NEW i \in Timers, Sleep(t, i) PROVE Goes
  BY <1>8 DEF Sleep
<1>9. ASSUME SleepFails(t) \/ ParkReturns(t) \/ FdTimeoutReturns(t) \/ ParkOnChan(t) \/ ChanReturns(t) PROVE Goes
  BY <1>9 DEF SleepFails, ParkReturns, FdTimeoutReturns, ParkOnChan, ChanReturns
<1>10. ASSUME NEW w \in Tasks, chan_wake(t, w) PROVE Goes
  BY <1>10 DEF chan_wake
<1>11. ASSUME NEW s \in Scopes, CancelNotOwner(t, s) \/ CancelRefused(t, s) \/ ScopeCancel(t, s) PROVE Goes
  BY <1>11 DEF CancelNotOwner, CancelRefused, ScopeCancel
<1>12. ASSUME NEW s \in Scopes, NEW c \in Tasks, NEW i \in Timers, WithTimeout(t, s, c, i) PROVE Goes
  BY <1>12 DEF WithTimeout
<1>13. ASSUME WithTimeoutFails(t) PROVE Goes
  BY <1>13 DEF WithTimeoutFails
<1>14. ASSUME DeadlineCompleted(t) \/ DeadlineExpired(t) \/ DeadlineRequeues(t) \/ DeadlineRefused(t) PROVE Goes
  BY <1>14 DEF InDeadline, DeadlineCompleted, DeadlineExpired, DeadlineRequeues, DeadlineRefused
<1> HIDE DEF Goes
<1>15. Goes
  BY <1>1, <1>2, <1>3, <1>4, <1>5, <1>6, <1>7, <1>8, <1>9, <1>10, <1>11, <1>12, <1>13, <1>14 DEF TaskStep
<1> QED BY <1>15 DEF Goes

(* pump_loop reports a deadlock only when some task is parked in a channel  *)
(* call or awaits itself or an elder: awaits of one's own forks, joins,     *)
(* deadlines and poller parks never block each other.                       *)
THEOREM SchedulerDeadlock == ASSUME Disciplined PROVE Spec => []DeadlockHasCause
<1>1. Init => DeadlockHasCause
  BY DEF Init, DeadlockHasCause
<1>2. SchedInv /\ DeadlockHasCause /\ [Next]_vars => DeadlockHasCause'
  <2> SUFFICES ASSUME SchedInv, DeadlockHasCause, [Next]_vars, outcome' = "deadlock"
               PROVE  DeadlockHasCause'
    BY DEF DeadlockHasCause
  <2>1. CASE PumpDeadlock
    <3>1. cur = None /\ rq = <<>> /\ io = {} /\ chanq' = chanq /\ awaiter' = awaiter /\ pc' = pc
      BY <2>1 DEF PumpDeadlock, PumpRuns, sprout_fail, taskVars
    <3>2. chanq # {} \/ AwaitsElder
      BY <3>1, YoungestNotBlocked
    <3> QED BY <3>1, <3>2 DEF AwaitsElder, DeadlockHasCause, Alive
  <2>2. ASSUME PumpRunsTask PROVE FALSE
    BY <2>2 DEF PumpRunsTask, PumpRuns
  <2>3. ASSUME NEW E \in SUBSET armed, sprout_poll_wait(E) PROVE FALSE
    BY <2>3 DEF sprout_poll_wait, PumpRuns
  <2>4. ASSUME NEW w \in Tasks, NEW kind \in {"fd", "timer"}, PumpHarvests(w, kind) PROVE FALSE
    BY <2>4 DEF PumpHarvests, PumpRuns
  <2>5. ASSUME MainReturns PROVE FALSE
    BY <2>5 DEF MainReturns
  <2>6. ASSUME NEW t \in Tasks, TaskStep(t) PROVE FALSE
    BY <2>6, TaskOutcome
  <2>7. CASE Ended \/ UNCHANGED vars
    BY <2>7 DEF Ended, vars, taskVars, DeadlockHasCause, Alive
  <2> QED BY <2>1, <2>2, <2>3, <2>4, <2>5, <2>6, <2>7 DEF Next, PumpStep
<1> QED BY <1>1, <1>2, SchedInvariant, PTL DEF Spec

=============================================================================
