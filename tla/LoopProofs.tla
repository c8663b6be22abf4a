----------------------------- MODULE LoopProofs -----------------------------
(* Proofs about the loops of the poller's arrays, for every array.          *)
(*                                                                          *)
(* The loops are After(Turn, start, turns).  Induct is induction over the   *)
(* naturals for a set (from a minimal counterexample), Iterate says that a  *)
(* turn which stays in a set can be repeated, so that the recursive function*)
(* in After is what its definition says.  Then each loop has three lemmas:  *)
(* its turn stays in the set of the loop's states, the run unfolds turn by  *)
(* turn, and an invariant of the turns gives what the loop computes.        *)
EXTENDS HeapOps, FiniteSetTheorems, SequenceTheorems, WellFoundedInduction, NaturalsInduction, TLAPS

(* A set of naturals that holds 0 and every successor of a member holds all. *)
LEMMA Induct ==
  ASSUME NEW T, 0 \in T, \A n \in Nat : n \in T => n + 1 \in T
  PROVE  Nat \subseteq T
<1> DEFINE R == OpToRel(<, Nat)
           D == Nat \ T
<1> SUFFICES ASSUME D # {} PROVE FALSE
  OBVIOUS
<1>1. D \subseteq Nat /\ D # {}
  OBVIOUS
<1>2. \A p \in Nat \X Nat : p[1] < p[2] => p \in R
  BY Zenon DEF OpToRel
<1>3. IsWellFoundedOn(R, Nat)
  BY NatLessThanWellFounded
<1> HIDE DEF R
<1>4. PICK i \in D : \A j \in D : ~ (<<j, i>> \in R)
  BY <1>1, <1>3, WFMin
<1>5. i \in Nat /\ i # 0 /\ i \notin T
  BY <1>4
<1>6. i - 1 \in Nat /\ i - 1 \notin T /\ i - 1 < i
  BY <1>5
<1>7. i - 1 \in D /\ <<i - 1, i>> \in R
  BY <1>2, <1>5, <1>6
<1> QED BY <1>4, <1>7

\* The runs of F from x.
RunsOf(S, F, x) == {g \in [Nat -> S] : g[0] = x /\ \A n \in Nat : g[n + 1] = F[g[n]]}

(* A function from S to S can be iterated.                                  *)
LEMMA Iterate ==
  ASSUME NEW S, NEW F \in [S -> S], NEW x \in S
  PROVE  RunsOf(S, F, x) # {}
<1> DEFINE Runs(n) == {g \in [0 .. n -> S] : g[0] = x /\ \A k \in 0 .. n - 1 : g[k + 1] = F[g[k]]}
           T == {n \in Nat : Runs(n) # {}}
           U == {n \in Nat : \A m \in Nat : n <= m => \A g \in Runs(n), h \in Runs(m) : h[n] = g[n]}
<1>1. Nat \subseteq T
  <2>1. 0 \in T
    <3>1. [k \in 0 .. 0 |-> x] \in Runs(0)
      OBVIOUS
    <3> QED BY <3>1
  <2>2. ASSUME NEW n \in Nat, n \in T PROVE n + 1 \in T
    <3>1. PICK g \in Runs(n) : TRUE
      BY <2>2
    <3> DEFINE h == [k \in 0 .. n + 1 |-> IF k = n + 1 THEN F[g[n]] ELSE g[k]]
    <3>2. h \in Runs(n + 1)
      BY <3>1
    <3> HIDE DEF h, Runs
    <3> QED BY <3>2
  <2> HIDE DEF T
  <2> QED BY <2>1, <2>2, Induct
<1>2. Nat \subseteq U
  <2>1. 0 \in U
    OBVIOUS
  <2>2. ASSUME NEW n \in Nat, n \in U PROVE n + 1 \in U
    <3>1. SUFFICES ASSUME NEW m \in Nat, NEW g \in Runs(n + 1), NEW h \in Runs(m), n + 1 <= m
                   PROVE  h[n + 1] = g[n + 1]
      <4> HIDE DEF Runs
      <4> QED OBVIOUS
    <3> DEFINE f == [k \in 0 .. n |-> g[k]]
    <3>2. f \in Runs(n) /\ f[n] = g[n]
      OBVIOUS
    <3>3. n <= m
      BY <3>1
    <3>4. h[n] = f[n]
      <4> HIDE DEF f, Runs
      <4> QED BY <2>2, <3>2, <3>3
    <3>5. g[n + 1] = F[g[n]]
      OBVIOUS
    <3>6. h[n + 1] = F[h[n]]
      BY <3>1
    <3> QED BY <3>2, <3>4, <3>5, <3>6
  <2> HIDE DEF U
  <2> QED BY <2>1, <2>2, Induct
<1> DEFINE r == [n \in Nat |-> CHOOSE g \in Runs(n) : TRUE]
           g == [n \in Nat |-> r[n][n]]
<1>3. \A n \in Nat : r[n] \in Runs(n)
  <2> HIDE DEF Runs
  <2> QED BY <1>1
<1>4. g \in [Nat -> S] /\ g[0] = x
  <2> HIDE DEF r
  <2> QED BY <1>3
<1>5. ASSUME NEW n \in Nat PROVE g[n + 1] = F[g[n]]
  <2>1. r[n + 1] \in Runs(n + 1) /\ r[n] \in Runs(n)
    <3> HIDE DEF r, Runs
    <3> QED BY <1>3
  <2>2. r[n + 1][n] = r[n][n]
    <3> HIDE DEF r, Runs
    <3> QED BY <1>2, <2>1
  <2>3. r[n + 1][n + 1] = F[r[n + 1][n]]
    <3> HIDE DEF r
    <3> QED BY <2>1
  <2> QED BY <2>2, <2>3
<1> HIDE DEF g
<1> QED BY <1>4, <1>5 DEF RunsOf

-----------------------------------------------------------------------------
\* Timers, arrays of n of them, and the states of the two sifts.
Timers(E) == \A e \in E : e.left \in Int
Heaps(E, n) == [1 .. n -> E]
HeapStates(E, n) == [heap : Heaps(E, n), at : 1 .. n]

(* One turn of the sift up stays in the array.                              *)
LEMMA UpType ==
  ASSUME NEW E, Timers(E), NEW n \in Nat, NEW s \in HeapStates(E, n)
  PROVE  UpTurn(s) \in HeapStates(E, n)
<1>1. s.heap \in Heaps(E, n) /\ s.at \in 1 .. n
  BY DEF HeapStates
<1>2. s.at > 1 => s.at \div 2 \in 1 .. n
  BY <1>1
<1>3. s.at > 1 => timer_swap(s.heap, s.at, s.at \div 2) \in Heaps(E, n)
  BY <1>1, <1>2 DEF timer_swap, Heaps
<1> QED BY <1>1, <1>2, <1>3 DEF UpTurn, HeapStates

UpRun(x, k) == After(UpTurn, x, k)

(* The sift up, turn after turn.                                            *)
LEMMA UpLoop ==
  ASSUME NEW E, Timers(E), NEW n \in Nat, NEW x \in HeapStates(E, n)
  PROVE  /\ UpRun(x, 0) = x
         /\ \A k \in Nat : UpRun(x, k) \in HeapStates(E, n) /\ UpRun(x, k + 1) = UpTurn(UpRun(x, k))
<1> DEFINE S == HeapStates(E, n)
           F == [s \in S |-> UpTurn(s)]
           Run(g) == g = [k \in Nat |-> IF k = 0 THEN x ELSE UpTurn(g[k - 1])]
           run == CHOOSE g : Run(g)
<1> HIDE DEF S
<1>1. F \in [S -> S] /\ \A s \in S : F[s] = UpTurn(s)
  BY UpType DEF S
<1> HIDE DEF F
<1>2. PICK g \in [Nat -> S] : g[0] = x /\ \A k \in Nat : g[k + 1] = F[g[k]]
  <2>1. x \in S /\ F \in [S -> S]
    BY <1>1 DEF S
  <2>2. RunsOf(S, F, x) # {}
    BY <2>1, Iterate
  <2> QED BY <2>2 DEF RunsOf
<1>3. Run(g)
  <2>1. ASSUME NEW k \in Nat PROVE g[k] = IF k = 0 THEN x ELSE UpTurn(g[k - 1])
    <3>1. CASE k # 0
      <4>1. k - 1 \in Nat /\ (k - 1) + 1 = k
        BY <3>1
      <4>2. g[(k - 1) + 1] = F[g[k - 1]]
        BY <1>2, <4>1
      <4> QED BY <1>1, <1>2, <3>1, <4>1, <4>2
    <3> QED BY <1>2, <3>1
  <2> QED BY <2>1
<1>4. Run(run)
  BY <1>3
<1>5. \A k : UpRun(x, k) = run[k]
  BY DEF After, UpRun
<1> HIDE DEF run
<1>6. run[0] = x /\ \A k \in Nat : run[k + 1] = UpTurn(run[k])
  BY <1>4
<1> DEFINE T == {k \in Nat : run[k] \in S}
<1>7. 0 \in T /\ \A k \in Nat : k \in T => k + 1 \in T
  BY <1>1, <1>6 DEF S
<1> HIDE DEF T
<1>8. Nat \subseteq T
  BY <1>7, Induct
<1> QED BY <1>5, <1>6, <1>8 DEF T, S

\* Every entry of h is an entry of g, no more often.
Shuffled(g, h, n) ==
  /\ \A i \in 1 .. n : (\E j \in 1 .. n : g[i] = h[j]) /\ \E j \in 1 .. n : h[i] = g[j]
  /\ (\A i, j \in 1 .. n : h[i] = h[j] => i = j) => \A i, j \in 1 .. n : g[i] = g[j] => i = j

(* A swap only moves entries.                                               *)
LEMMA SwapShuffles ==
  ASSUME NEW E, NEW n \in Nat, NEW h \in Heaps(E, n), NEW i \in 1 .. n, NEW j \in 1 .. n
  PROVE  /\ timer_swap(h, i, j) \in Heaps(E, n)
         /\ \A k \in 1 .. n : timer_swap(h, i, j)[k] = IF k = i THEN h[j] ELSE IF k = j THEN h[i] ELSE h[k]
         /\ Shuffled(timer_swap(h, i, j), h, n)
<1> DEFINE g == timer_swap(h, i, j)
           at == [k \in 1 .. n |-> IF k = i THEN j ELSE IF k = j THEN i ELSE k]
<1>1. /\ g \in Heaps(E, n) /\ at \in [1 .. n -> 1 .. n]
      /\ \A k \in 1 .. n : g[k] = h[at[k]] /\ at[at[k]] = k
      /\ \A k \in 1 .. n : g[k] = IF k = i THEN h[j] ELSE IF k = j THEN h[i] ELSE h[k]
  BY DEF timer_swap, Heaps
<1> HIDE DEF g, at
<1>2. \A k \in 1 .. n : (\E l \in 1 .. n : g[k] = h[l]) /\ \E l \in 1 .. n : h[k] = g[l]
  BY <1>1
<1>3. (\A a, b \in 1 .. n : h[a] = h[b] => a = b) => \A a, b \in 1 .. n : g[a] = g[b] => a = b
  BY <1>1
<1> QED BY <1>1, <1>2, <1>3 DEF Shuffled, g

(* Two reorderings are one.                                                 *)
LEMMA ShuffledTwice ==
  ASSUME NEW n, NEW f, NEW g, NEW h, Shuffled(g, h, n), Shuffled(f, g, n)
  PROVE  Shuffled(f, h, n)
<1> USE DEF Shuffled
<1>1. ASSUME NEW i \in 1 .. n PROVE (\E j \in 1 .. n : f[i] = h[j]) /\ \E j \in 1 .. n : h[i] = f[j]
  <2>1. PICK a \in 1 .. n : f[i] = g[a]
    OBVIOUS
  <2>2. PICK b \in 1 .. n : g[a] = h[b]
    OBVIOUS
  <2>3. PICK c \in 1 .. n : h[i] = g[c]
    OBVIOUS
  <2>4. PICK d \in 1 .. n : g[c] = f[d]
    OBVIOUS
  <2> QED BY <2>1, <2>2, <2>3, <2>4
<1>2. (\A i, j \in 1 .. n : h[i] = h[j] => i = j) => \A i, j \in 1 .. n : f[i] = f[j] => i = j
  OBVIOUS
<1> QED BY <1>1, <1>2, Zenon

-----------------------------------------------------------------------------
Ordered(h, n) == \A j \in 2 .. n : h[j \div 2].left <= h[j].left

\* Heap order but for the entry at i, which may be earlier than its parent.
RisingAt(h, n, i) ==
  /\ \A j \in 2 .. n : j # i => h[j \div 2].left <= h[j].left
  /\ i > 1 => \A j \in 2 .. n : j \div 2 = i => h[i \div 2].left <= h[j].left

(* A turn of the sift up moves the one misplaced entry up, or it was none.  *)
LEMMA UpKeeps ==
  ASSUME NEW E, Timers(E), NEW n \in Nat, NEW h \in Heaps(E, n), NEW i \in 1 .. n, RisingAt(h, n, i),
         NEW s, s = [heap |-> h, at |-> i]
  PROVE  /\ RisingAt(UpTurn(s).heap, n, UpTurn(s).at)
         /\ Shuffled(UpTurn(s).heap, h, n)
         /\ UpTurn(s) = s => Ordered(h, n)
         /\ UpTurn(s) # s => UpTurn(s).at < i
<1> DEFINE p == i \div 2
<1>1. \A k \in 1 .. n : h[k].left \in Int
  BY DEF Timers, Heaps
<1>2. CASE i > 1 /\ h[p].left > h[i].left
  <2> DEFINE g == timer_swap(h, i, p)
  <2>1. p \in 1 .. n /\ p < i /\ UpTurn(s) = [heap |-> g, at |-> p]
    BY <1>1, <1>2 DEF UpTurn
  <2>2. /\ g \in Heaps(E, n) /\ Shuffled(g, h, n)
        /\ \A k \in 1 .. n : g[k] = IF k = i THEN h[p] ELSE IF k = p THEN h[i] ELSE h[k]
    <3>1. p \in 1 .. n
      BY <2>1
    <3> HIDE DEF p
    <3>2. n \in Nat /\ h \in Heaps(E, n) /\ i \in 1 .. n
      OBVIOUS
    <3> QED BY ONLY <3>1, <3>2, SwapShuffles
  <2>3. RisingAt(g, n, p)
    <3> HIDE DEF g
    <3> USE DEF RisingAt
    <3>0. ASSUME NEW j \in 2 .. n PROVE j \div 2 \in 1 .. n /\ j \div 2 < j
      OBVIOUS
    <3>1. ASSUME NEW j \in 2 .. n, j # p PROVE g[j \div 2].left <= g[j].left
      BY <1>1, <1>2, <2>1, <2>2, <3>0, <3>1
    <3>2. ASSUME NEW j \in 2 .. n, j \div 2 = p, p > 1 PROVE g[p \div 2].left <= g[j].left
      <4>0. p \div 2 \in 1 .. n /\ p \div 2 < p /\ p \in 2 .. n /\ p # i
        BY <2>1, <3>2
      <4>1. g[p \div 2] = h[p \div 2] /\ h[p \div 2].left <= h[p].left
        <5> HIDE DEF p
        <5> QED BY <2>1, <2>2, <4>0
      <4>2. CASE j = i
        BY <1>1, <2>1, <2>2, <4>0, <4>1, <4>2
      <4>3. CASE j # i
        <5>1. j # p /\ g[j] = h[j] /\ h[p].left <= h[j].left
          BY <1>1, <1>2, <2>1, <2>2, <3>2, <4>3
        <5> QED BY <1>1, <2>1, <4>0, <4>1, <5>1
      <4> QED BY <4>2, <4>3
    <3> QED BY <3>1, <3>2
  <2>4. UpTurn(s) # s
    BY <1>1, <2>1
  <2> QED BY <2>1, <2>2, <2>3, <2>4
<1>3. CASE ~(i > 1 /\ h[p].left > h[i].left)
  <2>1. UpTurn(s) = s
    BY <1>3 DEF UpTurn
  <2>2. Shuffled(h, h, n)
    BY DEF Shuffled
  <2>3. Ordered(h, n)
    <3>1. ASSUME NEW j \in 2 .. n, j = i PROVE h[j \div 2].left <= h[j].left
      <4>1. j \div 2 \in 1 .. n
        OBVIOUS
      <4> QED BY <1>1, <1>3, <3>1, <4>1
    <3> QED BY <3>1 DEF Ordered, RisingAt
  <2> QED BY <2>1, <2>2, <2>3
<1> QED BY <1>2, <1>3

(* timer_sift_up orders a heap whose only misplaced entry is too early.     *)
LEMMA SiftUp ==
  ASSUME NEW E, Timers(E), NEW n \in Nat, NEW h \in Heaps(E, n), NEW i \in 1 .. n, RisingAt(h, n, i)
  PROVE  /\ timer_sift_up(h, i) \in Heaps(E, n)
         /\ Ordered(timer_sift_up(h, i), n)
         /\ Shuffled(timer_sift_up(h, i), h, n)
<1> DEFINE x == [heap |-> h, at |-> i]
           St(k) == UpRun(x, k)
           T == {k \in Nat : /\ RisingAt(St(k).heap, n, St(k).at) /\ Shuffled(St(k).heap, h, n)
                             /\ UpTurn(St(k)) = St(k) \/ St(k).at <= i - k}
<1>1. x \in HeapStates(E, n)
  BY DEF HeapStates
<1>2. St(0) = x /\ \A k \in Nat : St(k) \in HeapStates(E, n) /\ St(k + 1) = UpTurn(St(k))
  <2> HIDE DEF x
  <2> QED BY <1>1, UpLoop
<1> HIDE DEF St
<1>3. 0 \in T
  <2>1. x.heap = h /\ x.at = i /\ Shuffled(h, h, n)
    BY DEF Shuffled
  <2> HIDE DEF x
  <2>2. St(0).heap = h /\ St(0).at = i
    BY <1>2, <2>1, Zenon
  <2>3. i <= i - 0
    OBVIOUS
  <2> QED BY <2>1, <2>2, <2>3
<1>4. ASSUME NEW k \in Nat, k \in T PROVE k + 1 \in T
  <2>1. St(k) \in HeapStates(E, n) /\ St(k + 1) \in HeapStates(E, n) /\ St(k + 1) = UpTurn(St(k)) /\ RisingAt(St(k).heap, n, St(k).at)
    BY <1>2, <1>4
  <2>2. /\ RisingAt(St(k + 1).heap, n, St(k + 1).at)
        /\ Shuffled(St(k + 1).heap, St(k).heap, n)
        /\ St(k + 1) # St(k) => St(k + 1).at < St(k).at
    <3> DEFINE g == St(k).heap
               j == St(k).at
    <3>1. g \in Heaps(E, n) /\ j \in 1 .. n /\ St(k) = [heap |-> g, at |-> j]
      BY <2>1 DEF HeapStates
    <3>2. RisingAt(g, n, j)
      BY <2>1
    <3> HIDE DEF g, j
    <3>3. /\ RisingAt(UpTurn(St(k)).heap, n, UpTurn(St(k)).at)
          /\ Shuffled(UpTurn(St(k)).heap, g, n)
          /\ UpTurn(St(k)) # St(k) => UpTurn(St(k)).at < j
      BY <3>1, <3>2, UpKeeps
    <3> QED BY <2>1, <3>3 DEF g, j
  <2>3. St(k).at \in Nat /\ St(k + 1).at \in Nat
    BY <2>1 DEF HeapStates
  <2>4. Shuffled(St(k + 1).heap, h, n)
    BY <1>4, <2>2, ShuffledTwice
  <2>5. UpTurn(St(k + 1)) = St(k + 1) \/ St(k + 1).at <= i - (k + 1)
    <3>1. CASE St(k + 1) = St(k)
      BY <2>1, <3>1
    <3>2. CASE St(k + 1) # St(k)
      BY <1>4, <2>1, <2>2, <2>3, <3>2
    <3> QED BY <3>1, <3>2
  <2> QED BY <2>2, <2>4, <2>5
<1>5. i \in T
  <2> HIDE DEF T
  <2> QED BY <1>3, <1>4, Induct
<1>6. St(i) \in HeapStates(E, n) /\ RisingAt(St(i).heap, n, St(i).at) /\ St(i).at \in 1 .. n /\ Shuffled(St(i).heap, h, n)
      /\ St(i).heap \in Heaps(E, n)
  BY <1>2, <1>5 DEF HeapStates
<1>7. UpTurn(St(i)) = St(i)
  BY <1>5, <1>6
<1>8. Ordered(St(i).heap, n)
  <2> DEFINE g == St(i).heap
             j == St(i).at
  <2>1. g \in Heaps(E, n) /\ j \in 1 .. n /\ St(i) = [heap |-> g, at |-> j] /\ RisingAt(g, n, j)
    BY <1>6 DEF HeapStates
  <2> HIDE DEF g, j
  <2>2. Ordered(g, n)
    BY <1>7, <2>1, UpKeeps
  <2> QED BY <2>2 DEF g
<1>9. timer_sift_up(h, i) = St(i).heap
  BY DEF timer_sift_up, St, UpRun
<1> QED BY <1>6, <1>8, <1>9

-----------------------------------------------------------------------------
(* Sifting down.                                                            *)

(* The smallest of an entry and its children.                               *)
LEMMA SmallestChild ==
  ASSUME NEW E, Timers(E), NEW n \in Nat, NEW h \in Heaps(E, n), NEW i \in 1 .. n
  PROVE  /\ Smallest(h, i) \in 1 .. n
         /\ \A j \in 2 .. n : j \div 2 = i => h[Smallest(h, i)].left <= h[j].left
         /\ h[Smallest(h, i)].left <= h[i].left
         /\ Smallest(h, i) # i => Smallest(h, i) \div 2 = i /\ Smallest(h, i) > i /\ h[Smallest(h, i)].left < h[i].left
<1> DEFINE l == 2 * i
           m == IF l <= n /\ h[l].left < h[i].left THEN l ELSE i
           r == IF l + 1 <= n /\ h[l + 1].left < h[m].left THEN l + 1 ELSE m
<1>1. Len(h) = n /\ \A k \in 1 .. n : h[k].left \in Int
  BY DEF Heaps, Timers
<1>2. Smallest(h, i) = r
  BY <1>1 DEF Smallest
<1>3. \A j \in 2 .. n : j \div 2 = i => j = l \/ j = l + 1
  OBVIOUS
<1>4. l \div 2 = i /\ (l + 1) \div 2 = i /\ l > i /\ l \in Nat
  OBVIOUS
<1> HIDE DEF l
<1>5. m \in 1 .. n /\ h[m].left <= h[i].left /\ (l \in 2 .. n => h[m].left <= h[l].left) /\ (m = i \/ (m = l /\ h[m].left < h[i].left))
  BY <1>1, <1>4
<1> HIDE DEF m
<1>6. r \in 1 .. n /\ h[r].left <= h[m].left /\ (l + 1 \in 2 .. n => h[r].left <= h[l + 1].left) /\ (r = m \/ (r = l + 1 /\ h[r].left < h[m].left))
  BY <1>1, <1>4, <1>5
<1> HIDE DEF r
<1>7. \A j \in 2 .. n : j \div 2 = i => h[r].left <= h[j].left
  BY <1>1, <1>3, <1>4, <1>5, <1>6, SMTT(20)
<1>8. h[r].left <= h[i].left /\ (r # i => r \div 2 = i /\ r > i /\ h[r].left < h[i].left)
  BY <1>1, <1>4, <1>5, <1>6
<1> QED BY <1>2, <1>6, <1>7, <1>8

(* One turn of the sift down stays in the array.                            *)
LEMMA DownType ==
  ASSUME NEW E, Timers(E), NEW n \in Nat, NEW s \in HeapStates(E, n)
  PROVE  DownTurn(s) \in HeapStates(E, n)
<1> DEFINE m == Smallest(s.heap, s.at)
<1>1. s.heap \in Heaps(E, n) /\ s.at \in 1 .. n
  BY DEF HeapStates
<1>2. m \in 1 .. n
  BY <1>1, SmallestChild
<1> HIDE DEF m
<1>3. timer_swap(s.heap, s.at, m) \in Heaps(E, n)
  BY <1>1, <1>2, SwapShuffles
<1> QED BY <1>1, <1>2, <1>3 DEF DownTurn, HeapStates, m

DownRun(x, k) == After(DownTurn, x, k)

(* The sift down, turn after turn.                                          *)
LEMMA DownLoop ==
  ASSUME NEW E, Timers(E), NEW n \in Nat, NEW x \in HeapStates(E, n)
  PROVE  /\ DownRun(x, 0) = x
         /\ \A k \in Nat : DownRun(x, k) \in HeapStates(E, n) /\ DownRun(x, k + 1) = DownTurn(DownRun(x, k))
<1> DEFINE S == HeapStates(E, n)
           F == [s \in S |-> DownTurn(s)]
           Run(g) == g = [k \in Nat |-> IF k = 0 THEN x ELSE DownTurn(g[k - 1])]
           run == CHOOSE g : Run(g)
<1> HIDE DEF S
<1>1. F \in [S -> S] /\ \A s \in S : F[s] = DownTurn(s)
  BY DownType DEF S
<1> HIDE DEF F
<1>2. PICK g \in [Nat -> S] : g[0] = x /\ \A k \in Nat : g[k + 1] = F[g[k]]
  <2>1. x \in S /\ F \in [S -> S]
    BY <1>1 DEF S
  <2>2. RunsOf(S, F, x) # {}
    BY <2>1, Iterate
  <2> QED BY <2>2 DEF RunsOf
<1>3. Run(g)
  <2>1. ASSUME NEW k \in Nat PROVE g[k] = IF k = 0 THEN x ELSE DownTurn(g[k - 1])
    <3>1. CASE k # 0
      <4>1. k - 1 \in Nat /\ (k - 1) + 1 = k
        BY <3>1
      <4>2. g[(k - 1) + 1] = F[g[k - 1]]
        BY <1>2, <4>1
      <4> QED BY <1>1, <1>2, <3>1, <4>1, <4>2
    <3> QED BY <1>2, <3>1
  <2> QED BY <2>1
<1>4. Run(run)
  BY <1>3
<1>5. \A k : DownRun(x, k) = run[k]
  BY DEF After, DownRun
<1> HIDE DEF run
<1>6. run[0] = x /\ \A k \in Nat : run[k + 1] = DownTurn(run[k])
  BY <1>4
<1> DEFINE T == {k \in Nat : run[k] \in S}
<1>7. 0 \in T /\ \A k \in Nat : k \in T => k + 1 \in T
  BY <1>1, <1>6 DEF S
<1> HIDE DEF T
<1>8. Nat \subseteq T
  BY <1>7, Induct
<1> QED BY <1>5, <1>6, <1>8 DEF T, S

\* Heap order but for the entry that sinks from i, now at a.
SinkingAt(h, n, i, a) ==
  /\ i <= a
  /\ \A j \in 2 .. n : j \div 2 # a /\ j # i => h[j \div 2].left <= h[j].left
  /\ a > 1 => \A j \in 2 .. n : j \div 2 = a => h[a \div 2].left <= h[j].left
  /\ a # i /\ i > 1 => h[i \div 2].left <= h[i].left

(* A turn of the sift down moves the one misplaced entry down, or it was    *)
(* none below.                                                              *)
LEMMA DownKeeps ==
  ASSUME NEW E, Timers(E), NEW n \in Nat, NEW h \in Heaps(E, n), NEW i \in 1 .. n, NEW a \in 1 .. n,
         SinkingAt(h, n, i, a), NEW s, s = [heap |-> h, at |-> a]
  PROVE  /\ SinkingAt(DownTurn(s).heap, n, i, DownTurn(s).at)
         /\ Shuffled(DownTurn(s).heap, h, n)
         /\ DownTurn(s) = s => RisingAt(h, n, i)
         /\ DownTurn(s) # s => DownTurn(s).at > a
<1> DEFINE m == Smallest(h, a)
           g == timer_swap(h, a, m)
<1>1. \A k \in 1 .. n : h[k].left \in Int
  BY DEF Timers, Heaps
<1>2. /\ m \in 1 .. n /\ h[m].left <= h[a].left /\ (\A j \in 2 .. n : j \div 2 = a => h[m].left <= h[j].left)
      /\ m # a => m \div 2 = a /\ m > a /\ h[m].left < h[a].left
  BY SmallestChild
<1>3. DownTurn(s) = IF m = a THEN s ELSE [heap |-> g, at |-> m]
  BY DEF DownTurn
<1> HIDE DEF m
<1>4. /\ g \in Heaps(E, n) /\ Shuffled(g, h, n)
      /\ \A k \in 1 .. n : g[k] = IF k = a THEN h[m] ELSE IF k = m THEN h[a] ELSE h[k]
  <2>1. m \in 1 .. n /\ h \in Heaps(E, n) /\ a \in 1 .. n /\ n \in Nat
    BY <1>2
  <2> QED BY ONLY <2>1, SwapShuffles
<1> HIDE DEF g
<1>5. \A j \in 2 .. n : j \div 2 \in 1 .. n /\ j \div 2 < j
  OBVIOUS
<1>6. CASE m = a
  <2>1. DownTurn(s) = s
    BY <1>3, <1>6
  <2>2. Shuffled(h, h, n)
    BY DEF Shuffled
  <2>3. ASSUME NEW j \in 2 .. n, j # i PROVE h[j \div 2].left <= h[j].left
    BY <1>2, <1>6, <2>3 DEF SinkingAt
  <2>4. ASSUME NEW j \in 2 .. n, j \div 2 = i, i > 1 PROVE h[i \div 2].left <= h[j].left
    <3>1. CASE a = i
      BY <2>4, <3>1 DEF SinkingAt
    <3>2. CASE a # i
      <4>1. h[i \div 2].left <= h[i].left /\ h[i].left <= h[j].left /\ i \div 2 \in 1 .. n
        BY <1>5, <2>3, <2>4, <3>2 DEF SinkingAt
      <4> QED BY <1>1, <4>1
    <3> QED BY <3>1, <3>2
  <2>5. RisingAt(h, n, i)
    BY <2>3, <2>4 DEF RisingAt
  <2> QED BY <2>1, <2>2, <2>5
<1>7. CASE m # a
  <2>1. DownTurn(s).heap = g /\ DownTurn(s).at = m /\ DownTurn(s) # s
    BY <1>3, <1>7
  <2>2. i <= a /\ i <= m /\ m # i
    BY <1>2, <1>7 DEF SinkingAt
  <2>3. ASSUME NEW j \in 2 .. n, j \div 2 # m, j # i PROVE g[j \div 2].left <= g[j].left
    <3>1. CASE j = m
      BY <1>1, <1>2, <1>4, <1>7, <3>1
    <3>2. CASE j # m /\ j \div 2 = a
      <4>1. j # a /\ j \div 2 # j
        BY <1>5, <3>2
      <4> QED BY <1>1, <1>2, <1>4, <3>2, <4>1
    <3>3. CASE j # m /\ j \div 2 # a /\ j = a
      <4>1. h[a \div 2].left <= h[m].left /\ a \div 2 \in 1 .. n /\ a \div 2 # a
        BY <1>2, <1>5, <1>7, <3>3 DEF SinkingAt
      <4> QED BY <1>1, <1>2, <1>4, <1>7, <2>3, <3>3, <4>1
    <3>4. CASE j # m /\ j \div 2 # a /\ j # a
      <4>1. h[j \div 2].left <= h[j].left /\ j \div 2 \in 1 .. n
        BY <1>5, <2>3, <3>4 DEF SinkingAt
      <4> QED BY <1>4, <2>3, <3>4, <4>1
    <3> QED BY <3>1, <3>2, <3>3, <3>4
  <2>4. ASSUME NEW j \in 2 .. n, j \div 2 = m PROVE g[m \div 2].left <= g[j].left
    <3>1. j > m /\ j # a /\ j # i /\ j \div 2 # a
      BY <1>2, <1>5, <1>7, <2>2, <2>4
    <3>2. h[m].left <= h[j].left
      BY <2>4, <3>1 DEF SinkingAt
    <3> QED BY <1>2, <1>4, <1>7, <3>1, <3>2
  <2>5. ASSUME i > 1 PROVE g[i \div 2].left <= g[i].left
    <3>1. i \div 2 \in 1 .. n /\ i \div 2 < i /\ i < m /\ i <= a
      BY <1>2, <1>7, <2>2, <2>5
    <3>2. CASE a = i
      <4>1. h[i \div 2].left <= h[m].left
        BY <1>2, <1>7, <2>5, <3>2 DEF SinkingAt
      <4> QED BY <1>4, <3>1, <3>2, <4>1
    <3>3. CASE a # i
      <4>1. h[i \div 2].left <= h[i].left
        BY <2>5, <3>3 DEF SinkingAt
      <4> QED BY <1>4, <3>1, <3>3, <4>1
    <3> QED BY <3>2, <3>3
  <2>6. SinkingAt(g, n, i, m)
    BY <2>2, <2>3, <2>4, <2>5 DEF SinkingAt
  <2> QED BY <1>2, <1>4, <1>7, <2>1, <2>6
<1> QED BY <1>6, <1>7

(* timer_sift_down leaves at most the hole's entry to be sifted up.         *)
LEMMA SiftDown ==
  ASSUME NEW E, Timers(E), NEW n \in Nat, NEW h \in Heaps(E, n), NEW i \in 1 .. n, SinkingAt(h, n, i, i)
  PROVE  /\ timer_sift_down(h, i) \in Heaps(E, n)
         /\ RisingAt(timer_sift_down(h, i), n, i)
         /\ Shuffled(timer_sift_down(h, i), h, n)
<1> DEFINE x == [heap |-> h, at |-> i]
           St(k) == DownRun(x, k)
           T == {k \in Nat : /\ SinkingAt(St(k).heap, n, i, St(k).at) /\ Shuffled(St(k).heap, h, n)
                             /\ DownTurn(St(k)) = St(k) \/ St(k).at >= i + k}
<1>1. x \in HeapStates(E, n)
  BY DEF HeapStates
<1>2. St(0) = x /\ \A k \in Nat : St(k) \in HeapStates(E, n) /\ St(k + 1) = DownTurn(St(k))
  <2> HIDE DEF x
  <2> QED BY <1>1, DownLoop
<1> HIDE DEF St
<1>3. 0 \in T
  <2>1. x.heap = h /\ x.at = i /\ Shuffled(h, h, n)
    BY DEF Shuffled
  <2> HIDE DEF x
  <2>2. St(0).heap = h /\ St(0).at = i
    BY <1>2, <2>1, Zenon
  <2>3. i >= i + 0
    OBVIOUS
  <2> QED BY <2>1, <2>2, <2>3
<1>4. ASSUME NEW k \in Nat, k \in T PROVE k + 1 \in T
  <2>1. St(k) \in HeapStates(E, n) /\ St(k + 1) \in HeapStates(E, n) /\ St(k + 1) = DownTurn(St(k)) /\ SinkingAt(St(k).heap, n, i, St(k).at)
    BY <1>2, <1>4
  <2>2. /\ SinkingAt(St(k + 1).heap, n, i, St(k + 1).at)
        /\ Shuffled(St(k + 1).heap, St(k).heap, n)
        /\ St(k + 1) # St(k) => St(k + 1).at > St(k).at
    <3> DEFINE g == St(k).heap
               j == St(k).at
    <3>1. g \in Heaps(E, n) /\ j \in 1 .. n /\ St(k) = [heap |-> g, at |-> j]
      BY <2>1 DEF HeapStates
    <3>2. SinkingAt(g, n, i, j)
      BY <2>1
    <3> HIDE DEF g, j
    <3>3. /\ SinkingAt(DownTurn(St(k)).heap, n, i, DownTurn(St(k)).at)
          /\ Shuffled(DownTurn(St(k)).heap, g, n)
          /\ DownTurn(St(k)) # St(k) => DownTurn(St(k)).at > j
      BY <3>1, <3>2, DownKeeps
    <3> QED BY <2>1, <3>3 DEF g, j
  <2>3. St(k).at \in Nat /\ St(k + 1).at \in Nat
    BY <2>1 DEF HeapStates
  <2>4. Shuffled(St(k + 1).heap, h, n)
    BY <1>4, <2>2, ShuffledTwice
  <2>5. DownTurn(St(k + 1)) = St(k + 1) \/ St(k + 1).at >= i + (k + 1)
    <3>1. CASE St(k + 1) = St(k)
      BY <2>1, <3>1
    <3>2. CASE St(k + 1) # St(k)
      BY <1>4, <2>1, <2>2, <2>3, <3>2
    <3> QED BY <3>1, <3>2
  <2> QED BY <2>2, <2>4, <2>5
<1>5. n \in T
  <2> HIDE DEF T
  <2> QED BY <1>3, <1>4, Induct
<1>6. St(n) \in HeapStates(E, n) /\ SinkingAt(St(n).heap, n, i, St(n).at) /\ St(n).at \in 1 .. n /\ Shuffled(St(n).heap, h, n)
      /\ St(n).heap \in Heaps(E, n)
  BY <1>2, <1>5 DEF HeapStates
<1>7. DownTurn(St(n)) = St(n)
  BY <1>5, <1>6
<1>8. RisingAt(St(n).heap, n, i)
  <2> DEFINE g == St(n).heap
             j == St(n).at
  <2>1. g \in Heaps(E, n) /\ j \in 1 .. n /\ St(n) = [heap |-> g, at |-> j] /\ SinkingAt(g, n, i, j)
    BY <1>6 DEF HeapStates
  <2> HIDE DEF g, j
  <2>2. RisingAt(g, n, i)
    BY <1>7, <2>1, DownKeeps
  <2> QED BY <2>2 DEF g
<1>9. timer_sift_down(h, i) = St(n).heap
  BY DEF timer_sift_down, St, DownRun, Heaps
<1> QED BY <1>6, <1>8, <1>9

-----------------------------------------------------------------------------
(* What the operations of the heap do.                                      *)

\* No entry is there twice.
Distinct(h) == \A i, j \in DOMAIN h : h[i] = h[j] => i = j

(* Taking the last entry off.                                               *)
LEMMA FrontOf ==
  ASSUME NEW E, NEW n \in Nat \ {0}, NEW h \in Heaps(E, n)
  PROVE  /\ Front(h) \in Heaps(E, n - 1) /\ Last(h) = h[n] /\ Last(h) \in E /\ Len(h) = n
         /\ \A k \in 1 .. n - 1 : Front(h)[k] = h[k]
<1>1. Len(h) = n /\ h \in Seq(E)
  BY DEF Heaps
<1>2. /\ SubSeq(h, 1, n - 1) \in Seq(E) /\ Len(SubSeq(h, 1, n - 1)) = n - 1
      /\ \A k \in 1 .. n - 1 : SubSeq(h, 1, n - 1)[k] = h[k]
  BY <1>1, SubSeqProperties
<1> DEFINE f == SubSeq(h, 1, n - 1)
<1> HIDE DEF f
<1>3. f \in Heaps(E, n - 1)
  <2>1. f \in Seq(E) /\ Len(f) = n - 1
    BY <1>2 DEF f
  <2> QED BY ONLY <2>1 DEF Heaps
<1>4. Front(h) = f /\ Last(h) = h[n] /\ h[n] \in E
  BY <1>1 DEF Front, Last, f, Heaps
<1> QED BY <1>1, <1>2, <1>3, <1>4 DEF f

(* The last entry fills the hole.                                           *)
LEMMA FdsDrop ==
  ASSUME NEW E, NEW n \in Nat \ {0}, NEW h \in Heaps(E, n), NEW i \in 1 .. n
  PROVE  /\ fds_drop(h, i) \in Heaps(E, n - 1)
         /\ \A k \in 1 .. n - 1 : fds_drop(h, i)[k] = IF k = i THEN h[n] ELSE h[k]
         /\ Distinct(h) => Distinct(fds_drop(h, i)) /\ Range(fds_drop(h, i)) = Range(h) \ {h[i]}
<1> DEFINE d == fds_drop(h, i)
<1>1. /\ d \in Heaps(E, n - 1) /\ DOMAIN d = 1 .. n - 1 /\ DOMAIN h = 1 .. n
      /\ \A k \in 1 .. n - 1 : d[k] = IF k = i THEN h[n] ELSE h[k]
  <2> DEFINE f == Front(h)
  <2>1. f \in Heaps(E, n - 1) /\ Last(h) = h[n] /\ Last(h) \in E /\ Len(h) = n /\ \A k \in 1 .. n - 1 : f[k] = h[k]
    BY FrontOf
  <2>2. d = IF i = n THEN f ELSE [f EXCEPT ![i] = h[n]]
    BY <2>1 DEF fds_drop
  <2> HIDE DEF f, d
  <2>3. DOMAIN f = 1 .. n - 1 /\ f \in [1 .. n - 1 -> E] /\ h[n] \in E /\ DOMAIN h = 1 .. n
    BY <2>1 DEF Heaps
  <2>4. d \in [1 .. n - 1 -> E] /\ DOMAIN d = 1 .. n - 1
    BY <2>2, <2>3
  <2>5. \A k \in 1 .. n - 1 : d[k] = IF k = i THEN h[n] ELSE h[k]
    BY <2>1, <2>2, <2>3
  <2> QED BY <2>3, <2>4, <2>5 DEF Heaps
<1> HIDE DEF d
<1>2. ASSUME Distinct(h) PROVE Distinct(d) /\ Range(d) = Range(h) \ {h[i]}
  <2>0. \A k, l \in 1 .. n : h[k] = h[l] => k = l
    BY <1>1, <1>2 DEF Distinct
  <2>1. Distinct(d)
    BY <1>1, <2>0 DEF Distinct
  <2>2. ASSUME NEW x \in Range(d) PROVE x \in Range(h) \ {h[i]}
    <3>1. PICK k \in 1 .. n - 1 : x = d[k]
      BY <1>1 DEF Range
    <3>2. CASE k = i
      BY <1>1, <2>0, <3>1, <3>2 DEF Range
    <3>3. CASE k # i
      BY <1>1, <2>0, <3>1, <3>3 DEF Range
    <3> QED BY <3>2, <3>3
  <2>3. ASSUME NEW x \in Range(h), x # h[i] PROVE x \in Range(d)
    <3>1. PICK k \in 1 .. n : x = h[k]
      BY <1>1 DEF Range
    <3>2. CASE k = n
      <4>1. i \in 1 .. n - 1 /\ d[i] = x
        BY <1>1, <2>3, <3>1, <3>2
      <4> QED BY <1>1, <4>1 DEF Range
    <3>3. CASE k # n
      <4>1. k \in 1 .. n - 1 /\ d[k] = x
        BY <1>1, <2>3, <3>1, <3>3
      <4> QED BY <1>1, <4>1 DEF Range
    <3> QED BY <3>2, <3>3
  <2> QED BY <2>1, <2>2, <2>3
<1> QED BY <1>1, <1>2 DEF d

(* A shuffled heap has the same entries.                                    *)
LEMMA ShuffledRange ==
  ASSUME NEW E, NEW n \in Nat, NEW g \in Heaps(E, n), NEW h \in Heaps(E, n), Shuffled(g, h, n)
  PROVE  Range(g) = Range(h) /\ (Distinct(h) => Distinct(g))
<1>1. DOMAIN g = 1 .. n /\ DOMAIN h = 1 .. n
  BY DEF Heaps
<1>2. ASSUME NEW x \in Range(g) PROVE x \in Range(h)
  <2>1. PICK k \in 1 .. n : x = g[k]
    BY <1>1 DEF Range
  <2>2. PICK l \in 1 .. n : g[k] = h[l]
    BY DEF Shuffled
  <2> QED BY <1>1, <2>1, <2>2 DEF Range
<1>3. ASSUME NEW x \in Range(h) PROVE x \in Range(g)
  <2>1. PICK k \in 1 .. n : x = h[k]
    BY <1>1 DEF Range
  <2>2. PICK l \in 1 .. n : h[k] = g[l]
    BY DEF Shuffled
  <2> QED BY <1>1, <2>1, <2>2 DEF Range
<1>4. Distinct(h) => Distinct(g)
  BY <1>1 DEF Distinct, Shuffled
<1> QED BY <1>2, <1>3, <1>4

(* Removing the timer at i keeps the order and loses no other timer.        *)
LEMMA TimerDrop ==
  ASSUME NEW E, Timers(E), NEW n \in Nat \ {0}, NEW h \in Heaps(E, n), Ordered(h, n), NEW i \in 1 .. n
  PROVE  /\ timer_drop(h, i) \in Heaps(E, n - 1)
         /\ Ordered(timer_drop(h, i), n - 1)
         /\ Distinct(h) => Distinct(timer_drop(h, i)) /\ Range(timer_drop(h, i)) = Range(h) \ {h[i]}
<1> DEFINE g == fds_drop(h, i)
<1>1. /\ g \in Heaps(E, n - 1) /\ n - 1 \in Nat
      /\ \A k \in 1 .. n - 1 : g[k] = IF k = i THEN h[n] ELSE h[k]
      /\ Distinct(h) => Distinct(g) /\ Range(g) = Range(h) \ {h[i]}
  BY FdsDrop
<1>2. Len(h) = n /\ \A k \in 1 .. n : h[k].left \in Int
  BY DEF Heaps, Timers
<1>3. CASE i = n
  <2>1. timer_drop(h, i) = g
    BY <1>2, <1>3 DEF timer_drop, fds_drop
  <2> HIDE DEF g
  <2>2. Ordered(g, n - 1)
    <3>1. ASSUME NEW j \in 2 .. n - 1 PROVE g[j \div 2].left <= g[j].left
      <4>1. j \div 2 \in 1 .. n - 1 /\ j \in 2 .. n /\ j # i /\ j \div 2 # i
        BY <1>3
      <4> QED BY <1>1, <4>1 DEF Ordered
    <3> QED BY <3>1 DEF Ordered
  <2> QED BY <1>1, <2>1, <2>2
<1>4. CASE i # n
  <2> DEFINE d == timer_sift_down(g, i)
             u == timer_sift_up(d, i)
  <2>1. timer_drop(h, i) = u /\ i \in 1 .. n - 1
    BY <1>2, <1>4 DEF timer_drop
  <2>2. SinkingAt(g, n - 1, i, i)
    <3> HIDE DEF g
    <3>1. ASSUME NEW j \in 2 .. n - 1, j \div 2 # i, j # i PROVE g[j \div 2].left <= g[j].left
      <4>1. j \div 2 \in 1 .. n - 1 /\ j \in 2 .. n
        OBVIOUS
      <4> QED BY <1>1, <3>1, <4>1 DEF Ordered
    <3>2. ASSUME NEW j \in 2 .. n - 1, j \div 2 = i, i > 1 PROVE g[i \div 2].left <= g[j].left
      <4>1. i \div 2 \in 1 .. n - 1 /\ i \div 2 # i /\ j \in 2 .. n /\ i \in 2 .. n /\ j # i
        BY <3>2
      <4>2. h[i \div 2].left <= h[i].left /\ h[i].left <= h[j].left
        BY <3>2, <4>1 DEF Ordered
      <4>3. g[i \div 2] = h[i \div 2] /\ g[j] = h[j]
        BY <1>1, <4>1
      <4> QED BY <1>2, <2>1, <4>1, <4>2, <4>3
    <3> QED BY <3>1, <3>2 DEF SinkingAt
  <2> HIDE DEF g
  <2>3. d \in Heaps(E, n - 1) /\ RisingAt(d, n - 1, i) /\ Shuffled(d, g, n - 1)
    BY <1>1, <2>1, <2>2, SiftDown
  <2> HIDE DEF d
  <2>4. u \in Heaps(E, n - 1) /\ Ordered(u, n - 1) /\ Shuffled(u, d, n - 1)
    BY <1>1, <2>1, <2>3, SiftUp
  <2> HIDE DEF u
  <2>5. Range(u) = Range(g) /\ (Distinct(g) => Distinct(u))
    BY <1>1, <2>3, <2>4, ShuffledRange
  <2> QED BY <1>1, <2>1, <2>4, <2>5
<1> QED BY <1>3, <1>4

(* Arming a timer keeps the order and all timers.                           *)
LEMMA TimerAdd ==
  ASSUME NEW E, Timers(E), NEW n \in Nat, NEW h \in Heaps(E, n), Ordered(h, n), NEW e \in E
  PROVE  /\ timer_add(h, e) \in Heaps(E, n + 1)
         /\ Ordered(timer_add(h, e), n + 1)
         /\ Range(timer_add(h, e)) = Range(h) \cup {e}
         /\ Distinct(h) /\ e \notin Range(h) => Distinct(timer_add(h, e))
<1> DEFINE g == Append(h, e)
           u == timer_sift_up(g, n + 1)
<1>1. Len(h) = n /\ h \in Seq(E) /\ DOMAIN h = 1 .. n
  BY DEF Heaps
<1>2. g \in Heaps(E, n + 1) /\ DOMAIN g = 1 .. n + 1 /\ g[n + 1] = e /\ \A k \in 1 .. n : g[k] = h[k]
  <2>1. g \in Seq(E) /\ Len(g) = n + 1 /\ g[n + 1] = e /\ \A k \in 1 .. n : g[k] = h[k]
    BY <1>1, AppendProperties
  <2> HIDE DEF g
  <2>2. g \in [1 .. n + 1 -> E]
    BY ONLY <2>1
  <2> QED BY <2>1, <2>2 DEF Heaps
<1>3. timer_add(h, e) = u
  BY <1>1 DEF timer_add
<1> HIDE DEF g
<1>4. RisingAt(g, n + 1, n + 1)
  <2>1. ASSUME NEW j \in 2 .. n + 1, j # n + 1 PROVE g[j \div 2].left <= g[j].left
    <3>1. j \div 2 \in 1 .. n /\ j \in 2 .. n
      BY <2>1
    <3> QED BY <1>2, <3>1 DEF Ordered
  <2> QED BY <2>1 DEF RisingAt
<1>5. u \in Heaps(E, n + 1) /\ Ordered(u, n + 1) /\ Shuffled(u, g, n + 1)
  <2>1. n + 1 \in Nat /\ n + 1 \in 1 .. n + 1
    OBVIOUS
  <2> QED BY <1>2, <1>4, <2>1, SiftUp
<1> HIDE DEF u
<1>6. Range(u) = Range(g) /\ (Distinct(g) => Distinct(u))
  BY <1>2, <1>5, ShuffledRange
<1>7. Range(g) = Range(h) \cup {e}
  <2>1. ASSUME NEW x \in Range(g) PROVE x \in Range(h) \cup {e}
    BY <1>1, <1>2 DEF Range
  <2>2. ASSUME NEW x \in Range(h) PROVE x \in Range(g)
    BY <1>1, <1>2 DEF Range
  <2>3. e \in Range(g)
    BY <1>2 DEF Range
  <2> QED BY <2>1, <2>2, <2>3
<1>8. Distinct(h) /\ e \notin Range(h) => Distinct(g)
  BY <1>1, <1>2 DEF Distinct, Range
<1> QED BY <1>3, <1>5, <1>6, <1>7, <1>8

(* The root is the nearest deadline of all.                                 *)
LEMMA RootNearest ==
  ASSUME NEW E, Timers(E), NEW n \in Nat, NEW h \in Heaps(E, n), Ordered(h, n), NEW i \in 1 .. n
  PROVE  h[1].left <= h[i].left
<1> DEFINE T == {k \in Nat : \A j \in 1 .. n : j <= k + 1 => h[1].left <= h[j].left}
<1>1. \A k \in 1 .. n : h[k].left \in Int
  BY DEF Heaps, Timers
<1>2. 0 \in T
  BY <1>1
<1>3. ASSUME NEW k \in Nat, k \in T PROVE k + 1 \in T
  <2>1. ASSUME NEW j \in 1 .. n, j = k + 2 PROVE h[1].left <= h[j].left
    <3>1. j \in 2 .. n /\ j \div 2 \in 1 .. n /\ j \div 2 <= k + 1 /\ 1 \in 1 .. n
      BY <2>1
    <3>2. h[j \div 2].left <= h[j].left /\ h[1].left <= h[j \div 2].left
      BY <1>3, <3>1 DEF Ordered
    <3> QED BY <1>1, <3>1, <3>2
  <2> QED BY <1>3, <2>1
<1>4. i \in T
  <2> HIDE DEF T
  <2> QED BY <1>2, <1>3, Induct
<1> QED BY <1>4

-----------------------------------------------------------------------------
\* The heaps the poller keeps: in order, no timer twice.
GoodHeaps(E) == {h \in Seq(E) : Ordered(h, Len(h)) /\ Distinct(h)}

(* A sequence as an array of its length, and back.                          *)
LEMMA SeqHeap ==
  ASSUME NEW E
  PROVE  /\ \A h \in Seq(E) : Len(h) \in Nat /\ h \in Heaps(E, Len(h)) /\ DOMAIN h = 1 .. Len(h)
         /\ \A n \in Nat : \A h \in Heaps(E, n) : h \in Seq(E) /\ Len(h) = n
<1>1. ASSUME NEW h \in Seq(E) PROVE Len(h) \in Nat /\ h \in Heaps(E, Len(h)) /\ DOMAIN h = 1 .. Len(h)
  BY DEF Heaps
<1>2. ASSUME NEW n \in Nat, NEW h \in Heaps(E, n) PROVE h \in Seq(E) /\ Len(h) = n
  BY DEF Heaps
<1> QED BY <1>1, <1>2

(* Removing and arming, on good heaps.                                      *)
LEMMA GoodDrop ==
  ASSUME NEW E, Timers(E), NEW h \in GoodHeaps(E), NEW i \in DOMAIN h
  PROVE  /\ timer_drop(h, i) \in GoodHeaps(E) /\ Len(timer_drop(h, i)) = Len(h) - 1
         /\ Range(timer_drop(h, i)) = Range(h) \ {h[i]}
<1> DEFINE n == Len(h)
           d == timer_drop(h, i)
<1>1. n \in Nat /\ h \in Heaps(E, n) /\ i \in 1 .. n /\ Ordered(h, n) /\ Distinct(h)
  BY SeqHeap DEF GoodHeaps
<1> HIDE DEF n
<1>2. n \in Nat \ {0} /\ n - 1 \in Nat
  BY <1>1
<1>3. d \in Heaps(E, n - 1) /\ Ordered(d, n - 1) /\ Distinct(d) /\ Range(d) = Range(h) \ {h[i]}
  BY <1>1, <1>2, TimerDrop
<1> HIDE DEF d
<1>4. d \in Seq(E) /\ Len(d) = n - 1
  BY <1>2, <1>3, SeqHeap
<1> QED BY <1>3, <1>4 DEF GoodHeaps, d, n

(* The same of arming a timer that is not there yet.                        *)
LEMMA GoodAdd ==
  ASSUME NEW E, Timers(E), NEW h \in GoodHeaps(E), NEW e \in E, e \notin Range(h)
  PROVE  /\ timer_add(h, e) \in GoodHeaps(E) /\ Len(timer_add(h, e)) = Len(h) + 1
         /\ Range(timer_add(h, e)) = Range(h) \cup {e}
<1> DEFINE n == Len(h)
           d == timer_add(h, e)
<1>1. n \in Nat /\ h \in Heaps(E, n) /\ Ordered(h, n) /\ Distinct(h)
  BY SeqHeap DEF GoodHeaps
<1> HIDE DEF n
<1>2. n + 1 \in Nat
  BY <1>1
<1>3. d \in Heaps(E, n + 1) /\ Ordered(d, n + 1) /\ Distinct(d) /\ Range(d) = Range(h) \cup {e}
  BY <1>1, <1>2, TimerAdd
<1> HIDE DEF d
<1>4. d \in Seq(E) /\ Len(d) = n + 1
  BY <1>2, <1>3, SeqHeap
<1> QED BY <1>3, <1>4 DEF GoodHeaps, d, n

(* One turn of the harvest: the nearest timer, if it is due.                *)
LEMMA HarvestKeeps ==
  ASSUME NEW E, Timers(E), NEW h \in GoodHeaps(E)
  PROVE  /\ HarvestTurn(h) \in GoodHeaps(E)
         /\ \/ HarvestTurn(h) = h /\ \A e \in Range(h) : e.left > 0
            \/ \E e \in Range(h) : e.left <= 0 /\ Range(HarvestTurn(h)) = Range(h) \ {e}
<1>1. Len(h) \in Nat /\ h \in Heaps(E, Len(h)) /\ DOMAIN h = 1 .. Len(h) /\ Ordered(h, Len(h))
  BY SeqHeap DEF GoodHeaps
<1>2. \A i \in DOMAIN h : h[i] \in Range(h) /\ h[i].left \in Int
  BY <1>1 DEF Heaps, Timers, Range
<1>3. CASE h = <<>>
  BY <1>3 DEF HarvestTurn, Range
<1>4. CASE h # <<>>
  <2>1. 1 \in DOMAIN h
    BY <1>1, <1>4 DEF GoodHeaps
  <2>2. CASE h[1].left > 0
    <3>1. ASSUME NEW e \in Range(h) PROVE e.left > 0
      <4>1. PICK i \in DOMAIN h : e = h[i]
        BY DEF Range
      <4>2. h[1].left <= h[i].left
        BY <1>1, <4>1, RootNearest
      <4> QED BY <1>2, <2>1, <2>2, <4>1, <4>2
    <3> QED BY <2>2, <3>1 DEF HarvestTurn
  <2>3. CASE ~(h[1].left > 0)
    <3>1. HarvestTurn(h) = timer_drop(h, 1)
      BY <1>4, <2>3 DEF HarvestTurn
    <3>2. timer_drop(h, 1) \in GoodHeaps(E) /\ Range(timer_drop(h, 1)) = Range(h) \ {h[1]}
      BY <2>1, GoodDrop
    <3> QED BY <1>2, <2>1, <2>3, <3>1, <3>2
  <2> QED BY <2>2, <2>3
<1> QED BY <1>3, <1>4

HarvestRun(h, k) == After(HarvestTurn, h, k)

(* The harvest, turn after turn.                                            *)
LEMMA HarvestLoop ==
  ASSUME NEW E, Timers(E), NEW x \in GoodHeaps(E)
  PROVE  /\ HarvestRun(x, 0) = x
         /\ \A k \in Nat : HarvestRun(x, k) \in GoodHeaps(E) /\ HarvestRun(x, k + 1) = HarvestTurn(HarvestRun(x, k))
<1> DEFINE S == GoodHeaps(E)
           F == [s \in S |-> HarvestTurn(s)]
           Run(g) == g = [k \in Nat |-> IF k = 0 THEN x ELSE HarvestTurn(g[k - 1])]
           run == CHOOSE g : Run(g)
<1> HIDE DEF S
<1>1. F \in [S -> S] /\ \A s \in S : F[s] = HarvestTurn(s)
  BY HarvestKeeps DEF S
<1> HIDE DEF F
<1>2. PICK g \in [Nat -> S] : g[0] = x /\ \A k \in Nat : g[k + 1] = F[g[k]]
  <2>1. x \in S /\ F \in [S -> S]
    BY <1>1 DEF S
  <2>2. RunsOf(S, F, x) # {}
    BY <2>1, Iterate
  <2> QED BY <2>2 DEF RunsOf
<1>3. Run(g)
  <2>1. ASSUME NEW k \in Nat PROVE g[k] = IF k = 0 THEN x ELSE HarvestTurn(g[k - 1])
    <3>1. CASE k # 0
      <4>1. k - 1 \in Nat /\ (k - 1) + 1 = k
        BY <3>1
      <4>2. g[(k - 1) + 1] = F[g[k - 1]]
        BY <1>2, <4>1
      <4> QED BY <1>1, <1>2, <3>1, <4>1, <4>2
    <3> QED BY <1>2, <3>1
  <2> QED BY <2>1
<1>4. Run(run)
  BY <1>3
<1>5. \A k : HarvestRun(x, k) = run[k]
  BY DEF After, HarvestRun
<1> HIDE DEF run
<1>6. run[0] = x /\ \A k \in Nat : run[k + 1] = HarvestTurn(run[k])
  BY <1>4
<1> DEFINE T == {k \in Nat : run[k] \in S}
<1>7. 0 \in T /\ \A k \in Nat : k \in T => k + 1 \in T
  BY <1>1, <1>6 DEF S
<1> HIDE DEF T
<1>8. Nat \subseteq T
  BY <1>7, Induct
<1> QED BY <1>5, <1>6, <1>8 DEF T, S

(* What the harvest takes: due timers, no more than there is room for, and  *)
(* fewer only if no due timer is left.                                      *)
LEMMA Harvested ==
  ASSUME NEW E, Timers(E), NEW h \in GoodHeaps(E), NEW room \in Nat, NEW r, r = Harvest(h, room)
  PROVE  /\ r \in GoodHeaps(E) /\ Range(r) \subseteq Range(h)
         /\ IsFiniteSet(Range(h) \ Range(r)) /\ \A e \in Range(h) \ Range(r) : e.left <= 0
         /\ Cardinality(Range(h) \ Range(r)) <= room
         /\ Cardinality(Range(h) \ Range(r)) = room \/ \A e \in Range(r) : e.left > 0
<1> DEFINE St(k) == HarvestRun(h, k)
           Gone(k) == Range(h) \ Range(St(k))
           T == {k \in Nat : /\ Range(St(k)) \subseteq Range(h)
                             /\ IsFiniteSet(Gone(k)) /\ \A e \in Gone(k) : e.left <= 0
                             /\ Cardinality(Gone(k)) <= k
                             /\ Cardinality(Gone(k)) = k \/ \A e \in Range(St(k)) : e.left > 0}
<1>1. St(0) = h /\ \A k \in Nat : St(k) \in GoodHeaps(E) /\ St(k + 1) = HarvestTurn(St(k))
  BY HarvestLoop
<1> HIDE DEF St
<1>2. 0 \in T
  <2>1. Gone(0) = {}
    BY <1>1
  <2> HIDE DEF Gone
  <2> QED BY <1>1, <2>1, FS_EmptySet
<1>3. ASSUME NEW k \in Nat, k \in T PROVE k + 1 \in T
  <2> DEFINE s == St(k)
             u == St(k + 1)
  <2>1. s \in GoodHeaps(E) /\ u = HarvestTurn(s)
    BY <1>1
  <2>2. \/ u = s /\ \A e \in Range(s) : e.left > 0
        \/ \E e \in Range(s) : e.left <= 0 /\ Range(u) = Range(s) \ {e}
    BY <2>1, HarvestKeeps
  <2>3. Cardinality(Gone(k)) \in Nat
    <3> HIDE DEF Gone
    <3> QED BY <1>3, FS_CardinalityType
  <2>4. CASE u = s /\ \A e \in Range(s) : e.left > 0
    <3>1. Gone(k + 1) = Gone(k)
      BY <2>4
    <3> QED BY <1>3, <2>3, <2>4, <3>1
  <2>5. ASSUME NEW e \in Range(s), e.left <= 0, Range(u) = Range(s) \ {e} PROVE k + 1 \in T
    <3>1. Gone(k + 1) = Gone(k) \cup {e} /\ e \notin Gone(k) /\ Range(u) \subseteq Range(h)
      BY <1>3, <2>5
    <3>2. Cardinality(Gone(k)) = k
      <4>1. e.left \in Int
        BY <2>1 DEF GoodHeaps, Timers, Range
      <4> QED BY <1>3, <2>5, <4>1
    <3>3. IsFiniteSet(Gone(k + 1)) /\ Cardinality(Gone(k + 1)) = k + 1
      <4>1. IsFiniteSet(Gone(k))
        BY <1>3
      <4> HIDE DEF Gone
      <4> QED BY <3>1, <3>2, <4>1, FS_AddElement
    <3>4. \A x \in Gone(k + 1) : x.left <= 0
      BY <1>3, <2>5, <3>1
    <3> HIDE DEF Gone
    <3> QED BY <3>1, <3>3, <3>4
  <2> QED BY <2>2, <2>4, <2>5
<1>4. room \in T
  <2> HIDE DEF T
  <2> QED BY <1>2, <1>3, Induct
<1>5. r = St(room)
  BY DEF Harvest, St, HarvestRun
<1> QED BY <1>1, <1>4, <1>5
=============================================================================
