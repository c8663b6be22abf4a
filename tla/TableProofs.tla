---------------------------- MODULE TableProofs ----------------------------
(* Proofs about the two tables a value is looked up in: RegionTable, from   *)
(* an address to its heap region, and HandleTable, from a handle to its     *)
(* object.                                                                  *)
(*                                                                          *)
(* RegionTable, for every size and place of the arena.  The argument: the   *)
(* table is sorted and disjoint, the chunk map is the table seen from the   *)
(* chunks, a chunk that can be handed out is no region's, and the bounds    *)
(* hold every region.  Both binary searches and the sweep's walk are loops  *)
(* whose states keep what the next turn needs (LoopProofs!Iterate).         *)
(*                                                                          *)
(* HandleTable, for every number of kinds, slots and generations.  The      *)
(* argument: the pair (gen, idx) is issued at most once, because an index   *)
(* is issued again only off the free list, and a slot reaches the free list *)
(* only with a generation above every one issued.                           *)
EXTENDS RegionTable, HandleTable, LoopProofs

\* What the variables hold.
Chunks == 0 .. ArenaChunks - 1
Regions == [base : Nat, cap : Nat \ {0}, large : BOOLEAN]
Arenas == [next : Nat, recycled : Seq(Chunks), committed : SUBSET Chunks, ri : [Chunks -> Nat]]

\* Sorted and disjoint; a region of the arena is a whole chunk, the others lie outside it.
ChunkOrOutside(r) == \/ \E i \in Chunks : r = Normal(ChunkBase(i))
                     \/ \A p \in Cells(r) : ~arena_contains(p)
TableSound(table) ==
  /\ table \in Seq(Regions)
  /\ \A i, j \in DOMAIN table : i < j => table[i].base + table[i].cap <= table[j].base
  /\ \A i \in DOMAIN table : ChunkOrOutside(table[i])

\* The chunk map is the table seen from the chunks.
ChunkMapSound(table, ri) ==
  /\ \A i \in Chunks, k \in DOMAIN table : table[k].base = ChunkBase(i) => ri[i] = k
  /\ \A i \in Chunks : ri[i] # 0 => ri[i] \in DOMAIN table /\ table[ri[i]].base = ChunkBase(i)

\* A chunk that can be handed out is no region's.
Unused(table, i) == \A k \in DOMAIN table : table[k].base # ChunkBase(i)
FreeSound(table, next, recycled) ==
  /\ \A i \in Chunks : i >= next => Unused(table, i)
  /\ \A j \in DOMAIN recycled : recycled[j] < next /\ Unused(table, recycled[j])
  /\ \A i, j \in DOMAIN recycled : recycled[i] = recycled[j] => i = j

\* The bounds hold every region.
BoundsSound(table, b) ==
  /\ b \in [lo : Nat, span : Nat]
  /\ \A k \in DOMAIN table : b.lo <= table[k].base /\ table[k].base + table[k].cap <= b.lo + b.span

\* The inductive invariant.
RtStates == [table : Seq(Regions), arena : Arenas, bounds : [lo : Nat, span : Nat]]
RtSound(st) ==
  /\ st \in RtStates
  /\ TableSound(st.table) /\ ChunkMapSound(st.table, st.arena.ri)
  /\ FreeSound(st.table, st.arena.next, st.arena.recycled) /\ BoundsSound(st.table, st.bounds)
RtInv == RtSound(State)

(* What a sound table holds.                                                *)
LEMMA TableFacts ==
  ASSUME NEW table, TableSound(table)
  PROVE  /\ Len(table) \in Nat /\ DOMAIN table = 1 .. Len(table) /\ table \in Seq(Regions)
         /\ \A k \in DOMAIN table : /\ table[k].base \in Nat /\ table[k].cap \in Nat /\ table[k].cap # 0
                                   /\ table[k] \in Regions /\ ChunkOrOutside(table[k])
         /\ \A i, j \in DOMAIN table : i < j => table[i].base + table[i].cap <= table[j].base
<1>1. table \in Seq(Regions)
  BY DEF TableSound
<1>2. Len(table) \in Nat /\ DOMAIN table = 1 .. Len(table)
  BY <1>1
<1>3. \A k \in DOMAIN table : table[k] \in Regions
  BY <1>1, <1>2
<1>4. \A r \in Regions : r.base \in Nat /\ r.cap \in Nat /\ r.cap # 0
  BY DEF Regions
<1> QED BY <1>1, <1>2, <1>3, <1>4 DEF TableSound

-----------------------------------------------------------------------------
(* Arithmetic of the arena *)

(* Multiples of the chunk size are in the order of their factors.           *)
LEMMA Multiples ==
  ASSUME NEW a \in Int, NEW c \in Int, a < c
  PROVE  a * ChunkSize + ChunkSize <= c * ChunkSize
<1>1. ChunkSize \in Nat \ {0}
  BY RtAssumption
<1>2. c - a >= 1 /\ c - a \in Nat
  OBVIOUS
<1>3. (c - a) * ChunkSize >= ChunkSize
  BY <1>1, <1>2
<1>4. (c - a) * ChunkSize = c * ChunkSize - a * ChunkSize
  BY <1>1
<1>5. a * ChunkSize \in Int /\ c * ChunkSize \in Int
  BY <1>1
<1> QED BY <1>1, <1>3, <1>4, <1>5

(* An address of the arena lies in the chunk ChunkAt gives, and no other.   *)
LEMMA ChunkOf ==
  ASSUME NEW p \in Int, arena_contains(p)
  PROVE  /\ ChunkAt(p) \in Chunks
         /\ p \in ChunkBase(ChunkAt(p)) .. ChunkBase(ChunkAt(p)) + ChunkSize - 1
         /\ \A i \in Chunks : p \in ChunkBase(i) .. ChunkBase(i) + ChunkSize - 1 => i = ChunkAt(p)
<1> DEFINE x == p - ArenaBase
           q == x \div ChunkSize
<1>1. /\ ChunkSize \in Nat \ {0} /\ ArenaBase \in Nat /\ ArenaChunks \in Nat
      /\ x \in Int /\ 0 <= x /\ x < ArenaChunks * ChunkSize /\ p = ArenaBase + x
  <2>1. ChunkSize \in Nat \ {0} /\ ArenaBase \in Nat /\ ArenaChunks \in Nat
    BY RtAssumption
  <2>2. ArenaChunks * ChunkSize \in Int
    BY <2>1
  <2>3. ArenaBase <= p /\ p <= ArenaBase + ArenaChunks * ChunkSize - 1
    BY <2>1, <2>2 DEF arena_contains, ArenaEnd
  <2> DEFINE m == ArenaChunks * ChunkSize
  <2> HIDE DEF m
  <2> QED BY <2>1, <2>2, <2>3 DEF m
<1>2. q \in Int /\ q * ChunkSize <= x /\ x < q * ChunkSize + ChunkSize
  BY <1>1
<1>3. q >= 0
  <2>1. ASSUME q < 0 PROVE FALSE
    <3>1. q * ChunkSize + ChunkSize <= 0 * ChunkSize
      BY <1>2, <2>1, Multiples
    <3>2. 0 * ChunkSize = 0 /\ q * ChunkSize \in Int
      BY <1>1, <1>2
    <3> QED BY <1>1, <1>2, <3>1, <3>2
  <2> QED BY <1>2, <2>1
<1>4. q < ArenaChunks
  <2>1. ASSUME q >= ArenaChunks PROVE FALSE
    <3>1. ArenaChunks * ChunkSize <= q * ChunkSize
      <4>1. CASE q = ArenaChunks
        BY <1>1, <4>1
      <4>2. CASE ArenaChunks < q
        <5>1. ArenaChunks * ChunkSize + ChunkSize <= q * ChunkSize
          BY <1>1, <1>2, <4>2, Multiples
        <5>2. ArenaChunks * ChunkSize \in Int /\ q * ChunkSize \in Int
          BY <1>1, <1>2
        <5> QED BY <1>1, <5>1, <5>2
      <4> QED BY <1>1, <1>2, <2>1, <4>1, <4>2
    <3>2. ArenaChunks * ChunkSize \in Int /\ q * ChunkSize \in Int
      BY <1>1, <1>2
    <3> QED BY <1>1, <1>2, <3>1, <3>2
  <2> QED BY <1>1, <1>2, <2>1
<1> HIDE DEF x, q
<1>5. ASSUME NEW i \in Int PROVE p \in ArenaBase + i * ChunkSize .. ArenaBase + i * ChunkSize + ChunkSize - 1
                                   <=> i * ChunkSize <= x /\ x < i * ChunkSize + ChunkSize
  <2> DEFINE m == i * ChunkSize
  <2>1. m \in Int
    BY <1>1
  <2> HIDE DEF m
  <2>2. p \in ArenaBase + m .. ArenaBase + m + ChunkSize - 1 <=> m <= x /\ x < m + ChunkSize
    BY <1>1, <2>1
  <2> QED BY <2>2 DEF m
<1>6. ASSUME NEW i \in Int, i * ChunkSize <= x, x < i * ChunkSize + ChunkSize PROVE i = q
  <2>1. i * ChunkSize \in Int /\ q * ChunkSize \in Int
    BY <1>1, <1>2
  <2>2. ASSUME i < q PROVE FALSE
    <3>1. i * ChunkSize + ChunkSize <= q * ChunkSize
      BY <1>2, <2>2, Multiples
    <3> QED BY <1>1, <1>2, <1>6, <2>1, <3>1
  <2>3. ASSUME q < i PROVE FALSE
    <3>1. q * ChunkSize + ChunkSize <= i * ChunkSize
      BY <1>2, <2>3, Multiples
    <3> QED BY <1>1, <1>2, <1>6, <2>1, <3>1
  <2> QED BY <1>2, <2>2, <2>3
<1>7. ChunkAt(p) = q
  BY DEF ChunkAt, q, x
<1>8. q \in Chunks
  BY <1>1, <1>2, <1>3, <1>4 DEF Chunks
<1>9. p \in ArenaBase + q * ChunkSize .. ArenaBase + q * ChunkSize + ChunkSize - 1
  BY <1>2, <1>5
<1>10. \A i \in Chunks : i \in Int
  BY <1>1 DEF Chunks
<1> QED BY <1>5, <1>6, <1>7, <1>8, <1>9, <1>10 DEF ChunkBase

(* A chunk lies in the arena; two chunks do not meet.                       *)
LEMMA ChunkPlace ==
  ASSUME NEW i \in Chunks
  PROVE  /\ ChunkBase(i) \in Nat
         /\ \A p \in ChunkBase(i) .. ChunkBase(i) + ChunkSize - 1 : p \in Int /\ arena_contains(p)
         /\ ChunkAt(ChunkBase(i)) = i /\ arena_contains(ChunkBase(i))
<1>1. ChunkSize \in Nat \ {0} /\ ArenaBase \in Nat /\ ArenaChunks \in Nat /\ i \in Nat /\ i < ArenaChunks
  BY RtAssumption DEF Chunks
<1> DEFINE m == i * ChunkSize
           e == ArenaChunks * ChunkSize
<1>2. m \in Nat /\ e \in Int /\ m + ChunkSize <= e
  BY <1>1, Multiples
<1> HIDE DEF m, e
<1>3. ChunkBase(i) = ArenaBase + m /\ ArenaEnd = ArenaBase + e
  BY DEF ChunkBase, ArenaEnd, m, e
<1>4. ChunkBase(i) \in Nat /\ ChunkBase(i) \in ChunkBase(i) .. ChunkBase(i) + ChunkSize - 1
  BY <1>1, <1>2, <1>3
<1>5. \A p \in ChunkBase(i) .. ChunkBase(i) + ChunkSize - 1 : p \in Int /\ arena_contains(p)
  BY <1>1, <1>2, <1>3 DEF arena_contains
<1>6. ChunkAt(ChunkBase(i)) = i
  BY <1>4, <1>5, ChunkOf
<1> QED BY <1>4, <1>5, <1>6

(* An entry put into a sequence.                                            *)
LEMMA Inserted ==
  ASSUME NEW S, NEW s \in Seq(S), NEW e \in S, NEW i \in 1 .. Len(s) + 1, NEW r, r = InsertAt(s, i, e)
  PROVE  /\ r \in Seq(S) /\ Len(r) = Len(s) + 1 /\ DOMAIN r = 1 .. Len(s) + 1
         /\ \A k \in 1 .. Len(s) + 1 : r[k] = IF k < i THEN s[k] ELSE IF k = i THEN e ELSE s[k - 1]
<1> DEFINE n == Len(s)
           a == SubSeq(s, 1, i - 1)
           b == SubSeq(s, i, n)
           c == <<e>>
           d == a \o c
<1>1. n \in Nat /\ DOMAIN s = 1 .. n /\ i \in Int /\ i - 1 \in Int /\ i >= 1 /\ i <= n + 1
  OBVIOUS
<1>2. a \in Seq(S) /\ Len(a) = i - 1 /\ \A k \in 1 .. i - 1 : a[k] = s[k]
  BY <1>1, SubSeqProperties
<1>3. b \in Seq(S) /\ Len(b) = n - i + 1 /\ \A k \in 1 .. n - i + 1 : b[k] = s[i + k - 1]
  BY <1>1, SubSeqProperties
<1>4. c \in Seq(S) /\ Len(c) = 1 /\ c[1] = e
  OBVIOUS
<1>5. r = d \o b
  BY DEF InsertAt
<1> HIDE DEF a, b, c, n
<1>6. d \in Seq(S) /\ Len(d) = i /\ \A k \in 1 .. i : d[k] = IF k <= i - 1 THEN a[k] ELSE c[k - (i - 1)]
  <2>1. /\ a \o c \in Seq(S) /\ Len(a \o c) = Len(a) + Len(c)
        /\ \A k \in 1 .. Len(a) + Len(c) : (a \o c)[k] = IF k <= Len(a) THEN a[k] ELSE c[k - Len(a)]
    BY <1>2, <1>4, ConcatProperties
  <2>2. Len(a) + Len(c) = i /\ Len(a) = i - 1
    BY <1>1, <1>2, <1>4
  <2> QED BY <2>1, <2>2
<1> HIDE DEF d
<1>7. r \in Seq(S) /\ Len(r) = n + 1 /\ \A k \in 1 .. n + 1 : r[k] = IF k <= i THEN d[k] ELSE b[k - i]
  <2>1. /\ d \o b \in Seq(S) /\ Len(d \o b) = Len(d) + Len(b)
        /\ \A k \in 1 .. Len(d) + Len(b) : (d \o b)[k] = IF k <= Len(d) THEN d[k] ELSE b[k - Len(d)]
    BY <1>3, <1>6, ConcatProperties
  <2>2. Len(d) + Len(b) = n + 1 /\ Len(d) = i
    BY <1>1, <1>3, <1>6
  <2> QED BY <1>5, <2>1, <2>2
<1>8. ASSUME NEW k \in 1 .. n + 1 PROVE r[k] = IF k < i THEN s[k] ELSE IF k = i THEN e ELSE s[k - 1]
  <2>1. CASE k < i
    <3>1. k \in 1 .. i - 1 /\ k \in 1 .. i /\ k <= i /\ k <= i - 1
      BY <1>1, <2>1
    <3>2. r[k] = d[k] /\ d[k] = a[k] /\ a[k] = s[k]
      BY <1>2, <1>6, <1>7, <3>1
    <3> QED BY <2>1, <3>2
  <2>2. CASE k = i
    <3>1. k - (i - 1) = 1 /\ ~(k <= i - 1) /\ k \in 1 .. i
      BY <1>1, <2>2
    <3> QED BY <1>4, <1>6, <1>7, <2>2, <3>1, SMTT(20)
  <2>3. CASE k > i
    <3>1. k - i \in 1 .. n - i + 1 /\ i + (k - i) - 1 = k - 1 /\ ~(k <= i)
      BY <1>1, <2>3
    <3>2. r[k] = b[k - i] /\ b[k - i] = s[i + (k - i) - 1]
      BY <1>3, <1>7, <3>1
    <3>3. ~(k < i) /\ k # i
      BY <1>1, <2>3
    <3> QED BY <3>1, <3>2, <3>3
  <2> QED BY <1>1, <2>1, <2>2, <2>3
<1> QED BY <1>1, <1>7, <1>8 DEF n

(* An entry taken out of a sequence.                                        *)
LEMMA RemovedAt ==
  ASSUME NEW S, NEW s \in Seq(S), NEW i \in 1 .. Len(s), NEW r, r = RemoveAt(s, i)
  PROVE  /\ r \in Seq(S) /\ Len(r) = Len(s) - 1 /\ DOMAIN r = 1 .. Len(s) - 1
         /\ \A k \in 1 .. Len(s) - 1 : r[k] = IF k < i THEN s[k] ELSE s[k + 1]
<1> DEFINE n == Len(s)
           a == SubSeq(s, 1, i - 1)
           b == SubSeq(s, i + 1, n)
<1>1. n \in Nat /\ DOMAIN s = 1 .. n /\ i \in Int /\ i - 1 \in Int /\ i >= 1 /\ i <= n
  OBVIOUS
<1>2. a \in Seq(S) /\ Len(a) = i - 1 /\ \A k \in 1 .. i - 1 : a[k] = s[k]
  BY <1>1, SubSeqProperties
<1>3. b \in Seq(S) /\ Len(b) = n - i /\ \A k \in 1 .. n - i : b[k] = s[i + k]
  <2>1. i + 1 \in 1 .. Len(s) + 1 /\ n - (i + 1) + 1 = n - i /\ n \in (i + 1) - 1 .. Len(s)
    BY <1>1
  <2>2. /\ b \in Seq(S) /\ Len(b) = n - (i + 1) + 1
        /\ \A k \in 1 .. n - (i + 1) + 1 : b[k] = s[(i + 1) + k - 1]
    <3>1. i + 1 \in Int /\ n \in Int /\ \A k \in i + 1 .. n : s[k] \in S
      BY <1>1
    <3> HIDE DEF n
    <3>2. /\ SubSeq(s, i + 1, n) \in Seq(S)
          /\ Len(SubSeq(s, i + 1, n)) = IF i + 1 <= n THEN n - (i + 1) + 1 ELSE 0
          /\ \A k \in 1 .. n - (i + 1) + 1 : SubSeq(s, i + 1, n)[k] = s[(i + 1) + k - 1]
      BY <3>1, SubSeqProperties
    <3>3. (IF i + 1 <= n THEN n - (i + 1) + 1 ELSE 0) = n - (i + 1) + 1
      BY <1>1
    <3> QED BY <3>2, <3>3
  <2>3. \A k \in 1 .. n - i : (i + 1) + k - 1 = i + k
    BY <1>1
  <2> QED BY <2>1, <2>2, <2>3
<1>4. r = a \o b
  BY DEF RemoveAt
<1> HIDE DEF a, b, n
<1>5. r \in Seq(S) /\ Len(r) = n - 1 /\ \A k \in 1 .. n - 1 : r[k] = IF k <= i - 1 THEN a[k] ELSE b[k - (i - 1)]
  <2>1. /\ a \o b \in Seq(S) /\ Len(a \o b) = Len(a) + Len(b)
        /\ \A k \in 1 .. Len(a) + Len(b) : (a \o b)[k] = IF k <= Len(a) THEN a[k] ELSE b[k - Len(a)]
    BY <1>2, <1>3, ConcatProperties
  <2>2. Len(a) + Len(b) = n - 1 /\ Len(a) = i - 1
    BY <1>1, <1>2, <1>3
  <2> QED BY <1>4, <2>1, <2>2
<1>6. ASSUME NEW k \in 1 .. n - 1 PROVE r[k] = IF k < i THEN s[k] ELSE s[k + 1]
  <2>1. CASE k < i
    BY <1>1, <1>2, <1>5, <2>1
  <2>2. CASE k >= i
    <3>1. k - (i - 1) \in 1 .. n - i /\ i + (k - (i - 1)) = k + 1 /\ ~(k <= i - 1)
      BY <1>1, <2>2
    <3> QED BY <1>1, <1>3, <1>5, <2>2, <3>1
  <2> QED BY <1>1, <2>1, <2>2
<1>7. DOMAIN r = 1 .. n - 1
  BY <1>5
<1> QED BY <1>5, <1>6, <1>7 DEF n

-----------------------------------------------------------------------------
(* The binary search for the place of a new region *)

\* The states of the search: below lo every base is lower, from hi on none is.
LowerSound(table, base, lo, hi) ==
  /\ lo <= hi
  /\ \A k \in DOMAIN table : /\ k < lo => table[k].base < base
                             /\ k >= hi => table[k].base >= base
Lowering(table, base) ==
  {s \in [table : {table}, base : {base}, lo : 1 .. Len(table) + 1, hi : 1 .. Len(table) + 1] :
     LowerSound(table, base, s.lo, s.hi)}

(* The middle of an interval that is not empty.                             *)
LEMMA Middle ==
  ASSUME NEW lo \in Nat, NEW hi \in Nat, lo < hi, NEW mid, mid = lo + (hi - lo) \div 2
  PROVE  mid \in Nat /\ lo <= mid /\ mid < hi
<1>1. (hi - lo) \div 2 \in Nat /\ (hi - lo) \div 2 < hi - lo
  OBVIOUS
<1> QED BY <1>1

(* One turn: the interval stays right and shrinks until it is empty.        *)
LEMMA LowerKeeps ==
  ASSUME NEW table, TableSound(table), NEW base \in Nat, NEW s \in Lowering(table, base), NEW u, u = LowerTurn(s)
  PROVE  /\ u \in Lowering(table, base)
         /\ s.lo < s.hi => u.hi - u.lo < s.hi - s.lo
         /\ s.lo >= s.hi => u = s
<1> DEFINE n == Len(table)
           lo == s.lo
           hi == s.hi
           mid == lo + (hi - lo) \div 2
<1>1. /\ s.table = table /\ s.base = base /\ lo \in 1 .. n + 1 /\ hi \in 1 .. n + 1 /\ LowerSound(table, base, lo, hi)
      /\ s = [table |-> table, base |-> base, lo |-> lo, hi |-> hi]
  BY DEF Lowering
<1>2. /\ n \in Nat /\ DOMAIN table = 1 .. n /\ (\A k \in 1 .. n : table[k].base \in Nat /\ table[k].cap \in Nat \ {0})
      /\ \A i, j \in 1 .. n : i < j => table[i].base + table[i].cap <= table[j].base
  BY TableFacts
<1> HIDE DEF n, lo, hi
<1>3. CASE lo >= hi
  <2>1. u = s
    BY <1>3 DEF LowerTurn, lo, hi
  <2> QED BY <1>1, <1>2, <1>3, <2>1 DEF lo, hi
<1>4. CASE lo < hi
  <2>1. mid \in Nat /\ lo <= mid /\ mid < hi /\ mid \in 1 .. n
    <3>1. mid \in Nat /\ lo <= mid /\ mid < hi
      <4>1. lo \in Nat /\ hi \in Nat
        BY <1>1, <1>2
      <4> QED BY <1>4, <4>1, Middle
    <3> HIDE DEF mid
    <3> QED BY <1>1, <1>2, <3>1
  <2>2. u = IF table[mid].base < base THEN [s EXCEPT !.lo = mid + 1] ELSE [s EXCEPT !.hi = mid]
    <3>1. ~(s.lo >= s.hi) /\ mid = s.lo + (s.hi - s.lo) \div 2
      BY <1>1, <1>2, <1>4 DEF lo, hi
    <3> QED BY <1>1, <3>1 DEF LowerTurn
  <2> HIDE DEF mid
  <2>3. CASE table[mid].base < base
    <3>1. u = [table |-> table, base |-> base, lo |-> mid + 1, hi |-> hi]
      BY <1>1, <2>2, <2>3
    <3>2. mid + 1 \in 1 .. n + 1 /\ mid + 1 <= hi
      BY <1>1, <1>2, <2>1
    <3>3. \A k \in 1 .. n : k < mid + 1 => table[k].base < base
      <4> SUFFICES ASSUME NEW k \in 1 .. n, k < mid + 1 PROVE table[k].base < base
        OBVIOUS
      <4>1. CASE k = mid
        BY <2>3, <4>1
      <4>2. CASE k < mid
        <5>1. table[k].base + table[k].cap <= table[mid].base
              /\ table[mid].base \in Nat /\ table[k].base \in Nat /\ table[k].cap \in Nat
          BY <1>2, <2>1, <4>2
        <5> QED BY <2>3, <5>1
      <4> QED BY <2>1, <4>1, <4>2
    <3>4. LowerSound(table, base, mid + 1, hi)
      BY <1>1, <1>2, <3>2, <3>3 DEF LowerSound
    <3>5. u \in Lowering(table, base) /\ u.lo = mid + 1 /\ u.hi = hi
      BY <1>1, <3>1, <3>2, <3>4 DEF Lowering, n
    <3>6. hi - (mid + 1) < hi - lo /\ ~(lo >= hi)
      BY <1>1, <1>2, <1>4, <2>1
    <3>7. u.hi - u.lo < s.hi - s.lo /\ ~(s.lo >= s.hi)
      BY <3>5, <3>6 DEF lo, hi
    <3> QED BY <3>5, <3>7
  <2>4. CASE ~(table[mid].base < base)
    <3>1. u = [table |-> table, base |-> base, lo |-> lo, hi |-> mid]
      BY <1>1, <2>2, <2>4
    <3>2. mid \in 1 .. n + 1
      BY <1>2, <2>1
    <3>3. \A k \in 1 .. n : k >= mid => table[k].base >= base
      <4> SUFFICES ASSUME NEW k \in 1 .. n, k >= mid PROVE table[k].base >= base
        OBVIOUS
      <4>1. CASE k = mid
        BY <1>2, <2>4, <4>1
      <4>2. CASE k > mid
        <5>1. table[mid].base + table[mid].cap <= table[k].base
              /\ table[mid].base \in Nat /\ table[k].base \in Nat /\ table[mid].cap \in Nat
          BY <1>2, <2>1, <4>2
        <5> QED BY <2>4, <5>1
      <4> QED BY <2>1, <4>1, <4>2
    <3>4. LowerSound(table, base, lo, mid)
      BY <1>1, <1>2, <2>1, <3>3 DEF LowerSound
    <3>5. u \in Lowering(table, base) /\ u.lo = lo /\ u.hi = mid
      BY <1>1, <3>1, <3>2, <3>4 DEF Lowering, n
    <3>6. mid - lo < hi - lo /\ ~(lo >= hi)
      BY <1>1, <1>2, <1>4, <2>1
    <3>7. u.hi - u.lo < s.hi - s.lo /\ ~(s.lo >= s.hi)
      BY <3>5, <3>6 DEF lo, hi
    <3> QED BY <3>5, <3>7
  <2> QED BY <2>3, <2>4
<1> QED BY <1>1, <1>2, <1>3, <1>4

LowerRun(x, k) == After(LowerTurn, x, k)

(* The search, turn after turn.                                             *)
LEMMA LowerLoop ==
  ASSUME NEW table, TableSound(table), NEW base \in Nat, NEW x \in Lowering(table, base)
  PROVE  /\ LowerRun(x, 0) = x
         /\ \A k \in Nat : LowerRun(x, k) \in Lowering(table, base) /\ LowerRun(x, k + 1) = LowerTurn(LowerRun(x, k))
<1> DEFINE S == Lowering(table, base)
           F == [s \in S |-> LowerTurn(s)]
           Run(g) == g = [k \in Nat |-> IF k = 0 THEN x ELSE LowerTurn(g[k - 1])]
           run == CHOOSE g : Run(g)
<1> HIDE DEF S
<1>1. F \in [S -> S] /\ \A s \in S : F[s] = LowerTurn(s)
  BY LowerKeeps DEF S
<1> HIDE DEF F
<1>2. PICK g \in [Nat -> S] : g[0] = x /\ \A k \in Nat : g[k + 1] = F[g[k]]
  <2>1. x \in S /\ F \in [S -> S]
    BY <1>1 DEF S
  <2>2. RunsOf(S, F, x) # {}
    BY <2>1, Iterate
  <2> QED BY <2>2 DEF RunsOf
<1>3. Run(g)
  <2>1. ASSUME NEW k \in Nat PROVE g[k] = IF k = 0 THEN x ELSE LowerTurn(g[k - 1])
    <3>1. CASE k # 0
      <4>1. k - 1 \in Nat /\ (k - 1) + 1 = k
        BY <3>1
      <4>2. g[(k - 1) + 1] = F[g[k - 1]]
        BY <1>2, <4>1
      <4> QED BY <1>1, <1>2, <3>1, <4>1, <4>2
    <3> QED BY <1>2, <3>1
  <2> QED BY <2>1
<1>4. Run(run)
  BY <1>3
<1>5. \A k : LowerRun(x, k) = run[k]
  BY DEF After, LowerRun
<1> HIDE DEF run
<1>6. run[0] = x /\ \A k \in Nat : run[k + 1] = LowerTurn(run[k])
  BY <1>4
<1> DEFINE T == {k \in Nat : run[k] \in S}
<1>7. 0 \in T /\ \A k \in Nat : k \in T => k + 1 \in T
  <2>1. x \in S /\ \A y \in S : LowerTurn(y) \in S
    BY <1>1 DEF S
  <2>2. 0 \in T
    BY <1>6, <2>1
  <2>3. ASSUME NEW k \in Nat, k \in T PROVE k + 1 \in T
    <3>1. run[k] \in S /\ run[k + 1] = LowerTurn(run[k])
      BY <1>6, <2>3
    <3>2. run[k + 1] \in S /\ k + 1 \in Nat
      BY <2>1, <3>1
    <3> QED BY <3>2
  <2> QED BY <2>2, <2>3
<1> HIDE DEF T
<1>8. Nat \subseteq T
  BY <1>7, Induct
<1> QED BY <1>5, <1>6, <1>8 DEF T, S

(* The place it finds.                                                      *)
LEMMA LowerFound ==
  ASSUME NEW table, TableSound(table), NEW base \in Nat, NEW at, at = LowerBound(table, base)
  PROVE  /\ at \in 1 .. Len(table) + 1
         /\ \A k \in DOMAIN table : (k < at => table[k].base < base) /\ (k >= at => table[k].base >= base)
<1> DEFINE n == Len(table)
           x == [table |-> table, base |-> base, lo |-> 1, hi |-> n + 1]
           St(k) == LowerRun(x, k)
           Small(s, k) == s.lo >= s.hi \/ s.hi - s.lo <= n - k
           T == {k \in Nat : Small(St(k), k)}
<1>1. n \in Nat /\ DOMAIN table = 1 .. n
  BY DEF TableSound
<1>2. x \in Lowering(table, base)
  <2>1. LowerSound(table, base, 1, n + 1)
    BY <1>1 DEF LowerSound
  <2>2. 1 \in 1 .. n + 1 /\ n + 1 \in 1 .. n + 1
    BY <1>1
  <2> QED BY <2>1, <2>2 DEF Lowering
<1>3. at = St(n).lo
  BY DEF LowerBound, LowerRun
<1>4. x.lo = 1 /\ x.hi = n + 1
  OBVIOUS
<1>5. St(0) = x /\ \A k \in Nat : St(k) \in Lowering(table, base) /\ St(k + 1) = LowerTurn(St(k))
  <2> HIDE DEF x
  <2> QED BY <1>2, LowerLoop
<1> HIDE DEF x, St, n
<1>6. 0 \in T
  <2>1. (n + 1) - 1 <= n - 0
    BY <1>1
  <2>2. Small(x, 0)
    BY <1>4, <2>1
  <2> QED BY <1>5, <2>2
<1>7. ASSUME NEW k \in Nat, k \in T PROVE k + 1 \in T
  <2> DEFINE s == St(k)
             u == St(k + 1)
  <2>1. s \in Lowering(table, base) /\ u = LowerTurn(s) /\ u \in Lowering(table, base)
    <3>1. k + 1 \in Nat
      OBVIOUS
    <3> QED BY <1>5, <3>1
  <2>2. Small(s, k)
    BY <1>7
  <2> HIDE DEF s, u
  <2>3. (s.lo < s.hi => u.hi - u.lo < s.hi - s.lo) /\ (s.lo >= s.hi => u = s)
    BY <2>1, LowerKeeps
  <2>4. s.lo \in Int /\ s.hi \in Int /\ u.lo \in Int /\ u.hi \in Int
    BY <1>1, <2>1 DEF Lowering, n
  <2>5. Small(u, k + 1)
    BY <1>1, <2>2, <2>3, <2>4
  <2>6. k + 1 \in Nat
    OBVIOUS
  <2> HIDE DEF Small
  <2> QED BY <2>5, <2>6 DEF u
<1>8. n \in T
  <2> HIDE DEF T
  <2> QED BY <1>1, <1>6, <1>7, Induct
<1> DEFINE s == St(n)
<1>9. s \in Lowering(table, base) /\ Small(s, n)
  BY <1>1, <1>5, <1>8
<1> HIDE DEF s
<1>10. s.lo \in 1 .. n + 1 /\ s.hi \in 1 .. n + 1 /\ LowerSound(table, base, s.lo, s.hi)
  BY <1>9 DEF Lowering, n
<1>11. s.lo = s.hi
  BY <1>1, <1>9, <1>10 DEF LowerSound
<1>12. at = s.lo
  BY <1>3 DEF s
<1> QED BY <1>1, <1>10, <1>11, <1>12 DEF LowerSound, n

(* The binary search for the region of an address *)

\* The states of the search: the regions below lo end before the address, those from hi on start after it.
FindSound(table, p, lo, hi, at) ==
  /\ \A k \in DOMAIN table : /\ k < lo => table[k].base + table[k].cap <= p
                             /\ k >= hi => table[k].base > p
  /\ at # 0 => at \in DOMAIN table /\ p \in Cells(table[at])
Finding(table, p) ==
  {s \in [table : {table}, addr : {p}, lo : 1 .. Len(table) + 1, hi : 1 .. Len(table) + 1, at : Nat] :
     FindSound(table, p, s.lo, s.hi, s.at)}

(* One turn: the interval shrinks until the region is found or there is     *)
(* none.                                                                    *)
LEMMA FindKeeps ==
  ASSUME NEW table, TableSound(table), NEW p \in Int, NEW s \in Finding(table, p), NEW u, u = FindTurn(s)
  PROVE  /\ u \in Finding(table, p)
         /\ s.lo < s.hi /\ s.at = 0 => u.at # 0 \/ u.hi - u.lo < s.hi - s.lo
         /\ s.lo >= s.hi \/ s.at # 0 => u = s
<1> DEFINE n == Len(table)
           lo == s.lo
           hi == s.hi
           mid == lo + (hi - lo) \div 2
<1>1. /\ s.table = table /\ s.addr = p /\ lo \in 1 .. n + 1 /\ hi \in 1 .. n + 1 /\ FindSound(table, p, lo, hi, s.at)
      /\ s = [table |-> table, addr |-> p, lo |-> lo, hi |-> hi, at |-> s.at]
  BY DEF Finding
<1>2. /\ n \in Nat /\ DOMAIN table = 1 .. n /\ (\A k \in 1 .. n : table[k].base \in Nat /\ table[k].cap \in Nat \ {0})
      /\ \A i, j \in 1 .. n : i < j => table[i].base + table[i].cap <= table[j].base
  BY TableFacts
<1> HIDE DEF n, lo, hi
<1>3. CASE lo >= hi \/ s.at # 0
  <2>1. u = s
    BY <1>3 DEF FindTurn, lo, hi
  <2> QED BY <1>1, <1>2, <1>3, <2>1 DEF lo, hi
<1>4. CASE lo < hi /\ s.at = 0
  <2>1. mid \in Nat /\ lo <= mid /\ mid < hi /\ mid \in 1 .. n
    <3>1. mid \in Nat /\ lo <= mid /\ mid < hi
      BY <1>1, <1>2, <1>4, Middle
    <3> HIDE DEF mid
    <3> QED BY <1>1, <1>2, <3>1
  <2>2. u = IF table[mid].base > p THEN [s EXCEPT !.hi = mid]
            ELSE IF table[mid].base + table[mid].cap <= p THEN [s EXCEPT !.lo = mid + 1]
            ELSE [s EXCEPT !.at = mid]
    <3>1. ~(s.at # 0 \/ s.lo >= s.hi) /\ mid = s.lo + (s.hi - s.lo) \div 2
      BY <1>1, <1>2, <1>4 DEF lo, hi
    <3> QED BY <1>1, <3>1 DEF FindTurn
  <2> HIDE DEF mid
  <2>3. table[mid].base \in Nat /\ table[mid].cap \in Nat \ {0}
    BY <1>2, <2>1
  <2>4. CASE table[mid].base > p
    <3>1. u = [table |-> table, addr |-> p, lo |-> lo, hi |-> mid, at |-> 0]
      BY <1>1, <1>4, <2>2, <2>4
    <3>2. mid \in 1 .. n + 1
      BY <1>2, <2>1
    <3>3. \A k \in 1 .. n : k >= mid => table[k].base > p
      <4> SUFFICES ASSUME NEW k \in 1 .. n, k >= mid PROVE table[k].base > p
        OBVIOUS
      <4>1. CASE k = mid
        BY <2>4, <4>1
      <4>2. CASE k > mid
        <5>1. table[mid].base + table[mid].cap <= table[k].base /\ table[k].base \in Nat
          BY <1>2, <2>1, <4>2
        <5> QED BY <2>3, <2>4, <5>1
      <4> QED BY <2>1, <4>1, <4>2
    <3>4. FindSound(table, p, lo, mid, 0)
      BY <1>1, <1>2, <3>3 DEF FindSound
    <3>5. u \in Finding(table, p) /\ u.lo = lo /\ u.hi = mid
      BY <1>1, <3>1, <3>2, <3>4 DEF Finding, n
    <3>6. mid - lo < hi - lo /\ ~(lo >= hi)
      BY <1>1, <1>2, <1>4, <2>1
    <3>7. u.hi - u.lo < s.hi - s.lo /\ ~(s.lo >= s.hi \/ s.at # 0)
      BY <1>4, <3>5, <3>6 DEF lo, hi
    <3> QED BY <3>5, <3>7
  <2>5. CASE ~(table[mid].base > p) /\ table[mid].base + table[mid].cap <= p
    <3>1. u = [table |-> table, addr |-> p, lo |-> mid + 1, hi |-> hi, at |-> 0]
      BY <1>1, <1>4, <2>2, <2>5
    <3>2. mid + 1 \in 1 .. n + 1
      BY <1>1, <1>2, <2>1
    <3>3. \A k \in 1 .. n : k < mid + 1 => table[k].base + table[k].cap <= p
      <4> SUFFICES ASSUME NEW k \in 1 .. n, k < mid + 1 PROVE table[k].base + table[k].cap <= p
        OBVIOUS
      <4>1. CASE k = mid
        BY <2>5, <4>1
      <4>2. CASE k < mid
        <5>1. table[k].base + table[k].cap <= table[mid].base /\ table[k].base \in Nat /\ table[k].cap \in Nat
          BY <1>2, <2>1, <4>2
        <5> QED BY <2>3, <2>5, <5>1
      <4> QED BY <2>1, <4>1, <4>2
    <3>4. FindSound(table, p, mid + 1, hi, 0)
      BY <1>1, <1>2, <3>3 DEF FindSound
    <3>5. u \in Finding(table, p) /\ u.lo = mid + 1 /\ u.hi = hi
      BY <1>1, <3>1, <3>2, <3>4 DEF Finding, n
    <3>6. hi - (mid + 1) < hi - lo /\ ~(lo >= hi)
      BY <1>1, <1>2, <1>4, <2>1
    <3>7. u.hi - u.lo < s.hi - s.lo /\ ~(s.lo >= s.hi \/ s.at # 0)
      BY <1>4, <3>5, <3>6 DEF lo, hi
    <3> QED BY <3>5, <3>7
  <2>6. CASE ~(table[mid].base > p) /\ ~(table[mid].base + table[mid].cap <= p)
    <3>1. u = [table |-> table, addr |-> p, lo |-> lo, hi |-> hi, at |-> mid]
      BY <1>1, <1>4, <2>2, <2>6
    <3>2. p \in Cells(table[mid])
      BY <2>3, <2>6 DEF Cells
    <3>3. FindSound(table, p, lo, hi, mid)
      BY <1>1, <1>2, <2>1, <3>2 DEF FindSound
    <3>4. u \in Finding(table, p) /\ u.at = mid /\ mid # 0
      BY <1>1, <2>1, <3>1, <3>3 DEF Finding, n
    <3>5. ~(lo >= hi)
      BY <1>1, <1>2, <1>4
    <3>6. u.at # 0 /\ ~(s.lo >= s.hi \/ s.at # 0)
      BY <1>4, <3>4, <3>5 DEF lo, hi
    <3> QED BY <3>4, <3>6
  <2> QED BY <2>4, <2>5, <2>6
<1> QED BY <1>1, <1>2, <1>3, <1>4 DEF lo, hi

FindRun(x, k) == After(FindTurn, x, k)

(* The search, turn after turn.                                             *)
LEMMA FindLoop ==
  ASSUME NEW table, TableSound(table), NEW p \in Int, NEW x \in Finding(table, p)
  PROVE  /\ FindRun(x, 0) = x
         /\ \A k \in Nat : FindRun(x, k) \in Finding(table, p) /\ FindRun(x, k + 1) = FindTurn(FindRun(x, k))
<1> DEFINE S == Finding(table, p)
           F == [s \in S |-> FindTurn(s)]
           Run(g) == g = [k \in Nat |-> IF k = 0 THEN x ELSE FindTurn(g[k - 1])]
           run == CHOOSE g : Run(g)
<1> HIDE DEF S
<1>1. F \in [S -> S] /\ \A s \in S : F[s] = FindTurn(s)
  BY FindKeeps DEF S
<1> HIDE DEF F
<1>2. PICK g \in [Nat -> S] : g[0] = x /\ \A k \in Nat : g[k + 1] = F[g[k]]
  <2>1. x \in S /\ F \in [S -> S]
    BY <1>1 DEF S
  <2>2. RunsOf(S, F, x) # {}
    BY <2>1, Iterate
  <2> QED BY <2>2 DEF RunsOf
<1>3. Run(g)
  <2>1. ASSUME NEW k \in Nat PROVE g[k] = IF k = 0 THEN x ELSE FindTurn(g[k - 1])
    <3>1. CASE k # 0
      <4>1. k - 1 \in Nat /\ (k - 1) + 1 = k
        BY <3>1
      <4>2. g[(k - 1) + 1] = F[g[k - 1]]
        BY <1>2, <4>1
      <4> QED BY <1>1, <1>2, <3>1, <4>1, <4>2
    <3> QED BY <1>2, <3>1
  <2> QED BY <2>1
<1>4. Run(run)
  BY <1>3
<1>5. \A k : FindRun(x, k) = run[k]
  BY DEF After, FindRun
<1> HIDE DEF run
<1>6. run[0] = x /\ \A k \in Nat : run[k + 1] = FindTurn(run[k])
  BY <1>4
<1> DEFINE T == {k \in Nat : run[k] \in S}
<1>7. 0 \in T /\ \A k \in Nat : k \in T => k + 1 \in T
  <2>1. x \in S /\ \A y \in S : FindTurn(y) \in S
    BY <1>1 DEF S
  <2>2. 0 \in T
    BY <1>6, <2>1
  <2>3. ASSUME NEW k \in Nat, k \in T PROVE k + 1 \in T
    <3>1. run[k] \in S /\ run[k + 1] = FindTurn(run[k])
      BY <1>6, <2>3
    <3>2. run[k + 1] \in S /\ k + 1 \in Nat
      BY <2>1, <3>1
    <3> QED BY <3>2
  <2> QED BY <2>2, <2>3
<1> HIDE DEF T
<1>8. Nat \subseteq T
  BY <1>7, Induct
<1> QED BY <1>5, <1>6, <1>8 DEF T, S

(* region_find_slow finds the region of the address, or there is none.      *)
LEMMA SlowFound ==
  ASSUME TableSound(rtTable), NEW p \in Int, NEW at, at = region_find_slow(p)
  PROVE  \/ at \in DOMAIN rtTable /\ p \in Cells(rtTable[at])
         \/ at = 0 /\ \A k \in DOMAIN rtTable : p \notin Cells(rtTable[k])
<1> DEFINE table == rtTable
           n == Len(table)
           x == [table |-> table, addr |-> p, lo |-> 1, hi |-> n + 1, at |-> 0]
           St(k) == FindRun(x, k)
           Small(s, k) == s.at # 0 \/ s.lo >= s.hi \/ s.hi - s.lo <= n - k
           T == {k \in Nat : Small(St(k), k)}
<1>1. n \in Nat /\ DOMAIN table = 1 .. n /\ \A k \in 1 .. n : table[k].base \in Nat /\ table[k].cap \in Nat
  BY TableFacts
<1>2. x \in Finding(table, p)
  <2>1. FindSound(table, p, 1, n + 1, 0)
    BY <1>1 DEF FindSound
  <2>2. 1 \in 1 .. n + 1 /\ n + 1 \in 1 .. n + 1
    BY <1>1
  <2> QED BY <2>1, <2>2 DEF Finding
<1>3. at = St(n).at
  BY DEF region_find_slow, FindRun
<1>4. x.lo = 1 /\ x.hi = n + 1 /\ x.at = 0
  OBVIOUS
<1>0. TableSound(table)
  OBVIOUS
<1> HIDE DEF table
<1>5. St(0) = x /\ \A k \in Nat : St(k) \in Finding(table, p) /\ St(k + 1) = FindTurn(St(k))
  <2> HIDE DEF x
  <2> QED BY <1>0, <1>2, FindLoop
<1> HIDE DEF x, St, n
<1>6. 0 \in T
  BY <1>1, <1>4, <1>5, SMTT(20)
<1>7. ASSUME NEW k \in Nat, k \in T PROVE k + 1 \in T
  <2> DEFINE s == St(k)
             u == St(k + 1)
  <2>1. s \in Finding(table, p) /\ u = FindTurn(s) /\ u \in Finding(table, p)
    <3>1. k + 1 \in Nat
      OBVIOUS
    <3> QED BY <1>5, <3>1
  <2>2. Small(s, k)
    BY <1>7
  <2> HIDE DEF s, u
  <2>3. /\ s.lo < s.hi /\ s.at = 0 => u.at # 0 \/ u.hi - u.lo < s.hi - s.lo
        /\ s.lo >= s.hi \/ s.at # 0 => u = s
    BY <1>0, <2>1, FindKeeps
  <2>4. s.lo \in Int /\ s.hi \in Int /\ u.lo \in Int /\ u.hi \in Int
    BY <1>1, <2>1 DEF Finding, n
  <2>5. Small(u, k + 1)
    BY <1>1, <2>2, <2>3, <2>4
  <2>6. k + 1 \in Nat
    OBVIOUS
  <2> HIDE DEF Small
  <2> QED BY <2>5, <2>6 DEF u
<1>8. n \in T
  <2> HIDE DEF T
  <2> QED BY <1>1, <1>6, <1>7, Induct
<1> DEFINE s == St(n)
<1>9. s \in Finding(table, p) /\ Small(s, n)
  BY <1>1, <1>5, <1>8
<1> HIDE DEF s
<1>10. s.lo \in 1 .. n + 1 /\ s.hi \in 1 .. n + 1 /\ FindSound(table, p, s.lo, s.hi, s.at)
  BY <1>9 DEF Finding, n
<1>11. CASE s.at # 0
  BY <1>3, <1>10, <1>11 DEF FindSound, s, table
<1>12. CASE s.at = 0
  <2>1. s.lo >= s.hi
    BY <1>1, <1>9, <1>10, <1>12
  <2>2. ASSUME NEW k \in 1 .. n PROVE p \notin Cells(table[k])
    <3>1. k < s.lo \/ k >= s.hi
      BY <1>1, <1>10, <2>1
    <3>2. table[k].base + table[k].cap <= p \/ table[k].base > p
      BY <1>1, <1>10, <3>1 DEF FindSound
    <3> QED BY <1>1, <3>2 DEF Cells
  <2> QED BY <1>1, <1>3, <1>12, <2>2 DEF s, table
<1> QED BY <1>11, <1>12

(* Two regions have no address in common.                                   *)
LEMMA Disjoint ==
  ASSUME NEW table, TableSound(table), NEW i \in DOMAIN table, NEW j \in DOMAIN table, NEW p \in Int,
         p \in Cells(table[i]), p \in Cells(table[j])
  PROVE  i = j
<1>1. /\ Len(table) \in Nat /\ DOMAIN table = 1 .. Len(table)
      /\ \A k \in DOMAIN table : table[k].base \in Nat /\ table[k].cap \in Nat
      /\ \A k, l \in DOMAIN table : k < l => table[k].base + table[k].cap <= table[l].base
  BY TableFacts
<1>2. /\ p >= table[i].base /\ p < table[i].base + table[i].cap
      /\ p >= table[j].base /\ p < table[j].base + table[j].cap
  BY <1>1, SMTT(20) DEF Cells
<1>3. ~(i < j) /\ ~(j < i)
  BY <1>1, <1>2
<1> QED BY <1>1, <1>3

(* region_find is exact in every sound state.                               *)
LEMMA FindExact == RtInv => RegionFindExact
<1> SUFFICES ASSUME RtInv, NEW p \in 0 .. RtTop + 1
             PROVE  LET owner == {i \in DOMAIN rtTable : p \in Cells(rtTable[i])}
                    IN region_find(p) = IF owner = {} THEN 0 ELSE CHOOSE i \in owner : owner = {i}
  BY DEF RegionFindExact
<1> DEFINE f == region_find(p)
           owner == {i \in DOMAIN rtTable : p \in Cells(rtTable[i])}
<1>1. /\ TableSound(rtTable) /\ ChunkMapSound(rtTable, rtArena.ri) /\ BoundsSound(rtTable, rtBounds)
      /\ rtArena.ri \in [Chunks -> Nat]
  BY DEF RtInv, RtSound, State, RtStates, Arenas
<1>2. p \in Int
  BY RtAssumption
<1>3. /\ Len(rtTable) \in Nat /\ DOMAIN rtTable = 1 .. Len(rtTable)
      /\ \A k \in DOMAIN rtTable : rtTable[k].base \in Nat /\ rtTable[k].cap \in Nat /\ ChunkOrOutside(rtTable[k])
  BY <1>1, TableFacts
<1>4. \/ f \in DOMAIN rtTable /\ p \in Cells(rtTable[f])
      \/ f = 0 /\ \A k \in DOMAIN rtTable : p \notin Cells(rtTable[k])
  <2>1. CASE Len(rtTable) > MinRegions /\ arena_contains(p)
    <3> DEFINE c == ChunkAt(p)
    <3>1. /\ c \in Chunks /\ p \in ChunkBase(c) .. ChunkBase(c) + ChunkSize - 1
          /\ \A i \in Chunks : p \in ChunkBase(i) .. ChunkBase(i) + ChunkSize - 1 => i = c
      BY <1>2, <2>1, ChunkOf
    <3>2. f = rtArena.ri[c]
      BY <2>1 DEF region_find
    <3>3. ASSUME NEW k \in DOMAIN rtTable, p \in Cells(rtTable[k]) PROVE rtTable[k].base = ChunkBase(c)
      <4>1. PICK i \in Chunks : rtTable[k] = Normal(ChunkBase(i))
        BY <1>3, <2>1, <3>3 DEF ChunkOrOutside
      <4>2. rtTable[k].base = ChunkBase(i) /\ rtTable[k].cap = ChunkSize
        BY <4>1 DEF Normal
      <4>3. i = c
        BY <3>1, <3>3, <4>2 DEF Cells
      <4> QED BY <4>2, <4>3
    <3>4. ASSUME NEW k \in DOMAIN rtTable, rtTable[k].base = ChunkBase(c) PROVE p \in Cells(rtTable[k])
      <4>1. rtTable[k].base \in Cells(rtTable[k])
        <5>1. rtTable[k].cap # 0
          BY <1>1, TableFacts
        <5> QED BY <1>3, <5>1 DEF Cells
      <4>2. arena_contains(ChunkBase(c))
        BY <3>1, ChunkPlace
      <4>3. PICK i \in Chunks : rtTable[k] = Normal(ChunkBase(i))
        BY <1>3, <3>4, <4>1, <4>2 DEF ChunkOrOutside
      <4>4. rtTable[k].cap = ChunkSize
        BY <4>3 DEF Normal
      <4> QED BY <3>1, <3>4, <4>4 DEF Cells
    <3> HIDE DEF c, f
    <3>5. CASE f = 0
      <4>1. \A k \in DOMAIN rtTable : rtTable[k].base # ChunkBase(c)
        <5>1. \A k \in DOMAIN rtTable : rtTable[k].base = ChunkBase(c) => rtArena.ri[c] = k
          BY <1>1, <3>1 DEF ChunkMapSound
        <5>2. \A k \in DOMAIN rtTable : k # 0
          BY <1>3
        <5> QED BY <3>2, <3>5, <5>1, <5>2
      <4> QED BY <3>3, <3>5, <4>1
    <3>6. CASE f # 0
      BY <1>1, <3>1, <3>2, <3>4, <3>6 DEF ChunkMapSound
    <3> QED BY <3>5, <3>6
  <2>2. CASE ~(Len(rtTable) > MinRegions /\ arena_contains(p)) /\ p - rtBounds.lo \notin 0 .. rtBounds.span - 1
    <3>1. f = 0
      BY <2>2 DEF region_find
    <3>2. rtBounds.lo \in Nat /\ rtBounds.span \in Nat
      BY <1>1 DEF BoundsSound
    <3>3. ASSUME NEW k \in DOMAIN rtTable PROVE p \notin Cells(rtTable[k])
      <4>1. rtBounds.lo <= rtTable[k].base /\ rtTable[k].base + rtTable[k].cap <= rtBounds.lo + rtBounds.span
        BY <1>1 DEF BoundsSound
      <4>2. ~(p >= rtBounds.lo /\ p < rtBounds.lo + rtBounds.span)
        BY <1>2, <2>2, <3>2
      <4> QED BY <1>2, <1>3, <3>2, <4>1, <4>2 DEF Cells
    <3> QED BY <3>1, <3>3
  <2>3. CASE ~(Len(rtTable) > MinRegions /\ arena_contains(p)) /\ ~(p - rtBounds.lo \notin 0 .. rtBounds.span - 1)
    <3>1. f = region_find_slow(p)
      BY <2>3 DEF region_find
    <3> HIDE DEF f
    <3> QED BY <1>1, <1>2, <3>1, SlowFound
  <2> QED BY <2>1, <2>2, <2>3
<1> HIDE DEF f
<1>5. CASE f = 0 /\ \A k \in DOMAIN rtTable : p \notin Cells(rtTable[k])
  BY <1>5 DEF f
<1>6. CASE f \in DOMAIN rtTable /\ p \in Cells(rtTable[f])
  <2>1. owner = {f}
    BY <1>1, <1>2, <1>6, Disjoint
  <2> HIDE DEF owner
  <2>2. (CHOOSE i \in owner : owner = {i}) = f
    BY <2>1
  <2>3. owner # {}
    BY <2>1
  <2> QED BY <2>2, <2>3 DEF f, owner
<1> QED BY <1>4, <1>5, <1>6

\* A region that lies clear of every region of the table.
Clear(table, r) == \A k \in DOMAIN table : table[k].base + table[k].cap <= r.base \/ r.base + r.cap <= table[k].base

(* A region put in its place: the table stays sorted and disjoint.          *)
LEMMA InsertTable ==
  ASSUME NEW table, TableSound(table), NEW r \in Regions, ChunkOrOutside(r), Clear(table, r),
         NEW at, at = LowerBound(table, r.base), NEW t, t = InsertAt(table, at, r)
  PROVE  /\ TableSound(t) /\ at \in 1 .. Len(table) + 1 /\ DOMAIN t = 1 .. Len(table) + 1 /\ Len(t) = Len(table) + 1
         /\ \A k \in 1 .. Len(table) + 1 : t[k] = IF k < at THEN table[k] ELSE IF k = at THEN r ELSE table[k - 1]
<1> DEFINE n == Len(table)
<1>1. /\ n \in Nat /\ DOMAIN table = 1 .. n /\ table \in Seq(Regions)
      /\ \A k \in 1 .. n : table[k].base \in Nat /\ table[k].cap \in Nat /\ table[k].cap # 0 /\ ChunkOrOutside(table[k])
      /\ \A i, j \in 1 .. n : i < j => table[i].base + table[i].cap <= table[j].base
  BY TableFacts
<1>2. r.base \in Nat /\ r.cap \in Nat /\ r.cap # 0
  BY DEF Regions
<1>3. at \in 1 .. n + 1 /\ \A k \in 1 .. n : (k < at => table[k].base < r.base) /\ (k >= at => table[k].base >= r.base)
  BY <1>1, <1>2, LowerFound
<1>4. /\ t \in Seq(Regions) /\ Len(t) = n + 1 /\ DOMAIN t = 1 .. n + 1
      /\ \A k \in 1 .. n + 1 : t[k] = IF k < at THEN table[k] ELSE IF k = at THEN r ELSE table[k - 1]
  <2>1. table \in Seq(Regions) /\ r \in Regions /\ at \in 1 .. Len(table) + 1 /\ t = InsertAt(table, at, r)
    BY <1>1, <1>3
  <2> DEFINE S == Regions
  <2>2. table \in Seq(S) /\ r \in S
    BY <2>1
  <2> HIDE DEF S
  <2>3. /\ t \in Seq(S) /\ Len(t) = Len(table) + 1 /\ DOMAIN t = 1 .. Len(table) + 1
        /\ \A k \in 1 .. Len(table) + 1 : t[k] = IF k < at THEN table[k] ELSE IF k = at THEN r ELSE table[k - 1]
    BY ONLY <2>1, <2>2, Inserted, SMTT(20)
  <2> QED BY <2>3 DEF S
<1> HIDE DEF n
<1>5. ASSUME NEW k \in 1 .. n, k < at PROVE table[k].base + table[k].cap <= r.base
  <2>1. table[k].base < r.base /\ table[k].base \in Nat /\ table[k].cap \in Nat
    BY <1>1, <1>3, <1>5
  <2>2. table[k].base + table[k].cap <= r.base \/ r.base + r.cap <= table[k].base
    BY <1>1 DEF Clear
  <2> QED BY <1>2, <2>1, <2>2
<1>6. ASSUME NEW k \in 1 .. n, k >= at PROVE r.base + r.cap <= table[k].base
  <2>1. table[k].base >= r.base /\ table[k].base \in Nat /\ table[k].cap \in Nat /\ table[k].cap # 0
    BY <1>1, <1>3, <1>6
  <2>2. table[k].base + table[k].cap <= r.base \/ r.base + r.cap <= table[k].base
    BY <1>1 DEF Clear
  <2> QED BY <1>2, <2>1, <2>2
<1>7. ASSUME NEW i \in 1 .. n + 1, NEW j \in 1 .. n + 1, i < j PROVE t[i].base + t[i].cap <= t[j].base
  <2>1. CASE j < at
    <3>1. i \in 1 .. n /\ j \in 1 .. n /\ i < at
      BY <1>1, <1>3, <1>7, <2>1
    <3>2. t[i] = table[i] /\ t[j] = table[j]
      BY <1>4, <2>1, <3>1
    <3> QED BY <1>1, <1>7, <3>1, <3>2
  <2>2. CASE j = at
    <3>1. i \in 1 .. n /\ i < at /\ ~(j < at)
      BY <1>1, <1>3, <1>7, <2>2
    <3>2. t[i] = table[i] /\ t[j] = r
      BY <1>4, <2>2, <3>1
    <3> QED BY <1>5, <3>1, <3>2
  <2>3. CASE j > at /\ i < at
    <3>1. i \in 1 .. n /\ j - 1 \in 1 .. n /\ i < j - 1 /\ ~(j < at) /\ j # at
      BY <1>1, <1>3, <1>7, <2>3
    <3>2. t[i] = table[i] /\ t[j] = table[j - 1]
      BY <1>4, <2>3, <3>1
    <3> QED BY <1>1, <3>1, <3>2
  <2>4. CASE j > at /\ i = at
    <3>1. j - 1 \in 1 .. n /\ j - 1 >= at /\ ~(j < at) /\ j # at /\ ~(i < at)
      BY <1>1, <1>3, <1>7, <2>4
    <3>2. t[i] = r /\ t[j] = table[j - 1]
      BY <1>4, <2>4, <3>1
    <3> QED BY <1>6, <3>1, <3>2
  <2>5. CASE j > at /\ i > at
    <3>1. i - 1 \in 1 .. n /\ j - 1 \in 1 .. n /\ i - 1 < j - 1 /\ ~(j < at) /\ j # at /\ ~(i < at) /\ i # at
      BY <1>1, <1>3, <1>7, <2>5
    <3>2. t[i] = table[i - 1] /\ t[j] = table[j - 1]
      BY <1>4, <3>1
    <3> QED BY <1>1, <3>1, <3>2
  <2> QED BY <1>1, <1>3, <2>1, <2>2, <2>3, <2>4, <2>5
<1>8. ASSUME NEW k \in 1 .. n + 1 PROVE ChunkOrOutside(t[k])
  <2>1. CASE k < at
    <3>1. k \in 1 .. n
      BY <1>1, <1>3, <2>1
    <3> QED BY <1>1, <1>4, <2>1, <3>1
  <2>2. CASE k = at
    <3>1. ~(k < at)
      BY <1>1, <1>3, <2>2
    <3> QED BY <1>4, <2>2, <3>1
  <2>3. CASE k > at
    <3>1. k - 1 \in 1 .. n /\ ~(k < at) /\ k # at
      BY <1>1, <1>3, <2>3
    <3> QED BY <1>1, <1>4, <3>1
  <2> QED BY <1>1, <1>3, <2>1, <2>2, <2>3
<1>9. TableSound(t)
  BY <1>4, <1>7, <1>8 DEF TableSound
<1> QED BY <1>3, <1>4, <1>9 DEF n

(* A region taken out: the others keep their order.                         *)
LEMMA RemoveTable ==
  ASSUME NEW table, TableSound(table), NEW i \in DOMAIN table, NEW t, t = RemoveAt(table, i)
  PROVE  /\ TableSound(t) /\ DOMAIN t = 1 .. Len(table) - 1 /\ Len(t) = Len(table) - 1
         /\ \A k \in 1 .. Len(table) - 1 : t[k] = IF k < i THEN table[k] ELSE table[k + 1]
<1> DEFINE n == Len(table)
           Old(k) == IF k < i THEN k ELSE k + 1
<1>1. /\ n \in Nat /\ DOMAIN table = 1 .. n /\ table \in Seq(Regions) /\ i \in 1 .. n
      /\ \A k \in 1 .. n : ChunkOrOutside(table[k])
      /\ \A k, j \in 1 .. n : k < j => table[k].base + table[k].cap <= table[j].base
  BY TableFacts
<1>2. /\ t \in Seq(Regions) /\ Len(t) = n - 1 /\ DOMAIN t = 1 .. n - 1
      /\ \A k \in 1 .. n - 1 : t[k] = IF k < i THEN table[k] ELSE table[k + 1]
  <2>1. table \in Seq(Regions) /\ i \in 1 .. Len(table) /\ t = RemoveAt(table, i)
    BY <1>1
  <2> DEFINE S == Regions
  <2>2. table \in Seq(S)
    BY <2>1
  <2> HIDE DEF S
  <2>3. /\ t \in Seq(S) /\ Len(t) = Len(table) - 1 /\ DOMAIN t = 1 .. Len(table) - 1
        /\ \A k \in 1 .. Len(table) - 1 : t[k] = IF k < i THEN table[k] ELSE table[k + 1]
    BY ONLY <2>1, <2>2, RemovedAt
  <2> QED BY <2>3 DEF S
<1> HIDE DEF n
<1>3. \A k \in 1 .. n - 1 : Old(k) \in 1 .. n
  BY <1>1
<1>4. \A k, j \in 1 .. n - 1 : k < j => Old(k) < Old(j)
  BY <1>1
<1>5. \A k \in 1 .. n - 1 : t[k] = table[Old(k)]
  BY <1>2
<1> HIDE DEF Old
<1>6. TableSound(t)
  BY <1>1, <1>2, <1>3, <1>4, <1>5 DEF TableSound
<1> QED BY <1>2, <1>6 DEF n

(* An entry at a chunk's base is that chunk; no two are at the same base.   *)
LEMMA ChunkEntry ==
  ASSUME NEW table, TableSound(table), NEW k \in DOMAIN table, NEW i \in Chunks, table[k].base = ChunkBase(i)
  PROVE  /\ table[k] = Normal(ChunkBase(i)) /\ ~table[k].large
         /\ \A j \in DOMAIN table : table[j].base = ChunkBase(i) => j = k
<1>1. /\ Len(table) \in Nat /\ DOMAIN table = 1 .. Len(table) /\ ChunkOrOutside(table[k])
      /\ \A j \in DOMAIN table : table[j].base \in Nat /\ table[j].cap \in Nat /\ table[j].cap # 0
      /\ \A j, l \in DOMAIN table : j < l => table[j].base + table[j].cap <= table[l].base
  BY TableFacts
<1>2. table[k].base \in Cells(table[k])
  BY <1>1 DEF Cells
<1>3. arena_contains(table[k].base)
  BY ChunkPlace
<1>4. PICK m \in Chunks : table[k] = Normal(ChunkBase(m))
  BY <1>1, <1>2, <1>3 DEF ChunkOrOutside
<1>5. table[k] = Normal(ChunkBase(i))
  BY <1>4 DEF Normal
<1>6. ~table[k].large
  BY <1>5 DEF Normal
<1>7. ASSUME NEW j \in DOMAIN table, table[j].base = ChunkBase(i) PROVE j = k
  <2>1. table[j].base = table[k].base
    BY <1>7
  <2>2. ~(j < k) /\ ~(k < j)
    BY <1>1, <2>1
  <2> QED BY <1>1, <2>2
<1> QED BY <1>5, <1>6, <1>7

(* Reindexing from `start` repairs a chunk map that is right below it.      *)
LEMMA Reindexed ==
  ASSUME NEW table, TableSound(table), NEW ri \in [Chunks -> Nat], NEW start \in Nat, start # 0,
         \A i \in Chunks, k \in DOMAIN table : k < start /\ table[k].base = ChunkBase(i) => ri[i] = k,
         \A i \in Chunks : ri[i] # 0 =>
           \/ ri[i] < start /\ ri[i] \in DOMAIN table /\ table[ri[i]].base = ChunkBase(i)
           \/ \E k \in DOMAIN table : k >= start /\ table[k].base = ChunkBase(i),
         NEW map, map = arena_reindex_from(ri, table, start)
  PROVE  map \in [Chunks -> Nat] /\ ChunkMapSound(table, map)
<1> DEFINE n == Len(table)
           at(i) == {k \in start .. n : ~table[k].large /\ table[k].base = ChunkBase(i)}
<1>1. n \in Nat /\ DOMAIN table = 1 .. n
  BY TableFacts
<1>2. map = [i \in Chunks |-> IF at(i) = {} THEN ri[i] ELSE CHOOSE k \in at(i) : TRUE]
  BY DEF arena_reindex_from
<1>3. \A k \in 1 .. n : k >= start => k \in start .. n
  BY <1>1
<1>4. \A k \in start .. n : k \in 1 .. n /\ k >= start /\ k # 0 /\ k \in Nat
  BY <1>1
<1> HIDE DEF n
<1>5. ASSUME NEW i \in Chunks, NEW k \in 1 .. n, table[k].base = ChunkBase(i)
      PROVE  /\ k >= start => at(i) = {k}
             /\ ~(k >= start) => at(i) = {}
  <2>1. ~table[k].large /\ \A j \in 1 .. n : table[j].base = ChunkBase(i) => j = k
    BY <1>1, <1>5, ChunkEntry
  <2> QED BY <1>3, <1>4, <1>5, <2>1
<1>6. ASSUME NEW i \in Chunks, NEW k \in 1 .. n, table[k].base = ChunkBase(i) PROVE map[i] = k
  <2>1. CASE k >= start
    <3>1. at(i) = {k}
      BY <1>5, <1>6, <2>1
    <3> HIDE DEF at
    <3>2. (CHOOSE l \in at(i) : TRUE) = k /\ at(i) # {}
      BY <3>1
    <3> QED BY <1>2, <3>2
  <2>2. CASE ~(k >= start)
    <3>1. at(i) = {} /\ k < start
      BY <1>1, <1>5, <1>6, <2>2
    <3> HIDE DEF at
    <3> QED BY <1>1, <1>2, <1>6, <3>1
  <2> QED BY <2>1, <2>2
<1>7. ASSUME NEW i \in Chunks, \A k \in 1 .. n : table[k].base # ChunkBase(i) PROVE map[i] = 0
  <2>1. at(i) = {}
    BY <1>4, <1>7
  <2> HIDE DEF at
  <2>2. map[i] = ri[i]
    BY <1>2, <2>1
  <2>3. ri[i] = 0
    BY <1>1, <1>7
  <2> QED BY <2>2, <2>3
<1>8. ASSUME NEW i \in Chunks PROVE /\ map[i] \in Nat
                                    /\ map[i] # 0 => map[i] \in 1 .. n /\ table[map[i]].base = ChunkBase(i)
  <2>1. CASE \E k \in 1 .. n : table[k].base = ChunkBase(i)
    <3>1. PICK k \in 1 .. n : table[k].base = ChunkBase(i)
      BY <2>1
    <3>2. map[i] = k
      BY <1>6, <3>1
    <3> QED BY <1>1, <3>1, <3>2
  <2>2. CASE \A k \in 1 .. n : table[k].base # ChunkBase(i)
    BY <1>7, <2>2
  <2> QED BY <2>1, <2>2
<1>9. map \in [Chunks -> Nat]
  <2> HIDE DEF at
  <2>1. map = [i \in Chunks |-> map[i]]
    BY <1>2
  <2> QED BY <1>8, <2>1
<1> QED BY <1>1, <1>6, <1>8, <1>9 DEF ChunkMapSound

(* What a sound state holds.                                                *)
LEMMA RtFacts ==
  ASSUME NEW st, RtSound(st)
  PROVE  /\ TableSound(st.table) /\ ChunkMapSound(st.table, st.arena.ri) /\ BoundsSound(st.table, st.bounds)
         /\ FreeSound(st.table, st.arena.next, st.arena.recycled)
         /\ st.arena.next \in Nat /\ st.arena.recycled \in Seq(Chunks)
         /\ st.arena.committed \in SUBSET Chunks /\ st.arena.ri \in [Chunks -> Nat]
         /\ st.bounds \in [lo : Nat, span : Nat] /\ st.arena \in Arenas
         /\ st = [table |-> st.table, arena |-> st.arena, bounds |-> st.bounds]
         /\ st.arena = [next |-> st.arena.next, recycled |-> st.arena.recycled, committed |-> st.arena.committed,
                        ri |-> st.arena.ri]
<1>1. st \in RtStates /\ st.arena \in Arenas /\ st.bounds \in [lo : Nat, span : Nat]
  BY DEF RtSound, RtStates
<1>2. st = [table |-> st.table, arena |-> st.arena, bounds |-> st.bounds]
  BY <1>1 DEF RtStates
<1>3. /\ st.arena.next \in Nat /\ st.arena.recycled \in Seq(Chunks)
      /\ st.arena.committed \in SUBSET Chunks /\ st.arena.ri \in [Chunks -> Nat]
      /\ st.arena = [next |-> st.arena.next, recycled |-> st.arena.recycled, committed |-> st.arena.committed,
                     ri |-> st.arena.ri]
  BY <1>1 DEF Arenas
<1> QED BY <1>1, <1>2, <1>3 DEF RtSound

(* A sound state from sound parts.                                          *)
LEMMA RtMade ==
  ASSUME NEW table, NEW next \in Nat, NEW recycled \in Seq(Chunks), NEW committed \in SUBSET Chunks,
         NEW ri \in [Chunks -> Nat], NEW b, TableSound(table), ChunkMapSound(table, ri),
         FreeSound(table, next, recycled), BoundsSound(table, b),
         NEW st, st = [table |-> table, bounds |-> b,
                       arena |-> [next |-> next, recycled |-> recycled, committed |-> committed, ri |-> ri]]
  PROVE  RtSound(st)
<1>1. table \in Seq(Regions) /\ b \in [lo : Nat, span : Nat]
  BY DEF TableSound, BoundsSound
<1> DEFINE a == [next |-> next, recycled |-> recycled, committed |-> committed, ri |-> ri]
<1>2. a \in Arenas /\ a.ri = ri /\ a.next = next /\ a.recycled = recycled
  BY DEF Arenas
<1>3. st.table = table /\ st.bounds = b /\ st.arena = a
  OBVIOUS
<1> HIDE DEF a
<1>4. st \in RtStates
  BY <1>1, <1>2 DEF RtStates, a
<1> QED BY <1>2, <1>3, <1>4 DEF RtSound

(* The bounds after one more region.                                        *)
LEMMA WidenedKeeps ==
  ASSUME NEW table, TableSound(table), NEW b, BoundsSound(table, b), NEW r \in Regions, NEW w, w = Widened(b, r)
  PROVE  /\ w \in [lo : Nat, span : Nat]
         /\ w.lo <= r.base /\ r.base + r.cap <= w.lo + w.span
         /\ \A k \in DOMAIN table : w.lo <= table[k].base /\ table[k].base + table[k].cap <= w.lo + w.span
<1>1. r.base \in Nat /\ r.cap \in Nat /\ r.cap # 0
  BY DEF Regions
<1>2. b.lo \in Nat /\ b.span \in Nat
  BY DEF BoundsSound
<1>3. \A k \in DOMAIN table : table[k].base \in Nat /\ table[k].cap \in Nat /\ table[k].cap # 0
  BY TableFacts
<1>4. \A k \in DOMAIN table : b.lo <= table[k].base /\ table[k].base + table[k].cap <= b.lo + b.span
  BY DEF BoundsSound
<1>5. CASE b.span = 0
  <2>1. w = [lo |-> r.base, span |-> r.cap]
    BY <1>5 DEF Widened
  <2>2. \A k \in DOMAIN table : FALSE
    <3> SUFFICES ASSUME NEW k \in DOMAIN table PROVE FALSE
      OBVIOUS
    <3> QED BY <1>2, <1>3, <1>4, <1>5
  <2> QED BY <1>1, <2>1, <2>2
<1>6. CASE b.span # 0
  <2> DEFINE hi == IF b.lo + b.span > r.base + r.cap THEN b.lo + b.span ELSE r.base + r.cap
             lo == IF r.base < b.lo THEN r.base ELSE b.lo
  <2>1. w = [lo |-> lo, span |-> hi - lo]
    BY <1>6 DEF Widened
  <2>2. /\ lo \in Nat /\ hi \in Nat /\ lo <= hi /\ lo <= r.base /\ lo <= b.lo
        /\ r.base + r.cap <= hi /\ b.lo + b.span <= hi
    BY <1>1, <1>2
  <2> HIDE DEF lo, hi
  <2>3. w.lo = lo /\ w.span = hi - lo /\ hi - lo \in Nat /\ w.lo + w.span = hi
    BY <2>1, <2>2
  <2>4. w \in [lo : Nat, span : Nat]
    BY <2>1, <2>2, <2>3
  <2>5. ASSUME NEW k \in DOMAIN table PROVE lo <= table[k].base /\ table[k].base + table[k].cap <= hi
    BY <1>2, <1>3, <1>4, <2>2
  <2> QED BY <2>2, <2>3, <2>4, <2>5
<1> QED BY <1>2, <1>5, <1>6

(* A region put into a sound state, clear of the others and at no chunk     *)
(* that can still be handed out.                                            *)
LEMMA InsertKeeps ==
  ASSUME NEW st, RtSound(st), NEW r \in Regions, ChunkOrOutside(r), Clear(st.table, r),
         \A i \in Chunks : i >= st.arena.next => r.base # ChunkBase(i),
         \A j \in DOMAIN st.arena.recycled : r.base # ChunkBase(st.arena.recycled[j]),
         NEW u, u = region_table_insert(st, r)
  PROVE  RtSound(u)
<1> DEFINE table == st.table
           n == Len(table)
           at == LowerBound(table, r.base)
           t == InsertAt(table, at, r)
           map == arena_reindex_from(st.arena.ri, t, at)
           w == Widened(st.bounds, r)
<1>1. /\ TableSound(table) /\ ChunkMapSound(table, st.arena.ri) /\ BoundsSound(table, st.bounds)
      /\ FreeSound(table, st.arena.next, st.arena.recycled)
      /\ st.arena.next \in Nat /\ st.arena.recycled \in Seq(Chunks)
      /\ st.arena.committed \in SUBSET Chunks /\ st.arena.ri \in [Chunks -> Nat]
      /\ st.arena = [next |-> st.arena.next, recycled |-> st.arena.recycled, committed |-> st.arena.committed,
                     ri |-> st.arena.ri]
  BY RtFacts
<1>2. u = [table |-> t, arena |-> [st.arena EXCEPT !.ri = map], bounds |-> w]
  BY DEF region_table_insert
<1>3. [st.arena EXCEPT !.ri = map] = [next |-> st.arena.next, recycled |-> st.arena.recycled,
                                      committed |-> st.arena.committed, ri |-> map]
  <2> HIDE DEF map
  <2> QED BY <1>1
<1>0. Clear(table, r)
  OBVIOUS
<1> HIDE DEF table, at
<1>4. /\ TableSound(t) /\ at \in 1 .. n + 1 /\ DOMAIN t = 1 .. n + 1 /\ Len(t) = n + 1
      /\ \A k \in 1 .. n + 1 : t[k] = IF k < at THEN table[k] ELSE IF k = at THEN r ELSE table[k - 1]
  <2>1. at = LowerBound(table, r.base) /\ t = InsertAt(table, at, r)
    BY DEF at
  <2> HIDE DEF t
  <2> QED BY <1>0, <1>1, <2>1, InsertTable
<1>5. n \in Nat /\ DOMAIN table = 1 .. n
  BY <1>1, TableFacts
<1> HIDE DEF t, n
<1>6. \A k \in 1 .. n : /\ k < at => k \in DOMAIN t /\ t[k] = table[k]
                        /\ k >= at => k + 1 \in DOMAIN t /\ t[k + 1] = table[k]
  <2> SUFFICES ASSUME NEW k \in 1 .. n PROVE /\ k < at => k \in DOMAIN t /\ t[k] = table[k]
                                             /\ k >= at => k + 1 \in DOMAIN t /\ t[k + 1] = table[k]
    OBVIOUS
  <2>1. k \in 1 .. n + 1 /\ k + 1 \in 1 .. n + 1 /\ (k + 1) - 1 = k /\ (k >= at => ~(k + 1 < at) /\ k + 1 # at)
    BY <1>4, <1>5
  <2> QED BY <1>4, <2>1
<1>7. \A k \in DOMAIN t : \/ t[k] = r
                          \/ \E j \in 1 .. n : t[k] = table[j] /\ (k < at => j = k)
  <2> SUFFICES ASSUME NEW k \in 1 .. n + 1 PROVE \/ t[k] = r
                                                 \/ \E j \in 1 .. n : t[k] = table[j] /\ (k < at => j = k)
    BY <1>4
  <2>1. CASE k < at
    <3>1. k \in 1 .. n
      BY <1>4, <1>5, <2>1
    <3> QED BY <1>4, <2>1, <3>1
  <2>2. CASE k = at
    <3>1. ~(k < at)
      BY <1>4, <1>5, <2>2
    <3> QED BY <1>4, <2>2, <3>1
  <2>3. CASE k > at
    <3>1. k - 1 \in 1 .. n /\ ~(k < at) /\ k # at
      BY <1>4, <1>5, <2>3
    <3> QED BY <1>4, <3>1
  <2> QED BY <1>4, <1>5, <2>1, <2>2, <2>3
<1>8. map \in [Chunks -> Nat] /\ ChunkMapSound(t, map)
  <2>1. at \in Nat /\ at # 0
    BY <1>4, <1>5
  <2>2. ASSUME NEW i \in Chunks, NEW k \in DOMAIN t, k < at, t[k].base = ChunkBase(i) PROVE st.arena.ri[i] = k
    <3>1. k \in 1 .. n
      BY <1>4, <1>5, <2>2
    <3>2. t[k] = table[k]
      BY <1>6, <2>2, <3>1
    <3> QED BY <1>1, <1>5, <2>2, <3>1, <3>2 DEF ChunkMapSound
  <2>3. ASSUME NEW i \in Chunks, st.arena.ri[i] # 0
        PROVE  \/ st.arena.ri[i] < at /\ st.arena.ri[i] \in DOMAIN t /\ t[st.arena.ri[i]].base = ChunkBase(i)
               \/ \E k \in DOMAIN t : k >= at /\ t[k].base = ChunkBase(i)
    <3> DEFINE k == st.arena.ri[i]
    <3>1. k \in 1 .. n /\ table[k].base = ChunkBase(i)
      BY <1>1, <1>5, <2>3 DEF ChunkMapSound
    <3> HIDE DEF k
    <3>2. CASE k < at
      BY <1>6, <3>1, <3>2 DEF k
    <3>3. CASE k >= at
      <4>1. k + 1 >= at
        BY <1>4, <1>5, <3>1, <3>3
      <4> QED BY <1>6, <3>1, <3>3, <4>1
    <3> QED BY <1>4, <1>5, <3>1, <3>2, <3>3
  <2> DEFINE ri == st.arena.ri
  <2>4. /\ TableSound(t) /\ ri \in [Chunks -> Nat] /\ map = arena_reindex_from(ri, t, at)
        /\ \A i \in Chunks, k \in DOMAIN t : k < at /\ t[k].base = ChunkBase(i) => ri[i] = k
        /\ \A i \in Chunks : ri[i] # 0 =>
             \/ ri[i] < at /\ ri[i] \in DOMAIN t /\ t[ri[i]].base = ChunkBase(i)
             \/ \E k \in DOMAIN t : k >= at /\ t[k].base = ChunkBase(i)
    BY <1>1, <1>4, <2>2, <2>3
  <2> HIDE DEF map, ri
  <2> QED BY <2>1, <2>4, Reindexed
<1>9. FreeSound(t, st.arena.next, st.arena.recycled)
  <2>1. ASSUME NEW i, Unused(table, i), r.base # ChunkBase(i) PROVE Unused(t, i)
    <3> SUFFICES ASSUME NEW k \in DOMAIN t PROVE t[k].base # ChunkBase(i)
      BY DEF Unused
    <3>1. t[k] = r \/ \E j \in DOMAIN table : t[k] = table[j]
      BY <1>5, <1>7
    <3> QED BY <2>1, <3>1 DEF Unused
  <2> QED BY <1>1, <2>1 DEF FreeSound
<1>10. BoundsSound(t, w)
  <2>1. /\ w \in [lo : Nat, span : Nat]
        /\ w.lo <= r.base /\ r.base + r.cap <= w.lo + w.span
        /\ \A k \in DOMAIN table : w.lo <= table[k].base /\ table[k].base + table[k].cap <= w.lo + w.span
    BY <1>1, WidenedKeeps
  <2> HIDE DEF w
  <2>2. \A k \in DOMAIN t : t[k] = r \/ \E j \in DOMAIN table : t[k] = table[j]
    BY <1>5, <1>7
  <2> QED BY <2>1, <2>2 DEF BoundsSound
<1> HIDE DEF map, w
<1> DEFINE nx == st.arena.next
           rc == st.arena.recycled
           cm == st.arena.committed
<1>11. u = [table |-> t, bounds |-> w, arena |-> [next |-> nx, recycled |-> rc, committed |-> cm, ri |-> map]]
  BY <1>2, <1>3
<1>12. /\ nx \in Nat /\ rc \in Seq(Chunks) /\ cm \in SUBSET Chunks /\ map \in [Chunks -> Nat]
       /\ TableSound(t) /\ ChunkMapSound(t, map) /\ FreeSound(t, nx, rc) /\ BoundsSound(t, w)
  BY <1>1, <1>4, <1>8, <1>9, <1>10
<1> HIDE DEF nx, rc, cm
<1> QED BY ONLY <1>11, <1>12, RtMade

(* One region released.                                                     *)
LEMMA ReleaseKeeps ==
  ASSUME NEW st, RtSound(st), NEW x \in DOMAIN st.table, NEW u, u = ReleaseAt(st, x)
  PROVE  RtSound(u) /\ Len(u.table) = Len(st.table) - 1
<1> DEFINE table == st.table
           n == Len(table)
           t == RemoveAt(table, x)
           r == table[x]
           c == ChunkAt(r.base)
           nx == st.arena.next
           rc == st.arena.recycled
           cm == st.arena.committed
           ri == st.arena.ri
           chunk == ~r.large /\ arena_contains(r.base)
           arena == IF chunk THEN arena_chunk_release(st.arena, r.base) ELSE st.arena
           rc2 == IF chunk THEN Append(rc, c) ELSE rc
           ri2 == IF chunk THEN [ri EXCEPT ![c] = 0] ELSE ri
           map == arena_reindex_from(ri2, t, x)
<1>1. /\ TableSound(table) /\ ChunkMapSound(table, ri) /\ BoundsSound(table, st.bounds)
      /\ FreeSound(table, nx, rc) /\ nx \in Nat /\ rc \in Seq(Chunks) /\ cm \in SUBSET Chunks /\ ri \in [Chunks -> Nat]
      /\ st.arena = [next |-> nx, recycled |-> rc, committed |-> cm, ri |-> ri]
      /\ st = [table |-> table, arena |-> st.arena, bounds |-> st.bounds]
  BY RtFacts
<1>2. u = [st EXCEPT !.table = t, !.arena = [arena EXCEPT !.ri = arena_reindex_from(@, t, x)]]
  BY DEF ReleaseAt
<1>3. arena = [next |-> nx, recycled |-> rc2, committed |-> cm, ri |-> ri2]
  <2>1. CASE chunk
    <3>1. arena = [st.arena EXCEPT !.ri[c] = 0, !.recycled = Append(@, c)]
      BY <2>1 DEF arena_chunk_release
    <3>2. rc2 = Append(rc, c) /\ ri2 = [ri EXCEPT ![c] = 0]
      BY <2>1
    <3> HIDE DEF arena, rc2, ri2, c, chunk, ri, rc, nx, cm, r
    <3>3. [st.arena EXCEPT !.ri[c] = 0, !.recycled = Append(@, c)]
            = [next |-> nx, recycled |-> Append(rc, c), committed |-> cm, ri |-> [ri EXCEPT ![c] = 0]]
      <4>1. /\ st.arena = [next |-> nx, recycled |-> rc, committed |-> cm, ri |-> ri]
            /\ st.arena.ri = ri /\ st.arena.recycled = rc
        BY <1>1
      <4> DEFINE b == [st.arena EXCEPT !.ri = [ri EXCEPT ![c] = 0]]
                 z == [ri EXCEPT ![c] = 0]
                 y == Append(rc, c)
      <4>2. [st.arena EXCEPT !.ri[c] = 0, !.recycled = Append(@, c)] = [b EXCEPT !.recycled = y]
        BY <4>1
      <4>3. b = [st.arena EXCEPT !.ri = z]
        OBVIOUS
      <4> HIDE DEF b, z, y
      <4>4. b = [next |-> nx, recycled |-> rc, committed |-> cm, ri |-> z]
        BY <4>1, <4>3
      <4>5. [b EXCEPT !.recycled = y] = [next |-> nx, recycled |-> y, committed |-> cm, ri |-> z]
        BY <4>4
      <4> QED BY <4>2, <4>5 DEF y, z
    <3> QED BY <3>1, <3>2, <3>3
  <2>2. CASE ~chunk
    BY <1>1, <2>2
  <2> QED BY <2>1, <2>2
<1>4. u = [table |-> t, bounds |-> st.bounds, arena |-> [next |-> nx, recycled |-> rc2, committed |-> cm, ri |-> map]]
  <2> DEFINE a2 == [arena EXCEPT !.ri = arena_reindex_from(@, t, x)]
  <2>1. a2 = [next |-> nx, recycled |-> rc2, committed |-> cm, ri |-> map]
    <3> HIDE DEF arena, rc2, ri2, nx, cm, t
    <3> QED BY <1>3
  <2>2. u = [st EXCEPT !.table = t, !.arena = a2]
    BY <1>2
  <2> HIDE DEF a2, t, map, rc2, nx, cm
  <2>3. u = [table |-> t, bounds |-> st.bounds, arena |-> a2]
    BY <1>1, <2>2
  <2> QED BY <2>1, <2>3
<1>5. x \in DOMAIN table /\ t = RemoveAt(table, x) /\ map = arena_reindex_from(ri2, t, x)
  OBVIOUS
<1> HIDE DEF table, t, map
<1>6. n \in Nat /\ DOMAIN table = 1 .. n /\ x \in 1 .. n
      /\ \A k \in 1 .. n : table[k].base \in Nat /\ table[k].cap \in Nat /\ table[k].cap # 0 /\ ChunkOrOutside(table[k])
  BY <1>1, <1>5, TableFacts
<1>7. /\ TableSound(t) /\ DOMAIN t = 1 .. n - 1 /\ Len(t) = n - 1
      /\ \A k \in 1 .. n - 1 : t[k] = IF k < x THEN table[k] ELSE table[k + 1]
  BY <1>1, <1>5, RemoveTable
<1> HIDE DEF n
<1>8. ASSUME NEW k \in DOMAIN t PROVE \E j \in 1 .. n : j # x /\ t[k] = table[j] /\ (k < x => j = k)
  <2>1. CASE k < x
    <3>1. k \in 1 .. n /\ k # x
      BY <1>6, <1>7, <2>1
    <3> QED BY <1>7, <2>1, <3>1
  <2>2. CASE ~(k < x)
    <3>1. k + 1 \in 1 .. n /\ k + 1 # x
      BY <1>6, <1>7, <2>2
    <3> QED BY <1>7, <2>2, <3>1
  <2> QED BY <2>1, <2>2
<1>9. ASSUME NEW k \in 1 .. n PROVE /\ k < x => k \in DOMAIN t /\ t[k] = table[k]
                                    /\ k > x => k - 1 \in DOMAIN t /\ t[k - 1] = table[k] /\ k - 1 >= x
  <2>1. /\ k < x => k \in 1 .. n - 1
        /\ k > x => k - 1 \in 1 .. n - 1 /\ ~(k - 1 < x) /\ (k - 1) + 1 = k /\ k - 1 >= x
    BY <1>6
  <2> QED BY <1>7, <2>1
<1>10. ASSUME NEW i \in Chunks, r.base = ChunkBase(i)
       PROVE  chunk /\ i = c /\ \A k \in 1 .. n : table[k].base = ChunkBase(i) => k = x
  <2>1. ~r.large /\ \A k \in 1 .. n : table[k].base = ChunkBase(i) => k = x
    BY <1>1, <1>6, <1>10, ChunkEntry
  <2>2. ChunkAt(ChunkBase(i)) = i /\ arena_contains(ChunkBase(i))
    BY ChunkPlace
  <2> QED BY <1>10, <2>1, <2>2
<1>11. chunk => c \in Chunks /\ r.base = ChunkBase(c)
  <2> SUFFICES ASSUME chunk PROVE c \in Chunks /\ r.base = ChunkBase(c)
    OBVIOUS
  <2>1. r.base \in Cells(r)
    BY <1>6 DEF Cells
  <2>2. PICK i \in Chunks : r = Normal(ChunkBase(i))
    BY <1>6, <2>1 DEF ChunkOrOutside
  <2>3. r.base = ChunkBase(i)
    BY <2>2 DEF Normal
  <2> QED BY <1>10, <2>3
<1>12. ri2 \in [Chunks -> Nat] /\ \A i \in Chunks : ri2[i] = IF chunk /\ i = c THEN 0 ELSE ri[i]
  <2> HIDE DEF chunk, c
  <2> QED BY <1>1, <1>11
<1> HIDE DEF chunk, c, r, ri2
<1>13. map \in [Chunks -> Nat] /\ ChunkMapSound(t, map)
  <2>1. x \in Nat /\ x # 0
    BY <1>6
  <2>2. ASSUME NEW i \in Chunks, NEW k \in DOMAIN t, k < x, t[k].base = ChunkBase(i) PROVE ri2[i] = k
    <3>1. k \in 1 .. n /\ k # x /\ table[k].base = ChunkBase(i)
      BY <1>6, <1>8, <2>2
    <3>2. ri[i] = k
      BY <1>1, <1>6, <3>1 DEF ChunkMapSound
    <3>3. ~(chunk /\ i = c)
      BY <1>10, <1>11, <3>1
    <3> QED BY <1>12, <3>2, <3>3
  <2>3. ASSUME NEW i \in Chunks, ri2[i] # 0
        PROVE  \/ ri2[i] < x /\ ri2[i] \in DOMAIN t /\ t[ri2[i]].base = ChunkBase(i)
               \/ \E k \in DOMAIN t : k >= x /\ t[k].base = ChunkBase(i)
    <3> DEFINE k == ri2[i]
    <3>1. k = ri[i] /\ ~(chunk /\ i = c)
      BY <1>12, <2>3
    <3>2. k \in 1 .. n /\ table[k].base = ChunkBase(i)
      BY <1>1, <1>6, <2>3, <3>1 DEF ChunkMapSound
    <3>3. k # x
      BY <1>10, <3>1, <3>2 DEF r
    <3> HIDE DEF k
    <3>4. CASE k < x
      BY <1>9, <3>2, <3>4 DEF k
    <3>5. CASE k > x
      BY <1>9, <3>2, <3>5
    <3> QED BY <1>6, <3>2, <3>3, <3>4, <3>5
  <2>4. /\ TableSound(t) /\ ri2 \in [Chunks -> Nat] /\ map = arena_reindex_from(ri2, t, x)
        /\ \A i \in Chunks, k \in DOMAIN t : k < x /\ t[k].base = ChunkBase(i) => ri2[i] = k
        /\ \A i \in Chunks : ri2[i] # 0 =>
             \/ ri2[i] < x /\ ri2[i] \in DOMAIN t /\ t[ri2[i]].base = ChunkBase(i)
             \/ \E k \in DOMAIN t : k >= x /\ t[k].base = ChunkBase(i)
    BY <1>5, <1>7, <1>12, <2>2, <2>3
  <2> QED BY <2>1, <2>4, Reindexed
<1>14. BoundsSound(t, st.bounds)
  BY <1>1, <1>6, <1>8 DEF BoundsSound
<1>15. ASSUME NEW i, Unused(table, i) PROVE Unused(t, i)
  BY <1>6, <1>8, <1>15 DEF Unused
<1>16. rc2 \in Seq(Chunks) /\ FreeSound(t, nx, rc2)
  <2>1. CASE ~chunk
    <3>1. rc2 = rc
      BY <2>1
    <3> QED BY <1>1, <1>15, <3>1 DEF FreeSound
  <2>2. CASE chunk
    <3>1. c \in Chunks /\ r.base = ChunkBase(c) /\ rc2 = Append(rc, c)
      BY <1>11, <2>2
    <3> DEFINE m == Len(rc)
    <3>2. /\ m \in Nat /\ DOMAIN rc = 1 .. m /\ rc2 \in Seq(Chunks) /\ DOMAIN rc2 = 1 .. m + 1
          /\ rc2[m + 1] = c /\ \A j \in 1 .. m : rc2[j] = rc[j]
      BY <1>1, <3>1
    <3>3. ~Unused(table, c)
      BY <1>6, <3>1 DEF Unused, r
    <3>4. Unused(t, c)
      <4>1. \A k \in 1 .. n : table[k].base = ChunkBase(c) => k = x
        BY <1>10, <3>1
      <4> QED BY <1>8, <4>1 DEF Unused
    <3>5. c < nx
      <4>1. ~(c >= nx)
        BY <1>1, <3>1, <3>3 DEF FreeSound
      <4>2. c \in Int
        BY <3>1, RtAssumption DEF Chunks
      <4> QED BY <1>1, <4>1, <4>2
    <3>6. \A j \in 1 .. m : rc[j] # c /\ rc[j] < nx /\ Unused(t, rc[j])
      BY <1>1, <1>15, <3>2, <3>3 DEF FreeSound
    <3>7. \A j \in 1 .. m + 1 : j \in 1 .. m \/ j = m + 1
      BY <3>2
    <3> HIDE DEF m, rc2
    <3>8. \A j \in DOMAIN rc2 : rc2[j] < nx /\ Unused(t, rc2[j])
      BY <3>2, <3>4, <3>5, <3>6, <3>7
    <3>9. \A i, j \in DOMAIN rc2 : rc2[i] = rc2[j] => i = j
      <4>1. \A i, j \in 1 .. m : rc[i] = rc[j] => i = j
        BY <1>1, <3>2 DEF FreeSound
      <4> QED BY <3>2, <3>6, <3>7, <4>1
    <3>10. \A i \in Chunks : i >= nx => Unused(t, i)
      BY <1>1, <1>15 DEF FreeSound
    <3> QED BY <3>2, <3>8, <3>9, <3>10 DEF FreeSound
  <2> QED BY <2>1, <2>2
<1> HIDE DEF rc2, nx, cm
<1>17. RtSound(u)
  BY ONLY <1>1, <1>4, <1>7, <1>13, <1>14, <1>16, RtMade
<1>18. u.table = t
  BY <1>4
<1> QED BY <1>7, <1>17, <1>18 DEF n, table

-----------------------------------------------------------------------------
(* Releasing the regions a sweep found empty *)

\* The states of the sweep's walk down the table.
Releasing(dead) == {s \in [st : RtStates, at : Int, dead : {dead}] : RtSound(s.st) /\ s.at <= Len(s.st.table)}

(* One turn of the walk.                                                    *)
LEMMA ReleaseTurnKeeps ==
  ASSUME NEW dead \in SUBSET (Nat \ {0}), NEW s \in Releasing(dead), NEW u, u = ReleaseTurn(s)
  PROVE  u \in Releasing(dead)
<1> DEFINE st == s.st
           x == s.at
           v == IF x \in dead THEN ReleaseAt(st, x) ELSE st
<1>1. /\ RtSound(st) /\ x \in Int /\ x <= Len(st.table)
      /\ s = [st |-> st, at |-> x, dead |-> dead]
  BY DEF Releasing
<1>2. u = [s EXCEPT !.st = IF s.at \in s.dead THEN ReleaseAt(@, s.at) ELSE @, !.at = @ - 1]
  BY DEF ReleaseTurn
<1>3. Len(st.table) \in Nat /\ DOMAIN st.table = 1 .. Len(st.table)
  BY <1>1, RtFacts, TableFacts
<1> HIDE DEF st, x
<1>4. u = [st |-> v, at |-> x - 1, dead |-> dead]
  <2>1. s.st = st /\ s.at = x /\ s.dead = dead
    BY <1>1
  <2>2. u = [s EXCEPT !.st = v, !.at = x - 1]
    BY <1>2, <2>1
  <2> HIDE DEF v
  <2> QED BY <1>1, <2>2
<1>5. RtSound(v) /\ x - 1 <= Len(v.table)
  <2>1. CASE x \in dead
    <3>1. x \in DOMAIN st.table
      BY <1>1, <1>3, <2>1
    <3>2. v = ReleaseAt(st, x)
      BY <2>1
    <3> HIDE DEF v
    <3>3. RtSound(v) /\ Len(v.table) = Len(st.table) - 1
      BY <1>1, <3>1, <3>2, ReleaseKeeps
    <3> QED BY <1>1, <1>3, <3>3
  <2>2. CASE x \notin dead
    BY <1>1, <1>3, <2>2
  <2> QED BY <2>1, <2>2
<1> HIDE DEF v
<1>6. v \in RtStates /\ x - 1 \in Int
  BY <1>1, <1>5 DEF RtSound
<1> QED BY <1>4, <1>5, <1>6 DEF Releasing

ReleaseRun(x, k) == After(ReleaseTurn, x, k)

(* The walk, turn after turn.                                               *)
LEMMA ReleaseLoop ==
  ASSUME NEW dead \in SUBSET (Nat \ {0}), NEW x \in Releasing(dead)
  PROVE  \A k \in Nat : ReleaseRun(x, k) \in Releasing(dead)
<1> DEFINE S == Releasing(dead)
           F == [s \in S |-> ReleaseTurn(s)]
           Run(g) == g = [k \in Nat |-> IF k = 0 THEN x ELSE ReleaseTurn(g[k - 1])]
           run == CHOOSE g : Run(g)
<1> HIDE DEF S
<1>1. F \in [S -> S] /\ \A s \in S : F[s] = ReleaseTurn(s)
  BY ReleaseTurnKeeps DEF S
<1> HIDE DEF F
<1>2. PICK g \in [Nat -> S] : g[0] = x /\ \A k \in Nat : g[k + 1] = F[g[k]]
  <2>1. x \in S /\ F \in [S -> S]
    BY <1>1 DEF S
  <2>2. RunsOf(S, F, x) # {}
    BY <2>1, Iterate
  <2> QED BY <2>2 DEF RunsOf
<1>3. Run(g)
  <2>1. ASSUME NEW k \in Nat PROVE g[k] = IF k = 0 THEN x ELSE ReleaseTurn(g[k - 1])
    <3>1. CASE k # 0
      <4>1. k - 1 \in Nat /\ (k - 1) + 1 = k
        BY <3>1
      <4>2. g[(k - 1) + 1] = F[g[k - 1]]
        BY <1>2, <4>1
      <4> QED BY <1>1, <1>2, <3>1, <4>1, <4>2
    <3> QED BY <1>2, <3>1
  <2> QED BY <2>1
<1>4. Run(run)
  BY <1>3
<1>5. \A k : ReleaseRun(x, k) = run[k]
  BY DEF After, ReleaseRun
<1> HIDE DEF run
<1>6. run[0] = x /\ \A k \in Nat : run[k + 1] = ReleaseTurn(run[k])
  BY <1>4
<1> DEFINE T == {k \in Nat : run[k] \in S}
<1>7. 0 \in T /\ \A k \in Nat : k \in T => k + 1 \in T
  <2>1. x \in S /\ \A y \in S : ReleaseTurn(y) \in S
    BY <1>1 DEF S
  <2>2. 0 \in T
    BY <1>6, <2>1
  <2>3. ASSUME NEW k \in Nat, k \in T PROVE k + 1 \in T
    <3>1. run[k] \in S /\ run[k + 1] = ReleaseTurn(run[k])
      BY <1>6, <2>3
    <3>2. run[k + 1] \in S /\ k + 1 \in Nat
      BY <2>1, <3>1
    <3> QED BY <3>2
  <2> QED BY <2>2, <2>3
<1> HIDE DEF T
<1>8. Nat \subseteq T
  BY <1>7, Induct
<1> QED BY <1>5, <1>8 DEF T, S

(* Whatever regions a sweep releases, the state stays sound.                *)
LEMMA ReleasedSound ==
  ASSUME RtInv, NEW dead \in SUBSET DOMAIN rtTable, NEW st, st = ReleaseRegions(dead)
  PROVE  RtSound(st)
<1> DEFINE n == Len(rtTable)
           x == [st |-> State, at |-> n, dead |-> dead]
<1>1. RtSound(State) /\ State.table = rtTable
  BY DEF RtInv, State
<1>2. n \in Nat /\ DOMAIN rtTable = 1 .. n
  BY <1>1, RtFacts, TableFacts
<1>3. dead \in SUBSET (Nat \ {0})
  BY <1>2
<1>4. State \in RtStates
  BY <1>1 DEF RtSound
<1>5. x \in Releasing(dead)
  <2> HIDE DEF n
  <2>1. n <= Len(State.table)
    BY <1>1, <1>2 DEF n
  <2> QED BY <1>1, <1>2, <1>4, <2>1 DEF Releasing
<1>6. st = ReleaseRun(x, n).st
  BY DEF ReleaseRegions, ReleaseRun
<1> HIDE DEF x, n
<1>7. ReleaseRun(x, n) \in Releasing(dead)
  BY <1>2, <1>3, <1>5, ReleaseLoop
<1> QED BY <1>6, <1>7 DEF Releasing

-----------------------------------------------------------------------------
(* Opening a region *)

(* Regions without a common address lie clear of each other.                *)
LEMMA ClearWhen ==
  ASSUME NEW table, TableSound(table), NEW r \in Regions,
         \A k \in DOMAIN table : \A p \in Int : ~(p \in Cells(table[k]) /\ p \in Cells(r))
  PROVE  Clear(table, r)
<1> SUFFICES ASSUME NEW k \in DOMAIN table
             PROVE  table[k].base + table[k].cap <= r.base \/ r.base + r.cap <= table[k].base
  BY DEF Clear
<1>1. /\ table[k].base \in Nat /\ table[k].cap \in Nat /\ table[k].cap # 0
      /\ r.base \in Nat /\ r.cap \in Nat /\ r.cap # 0
  BY TableFacts DEF Regions
<1> DEFINE p == IF table[k].base < r.base THEN r.base ELSE table[k].base
<1>2. ASSUME ~(table[k].base + table[k].cap <= r.base \/ r.base + r.cap <= table[k].base) PROVE FALSE
  <2>1. p \in Int /\ p \in table[k].base .. table[k].base + table[k].cap - 1 /\ p \in r.base .. r.base + r.cap - 1
    BY <1>1, <1>2
  <2> HIDE DEF p
  <2> QED BY <2>1 DEF Cells
<1> QED BY <1>2

(* A block malloc returned.                                                 *)
LEMMA MallocKeeps ==
  ASSUME NEW st, RtSound(st), NEW cap \in Nat \ {0}, NEW b \in Mallocs(st, cap), NEW large \in BOOLEAN,
         NEW u, u = region_table_insert(st, [base |-> b, cap |-> cap, large |-> large])
  PROVE  RtSound(u)
<1> DEFINE r == [base |-> b, cap |-> cap, large |-> large]
<1>1. /\ b \in Nat
      /\ \A p \in b .. b + cap - 1 : ~arena_contains(p) /\ \A x \in Range(st.table) : p \notin Cells(x)
  BY RtAssumption DEF Mallocs
<1>2. r \in Regions /\ Cells(r) = b .. b + cap - 1 /\ r.base = b
  BY <1>1 DEF Regions, Cells
<1>3. u = region_table_insert(st, r)
  OBVIOUS
<1> HIDE DEF r
<1>4. ChunkOrOutside(r)
  BY <1>1, <1>2 DEF ChunkOrOutside
<1>5. /\ TableSound(st.table) /\ Len(st.table) \in Nat /\ DOMAIN st.table = 1 .. Len(st.table)
      /\ st.arena.recycled \in Seq(Chunks)
  BY RtFacts, TableFacts
<1>6. \A k \in DOMAIN st.table : st.table[k] \in Range(st.table)
  BY DEF Range
<1>7. Clear(st.table, r)
  BY <1>1, <1>2, <1>5, <1>6, ClearWhen
<1>8. ASSUME NEW i \in Chunks PROVE r.base # ChunkBase(i)
  <2>1. b \in b .. b + cap - 1
    BY <1>1
  <2>2. arena_contains(ChunkBase(i))
    BY ChunkPlace
  <2> QED BY <1>1, <1>2, <2>1, <2>2
<1>9. \A j \in DOMAIN st.arena.recycled : st.arena.recycled[j] \in Chunks
  BY <1>5
<1> QED BY <1>2, <1>3, <1>4, <1>7, <1>8, <1>9, InsertKeeps

(* A chunk nobody has, handed out.                                          *)
LEMMA ChunkKeeps ==
  ASSUME NEW st, RtSound(st), NEW i \in Chunks, Unused(st.table, i), i < st.arena.next,
         \A j \in DOMAIN st.arena.recycled : st.arena.recycled[j] # i,
         NEW u, u = region_table_insert(st, Normal(ChunkBase(i)))
  PROVE  RtSound(u)
<1> DEFINE r == Normal(ChunkBase(i))
<1>1. ChunkBase(i) \in Nat /\ ChunkSize \in Nat /\ ChunkSize # 0 /\ ArenaChunks \in Nat /\ i \in Int
  BY ChunkPlace, RtAssumption DEF Chunks
<1>2. /\ r \in Regions /\ Cells(r) = ChunkBase(i) .. ChunkBase(i) + ChunkSize - 1 /\ r.base = ChunkBase(i)
      /\ ChunkOrOutside(r)
  BY <1>1 DEF Regions, Cells, Normal, ChunkOrOutside
<1>3. u = region_table_insert(st, r)
  OBVIOUS
<1> HIDE DEF r
<1>4. TableSound(st.table) /\ st.arena.recycled \in Seq(Chunks) /\ st.arena.next \in Nat
  BY RtFacts
<1>5. ASSUME NEW k \in DOMAIN st.table, NEW p \in Int, p \in Cells(st.table[k]), p \in Cells(r) PROVE FALSE
  <2>1. arena_contains(p)
    BY <1>2, <1>5, ChunkPlace
  <2>2. ChunkOrOutside(st.table[k])
    BY <1>4, TableFacts
  <2>3. PICK j \in Chunks : st.table[k] = Normal(ChunkBase(j))
    BY <1>5, <2>1, <2>2 DEF ChunkOrOutside
  <2>4. st.table[k].base = ChunkBase(j) /\ Cells(st.table[k]) = ChunkBase(j) .. ChunkBase(j) + ChunkSize - 1
    BY <2>3 DEF Normal, Cells
  <2>5. i = ChunkAt(p) /\ j = ChunkAt(p)
    BY <1>2, <1>5, <2>1, <2>4, ChunkOf
  <2> QED BY <2>4, <2>5 DEF Unused
<1>6. Clear(st.table, r)
  BY <1>2, <1>4, <1>5, ClearWhen
<1>7. ASSUME NEW j \in Chunks, j # i PROVE r.base # ChunkBase(j)
  BY <1>2, <1>7, ChunkPlace
<1>8. \A j \in Chunks : j >= st.arena.next => j # i
  BY <1>1, <1>4 DEF Chunks
<1>9. \A j \in DOMAIN st.arena.recycled : st.arena.recycled[j] \in Chunks
  BY <1>4
<1> QED BY <1>2, <1>3, <1>6, <1>7, <1>8, <1>9, InsertKeeps

(* The last entry of a stack and the stack without it.                      *)
LEMMA Popped ==
  ASSUME NEW S, NEW s \in Seq(S), s # <<>>, NEW f, f = Front(s), NEW e, e = Last(s)
  PROVE  /\ f \in Seq(S) /\ Len(s) \in Nat /\ Len(s) >= 1 /\ DOMAIN s = 1 .. Len(s) /\ DOMAIN f = 1 .. Len(s) - 1
         /\ e = s[Len(s)] /\ e \in S /\ \A k \in DOMAIN f : f[k] = s[k]
<1> DEFINE n == Len(s)
<1>1. n \in Nat /\ DOMAIN s = 1 .. n /\ n >= 1
  BY EmptySeq
<1>2. f = SubSeq(s, 1, n - 1) /\ e = s[n]
  BY DEF Front, Last
<1>3. 1 \in Int /\ n - 1 \in Int /\ (\A k \in 1 .. n - 1 : s[k] \in S) /\ (n - 1) - 1 + 1 = n - 1
  BY <1>1
<1> HIDE DEF n
<1>4. /\ SubSeq(s, 1, n - 1) \in Seq(S)
      /\ Len(SubSeq(s, 1, n - 1)) = IF 1 <= n - 1 THEN (n - 1) - 1 + 1 ELSE 0
      /\ \A k \in 1 .. (n - 1) - 1 + 1 : SubSeq(s, 1, n - 1)[k] = s[1 + k - 1]
  BY <1>3, SubSeqProperties
<1>5. (IF 1 <= n - 1 THEN (n - 1) - 1 + 1 ELSE 0) = n - 1 /\ \A k \in 1 .. n - 1 : 1 + k - 1 = k
  BY <1>1
<1>6. f \in Seq(S) /\ Len(f) = n - 1 /\ \A k \in 1 .. n - 1 : f[k] = s[k]
  BY <1>2, <1>3, <1>4, <1>5
<1>7. DOMAIN f = 1 .. n - 1
  BY <1>6
<1>8. e \in S
  BY <1>1, <1>2
<1> QED BY <1>1, <1>2, <1>6, <1>7, <1>8 DEF n

\* The chunk handed out is the last recycled or the next one; what is left, and the arena with it.
Hands(a, i, recycled, next) ==
  \/ a.recycled # <<>> /\ i = Last(a.recycled) /\ recycled = Front(a.recycled) /\ next = a.next
  \/ a.recycled = <<>> /\ a.next < ArenaChunks /\ i = a.next /\ recycled = a.recycled /\ next = a.next + 1
Handed(a, recycled, next, committed) == [next |-> next, recycled |-> recycled, committed |-> committed, ri |-> a.ri]
HandedOut(st, recycled, next, committed) == [st EXCEPT !.arena = Handed(st.arena, recycled, next, committed)]
HandsOut(st, i, recycled, next, committed, u) ==
  Hands(st.arena, i, recycled, next) /\ committed \in SUBSET Chunks /\ u = HandedOut(st, recycled, next, committed)

(* A chunk handed out is nobody's: taken from the stack or from the end, it *)
(* is no longer free.                                                       *)
LEMMA HandedSound ==
  ASSUME NEW st, RtSound(st), NEW i, NEW recycled, NEW next, NEW committed, NEW u,
         HandsOut(st, i, recycled, next, committed, u)
  PROVE  /\ RtSound(u) /\ u.table = st.table /\ u.arena = Handed(st.arena, recycled, next, committed)
         /\ i \in Chunks /\ Unused(u.table, i) /\ i < next /\ \A j \in DOMAIN recycled : recycled[j] # i
<1> DEFINE a == st.arena
           table == st.table
           rc == a.recycled
           nx == a.next
           b == st.bounds
           ri == a.ri
           h == Handed(a, recycled, next, committed)
<1>1. /\ TableSound(table) /\ ChunkMapSound(table, ri) /\ BoundsSound(table, b) /\ FreeSound(table, nx, rc)
      /\ nx \in Nat /\ rc \in Seq(Chunks) /\ ri \in [Chunks -> Nat]
      /\ st = [table |-> table, arena |-> st.arena, bounds |-> b]
  BY RtFacts
<1>2. ArenaChunks \in Nat /\ \A j \in Chunks : j \in Nat
  BY RtAssumption DEF Chunks
<1>3. u = [st EXCEPT !.arena = h]
  BY DEF HandsOut, HandedOut
<1> HIDE DEF table, b, rc, nx, ri, h
<1>4. u = [table |-> table, bounds |-> b, arena |-> h]
  BY <1>1, <1>3
<1>5. h = [next |-> next, recycled |-> recycled, committed |-> committed, ri |-> ri]
  BY DEF h, ri, Handed
<1>6. /\ recycled \in Seq(Chunks) /\ next \in Nat /\ FreeSound(table, next, recycled)
      /\ i \in Chunks /\ Unused(table, i) /\ i < next /\ \A j \in DOMAIN recycled : recycled[j] # i
  <2>1. CASE rc # <<>> /\ i = Last(rc) /\ recycled = Front(rc) /\ next = nx
    <3> DEFINE m == Len(rc)
    <3>1. /\ recycled \in Seq(Chunks) /\ m \in Nat /\ m >= 1 /\ DOMAIN rc = 1 .. m /\ DOMAIN recycled = 1 .. m - 1
          /\ i = rc[m] /\ i \in Chunks /\ \A k \in DOMAIN recycled : recycled[k] = rc[k]
      BY <1>1, <2>1, Popped
    <3> HIDE DEF m
    <3>2. m \in DOMAIN rc /\ \A k \in DOMAIN recycled : k \in DOMAIN rc /\ k # m
      BY <3>1
    <3>3. FreeSound(table, next, recycled)
      BY <1>1, <2>1, <3>1, <3>2 DEF FreeSound
    <3>4. Unused(table, i) /\ i < next
      BY <1>1, <2>1, <3>1, <3>2 DEF FreeSound
    <3>5. \A j \in DOMAIN recycled : recycled[j] # i
      BY <1>1, <3>1, <3>2 DEF FreeSound
    <3> QED BY <1>1, <2>1, <3>1, <3>3, <3>4, <3>5
  <2>2. CASE rc = <<>> /\ nx < ArenaChunks /\ i = nx /\ recycled = rc /\ next = nx + 1
    <3>1. i \in Chunks /\ next \in Nat /\ i < next /\ i >= nx
      BY <1>1, <1>2, <2>2 DEF Chunks
    <3>2. Unused(table, i)
      BY <1>1, <3>1 DEF FreeSound
    <3>3. DOMAIN recycled = {}
      BY <2>2
    <3>4. \A j \in Chunks : j >= next => j >= nx
      BY <1>1, <1>2, <2>2
    <3>5. FreeSound(table, next, recycled)
      BY <1>1, <3>3, <3>4 DEF FreeSound
    <3> QED BY <1>1, <2>2, <3>1, <3>2, <3>3, <3>5
  <2> QED BY <2>1, <2>2 DEF rc, nx, Hands, HandsOut
<1>7. u = [table |-> table, bounds |-> b,
           arena |-> [next |-> next, recycled |-> recycled, committed |-> committed, ri |-> ri]]
  BY <1>4, <1>5
<1>8. RtSound(u)
  <2>1. committed \in SUBSET Chunks
    BY DEF HandsOut
  <2> QED BY ONLY <1>1, <1>6, <1>7, <2>1, RtMade
<1>9. u.table = table /\ u.arena = h
  BY <1>4
<1> QED BY <1>6, <1>8, <1>9 DEF table, h

(* open_new_region leaves a sound state, whether it took a recycled chunk,  *)
(* the next one or a malloc'd block.                                        *)
LEMMA OpenedSound ==
  ASSUME NEW st, RtSound(st), NEW u \in Opened(st)
  PROVE  RtSound(u)
<1> DEFINE a == st.arena
           none == a.recycled = <<>> /\ a.next >= ArenaChunks
           idx == IF a.recycled # <<>> THEN Last(a.recycled) ELSE a.next
           taken == IF none THEN a
                    ELSE IF a.recycled # <<>> THEN [a EXCEPT !.recycled = Front(@)]
                    ELSE [a EXCEPT !.next = @ + 1]
           recycled == IF a.recycled # <<>> THEN Front(a.recycled) ELSE a.recycled
           next == IF a.recycled # <<>> THEN a.next ELSE a.next + 1
<1>1. /\ a = [next |-> a.next, recycled |-> a.recycled, committed |-> a.committed, ri |-> a.ri]
      /\ a.next \in Nat /\ a.committed \in SUBSET Chunks
      /\ st = [table |-> st.table, arena |-> a, bounds |-> st.bounds]
  BY RtFacts
<1>2. \/ ~none /\ u = region_table_insert([st EXCEPT !.arena = [taken EXCEPT !.committed = @ \cup {idx}]],
                                          Normal(ChunkBase(idx)))
      \/ \E b \in Mallocs(st, ChunkSize) : u = region_table_insert([st EXCEPT !.arena = taken], Normal(b))
  BY DEF Opened
<1>3. ChunkSize \in Nat \ {0} /\ ArenaChunks \in Nat
  BY RtAssumption
<1>4. ASSUME ~none
      PROVE  /\ taken = Handed(a, recycled, next, a.committed)
             /\ [taken EXCEPT !.committed = @ \cup {idx}] = Handed(a, recycled, next, a.committed \cup {idx})
             /\ Hands(a, idx, recycled, next)
  <2>1. taken = [next |-> next, recycled |-> recycled, committed |-> a.committed, ri |-> a.ri]
    <3>1. CASE a.recycled # <<>>
      <4>1. taken = [a EXCEPT !.recycled = Front(@)] /\ recycled = Front(a.recycled) /\ next = a.next
        BY <1>4, <3>1
      <4> HIDE DEF taken, recycled, next, a
      <4> QED BY <1>1, <4>1
    <3>2. CASE a.recycled = <<>>
      <4>1. taken = [a EXCEPT !.next = @ + 1] /\ recycled = a.recycled /\ next = a.next + 1
        BY <1>4, <3>2
      <4> HIDE DEF taken, recycled, next, a
      <4> QED BY <1>1, <4>1
    <3> QED BY <3>1, <3>2
  <2>2. Hands(a, idx, recycled, next)
    BY <1>1, <1>3, <1>4 DEF Hands
  <2> HIDE DEF taken, recycled, next, a, idx
  <2>3. [taken EXCEPT !.committed = @ \cup {idx}]
          = [next |-> next, recycled |-> recycled, committed |-> a.committed \cup {idx}, ri |-> a.ri]
    BY <2>1
  <2> QED BY <2>1, <2>2, <2>3 DEF Handed
<1>5. a = st.arena
  OBVIOUS
<1> HIDE DEF a, idx, taken, recycled, next
<1>6. CASE ~none /\ u = region_table_insert([st EXCEPT !.arena = [taken EXCEPT !.committed = @ \cup {idx}]],
                                            Normal(ChunkBase(idx)))
  <2> DEFINE cm == a.committed \cup {idx}
             v == HandedOut(st, recycled, next, cm)
             w == HandedOut(st, recycled, next, a.committed)
  <2>1. u = region_table_insert(v, Normal(ChunkBase(idx)))
    BY <1>4, <1>5, <1>6 DEF HandedOut
  <2>2. idx \in Chunks
    <3>1. w = HandedOut(st, recycled, next, a.committed)
      OBVIOUS
    <3> DEFINE c0 == a.committed
    <3> HIDE DEF w, none
    <3>2. RtSound(st) /\ HandsOut(st, idx, recycled, next, c0, w)
      BY <1>1, <1>4, <1>5, <1>6, <3>1 DEF HandsOut
    <3> HIDE DEF c0
    <3> QED BY ONLY <3>2, HandedSound
  <2>3. cm \in SUBSET Chunks
    BY <1>1, <2>2
  <2>4. v = HandedOut(st, recycled, next, cm)
    OBVIOUS
  <2> HIDE DEF v, w, cm, none
  <2>5. /\ RtSound(v) /\ v.table = st.table /\ v.arena = Handed(st.arena, recycled, next, cm)
        /\ Unused(v.table, idx) /\ idx < next /\ \A j \in DOMAIN recycled : recycled[j] # idx
    <3>1. RtSound(st) /\ HandsOut(st, idx, recycled, next, cm, v)
      BY <1>4, <1>5, <1>6, <2>3, <2>4 DEF HandsOut
    <3> QED BY ONLY <3>1, HandedSound
  <2>6. v.arena.next = next /\ v.arena.recycled = recycled
    BY <2>5 DEF Handed
  <2> QED BY <2>1, <2>2, <2>5, <2>6, ChunkKeeps
<1>7. CASE \E b \in Mallocs(st, ChunkSize) : u = region_table_insert([st EXCEPT !.arena = taken], Normal(b))
  <2>1. PICK b \in Mallocs(st, ChunkSize) : u = region_table_insert([st EXCEPT !.arena = taken], Normal(b))
    BY <1>7
  <2> DEFINE v == [st EXCEPT !.arena = taken]
  <2>2. RtSound(v) /\ v.table = st.table
    <3>1. CASE none
      <4>1. taken = a
        BY <3>1 DEF taken
      <4>2. v = st
        BY <1>1, <4>1
      <4> QED BY <4>2
    <3>2. CASE ~none
      <4>1. v = HandedOut(st, recycled, next, a.committed)
        BY <1>4, <1>5, <3>2 DEF HandedOut
      <4> HIDE DEF v, none
      <4> DEFINE cm == a.committed
      <4>2. RtSound(st) /\ HandsOut(st, idx, recycled, next, cm, v)
        BY <1>1, <1>4, <1>5, <3>2, <4>1 DEF HandsOut
      <4> HIDE DEF cm
      <4> QED BY ONLY <4>2, HandedSound
    <3> QED BY <3>1, <3>2
  <2>3. u = region_table_insert(v, [base |-> b, cap |-> ChunkSize, large |-> FALSE])
    BY <2>1 DEF Normal
  <2> HIDE DEF v
  <2>4. b \in Mallocs(v, ChunkSize)
    BY <2>2 DEF Mallocs
  <2> QED BY <1>3, <2>2, <2>3, <2>4, MallocKeeps
<1> QED BY <1>2, <1>6, <1>7

-----------------------------------------------------------------------------
(* The steps *)

(* Before the first region the state is sound.                              *)
LEMMA RtInitially == RtInit => RtInv
<1> SUFFICES ASSUME RtInit PROVE RtInv
  OBVIOUS
<1> DEFINE ri == [i \in 0 .. ArenaChunks - 1 |-> 0]
           b == [lo |-> 0, span |-> 0]
           none == <<>>
<1>1. State = [table |-> none, bounds |-> b, arena |-> [next |-> 0, recycled |-> none, committed |-> {}, ri |-> ri]]
  BY DEF RtInit, State
<1>2. ri \in [Chunks -> Nat] /\ (\A i \in Chunks : ri[i] = 0) /\ b \in [lo : Nat, span : Nat]
  BY DEF Chunks
<1>3. none \in Seq(Regions) /\ none \in Seq(Chunks) /\ DOMAIN none = {}
  OBVIOUS
<1> HIDE DEF ri, b, none
<1>4. TableSound(none)
  BY <1>3 DEF TableSound
<1>5. ChunkMapSound(none, ri)
  BY <1>2, <1>3 DEF ChunkMapSound
<1>6. FreeSound(none, 0, none)
  BY <1>3 DEF FreeSound, Unused
<1>7. BoundsSound(none, b)
  BY <1>2, <1>3 DEF BoundsSound
<1>8. 0 \in Nat /\ {} \in SUBSET Chunks
  OBVIOUS
<1>9. RtSound(State)
  BY ONLY <1>1, <1>2, <1>3, <1>4, <1>5, <1>6, <1>7, <1>8, RtMade
<1> QED BY <1>9 DEF RtInv

(* A step to a sound state keeps the invariant.                             *)
LEMMA Became ==
  ASSUME NEW st, RtSound(st), Becomes(st)
  PROVE  RtInv'
<1>1. st = [table |-> st.table, arena |-> st.arena, bounds |-> st.bounds]
  BY RtFacts
<1>2. State' = st
  BY <1>1 DEF Becomes, State
<1>3. RtSound(State')
  BY <1>2
<1> QED BY <1>3 DEF RtInv, RtSound, RtStates, Arenas, Regions, TableSound, ChunkMapSound, FreeSound, BoundsSound,
           Unused, ChunkOrOutside, Chunks, Normal, Cells, ChunkBase, arena_contains, ArenaEnd

(* Every step of the runtime keeps the table, the chunk map, the free       *)
(* chunks and the bounds in agreement.                                      *)
LEMMA RtStep == RtInv /\ [RtNext]_rtVars => RtInv'
<1> SUFFICES ASSUME RtInv, [RtNext]_rtVars PROVE RtInv'
  OBVIOUS
<1>1. RtSound(State)
  BY DEF RtInv
<1>2. CASE open_new_region
  BY <1>1, <1>2, OpenedSound, Became DEF open_new_region
<1>3. CASE alloc_large
  <2>1. PICK cap \in {1, ChunkSize + 1} : \E b \in Mallocs(State, cap) :
          Becomes(region_table_insert(State, [base |-> b, cap |-> cap, large |-> TRUE]))
    BY <1>3 DEF alloc_large
  <2>2. PICK b \in Mallocs(State, cap) : Becomes(region_table_insert(State, [base |-> b, cap |-> cap, large |-> TRUE]))
    BY <2>1
  <2>3. cap \in Nat \ {0}
    BY RtAssumption
  <2>4. RtSound(region_table_insert(State, [base |-> b, cap |-> cap, large |-> TRUE]))
    BY <1>1, <2>3, MallocKeeps
  <2> QED BY <2>2, <2>4, Became
<1>4. CASE sweep_release
  <2>1. PICK dead \in SUBSET DOMAIN rtTable :
          LET st == ReleaseRegions(dead)
          IN IF \A r \in Range(st.table) : r.large
             THEN Len(st.table) < RtMax /\ \E opened \in Opened(st) : Becomes(opened)
             ELSE Becomes(st)
    BY <1>4 DEF sweep_release
  <2> DEFINE st == ReleaseRegions(dead)
  <2>2. Becomes(st) \/ \E opened \in Opened(st) : Becomes(opened)
    BY <2>1
  <2>3. st = ReleaseRegions(dead)
    OBVIOUS
  <2> HIDE DEF st
  <2>4. RtSound(st)
    BY <2>3, ReleasedSound
  <2> QED BY <2>2, <2>4, OpenedSound, Became
<1>5. CASE sweep_young_release
  <2>1. PICK dead \in SUBSET Large : Becomes(ReleaseRegions(dead))
    BY <1>5 DEF sweep_young_release
  <2>2. dead \in SUBSET DOMAIN rtTable
    BY DEF Large
  <2>3. RtSound(ReleaseRegions(dead))
    BY <2>2, ReleasedSound
  <2> QED BY <2>1, <2>3, Became
<1>6. CASE UNCHANGED rtVars
  <2>1. Becomes(State)
    BY <1>6 DEF rtVars, Becomes, State
  <2> QED BY <1>1, <2>1, Became
<1> QED BY <1>2, <1>3, <1>4, <1>5, <1>6 DEF RtNext

(* region_find (sprout_runtime.c:1574) answers every address with the       *)
(* region it lies in and only with that one, for any heap, whatever regions *)
(* were opened, released and reused, and whichever of its three paths, the  *)
(* chunk map, the bounds or the binary search, answers: correctness does    *)
(* not depend on the threshold between them (MinRegions).                   *)
THEOREM RegionLookups == RtSpec => []RegionFindExact
<1>1. RtInit => RtInv
  BY RtInitially
<1>2. RtInv /\ [RtNext]_rtVars => RtInv'
  BY RtStep
<1>3. RtInv => RegionFindExact
  BY FindExact
<1> QED BY <1>1, <1>2, <1>3, PTL DEF RtSpec

-----------------------------------------------------------------------------
(* The handle table *)

USE MaxGenAssumption, MaxSlotsAssumption, KindsAssumption

(* The empty table satisfies the invariant.                                 *)
LEMMA InitInv == Init => HandleInv
<1> SUFFICES ASSUME Init PROVE HandleInv
  OBVIOUS
<1>1. TypeOK
  <2>1. 0 .. g_handles_len - 1 = {}
    BY DEF Init
  <2>2. g_handles \in [{} -> Slot]
    BY DEF Init
  <2>3. g_handles_free \in Seq(Indices)
    BY DEF Init
  <2>4. g_handles_len \in 0 .. MaxSlots /\ lives \in Nat
    BY DEF Init
  <2>5. failed \in BOOLEAN /\ issued \subseteq Handle /\ live \subseteq issued
    BY DEF Init
  <2> QED BY <2>1, <2>2, <2>3, <2>4, <2>5 DEF TypeOK
<1>2. HandlesUnique /\ FreeListSound
  BY DEF Init, HandlesUnique, FreeListSound
<1>3. SlotsDescribed
  BY DEF Init, SlotsDescribed, Indices
<1> QED BY <1>1, <1>2, <1>3 DEF HandleInv

(* A live handle's slot holds its own record, field by field.               *)
LEMMA LiveSlot ==
  ASSUME HandleInv, NEW h \in live
  PROVE  /\ h \in issued /\ h \in Handle /\ h.idx \in Indices
         /\ g_handles[h.idx].ptr = h.life /\ h.life # NoLife
         /\ g_handles[h.idx].gen = h.gen /\ g_handles[h.idx].kind = h.kind
<1>1. h \in issued /\ h \in Handle /\ h.idx \in Indices
  BY DEF HandleInv, SlotsDescribed, TypeOK, Handle, Indices
<1>2. g_handles[h.idx] = [ptr |-> h.life, gen |-> h.gen, kind |-> h.kind]
  BY DEF HandleInv, SlotsDescribed
<1>3. h.life # NoLife
  BY <1>1 DEF Handle, Lives
<1> QED BY <1>1, <1>2, <1>3

(* Taking the head of the free list and appending a fresh slot both publish *)
(* a (gen, idx) pair that has not been issued.                              *)
LEMMA AllocReusedInv ==
  ASSUME HandleInv, NEW k \in Kinds, AllocReused(k)
  PROVE  HandleInv'
<1> DEFINE idx == Head(g_handles_free)
           gen == g_handles[idx].gen
           h == handle_make(gen, idx, k, lives + 1)
<1>1. idx \in Indices /\ idx = g_handles_free[1] /\ 1 \in 1 .. Len(g_handles_free)
  BY DEF HandleInv, TypeOK, AllocReused
<1>2. g_handles[idx] \in Slot /\ gen \in 1 .. MaxGen
  BY <1>1 DEF HandleInv, TypeOK, Indices, Slot
<1>3. h \in Handle /\ h.idx = idx /\ h.gen = gen /\ h.life = lives + 1 /\ h.kind = k
  BY <1>1, <1>2 DEF HandleInv, TypeOK, Handle, Lives, NoLife, handle_make, Indices
<1>4. \A o \in issued : o.idx = idx => o.gen < gen
  BY <1>1 DEF HandleInv, FreeListSound
<1>5. /\ issued' = issued \cup {h} /\ live' = live \cup {h} /\ lives' = lives + 1
      /\ g_handles' = [g_handles EXCEPT ![idx] = [ptr |-> lives + 1, gen |-> gen, kind |-> k]]
      /\ g_handles_len' = g_handles_len /\ g_handles_free' = Tail(g_handles_free)
      /\ failed' = failed
  BY <1>1 DEF AllocReused, Publish, HandleInv, TypeOK, Indices
<1>. HIDE DEF h, gen, idx
<1>6. TypeOK'
  BY <1>1, <1>2, <1>3, <1>5, SMTT(20) DEF HandleInv, TypeOK, Slot, Indices
<1>7. HandlesUnique'
  BY <1>3, <1>4, <1>5 DEF HandleInv, TypeOK, HandlesUnique, Handle
<1>8. FreeListSound'
  <2>1. \A i \in 1 .. Len(g_handles_free') :
           /\ i + 1 \in 1 .. Len(g_handles_free)
           /\ g_handles_free'[i] = g_handles_free[i + 1]
           /\ g_handles_free'[i] # idx
           /\ g_handles_free'[i] \in Indices
    BY <1>1, <1>5 DEF HandleInv, TypeOK, FreeListSound, AllocReused
  <2>2. \A i, j \in 1 .. Len(g_handles_free') :
           g_handles_free'[i] = g_handles_free'[j] => i = j
    <3> SUFFICES ASSUME NEW i \in 1 .. Len(g_handles_free'), NEW j \in 1 .. Len(g_handles_free'),
                        g_handles_free'[i] = g_handles_free'[j]
                 PROVE  i = j
      OBVIOUS
    <3>1. i + 1 = j + 1
      BY <2>1 DEF HandleInv, FreeListSound
    <3> QED BY <3>1
  <2>3. \A i \in 1 .. Len(g_handles_free') :
           /\ g_handles'[g_handles_free'[i]] = g_handles[g_handles_free[i + 1]]
           /\ \A o \in issued' : o.idx = g_handles_free'[i] => o \in issued
    BY <2>1, <1>3, <1>5 DEF HandleInv, TypeOK, Indices
  <2> QED
    BY <2>1, <2>2, <2>3 DEF HandleInv, FreeListSound
<1>9. SlotsDescribed'
  <2>1. \A o \in issued : o.idx \in Indices
    BY DEF HandleInv, SlotsDescribed, TypeOK, Handle, Indices
  <2>2. \A o \in live : o.idx # idx
    BY <1>1, LiveSlot DEF HandleInv, FreeListSound
  <2>3. \A o \in issued' :
          /\ o.idx < g_handles_len'
          /\ o.gen <= g_handles'[o.idx].gen
          /\ o.gen = g_handles'[o.idx].gen /\ o \notin live' => g_handles'[o.idx].ptr = NoLife
    BY <1>1, <1>2, <1>3, <1>4, <1>5, <2>1 DEF HandleInv, SlotsDescribed, TypeOK, Indices, Handle
  <2>4. \A o \in live' : g_handles'[o.idx] = [ptr |-> o.life, gen |-> o.gen, kind |-> o.kind]
    <3>1. \A o \in live : g_handles'[o.idx] = g_handles[o.idx]
      BY <1>1, <1>5, <2>1, <2>2 DEF HandleInv, TypeOK, Indices
    <3>2. g_handles'[idx] = [ptr |-> lives + 1, gen |-> gen, kind |-> k]
      BY <1>1, <1>5 DEF HandleInv, TypeOK, Indices
    <3> QED BY <3>1, <3>2, <1>3, <1>5 DEF HandleInv, SlotsDescribed
  <2>5. \A i \in Indices' : g_handles'[i].ptr # NoLife => \E o \in live' : o.idx = i
    <3> SUFFICES ASSUME NEW i \in Indices, g_handles'[i].ptr # NoLife
                 PROVE  \E o \in live' : o.idx = i
      BY <1>5 DEF Indices
    <3>1. CASE i = idx
      BY <3>1, <1>3, <1>5
    <3>2. CASE i # idx
      <4>1. g_handles'[i] = g_handles[i]
        BY <3>2, <1>5 DEF HandleInv, TypeOK, Indices
      <4> QED BY <4>1, <1>5 DEF HandleInv, SlotsDescribed
    <3> QED BY <3>1, <3>2
  <2> QED BY <2>3, <2>4, <2>5 DEF SlotsDescribed
<1> QED BY <1>6, <1>7, <1>8, <1>9 DEF HandleInv

(* handle_alloc off the end of the table keeps the invariant: no            *)
(* handle with the new index has been issued.                               *)
LEMMA AllocFreshInv ==
  ASSUME HandleInv, NEW k \in Kinds, AllocFresh(k)
  PROVE  HandleInv'
<1> DEFINE idx == g_handles_len
           h == handle_make(1, idx, k, lives + 1)
<1>1. /\ issued' = issued \cup {h} /\ live' = live \cup {h} /\ lives' = lives + 1
      /\ g_handles' = [i \in 0 .. idx |-> IF i = idx THEN [ptr |-> lives + 1, gen |-> 1, kind |-> k]
                                                     ELSE g_handles[i]]
      /\ g_handles_len' = idx + 1 /\ g_handles_free' = <<>> /\ g_handles_free = <<>>
      /\ failed' = failed /\ idx < MaxSlots /\ idx \in Nat
  <2>1. Indices \cup {idx} = 0 .. idx
    BY DEF HandleInv, TypeOK, Indices
  <2> QED BY <2>1 DEF AllocFresh, Publish, HandleInv, TypeOK
<1>2. h \in Handle /\ h.idx = idx /\ h.gen = 1 /\ h.life = lives + 1 /\ h.kind = k
  BY <1>1 DEF HandleInv, TypeOK, Handle, Lives, NoLife, handle_make
<1>3. \A o \in issued : o.idx \in Indices /\ o.idx # idx
  BY <1>1 DEF HandleInv, SlotsDescribed, TypeOK, Handle, Indices
<1>. HIDE DEF h
<1>4. TypeOK'
  BY <1>1, <1>2 DEF HandleInv, TypeOK, Slot, Indices
<1>5. HandlesUnique'
  BY <1>1, <1>2, <1>3 DEF HandleInv, HandlesUnique
<1>6. FreeListSound'
  BY <1>1 DEF FreeListSound
<1>7. SlotsDescribed'
  <2>1. \A i \in Indices : g_handles'[i] = g_handles[i] /\ i \in 0 .. idx /\ i # idx
    BY <1>1 DEF Indices
  <2>2. g_handles'[idx] = [ptr |-> lives + 1, gen |-> 1, kind |-> k]
    BY <1>1
  <2>3. \A o \in issued' :
          /\ o.idx < g_handles_len'
          /\ o.gen <= g_handles'[o.idx].gen
          /\ o.gen = g_handles'[o.idx].gen /\ o \notin live' => g_handles'[o.idx].ptr = NoLife
    BY <1>1, <1>2, <1>3, <2>1, <2>2 DEF HandleInv, SlotsDescribed, TypeOK, Indices
  <2>4. \A o \in live' : g_handles'[o.idx] = [ptr |-> o.life, gen |-> o.gen, kind |-> o.kind]
    BY <1>1, <1>2, <1>3, <2>1, <2>2 DEF HandleInv, SlotsDescribed, TypeOK
  <2>5. \A i \in Indices' : g_handles'[i].ptr # NoLife => \E o \in live' : o.idx = i
    BY <1>1, <1>2, <2>1, <2>2 DEF HandleInv, SlotsDescribed, Indices
  <2> QED BY <2>3, <2>4, <2>5 DEF SlotsDescribed
<1> QED BY <1>4, <1>5, <1>6, <1>7 DEF HandleInv

(* Releasing a live handle either retires its slot or puts it on the free   *)
(* list one generation above the handle, so above every handle of the slot. *)
LEMMA ReleaseInv ==
  ASSUME HandleInv, NEW h \in live, Release(h)
  PROVE  HandleInv'
<1> DEFINE s == g_handles[h.idx]
<1>1. h \in issued /\ h \in Handle /\ h.idx \in Indices
  BY LiveSlot
<1>2. s.gen = h.gen /\ s \in Slot /\ s.gen \in 1 .. MaxGen
  BY <1>1, LiveSlot DEF HandleInv, TypeOK, Slot, Indices
<1>3. s.ptr # NoLife
  BY LiveSlot
<1>4. /\ issued' = issued /\ live' = live \ {h} /\ lives' = lives /\ failed' = failed
      /\ g_handles_len' = g_handles_len /\ Indices' = Indices
      /\ g_handles' = [g_handles EXCEPT ![h.idx] = ReleasedSlot(s)]
      /\ g_handles_free' = ReleasedFree(s, h.idx)
  BY DEF Release, Indices
<1>5. /\ ReleasedSlot(s) \in Slot
      /\ ReleasedSlot(s).ptr = NoLife
      /\ s.gen <= ReleasedSlot(s).gen
      /\ s.gen # MaxGen => ReleasedSlot(s).gen = s.gen + 1
  <2> HIDE DEF s
  <2> QED BY <1>2 DEF ReleasedSlot, Slot, NoLife
<1>6. \A i \in Indices : /\ i # h.idx => g_handles'[i] = g_handles[i]
                         /\ g_handles'[h.idx] = ReleasedSlot(s)
  BY <1>1, <1>4 DEF HandleInv, TypeOK, Indices
<1>7. \A i \in 1 .. Len(g_handles_free) : g_handles_free[i] \in Indices /\ g_handles_free[i] # h.idx
  BY <1>3 DEF HandleInv, FreeListSound, TypeOK
<1>8. \A o \in issued : o.idx \in Indices /\ (o.idx = h.idx => o.gen <= s.gen)
  BY <1>1 DEF HandleInv, SlotsDescribed, TypeOK, Indices, Handle
<1>. HIDE DEF s
<1>9. TypeOK'
  <2>1. g_handles' \in [Indices -> Slot]
    BY <1>1, <1>4, <1>5 DEF HandleInv, TypeOK, Indices
  <2>2. g_handles_free' \in Seq(Indices)
    BY <1>1, <1>4 DEF HandleInv, TypeOK, ReleasedFree
  <2> QED BY <1>4, <2>1, <2>2 DEF HandleInv, TypeOK, Indices
<1>10. HandlesUnique'
  BY <1>4 DEF HandleInv, HandlesUnique
<1>11. FreeListSound'
  <2>1. CASE s.gen = MaxGen
    BY <2>1, <1>4, <1>6, <1>7 DEF HandleInv, FreeListSound, ReleasedFree
  <2>2. CASE s.gen # MaxGen
    <3>1. g_handles_free' = <<h.idx>> \o g_handles_free
      BY <2>2, <1>4 DEF ReleasedFree
    <3>2. /\ Len(g_handles_free') = Len(g_handles_free) + 1
          /\ g_handles_free'[1] = h.idx
          /\ \A i \in 2 .. Len(g_handles_free') : g_handles_free'[i] = g_handles_free[i - 1]
                                                  /\ i - 1 \in 1 .. Len(g_handles_free)
      BY <3>1, <1>1 DEF HandleInv, TypeOK
    <3>3. \A i, j \in 1 .. Len(g_handles_free') : g_handles_free'[i] = g_handles_free'[j] => i = j
      <4> SUFFICES ASSUME NEW i \in 1 .. Len(g_handles_free'), NEW j \in 1 .. Len(g_handles_free'),
                          g_handles_free'[i] = g_handles_free'[j]
                   PROVE  i = j
        OBVIOUS
      <4>0. Len(g_handles_free) \in Nat
        BY DEF HandleInv, TypeOK
      <4>1. CASE i = 1 \/ j = 1
        BY <4>0, <4>1, <3>2, <1>7
      <4>2. CASE i # 1 /\ j # 1
        <5>1. i \in 2 .. Len(g_handles_free') /\ j \in 2 .. Len(g_handles_free')
          BY <4>0, <4>2, <3>2
        <5>2. i - 1 = j - 1
          BY <5>1, <3>2 DEF HandleInv, FreeListSound
        <5> QED BY <5>1, <5>2
      <4> QED BY <4>1, <4>2
    <3>4. \A i \in 1 .. Len(g_handles_free') :
             /\ g_handles'[g_handles_free'[i]].ptr = NoLife
             /\ \A o \in issued' : o.idx = g_handles_free'[i] => o.gen < g_handles'[o.idx].gen
      <4> SUFFICES ASSUME NEW i \in 1 .. Len(g_handles_free')
                   PROVE  /\ g_handles'[g_handles_free'[i]].ptr = NoLife
                          /\ \A o \in issued : o.idx = g_handles_free'[i]
                                                 => o.gen < g_handles'[o.idx].gen
        BY <1>4
      <4>0. Len(g_handles_free) \in Nat
        BY DEF HandleInv, TypeOK
      <4>1. CASE i = 1
        BY <4>1, <3>2, <1>1, <1>2, <1>5, <1>6, <1>8, <2>2 DEF HandleInv, TypeOK, Handle
      <4>2. CASE i # 1
        <5>1. i \in 2 .. Len(g_handles_free')
          BY <4>0, <4>2, <3>2
        <5> QED BY <5>1, <3>2, <1>6, <1>7 DEF HandleInv, FreeListSound
      <4> QED BY <4>1, <4>2
    <3> QED BY <3>3, <3>4 DEF FreeListSound
  <2> QED BY <2>1, <2>2
<1>12. SlotsDescribed'
  <2>1. \A o \in issued' :
          /\ o.idx < g_handles_len'
          /\ o.gen <= g_handles'[o.idx].gen
          /\ o.gen = g_handles'[o.idx].gen /\ o \notin live' => g_handles'[o.idx].ptr = NoLife
    <3> SUFFICES ASSUME NEW o \in issued
                 PROVE  /\ o.idx < g_handles_len
                        /\ o.gen <= g_handles'[o.idx].gen
                        /\ o.gen = g_handles'[o.idx].gen /\ o \notin live'
                             => g_handles'[o.idx].ptr = NoLife
      BY <1>4
    <3>1. o.gen \in Int /\ s.gen \in Int /\ ReleasedSlot(s).gen \in Int
      BY <1>2, <1>5 DEF HandleInv, TypeOK, Handle, Slot
    <3>2. CASE o.idx = h.idx
      BY <3>1, <3>2, <1>5, <1>6, <1>8 DEF Indices, HandleInv, TypeOK
    <3>3. CASE o.idx # h.idx
      BY <3>3, <1>4, <1>6, <1>8 DEF HandleInv, SlotsDescribed
    <3> QED BY <3>2, <3>3
  <2>2. \A o \in live' : o.idx # h.idx
    <3> SUFFICES ASSUME NEW o \in live, o.idx = h.idx PROVE o = h
      BY <1>4
    <3>1. o.gen = h.gen /\ o \in issued
      BY LiveSlot
    <3> QED BY <3>1, <1>1 DEF HandleInv, HandlesUnique
  <2>3. \A o \in live' : g_handles'[o.idx] = [ptr |-> o.life, gen |-> o.gen, kind |-> o.kind]
    BY <2>2, <1>4, <1>6, <1>8 DEF HandleInv, SlotsDescribed, TypeOK
  <2>4. \A i \in Indices' : g_handles'[i].ptr # NoLife => \E o \in live' : o.idx = i
    BY <1>4, <1>5, <1>6 DEF HandleInv, SlotsDescribed
  <2> QED BY <2>1, <2>3, <2>4 DEF SlotsDescribed
<1> QED BY <1>9, <1>10, <1>11, <1>12 DEF HandleInv

(* A use of a handle, or running out of them, changes no slot.              *)
LEMMA UnchangedInv ==
  ASSUME HandleInv, UNCHANGED <<g_handles, g_handles_len, g_handles_free, issued, lives, live>>,
         failed' \in BOOLEAN
  PROVE  HandleInv'
  BY DEF HandleInv, TypeOK, HandlesUnique, FreeListSound, SlotsDescribed, Indices

(* handle_alloc, handle_release and handle_lookup keep the invariant.       *)
LEMMA NextInv == HandleInv /\ [Next]_vars => HandleInv'
<1> SUFFICES ASSUME HandleInv, [Next]_vars PROVE HandleInv'
  OBVIOUS
<1>1. ASSUME NEW k \in Kinds, AllocReused(k) PROVE HandleInv'
  BY <1>1, AllocReusedInv
<1>2. ASSUME NEW k \in Kinds, AllocFresh(k) PROVE HandleInv'
  BY <1>2, AllocFreshInv
<1>3. CASE AllocOut
  BY <1>3, UnchangedInv DEF AllocOut
<1>4. ASSUME NEW h \in live, Release(h) PROVE HandleInv'
  BY <1>4, ReleaseInv
<1>5. ASSUME NEW h \in issued, NEW k \in Kinds, Use(h, k) PROVE HandleInv'
  <2>1. failed' \in BOOLEAN
    BY <1>5 DEF Use
  <2> QED BY <1>5, <2>1, UnchangedInv DEF Use
<1>6. CASE UNCHANGED vars
  BY <1>6, UnchangedInv DEF vars, HandleInv, TypeOK
<1> QED BY <1>1, <1>2, <1>3, <1>4, <1>5, <1>6 DEF Next

(* The handle table's inductive invariant, type correctness included.       *)
THEOREM HandleInvariant == Spec => []HandleInv
  BY InitInv, NextInv, PTL DEF Spec

(* A stale copy of a handle, presented to scope_of, task_of or chan_of at   *)
(* any time, never resolves to another record nor to a released one.        *)
THEOREM HandleSafety == Spec => []StaleNeverResolves
<1>1. HandleInv => StaleNeverResolves
  <2> SUFFICES ASSUME HandleInv, NEW h \in issued, NEW k \in Kinds,
                      Lookup(h, k).op = "record"
               PROVE  Lookup(h, k).life = h.life /\ h \in live /\ k = h.kind
    BY DEF StaleNeverResolves
  <2>1. h.idx < g_handles_len /\ h.idx \in Indices
    BY DEF HandleInv, SlotsDescribed, TypeOK, Handle, Indices
  <2>2. /\ g_handles[h.idx].kind = k
        /\ g_handles[h.idx].gen = h.gen
        /\ g_handles[h.idx].ptr # NoLife
        /\ Lookup(h, k).life = g_handles[h.idx].ptr
    BY <2>1 DEF Lookup
  <2>3. h \in live
    BY <2>2 DEF HandleInv, SlotsDescribed
  <2> QED BY <2>2, <2>3, LiveSlot
<1> QED BY <1>1, HandleInvariant, PTL

(* The handle of a record its scope has not freed always resolves, with the *)
(* kind it was issued for: structured programs never meet the abort.        *)
THEOREM HandleAvailability == Spec => []LiveAlwaysResolves
<1>1. HandleInv => LiveAlwaysResolves
  <2> SUFFICES ASSUME HandleInv, NEW h \in live PROVE Lookup(h, h.kind).op = "record"
    BY DEF LiveAlwaysResolves
  <2>1. h \in Handle /\ h.idx < g_handles_len
    BY LiveSlot DEF HandleInv, SlotsDescribed
  <2> QED BY <2>1, LiveSlot DEF Lookup, Handle, HandleInv, TypeOK
<1> QED BY <1>1, HandleInvariant, PTL
=============================================================================
