---------------------------- MODULE RegionTable ----------------------------
(***************************************************************************)
(* From an address to its heap region (src/runtime/sprout_runtime.c): the   *)
(* table of regions sorted by base, the reserved arena whose chunks resolve *)
(* by a shift and a map kept in step with the table, and the bounds that    *)
(* reject what is no pointer.  The collector asks this of every word it     *)
(* scans; a wrong answer frees a live object or follows an integer.         *)
(*                                                                          *)
(* Addresses are small integers; a chunk is ChunkSize of them.              *)
(***************************************************************************)
EXTENDS Integers, SequencesExt, Loops

CONSTANTS ChunkSize,       \* SPROUT_REGION_SIZE
          ArenaBase, ArenaChunks,   \* the reservation; no chunks when it failed or is disabled
          RtTop,           \* bound: the highest address
          MinRegions,      \* SPROUT_ARENA_MIN_REGIONS
          RtMax            \* bound: regions in the table

ASSUME RtAssumption ==
  ChunkSize \in Nat \ {0} /\ ArenaBase \in Nat /\ ArenaChunks \in Nat /\ RtTop \in Nat /\ MinRegions \in Nat

VARIABLES
  rtTable,    \* g_regions: [base, cap, large], sorted by base
  rtArena,    \* next, recycled (a stack), committed, ri: chunk -> index in rtTable, 0 for NONE
  rtBounds    \* [lo, span]: g_heap_lo and g_heap_span

rtVars == <<rtTable, rtArena, rtBounds>>

ArenaEnd == ArenaBase + ArenaChunks * ChunkSize
arena_contains(p) == p \in ArenaBase .. ArenaEnd - 1
ChunkAt(p) == (p - ArenaBase) \div ChunkSize
ChunkBase(i) == ArenaBase + i * ChunkSize

RtInit ==
  /\ rtTable = <<>>
  /\ rtArena = [next |-> 0, recycled |-> <<>>, committed |-> {}, ri |-> [i \in 0 .. ArenaChunks - 1 |-> 0]]
  /\ rtBounds = [lo |-> 0, span |-> 0]

-----------------------------------------------------------------------------
(* The table and the chunk map *)

(* arena_reindex_from: the chunks of the regions at `start` and above. *)
arena_reindex_from(ri, table, start) ==
  [i \in DOMAIN ri |-> LET at == {k \in start .. Len(table) : ~table[k].large /\ table[k].base = ChunkBase(i)}
                       IN IF at = {} THEN ri[i] ELSE CHOOSE k \in at : TRUE]

(* The binary search for the first entry whose base is not below. *)
LowerTurn(s) ==
  LET mid == s.lo + (s.hi - s.lo) \div 2
  IN IF s.lo >= s.hi THEN s
     ELSE IF s.table[mid].base < s.base THEN [s EXCEPT !.lo = mid + 1] ELSE [s EXCEPT !.hi = mid]
LowerBound(table, base) ==
  After(LowerTurn, [table |-> table, base |-> base, lo |-> 1, hi |-> Len(table) + 1], Len(table)).lo

Widened(b, r) ==
  LET hi == IF b.lo + b.span > r.base + r.cap THEN b.lo + b.span ELSE r.base + r.cap
      lo == IF r.base < b.lo THEN r.base ELSE b.lo
  IN IF b.span = 0 THEN [lo |-> r.base, span |-> r.cap] ELSE [lo |-> lo, span |-> hi - lo]

\* A state of the three as a record, so that operations compose.
State == [table |-> rtTable, arena |-> rtArena, bounds |-> rtBounds]
Becomes(st) == rtTable' = st.table /\ rtArena' = st.arena /\ rtBounds' = st.bounds

region_table_insert(st, r) ==
  LET at    == LowerBound(st.table, r.base)
      table == InsertAt(st.table, at, r)
  IN [table |-> table, arena |-> [st.arena EXCEPT !.ri = arena_reindex_from(@, table, at)],
      bounds |-> Widened(st.bounds, r)]

(* The lookups.  0 is "no region". *)
FindTurn(s) ==
  LET mid == s.lo + (s.hi - s.lo) \div 2
      r   == s.table[mid]
  IN IF s.at # 0 \/ s.lo >= s.hi THEN s
     ELSE IF r.base > s.addr THEN [s EXCEPT !.hi = mid]
     ELSE IF r.base + r.cap <= s.addr THEN [s EXCEPT !.lo = mid + 1]
     ELSE [s EXCEPT !.at = mid]
region_find_slow(p) ==
  After(FindTurn, [table |-> rtTable, addr |-> p, lo |-> 1, hi |-> Len(rtTable) + 1, at |-> 0], Len(rtTable)).at
region_find(p) ==
  IF Len(rtTable) > MinRegions /\ arena_contains(p) THEN rtArena.ri[ChunkAt(p)]
  ELSE IF p - rtBounds.lo \notin 0 .. rtBounds.span - 1 THEN 0   \* one unsigned compare
  ELSE region_find_slow(p)

-----------------------------------------------------------------------------
(* Opening and releasing *)

Cells(r) == r.base .. r.base + r.cap - 1
\* What malloc may return: memory nobody has, outside the reservation.
Mallocs(st, cap) == {b \in 1 .. RtTop - cap + 1 :
  \A p \in b .. b + cap - 1 : ~arena_contains(p) /\ \A r \in Range(st.table) : p \notin Cells(r)}

Normal(base) == [base |-> base, cap |-> ChunkSize, large |-> FALSE]

(* open_new_region: a recycled chunk, else the next one, committed on first *)
(* use; malloc when there is none or it cannot be committed (it is then     *)
(* dropped for good).                                                       *)
Opened(st) ==
  LET a     == st.arena
      none  == a.recycled = <<>> /\ a.next >= ArenaChunks
      idx   == IF a.recycled # <<>> THEN Last(a.recycled) ELSE a.next
      taken == IF none THEN a
               ELSE IF a.recycled # <<>> THEN [a EXCEPT !.recycled = Front(@)]
               ELSE [a EXCEPT !.next = @ + 1]
      chunk == IF none THEN {}
               ELSE {region_table_insert([st EXCEPT !.arena = [taken EXCEPT !.committed = @ \cup {idx}]],
                                         Normal(ChunkBase(idx)))}
      block == IF ~none /\ idx \in a.committed THEN {}
               ELSE {region_table_insert([st EXCEPT !.arena = taken], Normal(b)) : b \in Mallocs(st, ChunkSize)}
  IN chunk \cup block
open_new_region == Len(rtTable) < RtMax /\ \E st \in Opened(State) : Becomes(st)

(* A large object brings a malloc'd region of its own size. *)
alloc_large ==
  /\ Len(rtTable) < RtMax
  /\ \E cap \in {1, ChunkSize + 1} : \E b \in Mallocs(State, cap) :
       Becomes(region_table_insert(State, [base |-> b, cap |-> cap, large |-> TRUE]))

\* Mutant: the chunk keeps its index.
arena_chunk_release_Keeps(arena, base) == [arena EXCEPT !.recycled = Append(@, ChunkAt(base))]
arena_chunk_release(arena, base) ==
  [arena EXCEPT !.ri[ChunkAt(base)] = 0, !.recycled = Append(@, ChunkAt(base))]

(* Both sweeps remove entries from the top of the table down: an arena      *)
(* chunk is recycled first, then the entry removed and the entries above    *)
(* it reindexed.                                                            *)
ReleaseAt(st, i) ==
  LET r     == st.table[i]
      table == RemoveAt(st.table, i)
      arena == IF ~r.large /\ arena_contains(r.base) THEN arena_chunk_release(st.arena, r.base) ELSE st.arena
  IN [st EXCEPT !.table = table, !.arena = [arena EXCEPT !.ri = arena_reindex_from(@, table, i)]]
ReleaseTurn(s) ==
  [s EXCEPT !.st = IF s.at \in s.dead THEN ReleaseAt(@, s.at) ELSE @, !.at = @ - 1]
ReleaseRegions(dead) ==
  After(ReleaseTurn, [st |-> State, at |-> Len(rtTable), dead |-> dead], Len(rtTable)).st
Large == {i \in DOMAIN rtTable : rtTable[i].large}
(* A major sweep releases the regions that came out empty; when no normal   *)
(* region is left it opens one for the bump path.                           *)
sweep_release == \E dead \in SUBSET DOMAIN rtTable :
  LET st == ReleaseRegions(dead)
  IN IF \A r \in Range(st.table) : r.large
     THEN Len(st.table) < RtMax /\ \E opened \in Opened(st) : Becomes(opened)
     ELSE Becomes(st)
(* A minor sweep removes dead large objects only. *)
sweep_young_release == \E dead \in SUBSET Large : Becomes(ReleaseRegions(dead))

RtNext == open_new_region \/ alloc_large \/ sweep_release \/ sweep_young_release
RtSpec == RtInit /\ [][RtNext]_rtVars

-----------------------------------------------------------------------------
(* For every address, whichever of the paths answers, region_find returns   *)
(* exactly the region the address lies in, and none when there is none,     *)
(* whatever regions were opened, released and their chunks reused before.   *)
RegionFindExact == \A p \in 0 .. RtTop + 1 :
  LET owner == {i \in DOMAIN rtTable : p \in Cells(rtTable[i])}
  IN region_find(p) = IF owner = {} THEN 0 ELSE CHOOSE i \in owner : owner = {i}
=============================================================================
