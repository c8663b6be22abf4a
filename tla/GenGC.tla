------------------------------- MODULE GenGC -------------------------------
(***************************************************************************)
(* The generational mark-sweep collector of runtime/sprout_runtime.c: the  *)
(* slots of the region heap, the write barrier and its remembered set, the *)
(* root contexts of the tasks, and minor and major collections with their  *)
(* two sweeps.                                                             *)
(*                                                                         *)
(* A slot is never moved.  Its header's color bit means "marked" during a  *)
(* collection and, when the last sweep kept it, "old" between two.  Each   *)
(* slot has one size class, as if a region were cut into slots when it is  *)
(* opened; an object has one field; a large region holds one object.  A    *)
(* nullary object has no field and is shared through the weak cache        *)
(* CtorMeta.singleton.                                                     *)
(*                                                                         *)
(* The program is single-threaded: it runs in phase "mutator", and the     *)
(* collector, in phase "mark", runs to its end inside an allocation or at  *)
(* exit.  The threshold that starts a collection depends on sizes that are *)
(* not modelled, so a collection may start at any allocation.              *)
(***************************************************************************)
EXTENDS Integers, FiniteSets

CONSTANTS
  Slots,         \* all places an object can be in
  Regions,       \* all regions the table can hold
  LargeRegions,  \* the ones made for one large object
  RegionOf,      \* the region of a slot
  ClassOf,       \* the size class of a slot
  Contexts,      \* root contexts (SproutRoots), of tasks and of channels
  Main,          \* the context of task 0
  GenOn,         \* SPROUT_GC_MINOR
  MajorEvery,    \* SPROUT_GC_MAJOR_EVERY
  Nil,           \* a word that is no heap pointer
  NoContext      \* g_current_roots dangles: the pump is between two tasks

ASSUME RegionAssumption ==
  /\ LargeRegions \subseteq Regions
  /\ RegionOf \in [Slots -> Regions]
  /\ \A s, t \in Slots : RegionOf[s] = RegionOf[t] /\ RegionOf[s] \in LargeRegions => s = t
ASSUME ContextAssumption == Main \in Contexts /\ NoContext \notin Contexts
ASSUME SlotsAssumption == IsFiniteSet(Slots)
ASSUME NilAssumption == Nil \notin Slots
ASSUME ModeAssumption == GenOn \in BOOLEAN /\ MajorEvery \in Nat

VARIABLES
  kind,         \* of each slot: an object, FREE, or not handed out yet
  field,        \* the one word each object holds
  color,        \* the slots whose color bit is set
  rbit,         \* the slots whose REMEMBERED bit is set
  remembered,   \* g_gen.remembered
  youngmap,     \* the slots whose youngmap bit is set
  young_count,  \* per region
  old_count,    \* per region
  g_regions,    \* the regions in the table
  freelist,     \* how often each slot is on the free lists
  singleton,    \* CtorMeta.singleton of the one nullary constructor
  roots,        \* the values each context roots
  registry,     \* g_roots_registry
  current,      \* g_current_roots
  gen,          \* g_gen: colorless, last_live, baseline, minors_since_major
  phase,        \* "mutator", "mark" or "exited"
  cycle,        \* the collection under way: minor, last (run by atexit)
  marked,       \* the slots this collection's mark newly reached
  wl            \* g_gc_mark_wl

heapVars == <<kind, field, g_regions, freelist, singleton>>
genVars == <<color, rbit, remembered, youngmap, young_count, old_count, gen>>
rootVars == <<roots, registry, current>>
gcVars == <<phase, cycle, marked, wl>>
vars == <<heapVars, genVars, rootVars, gcVars>>

Objects == {"OBJ", "NULLARY"}
Live == {s \in Slots : kind[s] \in Objects}
IsLarge(s) == RegionOf[s] \in LargeRegions
SlotsOf(r) == {s \in Slots : RegionOf[s] = r}
Ordinary == Regions \ LargeRegions

TypeOK ==
  /\ kind \in [Slots -> Objects \cup {"FREE", "UNUSED"}]
  /\ field \in [Slots -> Slots \cup {Nil}]
  /\ color \subseteq Slots /\ rbit \subseteq Slots /\ remembered \subseteq Slots
  /\ youngmap \subseteq Slots /\ marked \subseteq Slots /\ wl \subseteq Slots
  /\ young_count \in [Regions -> Nat] /\ old_count \in [Regions -> Nat]
  /\ g_regions \subseteq Regions
  /\ freelist \in [Slots -> Nat]
  /\ singleton \in Slots \cup {Nil}
  /\ roots \in [Contexts -> SUBSET Slots]
  /\ registry \subseteq Contexts /\ current \in registry \cup {NoContext}
  /\ gen \in [colorless : BOOLEAN, last_live : Nat, baseline : Nat, minors : Nat]
  /\ phase \in {"mutator", "mark", "exited"}
  /\ cycle \in [minor : BOOLEAN, last : BOOLEAN]

Init ==
  /\ kind = [s \in Slots |-> "UNUSED"]
  /\ field = [s \in Slots |-> Nil]
  /\ color = {} /\ rbit = {} /\ remembered = {} /\ youngmap = {}
  /\ young_count = [r \in Regions |-> 0]
  /\ old_count = [r \in Regions |-> 0]
  /\ g_regions = {}
  /\ freelist = [s \in Slots |-> 0]
  /\ singleton = Nil
  /\ roots = [c \in Contexts |-> {}]
  /\ registry = {Main} /\ current = Main
  /\ gen = [colorless |-> TRUE, last_live |-> 0, baseline |-> 0, minors |-> 0]
  /\ phase = "mutator"
  /\ cycle = [minor |-> FALSE, last |-> FALSE]
  /\ marked = {} /\ wl = {}

-----------------------------------------------------------------------------
(* Allocation.                                                             *)

\* A task runs, and may call the runtime.
Running == phase = "mutator" /\ current # NoContext

Listed == {s \in Slots : freelist[s] > 0}
SameClass(s) == {t \in Slots : ClassOf[t] = ClassOf[s]}
Room == {s \in Slots : kind[s] = "UNUSED" /\ RegionOf[s] \in g_regions \ LargeRegions}
Closed == {s \in Slots : RegionOf[s] \notin g_regions}

\* The young objects of each region once s is one of them.
CountedYoung(s) ==
  IF GenOn THEN [young_count EXCEPT ![RegionOf[s]] = @ + 1] ELSE young_count

\* Write the whole header word of s, record it as young, and root it.
Born(s, k, word) ==
  /\ kind' = [kind EXCEPT ![s] = k]
  /\ field' = [field EXCEPT ![s] = word]
  /\ color' = color \ {s}
  /\ rbit' = rbit \ {s}
  /\ youngmap' = IF GenOn /\ ~IsLarge(s) THEN youngmap \cup {s} ELSE youngmap
  /\ young_count' = CountedYoung(s)
  /\ roots' = [roots EXCEPT ![current] = @ \cup {s}]
  /\ UNCHANGED <<remembered, old_count, registry, current, gen, gcVars>>

\* fl_pop: the slot keeps its place in its region.
AllocReused(s, k, word) ==
  /\ s \in Listed
  /\ freelist' = [freelist EXCEPT ![s] = @ - 1]
  /\ UNCHANGED g_regions
  /\ Born(s, k, word)

\* The bump path, when no slot of the class is listed: an open region with room,
\* or a new one when there is none.
AllocBump(s, k, word) ==
  /\ Listed \cap SameClass(s) = {}
  /\ IF Room \cap SameClass(s) # {} THEN s \in Room ELSE s \in Closed /\ ~IsLarge(s)
  /\ g_regions' = g_regions \cup {RegionOf[s]}
  /\ UNCHANGED freelist
  /\ Born(s, k, word)

\* A large object brings its own region.
AllocLarge(s, word) ==
  /\ s \in Closed /\ IsLarge(s)
  /\ g_regions' = g_regions \cup {RegionOf[s]}
  /\ UNCHANGED freelist
  /\ Born(s, "OBJ", word)

\* sprout_alloc_obj and the other allocators: the field words are rooted values.
Alloc ==
  /\ Running
  /\ \E s \in Slots, word \in roots[current] \cup {Nil} :
       AllocReused(s, "OBJ", word) \/ AllocBump(s, "OBJ", word) \/ AllocLarge(s, word)
  /\ UNCHANGED singleton

\* get_or_make_singleton, nothing cached: allocate and cache.
MakeSingleton ==
  /\ Running /\ singleton = Nil
  /\ \E s \in Slots :
       /\ AllocReused(s, "NULLARY", Nil) \/ AllocBump(s, "NULLARY", Nil)
       /\ singleton' = s

-----------------------------------------------------------------------------
(* The running task: loads, stores, and its own roots.                     *)

Rooted(value) ==
  /\ roots' = [roots EXCEPT ![current] = @ \cup {value}]
  /\ UNCHANGED <<heapVars, genVars, gcVars, registry, current>>

\* get_or_make_singleton with an object cached: hand it out again.
CachedSingleton ==
  /\ Running /\ singleton # Nil
  /\ Rooted(singleton)

\* ref_read and every other read of a field, its result kept in a rooted local.
Load ==
  /\ Running
  /\ \E s \in roots[current] : field[s] # Nil /\ Rooted(field[s])

\* sprout_gc_barrier: is the object stored into to be recorded?
Records_Never(s) == FALSE
Records(s) == s \in color /\ s \notin rbit

\* ref_write, vector_mutset, vector_push, and a reused constructor cell.
Store ==
  /\ Running
  /\ \E s \in roots[current], word \in roots[current] \cup {Nil} :
       /\ kind[s] = "OBJ"
       /\ rbit' = IF Records(s) THEN rbit \cup {s} ELSE rbit
       /\ remembered' = IF Records(s) THEN remembered \cup {s} ELSE remembered
       /\ field' = [field EXCEPT ![s] = word]
  /\ UNCHANGED <<kind, g_regions, freelist, singleton, color, youngmap, young_count,
                 old_count, gen, rootVars, gcVars>>

\* sprout_gc_pop_roots: a local goes out of scope.
PopRoot ==
  /\ Running
  /\ \E s \in roots[current] : roots' = [roots EXCEPT ![current] = @ \ {s}]
  /\ UNCHANGED <<heapVars, genVars, gcVars, registry, current>>

-----------------------------------------------------------------------------
(* Root contexts follow the scheduler's tasks.                             *)

\* sprout_roots_new and the push of the task's work closure.
SpawnContext(c) ==
  /\ Running /\ c \notin registry
  /\ registry' = registry \cup {c}
  /\ \E work \in roots[current] : roots' = [roots EXCEPT ![c] = {work}]
  /\ UNCHANGED <<heapVars, genVars, gcVars, current>>

\* __chan_send: the message goes to the receiver's chan_pending or to the channel's
\* ring, both of which other contexts root.
Deliver(c) ==
  /\ Running /\ c \in registry \ {current}
  /\ \E value \in roots[current] : roots' = [roots EXCEPT ![c] = @ \cup {value}]
  /\ UNCHANGED <<heapVars, genVars, gcVars, registry, current>>

\* __chan_recv and __task_await: a message leaves the ring or the parked sender's
\* chan_pending, which may not have been its only place there; a result stays.
Take(c) ==
  /\ Running /\ c \in registry \ {current}
  /\ \E value \in roots[c], left \in SUBSET roots[c] :
       /\ roots[c] \ {value} \subseteq left
       /\ roots' = [roots EXCEPT ![c] = left, ![current] = @ \cup {value}]
  /\ UNCHANGED <<heapVars, genVars, gcVars, registry, current>>

\* The pump switches to another task, which was parked or never ran.
SwitchContext(c) ==
  /\ phase = "mutator" /\ c \in registry \ {current}
  /\ current' = c
  /\ UNCHANGED <<heapVars, genVars, gcVars, roots, registry>>

\* sprout_roots_free of c: the pump frees the context of the task that has just
\* finished, scope_cancel and __scope_join those of other tasks.
FreeContext(c) ==
  /\ Running /\ c \in registry \ {Main}
  /\ registry' = registry \ {c}
  /\ roots' = [roots EXCEPT ![c] = {}]
  /\ current' = IF c = current THEN NoContext ELSE current
  /\ UNCHANGED <<heapVars, genVars, gcVars>>

-----------------------------------------------------------------------------
(* Collection: sprout_gc_collect_with_reason.                              *)

ChooseMinor(reason) == reason = "threshold" /\ ~gen.colorless

\* A major after a color-keeping sweep clears the marks first.
ClearsMarks_Never(minor) == FALSE
ClearsMarks(minor) == GenOn /\ ~minor /\ ~gen.colorless

\* What sprout_heap_lookup finds for the words of every registered context.
RootObjects_Active == IF current = NoContext THEN {} ELSE roots[current] \cap Live
RootObjects == {s \in Live : \E c \in registry : s \in roots[c]}

\* The REMEMBERED bits that are left: a minor clears those of the objects it lists.
RememberedBits_Sticky(minor) == IF ClearsMarks(minor) THEN {} ELSE rbit
RememberedBits(minor) ==
  IF ClearsMarks(minor) THEN {} ELSE IF minor THEN rbit \ remembered ELSE rbit

\* Clear, mark the roots, push the remembered objects.
StartMark(reason) ==
  LET minor == GenOn /\ ChooseMinor(reason)
      colored == IF ClearsMarks(minor) THEN {} ELSE color
      listed == IF ClearsMarks(minor) THEN {} ELSE remembered
      newly == RootObjects \ colored
  IN /\ phase = "mutator"
     /\ phase' = "mark"
     /\ cycle' = [minor |-> minor, last |-> reason = "atexit"]
     /\ color' = colored \cup newly
     /\ marked' = newly
     /\ wl' = IF minor THEN newly \cup listed ELSE newly
     /\ remembered' = IF minor THEN {} ELSE listed
     /\ rbit' = RememberedBits(minor)
     /\ UNCHANGED <<heapVars, rootVars, youngmap, young_count, old_count, gen>>

\* An allocation collects before it takes its slot.
CollectThreshold == current # NoContext /\ StartMark("threshold")

\* atexit runs one last collection.
CollectAtExit == StartMark("atexit")

\* sprout_gc_drain_marks: expand one object.  A set color bit stops the mark.
DrainMark ==
  /\ phase = "mark"
  /\ \E s \in wl :
       LET reached == ({field[s]} \cap Live) \ color
       IN /\ color' = color \cup reached
          /\ marked' = marked \cup reached
          /\ wl' = (wl \ {s}) \cup reached
  /\ UNCHANGED <<heapVars, rootVars, rbit, remembered, youngmap, young_count, old_count,
                 gen, phase, cycle>>

\* sprout_gc_gen_record: is the next collection a major?
NextMajor(live, baseline, minors) == live > 2 * baseline \/ minors >= MajorEvery

Minors_Uncounted == IF cycle.minor THEN gen.minors ELSE 0
Minors == IF cycle.minor THEN gen.minors + 1 ELSE 0

gen_record ==
  LET newly == Cardinality(marked)
      live == IF cycle.minor THEN gen.last_live + newly ELSE newly
      baseline == IF cycle.minor THEN gen.baseline ELSE newly
  IN IF GenOn
     THEN [colorless |-> NextMajor(live, baseline, Minors),
           last_live |-> live, baseline |-> baseline, minors |-> Minors]
     ELSE gen

\* Would the full sweep release no ordinary region?
young_sweep_ok ==
  \A r \in g_regions \ LargeRegions : old_count[r] # 0 \/ marked \cap SlotsOf(r) # {}

YoungOnly == cycle.minor /\ ~gen_record.colorless /\ young_sweep_ok

\* Both sweeps give the slots in dead a FREE header, or take the large ones and
\* the regions in gone out of the table; the cached singleton dies with its object.
Reclaim(dead, gone) ==
  /\ kind' = [s \in Slots |-> IF RegionOf[s] \in gone THEN "UNUSED"
                              ELSE IF s \in dead THEN "FREE" ELSE kind[s]]
  /\ field' = [s \in Slots |-> IF s \in dead \/ RegionOf[s] \in gone THEN Nil ELSE field[s]]
  /\ rbit' = rbit \ dead
  /\ singleton' = IF singleton \in dead THEN Nil ELSE singleton

EndCycle ==
  /\ phase = "mark" /\ wl = {}
  /\ phase' = IF cycle.last THEN "exited" ELSE "mutator"
  /\ gen' = gen_record
  /\ marked' = {}
  /\ cycle' = [minor |-> FALSE, last |-> FALSE]
  /\ UNCHANGED <<rootVars, remembered, wl>>

\* The regions that end the collection with no live slot.
EmptyAfter(survivors) == {r \in g_regions : SlotsOf(r) \cap survivors = {}}

\* The free lists after a full sweep: the FREE slots of each region that is kept.
RebuiltLists(dead, kept) ==
  [s \in Slots |-> IF RegionOf[s] \in kept /\ (s \in dead \/ kind[s] = "FREE") THEN 1 ELSE 0]

\* sprout_gc_sweep: every slot of every region, the free lists rebuilt from nothing.
SweepFull ==
  LET keep_color == GenOn /\ ~gen_record.colorless
      dead == Live \ color
      gone == EmptyAfter(Live \cap color)
      kept == g_regions \ gone
  IN /\ EndCycle
     /\ ~YoungOnly
     /\ Reclaim(dead, gone)
     /\ color' = IF keep_color THEN color ELSE {}
     /\ freelist' = RebuiltLists(dead, kept)
     /\ old_count' = [r \in Regions |-> IF keep_color /\ r \in kept
                                        THEN Cardinality(SlotsOf(r) \cap color) ELSE 0]
     /\ young_count' = [r \in Regions |-> 0]
     /\ youngmap' = IF GenOn THEN {} ELSE youngmap
     /\ IF kept \subseteq LargeRegions
        THEN \E r \in Ordinary : g_regions' = kept \cup {r}
        ELSE g_regions' = kept

\* The large objects a young-only sweep looks at.
YoungLarge(visited) == {s \in Live : IsLarge(s) /\ RegionOf[s] \in visited}

\* The youngmap it leaves.
StillYoung_Dead(bits) == youngmap \ (bits \cap color)
StillYoung(bits) == youngmap \ bits

\* sprout_gc_sweep_young: only the slots recorded as young; ordinary regions and
\* the free lists stay, and a dead slot is pushed on the live lists.
SweepYoung ==
  LET visited == {r \in g_regions : young_count[r] > 0}
      bits == {s \in youngmap : RegionOf[s] \in visited}
      large == YoungLarge(visited)
      dead == (bits \cup large) \ color
      gone == {RegionOf[s] : s \in large \ color}
  IN /\ EndCycle
     /\ YoungOnly
     /\ Reclaim(dead, gone)
     /\ freelist' = [s \in Slots |-> IF s \in bits \ color THEN freelist[s] + 1 ELSE freelist[s]]
     /\ old_count' = [r \in Regions |-> old_count[r] +
                        Cardinality({s \in (bits \cup large) \cap color : RegionOf[s] = r})]
     /\ young_count' = [r \in Regions |-> IF r \in visited THEN 0 ELSE young_count[r]]
     /\ youngmap' = StillYoung(bits)
     /\ g_regions' = g_regions \ gone
     /\ UNCHANGED color

Exited == phase = "exited" /\ UNCHANGED vars

Mutator ==
  \/ Alloc \/ MakeSingleton \/ CachedSingleton \/ Load \/ Store \/ PopRoot
  \/ \E c \in Contexts :
       SpawnContext(c) \/ Deliver(c) \/ Take(c) \/ SwitchContext(c) \/ FreeContext(c)

Next ==
  \/ Mutator
  \/ CollectThreshold \/ CollectAtExit \/ DrainMark \/ SweepFull \/ SweepYoung
  \/ Exited

Spec == Init /\ [][Next]_vars

\* The collector, once started, runs to its end, the pump finds a task to run, and a
\* program that goes on allocating reaches its threshold again and again.
Collections ==
  /\ SF_vars(CollectThreshold) /\ WF_vars(DrainMark) /\ WF_vars(SweepFull) /\ WF_vars(SweepYoung)
  /\ WF_vars(current = NoContext /\ \E c \in Contexts : SwitchContext(c))
FairSpec == Spec /\ Collections

-----------------------------------------------------------------------------
(* Properties.                                                             *)

\* No word the program can follow leads to a reclaimed slot: a root of a registered
\* context, the field of any object in the heap, and the cached singleton are
\* objects, and an object is always in a region of the table.
NoDangling ==
  /\ \A c \in registry : roots[c] \subseteq Live
  /\ \A s \in Live : field[s] \in Live \cup {Nil} /\ RegionOf[s] \in g_regions
  /\ singleton \in Live \cup {Nil}

\* Between collections, an old object that holds a young one is in the remembered
\* set, which lists exactly the objects that carry the REMEMBERED bit; all are old.
RememberedComplete ==
  phase = "mutator" =>
    /\ \A s \in color : field[s] \in color \cup {Nil} \/ s \in remembered
    /\ remembered = rbit /\ rbit \subseteq color /\ color \subseteq Live
    /\ gen.colorless => color = {}

\* What SPROUT_FL_VERIFY compares: a slot is on the free lists exactly once when it
\* is FREE, whichever sweeps ran, and not at all otherwise.
FreeListsExact ==
  \A s \in Slots : freelist[s] = IF kind[s] = "FREE" /\ RegionOf[s] \in g_regions THEN 1 ELSE 0

\* What a program can reach from the registered contexts: the least set that holds
\* their roots and, with an object, the object in its field.
Reachable ==
  {s \in Slots : \A M \in SUBSET Slots :
     /\ \A c \in registry : roots[c] \subseteq M
     /\ \A m \in M : field[m] \in M \cup {Nil}
     => s \in M}

Collected == phase = "mark" /\ phase' # "mark"

\* A major leaves no garbage, whatever the minors before it kept; a minor frees no
\* old object; either way the objects left are as many as sprout_gc_gen_record
\* predicted before the sweep, on which it chose the kind of the next collection, and
\* no ordinary region is kept with nothing live in it (young-only sweeps included),
\* but for the one opened when every other was released.
SweepsExactly ==
  [][Collected =>
       /\ ~cycle.minor => Live' = Reachable
       /\ cycle.minor => color \ marked \subseteq Live'
       /\ GenOn => gen'.last_live = Cardinality(Live')
       /\ \A r \in g_regions' \ LargeRegions :
            \/ SlotsOf(r) \cap Live' # {}
            \/ g_regions' \ LargeRegions = {r} /\ \A s \in SlotsOf(r) : kind'[s] = "UNUSED"]_vars

\* Garbage is reclaimed in the end, also when it is old, though no minor looks at an
\* old object: the count of minors forces a major when the heap does not grow.
Garbage(s) == s \in Live \ Reachable
GarbageReclaimed == \A s \in Slots : [](Garbage(s) => <>(~Garbage(s) \/ phase = "exited"))

=============================================================================
