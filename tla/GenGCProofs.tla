---------------------------- MODULE GenGCProofs ----------------------------
(***************************************************************************)
(* Proofs about GenGC: for any heap, any contexts, either mode and any     *)
(* period of majors, no collection reclaims an object that a root, another *)
(* object or the singleton cache refers to, the remembered set is          *)
(* complete, no slot is on the free lists twice, and what a sweep leaves   *)
(* in the heap is exactly what the collection marked.                      *)
(***************************************************************************)
EXTENDS GenGC, FiniteSetTheorems, TLAPS

\* Where slots are: what is not an object is in no map, and what is in no region of
\* the table has not been handed out.
SlotsPlaced ==
  /\ \A s \in Slots : kind[s] = "FREE" => RegionOf[s] \in g_regions /\ ~IsLarge(s)
  /\ youngmap \subseteq Live
  /\ \A s \in youngmap : ~IsLarge(s)
  /\ color \subseteq Live

\* The collector's modes: off, every sweep clears the colors; a minor runs only when
\* some sweep has kept them.
ModeSound ==
  /\ ~GenOn => gen.colorless /\ youngmap = {}
  /\ cycle.minor => GenOn /\ ~gen.colorless
  /\ phase = "mutator" /\ gen.colorless => color = {}
  /\ phase = "mark" => cycle.minor \/ color = marked

\* The mark's side of RememberedComplete: an object marked or old whose child is
\* neither is still on the worklist, every root is marked, and nothing is remembered.
MarkSound ==
  phase = "mark" =>
    /\ \A s \in color : field[s] \in color \cup {Nil} \/ s \in wl
    /\ wl \subseteq color
    /\ \A c \in registry : roots[c] \subseteq color
    /\ remembered = {} /\ rbit = {}

\* What a young-only sweep relies on: it finds every object whose color bit is clear.
YoungFound ==
  GenOn /\ ~gen.colorless /\ (phase = "mark" => cycle.minor) =>
    \A s \in Live \ color : /\ IsLarge(s) \/ s \in youngmap
                            /\ young_count[RegionOf[s]] > 0

Heap == NoDangling /\ FreeListsExact /\ SlotsPlaced
Marks == ModeSound /\ RememberedComplete /\ MarkSound /\ YoungFound
GCInv == TypeOK /\ Heap /\ Marks

-----------------------------------------------------------------------------

\* The heap at startup satisfies every part of the invariant.
LEMMA InitInv == Init => GCInv
<1> SUFFICES ASSUME Init PROVE GCInv
  OBVIOUS
<1>1. Live = {}
  BY DEF Init, Live, Objects
<1>2. TypeOK
  BY ContextAssumption DEF Init, TypeOK
<1>3. Heap
  BY <1>1, RegionAssumption, ContextAssumption
  DEF Init, Heap, NoDangling, FreeListsExact, SlotsPlaced
<1>4. Marks
  BY <1>1 DEF Init, Marks, ModeSound, RememberedComplete, MarkSound, YoungFound
<1>5. QED
  BY <1>2, <1>3, <1>4 DEF GCInv

\* Whatever path an allocation takes its slot from, the new object is young and its
\* header carries no mark: no old object comes to hold an unrecorded young one.
LEMMA BornInv ==
  ASSUME GCInv, Running,
         NEW s \in Slots, NEW k \in Objects, NEW word \in roots[current] \cup {Nil},
         Born(s, k, word), s \notin Live,
         g_regions' = g_regions \cup {RegionOf[s]},
         freelist' \in [Slots -> Nat], freelist'[s] = 0,
         \A t \in Slots \ {s} : freelist'[t] = freelist[t],
         singleton' \in {singleton, s}
  PROVE  GCInv' /\ color' = color
<1> USE DEF GCInv, Heap, Marks
<1>1. current \in registry /\ phase = "mutator"
  BY DEF Running, TypeOK
<1>2. Live' = Live \cup {s}
  BY DEF Live, Born, TypeOK
<1>3. TypeOK'
  <2>1. young_count' \in [Regions -> Nat]
    <3>1. young_count \in [Regions -> Nat] /\ RegionOf[s] \in Regions
      BY RegionAssumption DEF TypeOK
    <3>2. young_count' = IF GenOn THEN [young_count EXCEPT ![RegionOf[s]] = @ + 1] ELSE young_count
      BY DEF Born, CountedYoung
    <3>3. QED
      BY <3>1, <3>2, ModeAssumption
  <2>2. kind' \in [Slots -> Objects \cup {"FREE", "UNUSED"}]
    BY DEF Born, TypeOK
  <2>3. field' \in [Slots -> Slots \cup {Nil}]
    BY <1>1 DEF Born, TypeOK
  <2>4. roots' \in [Contexts -> SUBSET Slots]
    BY <1>1 DEF Born, TypeOK
  <2>5. QED
    BY <2>1, <2>2, <2>3, <2>4, RegionAssumption DEF Born, TypeOK, gcVars
<1>4. s \notin color /\ s \notin rbit /\ color' = color /\ rbit' = rbit
  BY <1>1 DEF Born, SlotsPlaced, RememberedComplete
<1>5. NoDangling'
  <2>1. \A c \in registry' : roots'[c] \subseteq Live'
    BY <1>1, <1>2 DEF Born, NoDangling, TypeOK
  <2>2. \A t \in Live' : field'[t] \in Live' \cup {Nil} /\ RegionOf[t] \in g_regions'
    BY <1>1, <1>2 DEF Born, NoDangling, TypeOK, Live
  <2>3. QED
    BY <1>2, <2>1, <2>2 DEF NoDangling
<1>6. FreeListsExact'
  <2>1. \A t \in Slots \ {s} : kind'[t] = kind[t]
    BY DEF Born, TypeOK
  <2>2. kind'[s] # "FREE"
    BY DEF Born, TypeOK, Objects
  <2>3. \A t \in Slots : kind[t] = "FREE" => RegionOf[t] \in g_regions
    BY DEF SlotsPlaced
  <2>4. QED
    BY <2>1, <2>2, <2>3 DEF FreeListsExact
<1>7. SlotsPlaced'
  BY <1>2, <1>4 DEF SlotsPlaced, Born, TypeOK, IsLarge, Objects
<1>8. ModeSound'
  BY <1>1, <1>4 DEF ModeSound, Born, gcVars
<1>9. RememberedComplete'
  BY <1>1, <1>2, <1>4 DEF RememberedComplete, Born, gcVars, TypeOK
<1>10. MarkSound'
  BY <1>1 DEF MarkSound, Born, gcVars
<1>11. YoungFound'
  <2> SUFFICES ASSUME GenOn, ~gen.colorless, NEW t \in Live' \ color'
               PROVE  (IsLarge(t) \/ t \in youngmap') /\ young_count'[RegionOf[t]] > 0
    BY <1>1 DEF YoungFound, Born, gcVars
  <2>1. RegionOf[t] \in Regions /\ young_count[RegionOf[t]] \in Nat
    BY RegionAssumption DEF Live, TypeOK
  <2>2. CASE t = s
    BY <2>1, <2>2, RegionAssumption DEF Born, CountedYoung, IsLarge, TypeOK
  <2>3. CASE t # s
    <3>1. t \in Live \ color
      BY <1>2, <1>4, <2>3
    <3>2. (IsLarge(t) \/ t \in youngmap) /\ young_count[RegionOf[t]] > 0
      BY <1>1, <3>1 DEF YoungFound
    <3>3. QED
      BY <2>1, <3>2, RegionAssumption DEF Born, CountedYoung, TypeOK, IsLarge
  <2>4. QED
    BY <2>2, <2>3
<1>12. QED
  BY <1>3, <1>4, <1>5, <1>6, <1>7, <1>8, <1>9, <1>10, <1>11

\* The three ways to get a slot: from the free lists, by bumping, in a region of its own.
LEMMA AllocInv ==
  ASSUME GCInv, Running,
         NEW s \in Slots, NEW k \in Objects, NEW word \in roots[current] \cup {Nil},
         AllocReused(s, k, word) \/ AllocBump(s, k, word) \/ (k = "OBJ" /\ AllocLarge(s, word)),
         singleton' \in {singleton, s}
  PROVE  GCInv' /\ color' = color
<1> USE DEF GCInv, Heap
<1>1. Born(s, k, word)
  BY DEF AllocReused, AllocBump, AllocLarge
<1>2. CASE AllocReused(s, k, word)
  <2>1. freelist[s] > 0 /\ freelist \in [Slots -> Nat]
    BY <1>2 DEF AllocReused, Listed, TypeOK
  <2>2. kind[s] = "FREE" /\ RegionOf[s] \in g_regions /\ freelist[s] = 1
    BY <2>1 DEF FreeListsExact
  <2>3. s \notin Live
    BY <2>2 DEF Live, Objects
  <2>4. freelist' = [freelist EXCEPT ![s] = 0]
    BY <1>2, <2>2, <2>1 DEF AllocReused
  <2>5. g_regions' = g_regions \cup {RegionOf[s]}
    BY <1>2, <2>2 DEF AllocReused
  <2>6. freelist' \in [Slots -> Nat] /\ freelist'[s] = 0
        /\ \A t \in Slots \ {s} : freelist'[t] = freelist[t]
    BY <2>1, <2>4
  <2>7. QED
    BY <1>1, <2>3, <2>5, <2>6, BornInv
<1>3. CASE AllocBump(s, k, word) \/ AllocLarge(s, word)
  <2>1. kind[s] = "UNUSED"
    <3>1. CASE s \in Room
      BY <3>1 DEF Room
    <3>2. CASE s \in Closed
      BY <3>2 DEF Closed, SlotsPlaced, NoDangling, Live, TypeOK
    <3>3. QED
      BY <1>3, <3>1, <3>2 DEF AllocBump, AllocLarge
  <2>2. s \notin Live /\ freelist[s] = 0
    BY <2>1 DEF Live, Objects, FreeListsExact
  <2>3. freelist' = freelist /\ g_regions' = g_regions \cup {RegionOf[s]}
    BY <1>3 DEF AllocBump, AllocLarge
  <2>4. freelist' \in [Slots -> Nat]
    BY <2>3 DEF TypeOK
  <2>5. QED
    BY <1>1, <2>2, <2>3, <2>4, BornInv
<1>4. QED
  BY <1>2, <1>3

\* Loads, pops and the life of root contexts change roots only, and root only objects.
LEMMA RootsInv ==
  ASSUME GCInv, phase = "mutator",
         UNCHANGED <<heapVars, genVars, gcVars>>,
         registry' \subseteq Contexts, current' \in registry' \cup {NoContext},
         roots' \in [Contexts -> SUBSET Slots],
         \A c \in registry' : roots'[c] \subseteq Live
  PROVE  GCInv'
<1> USE DEF GCInv, Heap, Marks, heapVars, genVars, gcVars
<1>1. Live' = Live
  BY DEF Live
<1>2. TypeOK'
  BY DEF TypeOK
<1>3. Heap'
  BY <1>1 DEF NoDangling, FreeListsExact, SlotsPlaced, IsLarge
<1>4. ModeSound' /\ RememberedComplete' /\ MarkSound'
  BY <1>1 DEF ModeSound, RememberedComplete, MarkSound
<1>5. YoungFound'
  BY <1>1 DEF YoungFound, IsLarge
<1>6. QED
  BY <1>2, <1>3, <1>4, <1>5

\* The steps of the running task and of the pump that touch roots.
LEMMA TaskInv ==
  ASSUME GCInv,
         \/ CachedSingleton \/ Load \/ PopRoot
         \/ \E c \in Contexts :
              SpawnContext(c) \/ Deliver(c) \/ Take(c) \/ SwitchContext(c) \/ FreeContext(c)
  PROVE  GCInv'
<1> USE DEF GCInv, Heap
<1>1. roots \in [Contexts -> SUBSET Slots] /\ registry \subseteq Contexts
      /\ current \in registry \cup {NoContext}
  BY DEF TypeOK
<1>2. \A c \in registry : roots[c] \subseteq Live
  BY DEF NoDangling
<1>3. Live \subseteq Slots
  BY DEF Live
<1>4. ASSUME NEW v \in Live, Running, Rooted(v) PROVE GCInv'
  <2>1. current \in registry /\ phase = "mutator"
    BY <1>1, <1>4 DEF Running
  <2>2. roots' = [roots EXCEPT ![current] = roots[current] \cup {v}]
        /\ registry' = registry /\ current' = current
        /\ UNCHANGED <<heapVars, genVars, gcVars>>
    BY <1>4 DEF Rooted
  <2>3. roots' \in [Contexts -> SUBSET Slots]
    BY <1>1, <1>3, <1>4, <2>1, <2>2
  <2>4. \A c \in registry' : roots'[c] \subseteq Live
    BY <1>1, <1>2, <1>4, <2>1, <2>2
  <2>5. QED
    BY <1>1, <2>1, <2>2, <2>3, <2>4, RootsInv
<1>5. CASE CachedSingleton
  BY <1>4, <1>5 DEF CachedSingleton, NoDangling
<1>6. CASE Load
  <2>1. PICK s \in roots[current] : field[s] # Nil /\ Rooted(field[s])
    BY <1>6 DEF Load
  <2>2. Running /\ current \in registry
    BY <1>1, <1>6 DEF Load, Running
  <2>3. s \in Live
    BY <1>2, <2>1, <2>2
  <2>4. field[s] \in Live
    BY <2>1, <2>3 DEF NoDangling
  <2>5. QED
    BY <1>4, <2>1, <2>2, <2>4
<1>7. CASE PopRoot
  <2>1. current \in registry /\ phase = "mutator"
    BY <1>1, <1>7 DEF PopRoot, Running
  <2>2. PICK s \in roots[current] : roots' = [roots EXCEPT ![current] = roots[current] \ {s}]
    BY <1>7 DEF PopRoot
  <2>3. registry' = registry /\ current' = current /\ UNCHANGED <<heapVars, genVars, gcVars>>
    BY <1>7 DEF PopRoot
  <2>4. roots' \in [Contexts -> SUBSET Slots] /\ \A c \in registry' : roots'[c] \subseteq Live
    BY <1>1, <1>2, <2>1, <2>2, <2>3
  <2>5. QED
    BY <1>1, <2>1, <2>3, <2>4, RootsInv
<1>8. ASSUME NEW c \in Contexts, SpawnContext(c) PROVE GCInv'
  <2>1. current \in registry /\ phase = "mutator"
    BY <1>1, <1>8 DEF SpawnContext, Running
  <2>2. PICK work \in roots[current] : roots' = [roots EXCEPT ![c] = {work}]
    BY <1>8 DEF SpawnContext
  <2>3. registry' = registry \cup {c} /\ current' = current
        /\ UNCHANGED <<heapVars, genVars, gcVars>>
    BY <1>8 DEF SpawnContext
  <2>4. work \in Live
    BY <1>2, <2>1, <2>2
  <2>5. roots' \in [Contexts -> SUBSET Slots] /\ \A d \in registry' : roots'[d] \subseteq Live
    BY <1>1, <1>2, <1>3, <1>8, <2>2, <2>3, <2>4
  <2>6. QED
    BY <1>1, <1>8, <2>1, <2>3, <2>5, RootsInv
<1>9. ASSUME NEW c \in Contexts, SwitchContext(c) PROVE GCInv'
  <2>1. phase = "mutator" /\ UNCHANGED <<heapVars, genVars, gcVars>>
        /\ roots' = roots /\ registry' = registry /\ current' \in registry'
    BY <1>9 DEF SwitchContext
  <2>2. QED
    BY <1>1, <1>2, <2>1, RootsInv
<1>10. ASSUME NEW c \in Contexts, FreeContext(c) PROVE GCInv'
  <2>1. phase = "mutator" /\ UNCHANGED <<heapVars, genVars, gcVars>>
        /\ registry' = registry \ {c} /\ roots' = [roots EXCEPT ![c] = {}]
    BY <1>10 DEF FreeContext, Running
  <2>2. current' \in registry' \cup {NoContext}
    BY <1>1, <1>10, <2>1 DEF FreeContext, Running
  <2>3. roots' \in [Contexts -> SUBSET Slots] /\ \A d \in registry' : roots'[d] \subseteq Live
    BY <1>1, <1>2, <2>1
  <2>4. QED
    BY <1>1, <2>1, <2>2, <2>3, RootsInv
<1>11. ASSUME NEW c \in Contexts, Deliver(c) PROVE GCInv'
  <2>1. current \in registry /\ phase = "mutator" /\ c \in registry
        /\ registry' = registry /\ current' = current /\ UNCHANGED <<heapVars, genVars, gcVars>>
    BY <1>1, <1>11 DEF Deliver, Running
  <2>2. PICK value \in roots[current] : roots' = [roots EXCEPT ![c] = roots[c] \cup {value}]
    BY <1>11 DEF Deliver
  <2>3. value \in Live
    BY <1>2, <2>1, <2>2
  <2>4. roots' \in [Contexts -> SUBSET Slots] /\ \A d \in registry' : roots'[d] \subseteq Live
    BY <1>1, <1>2, <1>3, <2>1, <2>2, <2>3
  <2>5. QED
    BY <1>1, <2>1, <2>4, RootsInv
<1>12. ASSUME NEW c \in Contexts, Take(c) PROVE GCInv'
  <2>1. current \in registry /\ phase = "mutator" /\ c \in registry /\ c # current
        /\ registry' = registry /\ current' = current /\ UNCHANGED <<heapVars, genVars, gcVars>>
    BY <1>1, <1>12 DEF Take, Running
  <2>2. PICK value \in roots[c], left \in SUBSET roots[c] :
          roots' = [roots EXCEPT ![c] = left, ![current] = @ \cup {value}]
    BY <1>12 DEF Take
  <2>3. roots' = [d \in Contexts |-> IF d = current THEN roots[current] \cup {value}
                                     ELSE IF d = c THEN left ELSE roots[d]]
    BY <1>1, <2>1, <2>2
  <2>4. value \in Live /\ left \subseteq Live
    BY <1>2, <2>1, <2>2
  <2>5. roots' \in [Contexts -> SUBSET Slots] /\ \A d \in registry' : roots'[d] \subseteq Live
    BY <1>1, <1>2, <1>3, <2>1, <2>3, <2>4
  <2>6. QED
    BY <1>1, <2>1, <2>5, RootsInv
<1>13. QED
  BY <1>5, <1>6, <1>7, <1>8, <1>9, <1>10, <1>11, <1>12

\* The write barrier: a store into an old object leaves it in the remembered set,
\* whatever was stored.
LEMMA StoreInv ==
  ASSUME GCInv, Store
  PROVE  GCInv'
<1> USE DEF GCInv, Heap, Marks
<1>1. PICK s \in roots[current], word \in roots[current] \cup {Nil} :
        /\ kind[s] = "OBJ"
        /\ rbit' = IF Records(s) THEN rbit \cup {s} ELSE rbit
        /\ remembered' = IF Records(s) THEN remembered \cup {s} ELSE remembered
        /\ field' = [field EXCEPT ![s] = word]
  BY DEF Store
<1>2. current \in registry /\ phase = "mutator"
  BY DEF Store, Running, TypeOK
<1>3. UNCHANGED <<kind, g_regions, freelist, singleton, color, youngmap, young_count,
                  old_count, gen, rootVars, gcVars>>
  BY DEF Store
<1>4. s \in Live /\ s \in Slots /\ word \in Live \cup {Nil} /\ Live \subseteq Slots
  BY <1>1, <1>2 DEF NoDangling, Live
<1>5. Live' = Live
  BY <1>3 DEF Live
<1>6. TypeOK'
  <2>1. field' \in [Slots -> Slots \cup {Nil}]
    BY <1>1, <1>4 DEF TypeOK
  <2>2. rbit' \subseteq Slots /\ remembered' \subseteq Slots
    BY <1>1, <1>4 DEF TypeOK
  <2>3. QED
    BY <1>3, <2>1, <2>2 DEF TypeOK, rootVars, gcVars
<1>7. Heap'
  <2>1. NoDangling'
    BY <1>1, <1>3, <1>4, <1>5 DEF NoDangling, TypeOK, rootVars
  <2>2. FreeListsExact' /\ SlotsPlaced'
    BY <1>3, <1>5 DEF FreeListsExact, SlotsPlaced, IsLarge
  <2>3. QED
    BY <2>1, <2>2
<1>8. RememberedComplete'
  <2>1. remembered = rbit /\ rbit \subseteq color /\ color \subseteq Live
        /\ (gen.colorless => color = {})
        /\ \A t \in color : field[t] \in color \cup {Nil} \/ t \in remembered
    BY <1>2 DEF RememberedComplete
  <2>2. remembered' = rbit' /\ rbit' \subseteq color'
    BY <1>1, <1>3, <2>1 DEF Records
  <2>3. \A t \in color : t # s => field'[t] = field[t]
    BY <1>1, <2>1, <1>4 DEF TypeOK
  <2>4. s \in color => s \in remembered'
    BY <1>1, <2>1 DEF Records
  <2>5. QED
    BY <1>1, <1>3, <1>5, <2>1, <2>2, <2>3, <2>4 DEF RememberedComplete
<1>9. ModeSound' /\ MarkSound'
  BY <1>2, <1>3 DEF ModeSound, MarkSound, gcVars
<1>10. YoungFound'
  BY <1>3, <1>5 DEF YoungFound, gcVars, IsLarge
<1>11. QED
  BY <1>6, <1>7, <1>8, <1>9, <1>10

\* The start of a collection: a minor trusts the remembered set to hold every old
\* object that may lead to a young one, a major starts from no mark at all.
LEMMA StartMarkInv ==
  ASSUME GCInv, NEW reason \in {"threshold", "atexit"}, StartMark(reason)
  PROVE  GCInv'
<1> USE DEF GCInv, Heap, Marks
<1> DEFINE minor == GenOn /\ ChooseMinor(reason)
           colored == IF ClearsMarks(minor) THEN {} ELSE color
           listed == IF ClearsMarks(minor) THEN {} ELSE remembered
           newly == RootObjects \ colored
<1>1. /\ phase = "mutator" /\ phase' = "mark"
      /\ cycle' = [minor |-> minor, last |-> reason = "atexit"]
      /\ color' = colored \cup newly
      /\ marked' = newly
      /\ wl' = IF minor THEN newly \cup listed ELSE newly
      /\ remembered' = IF minor THEN {} ELSE listed
      /\ rbit' = RememberedBits(minor)
      /\ UNCHANGED <<heapVars, rootVars, youngmap, young_count, old_count, gen>>
  BY DEF StartMark
<1>2. minor \in BOOLEAN /\ minor = (GenOn /\ reason = "threshold" /\ ~gen.colorless)
  BY ModeAssumption DEF ChooseMinor
<1>3. /\ \A s \in color : field[s] \in color \cup {Nil} \/ s \in remembered
      /\ remembered = rbit /\ rbit \subseteq color /\ color \subseteq Live
      /\ gen.colorless => color = {}
  BY <1>1 DEF RememberedComplete
<1>4. \A c \in registry : roots[c] \subseteq RootObjects
  BY DEF RootObjects, NoDangling
<1>5. RootObjects \subseteq Live /\ Live' = Live
  BY <1>1 DEF RootObjects, Live, heapVars
<1>6. ~minor => colored = {} /\ listed = {}
  <2>1. CASE ClearsMarks(minor)
    BY <2>1
  <2>2. CASE ~ClearsMarks(minor) /\ ~minor
    <3>1. gen.colorless
      BY <2>2 DEF ClearsMarks, ModeSound
    <3>2. QED
      BY <1>3, <2>2, <3>1
  <2>3. QED
    BY <2>1, <2>2
<1>7. minor => colored = color /\ listed = remembered
  BY DEF ClearsMarks
<1>8. remembered' = {} /\ rbit' = {}
  BY <1>1, <1>2, <1>3, <1>6, <1>7 DEF RememberedBits
<1>9. TypeOK'
  <2>1. newly \subseteq Slots /\ color' \subseteq Slots /\ wl' \subseteq Slots
    BY <1>1, <1>5 DEF TypeOK, Live
  <2>2. cycle' \in [minor : BOOLEAN, last : BOOLEAN]
    BY <1>1, <1>2
  <2>3. QED
    BY <1>1, <1>8, <2>1, <2>2 DEF TypeOK, heapVars, rootVars
<1>10. Heap'
  <2>1. NoDangling' /\ FreeListsExact'
    BY <1>1, <1>5 DEF NoDangling, FreeListsExact, heapVars, rootVars
  <2>2. color' \subseteq Live'
    BY <1>1, <1>3, <1>5
  <2>3. SlotsPlaced'
    BY <1>1, <1>5, <2>2 DEF SlotsPlaced, heapVars, IsLarge
  <2>4. QED
    BY <2>1, <2>3
<1>11. ModeSound'
  BY <1>1, <1>2, <1>6 DEF ModeSound
<1>12. RememberedComplete'
  BY <1>1 DEF RememberedComplete
<1>13. MarkSound'
  <2>1. \A s \in color' : field'[s] \in color' \cup {Nil} \/ s \in wl'
    BY <1>1, <1>2, <1>3, <1>6, <1>7 DEF heapVars
  <2>2. wl' \subseteq color'
    BY <1>1, <1>3, <1>6, <1>7
  <2>3. \A c \in registry' : roots'[c] \subseteq color'
    BY <1>1, <1>4 DEF rootVars
  <2>4. QED
    BY <1>8, <2>1, <2>2, <2>3 DEF MarkSound
<1>14. YoungFound'
  <2> SUFFICES ASSUME minor, NEW s \in Live \ color'
               PROVE  (IsLarge(s) \/ s \in youngmap) /\ young_count[RegionOf[s]] > 0
    BY <1>1, <1>2, <1>5 DEF YoungFound, IsLarge
  <2>1. s \in Live \ color
    BY <1>1, <1>7
  <2>2. QED
    BY <1>1, <1>2, <2>1 DEF YoungFound
<1>15. QED
  BY <1>9, <1>10, <1>11, <1>12, <1>13, <1>14

\* One step of the drain keeps the worklist the only place with unmarked children.
LEMMA DrainInv ==
  ASSUME GCInv, DrainMark
  PROVE  GCInv'
<1> USE DEF GCInv, Heap, Marks
<1>1. phase = "mark" /\ UNCHANGED <<heapVars, rootVars, rbit, remembered, youngmap,
                                   young_count, old_count, gen, phase, cycle>>
  BY DEF DrainMark
<1>2. PICK s \in wl : /\ color' = color \cup (({field[s]} \cap Live) \ color)
                      /\ marked' = marked \cup (({field[s]} \cap Live) \ color)
                      /\ wl' = (wl \ {s}) \cup (({field[s]} \cap Live) \ color)
  BY DEF DrainMark
<1> DEFINE reached == ({field[s]} \cap Live) \ color
<1>3. Live' = Live /\ Live \subseteq Slots
  BY <1>1 DEF Live, heapVars
<1>4. TypeOK'
  BY <1>1, <1>2, <1>3 DEF TypeOK, heapVars, rootVars
<1>5. Heap'
  BY <1>1, <1>2, <1>3
  DEF NoDangling, FreeListsExact, SlotsPlaced, heapVars, rootVars, IsLarge
<1>6. ModeSound'
  BY <1>1, <1>2 DEF ModeSound
<1>7. RememberedComplete'
  BY <1>1 DEF RememberedComplete
<1>8. MarkSound'
  <2>1. s \in color /\ s \in Live
    BY <1>1, <1>2 DEF MarkSound, SlotsPlaced
  <2>2. field[s] \in color' \cup {Nil}
    BY <1>2, <2>1 DEF NoDangling
  <2>3. \A t \in color' : field'[t] \in color' \cup {Nil} \/ t \in wl'
    BY <1>1, <1>2, <2>2 DEF MarkSound, heapVars
  <2>4. QED
    BY <1>1, <1>2, <2>3 DEF MarkSound, rootVars
<1>9. YoungFound'
  BY <1>1, <1>2, <1>3 DEF YoungFound, IsLarge
<1>10. QED
  BY <1>4, <1>5, <1>6, <1>7, <1>8, <1>9

\* What is marked when the worklist is empty: the roots, and all that a marked or old
\* object holds.
LEMMA MarkComplete ==
  ASSUME GCInv, EndCycle
  PROVE  /\ \A c \in registry : roots[c] \subseteq color
         /\ \A s \in color : field[s] \in color \cup {Nil}
         /\ remembered = {} /\ rbit = {} /\ wl = {} /\ phase = "mark"
         /\ color \subseteq Live
BY DEF GCInv, Heap, Marks, MarkSound, EndCycle, SlotsPlaced

\* The counters that the end of a collection writes are naturals.
LEMMA RecordType ==
  ASSUME GCInv
  PROVE  /\ gen_record \in [colorless : BOOLEAN, last_live : Nat, baseline : Nat, minors : Nat]
         /\ ~GenOn => gen_record = gen
<1>1. marked \subseteq Slots /\ cycle.minor \in BOOLEAN
      /\ gen \in [colorless : BOOLEAN, last_live : Nat, baseline : Nat, minors : Nat]
  BY DEF GCInv, TypeOK
<1>2. Cardinality(marked) \in Nat
  BY <1>1, SlotsAssumption, FS_Subset, FS_CardinalityType
<1> DEFINE live == IF cycle.minor THEN gen.last_live + Cardinality(marked) ELSE Cardinality(marked)
           baseline == IF cycle.minor THEN gen.baseline ELSE Cardinality(marked)
<1>3. live \in Nat /\ baseline \in Nat /\ Minors \in Nat
  BY <1>1, <1>2 DEF Minors
<1>4. NextMajor(live, baseline, Minors) \in BOOLEAN
  BY DEF NextMajor
<1>5. GenOn => gen_record = [colorless |-> NextMajor(live, baseline, Minors),
                             last_live |-> live, baseline |-> baseline, minors |-> Minors]
  BY DEF gen_record
<1>6. ~GenOn => gen_record = gen
  BY DEF gen_record
<1> HIDE DEF live, baseline
<1>7. QED
  BY <1>1, <1>3, <1>4, <1>5, <1>6, ModeAssumption

\* Both sweeps leave exactly the marked and old objects, so nothing that is left holds
\* anything that is gone.
LEMMA SweptInv ==
  ASSUME GCInv, EndCycle, NEW dead, NEW gone, Reclaim(dead, gone),
         dead \subseteq Slots, Live \ color \subseteq dead, dead \cap color = {},
         \A s \in color : RegionOf[s] \notin gone /\ RegionOf[s] \in g_regions',
         \A s \in Slots : kind'[s] = "FREE" => RegionOf[s] \in g_regions' /\ ~IsLarge(s),
         g_regions' \subseteq Regions,
         freelist' \in [Slots -> Nat], FreeListsExact',
         young_count' \in [Regions -> Nat], old_count' \in [Regions -> Nat],
         youngmap' \subseteq youngmap \cap color,
         color' \in {color, {}},
         GenOn => (color' = {} <=> color = {} \/ gen_record.colorless),
         ~GenOn => color' = {}
  PROVE  GCInv' /\ Live' = color
<1> USE DEF GCInv, Heap, Marks
<1>1. /\ \A c \in registry : roots[c] \subseteq color
      /\ \A s \in color : field[s] \in color \cup {Nil}
      /\ remembered = {} /\ rbit = {} /\ wl = {} /\ phase = "mark"
      /\ color \subseteq Live
  BY MarkComplete
<1>2. /\ phase' \in {"mutator", "exited"} /\ gen' = gen_record
      /\ marked' = {} /\ cycle' = [minor |-> FALSE, last |-> FALSE]
      /\ UNCHANGED <<rootVars, remembered, wl>>
  BY DEF EndCycle
<1>3. \A s \in Slots : kind'[s] = IF RegionOf[s] \in gone THEN "UNUSED"
                                  ELSE IF s \in dead THEN "FREE" ELSE kind[s]
  BY DEF Reclaim
<1>4. \A s \in Slots : field'[s] = IF s \in dead \/ RegionOf[s] \in gone THEN Nil ELSE field[s]
  BY DEF Reclaim
<1>5. Live' = color
  <2>1. Live \subseteq Slots /\ Live' \subseteq Slots
    BY DEF Live
  <2>2. ASSUME NEW s \in color PROVE s \in Live'
    BY <1>1, <1>3, <2>1, <2>2 DEF Live
  <2>3. ASSUME NEW s \in Live' PROVE s \in color
    BY <1>3, <2>1, <2>3 DEF Live, Objects
  <2>4. QED
    BY <2>2, <2>3
<1>6. rbit' = {} /\ remembered' = {}
  BY <1>1, <1>2 DEF Reclaim
<1>7. TypeOK'
  <2>1. kind' \in [Slots -> Objects \cup {"FREE", "UNUSED"}]
    BY DEF Reclaim, TypeOK
  <2>2. field' \in [Slots -> Slots \cup {Nil}]
    BY DEF Reclaim, TypeOK
  <2>3. singleton' \in Slots \cup {Nil}
    BY DEF Reclaim, TypeOK
  <2>4. gen' \in [colorless : BOOLEAN, last_live : Nat, baseline : Nat, minors : Nat]
    BY <1>2, RecordType
  <2>5. color' \subseteq Slots /\ youngmap' \subseteq Slots
    BY <1>1 DEF Live
  <2>6. cycle' \in [minor : BOOLEAN, last : BOOLEAN]
    BY <1>2
  <2>7. QED
    BY <1>1, <1>2, <1>6, <2>1, <2>2, <2>3, <2>4, <2>5, <2>6 DEF TypeOK, rootVars
<1>8. NoDangling'
  <2>1. \A s \in color : field'[s] = field[s]
    BY <1>1, <1>4 DEF Live
  <2>2. singleton' \in color \cup {Nil}
    BY DEF Reclaim, NoDangling
  <2>3. QED
    BY <1>1, <1>2, <1>5, <2>1, <2>2 DEF NoDangling, rootVars
<1>9. SlotsPlaced'
  BY <1>5 DEF SlotsPlaced, IsLarge
<1>10. ModeSound'
  <2>1. ~GenOn => gen'.colorless /\ youngmap' = {}
    BY <1>2, RecordType DEF ModeSound
  <2>2. gen'.colorless => color' = {}
    BY <1>2, ModeAssumption
  <2>3. QED
    BY <1>2, <2>1, <2>2 DEF ModeSound
<1>11. RememberedComplete'
  <2>1. \A s \in color' : field'[s] \in color' \cup {Nil}
    BY <1>1, <1>4 DEF Live
  <2>2. gen'.colorless => color' = {}
    BY <1>2, ModeAssumption, RecordType
  <2>3. QED
    BY <1>5, <1>6, <2>1, <2>2 DEF RememberedComplete
<1>12. MarkSound'
  BY <1>2 DEF MarkSound
<1>13. YoungFound'
  <2>1. GenOn /\ ~gen'.colorless => color' = color
    BY <1>2
  <2>2. QED
    BY <1>5, <2>1 DEF YoungFound
<1>14. QED
  BY <1>5, <1>7, <1>8, <1>9, <1>10, <1>11, <1>12, <1>13

\* The full sweep: every region it keeps has a marked object, and the lists are
\* rebuilt from the regions it keeps.
LEMMA SweepFullInv ==
  ASSUME GCInv, SweepFull
  PROVE  GCInv' /\ Live' = color
<1> USE DEF GCInv, Heap, Marks
<1> DEFINE dead == Live \ color
           gone == EmptyAfter(Live \cap color)
           kept == g_regions \ gone
<1>1. /\ EndCycle /\ Reclaim(dead, gone)
      /\ color' = IF GenOn /\ ~gen_record.colorless THEN color ELSE {}
      /\ freelist' = RebuiltLists(dead, kept)
      /\ old_count' = [r \in Regions |-> IF GenOn /\ ~gen_record.colorless /\ r \in kept
                                         THEN Cardinality(SlotsOf(r) \cap color) ELSE 0]
      /\ young_count' = [r \in Regions |-> 0]
      /\ youngmap' = IF GenOn THEN {} ELSE youngmap
      /\ IF kept \subseteq LargeRegions
         THEN \E r \in Ordinary : g_regions' = kept \cup {r}
         ELSE g_regions' = kept
  BY DEF SweepFull
<1>2. color \subseteq Live /\ Live \subseteq Slots
  BY DEF SlotsPlaced, Live
<1>3. kept \subseteq g_regions' /\ g_regions' \subseteq Regions
  BY <1>1, RegionAssumption DEF TypeOK, Ordinary
<1>4. \A s \in color : RegionOf[s] \in kept
  BY <1>2 DEF EmptyAfter, SlotsOf, NoDangling
<1>5. \A s \in Slots : kind'[s] = IF RegionOf[s] \in gone THEN "UNUSED"
                                  ELSE IF s \in dead THEN "FREE" ELSE kind[s]
  BY <1>1 DEF Reclaim
<1>6. \A s \in Slots : s \in dead \/ kind[s] = "FREE" => RegionOf[s] \in g_regions
  BY DEF NoDangling, SlotsPlaced
<1>7. \A s \in Slots : kind'[s] = "FREE" <=> RegionOf[s] \in kept /\ (s \in dead \/ kind[s] = "FREE")
  BY <1>5, <1>6
<1>8. \A s \in dead : IsLarge(s) => RegionOf[s] \in gone
  <2> SUFFICES ASSUME NEW s \in dead, IsLarge(s) PROVE RegionOf[s] \in gone
    OBVIOUS
  <2>1. RegionOf[s] \in g_regions
    BY <1>2, <1>6
  <2>2. \A x \in SlotsOf(RegionOf[s]) : x = s
    BY <1>2, RegionAssumption DEF SlotsOf, IsLarge
  <2>3. QED
    BY <2>1, <2>2 DEF EmptyAfter
<1>9. \A s \in Slots : kind'[s] = "FREE" => RegionOf[s] \in g_regions' /\ ~IsLarge(s)
  BY <1>3, <1>7, <1>8 DEF SlotsPlaced
<1>10. FreeListsExact' /\ freelist' \in [Slots -> Nat]
  <2>1. \A s \in Slots : freelist'[s] = IF RegionOf[s] \in kept /\ (s \in dead \/ kind[s] = "FREE")
                                        THEN 1 ELSE 0
    BY <1>1 DEF RebuiltLists
  <2>2. FreeListsExact'
    BY <1>3, <1>7, <2>1 DEF FreeListsExact
  <2>3. freelist' \in [Slots -> Nat]
    BY <1>1 DEF RebuiltLists
  <2>4. QED
    BY <2>2, <2>3
<1>11. old_count' \in [Regions -> Nat] /\ young_count' \in [Regions -> Nat]
  <2>1. \A r \in Regions : Cardinality(SlotsOf(r) \cap color) \in Nat
    BY <1>2, SlotsAssumption, FS_Subset, FS_CardinalityType
  <2>2. QED
    BY <1>1, <2>1
<1>12. youngmap' \subseteq youngmap \cap color
  BY <1>1 DEF ModeSound
<1>13. gen_record.colorless \in BOOLEAN
  BY RecordType
<1>14. color' \in {color, {}} /\ (~GenOn => color' = {})
       /\ (GenOn => (color' = {} <=> color = {} \/ gen_record.colorless))
  BY <1>1, <1>13, ModeAssumption
<1> HIDE DEF dead, gone, kept
<1>15. dead \subseteq Slots /\ Live \ color \subseteq dead /\ dead \cap color = {}
  BY <1>2 DEF dead
<1>16. \A s \in color : RegionOf[s] \notin gone /\ RegionOf[s] \in g_regions'
  BY <1>3, <1>4 DEF kept
<1>17. EndCycle /\ Reclaim(dead, gone)
  BY <1>1
<1>18. QED
  BY <1>3, <1>9, <1>10, <1>11, <1>12, <1>14, <1>15, <1>16, <1>17, SweptInv

\* The young-only sweep: the youngmap and the counts lead it to every object that is
\* not marked, and to none that is on a free list already.
LEMMA SweepYoungInv ==
  ASSUME GCInv, SweepYoung
  PROVE  GCInv' /\ Live' = color
<1> USE DEF GCInv, Heap, Marks
<1> DEFINE visited == {r \in g_regions : young_count[r] > 0}
           bits == {s \in youngmap : RegionOf[s] \in visited}
           large == YoungLarge(visited)
           dead == (bits \cup large) \ color
           gone == {RegionOf[s] : s \in large \ color}
<1>1. /\ EndCycle /\ YoungOnly /\ Reclaim(dead, gone)
      /\ freelist' = [s \in Slots |-> IF s \in bits \ color THEN freelist[s] + 1 ELSE freelist[s]]
      /\ old_count' = [r \in Regions |-> old_count[r] +
                         Cardinality({s \in (bits \cup large) \cap color : RegionOf[s] = r})]
      /\ young_count' = [r \in Regions |-> IF r \in visited THEN 0 ELSE young_count[r]]
      /\ youngmap' = StillYoung(bits)
      /\ g_regions' = g_regions \ gone
      /\ color' = color
  BY DEF SweepYoung
<1>2. color \subseteq Live /\ Live \subseteq Slots /\ youngmap \subseteq Live /\ phase = "mark"
  BY <1>1 DEF SlotsPlaced, Live, EndCycle
<1>3. GenOn /\ ~gen.colorless /\ cycle.minor /\ ~gen_record.colorless
  BY <1>1 DEF YoungOnly, ModeSound
<1>4. large \subseteq Live /\ \A s \in large : IsLarge(s)
  BY DEF YoungLarge
<1>5. \A s \in bits : ~IsLarge(s) /\ s \in Live
  BY <1>2 DEF SlotsPlaced
<1>6. Live \ color \subseteq dead
  <2> SUFFICES ASSUME NEW s \in Live \ color PROVE s \in bits \cup large
    OBVIOUS
  <2>1. (IsLarge(s) \/ s \in youngmap) /\ young_count[RegionOf[s]] > 0
    BY <1>2, <1>3 DEF YoungFound
  <2>2. RegionOf[s] \in visited
    BY <2>1 DEF NoDangling
  <2>3. QED
    BY <2>1, <2>2 DEF YoungLarge
<1>7. \A s \in Slots : RegionOf[s] \in gone => IsLarge(s) /\ s \in large \ color
  BY <1>2, <1>4, RegionAssumption DEF IsLarge
<1>8. \A s \in Slots : kind'[s] = IF RegionOf[s] \in gone THEN "UNUSED"
                                  ELSE IF s \in dead THEN "FREE" ELSE kind[s]
  BY <1>1 DEF Reclaim
<1>9. \A s \in Slots : kind'[s] = "FREE" <=> s \in bits \ color \/ kind[s] = "FREE"
  <2> SUFFICES ASSUME NEW s \in Slots
               PROVE  kind'[s] = "FREE" <=> s \in bits \ color \/ kind[s] = "FREE"
    OBVIOUS
  <2>1. CASE RegionOf[s] \in gone
    <3>1. IsLarge(s) /\ kind'[s] = "UNUSED"
      BY <1>7, <1>8, <2>1
    <3>2. kind[s] # "FREE" /\ s \notin bits
      BY <1>5, <3>1 DEF SlotsPlaced
    <3>3. QED
      BY <3>1, <3>2
  <2>2. CASE RegionOf[s] \notin gone
    BY <1>8, <2>2
  <2>3. QED
    BY <2>1, <2>2
<1>10. \A s \in Slots : ~IsLarge(s) /\ RegionOf[s] \in g_regions => RegionOf[s] \in g_regions'
  BY <1>1, <1>7
<1>11. \A s \in Slots : kind'[s] = "FREE" => RegionOf[s] \in g_regions' /\ ~IsLarge(s)
  BY <1>5, <1>9, <1>10 DEF SlotsPlaced, NoDangling
<1>12. FreeListsExact' /\ freelist' \in [Slots -> Nat]
  <2>1. freelist \in [Slots -> Nat]
    BY DEF TypeOK
  <2>2. \A s \in bits : freelist[s] = 0 /\ kind[s] # "FREE"
    BY <1>2, <1>5 DEF FreeListsExact, Live, Objects
  <2>3. \A s \in Slots : freelist[s] = IF kind[s] = "FREE" THEN 1 ELSE 0
    BY DEF FreeListsExact, SlotsPlaced
  <2>4. \A s \in Slots : freelist'[s] = IF s \in bits \ color \/ kind[s] = "FREE" THEN 1 ELSE 0
    BY <1>1, <2>1, <2>2, <2>3
  <2>5. FreeListsExact'
    BY <1>9, <1>11, <2>4 DEF FreeListsExact
  <2>6. freelist' \in [Slots -> Nat]
    BY <1>1, <2>1
  <2>7. QED
    BY <2>5, <2>6
<1>13. old_count' \in [Regions -> Nat] /\ young_count' \in [Regions -> Nat]
  <2> DEFINE grown(r) == Cardinality({s \in (bits \cup large) \cap color : RegionOf[s] = r})
  <2>1. young_count \in [Regions -> Nat] /\ old_count \in [Regions -> Nat]
    BY DEF TypeOK
  <2>2. \A r \in Regions : grown(r) \in Nat
    <3> SUFFICES ASSUME NEW r \in Regions PROVE grown(r) \in Nat
      OBVIOUS
    <3>1. {s \in (bits \cup large) \cap color : RegionOf[s] = r} \subseteq Slots
      BY <1>2
    <3>2. QED
      BY <3>1, SlotsAssumption, FS_Subset, FS_CardinalityType
  <2>3. old_count' = [r \in Regions |-> old_count[r] + grown(r)]
    BY <1>1
  <2>4. young_count' \in [Regions -> Nat]
    BY <1>1, <2>1
  <2> HIDE DEF grown
  <2>5. old_count' \in [Regions -> Nat]
    BY <2>1, <2>2, <2>3
  <2>6. QED
    BY <2>4, <2>5
<1>14. youngmap' \subseteq youngmap \cap color
  BY <1>1, <1>2, <1>5, <1>6 DEF StillYoung, SlotsPlaced, YoungLarge
<1>15. g_regions' \subseteq Regions
  BY <1>1 DEF TypeOK
<1>16. \A s \in color : RegionOf[s] \notin gone /\ RegionOf[s] \in g_regions'
  BY <1>1, <1>2, <1>7 DEF NoDangling
<1>17. color' \in {color, {}} /\ (~GenOn => color' = {})
       /\ (GenOn => (color' = {} <=> color = {} \/ gen_record.colorless))
  BY <1>1, <1>3
<1>18. dead \subseteq Slots /\ dead \cap color = {}
  BY <1>2, <1>4, <1>5
<1> HIDE DEF dead, gone
<1>19. QED
  BY <1>1, <1>6, <1>11, <1>12, <1>13, <1>14, <1>15, <1>16, <1>17, <1>18, SweptInv

-----------------------------------------------------------------------------

\* Every step of the program and of the collector preserves the invariant.
LEMMA NextInv == GCInv /\ [Next]_vars => GCInv'
<1> SUFFICES ASSUME GCInv, [Next]_vars PROVE GCInv'
  OBVIOUS
<1>1. CASE Alloc
  <2>1. Running /\ singleton' = singleton
    BY <1>1 DEF Alloc
  <2>2. PICK s \in Slots, word \in roots[current] \cup {Nil} :
          AllocReused(s, "OBJ", word) \/ AllocBump(s, "OBJ", word) \/ AllocLarge(s, word)
    BY <1>1 DEF Alloc
  <2>3. "OBJ" \in Objects
    BY DEF Objects
  <2>4. QED
    BY <2>1, <2>2, <2>3, AllocInv
<1>2. CASE MakeSingleton
  <2>1. Running
    BY <1>2 DEF MakeSingleton
  <2>2. PICK s \in Slots : /\ AllocReused(s, "NULLARY", Nil) \/ AllocBump(s, "NULLARY", Nil)
                           /\ singleton' = s
    BY <1>2 DEF MakeSingleton
  <2>3. "NULLARY" \in Objects
    BY DEF Objects
  <2>4. QED
    BY <2>1, <2>2, <2>3, AllocInv
<1>3. CASE Store
  BY <1>3, StoreInv
<1>4. CASE \/ CachedSingleton \/ Load \/ PopRoot
           \/ \E c \in Contexts :
                SpawnContext(c) \/ Deliver(c) \/ Take(c) \/ SwitchContext(c) \/ FreeContext(c)
  BY <1>4, TaskInv
<1>5. CASE CollectThreshold \/ CollectAtExit
  BY <1>5, StartMarkInv DEF CollectThreshold, CollectAtExit
<1>6. CASE DrainMark
  BY <1>6, DrainInv
<1>7. CASE SweepFull
  BY <1>7, SweepFullInv
<1>8. CASE SweepYoung
  BY <1>8, SweepYoungInv
<1>9. CASE UNCHANGED vars
  <2> USE <1>9 DEF vars, heapVars, genVars, rootVars, gcVars, GCInv, Heap, Marks
  <2>1. Live' = Live
    BY DEF Live
  <2>2. TypeOK'
    BY DEF TypeOK
  <2>3. Heap'
    BY <2>1 DEF NoDangling, FreeListsExact, SlotsPlaced, IsLarge
  <2>4. ModeSound' /\ RememberedComplete' /\ MarkSound'
    BY <2>1 DEF ModeSound, RememberedComplete, MarkSound
  <2>5. YoungFound'
    BY <2>1 DEF YoungFound, IsLarge
  <2>6. QED
    BY <2>2, <2>3, <2>4, <2>5
<1>10. QED
  BY <1>1, <1>2, <1>3, <1>4, <1>5, <1>6, <1>7, <1>8, <1>9 DEF Next, Mutator, Exited

\* The inductive invariant holds in every state of every run of the collector.
THEOREM GCInvariant == Spec => []GCInv
<1>1. QED
  BY InitInv, NextInv, PTL DEF Spec

\* No collection, minor or major, reclaims an object that the program or another
\* object can still follow a word to.
THEOREM GCSafety == Spec => []NoDangling
<1>1. GCInv => NoDangling
  BY DEF GCInv, Heap
<1>2. QED
  BY <1>1, GCInvariant, PTL

\* The write barrier is enough: between collections every old object that holds a
\* young one is in the remembered set.
THEOREM GCBarrier == Spec => []RememberedComplete
<1>1. GCInv => RememberedComplete
  BY DEF GCInv, Marks
<1>2. QED
  BY <1>1, GCInvariant, PTL

\* Mixing full and young-only sweeps never lists a slot twice, lists an object, or
\* loses a FREE slot.
THEOREM GCFreeLists == Spec => []FreeListsExact
<1>1. GCInv => FreeListsExact
  BY DEF GCInv, Heap
<1>2. QED
  BY <1>1, GCInvariant, PTL

-----------------------------------------------------------------------------
(* What a sweep leaves, exactly *)

\* What the exactness of a sweep rests on: the marks are the new colors, the count of
\* survivors that the last collection recorded is that of the old objects, a region
\* that counts old objects has one, and a major colors nothing but what the program
\* can reach.
MarkedColored == phase = "mark" => marked \subseteq color
OldCounted ==
  /\ phase = "mutator" /\ GenOn /\ ~gen.colorless => gen.last_live = Cardinality(color)
  /\ phase = "mark" /\ cycle.minor => gen.last_live = Cardinality(color \ marked)
OldPlaced ==
  phase = "mutator" \/ (phase = "mark" /\ cycle.minor) =>
    \A r \in Regions : old_count[r] # 0 => SlotsOf(r) \cap color # {}
MajorReaches == phase = "mark" /\ ~cycle.minor => color \subseteq Reachable
ExactInv == MarkedColored /\ OldCounted /\ OldPlaced /\ MajorReaches

\* A set that holds the roots and is closed under the field.
ClosedSet(M) ==
  /\ \A c \in registry : roots[c] \subseteq M
  /\ \A m \in M : field[m] \in M \cup {Nil}

\* Reachable is in every closed set, and what is in every closed set is reachable.
LEMMA ReachableLeast ==
  /\ \A M \in SUBSET Slots : ClosedSet(M) => Reachable \subseteq M
  /\ \A s \in Slots : (\A M \in SUBSET Slots : ClosedSet(M) => s \in M) => s \in Reachable
  /\ \A s \in Reachable, M \in SUBSET Slots : ClosedSet(M) => s \in M
BY DEF Reachable, ClosedSet

\* Nothing is counted or old at startup.
LEMMA ExactInit == Init => ExactInv
BY DEF Init, ExactInv, MarkedColored, OldCounted, OldPlaced, MajorReaches

\* A step of the program that leaves colors and counts alone.
LEMMA ExactQuiet ==
  ASSUME ExactInv, phase = "mutator", UNCHANGED <<color, old_count, gen, phase>>
  PROVE  ExactInv'
BY DEF ExactInv, MarkedColored, OldCounted, OldPlaced, MajorReaches, SlotsOf

\* The start of a collection: a minor keeps the old colors beside the marks, a major
\* starts from the roots alone.
LEMMA ExactStart ==
  ASSUME GCInv, ExactInv, NEW reason \in {"threshold", "atexit"}, StartMark(reason)
  PROVE  ExactInv'
<1> DEFINE minor == GenOn /\ ChooseMinor(reason)
           colored == IF ClearsMarks(minor) THEN {} ELSE color
           newly == RootObjects \ colored
<1>1. /\ phase = "mutator" /\ phase' = "mark" /\ cycle'.minor = minor
      /\ color' = colored \cup newly /\ marked' = newly
      /\ UNCHANGED <<heapVars, rootVars, old_count, gen>>
  BY DEF StartMark
<1>2. /\ minor => colored = color /\ GenOn /\ ~gen.colorless
      /\ ~minor => colored = {}
  <2>1. gen.colorless => color = {}
    BY <1>1 DEF GCInv, Marks, RememberedComplete
  <2>2. ~GenOn => gen.colorless
    BY DEF GCInv, Marks, ModeSound
  <2> QED BY <2>1, <2>2 DEF ClearsMarks, ChooseMinor
<1> HIDE DEF minor, colored
<1>3. MarkedColored'
  BY <1>1 DEF MarkedColored
<1>4. OldCounted'
  <2>1. minor => color' \ marked' = color
    BY <1>1, <1>2
  <2>2. minor => gen'.last_live = Cardinality(color' \ marked')
    BY <1>1, <1>2, <2>1 DEF ExactInv, OldCounted
  <2> QED BY <1>1, <2>2 DEF OldCounted
<1>5. OldPlaced'
  <2>1. \A r \in Regions : old_count[r] # 0 => SlotsOf(r) \cap color # {}
    BY <1>1 DEF ExactInv, OldPlaced
  <2>2. minor => color \subseteq color'
    BY <1>1, <1>2
  <2>3. minor => \A r \in Regions : old_count'[r] # 0 => SlotsOf(r) \cap color' # {}
    BY <1>1, <2>1, <2>2
  <2> QED BY <1>1, <2>3 DEF OldPlaced, SlotsOf
<1>6. MajorReaches'
  <2>1. ~minor => color' \subseteq RootObjects
    BY <1>1, <1>2
  <2>2. RootObjects \subseteq Reachable
    <3> SUFFICES ASSUME NEW s \in RootObjects PROVE s \in Reachable
      OBVIOUS
    <3>1. s \in Slots /\ \E c \in registry : s \in roots[c]
      BY DEF RootObjects, Live
    <3> QED BY <3>1, ReachableLeast DEF ClosedSet
  <2>3. Reachable' = Reachable
    BY <1>1 DEF Reachable, heapVars, rootVars
  <2> QED BY <1>1, <2>1, <2>2, <2>3 DEF MajorReaches
<1> QED BY <1>3, <1>4, <1>5, <1>6 DEF ExactInv

\* One object expanded: what it newly colors is marked, and reachable if it was.
LEMMA ExactDrain ==
  ASSUME GCInv, ExactInv, DrainMark
  PROVE  ExactInv'
<1>1. phase = "mark" /\ UNCHANGED <<heapVars, rootVars, old_count, gen, phase, cycle>>
  BY DEF DrainMark
<1>2. PICK s \in wl : /\ color' = color \cup (({field[s]} \cap Live) \ color)
                      /\ marked' = marked \cup (({field[s]} \cap Live) \ color)
  BY DEF DrainMark
<1> DEFINE reached == ({field[s]} \cap Live) \ color
<1>3. color' = color \cup reached /\ marked' = marked \cup reached /\ reached \cap color = {}
  BY <1>2
<1>4. MarkedColored'
  BY <1>1, <1>3 DEF ExactInv, MarkedColored
<1>5. OldCounted'
  <2>1. color' \ marked' = color \ marked
    BY <1>3
  <2> QED BY <1>1, <2>1 DEF ExactInv, OldCounted
<1>6. OldPlaced'
  <2>1. color \subseteq color'
    BY <1>3
  <2> QED BY <1>1, <2>1 DEF ExactInv, OldPlaced, SlotsOf
<1>7. MajorReaches'
  <2> SUFFICES ASSUME ~cycle.minor PROVE color' \subseteq Reachable'
    BY <1>1 DEF MajorReaches
  <2>1. color \subseteq Reachable /\ s \in color
    BY <1>1 DEF ExactInv, MajorReaches, GCInv, Marks, MarkSound
  <2>2. ASSUME NEW t \in reached PROVE t \in Reachable
    <3>1. t = field[s] /\ t \in Slots /\ t # Nil
      BY NilAssumption DEF Live
    <3>2. ASSUME NEW M \in SUBSET Slots, ClosedSet(M) PROVE t \in M
      <4>1. s \in M
        BY <2>1, <3>2, ReachableLeast
      <4> QED BY <3>1, <3>2, <4>1 DEF ClosedSet
    <3> QED BY <3>1, <3>2, ReachableLeast
  <2>3. Reachable' = Reachable
    BY <1>1 DEF Reachable, heapVars, rootVars
  <2> QED BY <1>3, <2>1, <2>2, <2>3
<1> QED BY <1>4, <1>5, <1>6, <1>7 DEF ExactInv

\* The count of survivors that gen_record predicts is that of the colored objects.
LEMMA Predicted ==
  ASSUME GCInv, ExactInv, phase = "mark", GenOn
  PROVE  gen_record.last_live = Cardinality(color)
<1>1. gen_record.last_live = IF cycle.minor THEN gen.last_live + Cardinality(marked) ELSE Cardinality(marked)
  BY DEF gen_record
<1>2. color \subseteq Slots /\ marked \subseteq color
  BY DEF GCInv, TypeOK, ExactInv, MarkedColored
<1>3. CASE ~cycle.minor
  <2>1. color = marked
    BY <1>3 DEF GCInv, Marks, ModeSound
  <2>2. gen_record.last_live = Cardinality(marked)
    BY <1>1, <1>3
  <2> QED BY <2>1, <2>2
<1>4. CASE cycle.minor
  <2> DEFINE old == color \ marked
  <2>1. IsFiniteSet(color) /\ IsFiniteSet(marked) /\ IsFiniteSet(old)
    BY <1>2, SlotsAssumption, FS_Subset
  <2>2. old \cup marked = color /\ old \cap marked = {}
    BY <1>2
  <2>3. gen.last_live = Cardinality(old)
    BY <1>4 DEF ExactInv, OldCounted
  <2> HIDE DEF old
  <2>4. Cardinality(old \cup marked) = Cardinality(old) + Cardinality(marked) - Cardinality(old \cap marked)
    BY <2>1, FS_Union
  <2>5. Cardinality(old \cap marked) = 0
    BY <2>2, FS_EmptySet
  <2>6. Cardinality(old) \in Nat /\ Cardinality(marked) \in Nat
    BY <2>1, FS_CardinalityType
  <2>7. Cardinality(color) = Cardinality(old) + Cardinality(marked)
    <3>1. Cardinality(old \cup marked) = Cardinality(color)
      BY ONLY <2>2
    <3>2. ASSUME NEW a \in Nat, NEW b \in Nat, NEW u, NEW n, u = a + b - n, n = 0
          PROVE  u = a + b
      BY ONLY <3>2
    <3>3. Cardinality(old \cup marked) = Cardinality(old) + Cardinality(marked)
      BY ONLY <2>4, <2>5, <2>6, <3>2
    <3> QED BY ONLY <3>1, <3>3
  <2>8. gen_record.last_live = gen.last_live + Cardinality(marked)
    BY ONLY <1>1, <1>4
  <2> QED BY ONLY <2>3, <2>7, <2>8
<1> QED BY <1>3, <1>4

\* The end of a collection keeps the counts, whichever sweep ran.
LEMMA ExactSwept ==
  ASSUME GCInv, ExactInv, EndCycle, gen_record.colorless \/ ~GenOn \/ color' = color,
         \A r \in Regions : old_count'[r] # 0 => SlotsOf(r) \cap color' # {}
  PROVE  ExactInv'
<1>1. phase = "mark" /\ phase' # "mark" /\ gen' = gen_record
  BY DEF EndCycle
<1>2. MarkedColored' /\ MajorReaches'
  BY <1>1 DEF MarkedColored, MajorReaches
<1>3. OldCounted'
  BY <1>1, Predicted DEF OldCounted
<1>4. OldPlaced'
  BY DEF OldPlaced, SlotsOf
<1> QED BY <1>2, <1>3, <1>4 DEF ExactInv

\* The full sweep counts the old objects of each region it keeps.
LEMMA ExactFull ==
  ASSUME GCInv, ExactInv, SweepFull
  PROVE  ExactInv'
<1> DEFINE keep == GenOn /\ ~gen_record.colorless
           kept == g_regions \ EmptyAfter(Live \cap color)
<1>1. /\ EndCycle /\ color' = IF keep THEN color ELSE {}
      /\ old_count' = [r \in Regions |-> IF keep /\ r \in kept THEN Cardinality(SlotsOf(r) \cap color) ELSE 0]
  BY DEF SweepFull
<1> HIDE DEF keep, kept
<1>2. ASSUME NEW r \in Regions, old_count'[r] # 0 PROVE SlotsOf(r) \cap color' # {}
  <2>1. keep /\ Cardinality(SlotsOf(r) \cap color) # 0
    BY <1>1, <1>2
  <2>2. SlotsOf(r) \cap color # {}
    BY <2>1, FS_EmptySet
  <2> QED BY <1>1, <2>1, <2>2
<1>3. gen_record.colorless \/ ~GenOn \/ color' = color
  BY <1>1 DEF keep
<1> QED BY <1>1, <1>2, <1>3, ExactSwept

\* The young-only sweep adds to each region the objects it promotes.
LEMMA ExactYoung ==
  ASSUME GCInv, ExactInv, SweepYoung
  PROVE  ExactInv'
<1> DEFINE visited == {r \in g_regions : young_count[r] > 0}
           bits == {s \in youngmap : RegionOf[s] \in visited}
           large == YoungLarge(visited)
           promoted(r) == {s \in (bits \cup large) \cap color : RegionOf[s] = r}
<1>1. /\ EndCycle /\ YoungOnly /\ color' = color
      /\ old_count' = [r \in Regions |-> old_count[r] + Cardinality(promoted(r))]
  BY DEF SweepYoung
<1>2. cycle.minor /\ phase = "mark"
  BY <1>1 DEF YoungOnly, EndCycle
<1>3. ASSUME NEW r \in Regions PROVE promoted(r) \subseteq SlotsOf(r) \cap color
  BY DEF SlotsOf, GCInv, TypeOK
<1> HIDE DEF promoted
<1>4. ASSUME NEW r \in Regions, old_count'[r] # 0 PROVE SlotsOf(r) \cap color' # {}
  <2>1. CASE old_count[r] # 0
    BY <1>1, <1>2, <2>1 DEF ExactInv, OldPlaced
  <2>2. CASE old_count[r] = 0
    <3>1. Cardinality(promoted(r)) # 0
      <4>1. old_count'[r] = 0 + Cardinality(promoted(r))
        BY <1>1, <2>2
      <4>2. Cardinality({}) = 0
        BY FS_EmptySet
      <4> QED BY <1>4, <4>1
    <3>2. promoted(r) # {}
      BY <3>1, FS_EmptySet
    <3> QED BY <1>1, <1>3, <3>2
  <2> QED BY <2>1, <2>2
<1> QED BY <1>1, <1>4, ExactSwept

\* Every step keeps the counts and the marks exact.
LEMMA ExactNext == GCInv /\ ExactInv /\ [Next]_vars => ExactInv'
<1> SUFFICES ASSUME GCInv, ExactInv, [Next]_vars PROVE ExactInv'
  OBVIOUS
<1>1. CASE Alloc \/ MakeSingleton
  <2>1. Running /\ \E s \in Slots, k \in Objects, word \in roots[current] \cup {Nil} :
          /\ AllocReused(s, k, word) \/ AllocBump(s, k, word) \/ (k = "OBJ" /\ AllocLarge(s, word))
          /\ singleton' \in {singleton, s}
    BY <1>1 DEF Alloc, MakeSingleton, Objects
  <2>2. PICK s \in Slots, k \in Objects, word \in roots[current] \cup {Nil} :
          /\ AllocReused(s, k, word) \/ AllocBump(s, k, word) \/ (k = "OBJ" /\ AllocLarge(s, word))
          /\ singleton' \in {singleton, s}
    BY <2>1
  <2>3. color' = color
    BY <2>1, <2>2, AllocInv
  <2>4. Born(s, k, word)
    BY <2>2 DEF AllocReused, AllocBump, AllocLarge
  <2>5. phase = "mutator" /\ UNCHANGED <<old_count, gen, phase>>
    BY <2>1, <2>4 DEF Born, gcVars, Running
  <2> QED BY <2>3, <2>5, ExactQuiet
<1>2. CASE \/ Store \/ CachedSingleton \/ Load \/ PopRoot
           \/ \E c \in Contexts :
                SpawnContext(c) \/ Deliver(c) \/ Take(c) \/ SwitchContext(c) \/ FreeContext(c)
  <2>1. phase = "mutator" /\ UNCHANGED <<color, old_count, gen, phase>>
    BY <1>2 DEF Store, CachedSingleton, Load, PopRoot, SpawnContext, Deliver, Take, SwitchContext, FreeContext,
                Rooted, Running, genVars, gcVars
  <2> QED BY <2>1, ExactQuiet
<1>3. CASE CollectThreshold \/ CollectAtExit
  BY <1>3, ExactStart DEF CollectThreshold, CollectAtExit
<1>4. CASE DrainMark
  BY <1>4, ExactDrain
<1>5. CASE SweepFull
  BY <1>5, ExactFull
<1>6. CASE SweepYoung
  BY <1>6, ExactYoung
<1>7. CASE UNCHANGED vars
  <2>1. UNCHANGED <<color, old_count, gen, phase, cycle, marked, registry, roots, field>>
    BY <1>7 DEF vars, heapVars, genVars, rootVars, gcVars
  <2>2. Reachable' = Reachable
    BY <2>1 DEF Reachable
  <2> QED BY <2>1, <2>2 DEF ExactInv, MarkedColored, OldCounted, OldPlaced, MajorReaches, SlotsOf
<1> QED BY <1>1, <1>2, <1>3, <1>4, <1>5, <1>6, <1>7 DEF Next, Mutator, Exited

\* An ordinary region left in the table by a full sweep has a survivor, or is the one
\* opened when there was none left.
LEMMA FullLeaves ==
  ASSUME GCInv, SweepFull, Live' = color, NEW r \in g_regions' \ LargeRegions
  PROVE  \/ SlotsOf(r) \cap Live' # {}
         \/ g_regions' \ LargeRegions = {r} /\ \A s \in SlotsOf(r) : kind'[s] = "UNUSED"
<1> DEFINE gone == EmptyAfter(Live \cap color)
           kept == g_regions \ gone
           dead == Live \ color
<1>1. /\ Reclaim(dead, gone)
      /\ IF kept \subseteq LargeRegions THEN \E x \in Ordinary : g_regions' = kept \cup {x} ELSE g_regions' = kept
  BY DEF SweepFull
<1>2. color \subseteq Live
  BY DEF GCInv, Heap, SlotsPlaced
<1>3. CASE r \in kept
  <2>1. SlotsOf(r) \cap (Live \cap color) # {}
    BY <1>3 DEF EmptyAfter
  <2> QED BY <2>1
<1>4. CASE r \notin kept
  <2> HIDE DEF kept
  <2>1. kept \subseteq LargeRegions /\ g_regions' \ LargeRegions = {r}
    BY <1>1, <1>4
  <2>2. ASSUME NEW s \in SlotsOf(r) PROVE kind'[s] = "UNUSED"
    <3>1. s \in Slots /\ RegionOf[s] = r
      BY DEF SlotsOf
    <3>2. kind'[s] = IF r \in gone THEN "UNUSED" ELSE IF s \in dead THEN "FREE" ELSE kind[s]
      BY <1>1, <3>1 DEF Reclaim
    <3>3. CASE r \in gone
      BY <3>2, <3>3
    <3>4. CASE r \notin gone
      <4>1. r \notin g_regions
        BY <1>4, <3>4 DEF kept
      <4>2. s \notin Live /\ kind[s] # "FREE"
        BY <3>1, <4>1 DEF GCInv, Heap, NoDangling, SlotsPlaced
      <4>3. kind[s] = "UNUSED"
        BY <3>1, <4>2 DEF GCInv, TypeOK, Live
      <4> QED BY <3>2, <3>4, <4>2, <4>3
    <3> QED BY <3>3, <3>4
  <2> QED BY <2>1, <2>2
<1> QED BY <1>3, <1>4

\* A young-only sweep runs only when every ordinary region has an old or a marked object.
LEMMA YoungLeaves ==
  ASSUME GCInv, ExactInv, SweepYoung, Live' = color, NEW r \in g_regions' \ LargeRegions
  PROVE  SlotsOf(r) \cap Live' # {}
<1>1. YoungOnly /\ EndCycle /\ g_regions' \subseteq g_regions
  BY DEF SweepYoung
<1>2. phase = "mark" /\ cycle.minor /\ young_sweep_ok
  BY <1>1 DEF YoungOnly, EndCycle
<1>3. r \in g_regions \ LargeRegions /\ r \in Regions
  BY <1>1 DEF GCInv, TypeOK
<1>4. old_count[r] # 0 \/ marked \cap SlotsOf(r) # {}
  BY <1>2, <1>3 DEF young_sweep_ok
<1>5. CASE old_count[r] # 0
  BY <1>2, <1>3, <1>5 DEF ExactInv, OldPlaced
<1>6. CASE marked \cap SlotsOf(r) # {}
  BY <1>2, <1>6 DEF ExactInv, MarkedColored
<1> QED BY <1>4, <1>5, <1>6

\* The end of a collection, whichever sweep it is.
LEMMA SweepExact ==
  ASSUME GCInv, ExactInv, SweepFull \/ SweepYoung
  PROVE  /\ ~cycle.minor => Live' = Reachable
         /\ cycle.minor => color \ marked \subseteq Live'
         /\ GenOn => gen'.last_live = Cardinality(Live')
         /\ \A r \in g_regions' \ LargeRegions :
              \/ SlotsOf(r) \cap Live' # {}
              \/ g_regions' \ LargeRegions = {r} /\ \A s \in SlotsOf(r) : kind'[s] = "UNUSED"
<1>1. Live' = color
  BY SweepFullInv, SweepYoungInv
<1>2. EndCycle
  BY DEF SweepFull, SweepYoung
<1>3. phase = "mark" /\ gen' = gen_record
  BY <1>2 DEF EndCycle
<1>4. ~cycle.minor => Live' = Reachable
  <2>1. color \in SUBSET Slots /\ ClosedSet(color)
    BY <1>2, MarkComplete DEF ClosedSet, GCInv, TypeOK
  <2>2. Reachable \subseteq color
    BY <2>1, ReachableLeast
  <2>3. ~cycle.minor => color \subseteq Reachable
    BY <1>3 DEF ExactInv, MajorReaches
  <2> QED BY <1>1, <2>2, <2>3
<1>5. GenOn => gen'.last_live = Cardinality(Live')
  <2>1. GenOn => gen_record.last_live = Cardinality(color)
    BY <1>3, Predicted
  <2> QED BY <1>1, <1>3, <2>1
<1>6. ASSUME NEW r \in g_regions' \ LargeRegions
      PROVE  \/ SlotsOf(r) \cap Live' # {}
             \/ g_regions' \ LargeRegions = {r} /\ \A s \in SlotsOf(r) : kind'[s] = "UNUSED"
  BY <1>1, FullLeaves, YoungLeaves
<1> QED BY <1>1, <1>4, <1>5, <1>6

\* A collection ends in a sweep, and every other step leaves the phase of the mark alone.
LEMMA CollectedSweeps ==
  ASSUME Next, Collected
  PROVE  SweepFull \/ SweepYoung
<1>1. ~Mutator /\ ~Exited
  BY DEF Collected, Mutator, Exited, Alloc, MakeSingleton, CachedSingleton, Load, Store, PopRoot, SpawnContext,
         Deliver, Take, SwitchContext, FreeContext, Running
<1>2. ~CollectThreshold /\ ~CollectAtExit /\ ~DrainMark
  BY DEF Collected, CollectThreshold, CollectAtExit, StartMark, DrainMark
<1> QED BY <1>1, <1>2 DEF Next

\* Every collection does exactly its job, for any heap, any mode and any period of
\* majors: a major leaves what the program can reach and nothing else, a minor frees
\* no old object, the count of survivors on which sprout_gc_gen_record chose the next
\* kind is exact, and no ordinary region stays in the table with nothing live in it.
THEOREM GCExact == Spec => SweepsExactly
<1> DEFINE Exactly ==
             Collected =>
               /\ ~cycle.minor => Live' = Reachable
               /\ cycle.minor => color \ marked \subseteq Live'
               /\ GenOn => gen'.last_live = Cardinality(Live')
               /\ \A r \in g_regions' \ LargeRegions :
                    \/ SlotsOf(r) \cap Live' # {}
                    \/ g_regions' \ LargeRegions = {r} /\ \A s \in SlotsOf(r) : kind'[s] = "UNUSED"
<1>1. Init => ExactInv
  BY ExactInit
<1>2. GCInv /\ ExactInv /\ [Next]_vars => ExactInv'
  BY ExactNext
<1>3. GCInv /\ ExactInv /\ [Next]_vars => [Exactly]_vars
  <2> SUFFICES ASSUME GCInv, ExactInv, Next, Collected PROVE Exactly
    OBVIOUS
  <2>1. SweepFull \/ SweepYoung
    BY CollectedSweeps
  <2> QED BY <2>1, SweepExact
<1>4. Spec => [][Exactly]_vars
  <2> HIDE DEF Exactly
  <2> QED BY <1>1, <1>2, <1>3, GCInvariant, PTL DEF Spec
<1> QED BY <1>4 DEF SweepsExactly

=============================================================================
