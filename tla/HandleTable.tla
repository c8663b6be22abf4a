---------------------------- MODULE HandleTable ----------------------------
(***************************************************************************)
(* The generation-checked handle table of runtime/sprout_scheduler.c.      *)
(*                                                                         *)
(* Scopes, channels and forked tasks are named to Sprout programs by an    *)
(* Int handle (gen << 32) | idx and never by an address.  Sprout's types   *)
(* cannot say where a copy of a handle goes, so a copy may be presented    *)
(* to the runtime at any time: before or after the record's release, and   *)
(* after its slot has been given to another record.                        *)
(*                                                                         *)
(* A record is represented by a serial number that is never reused         *)
(* ("life"), which tells two records apart even when malloc gives them the *)
(* same address.  NoLife is the NULL ptr of a free or retired slot.        *)
(***************************************************************************)
EXTENDS Integers, Sequences, FiniteSets

CONSTANTS
  Kinds,     \* HANDLE_SCOPE, HANDLE_TASK, HANDLE_CHAN
  MaxGen,    \* the last generation of a slot: UINT32_MAX in the code
  MaxSlots   \* the number of indices: HANDLE_NONE = UINT32_MAX in the code

ASSUME KindsAssumption == Kinds # {}
ASSUME MaxGenAssumption == MaxGen \in Nat /\ MaxGen >= 1
ASSUME MaxSlotsAssumption == MaxSlots \in Nat

VARIABLES
  g_handles,       \* the slots 0 .. g_handles_len - 1, each [ptr, gen, kind]
  g_handles_len,
  g_handles_free,  \* the free list, most recently released slot first
  issued,          \* every handle returned by handle_alloc: [gen, idx, kind, life]
  lives,           \* how many records have been created
  live,            \* the handles of records whose life has not ended
  failed           \* sprout_fail was called: the process is gone

vars == <<g_handles, g_handles_len, g_handles_free, issued, lives, live, failed>>

NoLife == 0
Lives == Nat \ {NoLife}

\* handle_make: the two halves are kept as fields, the packing is injective
\* because idx and gen are both 32 bits wide.
handle_make(gen, idx, kind, life) == [gen |-> gen, idx |-> idx, kind |-> kind, life |-> life]

Handle == [gen : 1 .. MaxGen, idx : 0 .. MaxSlots - 1, kind : Kinds, life : Lives]
Slot == [ptr : Nat, gen : 1 .. MaxGen, kind : Kinds]
Indices == 0 .. g_handles_len - 1

-----------------------------------------------------------------------------

Init ==
  /\ g_handles = [i \in {} |-> NoLife]
  /\ g_handles_len = 0
  /\ g_handles_free = <<>>
  /\ issued = {}
  /\ lives = 0
  /\ live = {}
  /\ failed = FALSE

\* Publish a record of kind k in slot idx, whose generation is gen.
Publish(idx, gen, k) ==
  LET h == handle_make(gen, idx, k, lives + 1)
  IN  /\ g_handles' = [i \in Indices \cup {idx} |->
                         IF i = idx THEN [ptr |-> lives + 1, gen |-> gen, kind |-> k]
                                    ELSE g_handles[i]]
      /\ issued' = issued \cup {h}
      /\ live' = live \cup {h}
      /\ lives' = lives + 1
      /\ UNCHANGED failed

\* Mutant: the reused slot stays at the head of the free list.
AllocReused_KeepsHead(k) ==
  /\ ~failed
  /\ g_handles_free # <<>>
  /\ Publish(Head(g_handles_free), g_handles[Head(g_handles_free)].gen, k)
  /\ UNCHANGED <<g_handles_free, g_handles_len>>

\* handle_alloc, free list non-empty: take its head.
AllocReused(k) ==
  /\ ~failed
  /\ g_handles_free # <<>>
  /\ Publish(Head(g_handles_free), g_handles[Head(g_handles_free)].gen, k)
  /\ g_handles_free' = Tail(g_handles_free)
  /\ UNCHANGED g_handles_len

\* handle_alloc, free list empty: append a slot, whose generations start at 1.
AllocFresh(k) ==
  /\ ~failed
  /\ g_handles_free = <<>>
  /\ g_handles_len < MaxSlots
  /\ Publish(g_handles_len, 1, k)
  /\ g_handles_len' = g_handles_len + 1
  /\ UNCHANGED g_handles_free

\* handle_alloc, every index used up or retired: "scheduler: out of handles".
AllocOut ==
  /\ ~failed
  /\ g_handles_free = <<>>
  /\ g_handles_len = MaxSlots
  /\ failed' = TRUE
  /\ UNCHANGED <<g_handles, g_handles_len, g_handles_free, issued, lives, live>>

\* Mutant: the generation is not bumped.
ReleasedSlot_NoBump(slot) == [slot EXCEPT !.ptr = NoLife]

\* What handle_release does to the slot and to the free list.  The slot of the
\* last generation is retired: it keeps its generation and stays off the list.
ReleasedSlot(slot) ==
  [ptr |-> NoLife,
   gen |-> IF slot.gen = MaxGen THEN slot.gen ELSE slot.gen + 1,
   kind |-> slot.kind]

ReleasedFree(slot, idx) ==
  IF slot.gen = MaxGen THEN g_handles_free ELSE <<idx>> \o g_handles_free

\* handle_release, called once per record by the __scope_join that frees it.
Release(h) ==
  /\ ~failed
  /\ h \in live
  /\ g_handles' = [g_handles EXCEPT ![h.idx] = ReleasedSlot(@)]
  /\ g_handles_free' = ReleasedFree(g_handles[h.idx], h.idx)
  /\ live' = live \ {h}
  /\ UNCHANGED <<g_handles_len, issued, lives, failed>>

\* The checks of handle_lookup, in their order: the kind of the slot's current
\* occupant first, then its generation, then that it is occupied at all.
Lookup(h, k) ==
  IF h.idx >= g_handles_len \/ h.gen = 0 \/ g_handles[h.idx].kind # k
    THEN [op |-> "invalid"]
  ELSE IF g_handles[h.idx].gen # h.gen \/ g_handles[h.idx].ptr = NoLife
    THEN [op |-> "stale"]
  ELSE [op |-> "record", life |-> g_handles[h.idx].ptr]

\* scope_of / task_of / chan_of on any copy of any handle ever issued.
Use(h, k) ==
  /\ ~failed
  /\ h \in issued
  /\ failed' = (Lookup(h, k).op # "record")
  /\ UNCHANGED <<g_handles, g_handles_len, g_handles_free, issued, lives, live>>

Next ==
  \/ \E k \in Kinds : AllocReused(k) \/ AllocFresh(k)
  \/ AllocOut
  \/ \E h \in live : Release(h)
  \/ \E h \in issued, k \in Kinds : Use(h, k)

Spec == Init /\ [][Next]_vars

-----------------------------------------------------------------------------

(* Every variable has its type. *)
TypeOK ==
  /\ g_handles_len \in 0 .. MaxSlots
  /\ g_handles \in [0 .. g_handles_len - 1 -> Slot]
  /\ g_handles_free \in Seq(Indices)
  /\ issued \subseteq Handle
  /\ live \subseteq issued
  /\ lives \in Nat
  /\ failed \in BOOLEAN

(* A use of a handle yields its own record or no record: the runtime never  *)
(* hands back a record that now occupies the handle's slot, and never one   *)
(* whose life has ended (handle_lookup after any number of releases and     *)
(* reallocations, generation wrap-around included).                         *)
StaleNeverResolves ==
  \A h \in issued, k \in Kinds :
    Lookup(h, k).op = "record" => Lookup(h, k).life = h.life /\ h \in live /\ k = h.kind

(* The handle of a record that has not been released always resolves: the   *)
(* check refuses no program that keeps to its scopes.                       *)
LiveAlwaysResolves ==
  \A h \in live : Lookup(h, h.kind).op = "record"

(* Two records never share a handle: the pair (gen, idx) is issued once in  *)
(* the life of the process.                                                 *)
HandlesUnique ==
  \A h1, h2 \in issued : h1.gen = h2.gen /\ h1.idx = h2.idx => h1 = h2

(* A slot is on the free list at most once, only while it is unoccupied and *)
(* only while it has a generation left: handing it out cannot displace a    *)
(* live record (handle_alloc writes ptr without looking).                   *)
FreeListSound ==
  /\ \A i, j \in 1 .. Len(g_handles_free) : g_handles_free[i] = g_handles_free[j] => i = j
  /\ \A i \in 1 .. Len(g_handles_free) :
       /\ g_handles[g_handles_free[i]].ptr = NoLife
       /\ \A h \in issued : h.idx = g_handles_free[i] => h.gen < g_handles[h.idx].gen

(* The strengthening that makes the above inductive: a live handle          *)
(* describes its slot exactly, an occupied slot has a live handle, and a    *)
(* handle that is not live has been overtaken by its slot's generation or   *)
(* belongs to the retired last generation.                                  *)
SlotsDescribed ==
  /\ \A h \in issued :
       /\ h.idx < g_handles_len
       /\ h.gen <= g_handles[h.idx].gen
       /\ h.gen = g_handles[h.idx].gen /\ h \notin live => g_handles[h.idx].ptr = NoLife
  /\ \A h \in live :
       g_handles[h.idx] = [ptr |-> h.life, gen |-> h.gen, kind |-> h.kind]
  /\ \A i \in Indices : g_handles[i].ptr # NoLife => \E h \in live : h.idx = i

HandleInv == TypeOK /\ HandlesUnique /\ FreeListSound /\ SlotsDescribed
=============================================================================
