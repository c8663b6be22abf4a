----------------------------- MODULE TimerHeap -----------------------------
(***************************************************************************)
(* The deadline heap of the Windows poller (src/runtime/sprout_poll.c):     *)
(* Windows has no pollable timer, so the nearest deadline, which the wait   *)
(* takes from the root, bounds every wait.                                  *)
(***************************************************************************)
EXTENDS HeapOps

CONSTANTS HeapDelays, HeapMax   \* delays, and bound: timers armed at once

ASSUME HeapAssumption == HeapDelays \subseteq Nat /\ HeapMax \in Nat

VARIABLES timerHeap,   \* g_timers[0 .. g_timer_len)
          timerSet     \* the timers armed and neither removed nor harvested

heapVars == <<timerHeap, timerSet>>

HeapInit == timerHeap = <<>> /\ timerSet = {}

-----------------------------------------------------------------------------

HeapArm ==
  /\ Len(timerHeap) < HeapMax
  /\ \E ms \in HeapDelays :
       LET id == CHOOSE n \in 1 .. HeapMax : \A e \in timerSet : e.id # n
           e  == [id |-> id, left |-> ms, task |-> id]
       IN timerHeap' = timer_add(timerHeap, e) /\ timerSet' = timerSet \cup {e}

HeapRemove == \E i \in DOMAIN timerHeap :
  /\ timerHeap' = timer_drop(timerHeap, i)
  /\ timerSet' = timerSet \ {timerHeap[i]}

HeapWait == \E room \in 1 .. 2 :
  /\ timerHeap' = Harvest(timerHeap, room)
  /\ timerSet' = timerSet \ (Range(timerHeap) \ Range(timerHeap'))
  /\ timerHeap' # timerHeap

HeapTick ==
  /\ timerHeap # <<>> /\ \A e \in timerSet : e.left > 0
  /\ timerHeap' = [i \in DOMAIN timerHeap |-> [timerHeap[i] EXCEPT !.left = @ - 1]]
  /\ timerSet' = {[e EXCEPT !.left = @ - 1] : e \in timerSet}

HeapNext == HeapArm \/ HeapRemove \/ HeapWait \/ HeapTick
HeapSpec == HeapInit /\ [][HeapNext]_heapVars

(* However timers are armed, removed from the middle and harvested, the     *)
(* root is the nearest deadline of all (the wait sleeps no longer than      *)
(* that) and no timer is lost or doubled by a drop or a sift.               *)
HeapSound ==
  /\ \A i \in 2 .. Len(timerHeap) : timerHeap[i \div 2].left <= timerHeap[i].left
  /\ Range(timerHeap) = timerSet /\ Len(timerHeap) = Cardinality(timerSet)
=============================================================================
