------------------------------ MODULE HeapOps ------------------------------
(***************************************************************************)
(* The arrays of the Windows poller (src/runtime/sprout_poll.c): the swap   *)
(* removal both share and the binary heap of deadlines, as functions on     *)
(* sequences.  Positions count from 1.  A timer is [id, left, task]; `left` *)
(* is its deadline minus the clock.                                         *)
(***************************************************************************)
EXTENDS Integers, SequencesExt, Loops

\* The last entry fills the hole (also fds_drop of the socket array).
fds_drop(s, i) == IF i = Len(s) THEN Front(s) ELSE [Front(s) EXCEPT ![i] = Last(s)]

timer_swap(h, i, j) == [k \in DOMAIN h |-> h[IF k = i THEN j ELSE IF k = j THEN i ELSE k]]

UpTurn(s) ==
  LET p == s.at \div 2
  IN IF s.at > 1 /\ s.heap[p].left > s.heap[s.at].left
     THEN [heap |-> timer_swap(s.heap, s.at, p), at |-> p] ELSE s
timer_sift_up(h, i) == After(UpTurn, [heap |-> h, at |-> i], i).heap

\* The smallest of i and its children; on a tie the parent, then the left child.
Smallest(h, i) ==
  LET l == 2 * i
      m == IF l <= Len(h) /\ h[l].left < h[i].left THEN l ELSE i
  IN IF l + 1 <= Len(h) /\ h[l + 1].left < h[m].left THEN l + 1 ELSE m
DownTurn(s) ==
  LET m == Smallest(s.heap, s.at)
  IN IF m = s.at THEN s ELSE [heap |-> timer_swap(s.heap, s.at, m), at |-> m]
timer_sift_down(h, i) == After(DownTurn, [heap |-> h, at |-> i], Len(h)).heap

\* Mutant: the entry moved into the hole is only sifted down.
timer_drop_DownOnly(h, i) ==
  IF i = Len(h) THEN Front(h) ELSE timer_sift_down(fds_drop(h, i), i)
(* The last entry fills the hole and is sifted both ways: coming from       *)
(* another subtree it may be earlier than the hole's parent.                *)
timer_drop(h, i) ==
  IF i = Len(h) THEN Front(h)
  ELSE timer_sift_up(timer_sift_down(fds_drop(h, i), i), i)

timer_add(h, e) == timer_sift_up(Append(h, e), Len(h) + 1)

(* sprout_poll_wait's harvest: due timers off the root while there is room. *)
HarvestTurn(h) == IF h = <<>> \/ h[1].left > 0 THEN h ELSE timer_drop(h, 1)
Harvest(h, room) == After(HarvestTurn, h, room)
=============================================================================
