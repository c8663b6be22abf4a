---------------------------- MODULE MC_Channel ----------------------------
(* An instance of Channel for TLC: a buffered channel whose ring starts at  *)
(* one slot and grows to two and three, and a rendezvous channel, selected  *)
(* on in both orders.                                                       *)
EXTENDS Channel, TLC

CONSTANTS a, b

ChanCap == [c \in {a, b} |-> IF c = a THEN 3 ELSE 0]
ChanSends == [c \in {a, b} |-> IF c = a THEN 5 ELSE 1]
ChanLists == {<<a, b>>, <<b, a>>, <<>>}

TaskSymmetry == Permutations(Tasks)
=============================================================================
