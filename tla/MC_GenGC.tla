------------------------------ MODULE MC_GenGC ------------------------------
(* Instances of the collector: a few slots over a few regions.              *)
EXTENDS GenGC

CONSTANTS a1, a2, a3, l1,   \* slots
          ra, rl,           \* their regions
          t1                \* a second root context

\* An ordinary region of up to three slots; rl holds a large object.
Layout == [s \in Slots |-> IF s = l1 THEN rl ELSE ra]

\* A region has slots of two size classes.
Classes == [s \in Slots |-> IF s = a2 THEN 2 ELSE 1]
=============================================================================
