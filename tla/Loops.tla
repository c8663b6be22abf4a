------------------------------- MODULE Loops -------------------------------
(* A loop of the C code as a function of its turns: Turn is the loop's body *)
(* and the identity once its condition is false, so that the state after as *)
(* many turns as the loop can take is the one it ends in.                   *)
EXTENDS Naturals

After(Turn(_), start, turns) ==
  LET run[n \in Nat] == IF n = 0 THEN start ELSE Turn(run[n - 1]) IN run[turns]
=============================================================================
