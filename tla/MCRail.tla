------------------------------- MODULE MCRail -------------------------------
(* Bounded instances of Rail: each configuration names the units, how many   *)
(* of them fold into one batch, and whether ticks may read one point twice.  *)
EXTENDS Cards, TLC

CONSTANTS u, v, b

\* Every unit in the one batch; a configuration without it has units alone.
Batched == [x \in Units |-> IF b \in Batches THEN b ELSE NoBatch]

InOrder == <<u, v>>

\* The units of one batch are interchangeable.  Not used for liveness.
Symmetry == Permutations(Units)
=============================================================================
