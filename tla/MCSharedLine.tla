---------------------------- MODULE MCSharedLine ----------------------------
(* Bounded instances of SharedLine: each configuration names the hosts, the  *)
(* files, the number of writes and what may go wrong.                        *)
EXTENDS SharedLine

CONSTANTS a, b

\* The hosts are interchangeable.  Unsound for liveness, so not used there.
Symmetry == Permutations(Host)
=============================================================================
