------------------------------- MODULE MCLease -------------------------------
(* Bounded instances of Lease: the configuration names the hosts, the hours  *)
(* and what may go wrong; the clocks of the instances are given here.        *)
EXTENDS Lease, TLC

CONSTANTS a, b

Together == [h \in Host |-> 0]

\* The second host's clock runs an hour ahead.
Apart == [h \in Host |-> IF h = b THEN 1 ELSE 0]

Symmetry == Permutations(Host)
=============================================================================
