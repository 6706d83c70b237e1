------------------------------ MODULE MCOpLog ------------------------------
(* OpLog on small instances. *)
EXTENDS OpLog, TLC

CONSTANTS p1, p2

Threads  == {p1, p2}
Symmetry == Permutations(Threads)
=============================================================================
