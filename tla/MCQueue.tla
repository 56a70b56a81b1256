------------------------------ MODULE MCQueue ------------------------------
(* Queue on small sets of threads and pointers. *)
EXTENDS Queue

CONSTANTS p1, p2, c1, c2, c3, d1, d2, d3, shut
=============================================================================
