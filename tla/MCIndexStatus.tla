--------------------------- MODULE MCIndexStatus ---------------------------
(* IndexStatus with one slot more than kinds, so that a new job and the    *)
(* remains of an old one are listed together.                              *)
EXTENDS IndexStatus, TLC

Symmetry == Permutations(JobIds)

=============================================================================
