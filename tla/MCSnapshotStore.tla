--------------------------- MODULE MCSnapshotStore ---------------------------
(***************************************************************************)
(* A small instance of SnapshotStore: five trees, so that a tree that was  *)
(* superseded can come back, and two loaders whose statements interleave   *)
(* with the saves.                                                         *)
(***************************************************************************)
EXTENDS SnapshotStore, TLC

Symmetry == Permutations(Contents) \cup Permutations(Loaders)

=============================================================================
