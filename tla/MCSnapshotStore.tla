---------------------------- MODULE MCSnapshotStore ----------------------------
(* Symmetric jobs and capture times for TLC. *)
EXTENDS SnapshotStore, TLC

Symmetries == Permutations(Jobs) \cup Permutations(Stamps)
================================================================================
