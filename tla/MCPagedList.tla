------------------------------ MODULE MCPagedList ------------------------------
(* Instances of PagedList for TLC. *)
EXTENDS PagedList, TLC

Symmetries == Permutations(Slots)

================================================================================
