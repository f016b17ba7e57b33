----------------------------- MODULE MCDialogStack -----------------------------
(***************************************************************************)
(* Items and failed batches are interchangeable.                           *)
(***************************************************************************)
EXTENDS DialogStack, TLC

Symmetries == Permutations(Items) \union Permutations(Batches)

================================================================================
