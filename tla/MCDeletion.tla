----------------------------- MODULE MCDeletion -----------------------------
(* AccountDeletion on small sets of collections, documents and calls. *)
EXTENDS AccountDeletion, TLC

Symmetry == Permutations(Collections) \cup Permutations(Items)
=============================================================================
