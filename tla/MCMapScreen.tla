----------------------------- MODULE MCMapScreen -----------------------------
(* The map screen with a few places, searches and incidents, for TLC. *)
EXTENDS MapScreen, TLC

Symmetry == Permutations(Places) \cup Permutations(Incidents)
=============================================================================
