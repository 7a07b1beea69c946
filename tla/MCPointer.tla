------------------------------ MODULE MCPointer ------------------------------
(***************************************************************************)
(* Two devices in two views that come and go, three contacts or gestures.  *)
(***************************************************************************)
EXTENDS PointerEvents, TLC

(* Nothing tells devices, views or places apart: Init admits every choice  *)
(* of them, and no property names one.                                     *)
Symmetry == Permutations(Devices) \union Permutations(Views) \union Permutations(Places)
=============================================================================
