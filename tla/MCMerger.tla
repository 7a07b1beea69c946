------------------------------ MODULE MCMerger ------------------------------
(* Two engines on the same threads; leases short enough to run out in the *)
(* few trees there are.                                                   *)
EXTENDS ThreadMerger
=============================================================================
