---------------------------- MODULE MCTaskQueues ----------------------------
EXTENDS TaskQueues
(* Both merges of the engine, and one that the checks of Merge must refuse
   while the platform queue owns another one. *)
Pairs == {<<"platform", "raster">>, <<"platform", "ui">>, <<"raster", "platform">>}
=============================================================================
