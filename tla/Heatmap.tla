------------------------------ MODULE Heatmap ------------------------------
(***************************************************************************)
(* The safety heatmap of the map screen: SafetyHeatmapOverlay              *)
(* (lib/widgets/safety_heatmap.dart) and the two places of                 *)
(* _MapScreenState (lib/main.dart) that hand its circles to the map.       *)
(*                                                                         *)
(* Sets are objects in Dart: the getter `circles` returns the overlay's    *)
(* own set, so after `circles = _heatmapOverlay.circles` the screen and    *)
(* the overlay share it.  An incident stands for its three circles.        *)
(***************************************************************************)
CONSTANTS
  Incidents  \* incidents anybody may report near the city

VARIABLES
  reported,     \* incidents the server holds
  received,     \* incidents of the last snapshot of the subscription
  overlay,      \* contents of SafetyHeatmapOverlay._circles
  shared,       \* the screen's circles is the overlay's set, not its own
  showHeatmap,  \* _showHeatmap
  drawn         \* what the last build gave to the map

vars == <<reported, received, overlay, shared, showHeatmap, drawn>>

TypeOK ==
  /\ reported \in SUBSET Incidents
  /\ received \in SUBSET Incidents
  /\ overlay \in SUBSET Incidents
  /\ shared \in BOOLEAN
  /\ showHeatmap \in BOOLEAN
  /\ drawn \in SUBSET Incidents

(* A map screen has just been built: its own set is and stays empty. *)
Init ==
  /\ reported = {}
  /\ received = {}
  /\ overlay = {}
  /\ shared = FALSE
  /\ showHeatmap = FALSE
  /\ drawn = {}

-----------------------------------------------------------------------------
(* Other users report and delete incidents, or they get too old. *)
ServerChanges ==
  /\ reported' \in SUBSET Incidents
  /\ UNCHANGED <<received, overlay, shared, showHeatmap, drawn>>

(* Mutant: new circles are added to the old ones. *)
RefillAdds == overlay' = overlay \cup reported

(* updateFromIncidents refills the overlay's set whoever else holds it. *)
Refill == overlay' = reported

(* The listener of getNearbyIncidents. *)
Snapshot ==
  /\ received' = reported
  /\ Refill
  /\ IF showHeatmap
     THEN shared' = TRUE /\ drawn' = overlay'
     ELSE UNCHANGED <<shared, drawn>>
  /\ UNCHANGED <<reported, showHeatmap>>

(* _toggleHeatmap, switching on. *)
ToggleOn ==
  /\ ~showHeatmap
  /\ showHeatmap' = TRUE
  /\ shared' = TRUE
  /\ drawn' = overlay
  /\ UNCHANGED <<reported, received, overlay>>

(* _toggleHeatmap, switching off: circles.clear() empties the overlay too
   when the set is shared. *)
ToggleOff ==
  /\ showHeatmap
  /\ showHeatmap' = FALSE
  /\ overlay' = IF shared THEN {} ELSE overlay
  /\ drawn' = {}
  /\ UNCHANGED <<reported, received, shared>>

(* Any other setState of the screen, or a rebuild from above. *)
Rebuild ==
  /\ drawn' = IF shared THEN overlay ELSE {}
  /\ UNCHANGED <<reported, received, overlay, shared, showHeatmap>>

(* The screen is disposed, on sign-out, and built anew. *)
Remount ==
  /\ received' = {}
  /\ overlay' = {}
  /\ shared' = FALSE
  /\ showHeatmap' = FALSE
  /\ drawn' = {}
  /\ UNCHANGED reported

Next ==
  \/ ServerChanges
  \/ Snapshot
  \/ ToggleOn
  \/ ToggleOff
  \/ Rebuild
  \/ Remount

Spec == Init /\ [][Next]_vars

-----------------------------------------------------------------------------
(* What the overlay holds is the last snapshot as a whole or nothing at all:
   clearing the set that the screen shares with it can lose the incidents but
   never leaves some of them, or older ones, behind. *)
AllOrNothing == overlay \in {received, {}}

(* While the heatmap is on, the map never shows an incident that the last
   snapshot did not have, however toggles, snapshots and rebuilds interleave. *)
NothingOutdated == showHeatmap => drawn \subseteq received

(* A snapshot that arrives while the heatmap is off changes nothing on the
   map by itself. *)
SnapshotKeepsMapWhenOff ==
  [][received' # received /\ received' # {} /\ ~showHeatmap => drawn' = drawn]_vars
=============================================================================
