------------------------------ MODULE MapScreen ------------------------------
(***************************************************************************)
(* The map screen as a whole (_MapScreenState, lib/main.dart): the route   *)
(* search and the safety heatmap are two parts of one State.  Each call of *)
(* setState builds all of it anew, so every step of a search also hands    *)
(* the circles to the map again; and both parts end with the screen.       *)
(***************************************************************************)
EXTENDS RouteSearch

CONSTANT Incidents

VARIABLES reported, received, overlay, shared, showHeatmap, drawn

H == INSTANCE Heatmap

heatmap == <<reported, received, overlay, shared, showHeatmap, drawn>>
screen == <<vars, heatmap>>

ScreenInit == Init /\ H!Init

(* The steps of the route search that call setState. *)
SearchStep ==
  \/ \E p \in Places : SetStart(p) \/ SetDestination(p)
  \/ ClearStart \/ ClearDestination
  \/ \E s \in Searches : AnswerEmpty(s) \/ Answer(s) \/ Assessed(s)

HeatmapStep ==
  H!ServerChanges \/ H!Snapshot \/ H!ToggleOn \/ H!ToggleOff \/ H!Rebuild

(* dispose and initState: a search still waiting fails in setState when its *)
(* answer comes, and changes nothing any more.                              *)
Remount ==
  /\ H!Remount
  /\ startLatLng' = None /\ destinationLatLng' = None
  /\ options' = 0 /\ selected' = None /\ assessment' = None /\ line' = None
  /\ loading' = FALSE
  /\ pc' = [s \in Searches |-> IF pc[s] = "idle" THEN "idle" ELSE "done"]
  /\ UNCHANGED <<started, of, saved>>

ScreenNext ==
  \/ SearchStep /\ H!Rebuild
  \/ SaveCurrentRoute /\ UNCHANGED heatmap
  \/ HeatmapStep /\ UNCHANGED vars
  \/ Remount

ScreenSpec == ScreenInit /\ [][ScreenNext]_screen

-----------------------------------------------------------------------------
(* The heatmap's properties, on the screen it is part of. *)
NothingOutdated == H!NothingOutdated
SnapshotKeepsMapWhenOff == H!SnapshotKeepsMapWhenOff

(* A build made for the route search shows the incidents of the last       *)
(* snapshot, all of them, or none: the sets the screen and the overlay     *)
(* share are never caught half changed by a search.                        *)
SearchShowsSnapshot ==
  [][vars' # vars /\ drawn' # drawn => drawn' \in {received', {}}]_screen
=============================================================================
