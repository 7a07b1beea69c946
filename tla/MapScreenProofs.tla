-------------------------- MODULE MapScreenProofs --------------------------
(***************************************************************************)
(* Proofs about MapScreen, for any places, incidents and number of         *)
(* searches.  Each part of the screen has an invariant of its own; the     *)
(* screen's steps are steps of one part, a search's build, or a remount.   *)
(***************************************************************************)
EXTENDS MapScreen, TLAPS

Running(s) == pc[s] \in {"searching", "assessing"}

(* Searches are numbered in the order they start, and know their endpoints. *)
Numbered ==
  \A s \in Searches :
    IF s > started THEN pc[s] = "idle" ELSE pc[s] # "idle" /\ of[s] \in Pairs

(* The spinner was last shown by the newest search, which still runs. *)
SpinnerHasSearch == loading => started > 0 /\ Running(started)

(* A selected route that is not drawn and assessed has a search that will. *)
RouteHasSearch ==
  selected # None =>
    \/ line = [kind |-> "route", joins |-> selected] /\ assessment # None
    \/ \E s \in Searches : Running(s)

IInv ==
  /\ TypeOK
  /\ Numbered
  /\ NewestSearchIsForEndpoints
  /\ SpinnerHasSearch
  /\ RouteHasSearch

(* A change of endpoints: a search is started exactly when there are two. *)
LEMMA FindKeeps ==
  ASSUME IInv, NEW a \in Places \cup {None}, NEW b \in Places \cup {None}, Find(a, b),
         startLatLng' = a, destinationLatLng' = b
  PROVE  /\ loading' \in BOOLEAN /\ started' \in 0..MaxSearches
         /\ pc' \in [Searches -> {"idle", "searching", "assessing", "done"}]
         /\ of' \in [Searches -> Pairs \cup {None}]
         /\ Numbered' /\ NewestSearchIsForEndpoints' /\ SpinnerHasSearch'
         /\ \A s \in Searches : Running(s) => Running(s)'
         /\ a # None /\ b # None => \E s \in Searches : Running(s)'
<1> USE ConstantsAssumption DEF IInv, TypeOK, Numbered, SpinnerHasSearch,
        NewestSearchIsForEndpoints, Running, Searches, endpoints
<1>1. CASE a = None \/ b = None
  BY <1>1 DEF Find, searchVars
<1>2. CASE a # None /\ b # None
  <2>1. started + 1 \in Searches /\ pc[started + 1] = "idle" /\ <<a, b>> \in Pairs
    BY <1>2 DEF Find, Pairs
  <2>2. /\ started' = started + 1 /\ loading' = TRUE
        /\ pc' = [pc EXCEPT ![started + 1] = "searching"]
        /\ of' = [of EXCEPT ![started + 1] = <<a, b>>]
    BY <1>2 DEF Find
  <2>3. Numbered'
    BY <2>1, <2>2
  <2>4. pc'[started'] = "searching" /\ of'[started'] = <<a, b>> /\ started' > 0
    BY <2>1, <2>2
  <2>5. NewestSearchIsForEndpoints' /\ SpinnerHasSearch'
    BY <2>2, <2>4
  <2>6. \A s \in Searches : Running(s) => Running(s)'
    BY <2>1, <2>2
  <2>7. started' \in Searches /\ pc' \in [Searches -> {"idle", "searching", "assessing", "done"}]
        /\ of' \in [Searches -> Pairs \cup {None}]
    BY <2>1, <2>2
  <2>8. loading' \in BOOLEAN /\ started' \in 0..MaxSearches
    BY <2>1, <2>2
  <2>9. \E s \in Searches : Running(s)'
    BY <2>4, <2>7
  <2> QED BY <2>3, <2>5, <2>6, <2>7, <2>8, <2>9
<1> QED BY <1>1, <1>2

LEMMA SearchInductive ==
  /\ Init => IInv
  /\ IInv /\ [Next]_vars => IInv'
<1> USE ConstantsAssumption DEF IInv, TypeOK, Numbered, SpinnerHasSearch, RouteHasSearch,
        NewestSearchIsForEndpoints, Running, Searches, endpoints, shownVars, searchVars
<1>1. ASSUME Init PROVE IInv
  <2>1. TypeOK
    <3>1. options \in 0..MaxRoutes /\ started \in 0..MaxSearches
      BY <1>1 DEF Init
    <3> QED BY <1>1, <3>1 DEF Init
  <2>2. started = 0 /\ \A s \in Searches : s > started /\ pc[s] = "idle"
    BY <1>1 DEF Init
  <2>3. Numbered
    BY <2>2
  <2>4. NewestSearchIsForEndpoints
    BY <1>1 DEF Init
  <2>5. SpinnerHasSearch
    BY <1>1 DEF Init
  <2>6. RouteHasSearch
    BY <1>1 DEF Init
  <2> QED BY <2>1, <2>3, <2>4, <2>5, <2>6
<1>2. ASSUME IInv, [Next]_vars
      PROVE  IInv'
  <2>1. ASSUME NEW p \in Places, SetStart(p) PROVE IInv'
    <3>1. startLatLng' = p /\ destinationLatLng' = destinationLatLng /\ Find(p, destinationLatLng)
      BY <2>1 DEF SetStart
    <3>2. UNCHANGED <<options, selected, assessment, line, saved>>
      BY <2>1 DEF SetStart
    <3> HIDE DEF Numbered, NewestSearchIsForEndpoints, SpinnerHasSearch, Running
    <3>3. /\ loading' \in BOOLEAN /\ started' \in 0..MaxSearches
          /\ pc' \in [Searches -> {"idle", "searching", "assessing", "done"}]
          /\ of' \in [Searches -> Pairs \cup {None}]
          /\ Numbered' /\ NewestSearchIsForEndpoints' /\ SpinnerHasSearch'
          /\ \A s \in Searches : Running(s) => Running(s)'
      BY <1>2, <3>1, FindKeeps
    <3> QED BY <1>2, <3>1, <3>2, <3>3
  <2>2. ASSUME NEW p \in Places, SetDestination(p) PROVE IInv'
    <3>1. startLatLng' = startLatLng /\ destinationLatLng' = p /\ Find(startLatLng, p)
      BY <2>2 DEF SetDestination
    <3>2. UNCHANGED <<options, selected, assessment, saved>>
      BY <2>2 DEF SetDestination
    <3> HIDE DEF Numbered, NewestSearchIsForEndpoints, SpinnerHasSearch, Running
    <3>3. /\ loading' \in BOOLEAN /\ started' \in 0..MaxSearches
          /\ pc' \in [Searches -> {"idle", "searching", "assessing", "done"}]
          /\ of' \in [Searches -> Pairs \cup {None}]
          /\ Numbered' /\ NewestSearchIsForEndpoints' /\ SpinnerHasSearch'
          /\ \A s \in Searches : Running(s) => Running(s)'
          /\ startLatLng # None => \E s \in Searches : Running(s)'
      BY <1>2, <3>1, FindKeeps
    <3>4. line' \in Line \cup {None} /\ (startLatLng = None => line' = line)
      BY <1>2, <2>2 DEF SetDestination, Line, Pairs
    <3> QED BY <1>2, <3>1, <3>2, <3>3, <3>4
  <2>3. CASE ClearStart
    BY <1>2, <2>3 DEF ClearStart
  <2>4. CASE ClearDestination
    BY <1>2, <2>4 DEF ClearDestination
  <2>5. ASSUME NEW s \in Searches, AnswerEmpty(s) PROVE IInv'
    <3>1. s <= started /\ pc' = [pc EXCEPT ![s] = "done"] /\ ~loading' /\ selected' = None
      BY <1>2, <2>5 DEF AnswerEmpty
    <3>2. Numbered'
      <4>1. started' = started /\ of' = of
        BY <2>5 DEF AnswerEmpty
      <4> QED BY <1>2, <3>1, <4>1
    <3>3. TypeOK'
      <4>1. options' \in 0..MaxRoutes
        BY <2>5 DEF AnswerEmpty
      <4> QED BY <1>2, <2>5, <4>1 DEF AnswerEmpty
    <3>4. NewestSearchIsForEndpoints'
      BY <1>2, <2>5 DEF AnswerEmpty
    <3> QED BY <3>1, <3>2, <3>3, <3>4
  <2>6. ASSUME NEW s \in Searches, Answer(s) PROVE IInv'
    BY <1>2, <2>6 DEF Answer
  <2>7. ASSUME NEW s \in Searches, Assessed(s) PROVE IInv'
    <3>1. of[s] \in Pairs
      BY <1>2, <2>7 DEF Assessed
    <3>2. line' \in Line \cup {None}
      BY <1>2, <2>7 DEF Assessed, Line
    <3> QED BY <1>2, <2>7, <3>1, <3>2 DEF Assessed
  <2>8. CASE SaveCurrentRoute
    <3>1. saved' \in SavedRoute
      BY <1>2, <2>8 DEF SaveCurrentRoute, SavedRoute, Pairs
    <3> QED BY <1>2, <2>8, <3>1 DEF SaveCurrentRoute
  <2>9. CASE UNCHANGED vars
    BY <1>2, <2>9 DEF vars
  <2> QED BY <1>2, <2>1, <2>2, <2>3, <2>4, <2>5, <2>6, <2>7, <2>8, <2>9 DEF Next
<1> QED BY <1>1, <1>2

-----------------------------------------------------------------------------
(* dispose: searches that run are at their end, and nothing is left to see. *)
LEMMA RemountKeeps ==
  ASSUME IInv, Remount
  PROVE  IInv'
<1> USE ConstantsAssumption DEF IInv, TypeOK, Numbered, SpinnerHasSearch, RouteHasSearch,
        NewestSearchIsForEndpoints, Running, Searches, endpoints
<1>1. /\ startLatLng' = None /\ destinationLatLng' = None /\ options' = 0 /\ selected' = None
      /\ assessment' = None /\ line' = None /\ ~loading' /\ loading' \in BOOLEAN
      /\ started' = started /\ of' = of /\ saved' = saved
  BY DEF Remount
<1>2. pc' = [s \in Searches |-> IF pc[s] = "idle" THEN "idle" ELSE "done"]
  BY DEF Remount
<1>3. TypeOK'
  BY <1>1, <1>2
<1>4. Numbered'
  BY <1>1, <1>2
<1> QED BY <1>1, <1>3, <1>4

-----------------------------------------------------------------------------
(* The set the overlay and the screen share is replaced as a whole. *)
HInv == H!TypeOK /\ H!AllOrNothing /\ H!NothingOutdated

LEMMA HeatmapInductive ==
  /\ H!Init => HInv
  /\ HInv /\ [H!Next]_heatmap => HInv'
<1> USE DEF HInv, H!TypeOK, H!AllOrNothing, H!NothingOutdated
<1>1. H!Init => HInv
  BY DEF H!Init
<1>2. ASSUME HInv, [H!Next]_heatmap
      PROVE  HInv'
  <2>1. CASE H!ServerChanges
    BY <1>2, <2>1 DEF H!ServerChanges
  <2>2. CASE H!Snapshot
    <3>1. received' = reported /\ overlay' = reported /\ reported' = reported
      BY <2>2 DEF H!Snapshot, H!Refill
    <3>2. CASE showHeatmap
      BY <1>2, <2>2, <3>1, <3>2 DEF H!Snapshot
    <3>3. CASE ~showHeatmap
      BY <1>2, <2>2, <3>1, <3>3 DEF H!Snapshot
    <3> QED BY <3>2, <3>3
  <2>3. CASE H!ToggleOn
    BY <1>2, <2>3 DEF H!ToggleOn
  <2>4. CASE H!ToggleOff
    BY <1>2, <2>4 DEF H!ToggleOff
  <2>5. CASE H!Rebuild
    BY <1>2, <2>5 DEF H!Rebuild
  <2>6. CASE H!Remount
    BY <1>2, <2>6 DEF H!Remount
  <2>7. CASE UNCHANGED heatmap
    BY <1>2, <2>7 DEF heatmap
  <2> QED BY <1>2, <2>1, <2>2, <2>3, <2>4, <2>5, <2>6, <2>7 DEF H!Next
<1> QED BY <1>1, <1>2

-----------------------------------------------------------------------------
(* Every step of the screen is one of each part, or ends both. *)
LEMMA StepsOfParts ==
  ASSUME [ScreenNext]_screen
  PROVE  /\ [H!Next]_heatmap
         /\ [Next]_vars \/ Remount
<1>1. CASE SearchStep /\ H!Rebuild
  BY <1>1 DEF SearchStep, Next, H!Next
<1>2. CASE SaveCurrentRoute /\ UNCHANGED heatmap
  BY <1>2 DEF Next
<1>3. CASE HeatmapStep /\ UNCHANGED vars
  BY <1>3 DEF HeatmapStep, H!Next
<1>4. CASE Remount
  BY <1>4 DEF Remount, H!Next
<1>5. CASE UNCHANGED screen
  BY <1>5 DEF screen
<1> QED BY <1>1, <1>2, <1>3, <1>4, <1>5 DEF ScreenNext

LEMMA Inductive == ScreenSpec => [](IInv /\ HInv)
<1>1. ScreenInit => IInv /\ HInv
  BY SearchInductive, HeatmapInductive DEF ScreenInit
<1>2. IInv /\ HInv /\ [ScreenNext]_screen => IInv' /\ HInv'
  BY SearchInductive, HeatmapInductive, RemountKeeps, StepsOfParts
<1> QED BY <1>1, <1>2, PTL DEF ScreenSpec

(* Every reachable state of the search part is well typed, on the screen that
   may be disposed while searches run. *)
THEOREM TypeCorrect == ScreenSpec => []TypeOK
<1>1. IInv => TypeOK
  BY DEF IInv
<1> QED BY <1>1, Inductive, PTL

(* Two endpoints on the screen are those of the newest search. *)
THEOREM NewestIsCurrent == ScreenSpec => []NewestSearchIsForEndpoints
<1>1. IInv => NewestSearchIsForEndpoints
  BY DEF IInv
<1> QED BY <1>1, Inductive, PTL

(* When the last search has ended the spinner is gone. *)
THEOREM SpinnerEnds == ScreenSpec => []SpinnerEndsWithLast
<1>1. IInv => SpinnerEndsWithLast
  BY DEF IInv, TypeOK, SpinnerHasSearch, SpinnerEndsWithLast, Settled, Running, Searches
<1> QED BY <1>1, Inductive, PTL

(* And the route in the panel has been drawn and assessed. *)
THEOREM DrawnAndAssessed == ScreenSpec => []RouteIsDrawnAndAssessed
<1>1. IInv => RouteIsDrawnAndAssessed
  BY DEF IInv, RouteHasSearch, RouteIsDrawnAndAssessed, Settled, Running
<1> QED BY <1>1, Inductive, PTL

(* With the heatmap on, the map shows nothing the last snapshot did not have. *)
THEOREM ShownIsReceived == ScreenSpec => []NothingOutdated
<1>1. HInv => NothingOutdated
  BY DEF HInv, NothingOutdated
<1> QED BY <1>1, Inductive, PTL

(* A snapshot that arrives while the heatmap is off leaves the map alone. *)
THEOREM SnapshotsAreQuiet == ScreenSpec => SnapshotKeepsMapWhenOff
<1>1. [ScreenNext]_screen =>
        [received' # received /\ received' # {} /\ ~showHeatmap => drawn' = drawn]_heatmap
  BY StepsOfParts DEF H!Next, H!ServerChanges, H!Snapshot, H!ToggleOn, H!ToggleOff,
     H!Rebuild, H!Remount, heatmap
<1> QED BY <1>1, PTL DEF ScreenSpec, SnapshotKeepsMapWhenOff, H!SnapshotKeepsMapWhenOff, H!vars, heatmap

(* A build made for the search shows a snapshot whole or not at all: the set
   that is shared holds all of the last snapshot or nothing. *)
THEOREM SearchShowsWhole == ScreenSpec => SearchShowsSnapshot
<1>1. HInv /\ [ScreenNext]_screen =>
        [vars' # vars /\ drawn' # drawn => drawn' \in {received', {}}]_screen
  <2> SUFFICES ASSUME HInv, ScreenNext, vars' # vars, drawn' # drawn
               PROVE  drawn' \in {received', {}}
    OBVIOUS
  <2>1. CASE SearchStep /\ H!Rebuild
    BY <2>1 DEF H!Rebuild, HInv, H!AllOrNothing
  <2>2. CASE Remount
    BY <2>2 DEF Remount, H!Remount
  <2> QED BY <2>1, <2>2 DEF ScreenNext, heatmap
<1> QED BY <1>1, Inductive, PTL DEF ScreenSpec, SearchShowsSnapshot
=============================================================================
