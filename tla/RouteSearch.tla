---------------------------- MODULE RouteSearch ----------------------------
(***************************************************************************)
(* Searching for a route on the map screen: the endpoints, the searches    *)
(* they start, the panel and the line of _MapScreenState (lib/main.dart).  *)
(*                                                                         *)
(* A search is a run of _findMultiModalRoutes: it waits for TransitService *)
(* and then for RiskAssessmentService, while the user goes on choosing     *)
(* endpoints, so several run at once.  A place reaches setStart and        *)
(* setDestination by a tap on the map or by a suggestion's place lookup;   *)
(* what stands in the text fields is left out.  A route is known by the    *)
(* endpoints it joins; of several, only the first is ever selected.        *)
(* Neither service throws: each catches its errors and answers with less.  *)
(***************************************************************************)
EXTENDS Naturals

CONSTANTS
  Places,       \* where the endpoints may be
  MaxSearches,  \* bound on the searches started
  MaxRoutes,    \* bound on the routes of an answer
  None          \* null

Pairs == Places \X Places
Searches == 1..MaxSearches

ASSUME ConstantsAssumption ==
  /\ MaxSearches \in Nat
  /\ MaxRoutes \in Nat
  /\ None \notin Places \cup Pairs

VARIABLES
  startLatLng,        \* a place or None, like
  destinationLatLng,
  options,            \* _availableRoutes.length
  selected,           \* _selectedRoute: the endpoints it joins, or None
  assessment,         \* _currentRiskAssessment: those of the route assessed
  line,               \* polylines: what is drawn, a route's or a direct line
  loading,            \* _isLoading
  started,            \* searches started so far, numbered from 1
  pc,                 \* the await each search is suspended at
  of,                 \* the endpoints it was started for
  saved               \* the last document given to SavedRouteService

endpoints == <<startLatLng, destinationLatLng>>
shownVars == <<options, selected, assessment, line>>
searchVars == <<started, pc, of>>
vars == <<endpoints, shownVars, loading, searchVars, saved>>

Line == [kind : {"direct", "route"}, joins : Pairs]
SavedRoute == [joins : Pairs, estimateOf : Pairs]

TypeOK ==
  /\ startLatLng \in Places \cup {None}
  /\ destinationLatLng \in Places \cup {None}
  /\ options \in 0..MaxRoutes
  /\ selected \in Pairs \cup {None}
  /\ assessment \in Pairs \cup {None}
  /\ line \in Line \cup {None}
  /\ loading \in BOOLEAN
  /\ started \in 0..MaxSearches
  /\ pc \in [Searches -> {"idle", "searching", "assessing", "done"}]
  /\ of \in [Searches -> Pairs \cup {None}]
  /\ saved \in SavedRoute \cup {None}

Init ==
  /\ startLatLng = None
  /\ destinationLatLng = None
  /\ options = 0
  /\ selected = None
  /\ assessment = None
  /\ line = None
  /\ loading = FALSE
  /\ started = 0
  /\ pc = [s \in Searches |-> "idle"]
  /\ of = [s \in Searches |-> None]
  /\ saved = None

-----------------------------------------------------------------------------
(* _findMultiModalRoutes is called for the endpoints a and b, if both are
   there, and reads them at once. *)
Find(a, b) ==
  IF a = None \/ b = None
  THEN UNCHANGED <<loading, searchVars>>
  ELSE /\ started < MaxSearches
       /\ started' = started + 1
       /\ pc' = [pc EXCEPT ![started + 1] = "searching"]
       /\ of' = [of EXCEPT ![started + 1] = <<a, b>>]
       /\ loading' = TRUE

(* Mutant: a new start does not start a search. *)
SetStartOnly(p) ==
  /\ startLatLng' = p
  /\ UNCHANGED <<destinationLatLng, shownVars, loading, searchVars, saved>>

SetStart(p) ==
  /\ startLatLng' = p
  /\ Find(p, destinationLatLng)
  /\ UNCHANGED <<destinationLatLng, shownVars, saved>>

(* A destination also draws a direct line at once. *)
SetDestination(p) ==
  /\ destinationLatLng' = p
  /\ line' = IF startLatLng = None
             THEN line
             ELSE [kind |-> "direct", joins |-> <<startLatLng, p>>]
  /\ Find(startLatLng, p)
  /\ UNCHANGED <<startLatLng, options, selected, assessment, saved>>

(* The cross of a search box; the route stays. *)
ClearStart ==
  /\ startLatLng' = None
  /\ UNCHANGED <<destinationLatLng, shownVars, loading, searchVars, saved>>

ClearDestination ==
  /\ destinationLatLng' = None
  /\ UNCHANGED <<startLatLng, shownVars, loading, searchVars, saved>>

-----------------------------------------------------------------------------
(* Mutant: an empty answer returns without the finally. *)
AnswerEmptyEarly(s) ==
  /\ pc[s] = "searching"
  /\ options' = 0
  /\ selected' = None
  /\ pc' = [pc EXCEPT ![s] = "done"]
  /\ UNCHANGED <<endpoints, assessment, line, loading, started, of, saved>>

(* TransitService found nothing, or failed; the finally hides the spinner. *)
AnswerEmpty(s) ==
  /\ pc[s] = "searching"
  /\ options' = 0
  /\ selected' = None
  /\ loading' = FALSE
  /\ pc' = [pc EXCEPT ![s] = "done"]
  /\ UNCHANGED <<endpoints, assessment, line, started, of, saved>>

(* Its routes come, the first is selected, and its assessment begins. *)
Answer(s) ==
  /\ pc[s] = "searching"
  /\ options' \in 1..MaxRoutes
  /\ selected' = of[s]
  /\ pc' = [pc EXCEPT ![s] = "assessing"]
  /\ UNCHANGED <<endpoints, assessment, line, loading, started, of, saved>>

(* Mutant: the line is drawn only while both endpoints are there. *)
AssessedGuarded(s) ==
  /\ pc[s] = "assessing"
  /\ assessment' = of[s]
  /\ line' = IF selected = None \/ None \in {startLatLng, destinationLatLng}
             THEN line ELSE [kind |-> "route", joins |-> selected]
  /\ loading' = FALSE
  /\ pc' = [pc EXCEPT ![s] = "done"]
  /\ UNCHANGED <<endpoints, options, selected, started, of, saved>>

(* The assessment comes, of the route that was selected when it began; then
   _drawRouteOnMap draws the one selected now. *)
Assessed(s) ==
  /\ pc[s] = "assessing"
  /\ assessment' = of[s]
  /\ line' = IF selected = None THEN line ELSE [kind |-> "route", joins |-> selected]
  /\ loading' = FALSE
  /\ pc' = [pc EXCEPT ![s] = "done"]
  /\ UNCHANGED <<endpoints, options, selected, started, of, saved>>

(* _saveCurrentRoute: the endpoints of now with time and fare of the route. *)
SaveCurrentRoute ==
  /\ selected # None /\ startLatLng # None /\ destinationLatLng # None
  /\ saved' = [joins |-> endpoints, estimateOf |-> selected]
  /\ UNCHANGED <<endpoints, shownVars, loading, searchVars>>

-----------------------------------------------------------------------------
Next ==
  \/ \E p \in Places : SetStart(p) \/ SetDestination(p)
  \/ ClearStart
  \/ ClearDestination
  \/ \E s \in Searches : AnswerEmpty(s) \/ Answer(s) \/ Assessed(s)
  \/ SaveCurrentRoute

Spec == Init /\ [][Next]_vars

-----------------------------------------------------------------------------
(* Properties. *)

(* No search is under way. *)
Settled == \A s \in Searches : pc[s] \in {"idle", "done"}

(* The endpoints on the screen, when there are two, are those of the newest
   search: no way of choosing, clearing and choosing again escapes it. *)
NewestSearchIsForEndpoints ==
  startLatLng # None /\ destinationLatLng # None =>
    started > 0 /\ of[started] = endpoints

(* When the last search has ended, in whatever order they did, the spinner is
   gone. *)
SpinnerEndsWithLast == Settled => ~loading

(* And a route in the panel is the one drawn on the map and comes with an
   assessment of its risk. *)
RouteIsDrawnAndAssessed ==
  Settled /\ selected # None =>
    /\ line = [kind |-> "route", joins |-> selected]
    /\ assessment # None
=============================================================================
