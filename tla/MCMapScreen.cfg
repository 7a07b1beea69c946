\* Two searches that overlap, beside snapshots that grow, shrink and change.
SPECIFICATION ScreenSpec
CONSTANTS
  Places = {p1, p2}
  MaxSearches = 2
  MaxRoutes = 1
  None = None
  Incidents = {i1, i2}
SYMMETRY Symmetry
INVARIANTS NewestSearchIsForEndpoints SpinnerEndsWithLast RouteIsDrawnAndAssessed NothingOutdated
PROPERTY SearchShowsSnapshot
CHECK_DEADLOCK FALSE
