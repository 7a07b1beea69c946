\* Two dialogs, two calls, one contact, in every interleaving.
SPECIFICATION Spec
CONSTANTS
  Dialogs = {d1, d2}
  Alerts = {a1, a2}
  NumContacts = 1
  MaxCallbacks = 0
  MaxCancels = 1
  None = None
SYMMETRY Symmetry
INVARIANTS CancelledIsForgotten SpinnerHasCall ReachedIsRecorded ActiveMeansAttempted
PROPERTY PromiseKept
CHECK_DEADLOCK FALSE
