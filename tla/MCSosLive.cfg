\* The platform and the server answer; one dialog, two calls.
SPECIFICATION FairSpec
CONSTANTS
  Dialogs = {d1}
  Alerts = {a1, a2}
  NumContacts = 0
  MaxCallbacks = 1
  MaxCancels = 1
  None = None
PROPERTIES SpinnerStops CancelStopsUpdates
CHECK_DEADLOCK FALSE
