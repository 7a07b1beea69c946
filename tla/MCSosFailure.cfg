SPECIFICATION Spec
CONSTANTS
  Dialogs = {d1}
  Alerts = {a1}
  NumContacts = 1
  MaxCallbacks = 1
  MaxCancels = 1
  None = None
INVARIANTS
  FailureMeansNotSent
CHECK_DEADLOCK FALSE
