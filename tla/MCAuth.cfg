\* Two users, one sign-in and one call; Firebase answers the listener.
SPECIFICATION FairSpec
CONSTANTS
  Users = {u1, u2}
  Logins = {l1}
  Calls = {c1}
  Listener = listener
  None = None
INVARIANTS StatusFollowsSession ShownUserHasDocument
PROPERTY SignOutIsShown
CHECK_DEADLOCK FALSE
