\* Two collections and the photos, one item of each, two calls.
SPECIFICATION FairSpec
CONSTANTS
  Collections = {saved_routes, incidents}
  Photos = photos
  Items = {i1}
  Calls = {c1, c2}
INVARIANT OldDocumentsAreSwept
PROPERTY CleanupNeverBlocks
CHECK_DEADLOCK FALSE
