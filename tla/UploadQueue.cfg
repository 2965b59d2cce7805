\* Two files, one place in flight, one retry each; the user asks twice for retries
\* by hand and goes to another view once.
SPECIFICATION FairSpec
CONSTANTS
  Trip = {a}
  NoTrip = NoTrip
  Jobs = 2
  MaxConcurrent = 1
  MaxRetries = 1
  Clicks = 2
  Visits = 1
INVARIANTS
  TypeOK
  JobsInOnePlace
  PhotosGetSorted
PROPERTY
  UploadsEnd
CHECK_DEADLOCK FALSE
