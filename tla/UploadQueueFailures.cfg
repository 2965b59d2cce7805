\* A job that waits for its retry while the others have ended.
SPECIFICATION Spec
CONSTANTS
  Trip = {a}
  NoTrip = NoTrip
  Jobs = 2
  MaxConcurrent = 2
  MaxRetries = 1
  Clicks = 0
  Visits = 0
INVARIANT
  FailuresStayListed
CHECK_DEADLOCK FALSE
