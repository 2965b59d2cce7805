\* Fair scheduling: what a deleted trip leaves behind.
SPECIFICATION FairSpec
CONSTANTS
  Trip = {t1}
  Photo = {i1}
  Video = {}
  Call = {c1, c2}
  NoTrip = NoTrip
  Faults = {"db"}
PROPERTY
  DeletedTripLosesFiles
CHECK_DEADLOCK FALSE
