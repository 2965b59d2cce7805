\* One trip, two requests at a time, every fault.
SPECIFICATION Spec
CONSTANTS
  Trip = {t1}
  Photo = {i1, v1}
  Video = {v1}
  Call = {c1, c2}
  NoTrip = NoTrip
  Faults = {"restart", "io", "db"}
SYMMETRY Symmetry
INVARIANTS
  RowsHaveFiles
  FilesHaveRows
  ThumbsHaveFiles
