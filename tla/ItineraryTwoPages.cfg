\* Two pages; any statement and any load may fail.  Stops come from sorting and
\* inserting; appending is the subject of the other runs.
SPECIFICATION Spec
CONSTANTS
  Client = {c1, c2}
  Stop = {s1, s2}
  Photo = {p1}
  NoStop = NoStop
  Requests = {"insert", "update", "delete", "assign", "save", "auto"}
  MaxOrder = 1
  Clusters <- OnePhoto
  Faults = {"offline", "busy"}
  p1 = p1
  p2 = p2
  p3 = p3
SYMMETRY Symmetry
INVARIANTS
  AssignmentsResolve
PROPERTY
  OnlyEditsReorder
