\* A trip with a row in every table and ids for one copy of it; its export and
\* import, beside edits and comments, with failing statements and restarts.
SPECIFICATION SpecFromOneTrip
CONSTANTS
  t1 = t1
  s1 = s1
  p1 = p1
  r1 = r1
  k1 = k1
  u = u
  x = x
  v = v
  Trip = {t1, t2}
  Stop = {s1, s2}
  Photo = {p1, p2}
  Route = {r1, r2}
  Comment = {k1, k2}
  User = {u}
  Slug = {}
  Note = {x}
  View = {v}
  Null = Null
  Gone = Gone
  Call = {c1}
  Job = {j1}
  Exports = 1
  Faults = {"busy", "restart"}
  Kinds = {"create_stop", "create_photo", "assign", "comment", "delete_trip", "delete_photo",
           "delete_stop"}
INVARIANTS
  TypeOK
  
  
  AnsweredImportIsWhole
CHECK_DEADLOCK FALSE
