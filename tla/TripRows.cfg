\* Two trips and one row of every other table; one request of more than one
\* statement, beside all that take one statement, with failing statements.
SPECIFICATION RecordsSpec
CONSTANTS
  Trip = {t1, t2}
  Stop = {s1}
  Photo = {p1, p2}
  Route = {r1}
  Comment = {k1}
  User = {u}
  Slug = {}
  Note = {x}
  View = {}
  Null = Null
  Gone = Gone
  Call = {c1}
  Faults = {"busy", "restart"}
  Kinds = {"create_trip", "create_stop", "create_photo", "create_route", "assign", "delete_trip",
           "delete_stop", "delete_photo", "delete_route", "delete_comment", "reset", "update_trip", "update_stop",
           "update_photo", "rescan", "comment"}
SYMMETRY Symmetry
INVARIANTS
  
  NothingOutlivesItsTrip
  ResetClears
CHECK_DEADLOCK FALSE
