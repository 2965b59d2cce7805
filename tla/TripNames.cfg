\* Two trips, of users or of nobody yet, one name for them, a photo and a comment;
\* three requests of more than one statement at a time.
SPECIFICATION RecordsSpec
CONSTANTS
  Trip = {t1, t2}
  Stop = {}
  Photo = {p1}
  Route = {}
  Comment = {k1}
  User = {u, w}
  Slug = {n}
  Note = {x}
  View = {}
  Null = Null
  Gone = Gone
  Call = {c1, c2, c3}
  Faults = {"restart"}
  Kinds = {"list_trips", "create_trip", "delete_trip", "update_trip", "slug", "create_photo",
           "delete_photo", "comment", "delete_comment"}
SYMMETRY Symmetry
INVARIANTS
  NamesAreDistinct
  CommentsOfOwnTrip
PROPERTY
  OwnersStay
CHECK_DEADLOCK FALSE
