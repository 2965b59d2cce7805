------------------------------ MODULE TripStore ------------------------------
(***************************************************************************)
(* The five tables of a trip and the statements of db/queries/trips.sql,    *)
(* one operator per statement that the models of handlers use.  A statement *)
(* commits by itself.  Foreign keys are on (db.go:33): an INSERT or UPDATE  *)
(* that names a missing row is refused, and deletes cascade, except that a  *)
(* photo outlives its stop.                                                 *)
(*                                                                          *)
(* A table gives each id its row, Null when the id was not handed out yet,  *)
(* and Gone when its row has been deleted: uuids are not used twice.  A     *)
(* row keeps the columns the properties tell apart.  "note" stands for what *)
(* the INSERT writes and only edits change, "view" for the camera columns,  *)
(* which only an UPDATE writes.  The share id of a trip, unique and never   *)
(* changed, is the trip's own name here, so that a presentation name is one *)
(* of Slug or a trip.                                                       *)
(***************************************************************************)
CONSTANTS
    Trip, Stop, Photo, Route, Comment,  \* ids
    User, Slug, Note, View,             \* values of columns
    Null,                               \* NULL; an id not handed out yet
    Gone                                \* the row of a deleted id

VARIABLES trips, stops, photos, routes, comments

tables == <<trips, stops, photos, routes, comments>>

TripRow == [owner : User \union {Null}, note : Note, cover : Photo \union {Null},
            view : View \union {Null}, slug : Slug \union Trip \union {Null}]
StopRow == [trip : Trip, note : Note, view : View \union {Null}]
PhotoRow == [trip : Trip, stop : Stop \union {Null}, note : Note, view : View \union {Null}]
RouteRow == [trip : Trip]
CommentRow == [trip : Trip, photo : Photo]

\* Null and Gone are rows of no table and ids of none.
ASSUME NullAssumption ==
    /\ Null # Gone
    /\ {Null, Gone} \intersect
         (TripRow \union StopRow \union PhotoRow \union RouteRow \union CommentRow
           \union Trip \union Stop \union Photo \union User \union View \union Slug) = {}

TablesOK ==
    /\ trips \in [Trip -> TripRow \union {Null, Gone}]
    /\ stops \in [Stop -> StopRow \union {Null, Gone}]
    /\ photos \in [Photo -> PhotoRow \union {Null, Gone}]
    /\ routes \in [Route -> RouteRow \union {Null, Gone}]
    /\ comments \in [Comment -> CommentRow \union {Null, Gone}]

Live(row) == row \notin {Null, Gone}

\* The rows of trip t in a table: SELECT ... WHERE trip_id = ?
Of(table, t) == {x \in DOMAIN table : Live(table[x]) /\ table[x].trip = t}

\* uuid.New(): an id not handed out yet; which one makes no difference.
Unused(table) == {x \in DOMAIN table : table[x] = Null}
New(table) == CHOOSE x \in Unused(table) : TRUE

\* A table without the rows in X: DELETE.
Without(table, X) == [x \in DOMAIN table |-> IF x \in X THEN Gone ELSE table[x]]

------------------------------------------------------------------------------
(* Reading.  A list is the rows by id, Null for what it does not have; the   *)
(* order of lists is Itinerary's.                                            *)

\* Mutant: the WHERE clause is left out, and deleted rows are marked only.
ListedAll(table, t) == table
Listed(table, t) == [x \in DOMAIN table |-> IF x \in Of(table, t) THEN table[x] ELSE Null]

ListStops(t) == Listed(stops, t)
ListPhotos(t) == Listed(photos, t)
ListRoutes(t) == Listed(routes, t)
ListCommentsByTrip(t) == Listed(comments, t)

\* The trips that have presentation name n; the index allows one at most.
GetTripByPresentSlug(n) == {t \in Trip : Live(trips[t]) /\ trips[t].slug = n}
GetTripByShareID(n) == {t \in Trip : Live(trips[t]) /\ t = n}

------------------------------------------------------------------------------
(* Trips.                                                                    *)

CreateTrip(t, u, note) ==
    /\ trips[t] = Null
    /\ trips' = [trips EXCEPT ![t] = [owner |-> u, note |-> note, cover |-> Null,
                                      view |-> Null, slug |-> Null]]
    /\ UNCHANGED <<stops, photos, routes, comments>>

\* An UPDATE of a row that is gone changes nothing and is no error.
SetTrip(t, row) ==
    /\ trips' = IF Live(trips[t]) THEN [trips EXCEPT ![t] = row] ELSE trips
    /\ UNCHANGED <<stops, photos, routes, comments>>

UpdateTrip(t, note, cover, view) ==
    SetTrip(t, [trips[t] EXCEPT !.note = note, !.cover = cover, !.view = view])

\* There is no foreign key on cover_photo_id.
ResetTripDefaults(t) == SetTrip(t, [trips[t] EXCEPT !.cover = Null, !.view = Null])

UpdatePresentSlug(t, n) == SetTrip(t, [trips[t] EXCEPT !.slug = n])

\* The unique index on present_slug.
\* Mutant: the migration creates a plain index.
NoSlugIndex(t, n) == TRUE
SlugFits(t, n) == GetTripByPresentSlug(n) \subseteq {t}

\* Mutant: the trips of others are claimed as well.
ClaimAll(u) ==
    /\ trips' = [t \in Trip |-> IF Live(trips[t]) THEN [trips[t] EXCEPT !.owner = u] ELSE trips[t]]
    /\ UNCHANGED <<stops, photos, routes, comments>>

ClaimOrphanedTrips(u) ==
    /\ trips' = [t \in Trip |-> IF Live(trips[t]) /\ trips[t].owner = Null
                                THEN [trips[t] EXCEPT !.owner = u] ELSE trips[t]]
    /\ UNCHANGED <<stops, photos, routes, comments>>

DeleteTrip(t) ==
    /\ trips' = Without(trips, {t})
    /\ stops' = Without(stops, Of(stops, t))
    /\ photos' = Without(photos, Of(photos, t))
    /\ routes' = Without(routes, Of(routes, t))
    /\ comments' = Without(comments,
                     {k \in Comment : Live(comments[k]) /\ (comments[k].trip = t \/ comments[k].photo \in Of(photos, t))})

------------------------------------------------------------------------------
(* Stops.                                                                    *)

CreateStop(s, t, note) ==
    /\ stops[s] = Null
    /\ Live(trips[t])
    /\ stops' = [stops EXCEPT ![s] = [trip |-> t, note |-> note, view |-> Null]]
    /\ UNCHANGED <<trips, photos, routes, comments>>

UpdateStop(s, note, view) ==
    /\ stops' = IF Live(stops[s]) THEN [stops EXCEPT ![s] = [@ EXCEPT !.note = note, !.view = view]]
                                  ELSE stops
    /\ UNCHANGED <<trips, photos, routes, comments>>

\* Photos with their stop set to NULL where it is one of X.
\* Mutant: the foreign key has no ON DELETE SET NULL.
Dangling(X) == photos
Unassigned(X) ==
    [p \in Photo |-> IF Live(photos[p]) /\ photos[p].stop \in X
                     THEN [photos[p] EXCEPT !.stop = Null] ELSE photos[p]]

DeleteStop(s) ==
    /\ stops' = Without(stops, {s})
    /\ photos' = Unassigned({s})
    /\ UNCHANGED <<trips, routes, comments>>

DeleteStopsByTrip(t) ==
    /\ stops' = Without(stops, Of(stops, t))
    /\ photos' = Unassigned(Of(stops, t))
    /\ UNCHANGED <<trips, routes, comments>>

------------------------------------------------------------------------------
(* Photos.                                                                   *)

\* The foreign key on stop_id.
\* Mutant: the pragma foreign_keys is left out of the DSN.
NoForeignKeys(s) == TRUE
StopExists(s) == s # Null => Live(stops[s])

CreatePhoto(p, t, s, note) ==
    /\ photos[p] = Null
    /\ Live(trips[t])
    /\ StopExists(s)
    /\ photos' = [photos EXCEPT ![p] = [trip |-> t, stop |-> s, note |-> note, view |-> Null]]
    /\ UNCHANGED <<trips, stops, routes, comments>>

SetPhoto(p, row) ==
    /\ photos' = IF Live(photos[p]) THEN [photos EXCEPT ![p] = row] ELSE photos
    /\ UNCHANGED <<trips, stops, routes, comments>>

UpdatePhoto(p, s, note, view) ==
    SetPhoto(p, [photos[p] EXCEPT !.stop = s, !.note = note, !.view = view])

SetPhotoStopID(p, s) == SetPhoto(p, [photos[p] EXCEPT !.stop = s])

\* Without photos, and without the comments on them.
DropPhotos(X) ==
    /\ photos' = Without(photos, X)
    /\ comments' = Without(comments, {k \in Comment : Live(comments[k]) /\ comments[k].photo \in X})
    /\ UNCHANGED <<trips, stops, routes>>

DeletePhoto(p) == DropPhotos({p})
DeletePhotosByTrip(t) == DropPhotos(Of(photos, t))

------------------------------------------------------------------------------
(* Routes and comments.                                                      *)

CreateRoute(r, t) ==
    /\ routes[r] = Null
    /\ Live(trips[t])
    /\ routes' = [routes EXCEPT ![r] = [trip |-> t]]
    /\ UNCHANGED <<trips, stops, photos, comments>>

DropRoutes(X) ==
    /\ routes' = Without(routes, X)
    /\ UNCHANGED <<trips, stops, photos, comments>>

DeleteRoute(r) == DropRoutes({r})
DeleteRoutesByTrip(t) == DropRoutes(Of(routes, t))

\* The two foreign keys of a comment.
\* Mutant: photo_id is a plain column.
TripFits(t, p) == Live(trips[t])
CommentFits(t, p) == Live(trips[t]) /\ Live(photos[p])

CreateComment(k, t, p) ==
    /\ comments[k] = Null
    /\ CommentFits(t, p)
    /\ comments' = [comments EXCEPT ![k] = [trip |-> t, photo |-> p]]
    /\ UNCHANGED <<trips, stops, photos, routes>>

DeleteComment(k) ==
    /\ comments' = Without(comments, {k})
    /\ UNCHANGED <<trips, stops, photos, routes>>

==============================================================================
