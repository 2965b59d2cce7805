----------------------------- MODULE TripRecords -----------------------------
(***************************************************************************)
(* The requests that edit trips, photos, stops, routes and comments, over   *)
(* the tables of TripStore.                                                 *)
(*                                                                          *)
(* A request that comes down to one statement is one step: what it has      *)
(* looked up before (whose trip it is, which trip a photo is in) does not   *)
(* change while the row is there, and without the row the statement does    *)
(* nothing or is refused.  The requests that write back what they have      *)
(* read, or whose look-up may be overtaken, take two steps, a reset four;   *)
(* call[c] is such a request: where it is (pc) and the parameters of its    *)
(* next statement.                                                          *)
(***************************************************************************)
EXTENDS TripStore

CONSTANTS
    Call,    \* requests of more than one step
    Kinds,   \* bound: the kinds of requests there are
    Faults

\* "busy": a statement may fail (SQLITE_BUSY).  "restart": the process may end.
ASSUME FaultsAssumption == Faults \subseteq {"busy", "restart"}

\* Ids are uuids: no two rows of any tables share one.
ASSUME IdsAssumption ==
    /\ Photo \intersect (Stop \union Route \union Comment) = {}
    /\ Stop \intersect (Route \union Comment) = {}
    /\ Route \intersect Comment = {}

VARIABLE call

recordVars == <<trips, stops, photos, routes, comments, call>>

Idle == [pc |-> "idle"]

CallRow ==
    {Idle}
    \union [pc : {"update_trip"}, trip : Trip, note : Note, cover : Photo \union {Null},
            view : View \union {Null}]
    \union [pc : {"update_stop"}, stop : Stop, note : Note, view : View \union {Null}]
    \union [pc : {"update_photo", "rescan"}, photo : Photo, stop : Stop \union {Null},
            note : Note, view : View \union {Null}]
    \union [pc : {"slug"}, trip : Trip, slug : Slug \union Trip]
    \union [pc : {"comment"}, trip : Trip, photo : Photo]
    \union [pc : {"reset_photos", "reset_stops", "reset_routes", "reset_defaults", "reset_done"},
            trip : Trip, had : SUBSET (Photo \union Stop \union Route \union Comment),
            failed : BOOLEAN]

RecordsOK == TablesOK /\ call \in [Call -> CallRow]

RecordsInit ==
    /\ trips \in [Trip -> {Null} \union
                   [owner : {Null}, note : Note, cover : {Null}, view : {Null}, slug : {Null}]]
    /\ "list_trips" \notin Kinds => trips = [t \in Trip |-> Null]
    /\ stops = [s \in Stop |-> Null]
    /\ photos = [p \in Photo |-> Null]
    /\ routes = [r \in Route |-> Null]
    /\ comments = [k \in Comment |-> Null]
    /\ call = [c \in Call |-> Idle]

At(c, pc) == call[c].pc = pc
Become(c, row) == call' = [call EXCEPT ![c] = row]
Start(c, row) == At(c, "idle") /\ Become(c, row) /\ UNCHANGED tables

\* The request ends.  A statement that is refused, or fails, changes nothing.
Return(c) == Become(c, Idle)
Give(c) == Return(c) /\ UNCHANGED tables

\* The trip is there and its owner asks.
Owned(t) == Live(trips[t]) /\ trips[t].owner # Null

------------------------------------------------------------------------------
(* Trips.                                                                    *)

ListTrips(u) == ClaimOrphanedTrips(u) /\ UNCHANGED call

NewTrip(u) ==
    /\ Unused(trips) # {}
    /\ \E n \in Note : CreateTrip(New(trips), u, n)
    /\ UNCHANGED call

RemoveTrip(t) == Owned(t) /\ DeleteTrip(t) /\ UNCHANGED call

\* The trip is read with the check of its owner, before the body is; a camera
\* that the body leaves out is written back as read.
UpdateTripBegin(c, t) ==
    /\ Owned(t)
    /\ \E n \in Note, v \in View \union {Null}, p \in Of(photos, t) \union {Null, trips[t].cover} :
         Start(c, [pc |-> "update_trip", trip |-> t, note |-> n, cover |-> p,
                   view |-> IF v = Null THEN trips[t].view ELSE v])

UpdateTripWrite(c) ==
    /\ At(c, "update_trip")
    /\ UpdateTrip(call[c].trip, call[c].note, call[c].cover, call[c].view)
    /\ Return(c)

\* A name that another trip has is refused with 409.
SlugBegin(c, t, n) ==
    /\ Owned(t)
    /\ GetTripByPresentSlug(n) \subseteq {t}
    /\ Start(c, [pc |-> "slug", trip |-> t, slug |-> n])

SlugWrite(c) ==
    /\ At(c, "slug")
    /\ SlugFits(call[c].trip, call[c].slug)
    /\ UpdatePresentSlug(call[c].trip, call[c].slug)
    /\ Return(c)

SlugRefused(c) == At(c, "slug") /\ ~SlugFits(call[c].trip, call[c].slug) /\ Give(c)

\* What a presentation link /present/n shows.
Present(n) == IF GetTripByPresentSlug(n) # {} THEN GetTripByPresentSlug(n) ELSE GetTripByShareID(n)

------------------------------------------------------------------------------
(* Resetting a trip: four statements, whose errors are not looked at.        *)

ResetBegin(c, t) ==
    /\ Owned(t)
    /\ Start(c, [pc |-> "reset_photos", trip |-> t, failed |-> FALSE,
                 had |-> Of(photos, t) \union Of(stops, t) \union Of(routes, t)
                           \union {k \in Comment : Live(comments[k]) /\ comments[k].photo \in Of(photos, t)}])

ResetStatement(c, pc, next, statement) ==
    /\ At(c, pc)
    /\ \/ statement /\ Become(c, [call[c] EXCEPT !.pc = next])
       \/ /\ "busy" \in Faults
          /\ UNCHANGED tables
          /\ Become(c, [call[c] EXCEPT !.pc = next, !.failed = TRUE])

ResetPhotos(c) == ResetStatement(c, "reset_photos", "reset_stops", DeletePhotosByTrip(call[c].trip))
\* Mutant: the stops are left.
ResetKeepsStops(c) == ResetStatement(c, "reset_stops", "reset_routes", UNCHANGED tables)
ResetStops(c) == ResetStatement(c, "reset_stops", "reset_routes", DeleteStopsByTrip(call[c].trip))
ResetRoutes(c) == ResetStatement(c, "reset_routes", "reset_defaults", DeleteRoutesByTrip(call[c].trip))
ResetDefaults(c) == ResetStatement(c, "reset_defaults", "reset_done", ResetTripDefaults(call[c].trip))
ResetDone(c) == At(c, "reset_done") /\ Give(c)

------------------------------------------------------------------------------
(* Stops.  The places of stops and the sorting of photos are Itinerary's.    *)

NewStop(t) ==
    /\ Owned(t) /\ Unused(stops) # {}
    /\ \E n \in Note : CreateStop(New(stops), t, n)
    /\ UNCHANGED call

\* The camera is the body's, or none (clear_camera), or the one that a second
\* SELECT reads, whose error is not looked at and leaves none.
UpdateStopBegin(c, s) ==
    /\ Live(stops[s])
    /\ \E n \in Note, v \in View \union {Null} :
         Start(c, [pc |-> "update_stop", stop |-> s, note |-> n, view |-> v])

UpdateStopWrite(c) ==
    /\ At(c, "update_stop")
    /\ UpdateStop(call[c].stop, call[c].note, call[c].view)
    /\ Return(c)

RemoveStop(s) == Live(stops[s]) /\ DeleteStop(s) /\ UNCHANGED call

------------------------------------------------------------------------------
(* Photos.  A page knows the stops of the trip it shows, and may know some   *)
(* that are gone.                                                            *)

NewPhoto(t) ==
    /\ Owned(t) /\ Unused(photos) # {}
    /\ \E n \in Note, s \in Of(stops, t) \union {Null} : CreatePhoto(New(photos), t, s, n)
    /\ UNCHANGED call

RemovePhoto(p) == Live(photos[p]) /\ DeletePhoto(p) /\ UNCHANGED call

KnownStops(t) == {s \in Stop : stops[s] = Gone \/ s \in Of(stops, t)} \union {Null}

UpdatePhotoBegin(c, p) ==
    /\ Live(photos[p])
    /\ \E s \in KnownStops(photos[p].trip), n \in Note, v \in View \union {Null} :
         Start(c, [pc |-> "update_photo", photo |-> p, stop |-> s, note |-> n, view |-> v])

\* The file is read between the two statements.
RescanBegin(c, p) ==
    /\ Live(photos[p])
    /\ Start(c, [pc |-> "rescan", photo |-> p, stop |-> photos[p].stop,
                 note |-> photos[p].note, view |-> photos[p].view])

UpdatePhotoWrite(c) ==
    /\ call[c].pc \in {"update_photo", "rescan"}
    /\ StopExists(call[c].stop)
    /\ UpdatePhoto(call[c].photo, call[c].stop, call[c].note, call[c].view)
    /\ Return(c)

\* An UPDATE of a photo that is gone writes no row, and no key is checked.
UpdatePhotoRefused(c) ==
    /\ call[c].pc \in {"update_photo", "rescan"}
    /\ ~StopExists(call[c].stop)
    /\ Give(c)

\* GetStop, the comparison and the UPDATE: a stop does not change its trip.
AssignPhoto(p, s) ==
    /\ Live(photos[p])
    /\ s # Null => s \in Of(stops, photos[p].trip)
    /\ SetPhotoStopID(p, s)
    /\ UNCHANGED call

------------------------------------------------------------------------------
(* Routes and comments.                                                      *)

NewRoute(t) == Owned(t) /\ Unused(routes) # {} /\ CreateRoute(New(routes), t) /\ UNCHANGED call
RemoveRoute(r) == Live(routes[r]) /\ DeleteRoute(r) /\ UNCHANGED call

CommentBegin(c, t, p) == Start(c, [pc |-> "comment", trip |-> t, photo |-> p])

CommentByOwner(c, p) ==
    /\ Live(photos[p])
    /\ CommentBegin(c, photos[p].trip, p)

\* Mutant: the trip of the photo is not compared with the trip of the link.
AnyPhoto(p, t) == Live(photos[p])
PhotoOfTrip(p, t) == Live(photos[p]) /\ photos[p].trip = t

CommentByShare(c, n, p) ==
    \E t \in GetTripByShareID(n) : PhotoOfTrip(p, t) /\ CommentBegin(c, t, p)

CommentByPresent(c, n, p) ==
    \E t \in Present(n) : PhotoOfTrip(p, t) /\ CommentBegin(c, t, p)

CommentWrite(c) ==
    /\ At(c, "comment") /\ Unused(comments) # {}
    /\ CreateComment(New(comments), call[c].trip, call[c].photo)
    /\ Return(c)

CommentRefused(c) == At(c, "comment") /\ ~CommentFits(call[c].trip, call[c].photo) /\ Give(c)

RemoveComment(k) == Live(comments[k]) /\ DeleteComment(k) /\ UNCHANGED call

------------------------------------------------------------------------------
Restart == "restart" \in Faults /\ call' = [c \in Call |-> Idle] /\ UNCHANGED tables

\* Requests of one statement.
Direct ==
    \/ "list_trips" \in Kinds /\ \E u \in User : ListTrips(u)
    \/ "create_trip" \in Kinds /\ \E u \in User : NewTrip(u)
    \/ "create_stop" \in Kinds /\ \E t \in Trip : NewStop(t)
    \/ "create_photo" \in Kinds /\ \E t \in Trip : NewPhoto(t)
    \/ "create_route" \in Kinds /\ \E t \in Trip : NewRoute(t)
    \/ "assign" \in Kinds /\ \E p \in Photo, s \in Stop \union {Null} : AssignPhoto(p, s)
    \/ "delete_trip" \in Kinds /\ \E t \in Trip : RemoveTrip(t)
    \/ "delete_stop" \in Kinds /\ \E s \in Stop : RemoveStop(s)
    \/ "delete_photo" \in Kinds /\ \E p \in Photo : RemovePhoto(p)
    \/ "delete_route" \in Kinds /\ \E r \in Route : RemoveRoute(r)
    \/ "delete_comment" \in Kinds /\ \E k \in Comment : RemoveComment(k)

Begin(c) ==
    \/ "update_trip" \in Kinds /\ \E t \in Trip : UpdateTripBegin(c, t)
    \/ "reset" \in Kinds /\ \E t \in Trip : ResetBegin(c, t)
    \/ "slug" \in Kinds /\ \E t \in Trip, n \in Slug \union Trip : SlugBegin(c, t, n)
    \/ "update_stop" \in Kinds /\ \E s \in Stop : UpdateStopBegin(c, s)
    \/ "update_photo" \in Kinds /\ \E p \in Photo : UpdatePhotoBegin(c, p)
    \/ "rescan" \in Kinds /\ \E p \in Photo : RescanBegin(c, p)
    \/ "comment" \in Kinds /\ \E p \in Photo :
         \/ CommentByOwner(c, p)
         \/ \E n \in Slug \union Trip : CommentByShare(c, n, p) \/ CommentByPresent(c, n, p)

Finish(c) ==
    \/ UpdateTripWrite(c) \/ SlugWrite(c) \/ SlugRefused(c)
    \/ UpdateStopWrite(c) \/ UpdatePhotoWrite(c) \/ UpdatePhotoRefused(c)
    \/ CommentWrite(c) \/ CommentRefused(c)
    \/ ResetPhotos(c) \/ ResetStops(c) \/ ResetRoutes(c) \/ ResetDefaults(c) \/ ResetDone(c)

RecordsNext == Direct \/ (\E c \in Call : Begin(c) \/ Finish(c)) \/ Restart

RecordsSpec == RecordsInit /\ [][RecordsNext]_recordVars

------------------------------------------------------------------------------
\* A photo's stop is there and is a stop of the photo's trip: the import
\* renames stops (backup.go:334-339), updates and rescans come late
\* (server.go:2099, 2209), and resets and deletes come in between.
StopsOfOwnTrip ==
    \A p \in Photo : Live(photos[p]) /\ photos[p].stop # Null =>
        photos[p].stop \in Of(stops, photos[p].trip)

\* A cover that is there is a photo of the trip (backup.go:482-487); it may be
\* gone, for cover_photo_id is no foreign key.
CoversOfOwnTrip ==
    \A t \in Trip : Live(trips[t]) /\ trips[t].cover # Null =>
        photos[trips[t].cover] = Gone \/ trips[t].cover \in Of(photos, t)

\* No row outlives its trip, and no comment its photo, whatever handler was
\* about to insert it (server.go:1103, 2477-2484, 2934).
NothingOutlivesItsTrip ==
    /\ \A x \in Stop : Live(stops[x]) => Live(trips[stops[x].trip])
    /\ \A x \in Photo : Live(photos[x]) => Live(trips[photos[x].trip])
    /\ \A x \in Route : Live(routes[x]) => Live(trips[routes[x].trip])
    /\ \A x \in Comment : Live(comments[x]) => Live(trips[comments[x].trip]) /\ Live(photos[comments[x].photo])

\* A comment's photo is in the comment's trip, also when the name in the link
\* went to another trip on the way (server.go:2893, 2917, 1256).
CommentsOfOwnTrip ==
    \A k \in Comment : Live(comments[k]) => comments[k].photo \in Of(photos, comments[k].trip)

\* A presentation name leads to one trip, also when two trips ask for it at
\* the same time (server.go:1173-1185).
NamesAreDistinct ==
    \A t1, t2 \in Trip : Live(trips[t1]) /\ Live(trips[t2]) /\ t1 # t2 =>
        trips[t1].slug = Null \/ trips[t1].slug # trips[t2].slug

\* When a reset without a failing statement answers, nothing is left of what
\* the trip had when it began (server.go:2461-2501).
ResetClears ==
    \A c \in Call : At(c, "reset_done") /\ ~call[c].failed =>
        \A x \in call[c].had :
            /\ x \in Photo => photos[x] = Gone
            /\ x \in Stop => stops[x] = Gone
            /\ x \in Route => routes[x] = Gone
            /\ x \in Comment => comments[x] = Gone

\* A trip never changes hands: a list claims the trips of nobody
\* (server.go:954).
OwnersStay ==
    [][\A t \in Trip : Live(trips[t]) /\ trips[t].owner # Null /\ Live(trips'[t]) =>
          trips'[t].owner = trips[t].owner]_trips

==============================================================================
