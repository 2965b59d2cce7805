----------------------------- MODULE TripBackup -----------------------------
(***************************************************************************)
(* Export and import of trips (backup.go), beside the requests of           *)
(* TripRecords.                                                             *)
(*                                                                          *)
(* An export reads a trip by five SELECTs, which no transaction holds       *)
(* together, and delivers them as a manifest.  handleGetTrip and the public *)
(* pages read a trip in the same way, so that a manifest is also what a     *)
(* page shows.  An import inserts the rows of a manifest one by one under   *)
(* new ids.  Photo files are in MediaFiles.                                 *)
(***************************************************************************)
EXTENDS TripRecords, Naturals, FiniteSets

CONSTANTS
    Job,     \* exports and imports
    Exports  \* bound: how many manifests are delivered

ASSUME ExportsAssumption == Exports \in Nat

\* Ids are uuids, of 122 bits.
ASSUME FiniteAssumption ==
    IsFiniteSet(Stop) /\ IsFiniteSet(Photo) /\ IsFiniteSet(Route) /\ IsFiniteSet(Comment)

VARIABLES
    job,     \* where each export or import is
    backups  \* the manifests users have

vars == <<trips, stops, photos, routes, comments, call, job, backups>>

\* "had": the stops there were when the reading began, and the photos, but
\* those of other trips; for ReferencesAreKnown alone, no part of the file.
Manifest ==
    [trip : TripRow,
     stops : [Stop -> StopRow \union {Null}], photos : [Photo -> PhotoRow \union {Null}],
     routes : [Route -> RouteRow \union {Null}],
     comments : [Comment -> CommentRow \union {Null}],
     had : SUBSET (Stop \union Photo)]

Rows(list) == {x \in DOMAIN list : list[x] # Null}
NoRows(ids) == [x \in ids |-> Null]

\* "stop", "photo": stopIDMap and photoIDMap.  "left": rows yet to be
\* inserted.  "last": the row whose camera is written next.  "exact": for
\* AnsweredImportIsWhole alone, that no UPDATE whose error is passed over has
\* failed and that nobody has edited the new trip meanwhile.
ExportRow == [pc : {"stops", "photos", "routes", "comments"}, trip : Trip, man : Manifest]
ImportRow ==
    [pc : {"insert", "view", "answer"}, trip : Trip, man : Manifest,
     left : SUBSET (Stop \union Photo \union Route \union Comment),
     last : Stop \union Photo \union {Null},
     stop : [Stop -> Stop \union {Null}], photo : [Photo -> Photo \union {Null}],
     exact : BOOLEAN]

TypeOK ==
    /\ RecordsOK
    /\ job \in [Job -> {Idle} \union ExportRow \union ImportRow]
    /\ backups \subseteq Manifest

Init == RecordsInit /\ job = [j \in Job |-> Idle] /\ backups = {}

JobAt(j, pc) == job[j].pc = pc
JobBecome(j, row) == job' = [job EXCEPT ![j] = row]

------------------------------------------------------------------------------
(* Export.  The trip is read with the check of its owner.                    *)

ExportBegin(j, t) ==
    /\ JobAt(j, "idle") /\ Cardinality(backups) < Exports
    /\ Owned(t)
    /\ JobBecome(j, [pc |-> "stops", trip |-> t,
                     man |-> [trip |-> trips[t], stops |-> NoRows(Stop), photos |-> NoRows(Photo),
                              routes |-> NoRows(Route), comments |-> NoRows(Comment), had |-> {}]])
    /\ UNCHANGED <<tables, call, backups>>

Read(j, pc, next, man) ==
    /\ JobAt(j, pc)
    /\ JobBecome(j, [job[j] EXCEPT !.pc = next, !.man = man])
    /\ UNCHANGED <<tables, call, backups>>

ExportStops(j) ==
    Read(j, "stops", "photos",
         [job[j].man EXCEPT !.stops = ListStops(job[j].trip),
                            !.had = {s \in Stop : stops[s] # Null} \union {p \in Photo : photos[p] = Gone}
                                      \union Of(photos, job[j].trip)])
ExportPhotos(j) ==
    Read(j, "photos", "routes", [job[j].man EXCEPT !.photos = ListPhotos(job[j].trip)])
ExportRoutes(j) ==
    Read(j, "routes", "comments", [job[j].man EXCEPT !.routes = ListRoutes(job[j].trip)])

ExportComments(j) ==
    /\ JobAt(j, "comments")
    /\ backups' = backups \union {[job[j].man EXCEPT !.comments = ListCommentsByTrip(job[j].trip)]}
    /\ JobBecome(j, Idle)
    /\ UNCHANGED <<tables, call>>

------------------------------------------------------------------------------
(* Import.                                                                   *)

ImportBegin(j, u, m) ==
    /\ JobAt(j, "idle") /\ Unused(trips) # {}
    /\ CreateTrip(New(trips), u, m.trip.note)
    /\ JobBecome(j, [pc |-> "insert", trip |-> New(trips), man |-> m,
                     left |-> Rows(m.stops) \union Rows(m.photos) \union Rows(m.routes) \union Rows(m.comments),
                     last |-> Null, stop |-> NoRows(Stop), photo |-> NoRows(Photo), exact |-> TRUE])
    /\ UNCHANGED <<call, backups>>

\* INSERT of the next row of a table, when those of the tables before are
\* done; the order within a table makes no difference here.  It is refused
\* when a row it refers to is missing or the database is busy; that ends the
\* import, and what was inserted stays.
NextOf(j, ids) == CHOOSE x \in job[j].left : x \in ids

Insert(j, ids, before, fits, insert, after) ==
    /\ JobAt(j, "insert")
    /\ job[j].left \intersect ids # {} /\ job[j].left \intersect before = {}
    /\ \/ fits /\ insert /\ JobBecome(j, [after EXCEPT !.left = @ \ {NextOf(j, ids)}])
       \/ (~fits \/ "busy" \in Faults) /\ UNCHANGED tables /\ JobBecome(j, Idle)
    /\ UNCHANGED <<call, backups>>

\* The UPDATE that follows for columns no INSERT writes.
Then(row) == IF row.view = Null THEN "insert" ELSE "view"

ImportStop(j) ==
    LET s == NextOf(j, Stop)
        row == job[j].man.stops[s] IN
    /\ Unused(stops) # {}
    /\ Insert(j, Stop, {}, Live(trips[job[j].trip]), CreateStop(New(stops), job[j].trip, row.note),
              [job[j] EXCEPT !.stop[s] = New(stops), !.last = s, !.pc = Then(row)])

\* An unknown stop becomes NULL.
NewStopOf(map, s) == IF s # Null THEN map[s] ELSE Null

ImportPhoto(j) ==
    LET p == NextOf(j, Photo)
        row == job[j].man.photos[p]
        stop == NewStopOf(job[j].stop, row.stop) IN
    /\ Unused(photos) # {}
    /\ Insert(j, Photo, Stop, Live(trips[job[j].trip]) /\ StopExists(stop),
              CreatePhoto(New(photos), job[j].trip, stop, row.note),
              [job[j] EXCEPT !.photo[p] = New(photos), !.last = p, !.pc = Then(row)])

\* When this UPDATE fails, the import goes on.
Follow(j, next, fits, update) ==
    /\ \/ fits /\ update /\ JobBecome(j, [job[j] EXCEPT !.pc = next])
       \/ /\ ~fits \/ "busy" \in Faults
          /\ UNCHANGED tables
          /\ JobBecome(j, [job[j] EXCEPT !.pc = next, !.exact = FALSE])
    /\ UNCHANGED <<call, backups>>

ImportStopView(j) ==
    LET row == job[j].man.stops[job[j].last] IN
    /\ JobAt(j, "view") /\ job[j].last \in Stop
    /\ Follow(j, "insert", TRUE, UpdateStop(job[j].stop[job[j].last], row.note, row.view))

ImportPhotoView(j) ==
    LET row == job[j].man.photos[job[j].last]
        stop == NewStopOf(job[j].stop, row.stop) IN
    /\ JobAt(j, "view") /\ job[j].last \in Photo
    /\ Follow(j, "insert", StopExists(stop),
              UpdatePhoto(job[j].photo[job[j].last], stop, row.note, row.view))

ImportRoute(j) ==
    /\ Unused(routes) # {}
    /\ Insert(j, Route, Stop \union Photo, Live(trips[job[j].trip]),
              CreateRoute(New(routes), job[j].trip), job[j])

\* The photo of a comment keeps its id if the manifest does not have it.
\* Mutant: it keeps its id in any case.
OldPhoto(map, p) == p
NewPhotoOf(map, p) == IF map[p] # Null THEN map[p] ELSE p

ImportComment(j) ==
    LET p == NewPhotoOf(job[j].photo, job[j].man.comments[NextOf(j, Comment)].photo) IN
    /\ Unused(comments) # {}
    /\ Insert(j, Comment, Stop \union Photo \union Route, CommentFits(job[j].trip, p),
              CreateComment(New(comments), job[j].trip, p), job[j])

\* A cover that is not in the manifest becomes NULL.
\* Mutant: the cover keeps its old id.
KeepCover(map, p) == p
NewCoverOf(map, p) == IF p # Null THEN map[p] ELSE Null

ImportCover(j) ==
    LET row == job[j].man.trip IN
    /\ JobAt(j, "insert") /\ job[j].left = {}
    /\ Follow(j, "answer", TRUE,
              UpdateTrip(job[j].trip, row.note, NewCoverOf(job[j].photo, row.cover), row.view))

\* 201, or an error if the trip cannot be read back.
ImportAnswer(j) == JobAt(j, "answer") /\ JobBecome(j, Idle) /\ UNCHANGED <<tables, call, backups>>

------------------------------------------------------------------------------
\* The trip is in its owner's list as soon as it is created, and can be edited
\* while it is filled.
SameRows(old, new, t) == \A x \in Of(old, t) \union Of(new, t) : new[x] = old[x]

SameTrip(t) ==
    /\ trips'[t] = trips[t]
    /\ SameRows(stops, stops', t) /\ SameRows(photos, photos', t)
    /\ SameRows(routes, routes', t) /\ SameRows(comments, comments', t)

Edit ==
    /\ Direct \/ (\E c \in Call : Begin(c) \/ Finish(c))
    /\ job' = [j \in Job |-> IF job[j].pc \in {"insert", "view", "answer"} /\ ~SameTrip(job[j].trip)
                            THEN [job[j] EXCEPT !.exact = FALSE] ELSE job[j]]
    /\ UNCHANGED backups

Crash ==
    /\ Restart
    /\ job' = [j \in Job |-> Idle]
    /\ UNCHANGED backups

Export(j) ==
    \/ \E t \in Trip : ExportBegin(j, t)
    \/ ExportStops(j) \/ ExportPhotos(j) \/ ExportRoutes(j) \/ ExportComments(j)

Import(j) ==
    \/ \E u \in User, m \in backups : ImportBegin(j, u, m)
    \/ ImportStop(j) \/ ImportStopView(j) \/ ImportPhoto(j) \/ ImportPhotoView(j)
    \/ ImportRoute(j) \/ ImportComment(j) \/ ImportCover(j) \/ ImportAnswer(j)

Next == Edit \/ Crash \/ (\E j \in Job : Export(j) \/ Import(j))

Spec == Init /\ [][Next]_vars

------------------------------------------------------------------------------
\* A manifest lacks what it refers to only if that was created after the
\* reading began (backup.go:86-109, server.go:919-934), or is a photo of another
\* trip, which a comment keeps whose photo the imported manifest lacked
\* (backup.go:461-463).  The order of the SELECTs matters: photos before stops
\* would refer to stops deleted in between.
ReferencesAreKnown ==
    \A m \in backups :
        /\ \A p \in Rows(m.photos) : m.photos[p].stop \in Rows(m.stops) \union {Null} \union (Stop \ m.had)
        /\ \A k \in Rows(m.comments) : m.comments[k].photo \in Rows(m.photos) \union (Photo \ m.had)

\* What an import that is about to answer 201 has made is the trip of the
\* manifest under new ids: the same stops, photos, routes and comments, each
\* photo at its stop, each comment at its photo, the cover the cover.
CopyIsWhole(j) ==
    LET m == job[j].man
        t == job[j].trip
        newStop == job[j].stop
        newPhoto == job[j].photo
        known(s) == IF s # Null THEN newStop[s] ELSE Null IN
    /\ Of(stops, t) = {newStop[s] : s \in Rows(m.stops)}
    /\ Cardinality(Of(stops, t)) = Cardinality(Rows(m.stops))
    /\ \A s \in Rows(m.stops) : stops[newStop[s]] = [m.stops[s] EXCEPT !.trip = t]
    /\ Of(photos, t) = {newPhoto[p] : p \in Rows(m.photos)}
    /\ Cardinality(Of(photos, t)) = Cardinality(Rows(m.photos))
    /\ \A p \in Rows(m.photos) :
         photos[newPhoto[p]] = [m.photos[p] EXCEPT !.trip = t, !.stop = known(@)]
    /\ Cardinality(Of(routes, t)) = Cardinality(Rows(m.routes))
    /\ \A p \in Rows(m.photos) :
         Cardinality({k \in Of(comments, t) : comments[k].photo = newPhoto[p]})
           = Cardinality({k \in Rows(m.comments) : m.comments[k].photo = p})
    /\ trips[t].view = m.trip.view /\ trips[t].note = m.trip.note
    /\ trips[t].cover = IF m.trip.cover # Null THEN newPhoto[m.trip.cover] ELSE Null

AnsweredImportIsWhole == \A j \in Job : JobAt(j, "answer") /\ job[j].exact => CopyIsWhole(j)

==============================================================================
