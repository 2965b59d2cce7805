--------------------------- MODULE TripBackupProofs ---------------------------
(***************************************************************************)
(* Theorems about the specification of TripBackup, for any number of trips,  *)
(* rows, requests, exports and imports, and under every fault.  What the      *)
(* tables owe each other, and what a request has checked, is RecordsInv of    *)
(* TripRecordsProofs: the statements of an import keep it as well.            *)
(*                                                                           *)
(* Reading says what an export knows when it is half-way through its SELECTs,  *)
(* Filling what an import relies on, Copying what it has copied so far.        *)
(***************************************************************************)
EXTENDS TripBackup, TripRecordsProofs, FiniteSetTheorems

ReadPc == {"stops", "photos", "routes", "comments"}
FillPc == {"insert", "view", "answer"}

\* Every photo with a comment in the manifest has an id that was handed out.
Known(m) == \A k \in Rows(m.comments) : photos[m.comments[k].photo] # Null

StopsKnown(m) ==
    \A p \in Rows(m.photos) : m.photos[p].stop \in Rows(m.stops) \union {Null} \union (Stop \ m.had)

PhotosKnown(m) ==
    \A k \in Rows(m.comments) : m.comments[k].photo \in Rows(m.photos) \union (Photo \ m.had)

Delivered(m) == Known(m) /\ StopsKnown(m) /\ PhotosKnown(m)

\* Of the stops and photos there were when the reading began, those that are
\* in the trip have been, and are in the manifest once their table is read.
Reading(r) ==
    /\ r.pc \in {"photos", "routes", "comments"} =>
         /\ \A s \in Stop : s \in r.man.had =>
              stops[s] # Null /\ (Live(stops[s]) /\ stops[s].trip = r.trip => s \in Rows(r.man.stops))
         /\ \A p \in Photo : p \in r.man.had => Member(photos, p, r.trip)
    /\ r.pc \in {"routes", "comments"} =>
         /\ StopsKnown(r.man)
         /\ \A p \in Photo : p \in r.man.had /\ Live(photos[p]) => p \in Rows(r.man.photos)

\* The new ids are rows of the new trip, and none that a comment of the
\* manifest refers to.
Filling(r) ==
    r.pc \in FillPc =>
        /\ trips[r.trip] # Null
        /\ r.left \subseteq Rows(r.man.stops) \union Rows(r.man.photos) \union Rows(r.man.routes)
                              \union Rows(r.man.comments)
        /\ \A s \in Stop : r.stop[s] # Null => Member(stops, r.stop[s], r.trip)
        /\ \A p \in Photo : r.photo[p] # Null =>
             /\ Member(photos, r.photo[p], r.trip)
             /\ \A k \in Rows(r.man.comments) : r.man.comments[k].photo # r.photo[p]
        /\ Known(r.man)
        /\ r.pc = "view" => \/ r.last \in Rows(r.man.stops) /\ r.stop[r.last] # Null
                            \/ r.last \in Rows(r.man.photos) /\ r.photo[r.last] # Null

\* A table is filled when those before it are done.
InOrder(r) ==
    /\ r.left \intersect Stop # {} => Rows(r.man.photos) \subseteq r.left
    /\ r.left \intersect Photo # {} => Rows(r.man.comments) \subseteq r.left /\ Of(comments, r.trip) = {}

\* The camera of the row inserted last is yet to be written.
ViewOf(r, x, view) == IF r.pc = "view" /\ r.last = x THEN Null ELSE view

DoneStops(r) == Rows(r.man.stops) \ r.left
DonePhotos(r) == Rows(r.man.photos) \ r.left

StopsCopied(r) ==
    /\ \A s \in Stop : r.stop[s] # Null <=> s \in DoneStops(r)
    /\ \A s1, s2 \in DoneStops(r) : r.stop[s1] = r.stop[s2] => s1 = s2
    /\ Of(stops, r.trip) = {r.stop[s] : s \in DoneStops(r)}
    /\ Cardinality(Of(stops, r.trip)) + Cardinality(r.left \intersect Stop) = Cardinality(Rows(r.man.stops))
    /\ \A s \in DoneStops(r) :
         /\ stops[r.stop[s]].note = r.man.stops[s].note
         /\ stops[r.stop[s]].view = ViewOf(r, s, r.man.stops[s].view)

PhotosCopied(r) ==
    /\ \A p \in Photo : r.photo[p] # Null <=> p \in DonePhotos(r)
    /\ \A p1, p2 \in DonePhotos(r) : r.photo[p1] = r.photo[p2] => p1 = p2
    /\ Of(photos, r.trip) = {r.photo[p] : p \in DonePhotos(r)}
    /\ Cardinality(Of(photos, r.trip)) + Cardinality(r.left \intersect Photo) = Cardinality(Rows(r.man.photos))
    /\ \A p \in DonePhotos(r) :
         /\ photos[r.photo[p]].stop = NewStopOf(r.stop, r.man.photos[p].stop)
         /\ photos[r.photo[p]].note = r.man.photos[p].note
         /\ photos[r.photo[p]].view = ViewOf(r, p, r.man.photos[p].view)

RoutesCopied(r) ==
    Cardinality(Of(routes, r.trip)) + Cardinality(r.left \intersect Route) = Cardinality(Rows(r.man.routes))

\* The comments on a photo, those copied and those left, are as many as there were.
CommentsOn(t, p) == {k \in Of(comments, t) : comments[k].photo = p}
ListedOn(m, ids, p) == {k \in ids \intersect Comment : m.comments[k].photo = p}

CommentsCopied(r) ==
    \A p \in DonePhotos(r) :
        Cardinality(CommentsOn(r.trip, r.photo[p])) + Cardinality(ListedOn(r.man, r.left, p))
          = Cardinality(ListedOn(r.man, Rows(r.man.comments), p))

Settled(r) ==
    r.pc = "answer" =>
        /\ r.left = {}
        /\ trips[r.trip].view = r.man.trip.view /\ trips[r.trip].note = r.man.trip.note
        /\ trips[r.trip].cover = NewCoverOf(r.photo, r.man.trip.cover)

Copying(r) ==
    r.pc \in FillPc /\ r.exact =>
        /\ Live(trips[r.trip])
        /\ InOrder(r) /\ StopsCopied(r) /\ PhotosCopied(r) /\ RoutesCopied(r) /\ CommentsCopied(r)
        /\ Settled(r)

TripsApart ==
    \A i, j \in Job : i # j /\ job[i].pc \in FillPc /\ job[j].pc \in FillPc => job[i].trip # job[j].trip

JobsInv ==
    /\ job \in [Job -> {Idle} \union ExportRow \union ImportRow]
    /\ backups \subseteq Manifest
    /\ \A m \in backups : Delivered(m)
    /\ \A j \in Job : Reading(job[j]) /\ Filling(job[j]) /\ Copying(job[j])
    /\ TripsApart

BackupInv == RecordsInv /\ JobsInv


------------------------------------------------------------------------------
(* Types.                                                                    *)

JobRow == {Idle} \union ExportRow \union ImportRow

LEMMA JobTypes ==
  ASSUME NEW r \in JobRow
  PROVE  /\ r.pc \in ReadPc => r \in ExportRow
         /\ r.pc \in FillPc => r \in ImportRow
         /\ r = Idle \/ r.pc \in ReadPc \/ r.pc \in FillPc
         /\ r = Idle => r.pc \notin ReadPc \union FillPc
BY DEF JobRow, Idle, ExportRow, ImportRow, ReadPc, FillPc

LEMMA ManifestTypes ==
  ASSUME NEW m \in Manifest
  PROVE  /\ m.trip \in TripRow /\ m.had \subseteq Stop \union Photo
         /\ Rows(m.stops) \subseteq Stop /\ Rows(m.photos) \subseteq Photo
         /\ Rows(m.routes) \subseteq Route /\ Rows(m.comments) \subseteq Comment
         /\ \A s \in Rows(m.stops) : m.stops[s] \in StopRow
         /\ \A p \in Rows(m.photos) : m.photos[p] \in PhotoRow
         /\ \A k \in Rows(m.comments) : m.comments[k] \in CommentRow
BY DEF Manifest, Rows

LEMMA NoRowsIs ==
  ASSUME NEW D, NEW R
  PROVE  NoRows(D) \in [D -> R \union {Null}] /\ Rows(NoRows(D)) = {}
BY DEF NoRows, Rows

LEMMA ListedIs ==
  ASSUME NEW D, NEW R, NEW table \in [D -> R \union {Null, Gone}], NEW t
  PROVE  /\ Listed(table, t) \in [D -> R \union {Null}]
         /\ Rows(Listed(table, t)) = Of(table, t)
         /\ \A x \in Of(table, t) : Listed(table, t)[x] = table[x]
         /\ Of(table, t) \subseteq D
<1>1. /\ Of(table, t) \subseteq D
      /\ \A x \in Of(table, t) : table[x] \in R /\ table[x] # Null
  BY DEF Of, Live
<1>2. /\ \A x \in D : Listed(table, t)[x] = IF x \in Of(table, t) THEN table[x] ELSE Null
      /\ DOMAIN Listed(table, t) = D
      /\ Listed(table, t) = [x \in D |-> IF x \in Of(table, t) THEN table[x] ELSE Null]
  BY DEF Listed
<1>3. Listed(table, t) \in [D -> R \union {Null}]
  BY <1>1, <1>2
<1>4. Rows(Listed(table, t)) = Of(table, t)
  BY <1>1, <1>2 DEF Rows
<1> QED BY <1>1, <1>2, <1>3, <1>4

\* The five lists that make a manifest.
LEMMA ListsAre ==
  ASSUME TablesOK, NEW t
  PROVE  /\ ListStops(t) \in [Stop -> StopRow \union {Null}] /\ Rows(ListStops(t)) = Of(stops, t)
         /\ ListPhotos(t) \in [Photo -> PhotoRow \union {Null}] /\ Rows(ListPhotos(t)) = Of(photos, t)
         /\ \A p \in Of(photos, t) : ListPhotos(t)[p] = photos[p]
         /\ ListRoutes(t) \in [Route -> RouteRow \union {Null}]
         /\ ListCommentsByTrip(t) \in [Comment -> CommentRow \union {Null}]
         /\ Rows(ListCommentsByTrip(t)) = Of(comments, t)
         /\ \A k \in Of(comments, t) : ListCommentsByTrip(t)[k] = comments[k]
<1>1. /\ routes \in [Route -> RouteRow \union {Null, Gone}]
      /\ comments \in [Comment -> CommentRow \union {Null, Gone}]
  BY DEF TablesOK
<1>2. ListStops(t) \in [Stop -> StopRow \union {Null}] /\ Rows(ListStops(t)) = Of(stops, t)
  <2>1. stops \in [Stop -> StopRow \union {Null, Gone}]
    BY DEF TablesOK
  <2> QED BY <2>1, ListedIs DEF ListStops
<1>3. /\ ListPhotos(t) \in [Photo -> PhotoRow \union {Null}] /\ Rows(ListPhotos(t)) = Of(photos, t)
      /\ \A p \in Of(photos, t) : ListPhotos(t)[p] = photos[p]
  <2>1. photos \in [Photo -> PhotoRow \union {Null, Gone}]
    BY DEF TablesOK
  <2> QED BY <2>1, ListedIs DEF ListPhotos
<1>4. ListRoutes(t) \in [Route -> RouteRow \union {Null}]
  BY <1>1, ListedIs DEF ListRoutes
<1>5. /\ ListCommentsByTrip(t) \in [Comment -> CommentRow \union {Null}]
      /\ Rows(ListCommentsByTrip(t)) = Of(comments, t)
      /\ \A k \in Of(comments, t) : ListCommentsByTrip(t)[k] = comments[k]
  BY <1>1, ListedIs DEF ListCommentsByTrip
<1> QED BY <1>2, <1>3, <1>4, <1>5

------------------------------------------------------------------------------
(* What a step leaves of the other jobs.                                     *)

LEMMA SameRowsOf ==
  ASSUME NEW old, NEW new, DOMAIN new = DOMAIN old, NEW t, SameRows(old, new, t)
  PROVE  Of(new, t) = Of(old, t) /\ \A x \in Of(old, t) : new[x] = old[x]
BY DEF SameRows, Of

LEMMA KnownKept ==
  ASSUME RecordsOK, RowsKept, NEW m \in Manifest, Known(m)
  PROVE  Known(m)'
<1>1. DOMAIN photos = Photo /\ \A k \in Rows(m.comments) : m.comments[k].photo \in Photo
  BY ManifestTypes DEF RecordsOK, TablesOK, CommentRow
<1> QED BY <1>1 DEF Known, RowsKept, Kept, Rows

LEMMA DeliveredKept ==
  ASSUME RecordsOK, RowsKept, NEW m \in Manifest, Delivered(m)
  PROVE  Delivered(m)'
BY KnownKept DEF Delivered, StopsKnown, PhotosKnown, Rows

LEMMA ReadingKept ==
  ASSUME RecordsOK, RowsKept, NEW r \in JobRow, Reading(r)
  PROVE  Reading(r)'
<1>0. DOMAIN stops = Stop /\ DOMAIN photos = Photo
  BY DEF RecordsOK, TablesOK
<1>1. ASSUME r.pc \in {"photos", "routes", "comments"}, NEW s \in Stop, s \in r.man.had
      PROVE  stops'[s] # Null /\ (Live(stops'[s]) /\ stops'[s].trip = r.trip => s \in Rows(r.man.stops))
  BY <1>0, <1>1 DEF Reading, RowsKept, Kept
<1>2. ASSUME r.pc \in {"photos", "routes", "comments"}, NEW p \in Photo, p \in r.man.had
      PROVE  Member(photos', p, r.trip)
  BY <1>0, <1>2 DEF Reading, RowsKept, Kept, Member
<1>3. ASSUME r.pc \in {"routes", "comments"}, NEW p \in Photo, p \in r.man.had, Live(photos'[p])
      PROVE  p \in Rows(r.man.photos)
  BY <1>0, <1>2, <1>3 DEF Reading, RowsKept, Kept, Member
<1>4. r.pc \in {"routes", "comments"} => StopsKnown(r.man)
  BY DEF Reading
<1> QED BY <1>1, <1>2, <1>3, <1>4 DEF Reading, StopsKnown, Member, Rows

LEMMA FillingKept ==
  ASSUME RecordsOK, RowsKept, TripsKept, NEW r \in JobRow, Filling(r)
  PROVE  Filling(r)'
<1> SUFFICES ASSUME r.pc \in FillPc PROVE Filling(r)'
  BY DEF Filling
<1>0. r \in ImportRow /\ r.man \in Manifest /\ r.trip \in Trip
      /\ r.stop \in [Stop -> Stop \union {Null}] /\ r.photo \in [Photo -> Photo \union {Null}]
  BY JobTypes DEF ImportRow
<1>1. trips'[r.trip] # Null
  BY <1>0 DEF Filling, TripsKept
<1>2. Known(r.man)'
  BY <1>0, KnownKept DEF Filling
<1>3. ASSUME NEW s \in Stop, r.stop[s] # Null PROVE Member(stops', r.stop[s], r.trip)
  BY <1>0, <1>3, KeptFacts DEF Filling
<1>4. ASSUME NEW p \in Photo, r.photo[p] # Null PROVE Member(photos', r.photo[p], r.trip)
  BY <1>0, <1>4, KeptFacts DEF Filling
<1> QED BY <1>1, <1>2, <1>3, <1>4 DEF Filling, Member

\* A copy stays as it is while the rows of its trip do.
LEMMA CopyingKept ==
  ASSUME TablesOK, TablesOK', NEW r \in JobRow, Copying(r),
         r.pc \in FillPc /\ r.exact => SameTrip(r.trip)
  PROVE  Copying(r)'
<1> SUFFICES ASSUME r.pc \in FillPc, r.exact PROVE Copying(r)'
  BY DEF Copying
<1> DEFINE t == r.trip
<1>0. /\ r \in ImportRow /\ r.man \in Manifest /\ SameTrip(t)
      /\ Live(trips[t]) /\ InOrder(r) /\ StopsCopied(r) /\ PhotosCopied(r) /\ RoutesCopied(r)
      /\ CommentsCopied(r) /\ Settled(r)
  BY JobTypes DEF ImportRow, Copying
<1>1. trips'[t] = trips[t]
  BY <1>0 DEF SameTrip
<1>2. Of(stops', t) = Of(stops, t) /\ \A x \in Of(stops, t) : stops'[x] = stops[x]
  BY <1>0, SameRowsOf DEF SameTrip, TablesOK
<1>3. Of(photos', t) = Of(photos, t) /\ \A x \in Of(photos, t) : photos'[x] = photos[x]
  BY <1>0, SameRowsOf DEF SameTrip, TablesOK
<1>4. Of(routes', t) = Of(routes, t)
  BY <1>0, SameRowsOf DEF SameTrip, TablesOK
<1>5. Of(comments', t) = Of(comments, t) /\ \A x \in Of(comments, t) : comments'[x] = comments[x]
  BY <1>0, SameRowsOf DEF SameTrip, TablesOK
<1>6. InOrder(r)'
  BY <1>0, <1>5 DEF InOrder, Rows
<1>7. StopsCopied(r)'
  <2>1. \A s \in DoneStops(r) : r.stop[s] \in Of(stops, t)
    BY <1>0 DEF StopsCopied
  <2> QED BY <1>0, <1>2, <2>1 DEF StopsCopied, DoneStops, ViewOf, Rows
<1>8. PhotosCopied(r)'
  <2>1. \A p \in DonePhotos(r) : r.photo[p] \in Of(photos, t)
    BY <1>0 DEF PhotosCopied
  <2> QED BY <1>0, <1>3, <2>1, SMTT(20) DEF PhotosCopied, DonePhotos, ViewOf, NewStopOf, Rows
<1>9. RoutesCopied(r)'
  BY <1>0, <1>4 DEF RoutesCopied, Rows
<1>10. CommentsCopied(r)'
  <2>1. \A p : CommentsOn(t, p)' = CommentsOn(t, p)
    BY <1>5 DEF CommentsOn
  <2> QED BY <1>0, <2>1 DEF CommentsCopied, DonePhotos, ListedOn, Rows
<1>11. Settled(r)'
  BY <1>0, <1>1 DEF Settled, NewCoverOf
<1> QED BY <1>0, <1>1, <1>6, <1>7, <1>8, <1>9, <1>10, <1>11 DEF Copying

------------------------------------------------------------------------------
(* A statement on one trip leaves the others.                                *)

LEMMA SameRowsSame ==
  ASSUME NEW table, NEW t
  PROVE  SameRows(table, table, t)
BY DEF SameRows

LEMMA RowWritten ==
  ASSUME NEW D, NEW R, NEW table \in [D -> R], NEW x \in D, NEW row, NEW own, NEW t, t # own, row.trip = own,
         Live(table[x]) => table[x].trip = own
  PROVE  SameRows(table, [table EXCEPT ![x] = row], t)
BY DEF SameRows, Of

LEMMA StatementsApart ==
  ASSUME TablesOK, NEW own \in Trip, NEW t \in Trip, t # own
  PROVE  /\ \A u \in User, n \in Note : CreateTrip(own, u, n) => SameTrip(t)
         /\ \A s \in Stop, n \in Note : CreateStop(s, own, n) => SameTrip(t)
         /\ \A s \in Stop, n \in Note, v \in View \union {Null} :
              Member(stops, s, own) /\ UpdateStop(s, n, v) => SameTrip(t)
         /\ \A p \in Photo, s \in Stop \union {Null}, n \in Note : CreatePhoto(p, own, s, n) => SameTrip(t)
         /\ \A p \in Photo, s \in Stop \union {Null}, n \in Note, v \in View \union {Null} :
              Member(photos, p, own) /\ UpdatePhoto(p, s, n, v) => SameTrip(t)
         /\ \A x \in Route : CreateRoute(x, own) => SameTrip(t)
         /\ \A k \in Comment, p \in Photo : CreateComment(k, own, p) => SameTrip(t)
         /\ \A n \in Note, p \in Photo \union {Null}, v \in View \union {Null} :
              UpdateTrip(own, n, p, v) => SameTrip(t)
         /\ UNCHANGED tables => SameTrip(t)
<1>0. /\ trips \in [Trip -> TripRow \union {Null, Gone}] /\ stops \in [Stop -> StopRow \union {Null, Gone}]
      /\ photos \in [Photo -> PhotoRow \union {Null, Gone}] /\ routes \in [Route -> RouteRow \union {Null, Gone}]
      /\ comments \in [Comment -> CommentRow \union {Null, Gone}]
  BY DEF TablesOK
<1>1. ASSUME UNCHANGED <<stops, photos, routes, comments>>, trips'[t] = trips[t] PROVE SameTrip(t)
  BY <1>1, SameRowsSame DEF SameTrip
<1>2. ASSUME NEW x \in Stop, NEW row, stops' = [stops EXCEPT ![x] = row], UNCHANGED <<trips, photos, routes, comments>>,
             row.trip = own, Live(stops[x]) => stops[x].trip = own
      PROVE  SameTrip(t)
  <2>1. stops \in [Stop -> StopRow \union {Null, Gone}]
    BY <1>0
  <2>2. SameRows(stops, stops', t)
    BY <1>2, <2>1, RowWritten
  <2> QED BY <1>2, <2>2, SameRowsSame DEF SameTrip
<1>3. ASSUME NEW x \in Photo, NEW row, photos' = [photos EXCEPT ![x] = row], UNCHANGED <<trips, stops, routes, comments>>,
             row.trip = own, Live(photos[x]) => photos[x].trip = own
      PROVE  SameTrip(t)
  <2>1. photos \in [Photo -> PhotoRow \union {Null, Gone}]
    BY <1>0
  <2>2. SameRows(photos, photos', t)
    BY <1>3, <2>1, RowWritten
  <2> QED BY <1>3, <2>2, SameRowsSame DEF SameTrip
<1>4. ASSUME NEW u \in User, NEW n \in Note, CreateTrip(own, u, n) PROVE SameTrip(t)
  BY <1>0, <1>1, <1>4 DEF CreateTrip
<1>5. ASSUME NEW n \in Note, NEW p \in Photo \union {Null}, NEW v \in View \union {Null}, UpdateTrip(own, n, p, v)
      PROVE  SameTrip(t)
  BY <1>0, <1>1, <1>5 DEF UpdateTrip, SetTrip
<1>6. ASSUME NEW s \in Stop, NEW n \in Note, CreateStop(s, own, n) PROVE SameTrip(t)
  <2> DEFINE row == [trip |-> own, note |-> n, view |-> Null]
  <2>1. row.trip = own
    OBVIOUS
  <2>2. stops' = [stops EXCEPT ![s] = row] /\ UNCHANGED <<trips, photos, routes, comments>> /\ ~Live(stops[s])
    BY <1>6, RowsLive DEF CreateStop
  <2> HIDE DEF row
  <2> QED BY <1>2, <2>1, <2>2
<1>7. ASSUME NEW s \in Stop, NEW n \in Note, NEW v \in View \union {Null}, Member(stops, s, own), UpdateStop(s, n, v)
      PROVE  SameTrip(t)
  <2>1. CASE Live(stops[s])
    <3> DEFINE row == [stops[s] EXCEPT !.note = n, !.view = v]
    <3>1. stops[s] \in StopRow /\ stops[s].trip = own
      BY <1>0, <1>7, <2>1 DEF Live, Member
    <3>2. row.trip = own
      BY <3>1 DEF StopRow
    <3>3. stops' = [stops EXCEPT ![s] = row] /\ UNCHANGED <<trips, photos, routes, comments>>
      BY <1>7, <2>1 DEF UpdateStop
    <3> HIDE DEF row
    <3> QED BY <1>2, <3>1, <3>2, <3>3
  <2>2. CASE ~Live(stops[s])
    BY <1>1, <1>7, <2>2 DEF UpdateStop
  <2> QED BY <2>1, <2>2
<1>8. ASSUME NEW p \in Photo, NEW s \in Stop \union {Null}, NEW n \in Note, CreatePhoto(p, own, s, n) PROVE SameTrip(t)
  <2> DEFINE row == [trip |-> own, stop |-> s, note |-> n, view |-> Null]
  <2>1. row.trip = own
    OBVIOUS
  <2>2. photos' = [photos EXCEPT ![p] = row] /\ UNCHANGED <<trips, stops, routes, comments>> /\ ~Live(photos[p])
    BY <1>8, RowsLive DEF CreatePhoto
  <2> HIDE DEF row
  <2> QED BY <1>3, <2>1, <2>2
<1>9. ASSUME NEW p \in Photo, NEW s \in Stop \union {Null}, NEW n \in Note, NEW v \in View \union {Null},
             Member(photos, p, own), UpdatePhoto(p, s, n, v)
      PROVE  SameTrip(t)
  <2>1. CASE Live(photos[p])
    <3> DEFINE row == [photos[p] EXCEPT !.stop = s, !.note = n, !.view = v]
    <3>1. photos[p] \in PhotoRow /\ photos[p].trip = own
      BY <1>0, <1>9, <2>1 DEF Live, Member
    <3>2. row.trip = own
      BY <3>1 DEF PhotoRow
    <3>3. photos' = [photos EXCEPT ![p] = row] /\ UNCHANGED <<trips, stops, routes, comments>>
      BY <1>9, <2>1 DEF UpdatePhoto, SetPhoto
    <3> HIDE DEF row
    <3> QED BY <1>3, <3>1, <3>2, <3>3
  <2>2. CASE ~Live(photos[p])
    BY <1>1, <1>9, <2>2 DEF UpdatePhoto, SetPhoto
  <2> QED BY <2>1, <2>2
<1>10. ASSUME NEW x \in Route, CreateRoute(x, own) PROVE SameTrip(t)
  <2>1. routes \in [Route -> RouteRow \union {Null, Gone}] /\ ~Live(routes[x]) /\ [trip |-> own].trip = own
    BY <1>0, <1>10, RowsLive DEF CreateRoute
  <2>2. SameRows(routes, routes', t)
    BY <1>10, <2>1, RowWritten DEF CreateRoute
  <2> QED BY <1>10, <2>2, SameRowsSame DEF SameTrip, CreateRoute
<1>11. ASSUME NEW k \in Comment, NEW p \in Photo, CreateComment(k, own, p) PROVE SameTrip(t)
  <2>1. comments \in [Comment -> CommentRow \union {Null, Gone}] /\ ~Live(comments[k])
        /\ [trip |-> own, photo |-> p].trip = own
    BY <1>0, <1>11, RowsLive DEF CreateComment
  <2>2. SameRows(comments, comments', t)
    BY <1>11, <2>1, RowWritten DEF CreateComment
  <2> QED BY <1>11, <2>2, SameRowsSame DEF SameTrip, CreateComment
<1>12. UNCHANGED tables => SameTrip(t)
  BY <1>1 DEF tables
<1> QED BY <1>4, <1>5, <1>6, <1>7, <1>8, <1>9, <1>10, <1>11, <1>12

------------------------------------------------------------------------------
(* A step of one job.                                                        *)

LEMMA JobIs ==
  ASSUME NEW i \in Job, NEW r, job'[i] = r, Reading(r)', Filling(r)', Copying(r)'
  PROVE  Reading(job[i])' /\ Filling(job[i])' /\ Copying(job[i])'
<1>1. Reading(job[i])'
  BY DEF Reading, StopsKnown, Member, Rows
<1>2. Filling(job[i])'
  BY DEF Filling, Known, Member, Rows
<1>3. InOrder(r)' => InOrder(job[i])'
  BY DEF InOrder, Rows, Of
<1>4. StopsCopied(r)' => StopsCopied(job[i])'
  BY DEF StopsCopied, DoneStops, ViewOf, Rows
<1>5. PhotosCopied(r)' => PhotosCopied(job[i])'
  BY DEF PhotosCopied, DonePhotos, ViewOf, NewStopOf, Rows
<1>6. RoutesCopied(r)' => RoutesCopied(job[i])'
  BY DEF RoutesCopied, Rows
<1>7. CommentsCopied(r)' => CommentsCopied(job[i])'
  <2>1. DonePhotos(job[i])' = DonePhotos(r)'
    BY DEF DonePhotos, Rows
  <2>2. \A p : CommentsOn(job[i].trip, job[i].photo[p])' = CommentsOn(r.trip, r.photo[p])'
    BY DEF CommentsOn
  <2>3. \A p : /\ ListedOn(job[i].man, job[i].left, p)' = ListedOn(r.man, r.left, p)'
              /\ ListedOn(job[i].man, Rows(job[i].man.comments), p)' = ListedOn(r.man, Rows(r.man.comments), p)'
    BY DEF ListedOn, Rows
  <2> QED BY <2>1, <2>2, <2>3 DEF CommentsCopied
<1>8. Settled(r)' => Settled(job[i])'
  BY DEF Settled, NewCoverOf
<1>9. Copying(job[i])'
  BY <1>3, <1>4, <1>5, <1>6, <1>7, <1>8 DEF Copying
<1> QED BY <1>1, <1>2, <1>9

\* What a step owes the jobs beside it: their trips are left, and stay theirs.
Beside(j, r) ==
    \A i \in Job : i # j /\ job[i].pc \in FillPc =>
        SameTrip(job[i].trip) /\ (r.pc \in FillPc => r.trip # job[i].trip)

LEMMA JobStep ==
  ASSUME BackupInv, Written, UNCHANGED call, NEW j \in Job, NEW r \in JobRow, JobBecome(j, r),
         Reading(r)', Filling(r)', Copying(r)', Beside(j, r),
         backups' \subseteq Manifest, \A m \in backups' : m \in backups \/ Delivered(m)'
  PROVE  BackupInv'
<1>0. /\ RecordsInv /\ RecordsOK /\ TablesOK /\ TablesOK' /\ RowsKept /\ TripsKept
      /\ job \in [Job -> JobRow] /\ backups \subseteq Manifest /\ TripsApart
      /\ \A m \in backups : Delivered(m)
      /\ \A i \in Job : Reading(job[i]) /\ Filling(job[i]) /\ Copying(job[i])
  BY DEF BackupInv, JobsInv, RecordsInv, RecordsOK, Written, JobRow
<1>1. RecordsInv'
  BY <1>0, DirectStep
<1>2. /\ job' \in [Job -> JobRow] /\ job'[j] = r
      /\ \A i \in Job : i # j => job'[i] = job[i]
  BY <1>0 DEF JobBecome
<1>3. \A m \in backups' : Delivered(m)'
  <2>1. ASSUME NEW m \in backups PROVE Delivered(m)'
    BY <1>0, <2>1, DeliveredKept
  <2> QED BY <2>1
<1>4. ASSUME NEW i \in Job, i # j PROVE Reading(job[i])' /\ Filling(job[i])' /\ Copying(job[i])'
  <2> DEFINE row == job[i]
  <2>1. row \in JobRow /\ Reading(row) /\ Filling(row) /\ Copying(row) /\ job'[i] = row
    BY <1>0, <1>2, <1>4
  <2>2. row.pc \in FillPc /\ row.exact => SameTrip(row.trip)
    BY <1>4 DEF Beside
  <2>3. PICK x \in JobRow : x = job[i]
    BY <2>1
  <2> HIDE DEF row
  <2>4. Reading(x)' /\ Filling(x)' /\ Copying(x)'
    BY <1>0, <2>1, <2>2, <2>3, ReadingKept, FillingKept, CopyingKept DEF row
  <2> QED BY <2>1, <2>3, <2>4, JobIs DEF row
<1>5. Reading(job[j])' /\ Filling(job[j])' /\ Copying(job[j])'
  BY <1>2, JobIs
<1>6. TripsApart'
  BY <1>0, <1>2 DEF TripsApart, Beside
<1> QED BY <1>1, <1>2, <1>3, <1>4, <1>5, <1>6 DEF BackupInv, JobsInv, JobRow

LEMMA NothingWritten ==
  ASSUME RecordsInv, UNCHANGED tables
  PROVE  Written /\ \A t : SameTrip(t)
<1>1. Written
  BY NothingDoneSound DEF RecordsInv, RecordsOK, Sound
<1>2. \A t : SameTrip(t)
  BY SameRowsSame DEF SameTrip, tables
<1> QED BY <1>1, <1>2

\* A step that writes no table.
LEMMA QuietStep ==
  ASSUME BackupInv, UNCHANGED <<tables, call>>, NEW j \in Job, NEW r \in JobRow, JobBecome(j, r),
         Reading(r), Filling(r), Copying(r),
         r.pc \in FillPc => job[j].pc \in FillPc /\ r.trip = job[j].trip,
         backups' \subseteq Manifest, \A m \in backups' : m \in backups \/ Delivered(m)
  PROVE  BackupInv'
<1>0. /\ RecordsInv /\ RecordsOK /\ TablesOK /\ TripsApart /\ Written /\ \A t : SameTrip(t)
  BY NothingWritten DEF BackupInv, JobsInv, RecordsInv, RecordsOK
<1>1. Reading(r)' /\ Filling(r)' /\ Copying(r)'
  BY <1>0, ReadingKept, FillingKept, CopyingKept DEF Written
<1>2. Beside(j, r)
  BY <1>0 DEF Beside, TripsApart
<1>3. \A m \in backups' : m \in backups \/ Delivered(m)'
  <2>1. ASSUME NEW m \in backups', Delivered(m) PROVE Delivered(m)'
    BY <1>0, <2>1, DeliveredKept DEF Written
  <2> QED BY <2>1
<1> QED BY <1>0, <1>1, <1>2, <1>3, JobStep

------------------------------------------------------------------------------
(* Export.                                                                   *)

\* An export that goes on reading, or ends.
LEMMA ReadStep ==
  ASSUME BackupInv, UNCHANGED <<tables, call>>, NEW j \in Job, NEW r \in ExportRow \union {Idle}, JobBecome(j, r),
         Reading(r), backups' \subseteq Manifest, \A m \in backups' : m \in backups \/ Delivered(m)
  PROVE  BackupInv'
<1>1. r \in JobRow /\ r.pc \notin FillPc
  BY DEF JobRow, ExportRow, Idle, FillPc
<1>2. Filling(r) /\ Copying(r)
  BY <1>1 DEF Filling, Copying
<1> QED BY <1>1, <1>2, QuietStep

LEMMA ExportBeginStep ==
  ASSUME BackupInv, NEW j \in Job, NEW t \in Trip, ExportBegin(j, t)
  PROVE  BackupInv'
<1> DEFINE man == [trip |-> trips[t], stops |-> NoRows(Stop), photos |-> NoRows(Photo),
                   routes |-> NoRows(Route), comments |-> NoRows(Comment), had |-> {}]
<1> DEFINE row == [pc |-> "stops", trip |-> t, man |-> man]
<1>1. man \in Manifest
  <2>1. trips[t] \in TripRow
    BY RowTypes DEF BackupInv, RecordsInv, RecordsOK, ExportBegin, Owned
  <2> QED BY <2>1, NoRowsIs DEF Manifest
<1>2. UNCHANGED <<tables, call, backups>> /\ JobBecome(j, row) /\ backups \subseteq Manifest
  BY DEF ExportBegin, BackupInv, JobsInv
<1> HIDE DEF man
<1>3. row \in ExportRow /\ row.pc = "stops"
  BY <1>1 DEF ExportRow
<1> HIDE DEF row
<1>4. PICK r : r = row
  OBVIOUS
<1>5. Reading(r)
  BY <1>3, <1>4 DEF Reading
<1> QED BY <1>2, <1>3, <1>4, <1>5, ReadStep

\* The job that reads, and what it has read.
LEMMA ReaderIs ==
  ASSUME BackupInv, NEW j \in Job, job[j].pc \in ReadPc
  PROVE  /\ job[j] \in ExportRow /\ job[j].trip \in Trip /\ job[j].man \in Manifest /\ Reading(job[j])
         /\ TablesOK /\ Linked /\ backups \subseteq Manifest
<1>1. job[j] \in JobRow /\ Reading(job[j]) /\ backups \subseteq Manifest /\ TablesOK /\ Linked
  BY TablesInvIs DEF BackupInv, JobsInv, JobRow, RecordsInv, RecordsOK
<1>2. job[j] \in ExportRow
  BY <1>1 DEF JobRow, Idle, ExportRow, ImportRow, ReadPc
<1> QED BY <1>1, <1>2 DEF ExportRow

LEMMA ExportStopsStep ==
  ASSUME BackupInv, NEW j \in Job, ExportStops(j)
  PROVE  BackupInv'
<1> DEFINE t == job[j].trip
           had == {s \in Stop : stops[s] # Null} \union {p \in Photo : photos[p] = Gone} \union Of(photos, t)
           man == [job[j].man EXCEPT !.stops = ListStops(t), !.had = had]
           row == [job[j] EXCEPT !.pc = "photos", !.man = man]
<1>0. job[j].pc = "stops" /\ JobBecome(j, row) /\ UNCHANGED <<tables, call, backups>>
  BY DEF ExportStops, Read, JobAt
<1>1. /\ job[j] \in ExportRow /\ t \in Trip /\ job[j].man \in Manifest
      /\ TablesOK /\ Linked /\ backups \subseteq Manifest
  BY <1>0, ReaderIs DEF ReadPc
<1>2. had \subseteq Stop \union Photo /\ \A x \in had : x \in Stop \/ photos[x] = Gone \/ x \in Of(photos, t)
  BY <1>1, OfPhotos
<1>3. ASSUME NEW s \in Stop, s \in had
      PROVE  stops[s] # Null /\ (Live(stops[s]) /\ stops[s].trip = t => s \in Of(stops, t))
  BY <1>1, <1>3, OfPhotos, OfStops, IdsAssumption
<1>4. ASSUME NEW p \in Photo, p \in had PROVE Member(photos, p, t)
  BY <1>1, <1>4, OfPhotos, RowsLive, IdsAssumption DEF Member
<1>5. ListStops(t) \in [Stop -> StopRow \union {Null}] /\ Rows(ListStops(t)) = Of(stops, t)
  BY <1>1, ListsAre
<1> HIDE DEF had, t
<1>6. man \in Manifest /\ man.stops = ListStops(t) /\ man.had = had
  BY <1>1, <1>2, <1>5 DEF Manifest
<1> HIDE DEF man
<1>7. row \in ExportRow /\ row.pc = "photos" /\ row.trip = t /\ row.man = man
  BY <1>1, <1>6 DEF ExportRow, t
<1> HIDE DEF row
<1>8. PICK r : r = row
  OBVIOUS
<1>9. Reading(r)
  BY <1>3, <1>4, <1>5, <1>6, <1>7, <1>8 DEF Reading
<1> QED BY <1>0, <1>1, <1>7, <1>8, <1>9, ReadStep

LEMMA ExportPhotosStep ==
  ASSUME BackupInv, NEW j \in Job, ExportPhotos(j)
  PROVE  BackupInv'
<1> DEFINE t == job[j].trip
           old == job[j].man
           man == [old EXCEPT !.photos = ListPhotos(t)]
           row == [job[j] EXCEPT !.pc = "routes", !.man = man]
<1>0. job[j].pc = "photos" /\ JobBecome(j, row) /\ UNCHANGED <<tables, call, backups>>
  BY DEF ExportPhotos, Read, JobAt
<1>1. /\ job[j] \in ExportRow /\ t \in Trip /\ old \in Manifest
      /\ TablesOK /\ Linked /\ backups \subseteq Manifest
  BY <1>0, ReaderIs DEF ReadPc
<1>2. /\ \A s \in Stop : s \in old.had =>
           stops[s] # Null /\ (Live(stops[s]) /\ stops[s].trip = t => s \in Rows(old.stops))
      /\ \A p \in Photo : p \in old.had => Member(photos, p, t)
  BY <1>0, ReaderIs DEF Reading, ReadPc
<1>3. /\ ListPhotos(t) \in [Photo -> PhotoRow \union {Null}] /\ Rows(ListPhotos(t)) = Of(photos, t)
      /\ \A p \in Of(photos, t) : ListPhotos(t)[p] = photos[p]
  BY <1>1, ListsAre
<1>4. \A p \in Photo : p \in old.had /\ Live(photos[p]) => p \in Of(photos, t)
  BY <1>1, <1>2, OfPhotos DEF Member
<1>5. ASSUME NEW p \in Of(photos, t)
      PROVE  photos[p].stop \in Rows(old.stops) \union {Null} \union (Stop \ old.had)
  BY <1>1, <1>2, OfPhotos DEF Linked
<1> HIDE DEF t, old
<1>6. man \in Manifest /\ man.photos = ListPhotos(t) /\ man.had = old.had /\ man.stops = old.stops
  BY <1>1, <1>3 DEF Manifest
<1>7. StopsKnown(man)
  BY <1>3, <1>5, <1>6 DEF StopsKnown
<1> HIDE DEF man
<1>8. row \in ExportRow /\ row.pc = "routes" /\ row.trip = t /\ row.man = man
  BY <1>1, <1>6 DEF ExportRow, t
<1> HIDE DEF row
<1>9. PICK r : r = row
  OBVIOUS
<1>10. Reading(r)
  BY <1>2, <1>3, <1>4, <1>6, <1>7, <1>8, <1>9 DEF Reading
<1> QED BY <1>0, <1>1, <1>8, <1>9, <1>10, ReadStep

LEMMA ExportRoutesStep ==
  ASSUME BackupInv, NEW j \in Job, ExportRoutes(j)
  PROVE  BackupInv'
<1> DEFINE t == job[j].trip
           old == job[j].man
           man == [old EXCEPT !.routes = ListRoutes(t)]
           row == [job[j] EXCEPT !.pc = "comments", !.man = man]
<1>0. job[j].pc = "routes" /\ JobBecome(j, row) /\ UNCHANGED <<tables, call, backups>>
  BY DEF ExportRoutes, Read, JobAt
<1>1. /\ job[j] \in ExportRow /\ t \in Trip /\ old \in Manifest /\ TablesOK /\ backups \subseteq Manifest
  BY <1>0, ReaderIs DEF ReadPc
<1>2. /\ \A s \in Stop : s \in old.had =>
           stops[s] # Null /\ (Live(stops[s]) /\ stops[s].trip = t => s \in Rows(old.stops))
      /\ \A p \in Photo : p \in old.had => Member(photos, p, t)
      /\ \A p \in Photo : p \in old.had /\ Live(photos[p]) => p \in Rows(old.photos)
      /\ StopsKnown(old)
  BY <1>0, ReaderIs DEF Reading, ReadPc
<1>3. ListRoutes(t) \in [Route -> RouteRow \union {Null}]
  BY <1>1, ListsAre
<1> HIDE DEF t, old
<1>4. man \in Manifest /\ man.photos = old.photos /\ man.had = old.had /\ man.stops = old.stops
  BY <1>1, <1>3 DEF Manifest
<1>5. StopsKnown(man)
  BY <1>2, <1>4 DEF StopsKnown
<1> HIDE DEF man
<1>6. row \in ExportRow /\ row.pc = "comments" /\ row.trip = t /\ row.man = man
  BY <1>1, <1>4 DEF ExportRow, t
<1> HIDE DEF row
<1>7. PICK r : r = row
  OBVIOUS
<1>8. Reading(r)
  BY <1>2, <1>4, <1>5, <1>6, <1>7 DEF Reading
<1> QED BY <1>0, <1>1, <1>6, <1>7, <1>8, ReadStep

LEMMA ExportCommentsStep ==
  ASSUME BackupInv, NEW j \in Job, ExportComments(j)
  PROVE  BackupInv'
<1> DEFINE t == job[j].trip
           old == job[j].man
           man == [old EXCEPT !.comments = ListCommentsByTrip(t)]
<1>0. job[j].pc = "comments" /\ JobBecome(j, Idle) /\ UNCHANGED <<tables, call>> /\ backups' = backups \union {man}
  BY DEF ExportComments, JobAt
<1>1. /\ job[j] \in ExportRow /\ t \in Trip /\ old \in Manifest /\ TablesOK /\ Linked /\ backups \subseteq Manifest
  BY <1>0, ReaderIs DEF ReadPc
<1>2. /\ \A p \in Photo : p \in old.had /\ Live(photos[p]) => p \in Rows(old.photos)
      /\ StopsKnown(old)
  BY <1>0, ReaderIs DEF Reading, ReadPc
<1>3. /\ ListCommentsByTrip(t) \in [Comment -> CommentRow \union {Null}]
      /\ Rows(ListCommentsByTrip(t)) = Of(comments, t)
      /\ \A k \in Of(comments, t) : ListCommentsByTrip(t)[k] = comments[k]
  BY <1>1, ListsAre
<1>4. \A k \in Of(comments, t) : comments[k].photo \in Photo /\ Live(photos[comments[k].photo])
  BY <1>1 DEF Linked, Of, TablesOK
<1> HIDE DEF t, old
<1>5. /\ man \in Manifest /\ man.comments = ListCommentsByTrip(t)
      /\ man.photos = old.photos /\ man.had = old.had /\ man.stops = old.stops
  BY <1>1, <1>3 DEF Manifest
<1> HIDE DEF man
<1>6. StopsKnown(man)
  BY <1>2, <1>5 DEF StopsKnown
<1>7. Known(man) /\ PhotosKnown(man)
  BY <1>2, <1>3, <1>4, <1>5, RowsLive DEF Known, PhotosKnown
<1>8. \A m \in backups' : m \in backups \/ Delivered(m)
  BY <1>0, <1>6, <1>7 DEF Delivered
<1>9. backups' \subseteq Manifest
  BY <1>0, <1>1, <1>5
<1>10. Idle \in ExportRow \union {Idle} /\ Reading(Idle)
  BY DEF Idle, Reading
<1> HIDE DEF Idle
<1> QED BY <1>0, <1>8, <1>9, <1>10, ReadStep

------------------------------------------------------------------------------
(* Import.                                                                   *)

\* The job that fills its trip.
LEMMA ImporterIs ==
  ASSUME BackupInv, NEW j \in Job, job[j].pc \in FillPc
  PROVE  /\ job[j] \in ImportRow /\ Filling(job[j]) /\ Copying(job[j])
         /\ TablesOK /\ TablesInv /\ RecordsInv /\ RecordsOK /\ backups \subseteq Manifest
         /\ DOMAIN stops = Stop /\ DOMAIN photos = Photo /\ DOMAIN routes = Route /\ DOMAIN comments = Comment
<1>1. job[j] \in JobRow /\ Filling(job[j]) /\ Copying(job[j])
  BY DEF BackupInv, JobsInv, JobRow
<1>2. job[j] \in ImportRow
  BY <1>1, JobTypes
<1>3. TablesOK /\ TablesInv /\ RecordsInv /\ RecordsOK /\ backups \subseteq Manifest
  BY DEF BackupInv, JobsInv, RecordsInv, RecordsOK
<1> QED BY <1>1, <1>2, <1>3 DEF TablesOK

LEMMA ImportTypes ==
  ASSUME NEW r \in ImportRow
  PROVE  /\ r.trip \in Trip /\ r.man \in Manifest /\ r.exact \in BOOLEAN
         /\ r.stop \in [Stop -> Stop \union {Null}] /\ r.photo \in [Photo -> Photo \union {Null}]
         /\ r.left \subseteq Stop \union Photo \union Route \union Comment
         /\ r.last \in Stop \union Photo \union {Null}
         /\ r.pc \in FillPc /\ r.pc \notin ReadPc
         /\ r \in JobRow
BY DEF ImportRow, FillPc, ReadPc, JobRow

\* What is left is in the manifest, table by table.
LEMMA LeftIs ==
  ASSUME NEW r \in ImportRow, Filling(r)
  PROVE  /\ r.left \intersect Stop \subseteq Rows(r.man.stops)
         /\ r.left \intersect Photo \subseteq Rows(r.man.photos)
         /\ r.left \intersect Route \subseteq Rows(r.man.routes)
         /\ r.left \intersect Comment \subseteq Rows(r.man.comments)
<1>1. r.left \subseteq Rows(r.man.stops) \union Rows(r.man.photos) \union Rows(r.man.routes)
                         \union Rows(r.man.comments)
  BY ImportTypes DEF Filling
<1>2. /\ Rows(r.man.stops) \subseteq Stop /\ Rows(r.man.photos) \subseteq Photo
      /\ Rows(r.man.routes) \subseteq Route /\ Rows(r.man.comments) \subseteq Comment
  BY ImportTypes, ManifestTypes
<1> QED BY <1>1, <1>2, IdsAssumption

\* A step of an import that writes its own trip only.
LEMMA FillStep ==
  ASSUME BackupInv, Written, UNCHANGED <<call, backups>>, NEW j \in Job, job[j].pc \in FillPc,
         NEW r \in ImportRow, r.trip = job[j].trip, JobBecome(j, r), Filling(r)', Copying(r)',
         \A t \in Trip : t # r.trip => SameTrip(t)
  PROVE  BackupInv'
<1>1. r \in JobRow /\ r.pc \notin ReadPc
  BY ImportTypes
<1>2. Reading(r)'
  BY <1>1 DEF Reading, ReadPc
<1>3. backups \subseteq Manifest /\ TripsApart /\ \A i \in Job : job[i] \in JobRow
  BY DEF BackupInv, JobsInv, JobRow
<1>4. Beside(j, r)
  <2> SUFFICES ASSUME NEW i \in Job, i # j, job[i].pc \in FillPc
               PROVE  SameTrip(job[i].trip) /\ r.trip # job[i].trip
    BY DEF Beside
  <2>1. job[i].trip \in Trip
    BY <1>3, JobTypes, ImportTypes
  <2> QED BY <1>3, <2>1 DEF TripsApart
<1> QED BY <1>1, <1>2, <1>3, <1>4, JobStep

\* An import that ends, with or without its answer.
LEMMA ImportEnds ==
  ASSUME BackupInv, NEW j \in Job, UNCHANGED <<tables, call, backups>>, JobBecome(j, Idle)
  PROVE  BackupInv'
<1>1. Idle \in ExportRow \union {Idle} /\ Reading(Idle)
  BY DEF Idle, Reading
<1>2. backups' \subseteq Manifest
  BY DEF BackupInv, JobsInv
<1> HIDE DEF Idle
<1> QED BY <1>1, <1>2, ReadStep

\* An UPDATE that fails is passed over.
LEMMA ImportGoesOn ==
  ASSUME BackupInv, NEW j \in Job, job[j].pc \in FillPc, NEW next \in {"insert", "answer"},
         UNCHANGED <<tables, call, backups>>, JobBecome(j, [job[j] EXCEPT !.pc = next, !.exact = FALSE])
  PROVE  BackupInv'
<1>1. job[j] \in ImportRow /\ Filling(job[j]) /\ backups \subseteq Manifest
  BY ImporterIs
<1>2. PICK r : r = [job[j] EXCEPT !.pc = next, !.exact = FALSE]
  OBVIOUS
<1>3. /\ r \in ImportRow /\ r.pc = next /\ r.exact = FALSE /\ r.trip = job[j].trip /\ r.man = job[j].man
      /\ r.left = job[j].left /\ r.stop = job[j].stop /\ r.photo = job[j].photo
  BY <1>1, <1>2 DEF ImportRow
<1>4. Copying(r)
  BY <1>3 DEF Copying
<1>5. Filling(r)
  BY <1>1, <1>3, ZenonT(40) DEF Filling, Known, Member, Rows
<1>6. r \in JobRow /\ Reading(r)
  BY <1>3, ImportTypes DEF Reading, ReadPc
<1>7. JobBecome(j, r)
  BY <1>2
<1> QED BY <1>1, <1>3, <1>4, <1>5, <1>6, <1>7, QuietStep

\* The next row of a table.
LEMMA NextOfIs ==
  ASSUME NEW j, NEW ids, job[j].left \intersect ids # {}
  PROVE  NextOf(j, ids) \in job[j].left /\ NextOf(j, ids) \in ids
BY DEF NextOf

\* The counts of an insertion: one more row, one less to insert.
LEMMA OneMore ==
  ASSUME NEW S, IsFiniteSet(S), NEW A \in SUBSET S, NEW B \in SUBSET S, NEW a \in S, NEW b \in B, a \notin A
  PROVE  /\ Cardinality(A) \in Nat /\ Cardinality(B) \in Nat
         /\ Cardinality(A \union {a}) + Cardinality(B \ {b}) = Cardinality(A) + Cardinality(B)
<1>1. IsFiniteSet(A) /\ IsFiniteSet(B)
  BY FS_Subset
<1>2. Cardinality(A) \in Nat /\ Cardinality(B) \in Nat
  BY <1>1, FS_CardinalityType
<1>3. Cardinality(A \union {a}) = Cardinality(A) + 1
  BY <1>1, FS_AddElement
<1>4. Cardinality(B \ {b}) = Cardinality(B) - 1
  BY <1>1, FS_RemoveElement
<1> QED BY <1>2, <1>3, <1>4

------------------------------------------------------------------------------
(* The rows an import inserts.                                               *)

\* What a stop inserted into trip t looks like.
LEMMA StopRowInserted ==
  ASSUME TablesOK, NEW x \in Stop, NEW t \in Trip, NEW n \in Note, CreateStop(x, t, n)
  PROVE  /\ stops'[x] = [trip |-> t, note |-> n, view |-> Null] /\ \A y \in Stop : y # x => stops'[y] = stops[y]
         /\ stops[x] = Null /\ Of(stops', t) = Of(stops, t) \union {x} /\ x \notin Of(stops, t)
         /\ UNCHANGED <<trips, photos, routes, comments>>
<1> DEFINE row == [trip |-> t, note |-> n, view |-> Null]
<1>1. stops \in [Stop -> StopRow \union {Null, Gone}] /\ row \in StopRow /\ row.trip = t
  BY DEF TablesOK, StopRow
<1>2. stops' = [stops EXCEPT ![x] = row] /\ stops[x] = Null /\ UNCHANGED <<trips, photos, routes, comments>>
  BY DEF CreateStop
<1>3. Live(row) /\ ~Live(stops[x])
  BY <1>1, <1>2, RowsLive
<1> HIDE DEF row
<1>4. stops'[x] = row /\ (\A y \in Stop : y # x => stops'[y] = stops[y]) /\ DOMAIN stops' = Stop
  BY <1>1, <1>2
<1>5. Of(stops', t) = Of(stops, t) \union {x} /\ x \notin Of(stops, t)
  BY <1>1, <1>3, <1>4 DEF Of
<1> QED BY <1>2, <1>4, <1>5 DEF row

LEMMA PhotoRowInserted ==
  ASSUME TablesOK, NEW x \in Photo, NEW t \in Trip, NEW s \in Stop \union {Null}, NEW n \in Note, CreatePhoto(x, t, s, n)
  PROVE  /\ photos'[x] = [trip |-> t, stop |-> s, note |-> n, view |-> Null]
         /\ \A y \in Photo : y # x => photos'[y] = photos[y]
         /\ photos[x] = Null /\ Of(photos', t) = Of(photos, t) \union {x} /\ x \notin Of(photos, t)
         /\ UNCHANGED <<trips, stops, routes, comments>>
<1> DEFINE row == [trip |-> t, stop |-> s, note |-> n, view |-> Null]
<1>1. photos \in [Photo -> PhotoRow \union {Null, Gone}] /\ row \in PhotoRow /\ row.trip = t
  BY DEF TablesOK, PhotoRow
<1>2. photos' = [photos EXCEPT ![x] = row] /\ photos[x] = Null /\ UNCHANGED <<trips, stops, routes, comments>>
  BY DEF CreatePhoto
<1>3. Live(row) /\ ~Live(photos[x])
  BY <1>1, <1>2, RowsLive
<1> HIDE DEF row
<1>4. photos'[x] = row /\ (\A y \in Photo : y # x => photos'[y] = photos[y]) /\ DOMAIN photos' = Photo
  BY <1>1, <1>2
<1>5. Of(photos', t) = Of(photos, t) \union {x} /\ x \notin Of(photos, t)
  BY <1>1, <1>3, <1>4 DEF Of
<1> QED BY <1>2, <1>4, <1>5 DEF row

LEMMA RouteRowInserted ==
  ASSUME TablesOK, NEW x \in Route, NEW t \in Trip, CreateRoute(x, t)
  PROVE  /\ Of(routes', t) = Of(routes, t) \union {x} /\ x \notin Of(routes, t)
         /\ UNCHANGED <<trips, stops, photos, comments>>
<1> DEFINE row == [trip |-> t]
<1>1. routes \in [Route -> RouteRow \union {Null, Gone}] /\ row \in RouteRow /\ row.trip = t
  BY DEF TablesOK, RouteRow
<1>2. routes' = [routes EXCEPT ![x] = row] /\ routes[x] = Null /\ UNCHANGED <<trips, stops, photos, comments>>
  BY DEF CreateRoute
<1>3. Live(row) /\ ~Live(routes[x])
  BY <1>1, <1>2, RowsLive
<1> HIDE DEF row
<1>4. routes'[x] = row /\ (\A y \in Route : y # x => routes'[y] = routes[y]) /\ DOMAIN routes' = Route
  BY <1>1, <1>2
<1> QED BY <1>1, <1>2, <1>3, <1>4 DEF Of

LEMMA CommentRowInserted ==
  ASSUME TablesOK, NEW x \in Comment, NEW t \in Trip, NEW p \in Photo, CreateComment(x, t, p)
  PROVE  /\ CommentsOn(t, p)' = CommentsOn(t, p) \union {x} /\ x \notin CommentsOn(t, p)
         /\ \A q : q # p => CommentsOn(t, q)' = CommentsOn(t, q)
         /\ UNCHANGED <<trips, stops, photos, routes>>
<1> DEFINE row == [trip |-> t, photo |-> p]
<1>1. comments \in [Comment -> CommentRow \union {Null, Gone}] /\ row \in CommentRow /\ row.trip = t /\ row.photo = p
  BY DEF TablesOK, CommentRow
<1>2. comments' = [comments EXCEPT ![x] = row] /\ comments[x] = Null /\ UNCHANGED <<trips, stops, photos, routes>>
  BY DEF CreateComment
<1>3. Live(row) /\ ~Live(comments[x])
  BY <1>1, <1>2, RowsLive
<1> HIDE DEF row
<1>4. comments'[x] = row /\ (\A y \in Comment : y # x => comments'[y] = comments[y]) /\ DOMAIN comments' = Comment
  BY <1>1, <1>2
<1>5. Of(comments', t) = Of(comments, t) \union {x} /\ x \notin Of(comments, t)
  BY <1>1, <1>3, <1>4 DEF Of
<1>6. \A k \in Of(comments, t) : comments'[k] = comments[k]
  BY <1>1, <1>4, <1>5 DEF Of
<1>7. CommentsOn(t, p)' = CommentsOn(t, p) \union {x} /\ x \notin CommentsOn(t, p)
  BY <1>1, <1>4, <1>5, <1>6 DEF CommentsOn
<1>8. ASSUME NEW q, q # p PROVE CommentsOn(t, q)' = CommentsOn(t, q)
  BY <1>1, <1>4, <1>5, <1>6, <1>8 DEF CommentsOn
<1> QED BY <1>2, <1>7, <1>8

\* What Filling says of the tables after a step, and from what it follows.
LEMMA FillingIs ==
  ASSUME NEW r, trips'[r.trip] # Null,
         r.left \subseteq Rows(r.man.stops) \union Rows(r.man.photos) \union Rows(r.man.routes)
                             \union Rows(r.man.comments),
         \A s \in Stop : r.stop[s] # Null => Member(stops', r.stop[s], r.trip),
         \A p \in Photo : r.photo[p] # Null =>
             Member(photos', r.photo[p], r.trip) /\ \A k \in Rows(r.man.comments) : r.man.comments[k].photo # r.photo[p],
         \A k \in Rows(r.man.comments) : photos'[r.man.comments[k].photo] # Null,
         r.pc = "view" => \/ r.last \in Rows(r.man.stops) /\ r.stop[r.last] # Null
                          \/ r.last \in Rows(r.man.photos) /\ r.photo[r.last] # Null
  PROVE  Filling(r)'
BY DEF Filling, Known, Member, Rows

LEMMA FillingGives ==
  ASSUME NEW r, Filling(r)', r.pc \in FillPc
  PROVE  /\ trips'[r.trip] # Null
         /\ r.left \subseteq Rows(r.man.stops) \union Rows(r.man.photos) \union Rows(r.man.routes)
                                \union Rows(r.man.comments)
         /\ \A s \in Stop : r.stop[s] # Null => Member(stops', r.stop[s], r.trip)
         /\ \A p \in Photo : r.photo[p] # Null =>
              Member(photos', r.photo[p], r.trip)
              /\ \A k \in Rows(r.man.comments) : r.man.comments[k].photo # r.photo[p]
         /\ \A k \in Rows(r.man.comments) : photos'[r.man.comments[k].photo] # Null
BY DEF Filling, Known, Member, Rows

LEMMA StopInserted ==
  ASSUME RecordsOK, Written, NEW o \in ImportRow, Filling(o), Copying(o), o.pc = "insert",
         NEW s \in Stop, s \in o.left, NEW x \in Stop, CreateStop(x, o.trip, o.man.stops[s].note),
         NEW r \in ImportRow, r.pc = Then(o.man.stops[s]), r.trip = o.trip, r.man = o.man, r.left = o.left \ {s},
         r.last = s, r.stop = [o.stop EXCEPT ![s] = x], r.photo = o.photo, r.exact = o.exact
  PROVE  Filling(r)' /\ Copying(r)'
<1> DEFINE t == o.trip
           m == o.man
<1>0. /\ TablesOK /\ TablesOK' /\ RowsKept /\ TripsKept /\ t \in Trip /\ m \in Manifest
      /\ s \in Rows(m.stops) /\ m.stops[s] \in StopRow /\ m.stops[s].note \in Note
      /\ o.stop \in [Stop -> Stop \union {Null}] /\ o.left \subseteq Stop \union Photo \union Route \union Comment
      /\ DOMAIN stops = Stop
  <2>1. t \in Trip /\ m \in Manifest /\ o.stop \in [Stop -> Stop \union {Null}]
        /\ o.left \subseteq Stop \union Photo \union Route \union Comment
    BY ImportTypes
  <2>2. s \in Rows(m.stops)
    BY LeftIs
  <2>3. m.stops[s] \in StopRow
    BY <2>1, <2>2, ManifestTypes
  <2>4. m.stops[s].note \in Note
    BY <2>3 DEF StopRow
  <2> QED BY <2>1, <2>2, <2>3, <2>4 DEF RecordsOK, TablesOK, Written
<1>1. /\ stops'[x] = [trip |-> t, note |-> m.stops[s].note, view |-> Null]
      /\ \A y \in Stop : y # x => stops'[y] = stops[y]
      /\ stops[x] = Null /\ Of(stops', t) = Of(stops, t) \union {x} /\ x \notin Of(stops, t)
      /\ UNCHANGED <<trips, photos, routes, comments>>
  BY <1>0, StopRowInserted
<1>2. r.stop[s] = x /\ x # Null /\ \A z \in Stop : z # s => r.stop[z] = o.stop[z]
  BY <1>0, NullAssumption
<1>3. Filling(o)'
  BY <1>0, FillingKept, ImportTypes
<1>4. Filling(r)'
  <2>1. Member(stops', x, t)
    BY <1>1, <1>2, RowsLive, NullAssumption, <1>0 DEF Member, Live, StopRow
  <2>2. /\ trips'[t] # Null
        /\ o.left \subseteq Rows(m.stops) \union Rows(m.photos) \union Rows(m.routes) \union Rows(m.comments)
        /\ \A z \in Stop : o.stop[z] # Null => Member(stops', o.stop[z], t)
        /\ \A p \in Photo : o.photo[p] # Null =>
             Member(photos', o.photo[p], t) /\ \A k \in Rows(m.comments) : m.comments[k].photo # o.photo[p]
        /\ \A k \in Rows(m.comments) : photos'[m.comments[k].photo] # Null
    BY <1>3, ImportTypes, FillingGives
  <2>3. \A z \in Stop : r.stop[z] # Null => Member(stops', r.stop[z], t)
    BY <1>2, <2>1, <2>2
  <2>4. r.last \in Rows(m.stops) /\ r.stop[r.last] # Null
    BY <1>0, <1>2
  <2>5. r.left \subseteq Rows(m.stops) \union Rows(m.photos) \union Rows(m.routes) \union Rows(m.comments)
    BY <2>2
  <2>6. r.trip = t /\ r.man = m /\ r.photo = o.photo
    OBVIOUS
  <2>7. \A z \in Stop : r.stop[z] # Null => Member(stops', r.stop[z], r.trip)
    BY <2>3, <2>6
  <2>8. \A p \in Photo : r.photo[p] # Null =>
          Member(photos', r.photo[p], r.trip)
          /\ \A k \in Rows(r.man.comments) : r.man.comments[k].photo # r.photo[p]
    BY <2>2, <2>6
  <2>9. trips'[r.trip] # Null /\ \A k \in Rows(r.man.comments) : photos'[r.man.comments[k].photo] # Null
    BY <2>2, <2>6
  <2>10. r.left \subseteq Rows(r.man.stops) \union Rows(r.man.photos) \union Rows(r.man.routes)
                              \union Rows(r.man.comments)
    BY <2>5, <2>6
  <2>11. r.last \in Rows(r.man.stops) /\ r.stop[r.last] # Null
    BY <2>4, <2>6
  <2> QED BY <2>7, <2>8, <2>9, <2>10, <2>11, FillingIs
<1>5. Copying(r)'
  <2> SUFFICES ASSUME r.exact PROVE Copying(r)'
    BY DEF Copying
  <2>1. /\ Live(trips[t]) /\ InOrder(o) /\ StopsCopied(o) /\ PhotosCopied(o) /\ RoutesCopied(o)
        /\ o.left \intersect Stop # {}
    BY ImportTypes DEF Copying
  <2>2. /\ Rows(m.photos) \subseteq o.left /\ s \notin Photo /\ s \notin Route /\ s \notin Comment
        /\ Rows(m.photos) \subseteq Photo /\ Rows(m.comments) \subseteq Comment
    BY <1>0, <2>1, IdsAssumption, ManifestTypes DEF InOrder
  <2>3. DonePhotos(o) = {} /\ DonePhotos(r) = {}
    BY <2>2 DEF DonePhotos
  <2>4. DoneStops(r) = DoneStops(o) \union {s} /\ s \notin DoneStops(o) /\ DoneStops(o) \subseteq Stop
    BY <1>0, ManifestTypes DEF DoneStops
  <2>5. InOrder(r)'
    BY <1>1, <2>1, <2>2 DEF InOrder, Rows
  <2>6. StopsCopied(r)'
    <3>1. \A z \in Stop : r.stop[z] # Null <=> z \in DoneStops(r)
      BY <1>2, <2>1, <2>4 DEF StopsCopied
    <3>2. \A z \in DoneStops(o) : o.stop[z] \in Of(stops, t) /\ o.stop[z] # x /\ r.stop[z] = o.stop[z] /\ z # s
      BY <1>1, <1>2, <2>1, <2>4 DEF StopsCopied
    <3>3. \A s1, s2 \in DoneStops(r) : r.stop[s1] = r.stop[s2] => s1 = s2
      BY <1>2, <2>1, <2>4, <3>2 DEF StopsCopied
    <3>4. Of(stops', t) = {r.stop[z] : z \in DoneStops(r)}
      <4>1. Of(stops, t) = {o.stop[z] : z \in DoneStops(o)}
        BY <2>1 DEF StopsCopied
      <4> QED BY <1>1, <1>2, <2>4, <3>2, <4>1
    <3>5. Cardinality(Of(stops', t)) + Cardinality(r.left \intersect Stop) = Cardinality(Rows(m.stops))
      <4>1. Of(stops, t) \in SUBSET Stop /\ o.left \intersect Stop \in SUBSET Stop /\ s \in o.left \intersect Stop
        BY <1>0 DEF Of
      <4>2. r.left \intersect Stop = (o.left \intersect Stop) \ {s}
        OBVIOUS
      <4>3. Cardinality(Of(stops, t)) + Cardinality(o.left \intersect Stop) = Cardinality(Rows(m.stops))
        BY <2>1 DEF StopsCopied
      <4> QED BY <1>1, <4>1, <4>2, <4>3, OneMore, FiniteAssumption
    <3>6. ASSUME NEW z \in DoneStops(r)
          PROVE  /\ stops'[r.stop[z]].note = m.stops[z].note
                 /\ stops'[r.stop[z]].view = ViewOf(r, z, m.stops[z].view)
      <4>1. CASE z = s
        BY <1>1, <1>2, <4>1 DEF ViewOf, Then
      <4>2. CASE z # s
        <5>1. z \in DoneStops(o) /\ stops'[r.stop[z]] = stops[o.stop[z]]
          BY <1>0, <1>1, <2>4, <3>2, <4>2 DEF Of
        <5>2. stops[o.stop[z]].note = m.stops[z].note /\ stops[o.stop[z]].view = m.stops[z].view
          BY <2>1, <5>1 DEF StopsCopied, ViewOf
        <5> QED BY <4>2, <5>1, <5>2 DEF ViewOf
      <4> QED BY <4>1, <4>2
    <3>7. DoneStops(r)' = DoneStops(r) /\ \A z : ViewOf(r, z, m.stops[z].view)' = ViewOf(r, z, m.stops[z].view)
      BY DEF DoneStops, ViewOf, Rows
    <3> QED BY <3>1, <3>3, <3>4, <3>5, <3>6 DEF StopsCopied, DoneStops, ViewOf, Rows
  <2>7. PhotosCopied(r)'
    <3>1. r.left \intersect Photo = o.left \intersect Photo
      BY <2>2
    <3>2. \A p \in Photo : r.photo[p] = Null
      BY <2>1, <2>3 DEF PhotosCopied
    <3>3. Of(photos, t) = {}
      BY <2>1, <2>3 DEF PhotosCopied
    <3>4. Cardinality(Of(photos, t)) + Cardinality(r.left \intersect Photo) = Cardinality(Rows(m.photos))
      BY <2>1, <3>1 DEF PhotosCopied
    <3>5. DonePhotos(r)' = {} /\ Of(photos', t) = Of(photos, t) /\ Rows(m.photos)' = Rows(m.photos)
      BY <1>1, <2>3 DEF DonePhotos, Of, Rows
    <3> QED BY <3>2, <3>3, <3>4, <3>5 DEF PhotosCopied
  <2>8. RoutesCopied(r)'
    <3>1. r.left \intersect Route = o.left \intersect Route
      BY <2>2
    <3> QED BY <1>1, <2>1, <3>1 DEF RoutesCopied, Rows
  <2>9. CommentsCopied(r)'
    BY <2>3 DEF CommentsCopied, DonePhotos, Rows
  <2>10. Settled(r)'
    BY DEF Settled, Then
  <2> QED BY <1>1, <2>1, <2>5, <2>6, <2>7, <2>8, <2>9, <2>10 DEF Copying
<1> QED BY <1>4, <1>5

LEMMA SameStopsCopied ==
  ASSUME NEW r, StopsCopied(r), stops' = stops
  PROVE  StopsCopied(r)'
<1>1. DoneStops(r)' = DoneStops(r) /\ Rows(r.man.stops)' = Rows(r.man.stops)
  BY DEF DoneStops, Rows
<1>2. Of(stops, r.trip)' = Of(stops, r.trip)
  BY DEF Of
<1>3. \A s : ViewOf(r, s, r.man.stops[s].view)' = ViewOf(r, s, r.man.stops[s].view)
  BY DEF ViewOf
<1> QED BY <1>1, <1>2, <1>3 DEF StopsCopied

LEMMA PhotoInserted ==
  ASSUME RecordsOK, Written, NEW o \in ImportRow, Filling(o), Copying(o), o.pc = "insert", o.left \intersect Stop = {},
         NEW p \in Photo, p \in o.left, NEW x \in Photo,
         CreatePhoto(x, o.trip, NewStopOf(o.stop, o.man.photos[p].stop), o.man.photos[p].note),
         NEW r \in ImportRow, r.pc = Then(o.man.photos[p]), r.trip = o.trip, r.man = o.man, r.left = o.left \ {p},
         r.last = p, r.photo = [o.photo EXCEPT ![p] = x], r.stop = o.stop, r.exact = o.exact
  PROVE  Filling(r)' /\ Copying(r)'
<1> DEFINE t == o.trip
           m == o.man
           stop == NewStopOf(o.stop, m.photos[p].stop)
<1>0. /\ TablesOK /\ TablesOK' /\ RowsKept /\ TripsKept /\ t \in Trip /\ m \in Manifest
      /\ p \in Rows(m.photos) /\ m.photos[p].note \in Note /\ stop \in Stop \union {Null}
      /\ o.photo \in [Photo -> Photo \union {Null}] /\ o.left \subseteq Stop \union Photo \union Route \union Comment
      /\ DOMAIN photos = Photo
  <2>1. t \in Trip /\ m \in Manifest /\ o.photo \in [Photo -> Photo \union {Null}]
        /\ o.stop \in [Stop -> Stop \union {Null}]
        /\ o.left \subseteq Stop \union Photo \union Route \union Comment
    BY ImportTypes
  <2>2. p \in Rows(m.photos)
    BY LeftIs
  <2>3. m.photos[p] \in PhotoRow
    BY <2>1, <2>2, ManifestTypes
  <2>4. m.photos[p].note \in Note /\ stop \in Stop \union {Null}
    BY <2>1, <2>3 DEF PhotoRow, NewStopOf
  <2> QED BY <2>1, <2>2, <2>4 DEF RecordsOK, TablesOK, Written
<1>1. /\ photos'[x] = [trip |-> t, stop |-> stop, note |-> m.photos[p].note, view |-> Null]
      /\ \A y \in Photo : y # x => photos'[y] = photos[y]
      /\ photos[x] = Null /\ Of(photos', t) = Of(photos, t) \union {x} /\ x \notin Of(photos, t)
      /\ UNCHANGED <<trips, stops, routes, comments>>
  <2> HIDE DEF stop
  <2> QED BY <1>0, PhotoRowInserted DEF stop
<1> HIDE DEF stop
<1>2. r.photo[p] = x /\ x # Null /\ \A z \in Photo : z # p => r.photo[z] = o.photo[z]
  BY <1>0, NullAssumption
<1>3. Filling(o)'
  BY <1>0, FillingKept, ImportTypes
<1>4. Filling(r)'
  <2>1. Member(photos', x, t)
    <3>1. photos'[x].trip = t /\ photos'[x] \in PhotoRow
      BY <1>0, <1>1 DEF PhotoRow
    <3> QED BY <3>1, RowsLive DEF Member
  <2>2. \A k \in Rows(m.comments) : m.comments[k].photo # x
    BY <1>1, ImportTypes DEF Filling, Known
  <2>3. /\ trips'[t] # Null
        /\ o.left \subseteq Rows(m.stops) \union Rows(m.photos) \union Rows(m.routes) \union Rows(m.comments)
        /\ \A s \in Stop : o.stop[s] # Null => Member(stops', o.stop[s], t)
        /\ \A q \in Photo : o.photo[q] # Null =>
             Member(photos', o.photo[q], t) /\ \A k \in Rows(m.comments) : m.comments[k].photo # o.photo[q]
        /\ \A k \in Rows(m.comments) : photos'[m.comments[k].photo] # Null
    BY <1>3, ImportTypes, FillingGives
  <2>4. \A q \in Photo : r.photo[q] # Null =>
          Member(photos', r.photo[q], t) /\ \A k \in Rows(m.comments) : m.comments[k].photo # r.photo[q]
    BY <1>2, <2>1, <2>2, <2>3
  <2>5. r.last \in Rows(m.photos) /\ r.photo[r.last] # Null
    BY <1>0, <1>2
  <2>6. r.left \subseteq Rows(m.stops) \union Rows(m.photos) \union Rows(m.routes) \union Rows(m.comments)
    BY <2>3
  <2>7. r.trip = t /\ r.man = m /\ r.stop = o.stop
    OBVIOUS
  <2>8. \A s \in Stop : r.stop[s] # Null => Member(stops', r.stop[s], r.trip)
    BY <2>3, <2>7
  <2>9. \A q \in Photo : r.photo[q] # Null =>
          Member(photos', r.photo[q], r.trip)
          /\ \A k \in Rows(r.man.comments) : r.man.comments[k].photo # r.photo[q]
    BY <2>4, <2>7
  <2>10. trips'[r.trip] # Null /\ \A k \in Rows(r.man.comments) : photos'[r.man.comments[k].photo] # Null
    BY <2>3, <2>7
  <2>11. r.left \subseteq Rows(r.man.stops) \union Rows(r.man.photos) \union Rows(r.man.routes)
                              \union Rows(r.man.comments)
    BY <2>6, <2>7
  <2>12. r.last \in Rows(r.man.photos) /\ r.photo[r.last] # Null
    BY <2>5, <2>7
  <2> QED BY <2>8, <2>9, <2>10, <2>11, <2>12, FillingIs
<1>5. Copying(r)'
  <2> SUFFICES ASSUME r.exact PROVE Copying(r)'
    BY DEF Copying
  <2>1. /\ Live(trips[t]) /\ InOrder(o) /\ StopsCopied(o) /\ PhotosCopied(o) /\ RoutesCopied(o)
        /\ o.left \intersect Photo # {}
    BY ImportTypes DEF Copying
  <2>2. /\ Rows(m.comments) \subseteq o.left /\ Of(comments, t) = {} /\ p \notin Stop /\ p \notin Route /\ p \notin Comment
        /\ Rows(m.photos) \subseteq Photo /\ Rows(m.comments) \subseteq Comment /\ Rows(m.stops) \subseteq Stop
    BY <1>0, <2>1, IdsAssumption, ManifestTypes DEF InOrder
  <2>3. r.left \intersect Stop = {} /\ r.left \intersect Route = o.left \intersect Route
        /\ r.left \intersect Comment = o.left \intersect Comment
        /\ r.left \intersect Stop = o.left \intersect Stop
    BY <2>2
  <2>4. DonePhotos(r) = DonePhotos(o) \union {p} /\ p \notin DonePhotos(o) /\ DonePhotos(o) \subseteq Photo
    BY <1>0, <2>2 DEF DonePhotos
  <2>5. Of(comments', t) = {} /\ InOrder(r)'
    BY <1>1, <2>2, <2>3 DEF InOrder, Rows
  <2>6. StopsCopied(r)'
    <3>1. DoneStops(r) = DoneStops(o) /\ DoneStops(o) \subseteq Stop
      BY <2>2 DEF DoneStops, Rows
    <3>2. \A s \in DoneStops(r) : ViewOf(r, s, m.stops[s].view) = ViewOf(o, s, m.stops[s].view)
      BY <2>2, <3>1 DEF ViewOf
    <3>3. /\ \A s \in Stop : r.stop[s] # Null <=> s \in DoneStops(r)
          /\ \A s1, s2 \in DoneStops(r) : r.stop[s1] = r.stop[s2] => s1 = s2
          /\ Of(stops, t) = {r.stop[s] : s \in DoneStops(r)}
      BY <2>1, <3>1 DEF StopsCopied
    <3>4. Cardinality(Of(stops, t)) + Cardinality(r.left \intersect Stop) = Cardinality(Rows(m.stops))
      BY <2>1, <2>3 DEF StopsCopied
    <3>5. \A s \in DoneStops(r) :
            /\ stops[r.stop[s]].note = m.stops[s].note
            /\ stops[r.stop[s]].view = ViewOf(r, s, m.stops[s].view)
      BY <2>1, <3>1, <3>2 DEF StopsCopied
    <3>6. StopsCopied(r)
      BY <3>3, <3>4, <3>5 DEF StopsCopied
    <3>7. stops' = stops
      BY <1>1
    <3> QED BY <3>6, <3>7, SameStopsCopied
  <2>7. PhotosCopied(r)'
    <3>1. \A z \in Photo : r.photo[z] # Null <=> z \in DonePhotos(r)
      BY <1>2, <2>1, <2>4 DEF PhotosCopied
    <3>2. \A z \in DonePhotos(o) : o.photo[z] \in Of(photos, t) /\ o.photo[z] # x /\ r.photo[z] = o.photo[z] /\ z # p
      BY <1>1, <1>2, <2>1, <2>4 DEF PhotosCopied
    <3>3. \A p1, p2 \in DonePhotos(r) : r.photo[p1] = r.photo[p2] => p1 = p2
      BY <1>2, <2>1, <2>4, <3>2 DEF PhotosCopied
    <3>4. Of(photos', t) = {r.photo[z] : z \in DonePhotos(r)}
      <4>1. Of(photos, t) = {o.photo[z] : z \in DonePhotos(o)}
        BY <2>1 DEF PhotosCopied
      <4> QED BY <1>1, <1>2, <2>4, <3>2, <4>1
    <3>5. Cardinality(Of(photos', t)) + Cardinality(r.left \intersect Photo) = Cardinality(Rows(m.photos))
      <4>1. Of(photos, t) \in SUBSET Photo /\ o.left \intersect Photo \in SUBSET Photo /\ p \in o.left \intersect Photo
        BY <1>0 DEF Of
      <4>2. r.left \intersect Photo = (o.left \intersect Photo) \ {p}
        OBVIOUS
      <4>3. Cardinality(Of(photos, t)) + Cardinality(o.left \intersect Photo) = Cardinality(Rows(m.photos))
        BY <2>1 DEF PhotosCopied
      <4>4. Cardinality(Of(photos, t) \union {x}) + Cardinality((o.left \intersect Photo) \ {p})
              = Cardinality(Of(photos, t)) + Cardinality(o.left \intersect Photo)
        <5>1. IsFiniteSet(Photo) /\ x \notin Of(photos, t)
          BY <1>1, FiniteAssumption
        <5> QED BY <4>1, <5>1, OneMore
      <4> QED BY <1>1, <4>2, <4>3, <4>4
    <3>6. ASSUME NEW z \in DonePhotos(r)
          PROVE  /\ photos'[r.photo[z]].stop = NewStopOf(r.stop, m.photos[z].stop)
                 /\ photos'[r.photo[z]].note = m.photos[z].note
                 /\ photos'[r.photo[z]].view = ViewOf(r, z, m.photos[z].view)
      <4>1. CASE z = p
        BY <1>1, <1>2, <4>1 DEF ViewOf, Then, stop
      <4>2. CASE z # p
        <5>1. z \in DonePhotos(o) /\ photos'[r.photo[z]] = photos[o.photo[z]]
          BY <1>0, <1>1, <2>4, <3>2, <4>2 DEF Of
        <5>2. /\ photos[o.photo[z]].note = m.photos[z].note /\ photos[o.photo[z]].view = m.photos[z].view
              /\ photos[o.photo[z]].stop = NewStopOf(o.stop, m.photos[z].stop)
          BY <2>1, <5>1 DEF PhotosCopied, ViewOf
        <5> QED BY <4>2, <5>1, <5>2 DEF ViewOf
      <4> QED BY <4>1, <4>2
    <3>7. /\ DonePhotos(r)' = DonePhotos(r) /\ Rows(m.photos)' = Rows(m.photos)
          /\ \A z : ViewOf(r, z, m.photos[z].view)' = ViewOf(r, z, m.photos[z].view)
          /\ \A z : NewStopOf(r.stop, m.photos[z].stop)' = NewStopOf(r.stop, m.photos[z].stop)
      BY DEF DonePhotos, ViewOf, NewStopOf, Rows
    <3> QED BY <3>1, <3>3, <3>4, <3>5, <3>6, <3>7 DEF PhotosCopied
  <2>8. RoutesCopied(r)'
    BY <1>1, <2>1, <2>3, ZenonT(40) DEF RoutesCopied, Rows
  <2>9. CommentsCopied(r)'
    <3>1. \A q : CommentsOn(t, q)' = {}
      BY <2>5 DEF CommentsOn
    <3>2. \A q : ListedOn(m, r.left, q) = ListedOn(m, Rows(m.comments), q)
      <4>1. r.left \intersect Comment = Rows(m.comments) \intersect Comment
        BY <2>2, <2>3, LeftIs
      <4> QED BY <4>1 DEF ListedOn
    <3>3. \A q : Cardinality(ListedOn(m, Rows(m.comments), q)) \in Nat
      <4>1. \A q : ListedOn(m, Rows(m.comments), q) \in SUBSET Comment
        BY DEF ListedOn
      <4> QED BY <4>1, FS_Subset, FS_CardinalityType, FiniteAssumption
    <3>5. \A q : CommentsOn(r.trip, q)' = {}
      BY <3>1
    <3>6. ASSUME NEW q
          PROVE  0 + Cardinality(ListedOn(r.man, r.left, q)) = Cardinality(ListedOn(r.man, Rows(r.man.comments), q))
      BY <3>2, <3>3, SMTT(20)
    <3>7. \A q : /\ ListedOn(r.man, r.left, q)' = ListedOn(r.man, r.left, q)
                 /\ ListedOn(r.man, Rows(r.man.comments), q)' = ListedOn(r.man, Rows(r.man.comments), q)
      BY DEF ListedOn, Rows
    <3>8. Cardinality({}) = 0
      BY FS_EmptySet
    <3>9. ASSUME NEW q
          PROVE  (Cardinality(CommentsOn(r.trip, r.photo[q])) + Cardinality(ListedOn(r.man, r.left, q))
                    = Cardinality(ListedOn(r.man, Rows(r.man.comments), q)))'
      BY <3>5, <3>6, <3>7, <3>8
    <3> QED BY <3>9 DEF CommentsCopied
  <2>10. Settled(r)'
    BY DEF Settled, Then
  <2> QED BY <1>1, <2>1, <2>5, <2>6, <2>7, <2>8, <2>9, <2>10 DEF Copying
<1> QED BY <1>4, <1>5

\* What has been copied to a table stays so when the table and the rest of the
\* job's account of it do.
LEMMA SameTable ==
  ASSUME NEW r
  PROVE  /\ UNCHANGED stops /\ StopsCopied(r) => StopsCopied(r)'
         /\ UNCHANGED photos /\ PhotosCopied(r) => PhotosCopied(r)'
         /\ UNCHANGED routes /\ RoutesCopied(r) => RoutesCopied(r)'
         /\ UNCHANGED comments /\ CommentsCopied(r) => CommentsCopied(r)'
         /\ UNCHANGED comments /\ InOrder(r) => InOrder(r)'
<1>1. UNCHANGED stops /\ StopsCopied(r) => StopsCopied(r)'
  BY DEF StopsCopied, DoneStops, ViewOf, Rows, Of
<1>2. UNCHANGED photos /\ PhotosCopied(r) => PhotosCopied(r)'
  BY DEF PhotosCopied, DonePhotos, ViewOf, NewStopOf, Rows, Of
<1>3. UNCHANGED routes /\ RoutesCopied(r) => RoutesCopied(r)'
  BY DEF RoutesCopied, Rows, Of
<1>4. UNCHANGED comments /\ CommentsCopied(r) => CommentsCopied(r)'
  BY DEF CommentsCopied, CommentsOn, ListedOn, DonePhotos, Rows, Of
<1>5. UNCHANGED comments /\ InOrder(r) => InOrder(r)'
  BY DEF InOrder, Rows, Of
<1> QED BY <1>1, <1>2, <1>3, <1>4, <1>5

SameFill(o, r) == r.trip = o.trip /\ r.man = o.man /\ r.stop = o.stop /\ r.photo = o.photo

LEMMA SameCopy ==
  ASSUME NEW o \in ImportRow, NEW r \in ImportRow, SameFill(o, r)
  PROVE  /\ /\ r.left \intersect Stop = o.left \intersect Stop
            /\ \A s \in Stop : ViewOf(r, s, o.man.stops[s].view) = ViewOf(o, s, o.man.stops[s].view)
            /\ StopsCopied(o)
            => StopsCopied(r)
         /\ /\ r.left \intersect Photo = o.left \intersect Photo
            /\ \A p \in Photo : ViewOf(r, p, o.man.photos[p].view) = ViewOf(o, p, o.man.photos[p].view)
            /\ PhotosCopied(o)
            => PhotosCopied(r)
         /\ r.left \intersect Route = o.left \intersect Route /\ RoutesCopied(o) => RoutesCopied(r)
         /\ /\ r.left \intersect Photo = o.left \intersect Photo
            /\ r.left \intersect Comment = o.left \intersect Comment
            /\ CommentsCopied(o)
            => CommentsCopied(r)
<1>1. /\ Rows(o.man.stops) \subseteq Stop /\ Rows(o.man.photos) \subseteq Photo
      /\ r.man = o.man /\ r.trip = o.trip /\ r.stop = o.stop /\ r.photo = o.photo
  BY ImportTypes, ManifestTypes DEF SameFill
<1>2. r.left \intersect Stop = o.left \intersect Stop => DoneStops(r) = DoneStops(o) /\ DoneStops(o) \subseteq Stop
  BY <1>1 DEF DoneStops
<1>3. r.left \intersect Photo = o.left \intersect Photo => DonePhotos(r) = DonePhotos(o) /\ DonePhotos(o) \subseteq Photo
  BY <1>1 DEF DonePhotos
<1>4. ASSUME r.left \intersect Stop = o.left \intersect Stop, StopsCopied(o),
             \A s \in Stop : ViewOf(r, s, o.man.stops[s].view) = ViewOf(o, s, o.man.stops[s].view)
      PROVE  StopsCopied(r)
  <2>1. DoneStops(r) = DoneStops(o) /\ DoneStops(o) \subseteq Stop
    BY <1>2, <1>4
  <2>2. Cardinality(Of(stops, r.trip)) + Cardinality(r.left \intersect Stop) = Cardinality(Rows(r.man.stops))
    BY <1>1, <1>4 DEF StopsCopied
  <2>3. /\ \A s \in Stop : r.stop[s] # Null <=> s \in DoneStops(r)
        /\ \A s1, s2 \in DoneStops(r) : r.stop[s1] = r.stop[s2] => s1 = s2
        /\ Of(stops, r.trip) = {r.stop[s] : s \in DoneStops(r)}
    BY <1>1, <1>4, <2>1 DEF StopsCopied
  <2>4. \A s \in DoneStops(r) :
          /\ stops[r.stop[s]].note = r.man.stops[s].note
          /\ stops[r.stop[s]].view = ViewOf(r, s, r.man.stops[s].view)
    BY <1>1, <1>4, <2>1 DEF StopsCopied
  <2> QED BY <2>2, <2>3, <2>4 DEF StopsCopied
<1>5. ASSUME r.left \intersect Photo = o.left \intersect Photo, PhotosCopied(o),
             \A p \in Photo : ViewOf(r, p, o.man.photos[p].view) = ViewOf(o, p, o.man.photos[p].view)
      PROVE  PhotosCopied(r)
  BY <1>1, <1>3, <1>5 DEF PhotosCopied
<1>6. r.left \intersect Route = o.left \intersect Route /\ RoutesCopied(o) => RoutesCopied(r)
  BY <1>1 DEF RoutesCopied
<1>7. ASSUME r.left \intersect Photo = o.left \intersect Photo, CommentsCopied(o),
             r.left \intersect Comment = o.left \intersect Comment
      PROVE  CommentsCopied(r)
  <2>1. \A p : ListedOn(r.man, r.left, p) = ListedOn(o.man, o.left, p)
    BY <1>1, <1>7 DEF ListedOn
  <2> QED BY <1>1, <1>3, <1>7, <2>1 DEF CommentsCopied
<1> QED BY <1>4, <1>5, <1>6, <1>7

\* Nothing new is relied on when no new row is a stop or a photo.
LEMMA SameFilling ==
  ASSUME RecordsOK, Written, NEW o \in ImportRow, Filling(o), NEW r \in ImportRow, SameFill(o, r),
         r.left \subseteq o.left, r.pc # "view"
  PROVE  Filling(r)'
<1>1. Filling(o)' /\ o.pc \in FillPc
  BY FillingKept, ImportTypes DEF Written
<1>2. o.left \subseteq Rows(o.man.stops) \union Rows(o.man.photos) \union Rows(o.man.routes) \union Rows(o.man.comments)
  BY ImportTypes DEF Filling
<1> QED BY <1>1, <1>2 DEF Filling, SameFill, Known, Member, Rows

LEMMA RouteInserted ==
  ASSUME RecordsOK, Written, NEW o \in ImportRow, Filling(o), Copying(o), o.pc = "insert",
         o.left \intersect (Stop \union Photo) = {},
         NEW x \in Route, x \in o.left, NEW y \in Route, CreateRoute(y, o.trip),
         NEW r \in ImportRow, r.pc = "insert", SameFill(o, r), r.left = o.left \ {x}, r.exact = o.exact
  PROVE  Filling(r)' /\ Copying(r)'
<1>1. Filling(r)'
  BY SameFilling
<1>2. /\ TablesOK /\ o.trip \in Trip /\ o.left \subseteq Stop \union Photo \union Route \union Comment
      /\ DOMAIN routes = Route /\ r.trip = o.trip /\ r.man = o.man
  BY ImportTypes DEF RecordsOK, TablesOK, SameFill
<1>3. /\ Of(routes', o.trip) = Of(routes, o.trip) \union {y} /\ y \notin Of(routes, o.trip)
      /\ UNCHANGED <<trips, stops, photos, comments>>
  BY <1>2, RouteRowInserted
<1>4. Copying(r)'
  <2> SUFFICES ASSUME r.exact PROVE Copying(r)'
    BY DEF Copying
  <2>1. Live(trips[o.trip]) /\ StopsCopied(o) /\ PhotosCopied(o) /\ RoutesCopied(o) /\ CommentsCopied(o)
    BY ImportTypes DEF Copying
  <2>2. /\ r.left \intersect Stop = {} /\ r.left \intersect Photo = {}
        /\ o.left \intersect Stop = {} /\ o.left \intersect Photo = {}
        /\ r.left \intersect Comment = o.left \intersect Comment
    BY IdsAssumption
  <2>3. \A z, v : ViewOf(r, z, v) = v /\ ViewOf(o, z, v) = v
    BY DEF ViewOf
  <2>4. StopsCopied(r) /\ PhotosCopied(r) /\ CommentsCopied(r)
    BY <2>1, <2>2, <2>3, SameCopy
  <2>5. InOrder(r)
    BY <2>2 DEF InOrder
  <2>6. RoutesCopied(r)'
    <3>1. Of(routes, o.trip) \in SUBSET Route /\ o.left \intersect Route \in SUBSET Route /\ x \in o.left \intersect Route
      BY <1>2 DEF Of
    <3>2. r.left \intersect Route = (o.left \intersect Route) \ {x}
      OBVIOUS
    <3>3. Cardinality(Of(routes, o.trip)) + Cardinality(o.left \intersect Route) = Cardinality(Rows(o.man.routes))
      BY <2>1 DEF RoutesCopied
    <3>4. Cardinality(Of(routes, o.trip) \union {y}) + Cardinality((o.left \intersect Route) \ {x})
            = Cardinality(Of(routes, o.trip)) + Cardinality(o.left \intersect Route)
      <4>1. IsFiniteSet(Route) /\ y \notin Of(routes, o.trip)
        BY <1>3, FiniteAssumption
      <4> QED BY <3>1, <4>1, OneMore
    <3>5. Cardinality(Of(routes', o.trip)) + Cardinality(r.left \intersect Route) = Cardinality(Rows(o.man.routes))
      BY <1>3, <3>2, <3>3, <3>4
    <3> QED BY <1>2, <3>5 DEF RoutesCopied, Rows
  <2>7. Settled(r)'
    BY DEF Settled
  <2> QED BY <1>2, <1>3, <2>1, <2>4, <2>5, <2>6, <2>7, SameTable DEF Copying
<1> QED BY <1>1, <1>4

LEMMA CommentInserted ==
  ASSUME RecordsOK, Written, NEW o \in ImportRow, Filling(o), Copying(o), o.pc = "insert",
         o.left \intersect (Stop \union Photo \union Route) = {},
         NEW x \in Comment, x \in o.left, NEW y \in Comment,
         CreateComment(y, o.trip, NewPhotoOf(o.photo, o.man.comments[x].photo)),
         NEW r \in ImportRow, r.pc = "insert", SameFill(o, r), r.left = o.left \ {x}, r.exact = o.exact
  PROVE  Filling(r)' /\ Copying(r)'
<1> DEFINE m == o.man
           q == m.comments[x].photo
           p == NewPhotoOf(o.photo, q)
<1>1. Filling(r)'
  BY SameFilling
<1>2. /\ TablesOK /\ o.trip \in Trip /\ o.left \subseteq Stop \union Photo \union Route \union Comment
      /\ o.photo \in [Photo -> Photo \union {Null}] /\ r.trip = o.trip /\ r.man = o.man /\ r.photo = o.photo
      /\ DOMAIN comments = Comment /\ m \in Manifest
  BY ImportTypes DEF RecordsOK, TablesOK, SameFill
<1>3. x \in Rows(m.comments) /\ q \in Photo /\ p \in Photo
  <2>1. x \in Rows(m.comments)
    BY LeftIs
  <2>2. m.comments[x] \in CommentRow
    BY <1>2, <2>1, ManifestTypes
  <2> QED BY <1>2, <2>1, <2>2 DEF CommentRow, NewPhotoOf
<1>4. /\ CommentsOn(o.trip, p)' = CommentsOn(o.trip, p) \union {y} /\ y \notin CommentsOn(o.trip, p)
      /\ \A z : z # p => CommentsOn(o.trip, z)' = CommentsOn(o.trip, z)
      /\ UNCHANGED <<trips, stops, photos, routes>>
  <2> HIDE DEF p
  <2> QED BY <1>2, <1>3, CommentRowInserted DEF p
<1>5. Copying(r)'
  <2> SUFFICES ASSUME r.exact PROVE Copying(r)'
    BY DEF Copying
  <2>1. Live(trips[o.trip]) /\ StopsCopied(o) /\ PhotosCopied(o) /\ RoutesCopied(o) /\ CommentsCopied(o)
    BY ImportTypes DEF Copying
  <2>2. /\ r.left \intersect Stop = {} /\ r.left \intersect Photo = {} /\ r.left \intersect Route = {}
        /\ o.left \intersect Stop = {} /\ o.left \intersect Photo = {} /\ o.left \intersect Route = {}
    BY IdsAssumption
  <2>3. \A z, v : ViewOf(r, z, v) = v /\ ViewOf(o, z, v) = v
    BY DEF ViewOf
  <2>4. StopsCopied(r) /\ PhotosCopied(r) /\ RoutesCopied(r)
    BY <2>1, <2>2, <2>3, SameCopy
  <2>5. InOrder(r)'
    BY <2>2 DEF InOrder, Rows
  <2>6. DonePhotos(r) = DonePhotos(o) /\ DonePhotos(o) \subseteq Photo
    BY <1>2, <2>2, ManifestTypes DEF DonePhotos
  <2>7. ASSUME NEW z \in DonePhotos(o)
        PROVE  Cardinality(CommentsOn(o.trip, o.photo[z])') + Cardinality(ListedOn(m, r.left, z))
                 = Cardinality(ListedOn(m, Rows(m.comments), z))
    <3>0. Cardinality(CommentsOn(o.trip, o.photo[z])) + Cardinality(ListedOn(m, o.left, z))
            = Cardinality(ListedOn(m, Rows(m.comments), z))
      BY <2>1 DEF CommentsCopied
    <3>1. CASE z = q
      <4>1. p = o.photo[z]
        BY <2>1, <2>6, <3>1 DEF NewPhotoOf, PhotosCopied
      <4>2. CommentsOn(o.trip, p) \in SUBSET Comment /\ ListedOn(m, o.left, z) \in SUBSET Comment
            /\ x \in ListedOn(m, o.left, z)
        BY <1>2, <3>1 DEF CommentsOn, Of, ListedOn
      <4>3. ListedOn(m, r.left, z) = ListedOn(m, o.left, z) \ {x}
        BY DEF ListedOn
      <4>4. Cardinality(CommentsOn(o.trip, p) \union {y}) + Cardinality(ListedOn(m, o.left, z) \ {x})
              = Cardinality(CommentsOn(o.trip, p)) + Cardinality(ListedOn(m, o.left, z))
        <5>1. IsFiniteSet(Comment) /\ y \notin CommentsOn(o.trip, p)
          BY <1>4, FiniteAssumption
        <5> QED BY <4>2, <5>1, OneMore
      <4> HIDE DEF p, q, m
      <4> QED BY <1>4, <3>0, <4>1, <4>3, <4>4
    <3>2. CASE z # q
      <4>1. o.photo[z] # p
        <5>1. CASE o.photo[q] # Null
          BY <1>3, <2>1, <2>6, <3>2, <5>1 DEF PhotosCopied, NewPhotoOf
        <5>2. CASE o.photo[q] = Null
          <6>1. o.photo[z] # Null
            BY <2>1, <2>6 DEF PhotosCopied
          <6>2. o.photo[z] # q
            BY <1>3, <2>6, <6>1, ImportTypes DEF Filling
          <6> QED BY <5>2, <6>2 DEF NewPhotoOf
        <5> QED BY <5>1, <5>2
      <4>2. CommentsOn(o.trip, o.photo[z])' = CommentsOn(o.trip, o.photo[z])
        BY <1>4, <4>1
      <4>3. ListedOn(m, r.left, z) = ListedOn(m, o.left, z)
        BY <3>2 DEF ListedOn
      <4> QED BY <3>0, <4>2, <4>3
    <3> QED BY <3>1, <3>2
  <2>8. CommentsCopied(r)'
    <3>1. /\ DonePhotos(r)' = DonePhotos(o)
          /\ \A z : /\ ListedOn(r.man, r.left, z)' = ListedOn(m, r.left, z)
                    /\ ListedOn(r.man, Rows(r.man.comments), z)' = ListedOn(m, Rows(m.comments), z)
                    /\ CommentsOn(r.trip, r.photo[z])' = CommentsOn(o.trip, o.photo[z])'
      BY <1>2, <2>6 DEF ListedOn, Rows, DonePhotos, CommentsOn, Of
    <3> QED BY <2>7, <3>1 DEF CommentsCopied
  <2>9. Settled(r)'
    BY DEF Settled
  <2> QED BY <1>2, <1>4, <2>1, <2>4, <2>5, <2>8, <2>9, SameTable DEF Copying
<1> QED BY <1>1, <1>5

\* The cameras of a stop and of a photo, and the cover.
LEMMA StopViewWritten ==
  ASSUME RecordsOK, Written, NEW o \in ImportRow, Filling(o), Copying(o), o.pc = "view", NEW s \in Stop, o.last = s,
         UpdateStop(o.stop[s], o.man.stops[s].note, o.man.stops[s].view),
         NEW r \in ImportRow, r.pc = "insert", SameFill(o, r), r.left = o.left, r.exact = o.exact
  PROVE  Filling(r)' /\ Copying(r)'
<1> DEFINE t == o.trip
           m == o.man
           x == o.stop[s]
<1>1. Filling(r)'
  BY SameFilling
<1>2. /\ stops \in [Stop -> StopRow \union {Null, Gone}] /\ DOMAIN stops = Stop
      /\ r.trip = t /\ r.man = m /\ r.stop = o.stop
      /\ Rows(m.stops) \subseteq Stop /\ Rows(m.photos) \subseteq Photo /\ s \notin Photo
  BY ImportTypes, ManifestTypes, IdsAssumption DEF RecordsOK, TablesOK, SameFill
<1>3. Copying(r)'
  <2> SUFFICES ASSUME r.exact PROVE Copying(r)'
    BY DEF Copying
  <2>1. /\ Live(trips[t]) /\ InOrder(o) /\ StopsCopied(o) /\ PhotosCopied(o) /\ RoutesCopied(o) /\ CommentsCopied(o)
    BY ImportTypes DEF Copying
  <2>2. s \in DoneStops(o) /\ DoneStops(o) \subseteq Stop
    BY <1>2, <2>1 DEF Filling, FillPc, StopsCopied, DoneStops
  <2>3. x \in Of(stops, t) /\ x \in Stop /\ Live(stops[x]) /\ stops[x] \in StopRow /\ stops[x].trip = t
    BY <1>2, <2>1, <2>2 DEF StopsCopied, Of, Live
  <2> DEFINE row == [stops[x] EXCEPT !.note = m.stops[s].note, !.view = m.stops[s].view]
  <2>4. row.trip = t /\ row.note = m.stops[s].note /\ row.view = m.stops[s].view
    BY <2>3 DEF StopRow
  <2>5. stops' = [stops EXCEPT ![x] = row] /\ UNCHANGED <<trips, photos, routes, comments>>
    BY <2>3 DEF UpdateStop
  <2>6. Live(row)
    <3>1. m.stops[s] \in StopRow
      BY <2>2, ImportTypes, ManifestTypes DEF DoneStops
    <3>2. row \in StopRow
      BY <2>3, <3>1 DEF StopRow
    <3> QED BY <3>2, RowsLive
  <2> HIDE DEF row
  <2>7. stops'[x] = row /\ (\A y \in Stop : y # x => stops'[y] = stops[y]) /\ DOMAIN stops' = Stop
    BY <1>2, <2>3, <2>5
  <2>8. Of(stops', t) = Of(stops, t)
    BY <1>2, <2>3, <2>4, <2>6, <2>7 DEF Of
  <2>9. StopsCopied(r)'
    <3>1. DoneStops(r) = DoneStops(o)
      BY <1>2 DEF DoneStops
    <3>2. \A z \in DoneStops(o) : z # s => o.stop[z] # x /\ o.stop[z] \in Stop
      BY <1>2, <2>1, <2>2 DEF StopsCopied, Of
    <3>3. \A z \in DoneStops(r) :
            /\ stops'[o.stop[z]].note = m.stops[z].note
            /\ stops'[o.stop[z]].view = m.stops[z].view
      BY <2>1, <2>2, <2>4, <2>7, <3>1, <3>2 DEF StopsCopied, ViewOf
    <3>4. /\ \A z \in Stop : r.stop[z] # Null <=> z \in DoneStops(r)
          /\ \A s1, s2 \in DoneStops(r) : r.stop[s1] = r.stop[s2] => s1 = s2
          /\ Of(stops', t) = {r.stop[z] : z \in DoneStops(r)}
          /\ Cardinality(Of(stops', t)) + Cardinality(r.left \intersect Stop) = Cardinality(Rows(m.stops))
      BY <1>2, <2>1, <2>8, <3>1 DEF StopsCopied
    <3>5. \A z, v : ViewOf(r, z, v)' = v
      BY DEF ViewOf
    <3>6. DoneStops(r)' = DoneStops(r) /\ Rows(r.man.stops)' = Rows(m.stops)
      BY <1>2 DEF DoneStops, Rows
    <3> QED BY <1>2, <3>3, <3>4, <3>6 DEF StopsCopied, ViewOf
  <2>10. \A z \in Photo : \A v : ViewOf(r, z, v) = v /\ ViewOf(o, z, v) = v
    BY <1>2 DEF ViewOf
  <2>11. PhotosCopied(r) /\ RoutesCopied(r) /\ CommentsCopied(r)
    BY <2>1, <2>10, SameCopy
  <2>12. InOrder(r)
    BY <1>2, <2>1 DEF InOrder
  <2>13. Settled(r)'
    BY DEF Settled
  <2> QED BY <1>2, <2>1, <2>5, <2>9, <2>11, <2>12, <2>13, SameTable DEF Copying
<1> QED BY <1>1, <1>3

LEMMA PhotoViewWritten ==
  ASSUME RecordsOK, Written, NEW o \in ImportRow, Filling(o), Copying(o), o.pc = "view", NEW p \in Photo, o.last = p,
         UpdatePhoto(o.photo[p], NewStopOf(o.stop, o.man.photos[p].stop), o.man.photos[p].note, o.man.photos[p].view),
         NEW r \in ImportRow, r.pc = "insert", SameFill(o, r), r.left = o.left, r.exact = o.exact
  PROVE  Filling(r)' /\ Copying(r)'
<1> DEFINE t == o.trip
           m == o.man
           x == o.photo[p]
           stop == NewStopOf(o.stop, m.photos[p].stop)
<1>1. Filling(r)'
  BY SameFilling
<1>2. /\ photos \in [Photo -> PhotoRow \union {Null, Gone}] /\ DOMAIN photos = Photo
      /\ r.trip = t /\ r.man = m /\ r.stop = o.stop /\ r.photo = o.photo /\ o.stop \in [Stop -> Stop \union {Null}]
      /\ Rows(m.stops) \subseteq Stop /\ Rows(m.photos) \subseteq Photo /\ p \notin Stop
  BY ImportTypes, ManifestTypes, IdsAssumption DEF RecordsOK, TablesOK, SameFill
<1>3. Copying(r)'
  <2> SUFFICES ASSUME r.exact PROVE Copying(r)'
    BY DEF Copying
  <2>1. /\ Live(trips[t]) /\ InOrder(o) /\ StopsCopied(o) /\ PhotosCopied(o) /\ RoutesCopied(o) /\ CommentsCopied(o)
    BY ImportTypes DEF Copying
  <2>2. p \in DonePhotos(o) /\ DonePhotos(o) \subseteq Photo
    BY <1>2, <2>1 DEF Filling, FillPc, PhotosCopied, DonePhotos
  <2>3. x \in Of(photos, t) /\ x \in Photo /\ Live(photos[x]) /\ photos[x] \in PhotoRow /\ photos[x].trip = t
    BY <1>2, <2>1, <2>2 DEF PhotosCopied, Of, Live
  <2> DEFINE row == [photos[x] EXCEPT !.stop = stop, !.note = m.photos[p].note, !.view = m.photos[p].view]
  <2>4. row.trip = t /\ row.note = m.photos[p].note /\ row.view = m.photos[p].view /\ row.stop = stop
    BY <2>3 DEF PhotoRow
  <2>5. photos' = [photos EXCEPT ![x] = row] /\ UNCHANGED <<trips, stops, routes, comments>>
    BY <2>3 DEF UpdatePhoto, SetPhoto
  <2>6. Live(row)
    <3>1. m.photos[p] \in PhotoRow
      BY <2>2, ImportTypes, ManifestTypes DEF DonePhotos
    <3>2. stop \in Stop \union {Null}
      BY <1>2, <3>1 DEF PhotoRow, NewStopOf
    <3>3. row \in PhotoRow
      <4> HIDE DEF stop
      <4> QED BY <2>3, <3>1, <3>2 DEF PhotoRow
    <3> QED BY <3>3, RowsLive
  <2> HIDE DEF row
  <2>7. photos'[x] = row /\ (\A y \in Photo : y # x => photos'[y] = photos[y]) /\ DOMAIN photos' = Photo
    BY <1>2, <2>3, <2>5
  <2>8. Of(photos', t) = Of(photos, t)
    BY <1>2, <2>3, <2>4, <2>6, <2>7 DEF Of
  <2>9. PhotosCopied(r)'
    <3>1. DonePhotos(r) = DonePhotos(o)
      BY <1>2 DEF DonePhotos
    <3>2. \A z \in DonePhotos(o) : z # p => o.photo[z] # x /\ o.photo[z] \in Photo
      BY <1>2, <2>1, <2>2 DEF PhotosCopied, Of
    <3>3. \A z \in DonePhotos(r) :
            /\ photos'[o.photo[z]].note = m.photos[z].note
            /\ photos'[o.photo[z]].view = m.photos[z].view
      BY <2>1, <2>2, <2>4, <2>7, <3>1, <3>2 DEF PhotosCopied, ViewOf
    <3>4. \A z \in DonePhotos(r) : photos'[o.photo[z]].stop = NewStopOf(o.stop, m.photos[z].stop)
      BY <2>1, <2>2, <2>4, <2>7, <3>1, <3>2 DEF PhotosCopied
    <3>5. /\ \A z \in Photo : r.photo[z] # Null <=> z \in DonePhotos(r)
          /\ \A p1, p2 \in DonePhotos(r) : r.photo[p1] = r.photo[p2] => p1 = p2
          /\ Of(photos', t) = {r.photo[z] : z \in DonePhotos(r)}
          /\ Cardinality(Of(photos', t)) + Cardinality(r.left \intersect Photo) = Cardinality(Rows(m.photos))
      BY <1>2, <2>1, <2>8, <3>1 DEF PhotosCopied
    <3>6. /\ DonePhotos(r)' = DonePhotos(r) /\ Rows(r.man.photos)' = Rows(m.photos)
          /\ \A z : NewStopOf(r.stop, r.man.photos[z].stop)' = NewStopOf(o.stop, m.photos[z].stop)
      BY <1>2 DEF DonePhotos, Rows, NewStopOf
    <3> QED BY <1>2, <3>3, <3>4, <3>5, <3>6 DEF PhotosCopied, ViewOf
  <2>10. \A z \in Stop : \A v : ViewOf(r, z, v) = v /\ ViewOf(o, z, v) = v
    BY <1>2 DEF ViewOf
  <2>11. StopsCopied(r) /\ RoutesCopied(r) /\ CommentsCopied(r)
    BY <2>1, <2>10, SameCopy
  <2>12. InOrder(r)
    BY <1>2, <2>1 DEF InOrder
  <2>13. Settled(r)'
    BY DEF Settled
  <2> QED BY <1>2, <2>1, <2>5, <2>9, <2>11, <2>12, <2>13, SameTable DEF Copying
<1> QED BY <1>1, <1>3

LEMMA CoverWritten ==
  ASSUME RecordsOK, Written, NEW o \in ImportRow, Filling(o), Copying(o), o.pc = "insert", o.left = {},
         UpdateTrip(o.trip, o.man.trip.note, NewCoverOf(o.photo, o.man.trip.cover), o.man.trip.view),
         NEW r \in ImportRow, r.pc = "answer", SameFill(o, r), r.left = o.left, r.exact = o.exact
  PROVE  Filling(r)' /\ Copying(r)'
<1> DEFINE t == o.trip
           m == o.man
           cover == NewCoverOf(o.photo, m.trip.cover)
<1>1. Filling(r)'
  BY SameFilling
<1>2. /\ trips \in [Trip -> TripRow \union {Null, Gone}] /\ t \in Trip /\ m \in Manifest
      /\ r.trip = t /\ r.man = m /\ r.photo = o.photo /\ o.photo \in [Photo -> Photo \union {Null}]
  BY ImportTypes DEF RecordsOK, TablesOK, SameFill
<1>3. Copying(r)'
  <2> SUFFICES ASSUME r.exact PROVE Copying(r)'
    BY DEF Copying
  <2>1. /\ Live(trips[t]) /\ InOrder(o) /\ StopsCopied(o) /\ PhotosCopied(o) /\ RoutesCopied(o) /\ CommentsCopied(o)
    BY ImportTypes DEF Copying
  <2>2. trips[t] \in TripRow
    BY <1>2, <2>1 DEF Live
  <2> DEFINE row == [trips[t] EXCEPT !.note = m.trip.note, !.cover = cover, !.view = m.trip.view]
  <2>3. row.note = m.trip.note /\ row.view = m.trip.view /\ row.cover = cover
    BY <2>2 DEF TripRow
  <2>4. trips' = [trips EXCEPT ![t] = row] /\ UNCHANGED <<stops, photos, routes, comments>>
    BY <2>1 DEF UpdateTrip, SetTrip
  <2>5. row \in TripRow
    <3>1. m.trip \in TripRow
      BY <1>2, ManifestTypes
    <3>2. cover \in Photo \union {Null}
      BY <1>2, <3>1 DEF TripRow, NewCoverOf
    <3> HIDE DEF cover
    <3> QED BY <2>2, <3>1, <3>2 DEF TripRow
  <2> HIDE DEF row
  <2>6. trips'[t] = row
    BY <1>2, <2>4
  <2>7. \A z, v : ViewOf(r, z, v) = v /\ ViewOf(o, z, v) = v
    BY DEF ViewOf
  <2>8. StopsCopied(r) /\ PhotosCopied(r) /\ RoutesCopied(r) /\ CommentsCopied(r)
    BY <2>1, <2>7, SameCopy
  <2>9. InOrder(r)
    BY <1>2, <2>1 DEF InOrder
  <2>10. Settled(r)'
    BY <1>2, <2>3, <2>6 DEF Settled, NewCoverOf
  <2>11. Live(trips'[t])
    BY <2>5, <2>6, RowsLive
  <2> QED BY <1>2, <2>4, <2>8, <2>9, <2>10, <2>11, SameTable DEF Copying
<1> QED BY <1>1, <1>3

------------------------------------------------------------------------------
(* The steps of an import.                                                   *)

LEMMA ImportBeginStep ==
  ASSUME BackupInv, NEW j \in Job, NEW u \in User, NEW m \in backups, ImportBegin(j, u, m)
  PROVE  BackupInv'
<1>0. /\ RecordsInv /\ RecordsOK /\ TablesOK /\ TablesInv /\ Linked /\ backups \subseteq Manifest /\ Delivered(m)
      /\ \A i \in Job : job[i] \in JobRow /\ Filling(job[i])
  BY TablesInvIs DEF BackupInv, JobsInv, JobRow, RecordsInv, RecordsOK
<1>1. m \in Manifest /\ m.trip.note \in Note
  BY <1>0, ManifestTypes DEF TripRow
<1>2. New(trips) \in Trip /\ trips[New(trips)] = Null
  BY <1>0, NewIsUnused DEF ImportBegin, TablesOK
<1>3. PICK t \in Trip : t = New(trips)
  BY <1>2
<1>4. PICK man \in Manifest : man = m
  BY <1>1
<1> DEFINE left == Rows(man.stops) \union Rows(man.photos) \union Rows(man.routes) \union Rows(man.comments)
<1>5. PICK r : r = [pc |-> "insert", trip |-> t, man |-> man, left |-> left, last |-> Null,
                    stop |-> NoRows(Stop), photo |-> NoRows(Photo), exact |-> TRUE]
  OBVIOUS
<1>6. trips[t] = Null /\ CreateTrip(t, u, man.trip.note) /\ JobBecome(j, r) /\ UNCHANGED <<call, backups>>
  BY <1>2, <1>3, <1>4, <1>5 DEF ImportBegin
<1>7. /\ Rows(man.stops) \subseteq Stop /\ Rows(man.photos) \subseteq Photo
      /\ Rows(man.routes) \subseteq Route /\ Rows(man.comments) \subseteq Comment
  BY ManifestTypes
<1>8. left \subseteq Stop \union Photo \union Route \union Comment
  BY <1>7
<1> HIDE DEF left
<1>9. NoRows(Stop) \in [Stop -> Stop \union {Null}] /\ NoRows(Photo) \in [Photo -> Photo \union {Null}]
  BY NoRowsIs
<1>10. /\ r \in ImportRow /\ r.pc = "insert" /\ r.trip = t /\ r.man = man /\ r.left = left /\ r.last = Null
       /\ r.stop = NoRows(Stop) /\ r.photo = NoRows(Photo)
  BY <1>5, <1>8, <1>9 DEF ImportRow
<1>11. Written
  BY <1>0, <1>1, <1>4, <1>6, CreateTripSound DEF Sound
<1>12. /\ UNCHANGED <<stops, photos, routes, comments>> /\ trips'[t] \in TripRow
  <2>1. trips \in [Trip -> TripRow \union {Null, Gone}]
    BY <1>0 DEF TablesOK
  <2>2. man.trip.note \in Note
    BY <1>1, <1>4
  <2> QED BY <1>6, <2>1, <2>2 DEF CreateTrip, TripRow
<1>13. (\A s \in Stop : r.stop[s] = Null) /\ (\A p \in Photo : r.photo[p] = Null)
  BY <1>10 DEF NoRows
<1>14. Filling(r)'
  <2>1. trips'[t] # Null
    BY <1>12, RowsLive DEF Live
  <2>2. Known(man)'
    BY <1>0, <1>4, <1>11, KnownKept DEF Delivered, Written
  <2> QED BY <1>10, <1>13, <2>1, <2>2 DEF Filling, left, Rows, Member, Known
<1>15. Copying(r)'
  <2>1. ~Live(trips[t])
    BY <1>6, RowsLive
  <2>2. Of(stops, t) = {} /\ Of(photos, t) = {} /\ Of(routes, t) = {} /\ Of(comments, t) = {}
    BY <1>0, <2>1 DEF Of, Linked, TablesOK
  <2>3. /\ left \intersect Stop = Rows(man.stops) /\ left \intersect Photo = Rows(man.photos)
        /\ left \intersect Route = Rows(man.routes) /\ left \intersect Comment = Rows(man.comments)
    BY <1>7, IdsAssumption DEF left
  <2>4. /\ Cardinality(Of(stops, t)) + Cardinality(left \intersect Stop) = Cardinality(Rows(man.stops))
        /\ Cardinality(Of(photos, t)) + Cardinality(left \intersect Photo) = Cardinality(Rows(man.photos))
        /\ Cardinality(Of(routes, t)) + Cardinality(left \intersect Route) = Cardinality(Rows(man.routes))
    <3>1. /\ Cardinality(Rows(man.stops)) \in Nat /\ Cardinality(Rows(man.photos)) \in Nat
          /\ Cardinality(Rows(man.routes)) \in Nat
      BY <1>7, FS_Subset, FS_CardinalityType, FiniteAssumption
    <3>2. Cardinality({}) = 0
      BY FS_EmptySet
    <3>3. /\ Cardinality(Of(stops, t)) = 0 /\ Cardinality(Of(photos, t)) = 0 /\ Cardinality(Of(routes, t)) = 0
          /\ Cardinality(left \intersect Stop) = Cardinality(Rows(man.stops))
          /\ Cardinality(left \intersect Photo) = Cardinality(Rows(man.photos))
          /\ Cardinality(left \intersect Route) = Cardinality(Rows(man.routes))
      BY <2>2, <2>3, <3>2, Zenon
    <3> QED BY <3>1, <3>3
  <2>5. DoneStops(r) = {} /\ DonePhotos(r) = {}
    BY <1>10 DEF DoneStops, DonePhotos, left
  <2>6. StopsCopied(r)
    BY <1>10, <1>13, <2>2, <2>4, <2>5 DEF StopsCopied
  <2>7. PhotosCopied(r)
    BY <1>10, <1>13, <2>2, <2>4, <2>5 DEF PhotosCopied
  <2>8. RoutesCopied(r)
    BY <1>10, <2>4 DEF RoutesCopied
  <2>9. CommentsCopied(r)
    BY <2>5 DEF CommentsCopied
  <2>10. InOrder(r)
    BY <1>10, <2>2 DEF InOrder, left
  <2>11. Settled(r)'
    BY <1>10 DEF Settled
  <2>12. Live(trips'[t])
    BY <1>12, RowsLive
  <2> QED BY <1>10, <1>12, <2>6, <2>7, <2>8, <2>9, <2>10, <2>11, <2>12, SameTable DEF Copying
<1>16. Beside(j, r)
  <2> SUFFICES ASSUME NEW i \in Job, i # j, job[i].pc \in FillPc
               PROVE  SameTrip(job[i].trip) /\ r.trip # job[i].trip
    BY DEF Beside
  <2>1. PICK own : own = job[i].trip
    OBVIOUS
  <2>2. own \in Trip /\ trips[own] # Null
    BY <1>0, <2>1, JobTypes, ImportTypes DEF Filling
  <2>3. own # t
    BY <1>6, <2>2
  <2>4. SameTrip(own)
    BY <1>0, <1>1, <1>4, <1>6, <2>2, <2>3, StatementsApart
  <2> QED BY <1>10, <2>1, <2>3, <2>4
<1>17. r \in JobRow /\ Reading(r)'
  BY <1>10, ImportTypes DEF Reading
<1> QED BY <1>0, <1>6, <1>11, <1>14, <1>15, <1>16, <1>17, JobStep

LEMMA ImportStopStep ==
  ASSUME BackupInv, NEW j \in Job, ImportStop(j)
  PROVE  BackupInv'
<1>0. PICK o : o = job[j]
  OBVIOUS
<1>1. o.pc = "insert" /\ o.left \intersect Stop # {} /\ Unused(stops) # {} /\ UNCHANGED <<call, backups>>
  BY <1>0 DEF ImportStop, Insert, JobAt
<1>2. /\ o \in ImportRow /\ Filling(o) /\ Copying(o) /\ TablesOK /\ TablesInv /\ RecordsInv /\ RecordsOK
      /\ DOMAIN stops = Stop
  BY <1>0, <1>1, ImporterIs DEF FillPc
<1>3. PICK s : s = NextOf(j, Stop)
  OBVIOUS
<1>4. s \in Stop /\ s \in o.left /\ s \in Rows(o.man.stops)
  BY <1>0, <1>1, <1>2, <1>3, NextOfIs, LeftIs
<1>5. PICK x : x = New(stops)
  OBVIOUS
<1>6. x \in Stop
  BY <1>1, <1>2, <1>5, NewIsUnused
<1> DEFINE row == o.man.stops[s]
           after == [o EXCEPT !.stop[s] = x, !.last = s, !.pc = Then(row)]
<1>7. CASE UNCHANGED tables /\ JobBecome(j, Idle)
  BY <1>1, <1>7, ImportEnds
<1>8. CASE CreateStop(x, o.trip, row.note) /\ JobBecome(j, [after EXCEPT !.left = @ \ {s}])
  <2>1. PICK r : r = [after EXCEPT !.left = @ \ {s}]
    OBVIOUS
  <2>2. /\ r \in ImportRow /\ r.pc = Then(row) /\ r.trip = o.trip /\ r.man = o.man /\ r.left = o.left \ {s}
        /\ r.last = s /\ r.stop = [o.stop EXCEPT ![s] = x] /\ r.photo = o.photo /\ r.exact = o.exact
    <3>1. Then(row) \in {"insert", "view"}
      BY DEF Then
    <3> HIDE DEF row
    <3> QED BY <1>2, <1>4, <1>6, <2>1, <3>1 DEF ImportRow
  <2>3. o.trip \in Trip /\ row.note \in Note
    BY <1>2, <1>4, ImportTypes, ManifestTypes DEF StopRow
  <2>4. Written
    BY <1>2, <1>6, <1>8, <2>3, CreateStopSound DEF Sound
  <2>5. Filling(r)' /\ Copying(r)'
    BY <1>1, <1>2, <1>4, <1>6, <1>8, <2>2, <2>4, StopInserted
  <2>6. \A t \in Trip : t # r.trip => SameTrip(t)
    BY <1>2, <1>6, <1>8, <2>2, <2>3, StatementsApart
  <2>7. JobBecome(j, r) /\ job[j].pc \in FillPc /\ r.trip = job[j].trip
    BY <1>0, <1>1, <1>8, <2>1, <2>2 DEF FillPc
  <2> QED BY <1>1, <2>2, <2>4, <2>5, <2>6, <2>7, FillStep
<1> QED BY <1>0, <1>3, <1>5, <1>7, <1>8 DEF ImportStop, Insert

LEMMA ImportPhotoStep ==
  ASSUME BackupInv, NEW j \in Job, ImportPhoto(j)
  PROVE  BackupInv'
<1>0. PICK o : o = job[j]
  OBVIOUS
<1>1. /\ o.pc = "insert" /\ o.left \intersect Photo # {} /\ o.left \intersect Stop = {}
      /\ Unused(photos) # {} /\ UNCHANGED <<call, backups>>
  BY <1>0 DEF ImportPhoto, Insert, JobAt
<1>2. /\ o \in ImportRow /\ Filling(o) /\ Copying(o) /\ TablesOK /\ TablesInv /\ RecordsInv /\ RecordsOK
      /\ DOMAIN photos = Photo
  BY <1>0, <1>1, ImporterIs DEF FillPc
<1>3. PICK p : p = NextOf(j, Photo)
  OBVIOUS
<1>4. p \in Photo /\ p \in o.left /\ p \in Rows(o.man.photos)
  BY <1>0, <1>1, <1>2, <1>3, NextOfIs, LeftIs
<1>5. PICK x : x = New(photos)
  OBVIOUS
<1>6. x \in Photo
  BY <1>1, <1>2, <1>5, NewIsUnused
<1> DEFINE row == o.man.photos[p]
           stop == NewStopOf(o.stop, row.stop)
           after == [o EXCEPT !.photo[p] = x, !.last = p, !.pc = Then(row)]
<1>7. CASE UNCHANGED tables /\ JobBecome(j, Idle)
  BY <1>1, <1>7, ImportEnds
<1>8. CASE StopExists(stop) /\ CreatePhoto(x, o.trip, stop, row.note) /\ JobBecome(j, [after EXCEPT !.left = @ \ {p}])
  <2>1. PICK r : r = [after EXCEPT !.left = @ \ {p}]
    OBVIOUS
  <2>2. /\ r \in ImportRow /\ r.pc = Then(row) /\ r.trip = o.trip /\ r.man = o.man /\ r.left = o.left \ {p}
        /\ r.last = p /\ r.photo = [o.photo EXCEPT ![p] = x] /\ r.stop = o.stop /\ r.exact = o.exact
    <3>1. Then(row) \in {"insert", "view"}
      BY DEF Then
    <3> HIDE DEF row
    <3> QED BY <1>2, <1>4, <1>6, <2>1, <3>1 DEF ImportRow
  <2>3. o.trip \in Trip /\ row \in PhotoRow /\ row.note \in Note
    BY <1>2, <1>4, ImportTypes, ManifestTypes DEF PhotoRow
  <2>4. stop \in Of(stops, o.trip) \union {Null} /\ stop \in Stop \union {Null}
    <3>1. o.stop \in [Stop -> Stop \union {Null}] /\ row.stop \in Stop \union {Null}
      BY <1>2, <2>3, ImportTypes DEF PhotoRow
    <3>2. stop # Null => Member(stops, stop, o.trip) /\ stop \in Stop
      BY <1>2, <3>1, ImportTypes DEF Filling, NewStopOf
    <3> QED BY <1>2, <1>8, <3>2, OfStops DEF StopExists, Member
  <2>5. Written
    <3> HIDE DEF stop
    <3> QED BY <1>2, <1>6, <1>8, <2>3, <2>4, CreatePhotoSound DEF Sound
  <2>6. Filling(r)' /\ Copying(r)'
    BY <1>1, <1>2, <1>4, <1>6, <1>8, <2>2, <2>5, PhotoInserted
  <2>7. \A t \in Trip : t # r.trip => SameTrip(t)
    <3> HIDE DEF stop
    <3> QED BY <1>2, <1>6, <1>8, <2>2, <2>3, <2>4, StatementsApart
  <2>8. JobBecome(j, r) /\ job[j].pc \in FillPc /\ r.trip = job[j].trip
    BY <1>0, <1>1, <1>8, <2>1, <2>2 DEF FillPc
  <2> QED BY <1>1, <2>2, <2>5, <2>6, <2>7, <2>8, FillStep
<1> QED BY <1>0, <1>3, <1>5, <1>7, <1>8 DEF ImportPhoto, Insert

LEMMA ImportRouteStep ==
  ASSUME BackupInv, NEW j \in Job, ImportRoute(j)
  PROVE  BackupInv'
<1>0. PICK o : o = job[j]
  OBVIOUS
<1>1. /\ o.pc = "insert" /\ o.left \intersect Route # {} /\ o.left \intersect (Stop \union Photo) = {}
      /\ Unused(routes) # {} /\ UNCHANGED <<call, backups>>
  BY <1>0 DEF ImportRoute, Insert, JobAt
<1>2. /\ o \in ImportRow /\ Filling(o) /\ Copying(o) /\ TablesOK /\ TablesInv /\ RecordsInv /\ RecordsOK
      /\ DOMAIN routes = Route
  BY <1>0, <1>1, ImporterIs DEF FillPc
<1>3. PICK x : x = NextOf(j, Route)
  OBVIOUS
<1>4. x \in Route /\ x \in o.left
  BY <1>0, <1>1, <1>3, NextOfIs
<1>5. PICK y : y = New(routes)
  OBVIOUS
<1>6. y \in Route
  BY <1>1, <1>2, <1>5, NewIsUnused
<1>7. CASE UNCHANGED tables /\ JobBecome(j, Idle)
  BY <1>1, <1>7, ImportEnds
<1>8. CASE CreateRoute(y, o.trip) /\ JobBecome(j, [o EXCEPT !.left = @ \ {x}])
  <2>1. PICK r : r = [o EXCEPT !.left = @ \ {x}]
    OBVIOUS
  <2>2. r \in ImportRow /\ r.pc = "insert" /\ SameFill(o, r) /\ r.left = o.left \ {x} /\ r.exact = o.exact
    BY <1>1, <1>2, <2>1 DEF ImportRow, SameFill
  <2>3. o.trip \in Trip
    BY <1>2, ImportTypes
  <2>4. Written
    BY <1>2, <1>6, <1>8, <2>3, CreateRouteSound DEF Sound
  <2>5. Filling(r)' /\ Copying(r)'
    BY <1>1, <1>2, <1>4, <1>6, <1>8, <2>2, <2>4, RouteInserted
  <2>6. \A t \in Trip : t # o.trip => SameTrip(t)
    BY <1>2, <1>6, <1>8, <2>3, StatementsApart
  <2>7. JobBecome(j, r) /\ job[j].pc \in FillPc /\ r.trip = job[j].trip /\ r.trip = o.trip
    BY <1>0, <1>1, <1>8, <2>1, <2>2 DEF FillPc, SameFill
  <2> QED BY <1>1, <2>2, <2>4, <2>5, <2>6, <2>7, FillStep
<1> QED BY <1>0, <1>3, <1>5, <1>7, <1>8 DEF ImportRoute, Insert

LEMMA ImportCommentStep ==
  ASSUME BackupInv, NEW j \in Job, ImportComment(j)
  PROVE  BackupInv'
<1>0. PICK o : o = job[j]
  OBVIOUS
<1>1. /\ o.pc = "insert" /\ o.left \intersect Comment # {} /\ o.left \intersect (Stop \union Photo \union Route) = {}
      /\ Unused(comments) # {} /\ UNCHANGED <<call, backups>>
  BY <1>0 DEF ImportComment, Insert, JobAt
<1>2. /\ o \in ImportRow /\ Filling(o) /\ Copying(o) /\ TablesOK /\ TablesInv /\ RecordsInv /\ RecordsOK
      /\ DOMAIN comments = Comment
  BY <1>0, <1>1, ImporterIs DEF FillPc
<1>3. PICK x : x = NextOf(j, Comment)
  OBVIOUS
<1>4. x \in Comment /\ x \in o.left /\ x \in Rows(o.man.comments)
  BY <1>0, <1>1, <1>2, <1>3, NextOfIs, LeftIs
<1>5. PICK y : y = New(comments)
  OBVIOUS
<1>6. y \in Comment
  BY <1>1, <1>2, <1>5, NewIsUnused
<1> DEFINE p == NewPhotoOf(o.photo, o.man.comments[x].photo)
<1>7. CASE UNCHANGED tables /\ JobBecome(j, Idle)
  BY <1>1, <1>7, ImportEnds
<1>8. CASE CreateComment(y, o.trip, p) /\ JobBecome(j, [o EXCEPT !.left = @ \ {x}])
  <2>1. PICK r : r = [o EXCEPT !.left = @ \ {x}]
    OBVIOUS
  <2>2. r \in ImportRow /\ r.pc = "insert" /\ SameFill(o, r) /\ r.left = o.left \ {x} /\ r.exact = o.exact
    BY <1>1, <1>2, <2>1 DEF ImportRow, SameFill
  <2>3. o.trip \in Trip /\ o.man \in Manifest /\ o.photo \in [Photo -> Photo \union {Null}]
    BY <1>2, ImportTypes
  <2>4. p \in Photo
    <3>1. o.man.comments[x].photo \in Photo
      BY <1>4, <2>3, ManifestTypes DEF CommentRow
    <3> QED BY <2>3, <3>1 DEF NewPhotoOf
  <2>5. Filling(r)' /\ Copying(r)' /\ Written
    <3>1. Written
      <4> HIDE DEF p
      <4> QED BY <1>2, <1>6, <1>8, <2>3, <2>4, CreateCommentWritten
    <3> QED BY <1>1, <1>2, <1>4, <1>6, <1>8, <2>2, <3>1, CommentInserted
  <2>6. \A t \in Trip : t # o.trip => SameTrip(t)
    <3> HIDE DEF p
    <3> QED BY <1>2, <1>6, <1>8, <2>3, <2>4, StatementsApart
  <2>7. JobBecome(j, r) /\ job[j].pc \in FillPc /\ r.trip = job[j].trip /\ r.trip = o.trip
    BY <1>0, <1>1, <1>8, <2>1, <2>2 DEF FillPc, SameFill
  <2> QED BY <1>1, <2>2, <2>5, <2>6, <2>7, FillStep
<1> QED BY <1>0, <1>3, <1>5, <1>7, <1>8 DEF ImportComment, Insert

LEMMA ImportStopViewStep ==
  ASSUME BackupInv, NEW j \in Job, ImportStopView(j)
  PROVE  BackupInv'
<1>0. PICK o : o = job[j]
  OBVIOUS
<1>1. o.pc = "view" /\ o.last \in Stop /\ UNCHANGED <<call, backups>>
  BY <1>0 DEF ImportStopView, Follow, JobAt
<1>2. /\ o \in ImportRow /\ Filling(o) /\ Copying(o) /\ TablesOK /\ TablesInv /\ RecordsInv /\ RecordsOK
  BY <1>0, <1>1, ImporterIs DEF FillPc
<1>3. PICK s \in Stop : s = o.last
  BY <1>1
<1> DEFINE row == o.man.stops[s]
<1>4. CASE UNCHANGED tables /\ JobBecome(j, [job[j] EXCEPT !.pc = "insert", !.exact = FALSE])
  BY <1>0, <1>1, <1>4, ImportGoesOn DEF FillPc
<1>5. CASE UpdateStop(o.stop[s], row.note, row.view) /\ JobBecome(j, [o EXCEPT !.pc = "insert"])
  <2>1. PICK r : r = [o EXCEPT !.pc = "insert"]
    OBVIOUS
  <2>2. r \in ImportRow /\ r.pc = "insert" /\ SameFill(o, r) /\ r.left = o.left /\ r.exact = o.exact
    BY <1>2, <2>1 DEF ImportRow, SameFill
  <2>3. /\ o.trip \in Trip /\ o.man \in Manifest /\ o.stop \in [Stop -> Stop \union {Null}]
        /\ Rows(o.man.photos) \subseteq Photo
    BY <1>2, ImportTypes, ManifestTypes
  <2>4. s \in Rows(o.man.stops) /\ o.stop[s] \in Stop /\ Member(stops, o.stop[s], o.trip)
    BY <1>1, <1>2, <1>3, <2>3, IdsAssumption DEF Filling, FillPc
  <2>5. row.note \in Note /\ row.view \in View \union {Null}
    BY <2>3, <2>4, ManifestTypes DEF StopRow
  <2>6. Written
    BY <1>2, <1>5, <2>4, <2>5, UpdateStopSound DEF Sound
  <2>7. Filling(r)' /\ Copying(r)'
    BY <1>1, <1>2, <1>3, <1>5, <2>2, <2>6, StopViewWritten
  <2>8. \A t \in Trip : t # o.trip => SameTrip(t)
    BY <1>2, <1>5, <2>3, <2>4, <2>5, StatementsApart
  <2>9. JobBecome(j, r) /\ job[j].pc \in FillPc /\ r.trip = job[j].trip /\ r.trip = o.trip
    BY <1>0, <1>1, <1>5, <2>1, <2>2 DEF FillPc, SameFill
  <2> QED BY <1>1, <2>2, <2>6, <2>7, <2>8, <2>9, FillStep
<1> QED BY <1>0, <1>3, <1>4, <1>5 DEF ImportStopView, Follow

LEMMA ImportPhotoViewStep ==
  ASSUME BackupInv, NEW j \in Job, ImportPhotoView(j)
  PROVE  BackupInv'
<1>0. PICK o : o = job[j]
  OBVIOUS
<1>1. o.pc = "view" /\ o.last \in Photo /\ UNCHANGED <<call, backups>>
  BY <1>0 DEF ImportPhotoView, Follow, JobAt
<1>2. /\ o \in ImportRow /\ Filling(o) /\ Copying(o) /\ TablesOK /\ TablesInv /\ RecordsInv /\ RecordsOK
  BY <1>0, <1>1, ImporterIs DEF FillPc
<1>3. PICK p \in Photo : p = o.last
  BY <1>1
<1> DEFINE row == o.man.photos[p]
           stop == NewStopOf(o.stop, row.stop)
<1>4. CASE UNCHANGED tables /\ JobBecome(j, [job[j] EXCEPT !.pc = "insert", !.exact = FALSE])
  BY <1>0, <1>1, <1>4, ImportGoesOn DEF FillPc
<1>5. CASE /\ StopExists(stop) /\ UpdatePhoto(o.photo[p], stop, row.note, row.view)
           /\ JobBecome(j, [o EXCEPT !.pc = "insert"])
  <2>1. PICK r : r = [o EXCEPT !.pc = "insert"]
    OBVIOUS
  <2>2. r \in ImportRow /\ r.pc = "insert" /\ SameFill(o, r) /\ r.left = o.left /\ r.exact = o.exact
    BY <1>2, <2>1 DEF ImportRow, SameFill
  <2>3. /\ o.trip \in Trip /\ o.man \in Manifest /\ o.photo \in [Photo -> Photo \union {Null}]
        /\ o.stop \in [Stop -> Stop \union {Null}] /\ Rows(o.man.stops) \subseteq Stop
    BY <1>2, ImportTypes, ManifestTypes
  <2>4. p \in Rows(o.man.photos) /\ o.photo[p] \in Photo /\ Member(photos, o.photo[p], o.trip)
    BY <1>1, <1>2, <1>3, <2>3, IdsAssumption DEF Filling, FillPc
  <2>5. row \in PhotoRow
    BY <2>3, <2>4, ManifestTypes
  <2>6. /\ row.note \in Note /\ row.view \in View \union {Null} /\ stop \in Stop \union {Null}
        /\ stop # Null => Member(stops, stop, o.trip)
    BY <1>2, <2>3, <2>5, ImportTypes DEF PhotoRow, NewStopOf, Filling
  <2>7. Live(photos[o.photo[p]]) /\ stop # Null => Live(stops[stop]) /\ stops[stop].trip = photos[o.photo[p]].trip
    BY <1>5, <2>4, <2>6 DEF StopExists, Member
  <2>8. Written
    <3> HIDE DEF stop, row
    <3> QED BY <1>2, <1>5, <2>4, <2>6, <2>7, UpdatePhotoSound DEF Sound
  <2>9. Filling(r)' /\ Copying(r)'
    BY <1>1, <1>2, <1>3, <1>5, <2>2, <2>8, PhotoViewWritten
  <2>10. \A t \in Trip : t # o.trip => SameTrip(t)
    <3> HIDE DEF stop, row
    <3> QED BY <1>2, <1>5, <2>3, <2>4, <2>6, StatementsApart
  <2>11. JobBecome(j, r) /\ job[j].pc \in FillPc /\ r.trip = job[j].trip /\ r.trip = o.trip
    BY <1>0, <1>1, <1>5, <2>1, <2>2 DEF FillPc, SameFill
  <2> QED BY <1>1, <2>2, <2>8, <2>9, <2>10, <2>11, FillStep
<1> QED BY <1>0, <1>3, <1>4, <1>5 DEF ImportPhotoView, Follow

LEMMA ImportCoverStep ==
  ASSUME BackupInv, NEW j \in Job, ImportCover(j)
  PROVE  BackupInv'
<1>0. PICK o : o = job[j]
  OBVIOUS
<1>1. o.pc = "insert" /\ o.left = {} /\ UNCHANGED <<call, backups>>
  BY <1>0 DEF ImportCover, Follow, JobAt
<1>2. /\ o \in ImportRow /\ Filling(o) /\ Copying(o) /\ TablesOK /\ TablesInv /\ RecordsInv /\ RecordsOK
  BY <1>0, <1>1, ImporterIs DEF FillPc
<1> DEFINE row == o.man.trip
           cover == NewCoverOf(o.photo, row.cover)
<1>3. CASE UNCHANGED tables /\ JobBecome(j, [job[j] EXCEPT !.pc = "answer", !.exact = FALSE])
  BY <1>0, <1>1, <1>3, ImportGoesOn DEF FillPc
<1>4. CASE UpdateTrip(o.trip, row.note, cover, row.view) /\ JobBecome(j, [o EXCEPT !.pc = "answer"])
  <2>1. PICK r : r = [o EXCEPT !.pc = "answer"]
    OBVIOUS
  <2>2. r \in ImportRow /\ r.pc = "answer" /\ SameFill(o, r) /\ r.left = o.left /\ r.exact = o.exact
    BY <1>2, <2>1 DEF ImportRow, SameFill
  <2>3. /\ o.trip \in Trip /\ row \in TripRow /\ o.photo \in [Photo -> Photo \union {Null}]
    BY <1>2, ImportTypes, ManifestTypes
  <2>4. /\ row.note \in Note /\ row.view \in View \union {Null} /\ cover \in Photo \union {Null}
        /\ cover # Null => Member(photos, cover, o.trip)
    BY <1>2, <2>3, ImportTypes DEF TripRow, NewCoverOf, Filling
  <2>5. Written
    <3> HIDE DEF cover, row
    <3> QED BY <1>2, <1>4, <2>3, <2>4, UpdateTripSound DEF Sound
  <2>6. Filling(r)' /\ Copying(r)'
    BY <1>1, <1>2, <1>4, <2>2, <2>5, CoverWritten
  <2>7. \A t \in Trip : t # o.trip => SameTrip(t)
    <3> HIDE DEF cover, row
    <3> QED BY <1>2, <1>4, <2>3, <2>4, StatementsApart
  <2>8. JobBecome(j, r) /\ job[j].pc \in FillPc /\ r.trip = job[j].trip /\ r.trip = o.trip
    BY <1>0, <1>1, <1>4, <2>1, <2>2 DEF FillPc, SameFill
  <2> QED BY <1>1, <2>2, <2>5, <2>6, <2>7, <2>8, FillStep
<1> QED BY <1>0, <1>3, <1>4 DEF ImportCover, Follow

------------------------------------------------------------------------------
(* The invariant.                                                            *)

LEMMA EditStep ==
  ASSUME BackupInv, Edit \/ UNCHANGED vars
  PROVE  BackupInv'
<1>0. /\ RecordsInv /\ RecordsOK /\ TablesOK /\ job \in [Job -> JobRow] /\ backups \subseteq Manifest /\ TripsApart
      /\ \A m \in backups : Delivered(m)
      /\ \A i \in Job : Reading(job[i]) /\ Filling(job[i]) /\ Copying(job[i])
  BY DEF BackupInv, JobsInv, RecordsInv, RecordsOK, JobRow
<1>1. RecordsInv' /\ Written /\ UNCHANGED backups
  <2>1. [RecordsNext]_recordVars /\ UNCHANGED backups
    BY DEF Edit, RecordsNext, vars, recordVars
  <2> QED BY <1>0, <2>1, RecordsStep DEF Sound
<1>2. RowsKept /\ TripsKept /\ TablesOK'
  BY <1>1 DEF Written
<1>3. ASSUME NEW i \in Job
      PROVE  \/ job'[i] = job[i] /\ (job[i].pc \in FillPc => SameTrip(job[i].trip))
             \/ job[i].pc \in FillPc /\ job'[i] = [job[i] EXCEPT !.exact = FALSE]
  <2>1. CASE Edit
    BY <2>1 DEF Edit, FillPc
  <2>2. CASE UNCHANGED vars
    <3>1. UNCHANGED tables /\ job' = job
      BY <2>2 DEF vars, tables
    <3> QED BY <1>0, <3>1, NothingWritten
  <2> QED BY <2>1, <2>2
<1>4. ASSUME NEW i \in Job
      PROVE  /\ job'[i] \in JobRow /\ job'[i].pc = job[i].pc /\ (job[i].pc \in FillPc => job'[i].trip = job[i].trip)
             /\ Reading(job[i])' /\ Filling(job[i])' /\ Copying(job[i])'
  <2>1. PICK x \in JobRow : x = job[i] /\ Reading(x) /\ Filling(x) /\ Copying(x)
    BY <1>0
  <2>2. CASE job'[i] = x /\ (x.pc \in FillPc => SameTrip(x.trip))
    <3>1. Reading(x)' /\ Filling(x)' /\ Copying(x)'
      BY <1>0, <1>2, <2>1, <2>2, ReadingKept, FillingKept, CopyingKept
    <3> QED BY <2>1, <2>2, <3>1, JobIs
  <2>3. CASE x.pc \in FillPc /\ job'[i] = [x EXCEPT !.exact = FALSE]
    <3>1. x \in ImportRow
      BY <2>3, JobTypes
    <3>2. PICK r : r = [x EXCEPT !.exact = FALSE]
      OBVIOUS
    <3>3. /\ r \in ImportRow /\ r.pc = x.pc /\ r.trip = x.trip /\ r.man = x.man /\ r.left = x.left /\ r.last = x.last
          /\ r.stop = x.stop /\ r.photo = x.photo /\ r.exact = FALSE
      BY <3>1, <3>2 DEF ImportRow
    <3>4. r \in JobRow /\ r.pc \notin ReadPc
      BY <3>3, ImportTypes
    <3>5. Reading(r)' /\ Copying(r)'
      BY <3>3, <3>4 DEF Reading, Copying, ReadPc
    <3>6. Filling(r)'
      <4>1. Filling(x)'
        BY <1>0, <1>2, <2>1, FillingKept
      <4> QED BY <3>3, <4>1 DEF Filling, Known, Member, Rows
    <3>7. job'[i] = r
      BY <2>3, <3>2
    <3> QED BY <2>1, <3>3, <3>4, <3>5, <3>6, <3>7, JobIs
  <2> QED BY <1>3, <2>1, <2>2, <2>3
<1>5. job' \in [Job -> JobRow]
  <2>1. job' = [i \in Job |-> job'[i]]
    BY <1>0 DEF Edit, vars
  <2> QED BY <1>4, <2>1
<1>6. TripsApart'
  BY <1>0, <1>4 DEF TripsApart
<1>7. \A m \in backups' : Delivered(m)'
  <2>1. ASSUME NEW m \in backups PROVE Delivered(m)'
    BY <1>0, <1>2, <2>1, DeliveredKept
  <2> QED BY <1>1, <2>1
<1> QED BY <1>0, <1>1, <1>4, <1>5, <1>6, <1>7 DEF BackupInv, JobsInv, JobRow

LEMMA CrashStep ==
  ASSUME BackupInv, Crash
  PROVE  BackupInv'
<1>0. RecordsInv /\ RecordsOK /\ backups \subseteq Manifest /\ \A m \in backups : Delivered(m)
  BY DEF BackupInv, JobsInv, RecordsInv
<1>1. RecordsInv' /\ RowsKept
  BY <1>0, RecordsStep DEF Crash, RecordsNext, Sound, Written
<1>2. job' = [i \in Job |-> Idle] /\ UNCHANGED backups
  BY DEF Crash
<1>3. job' \in [Job -> {Idle} \union ExportRow \union ImportRow] /\ \A i \in Job : job'[i].pc = "idle"
  <2>1. Idle.pc = "idle"
    BY DEF Idle
  <2> HIDE DEF Idle
  <2> QED BY <1>2, <2>1
<1>4. \A i \in Job : Reading(job[i])' /\ Filling(job[i])' /\ Copying(job[i])'
  BY <1>3 DEF Reading, Filling, Copying, FillPc
<1>5. TripsApart'
  BY <1>3 DEF TripsApart, FillPc
<1>6. \A m \in backups' : Delivered(m)'
  <2>1. ASSUME NEW m \in backups PROVE Delivered(m)'
    BY <1>0, <1>1, <2>1, DeliveredKept
  <2> QED BY <1>2, <2>1
<1> QED BY <1>0, <1>1, <1>2, <1>3, <1>4, <1>5, <1>6 DEF BackupInv, JobsInv

LEMMA BackupInitial == Init => BackupInv
<1> SUFFICES ASSUME Init PROVE BackupInv
  OBVIOUS
<1>1. RecordsInv
  BY RecordsInitially DEF Init
<1>2. job = [j \in Job |-> Idle] /\ backups = {}
  BY DEF Init
<1>3. job \in [Job -> {Idle} \union ExportRow \union ImportRow] /\ \A i \in Job : job[i].pc = "idle"
  <2>1. Idle.pc = "idle"
    BY DEF Idle
  <2> HIDE DEF Idle
  <2> QED BY <1>2, <2>1
<1> QED BY <1>1, <1>2, <1>3 DEF BackupInv, JobsInv, Reading, Filling, Copying, FillPc, TripsApart

LEMMA BackupStep == BackupInv /\ [Next]_vars => BackupInv'
<1> SUFFICES ASSUME BackupInv, [Next]_vars PROVE BackupInv'
  OBVIOUS
<1>1. CASE Edit \/ UNCHANGED vars
  BY <1>1, EditStep
<1>2. CASE Crash
  BY <1>2, CrashStep
<1>3. ASSUME NEW j \in Job, Export(j) PROVE BackupInv'
  BY <1>3, ExportBeginStep, ExportStopsStep, ExportPhotosStep, ExportRoutesStep, ExportCommentsStep DEF Export
<1>4. ASSUME NEW j \in Job, Import(j) PROVE BackupInv'
  <2>1. CASE ImportAnswer(j)
    BY <2>1, ImportEnds DEF ImportAnswer
  <2> QED BY <1>4, <2>1, ImportBeginStep, ImportStopStep, ImportStopViewStep, ImportPhotoStep, ImportPhotoViewStep,
             ImportRouteStep, ImportCommentStep, ImportCoverStep DEF Import
<1> QED BY <1>1, <1>2, <1>3, <1>4 DEF Next

LEMMA BackupInvariant == Spec => []BackupInv
BY BackupInitial, BackupStep, PTL DEF Spec

------------------------------------------------------------------------------
(* What it gives.                                                            *)

\* The tables, the requests, the jobs and the manifests stay what they are.
THEOREM BackupTypes == Spec => []TypeOK
<1>1. BackupInv => TypeOK
  BY DEF BackupInv, JobsInv, RecordsInv, TypeOK
<1> QED BY <1>1, BackupInvariant, PTL

\* The statements of an import keep what the tables owe each other: no photo is
\* at a stop of another trip, though stops and photos change their ids on the way
\* and the INSERTs are no transaction (backup.go:302-346, 361-395).
THEOREM ImportsKeepStops == Spec => []StopsOfOwnTrip
<1>1. BackupInv => StopsOfOwnTrip
  BY DEF BackupInv, RecordsInv, TablesInv
<1> QED BY <1>1, BackupInvariant, PTL

\* No row outlives its trip, also when the trip is deleted while an import fills
\* it (backup.go:302-475).
THEOREM ImportsLeaveNothing == Spec => []NothingOutlivesItsTrip
<1>1. BackupInv => NothingOutlivesItsTrip
  BY DEF BackupInv, RecordsInv, TablesInv
<1> QED BY <1>1, BackupInvariant, PTL

\* A cover is a photo of the trip or gone: the import translates it, and one that
\* the manifest lacks becomes NULL (backup.go:477-498).
THEOREM CoversStayOfTheTrip == Spec => []CoversOfOwnTrip
<1>1. BackupInv => CoversOfOwnTrip
  BY DEF BackupInv, RecordsInv, TablesInv
<1> QED BY <1>1, BackupInvariant, PTL

\* What a manifest, or a page, refers to and lacks was created after the reading
\* began, or is a photo of another trip (backup.go:86-109, server.go:919-934).
THEOREM ManifestsAreClosed == Spec => []ReferencesAreKnown
<1>1. BackupInv => ReferencesAreKnown
  BY DEF BackupInv, JobsInv, Delivered, StopsKnown, PhotosKnown, ReferencesAreKnown
<1> QED BY <1>1, BackupInvariant, PTL

LEMMA CopyIsDone ==
  ASSUME TablesOK, NEW j \in Job, job[j] \in ImportRow, Copying(job[j]), JobAt(j, "answer"), job[j].exact
  PROVE  CopyIsWhole(j)
<1> DEFINE o == job[j]
<1>0. o \in ImportRow /\ Copying(o) /\ o.pc = "answer" /\ o.exact
  BY DEF JobAt
<1> HIDE DEF o
<1> DEFINE m == o.man
           t == o.trip
<1>1. /\ Live(trips[t]) /\ StopsCopied(o) /\ PhotosCopied(o) /\ RoutesCopied(o) /\ CommentsCopied(o) /\ Settled(o)
      /\ o.pc = "answer" /\ o.left = {}
  <2>1. o.pc \in FillPc
    BY <1>0, ImportTypes
  <2>2. Live(trips[t]) /\ StopsCopied(o) /\ PhotosCopied(o) /\ RoutesCopied(o) /\ CommentsCopied(o) /\ Settled(o)
    BY <2>1, <1>0 DEF Copying
  <2> QED BY <1>0, <2>2 DEF Settled
<1>2. /\ m \in Manifest /\ t \in Trip /\ DoneStops(o) = Rows(m.stops) /\ DonePhotos(o) = Rows(m.photos)
      /\ Rows(m.stops) \subseteq Stop /\ Rows(m.photos) \subseteq Photo
      /\ \A z, v : ViewOf(o, z, v) = v
  BY <1>0, <1>1, ImportTypes, ManifestTypes DEF DoneStops, DonePhotos, ViewOf
<1>3. \A n \in Nat : n + Cardinality({}) = n
  BY FS_EmptySet
<1>4. /\ Of(stops, t) \in SUBSET Stop /\ Of(photos, t) \in SUBSET Photo /\ Of(routes, t) \in SUBSET Route
      /\ \A p : CommentsOn(t, p) \in SUBSET Comment
  BY DEF TablesOK, Of, CommentsOn
<1>5. /\ Cardinality(Of(stops, t)) \in Nat /\ Cardinality(Of(photos, t)) \in Nat /\ Cardinality(Of(routes, t)) \in Nat
      /\ \A p : Cardinality(CommentsOn(t, p)) \in Nat
  BY <1>4, FS_Subset, FS_CardinalityType, FiniteAssumption
<1>6. /\ o.left \intersect Stop = {} /\ o.left \intersect Photo = {} /\ o.left \intersect Route = {}
      /\ \A p : ListedOn(m, o.left, p) = {}
  BY <1>1 DEF ListedOn
<1>7. Of(stops, t) = {o.stop[s] : s \in Rows(m.stops)} /\ Cardinality(Of(stops, t)) = Cardinality(Rows(m.stops))
  BY <1>1, <1>2, <1>3, <1>5, <1>6 DEF StopsCopied
<1>8. Of(photos, t) = {o.photo[p] : p \in Rows(m.photos)} /\ Cardinality(Of(photos, t)) = Cardinality(Rows(m.photos))
  BY <1>1, <1>2, <1>3, <1>5, <1>6 DEF PhotosCopied
<1>9. Cardinality(Of(routes, t)) = Cardinality(Rows(m.routes))
  BY <1>1, <1>3, <1>5, <1>6 DEF RoutesCopied
<1>10. ASSUME NEW s \in Rows(m.stops) PROVE stops[o.stop[s]] = [m.stops[s] EXCEPT !.trip = t]
  <2>1. o.stop[s] \in Of(stops, t) /\ m.stops[s] \in StopRow
    BY <1>2, <1>7, ManifestTypes
  <2>2. stops[o.stop[s]] \in StopRow /\ stops[o.stop[s]].trip = t
    BY <2>1, RowTypes, OfStops
  <2>3. stops[o.stop[s]].note = m.stops[s].note /\ stops[o.stop[s]].view = m.stops[s].view
    BY <1>1, <1>2 DEF StopsCopied
  <2> QED BY <2>1, <2>2, <2>3 DEF StopRow
<1>11. ASSUME NEW p \in Rows(m.photos)
       PROVE  photos[o.photo[p]] =
                [m.photos[p] EXCEPT !.trip = t, !.stop = IF m.photos[p].stop # Null THEN o.stop[m.photos[p].stop] ELSE Null]
  <2> DEFINE stop == IF m.photos[p].stop # Null THEN o.stop[m.photos[p].stop] ELSE Null
  <2>1. o.photo[p] \in Of(photos, t) /\ m.photos[p] \in PhotoRow
    BY <1>2, <1>8, ManifestTypes
  <2>2. photos[o.photo[p]] \in PhotoRow /\ photos[o.photo[p]].trip = t
    BY <2>1, RowTypes, OfPhotos
  <2>3. /\ photos[o.photo[p]].note = m.photos[p].note /\ photos[o.photo[p]].view = m.photos[p].view
        /\ photos[o.photo[p]].stop = stop
    BY <1>1, <1>2 DEF PhotosCopied, NewStopOf
  <2> HIDE DEF stop
  <2>4. photos[o.photo[p]] = [m.photos[p] EXCEPT !.trip = t, !.stop = stop]
    BY <2>1, <2>2, <2>3 DEF PhotoRow
  <2> QED BY <2>4 DEF stop
<1>12. ASSUME NEW p \in Rows(m.photos)
       PROVE  Cardinality({k \in Of(comments, t) : comments[k].photo = o.photo[p]})
                = Cardinality({k \in Rows(m.comments) : m.comments[k].photo = p})
  <2>1. Cardinality(CommentsOn(t, o.photo[p])) = Cardinality(ListedOn(m, Rows(m.comments), p))
    BY <1>1, <1>2, <1>3, <1>5, <1>6 DEF CommentsCopied
  <2>2. Rows(m.comments) \intersect Comment = Rows(m.comments)
    BY <1>2, ManifestTypes
  <2> QED BY <2>1, <2>2 DEF CommentsOn, ListedOn
<1>13. /\ trips[t].view = m.trip.view /\ trips[t].note = m.trip.note
       /\ trips[t].cover = IF m.trip.cover # Null THEN o.photo[m.trip.cover] ELSE Null
  BY <1>1 DEF Settled, NewCoverOf
<1>14. \A p \in Rows(m.photos) :
          photos[o.photo[p]] =
            [m.photos[p] EXCEPT !.trip = t, !.stop = IF @ # Null THEN o.stop[@] ELSE Null]
  <2> SUFFICES ASSUME NEW p \in Rows(m.photos)
               PROVE  photos[o.photo[p]] =
                        [m.photos[p] EXCEPT !.trip = t, !.stop = IF @ # Null THEN o.stop[@] ELSE Null]
    OBVIOUS
  <2>1. m.photos[p] \in PhotoRow
    BY <1>2, ManifestTypes
  <2> QED BY <2>1, <1>11 DEF PhotoRow
<1> HIDE DEF m, t
<1>15. /\ Of(stops, t) = {o.stop[s] : s \in Rows(m.stops)}
       /\ Cardinality(Of(stops, t)) = Cardinality(Rows(m.stops))
       /\ \A s \in Rows(m.stops) : stops[o.stop[s]] = [m.stops[s] EXCEPT !.trip = t]
       /\ Of(photos, t) = {o.photo[p] : p \in Rows(m.photos)}
       /\ Cardinality(Of(photos, t)) = Cardinality(Rows(m.photos))
       /\ \A p \in Rows(m.photos) :
            photos[o.photo[p]] =
              [m.photos[p] EXCEPT !.trip = t, !.stop = IF @ # Null THEN o.stop[@] ELSE Null]
       /\ Cardinality(Of(routes, t)) = Cardinality(Rows(m.routes))
       /\ \A p \in Rows(m.photos) :
            Cardinality({k \in Of(comments, t) : comments[k].photo = o.photo[p]})
              = Cardinality({k \in Rows(m.comments) : m.comments[k].photo = p})
       /\ trips[t].view = m.trip.view /\ trips[t].note = m.trip.note
       /\ trips[t].cover = IF m.trip.cover # Null THEN o.photo[m.trip.cover] ELSE Null
  BY <1>7, <1>8, <1>9, <1>10, <1>12, <1>13, <1>14, Zenon
<1> QED BY <1>15, Zenon DEF CopyIsWhole, m, t, o

\* An import that answers 201, with no error passed over and nobody editing the
\* new trip meanwhile, has made the trip of the manifest: the same stops, photos,
\* routes, comments and cover, each at its place, whatever other exports, imports
\* and requests did beside it (backup.go:254-513).
THEOREM AnsweredImportsAreWhole == Spec => []AnsweredImportIsWhole
<1>1. ASSUME BackupInv PROVE AnsweredImportIsWhole
  <2> SUFFICES ASSUME NEW j \in Job, JobAt(j, "answer"), job[j].exact PROVE CopyIsWhole(j)
    BY DEF AnsweredImportIsWhole
  <2>1. job[j] \in ImportRow /\ Copying(job[j]) /\ TablesOK
    BY <1>1, ImporterIs DEF JobAt, FillPc
  <2> QED BY <2>1, CopyIsDone
<1>2. BackupInv => AnsweredImportIsWhole
  BY <1>1
<1> QED BY <1>2, BackupInvariant, PTL

================================================================================
