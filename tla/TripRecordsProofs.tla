--------------------------- MODULE TripRecordsProofs ---------------------------
(***************************************************************************)
(* Theorems about RecordsSpec, for any number of trips, rows, names and      *)
(* requests, and under every fault.  One lemma per statement says that it    *)
(* keeps what the tables owe each other (TablesInv), given what the handlers *)
(* owe the statement; Pending is what a request under way has checked and    *)
(* its late statement still relies on.                                       *)
(***************************************************************************)
EXTENDS TripRecords, TLAPS

------------------------------------------------------------------------------
(* Rows.                                                                     *)

LEMMA RowsLive ==
    /\ \A row \in TripRow \union StopRow \union PhotoRow \union RouteRow \union CommentRow : Live(row)
    /\ ~Live(Null) /\ ~Live(Gone) /\ Null # Gone
BY NullAssumption DEF Live

LEMMA RowTypes ==
  ASSUME TablesOK
  PROVE  /\ \A t \in Trip : Live(trips[t]) => trips[t] \in TripRow
         /\ \A s \in Stop : Live(stops[s]) => stops[s] \in StopRow
         /\ \A p \in Photo : Live(photos[p]) => photos[p] \in PhotoRow
         /\ \A r \in Route : Live(routes[r]) => routes[r] \in RouteRow
         /\ \A k \in Comment : Live(comments[k]) => comments[k] \in CommentRow
BY DEF TablesOK, Live

LEMMA OfStops == TablesOK => \A s, t : s \in Of(stops, t) <=> s \in Stop /\ Live(stops[s]) /\ stops[s].trip = t
BY DEF TablesOK, Of

LEMMA OfPhotos == TablesOK => \A p, t : p \in Of(photos, t) <=> p \in Photo /\ Live(photos[p]) /\ photos[p].trip = t
BY DEF TablesOK, Of

LEMMA NewIsUnused ==
  ASSUME NEW table, Unused(table) # {}
  PROVE  New(table) \in DOMAIN table /\ table[New(table)] = Null
<1>1. New(table) \in Unused(table)
  BY DEF New
<1> QED BY <1>1 DEF Unused

------------------------------------------------------------------------------
(* What statements keep.                                                     *)

\* x has been a row of trip t in the table.
Member(table, x, t) == table[x] # Null /\ (Live(table[x]) => table[x].trip = t)

\* Rows keep their trip, and what is gone stays gone.
Kept(old, new) ==
    \A x \in DOMAIN old : old[x] # Null =>
        new[x] # Null /\ (Live(new[x]) => Live(old[x]) /\ new[x].trip = old[x].trip)

OwnersKept ==
    \A t \in Trip : Live(trips[t]) /\ trips[t].owner # Null /\ Live(trips'[t]) =>
        trips'[t].owner = trips[t].owner

\* Owners stay, and no id is handed out again.
TripsKept == OwnersKept /\ \A t \in Trip : trips[t] # Null => trips'[t] # Null

\* CommentsOfOwnTrip is left out: the requests of TripRecords keep it, but an
\* import of a trip does not (TripBackup), and the rest does not rely on it.
TablesInv ==
    /\ NothingOutlivesItsTrip
    /\ StopsOfOwnTrip
    /\ CoversOfOwnTrip
    /\ NamesAreDistinct

RowsKept ==
    Kept(stops, stops') /\ Kept(photos, photos') /\ Kept(routes, routes') /\ Kept(comments, comments')

Written == TablesOK' /\ TablesInv' /\ RowsKept /\ TripsKept

Sound == Written /\ (CommentsOfOwnTrip => CommentsOfOwnTrip')

LEMMA KeptSame ==
  ASSUME NEW old
  PROVE  Kept(old, old)
BY DEF Kept

\* The same facts row by row, as the lemmas on statements use them.
Linked ==
    /\ \A s \in Stop : Live(stops[s]) => stops[s].trip \in Trip /\ Live(trips[stops[s].trip])
    /\ \A p \in Photo : Live(photos[p]) =>
         /\ photos[p].trip \in Trip /\ Live(trips[photos[p].trip])
         /\ photos[p].stop # Null =>
              /\ photos[p].stop \in Stop /\ Live(stops[photos[p].stop])
              /\ stops[photos[p].stop].trip = photos[p].trip
    /\ \A r \in Route : Live(routes[r]) => routes[r].trip \in Trip /\ Live(trips[routes[r].trip])
    /\ \A k \in Comment : Live(comments[k]) =>
         /\ comments[k].trip \in Trip /\ Live(trips[comments[k].trip])
         /\ comments[k].photo \in Photo /\ Live(photos[comments[k].photo])

Matched == \A k \in Comment : Live(comments[k]) => photos[comments[k].photo].trip = comments[k].trip

Covered ==
    \A t \in Trip : Live(trips[t]) /\ trips[t].cover # Null =>
        trips[t].cover \in Photo /\ Member(photos, trips[t].cover, t)

LEMMA TablesInvIs == TablesOK => (TablesInv <=> Linked /\ Covered /\ NamesAreDistinct)
<1> SUFFICES ASSUME TablesOK PROVE TablesInv <=> Linked /\ Covered /\ NamesAreDistinct
  OBVIOUS
<1>1. TablesInv => Linked
  BY RowTypes, OfStops, OfPhotos
     DEF TablesInv, NothingOutlivesItsTrip, StopsOfOwnTrip, Linked, StopRow, PhotoRow, RouteRow, CommentRow
<1>2. TablesInv => Covered
  BY RowTypes, RowsLive, OfPhotos DEF TablesInv, CoversOfOwnTrip, Covered, Member, TripRow, Live
<1>3. Linked => NothingOutlivesItsTrip /\ StopsOfOwnTrip
  BY OfStops, OfPhotos DEF NothingOutlivesItsTrip, StopsOfOwnTrip, Linked
<1>4. Covered => CoversOfOwnTrip
  BY OfPhotos DEF CoversOfOwnTrip, Covered, Member, Live
<1> QED BY <1>1, <1>2, <1>3, <1>4 DEF TablesInv

LEMMA MatchedIs == TablesOK /\ TablesInv => (CommentsOfOwnTrip <=> Matched)
<1> SUFFICES ASSUME TablesOK, TablesInv PROVE CommentsOfOwnTrip <=> Matched
  OBVIOUS
<1>1. \A k \in Comment : Live(comments[k]) => comments[k].photo \in Photo /\ Live(photos[comments[k].photo])
  BY TablesInvIs DEF Linked
<1> QED BY <1>1, OfPhotos DEF CommentsOfOwnTrip, Matched

LEMMA TablesInvThen == TablesOK' => (TablesInv' <=> Linked' /\ Covered' /\ NamesAreDistinct')
BY TablesInvIs, PTL

LEMMA MatchedThen == TablesOK' /\ TablesInv' => (CommentsOfOwnTrip' <=> Matched')
BY MatchedIs, PTL

LEMMA WrittenWhen ==
  ASSUME TablesOK', Linked', Covered', NamesAreDistinct', RowsKept, TripsKept
  PROVE  Written
BY TablesInvThen DEF Written

LEMMA SoundWhen ==
  ASSUME TablesOK, TablesInv, TablesOK', Linked', Covered', NamesAreDistinct',
         RowsKept, TripsKept, Matched => Matched'
  PROVE  Sound
BY WrittenWhen, MatchedIs, MatchedThen DEF Sound, Written

------------------------------------------------------------------------------
(* Statements on trips.                                                      *)

LEMMA TripsChange ==
  ASSUME TablesOK, TablesInv, UNCHANGED <<stops, photos, routes, comments>>,
         trips' \in [Trip -> TripRow \union {Null, Gone}],
         \A t \in Trip : Live(trips[t]) => Live(trips'[t]),
         Covered', NamesAreDistinct', TripsKept
  PROVE  Sound
<1>1. TablesOK'
  BY DEF TablesOK
<1>2. Linked'
  BY TablesInvIs DEF Linked
<1>3. RowsKept
  BY KeptSame DEF RowsKept
<1>4. Matched => Matched'
  BY DEF Matched
<1> QED BY <1>1, <1>2, <1>3, <1>4, SoundWhen

LEMMA CreateTripSound ==
  ASSUME TablesOK, TablesInv, NEW t \in Trip, NEW u \in User, NEW n \in Note, CreateTrip(t, u, n)
  PROVE  Sound
<1> DEFINE row == [owner |-> u, note |-> n, cover |-> Null, view |-> Null, slug |-> Null]
<1>1. row \in TripRow
  BY DEF TripRow
<1>2. /\ trips[t] = Null /\ trips' = [trips EXCEPT ![t] = row]
      /\ UNCHANGED <<stops, photos, routes, comments>>
  BY DEF CreateTrip
<1>3. row.cover = Null /\ row.slug = Null
  OBVIOUS
<1> HIDE DEF row
<1>4. trips \in [Trip -> TripRow \union {Null, Gone}]
  BY DEF TablesOK
<1>5. trips' \in [Trip -> TripRow \union {Null, Gone}] /\ trips'[t] = row
      /\ \A x \in Trip : x # t => trips'[x] = trips[x]
  BY <1>1, <1>2, <1>4
<1>6. \A x \in Trip : Live(trips[x]) => x # t /\ trips'[x] = trips[x]
  BY <1>2, <1>5, RowsLive
<1>7. Covered'
  BY <1>2, <1>3, <1>5, TablesInvIs DEF Covered, Member
<1>8. NamesAreDistinct'
  BY <1>3, <1>5 DEF TablesInv, NamesAreDistinct
<1>9. TripsKept
  BY <1>1, <1>5, <1>6, RowsLive DEF TripsKept, OwnersKept
<1> QED BY <1>2, <1>5, <1>6, <1>7, <1>8, <1>9, TripsChange

\* An UPDATE that keeps the owner and gives a cover and a name that fit.
LEMMA SetTripSound ==
  ASSUME TablesOK, TablesInv, NEW t \in Trip, NEW row, SetTrip(t, row),
         Live(trips[t]) =>
           /\ row \in TripRow /\ row.owner = trips[t].owner
           /\ row.cover = Null \/ Member(photos, row.cover, t)
           /\ row.slug = Null \/ SlugFits(t, row.slug)
  PROVE  Sound
<1>0. trips \in [Trip -> TripRow \union {Null, Gone}]
  BY DEF TablesOK
<1>1. CASE ~Live(trips[t])
  <2>1. UNCHANGED tables
    BY <1>1 DEF SetTrip, tables
  <2>2. Covered' /\ NamesAreDistinct' /\ TripsKept
    BY <2>1, TablesInvIs DEF tables, Covered, Member, NamesAreDistinct, TripsKept, OwnersKept
  <2> QED BY <2>1, <2>2, <1>0, TripsChange DEF tables
<1>2. CASE Live(trips[t])
  <2>1. /\ trips' = [trips EXCEPT ![t] = row] /\ row \in TripRow
        /\ UNCHANGED <<stops, photos, routes, comments>>
    BY <1>2 DEF SetTrip
  <2>2. trips' \in [Trip -> TripRow \union {Null, Gone}] /\ trips'[t] = row
        /\ \A x \in Trip : x # t => trips'[x] = trips[x]
    BY <1>0, <2>1
  <2>3. \A x \in Trip : Live(trips[x]) <=> Live(trips'[x])
    BY <1>2, <2>1, <2>2, RowsLive
  <2>4. Covered'
    <3> SUFFICES ASSUME NEW x \in Trip, Live(trips'[x]), trips'[x].cover # Null
                 PROVE  trips'[x].cover \in Photo /\ Member(photos, trips'[x].cover, x)
      BY <2>1 DEF Covered, Member
    <3>1. CASE x = t
      BY <1>2, <2>1, <2>2, <3>1 DEF TripRow
    <3>2. CASE x # t
      BY <2>2, <3>2, TablesInvIs DEF Covered
    <3> QED BY <3>1, <3>2
  <2>5. NamesAreDistinct'
    <3>1. row.slug = Null \/ \A x \in Trip : Live(trips[x]) /\ x # t => trips[x].slug # row.slug
      BY <1>2 DEF SlugFits, GetTripByPresentSlug
    <3> QED BY <2>2, <2>3, <3>1 DEF TablesInv, NamesAreDistinct
  <2>6. TripsKept
    BY <1>2, <2>1, <2>2, RowsLive DEF TripsKept, OwnersKept
  <2> QED BY <2>1, <2>2, <2>3, <2>4, <2>5, <2>6, TripsChange
<1> QED BY <1>1, <1>2

LEMMA NameFits ==
  ASSUME TablesOK, TablesInv, NEW t \in Trip, Live(trips[t]), trips[t].slug # Null
  PROVE  SlugFits(t, trips[t].slug)
BY DEF SlugFits, GetTripByPresentSlug, TablesInv, NamesAreDistinct

LEMMA UpdateTripSound ==
  ASSUME TablesOK, TablesInv, NEW t \in Trip, NEW n \in Note, NEW p \in Photo \union {Null},
         NEW v \in View \union {Null}, p = Null \/ Member(photos, p, t), UpdateTrip(t, n, p, v)
  PROVE  Sound
<1> DEFINE row == [trips[t] EXCEPT !.note = n, !.cover = p, !.view = v]
<1>1. ASSUME Live(trips[t])
      PROVE  row \in TripRow /\ row.owner = trips[t].owner /\ row.cover = p /\ row.slug = trips[t].slug
  <2>1. trips[t] \in TripRow
    BY <1>1, RowTypes
  <2> QED BY <2>1 DEF TripRow
<1>2. SetTrip(t, row)
  BY DEF UpdateTrip
<1> HIDE DEF row
<1> QED BY <1>1, <1>2, NameFits, SetTripSound

LEMMA ResetTripDefaultsSound ==
  ASSUME TablesOK, TablesInv, NEW t \in Trip, ResetTripDefaults(t)
  PROVE  Sound
<1> DEFINE row == [trips[t] EXCEPT !.cover = Null, !.view = Null]
<1>1. ASSUME Live(trips[t])
      PROVE  row \in TripRow /\ row.owner = trips[t].owner /\ row.cover = Null /\ row.slug = trips[t].slug
  <2>1. trips[t] \in TripRow
    BY <1>1, RowTypes
  <2> QED BY <2>1 DEF TripRow
<1>2. SetTrip(t, row)
  BY DEF ResetTripDefaults
<1> HIDE DEF row
<1> QED BY <1>1, <1>2, NameFits, SetTripSound

LEMMA UpdatePresentSlugSound ==
  ASSUME TablesOK, TablesInv, NEW t \in Trip, NEW n \in Slug \union Trip, SlugFits(t, n), UpdatePresentSlug(t, n)
  PROVE  Sound
<1> DEFINE row == [trips[t] EXCEPT !.slug = n]
<1>1. ASSUME Live(trips[t])
      PROVE  row \in TripRow /\ row.owner = trips[t].owner /\ row.cover = trips[t].cover /\ row.slug = n
  <2>1. trips[t] \in TripRow
    BY <1>1, RowTypes
  <2> QED BY <2>1 DEF TripRow
<1>2. SetTrip(t, row)
  BY DEF UpdatePresentSlug
<1>3. Live(trips[t]) => trips[t].cover = Null \/ Member(photos, trips[t].cover, t)
  BY TablesInvIs DEF Covered
<1> HIDE DEF row
<1> QED BY <1>1, <1>2, <1>3, SetTripSound

LEMMA ClaimSound ==
  ASSUME TablesOK, TablesInv, NEW u \in User, ClaimOrphanedTrips(u)
  PROVE  Sound
<1>0. trips \in [Trip -> TripRow \union {Null, Gone}] /\ UNCHANGED <<stops, photos, routes, comments>>
  BY DEF TablesOK, ClaimOrphanedTrips
<1>1. ASSUME NEW t \in Trip
      PROVE  /\ Live(trips'[t]) <=> Live(trips[t])
             /\ trips'[t] \in TripRow \union {Null, Gone} /\ (trips[t] # Null => trips'[t] # Null)
             /\ Live(trips[t]) => trips'[t].cover = trips[t].cover /\ trips'[t].slug = trips[t].slug
             /\ Live(trips[t]) /\ trips[t].owner # Null => trips'[t].owner = trips[t].owner
  <2>1. CASE Live(trips[t]) /\ trips[t].owner = Null
    <3>1. trips[t] \in TripRow /\ trips'[t] = [trips[t] EXCEPT !.owner = u]
      BY <2>1, RowTypes DEF ClaimOrphanedTrips
    <3>2. trips'[t] \in TripRow /\ trips'[t].cover = trips[t].cover /\ trips'[t].slug = trips[t].slug
      BY <3>1 DEF TripRow
    <3> QED BY <2>1, <3>2, RowsLive
  <2>2. CASE ~(Live(trips[t]) /\ trips[t].owner = Null)
    BY <1>0, <2>2 DEF ClaimOrphanedTrips
  <2> QED BY <2>1, <2>2
<1>2. trips' \in [Trip -> TripRow \union {Null, Gone}]
  BY <1>1 DEF ClaimOrphanedTrips
<1>3. Covered'
  BY <1>0, <1>1, TablesInvIs DEF Covered, Member
<1>4. NamesAreDistinct'
  BY <1>1 DEF TablesInv, NamesAreDistinct
<1>5. TripsKept
  BY <1>1 DEF TripsKept, OwnersKept
<1> QED BY <1>0, <1>1, <1>2, <1>3, <1>4, <1>5, TripsChange

------------------------------------------------------------------------------
(* Deletions: every row stays, goes, or is a photo that loses its stop, and   *)
(* what a row that stays refers to stays.                                    *)

Thinner(old, new) == \A x \in DOMAIN old : new[x] = Gone \/ new[x] = old[x]

PhotosThinner ==
    \A p \in Photo : \/ photos'[p] = Gone
                     \/ photos'[p] = photos[p]
                     \/ Live(photos[p]) /\ photos'[p] = [photos[p] EXCEPT !.stop = Null]

LEMMA WithoutIs ==
  ASSUME NEW D, NEW R, NEW table \in [D -> R \union {Null, Gone}], NEW X
  PROVE  /\ Without(table, X) \in [D -> R \union {Null, Gone}]
         /\ Thinner(table, Without(table, X))
         /\ \A x \in D : Live(Without(table, X)[x]) <=> Live(table[x]) /\ x \notin X
BY RowsLive DEF Without, Thinner

\* WithoutIs for each of the five tables.
LEMMA WithoutRows ==
  ASSUME TablesOK, NEW X
  PROVE  /\ Without(trips, X) \in [Trip -> TripRow \union {Null, Gone}] /\ Thinner(trips, Without(trips, X))
         /\ \A x \in Trip : Live(Without(trips, X)[x]) <=> Live(trips[x]) /\ x \notin X
         /\ Without(stops, X) \in [Stop -> StopRow \union {Null, Gone}] /\ Thinner(stops, Without(stops, X))
         /\ \A x \in Stop : Live(Without(stops, X)[x]) <=> Live(stops[x]) /\ x \notin X
         /\ Without(photos, X) \in [Photo -> PhotoRow \union {Null, Gone}] /\ Thinner(photos, Without(photos, X))
         /\ \A x \in Photo : Live(Without(photos, X)[x]) <=> Live(photos[x]) /\ x \notin X
         /\ Without(routes, X) \in [Route -> RouteRow \union {Null, Gone}] /\ Thinner(routes, Without(routes, X))
         /\ \A x \in Route : Live(Without(routes, X)[x]) <=> Live(routes[x]) /\ x \notin X
         /\ Without(comments, X) \in [Comment -> CommentRow \union {Null, Gone}] /\ Thinner(comments, Without(comments, X))
         /\ \A x \in Comment : Live(Without(comments, X)[x]) <=> Live(comments[x]) /\ x \notin X
<1>1. /\ Without(trips, X) \in [Trip -> TripRow \union {Null, Gone}] /\ Thinner(trips, Without(trips, X))
      /\ \A x \in Trip : Live(Without(trips, X)[x]) <=> Live(trips[x]) /\ x \notin X
  <2>1. trips \in [Trip -> TripRow \union {Null, Gone}]
    BY DEF TablesOK
  <2> QED BY <2>1, WithoutIs
<1>2. /\ Without(stops, X) \in [Stop -> StopRow \union {Null, Gone}] /\ Thinner(stops, Without(stops, X))
      /\ \A x \in Stop : Live(Without(stops, X)[x]) <=> Live(stops[x]) /\ x \notin X
  <2>1. stops \in [Stop -> StopRow \union {Null, Gone}]
    BY DEF TablesOK
  <2> QED BY <2>1, WithoutIs
<1>3. /\ Without(photos, X) \in [Photo -> PhotoRow \union {Null, Gone}] /\ Thinner(photos, Without(photos, X))
      /\ \A x \in Photo : Live(Without(photos, X)[x]) <=> Live(photos[x]) /\ x \notin X
  <2>1. photos \in [Photo -> PhotoRow \union {Null, Gone}]
    BY DEF TablesOK
  <2> QED BY <2>1, WithoutIs
<1>4. /\ Without(routes, X) \in [Route -> RouteRow \union {Null, Gone}] /\ Thinner(routes, Without(routes, X))
      /\ \A x \in Route : Live(Without(routes, X)[x]) <=> Live(routes[x]) /\ x \notin X
  <2>1. routes \in [Route -> RouteRow \union {Null, Gone}]
    BY DEF TablesOK
  <2> QED BY <2>1, WithoutIs
<1>5. /\ Without(comments, X) \in [Comment -> CommentRow \union {Null, Gone}] /\ Thinner(comments, Without(comments, X))
      /\ \A x \in Comment : Live(Without(comments, X)[x]) <=> Live(comments[x]) /\ x \notin X
  <2>1. comments \in [Comment -> CommentRow \union {Null, Gone}]
    BY DEF TablesOK
  <2> QED BY <2>1, WithoutIs
<1> QED BY <1>1, <1>2, <1>3, <1>4, <1>5

LEMMA DeletionSound ==
  ASSUME TablesOK, TablesInv,
         trips' \in [Trip -> TripRow \union {Null, Gone}], Thinner(trips, trips'),
         stops' \in [Stop -> StopRow \union {Null, Gone}], Thinner(stops, stops'),
         photos' \in [Photo -> PhotoRow \union {Null, Gone}], PhotosThinner,
         routes' \in [Route -> RouteRow \union {Null, Gone}], Thinner(routes, routes'),
         comments' \in [Comment -> CommentRow \union {Null, Gone}], Thinner(comments, comments'),
         \A s \in Stop : Live(stops'[s]) => Live(trips'[stops[s].trip]),
         \A p \in Photo : Live(photos'[p]) =>
           /\ Live(trips'[photos[p].trip])
           /\ photos'[p].stop # Null => Live(stops'[photos'[p].stop]),
         \A r \in Route : Live(routes'[r]) => Live(trips'[routes[r].trip]),
         \A k \in Comment : Live(comments'[k]) =>
           Live(trips'[comments[k].trip]) /\ Live(photos'[comments[k].photo])
  PROVE  Sound
<1>0. /\ trips \in [Trip -> TripRow \union {Null, Gone}] /\ stops \in [Stop -> StopRow \union {Null, Gone}]
      /\ photos \in [Photo -> PhotoRow \union {Null, Gone}] /\ routes \in [Route -> RouteRow \union {Null, Gone}]
      /\ comments \in [Comment -> CommentRow \union {Null, Gone}]
  BY DEF TablesOK
<1>1. TablesOK'
  BY DEF TablesOK
<1>2. \A t \in Trip : trips'[t] = Gone \/ trips'[t] = trips[t]
  BY <1>0 DEF Thinner
<1>3. \A s \in Stop : stops'[s] = Gone \/ stops'[s] = stops[s]
  BY <1>0 DEF Thinner
<1>4. ASSUME NEW p \in Photo, Live(photos'[p])
      PROVE  /\ Live(photos[p]) /\ photos'[p].trip = photos[p].trip
             /\ photos'[p].stop = photos[p].stop \/ photos'[p].stop = Null
  <2>1. CASE photos'[p] = photos[p]
    BY <1>4, <2>1
  <2>2. CASE Live(photos[p]) /\ photos'[p] = [photos[p] EXCEPT !.stop = Null]
    <3>1. photos[p] \in PhotoRow
      BY <2>2, RowTypes
    <3> QED BY <2>2, <3>1 DEF PhotoRow
  <2> QED BY <1>4, <2>1, <2>2, RowsLive DEF PhotosThinner
<1>5. \A p \in Photo : photos[p] # Null => photos'[p] # Null
  <2> SUFFICES ASSUME NEW p \in Photo, photos[p] # Null PROVE photos'[p] # Null
    OBVIOUS
  <2>1. CASE Live(photos[p]) /\ photos'[p] = [photos[p] EXCEPT !.stop = Null]
    <3>1. photos[p] \in PhotoRow
      BY <2>1, RowTypes
    <3>2. photos'[p] \in PhotoRow
      BY <2>1, <3>1 DEF PhotoRow
    <3> QED BY <3>2, RowsLive DEF Live
  <2> QED BY <2>1, RowsLive DEF PhotosThinner
<1>6. Linked'
  <2>1. ASSUME NEW s \in Stop, Live(stops'[s]) PROVE stops'[s].trip \in Trip /\ Live(trips'[stops'[s].trip])
    BY <1>3, <2>1, RowsLive, TablesInvIs DEF Linked
  <2>2. ASSUME NEW p \in Photo, Live(photos'[p])
        PROVE  /\ photos'[p].trip \in Trip /\ Live(trips'[photos'[p].trip])
               /\ photos'[p].stop # Null =>
                    /\ photos'[p].stop \in Stop /\ Live(stops'[photos'[p].stop])
                    /\ stops'[photos'[p].stop].trip = photos'[p].trip
    BY <1>3, <1>4, <2>2, RowsLive, TablesInvIs DEF Linked
  <2>3. ASSUME NEW r \in Route, Live(routes'[r]) PROVE routes'[r].trip \in Trip /\ Live(trips'[routes'[r].trip])
    BY <1>0, <2>3, RowsLive, TablesInvIs DEF Linked, Thinner
  <2>4. ASSUME NEW k \in Comment, Live(comments'[k])
        PROVE  /\ comments'[k].trip \in Trip /\ Live(trips'[comments'[k].trip])
               /\ comments'[k].photo \in Photo /\ Live(photos'[comments'[k].photo])
    <3>1. comments'[k] = comments[k]
      BY <1>0, <2>4, RowsLive DEF Thinner
    <3> QED BY <3>1, <2>4, <1>4, TablesInvIs DEF Linked
  <2> QED BY <2>1, <2>2, <2>3, <2>4 DEF Linked
<1>7. Covered'
  BY <1>2, <1>4, <1>5, RowsLive, TablesInvIs DEF Covered, Member
<1>8. NamesAreDistinct'
  BY <1>2, RowsLive DEF TablesInv, NamesAreDistinct
<1>9. TripsKept
  BY <1>2, RowsLive DEF TripsKept, OwnersKept
<1>10. Kept(stops, stops')
  BY <1>0, <1>3, RowsLive DEF Kept
<1>11. Kept(photos, photos')
  BY <1>0, <1>4, <1>5 DEF Kept
<1>12. Kept(routes, routes')
  BY <1>0, RowsLive DEF Kept, Thinner
<1>13. Kept(comments, comments')
  BY <1>0, RowsLive DEF Kept, Thinner
<1>14. ASSUME Matched, NEW k \in Comment, Live(comments'[k])
       PROVE  photos'[comments'[k].photo].trip = comments'[k].trip
  <2>1. comments'[k] = comments[k]
    BY <1>0, <1>14, RowsLive DEF Thinner
  <2>2. comments[k].photo \in Photo
    BY <1>14, <2>1, TablesInvIs DEF Linked
  <2> QED BY <1>4, <1>14, <2>1, <2>2 DEF Matched
<1>15. Matched => Matched'
  BY <1>14 DEF Matched
<1> QED BY <1>1, <1>6, <1>7, <1>8, <1>9, <1>10, <1>11, <1>12, <1>13, <1>15, SoundWhen DEF RowsKept

LEMMA SameIsThinner ==
  ASSUME NEW table
  PROVE  Thinner(table, table)
BY DEF Thinner

LEMMA DeleteTripSound ==
  ASSUME TablesOK, TablesInv, NEW t \in Trip, DeleteTrip(t)
  PROVE  Sound
<1>0. /\ trips \in [Trip -> TripRow \union {Null, Gone}] /\ stops \in [Stop -> StopRow \union {Null, Gone}]
      /\ photos \in [Photo -> PhotoRow \union {Null, Gone}] /\ routes \in [Route -> RouteRow \union {Null, Gone}]
      /\ comments \in [Comment -> CommentRow \union {Null, Gone}]
  BY DEF TablesOK
<1>1. /\ trips' \in [Trip -> TripRow \union {Null, Gone}] /\ Thinner(trips, trips')
      /\ \A x \in Trip : Live(trips'[x]) <=> Live(trips[x]) /\ x # t
  BY WithoutRows DEF DeleteTrip
<1>2. /\ stops' \in [Stop -> StopRow \union {Null, Gone}] /\ Thinner(stops, stops')
      /\ \A x \in Stop : Live(stops'[x]) <=> Live(stops[x]) /\ stops[x].trip # t
  BY WithoutRows, OfStops DEF DeleteTrip
<1>3. /\ photos' \in [Photo -> PhotoRow \union {Null, Gone}] /\ Thinner(photos, photos')
      /\ \A x \in Photo : Live(photos'[x]) <=> Live(photos[x]) /\ photos[x].trip # t
  BY WithoutRows, OfPhotos DEF DeleteTrip
<1>4. /\ routes' \in [Route -> RouteRow \union {Null, Gone}] /\ Thinner(routes, routes')
      /\ \A x \in Route : Live(routes'[x]) <=> Live(routes[x]) /\ routes[x].trip # t
  <2>1. \A x \in Route : x \in Of(routes, t) <=> Live(routes[x]) /\ routes[x].trip = t
    BY <1>0 DEF Of
  <2> QED BY <2>1, WithoutRows DEF DeleteTrip
<1>5. /\ comments' \in [Comment -> CommentRow \union {Null, Gone}] /\ Thinner(comments, comments')
      /\ \A x \in Comment : Live(comments'[x]) =>
           Live(comments[x]) /\ comments[x].trip # t /\ comments[x].photo \notin Of(photos, t)
  <2> DEFINE X == {k \in Comment : Live(comments[k]) /\ (comments[k].trip = t \/ comments[k].photo \in Of(photos, t))}
  <2>1. comments' = Without(comments, X)
    BY DEF DeleteTrip
  <2>2. \A x \in Comment : x \in X <=> Live(comments[x]) /\ (comments[x].trip = t \/ comments[x].photo \in Of(photos, t))
    OBVIOUS
  <2> HIDE DEF X
  <2> QED BY <2>1, <2>2, WithoutRows
<1>6. PhotosThinner
  BY <1>0, <1>3 DEF PhotosThinner, Thinner
<1>7. \A s \in Stop : Live(stops'[s]) => Live(trips'[stops[s].trip])
  BY <1>1, <1>2, TablesInvIs DEF Linked
<1>8. \A p \in Photo : Live(photos'[p]) =>
           /\ Live(trips'[photos[p].trip])
           /\ photos'[p].stop # Null => Live(stops'[photos'[p].stop])
  <2> SUFFICES ASSUME NEW p \in Photo, Live(photos'[p])
               PROVE  /\ Live(trips'[photos[p].trip])
                      /\ photos'[p].stop # Null => Live(stops'[photos'[p].stop])
    OBVIOUS
  <2>1. photos'[p] = photos[p]
    BY <1>0, <1>3, RowsLive DEF Thinner
  <2> QED BY <1>1, <1>2, <1>3, <2>1, TablesInvIs DEF Linked
<1>9. \A r \in Route : Live(routes'[r]) => Live(trips'[routes[r].trip])
  BY <1>1, <1>4, TablesInvIs DEF Linked
<1>10. \A k \in Comment : Live(comments'[k]) =>
           Live(trips'[comments[k].trip]) /\ Live(photos'[comments[k].photo])
  BY <1>1, <1>3, <1>5, OfPhotos, TablesInvIs DEF Linked
<1> QED BY <1>1, <1>2, <1>3, <1>4, <1>5, <1>6, <1>7, <1>8, <1>9, <1>10, DeletionSound

\* DeleteStop and DeleteStopsByTrip.
LEMMA StopsGoneSound ==
  ASSUME TablesOK, TablesInv, NEW X, stops' = Without(stops, X), photos' = Unassigned(X),
         UNCHANGED <<trips, routes, comments>>
  PROVE  Sound
<1>0. /\ trips \in [Trip -> TripRow \union {Null, Gone}] /\ stops \in [Stop -> StopRow \union {Null, Gone}]
      /\ photos \in [Photo -> PhotoRow \union {Null, Gone}] /\ routes \in [Route -> RouteRow \union {Null, Gone}]
      /\ comments \in [Comment -> CommentRow \union {Null, Gone}]
  BY DEF TablesOK
<1>1. /\ stops' \in [Stop -> StopRow \union {Null, Gone}] /\ Thinner(stops, stops')
      /\ \A x \in Stop : Live(stops'[x]) <=> Live(stops[x]) /\ x \notin X
  BY <1>0, WithoutRows
<1>2. ASSUME NEW p \in Photo
      PROVE  /\ photos'[p] \in PhotoRow \union {Null, Gone}
             /\ photos'[p] = photos[p] \/ (Live(photos[p]) /\ photos'[p] = [photos[p] EXCEPT !.stop = Null])
             /\ Live(photos'[p]) <=> Live(photos[p])
             /\ Live(photos'[p]) => photos'[p].stop = Null \/ (photos'[p].stop = photos[p].stop /\ photos[p].stop \notin X)
  <2>1. CASE Live(photos[p]) /\ photos[p].stop \in X
    <3>1. photos[p] \in PhotoRow /\ photos'[p] = [photos[p] EXCEPT !.stop = Null]
      BY <2>1, RowTypes DEF Unassigned
    <3>2. photos'[p] \in PhotoRow /\ photos'[p].stop = Null
      BY <3>1 DEF PhotoRow
    <3> QED BY <2>1, <3>1, <3>2, RowsLive
  <2>2. CASE ~(Live(photos[p]) /\ photos[p].stop \in X)
    BY <1>0, <2>2 DEF Unassigned
  <2> QED BY <2>1, <2>2
<1>3. photos' \in [Photo -> PhotoRow \union {Null, Gone}] /\ PhotosThinner
  BY <1>2 DEF Unassigned, PhotosThinner
<1>4. Thinner(trips, trips') /\ Thinner(routes, routes') /\ Thinner(comments, comments')
  BY SameIsThinner
<1>5. /\ \A s \in Stop : Live(stops'[s]) => Live(trips'[stops[s].trip])
      /\ \A r \in Route : Live(routes'[r]) => Live(trips'[routes[r].trip])
      /\ \A k \in Comment : Live(comments'[k]) =>
           Live(trips'[comments[k].trip]) /\ Live(photos'[comments[k].photo])
  BY <1>1, <1>2, TablesInvIs DEF Linked
<1>6. \A p \in Photo : Live(photos'[p]) =>
           /\ Live(trips'[photos[p].trip])
           /\ photos'[p].stop # Null => Live(stops'[photos'[p].stop])
  BY <1>1, <1>2, TablesInvIs DEF Linked
<1> QED BY <1>0, <1>1, <1>3, <1>4, <1>5, <1>6, DeletionSound

LEMMA DropPhotosSound ==
  ASSUME TablesOK, TablesInv, NEW X, DropPhotos(X)
  PROVE  Sound
<1>0. /\ trips \in [Trip -> TripRow \union {Null, Gone}] /\ stops \in [Stop -> StopRow \union {Null, Gone}]
      /\ photos \in [Photo -> PhotoRow \union {Null, Gone}] /\ routes \in [Route -> RouteRow \union {Null, Gone}]
      /\ comments \in [Comment -> CommentRow \union {Null, Gone}]
      /\ UNCHANGED <<trips, stops, routes>>
  BY DEF TablesOK, DropPhotos
<1>1. /\ photos' \in [Photo -> PhotoRow \union {Null, Gone}] /\ Thinner(photos, photos')
      /\ \A x \in Photo : Live(photos'[x]) <=> Live(photos[x]) /\ x \notin X
  BY <1>0, WithoutRows DEF DropPhotos
<1>2. /\ comments' \in [Comment -> CommentRow \union {Null, Gone}] /\ Thinner(comments, comments')
      /\ \A x \in Comment : Live(comments'[x]) => Live(comments[x]) /\ comments[x].photo \notin X
  <2> DEFINE K == {k \in Comment : Live(comments[k]) /\ comments[k].photo \in X}
  <2>1. comments' = Without(comments, K) /\ \A x \in Comment : x \in K <=> Live(comments[x]) /\ comments[x].photo \in X
    BY DEF DropPhotos
  <2> HIDE DEF K
  <2> QED BY <2>1, WithoutRows
<1>3. PhotosThinner
  BY <1>0, <1>1 DEF PhotosThinner, Thinner
<1>4. Thinner(trips, trips') /\ Thinner(stops, stops') /\ Thinner(routes, routes')
  BY <1>0, SameIsThinner
<1>5. /\ \A s \in Stop : Live(stops'[s]) => Live(trips'[stops[s].trip])
      /\ \A r \in Route : Live(routes'[r]) => Live(trips'[routes[r].trip])
      /\ \A k \in Comment : Live(comments'[k]) =>
           Live(trips'[comments[k].trip]) /\ Live(photos'[comments[k].photo])
  BY <1>0, <1>1, <1>2, TablesInvIs DEF Linked
<1>6. \A p \in Photo : Live(photos'[p]) =>
           /\ Live(trips'[photos[p].trip])
           /\ photos'[p].stop # Null => Live(stops'[photos'[p].stop])
  <2> SUFFICES ASSUME NEW p \in Photo, Live(photos'[p])
               PROVE  /\ Live(trips'[photos[p].trip])
                      /\ photos'[p].stop # Null => Live(stops'[photos'[p].stop])
    OBVIOUS
  <2>1. photos'[p] = photos[p]
    BY <1>0, <1>1, RowsLive DEF Thinner
  <2> QED BY <1>0, <1>1, <2>1, TablesInvIs DEF Linked
<1> QED BY <1>0, <1>1, <1>2, <1>3, <1>4, <1>5, <1>6, DeletionSound

\* DeleteRoute, DeleteRoutesByTrip and DeleteComment.
LEMMA LeavesGoneSound ==
  ASSUME TablesOK, TablesInv, UNCHANGED <<trips, stops, photos>>,
         NEW X, NEW K, routes' = routes \/ routes' = Without(routes, X),
         comments' = comments \/ comments' = Without(comments, K)
  PROVE  Sound
<1>0. /\ trips \in [Trip -> TripRow \union {Null, Gone}] /\ stops \in [Stop -> StopRow \union {Null, Gone}]
      /\ photos \in [Photo -> PhotoRow \union {Null, Gone}] /\ routes \in [Route -> RouteRow \union {Null, Gone}]
      /\ comments \in [Comment -> CommentRow \union {Null, Gone}]
  BY DEF TablesOK
<1>1. /\ routes' \in [Route -> RouteRow \union {Null, Gone}] /\ Thinner(routes, routes')
      /\ \A x \in Route : Live(routes'[x]) => Live(routes[x])
  BY <1>0, WithoutRows, SameIsThinner
<1>2. /\ comments' \in [Comment -> CommentRow \union {Null, Gone}] /\ Thinner(comments, comments')
      /\ \A x \in Comment : Live(comments'[x]) => Live(comments[x])
  BY <1>0, WithoutRows, SameIsThinner
<1>3. Thinner(trips, trips') /\ Thinner(stops, stops') /\ PhotosThinner
  BY SameIsThinner DEF PhotosThinner
<1>4. /\ \A s \in Stop : Live(stops'[s]) => Live(trips'[stops[s].trip])
      /\ \A p \in Photo : Live(photos'[p]) =>
           Live(trips'[photos[p].trip]) /\ (photos'[p].stop # Null => Live(stops'[photos'[p].stop]))
      /\ \A r \in Route : Live(routes'[r]) => Live(trips'[routes[r].trip])
      /\ \A k \in Comment : Live(comments'[k]) =>
           Live(trips'[comments[k].trip]) /\ Live(photos'[comments[k].photo])
  BY <1>1, <1>2, TablesInvIs DEF Linked
<1> QED BY <1>0, <1>1, <1>2, <1>3, <1>4, DeletionSound

------------------------------------------------------------------------------
(* Insertions and updates of stops, photos, routes and comments.             *)

LEMMA NothingDoneSound ==
  ASSUME TablesOK, TablesInv, UNCHANGED tables
  PROVE  Sound
BY KeptSame DEF tables, TablesOK, TablesInv, NothingOutlivesItsTrip, StopsOfOwnTrip, CoversOfOwnTrip,
   CommentsOfOwnTrip, NamesAreDistinct, Of, Sound, Written, RowsKept, TripsKept, OwnersKept

\* CreateStop and UpdateStop.
LEMMA StopWrittenSound ==
  ASSUME TablesOK, TablesInv, NEW s \in Stop, NEW row \in StopRow,
         stops' = [stops EXCEPT ![s] = row], UNCHANGED <<trips, photos, routes, comments>>,
         stops[s] = Null \/ (Live(stops[s]) /\ row.trip = stops[s].trip), Live(trips[row.trip])
  PROVE  Sound
<1>0. stops \in [Stop -> StopRow \union {Null, Gone}] /\ row.trip \in Trip
  BY DEF TablesOK, StopRow
<1>1. /\ stops'[s] = row /\ \A x \in Stop : x # s => stops'[x] = stops[x]
      /\ stops' \in [Stop -> StopRow \union {Null, Gone}] /\ Live(row) /\ row # Null
  BY <1>0, RowsLive DEF Live
<1>2. TablesOK'
  BY <1>1 DEF TablesOK
<1>3. Linked'
  <2>1. ASSUME NEW p \in Photo, Live(photos[p]), photos[p].stop # Null
        PROVE  Live(stops'[photos[p].stop]) /\ stops'[photos[p].stop].trip = photos[p].trip
    BY <1>0, <1>1, <2>1, RowsLive, TablesInvIs DEF Linked
  <2> QED BY <1>0, <1>1, <2>1, TablesInvIs DEF Linked
<1>4. Covered' /\ NamesAreDistinct' /\ TripsKept
  BY TablesInvIs DEF Covered, Member, NamesAreDistinct, TripsKept, OwnersKept
<1>5. RowsKept
  <2>1. Kept(stops, stops')
    BY <1>0, <1>1 DEF Kept
  <2> QED BY <2>1, KeptSame DEF RowsKept
<1>6. Matched => Matched'
  BY DEF Matched
<1> QED BY <1>2, <1>3, <1>4, <1>5, <1>6, SoundWhen

LEMMA CreateStopSound ==
  ASSUME TablesOK, TablesInv, NEW s \in Stop, NEW t \in Trip, NEW n \in Note, CreateStop(s, t, n)
  PROVE  Sound
<1> DEFINE row == [trip |-> t, note |-> n, view |-> Null]
<1>1. row \in StopRow /\ row.trip = t
  BY DEF StopRow
<1>2. /\ stops' = [stops EXCEPT ![s] = row] /\ UNCHANGED <<trips, photos, routes, comments>>
      /\ stops[s] = Null /\ Live(trips[t])
  BY DEF CreateStop
<1> HIDE DEF row
<1> QED BY <1>1, <1>2, StopWrittenSound

LEMMA UpdateStopSound ==
  ASSUME TablesOK, TablesInv, NEW s \in Stop, NEW n \in Note, NEW v \in View \union {Null}, UpdateStop(s, n, v)
  PROVE  Sound
<1>1. CASE ~Live(stops[s])
  BY <1>1, NothingDoneSound DEF UpdateStop, tables
<1>2. CASE Live(stops[s])
  <2> DEFINE row == [stops[s] EXCEPT !.note = n, !.view = v]
  <2>1. row \in StopRow /\ row.trip = stops[s].trip
    <3>1. stops[s] \in StopRow
      BY <1>2, RowTypes
    <3> QED BY <3>1 DEF StopRow
  <2>2. stops' = [stops EXCEPT ![s] = row] /\ UNCHANGED <<trips, photos, routes, comments>>
    BY <1>2 DEF UpdateStop
  <2>3. Live(trips[stops[s].trip])
    BY <1>2, TablesInvIs DEF Linked
  <2> HIDE DEF row
  <2> QED BY <1>2, <2>1, <2>2, <2>3, StopWrittenSound
<1> QED BY <1>1, <1>2

\* CreatePhoto, UpdatePhoto and SetPhotoStopID: the stop is there, and is one of
\* the photo's trip.
LEMMA PhotoWrittenSound ==
  ASSUME TablesOK, TablesInv, NEW p \in Photo, NEW row \in PhotoRow,
         photos' = [photos EXCEPT ![p] = row], UNCHANGED <<trips, stops, routes, comments>>,
         photos[p] = Null \/ (Live(photos[p]) /\ row.trip = photos[p].trip), Live(trips[row.trip]),
         row.stop = Null \/ (Live(stops[row.stop]) /\ stops[row.stop].trip = row.trip)
  PROVE  Sound
<1>0. photos \in [Photo -> PhotoRow \union {Null, Gone}] /\ row.trip \in Trip /\ row.stop \in Stop \union {Null}
  BY DEF TablesOK, PhotoRow
<1>1. /\ photos'[p] = row /\ \A x \in Photo : x # p => photos'[x] = photos[x]
      /\ photos' \in [Photo -> PhotoRow \union {Null, Gone}] /\ Live(row) /\ row # Null
  BY <1>0, RowsLive DEF Live
<1>2. TablesOK'
  BY <1>1 DEF TablesOK
<1>3. Linked'
  <2>1. ASSUME NEW k \in Comment, Live(comments[k]) PROVE Live(photos'[comments[k].photo])
    BY <1>0, <1>1, <2>1, RowsLive, TablesInvIs DEF Linked
  <2>2. ASSUME NEW x \in Photo, Live(photos'[x])
        PROVE  /\ photos'[x].trip \in Trip /\ Live(trips[photos'[x].trip])
               /\ photos'[x].stop # Null =>
                    /\ photos'[x].stop \in Stop /\ Live(stops[photos'[x].stop])
                    /\ stops[photos'[x].stop].trip = photos'[x].trip
    BY <1>0, <1>1, <2>2, TablesInvIs DEF Linked
  <2> QED BY <2>1, <2>2, TablesInvIs DEF Linked
<1>4. RowsKept
  <2>1. Kept(photos, photos')
    BY <1>0, <1>1 DEF Kept
  <2> QED BY <2>1, KeptSame DEF RowsKept
<1>5. Covered'
  <2> SUFFICES ASSUME NEW t \in Trip, Live(trips[t]), trips[t].cover # Null
               PROVE  trips[t].cover \in Photo /\ Member(photos', trips[t].cover, t)
    BY DEF Covered, Member
  <2>1. trips[t].cover \in Photo /\ Member(photos, trips[t].cover, t)
    BY TablesInvIs DEF Covered
  <2> QED BY <2>1, <1>0, <1>1 DEF Member
<1>6. NamesAreDistinct' /\ TripsKept
  BY TablesInvIs DEF NamesAreDistinct, TripsKept, OwnersKept
<1>7. ASSUME Matched, NEW k \in Comment, Live(comments[k]) PROVE photos'[comments[k].photo].trip = comments[k].trip
  <2>1. comments[k].photo \in Photo /\ Live(photos[comments[k].photo])
    BY <1>7, TablesInvIs DEF Linked
  <2> QED BY <1>1, <1>7, <2>1, RowsLive DEF Matched
<1>8. Matched => Matched'
  BY <1>7 DEF Matched
<1> QED BY <1>2, <1>3, <1>4, <1>5, <1>6, <1>8, SoundWhen

LEMMA CreatePhotoSound ==
  ASSUME TablesOK, TablesInv, NEW p \in Photo, NEW t \in Trip, NEW s \in Of(stops, t) \union {Null},
         NEW n \in Note, CreatePhoto(p, t, s, n)
  PROVE  Sound
<1> DEFINE row == [trip |-> t, stop |-> s, note |-> n, view |-> Null]
<1>0. s = Null \/ (s \in Stop /\ Live(stops[s]) /\ stops[s].trip = t)
  BY OfStops
<1>1. row \in PhotoRow /\ row.trip = t /\ row.stop = s
  BY <1>0 DEF PhotoRow
<1>2. /\ photos' = [photos EXCEPT ![p] = row] /\ UNCHANGED <<trips, stops, routes, comments>>
      /\ photos[p] = Null /\ Live(trips[t])
  BY DEF CreatePhoto
<1> HIDE DEF row
<1> QED BY <1>0, <1>1, <1>2, PhotoWrittenSound

LEMMA SetPhotoSound ==
  ASSUME TablesOK, TablesInv, NEW p \in Photo, NEW row, SetPhoto(p, row),
         Live(photos[p]) =>
           /\ row \in PhotoRow /\ row.trip = photos[p].trip
           /\ row.stop = Null \/ (Live(stops[row.stop]) /\ stops[row.stop].trip = photos[p].trip)
  PROVE  Sound
<1>1. CASE ~Live(photos[p])
  BY <1>1, NothingDoneSound DEF SetPhoto, tables
<1>2. CASE Live(photos[p])
  <2>1. photos' = [photos EXCEPT ![p] = row] /\ UNCHANGED <<trips, stops, routes, comments>>
    BY <1>2 DEF SetPhoto
  <2>2. Live(trips[photos[p].trip])
    BY <1>2, TablesInvIs DEF Linked
  <2> QED BY <1>2, <2>1, <2>2, PhotoWrittenSound
<1> QED BY <1>1, <1>2

LEMMA UpdatePhotoSound ==
  ASSUME TablesOK, TablesInv, NEW p \in Photo, NEW s \in Stop \union {Null}, NEW n \in Note,
         NEW v \in View \union {Null}, UpdatePhoto(p, s, n, v),
         Live(photos[p]) /\ s # Null => Live(stops[s]) /\ stops[s].trip = photos[p].trip
  PROVE  Sound
<1> DEFINE row == [photos[p] EXCEPT !.stop = s, !.note = n, !.view = v]
<1>1. ASSUME Live(photos[p]) PROVE row \in PhotoRow /\ row.trip = photos[p].trip /\ row.stop = s
  <2>1. photos[p] \in PhotoRow
    BY <1>1, RowTypes
  <2> QED BY <2>1 DEF PhotoRow
<1>2. SetPhoto(p, row)
  BY DEF UpdatePhoto
<1> HIDE DEF row
<1> QED BY <1>1, <1>2, SetPhotoSound

LEMMA SetPhotoStopIDSound ==
  ASSUME TablesOK, TablesInv, NEW p \in Photo, NEW s \in Stop \union {Null}, SetPhotoStopID(p, s),
         Live(photos[p]) /\ s # Null => Live(stops[s]) /\ stops[s].trip = photos[p].trip
  PROVE  Sound
<1> DEFINE row == [photos[p] EXCEPT !.stop = s]
<1>1. ASSUME Live(photos[p]) PROVE row \in PhotoRow /\ row.trip = photos[p].trip /\ row.stop = s
  <2>1. photos[p] \in PhotoRow
    BY <1>1, RowTypes
  <2> QED BY <2>1 DEF PhotoRow
<1>2. SetPhoto(p, row)
  BY DEF SetPhotoStopID
<1> HIDE DEF row
<1> QED BY <1>1, <1>2, SetPhotoSound

LEMMA CreateRouteSound ==
  ASSUME TablesOK, TablesInv, NEW r \in Route, NEW t \in Trip, CreateRoute(r, t)
  PROVE  Sound
<1>0. routes \in [Route -> RouteRow \union {Null, Gone}]
  BY DEF TablesOK
<1>1. /\ routes' = [routes EXCEPT ![r] = [trip |-> t]] /\ Live(trips[t])
      /\ UNCHANGED <<trips, stops, photos, comments>> /\ [trip |-> t] \in RouteRow
  BY DEF CreateRoute, RouteRow
<1>2. /\ routes' \in [Route -> RouteRow \union {Null, Gone}] /\ routes'[r].trip = t
      /\ \A x \in Route : x # r => routes'[x] = routes[x]
  BY <1>0, <1>1
<1>3. TablesOK'
  BY <1>1, <1>2 DEF TablesOK
<1>4. Linked'
  BY <1>1, <1>2, TablesInvIs DEF Linked
<1>5. Covered' /\ NamesAreDistinct' /\ TripsKept
  BY <1>1, TablesInvIs DEF Covered, Member, NamesAreDistinct, TripsKept, OwnersKept
<1>6. RowsKept
  <2>1. routes[r] = Null
    BY DEF CreateRoute
  <2>2. Kept(routes, routes')
    BY <1>0, <1>2, <2>1 DEF Kept
  <2> QED BY <1>1, <2>2, KeptSame DEF RowsKept
<1>7. Matched => Matched'
  BY <1>1 DEF Matched
<1> QED BY <1>1, <1>3, <1>4, <1>5, <1>6, <1>7, SoundWhen

\* A comment on a photo of any trip.
LEMMA CreateCommentWritten ==
  ASSUME TablesOK, TablesInv, NEW k \in Comment, NEW t \in Trip, NEW p \in Photo, CreateComment(k, t, p)
  PROVE  Written
<1>0. comments \in [Comment -> CommentRow \union {Null, Gone}]
  BY DEF TablesOK
<1>1. /\ comments' = [comments EXCEPT ![k] = [trip |-> t, photo |-> p]] /\ Live(trips[t]) /\ Live(photos[p])
      /\ UNCHANGED <<trips, stops, photos, routes>> /\ [trip |-> t, photo |-> p] \in CommentRow
  BY DEF CreateComment, CommentFits, CommentRow
<1>2. /\ comments' \in [Comment -> CommentRow \union {Null, Gone}]
      /\ comments'[k].trip = t /\ comments'[k].photo = p
      /\ \A x \in Comment : x # k => comments'[x] = comments[x]
  BY <1>0, <1>1
<1>3. TablesOK'
  BY <1>1, <1>2 DEF TablesOK
<1>4. Linked'
  BY <1>1, <1>2, TablesInvIs DEF Linked
<1>5. Covered' /\ NamesAreDistinct' /\ TripsKept
  BY <1>1, TablesInvIs DEF Covered, Member, NamesAreDistinct, TripsKept, OwnersKept
<1>6. RowsKept
  <2>1. comments[k] = Null
    BY DEF CreateComment
  <2>2. Kept(comments, comments')
    BY <1>0, <1>2, <2>1 DEF Kept
  <2> QED BY <1>1, <2>2, KeptSame DEF RowsKept
<1> QED BY <1>3, <1>4, <1>5, <1>6, WrittenWhen

LEMMA CreateCommentSound ==
  ASSUME TablesOK, TablesInv, NEW k \in Comment, NEW t \in Trip, NEW p \in Photo, CreateComment(k, t, p),
         Live(photos[p]) => photos[p].trip = t
  PROVE  Sound
<1>1. Written
  BY CreateCommentWritten
<1>2. /\ comments' = [comments EXCEPT ![k] = [trip |-> t, photo |-> p]] /\ Live(photos[p])
      /\ UNCHANGED photos /\ comments \in [Comment -> CommentRow \union {Null, Gone}]
  BY DEF CreateComment, CommentFits, TablesOK
<1>3. Matched => Matched'
  BY <1>2 DEF Matched
<1> QED BY <1>1, <1>3, MatchedIs, MatchedThen DEF Sound, Written

------------------------------------------------------------------------------
(* Requests.                                                                 *)

\* What request c has checked, as long as the rows are there.
Pending(c) ==
    /\ At(c, "update_trip") /\ call[c].cover # Null => Member(photos, call[c].cover, call[c].trip)
    /\ call[c].pc \in {"update_photo", "rescan"} =>
         /\ photos[call[c].photo] # Null
         /\ call[c].stop # Null =>
              /\ stops[call[c].stop] # Null
              /\ Live(photos[call[c].photo]) /\ Live(stops[call[c].stop]) =>
                   stops[call[c].stop].trip = photos[call[c].photo].trip
    /\ At(c, "comment") => Member(photos, call[c].photo, call[c].trip)

RecordsInv == RecordsOK /\ TablesInv /\ \A c \in Call : Pending(c)

ResetPc == {"reset_photos", "reset_stops", "reset_routes", "reset_defaults", "reset_done"}

LEMMA CallTypes ==
  ASSUME RecordsOK, NEW c \in Call
  PROVE  /\ call[c] \in CallRow
         /\ At(c, "update_trip") =>
              /\ call[c].trip \in Trip /\ call[c].note \in Note
              /\ call[c].cover \in Photo \union {Null} /\ call[c].view \in View \union {Null}
         /\ At(c, "update_stop") =>
              call[c].stop \in Stop /\ call[c].note \in Note /\ call[c].view \in View \union {Null}
         /\ call[c].pc \in {"update_photo", "rescan"} =>
              /\ call[c].photo \in Photo /\ call[c].stop \in Stop \union {Null}
              /\ call[c].note \in Note /\ call[c].view \in View \union {Null}
         /\ At(c, "slug") => call[c].trip \in Trip /\ call[c].slug \in Slug \union Trip
         /\ At(c, "comment") => call[c].trip \in Trip /\ call[c].photo \in Photo
         /\ call[c].pc \in ResetPc =>
              call[c] \in [pc : ResetPc, trip : Trip, had : SUBSET (Photo \union Stop \union Route \union Comment),
                           failed : BOOLEAN]
<1>1. call[c] \in CallRow
  BY DEF RecordsOK
<1> QED BY <1>1 DEF CallRow, Idle, At, ResetPc

LEMMA PendingKept ==
  ASSUME RecordsOK, NEW c \in Call, Pending(c), RowsKept, call'[c] = call[c]
  PROVE  Pending(c)'
<1>0. DOMAIN stops = Stop /\ DOMAIN photos = Photo
  BY DEF RecordsOK, TablesOK
<1>1. ASSUME NEW p \in Photo, NEW t, Member(photos, p, t) PROVE Member(photos', p, t)
  BY <1>0, <1>1 DEF Member, Kept, RowsKept
<1>2. At(c, "update_trip") /\ call[c].cover # Null => Member(photos', call[c].cover, call[c].trip)
  BY <1>1, CallTypes DEF Pending
<1>3. At(c, "comment") => Member(photos', call[c].photo, call[c].trip)
  BY <1>1, CallTypes DEF Pending
<1>4. ASSUME call[c].pc \in {"update_photo", "rescan"}
      PROVE  /\ photos'[call[c].photo] # Null
             /\ call[c].stop # Null =>
                  /\ stops'[call[c].stop] # Null
                  /\ Live(photos'[call[c].photo]) /\ Live(stops'[call[c].stop]) =>
                       stops'[call[c].stop].trip = photos'[call[c].photo].trip
  <2>1. call[c].photo \in Photo /\ call[c].stop \in Stop \union {Null}
    BY <1>4, CallTypes
  <2> QED BY <1>0, <1>4, <2>1 DEF Pending, Kept, RowsKept
<1> QED BY <1>2, <1>3, <1>4 DEF Pending, At, Member

\* A request of one statement.
LEMMA DirectStep ==
  ASSUME RecordsInv, Written, UNCHANGED call
  PROVE  RecordsInv'
BY PendingKept DEF RecordsInv, RecordsOK, Written

\* A step of request c.
LEMMA CallStep ==
  ASSUME RecordsInv, Sound, NEW c \in Call, NEW row \in CallRow, Become(c, row), Pending(c)'
  PROVE  RecordsInv'
<1>1. call' \in [Call -> CallRow] /\ \A d \in Call : d # c => call'[d] = call[d]
  BY DEF RecordsInv, RecordsOK, Become
<1>2. \A d \in Call : Pending(d)'
  BY <1>1, PendingKept DEF RecordsInv, Sound, Written
<1> QED BY <1>1, <1>2 DEF RecordsInv, RecordsOK, Sound, Written

\* The last step of request c, or one that owes the next nothing.
LEMMA RowStep ==
  ASSUME RecordsInv, Sound, NEW c \in Call, NEW row \in CallRow, Become(c, row),
         row.pc \notin {"update_trip", "update_photo", "rescan", "comment"}
  PROVE  RecordsInv'
<1>1. call'[c] = row
  BY DEF RecordsInv, RecordsOK, Become
<1>2. Pending(c)'
  BY <1>1 DEF Pending, At
<1> QED BY <1>2, CallStep

LEMMA ReturnStep ==
  ASSUME RecordsInv, Sound, NEW c \in Call, Return(c)
  PROVE  RecordsInv'
<1>1. Idle \in CallRow /\ Idle.pc = "idle" /\ Become(c, Idle)
  BY DEF CallRow, Idle, Return
<1> HIDE DEF Idle
<1> QED BY <1>1, RowStep

LEMMA DirectSound == RecordsInv /\ Direct => Sound /\ UNCHANGED call
<1> SUFFICES ASSUME RecordsInv, Direct PROVE Sound /\ UNCHANGED call
  OBVIOUS
<1>0. /\ TablesOK /\ TablesInv
      /\ DOMAIN trips = Trip /\ DOMAIN stops = Stop /\ DOMAIN photos = Photo /\ DOMAIN routes = Route
  BY DEF RecordsInv, RecordsOK, TablesOK
<1>1. ASSUME NEW u \in User, ListTrips(u) PROVE Sound /\ UNCHANGED call
  BY <1>0, <1>1, ClaimSound DEF ListTrips
<1>2. ASSUME NEW u \in User, NewTrip(u) PROVE Sound /\ UNCHANGED call
  <2>1. New(trips) \in Trip
    BY <1>0, <1>2, NewIsUnused DEF NewTrip
  <2> QED BY <1>0, <1>2, <2>1, CreateTripSound DEF NewTrip
<1>3. ASSUME NEW t \in Trip, NewStop(t) PROVE Sound /\ UNCHANGED call
  <2>1. New(stops) \in Stop
    BY <1>0, <1>3, NewIsUnused DEF NewStop
  <2> QED BY <1>0, <1>3, <2>1, CreateStopSound DEF NewStop
<1>4. ASSUME NEW t \in Trip, NewPhoto(t) PROVE Sound /\ UNCHANGED call
  <2>1. New(photos) \in Photo
    BY <1>0, <1>4, NewIsUnused DEF NewPhoto
  <2> QED BY <1>0, <1>4, <2>1, CreatePhotoSound DEF NewPhoto
<1>5. ASSUME NEW t \in Trip, NewRoute(t) PROVE Sound /\ UNCHANGED call
  <2>1. New(routes) \in Route
    BY <1>0, <1>5, NewIsUnused DEF NewRoute
  <2> QED BY <1>0, <1>5, <2>1, CreateRouteSound DEF NewRoute
<1>6. ASSUME NEW p \in Photo, NEW s \in Stop \union {Null}, AssignPhoto(p, s) PROVE Sound /\ UNCHANGED call
  <2>1. s # Null => Live(stops[s]) /\ stops[s].trip = photos[p].trip
    BY <1>0, <1>6, OfStops DEF AssignPhoto
  <2> QED BY <1>0, <1>6, <2>1, SetPhotoStopIDSound DEF AssignPhoto
<1>7. ASSUME NEW t \in Trip, RemoveTrip(t) PROVE Sound /\ UNCHANGED call
  BY <1>0, <1>7, DeleteTripSound DEF RemoveTrip
<1>8. ASSUME NEW s \in Stop, RemoveStop(s) PROVE Sound /\ UNCHANGED call
  BY <1>0, <1>8, StopsGoneSound DEF RemoveStop, DeleteStop
<1>9. ASSUME NEW p \in Photo, RemovePhoto(p) PROVE Sound /\ UNCHANGED call
  BY <1>0, <1>9, DropPhotosSound DEF RemovePhoto, DeletePhoto
<1>10. ASSUME NEW r \in Route, RemoveRoute(r) PROVE Sound /\ UNCHANGED call
  BY <1>0, <1>10, LeavesGoneSound DEF RemoveRoute, DeleteRoute, DropRoutes
<1>11. ASSUME NEW k \in Comment, RemoveComment(k) PROVE Sound /\ UNCHANGED call
  BY <1>0, <1>11, LeavesGoneSound DEF RemoveComment, DeleteComment
<1> QED BY <1>1, <1>2, <1>3, <1>4, <1>5, <1>6, <1>7, <1>8, <1>9, <1>10, <1>11 DEF Direct

LEMMA BeginSound == RecordsInv /\ (\E c \in Call : Begin(c)) => RecordsInv' /\ Sound
<1> SUFFICES ASSUME RecordsInv, NEW c \in Call, Begin(c) PROVE RecordsInv' /\ Sound
  OBVIOUS
<1>0. TablesOK /\ TablesInv /\ RecordsOK
  BY DEF RecordsInv, RecordsOK
<1>1. ASSUME NEW row, Start(c, row)
      PROVE  /\ Sound /\ Become(c, row)
             /\ UNCHANGED <<stops, photos>> /\ call'[c] = row
  BY <1>0, <1>1, NothingDoneSound DEF Start, Become, tables, RecordsOK
<1>2. ASSUME NEW t \in Trip, UpdateTripBegin(c, t) PROVE RecordsInv' /\ Sound
  <2>1. PICK n \in Note, v \in View \union {Null}, p \in Of(photos, t) \union {Null, trips[t].cover} :
          Start(c, [pc |-> "update_trip", trip |-> t, note |-> n, cover |-> p,
                    view |-> IF v = Null THEN trips[t].view ELSE v])
    BY <1>2 DEF UpdateTripBegin
  <2>2. trips[t] \in TripRow /\ Live(trips[t])
    BY <1>0, <1>2, RowTypes DEF UpdateTripBegin, Owned
  <2>3. p \in Photo \union {Null} /\ (p # Null => Member(photos, p, t))
    BY <1>0, <2>2, OfPhotos, RowsLive, TablesInvIs DEF Covered, Member, Live
  <2> DEFINE w == IF v = Null THEN trips[t].view ELSE v
  <2>4. w \in View \union {Null}
    BY <2>2 DEF TripRow
  <2> DEFINE row == [pc |-> "update_trip", trip |-> t, note |-> n, cover |-> p, view |-> w]
  <2>5. row \in CallRow
    <3> HIDE DEF w
    <3> QED BY <2>3, <2>4 DEF CallRow
  <2>6. Pending(c)'
    BY <1>1, <2>1, <2>3 DEF Pending, At, Member
  <2> HIDE DEF row
  <2> QED BY <1>1, <2>1, <2>5, <2>6, CallStep DEF row
<1>3. ASSUME NEW t \in Trip, ResetBegin(c, t) PROVE RecordsInv' /\ Sound
  <2> DEFINE had == Of(photos, t) \union Of(stops, t) \union Of(routes, t)
                      \union {k \in Comment : Live(comments[k]) /\ comments[k].photo \in Of(photos, t)}
  <2> DEFINE row == [pc |-> "reset_photos", trip |-> t, failed |-> FALSE, had |-> had]
  <2>1. had \in SUBSET (Photo \union Stop \union Route \union Comment)
    BY <1>0 DEF Of, TablesOK
  <2>2. Start(c, row)
    BY <1>3 DEF ResetBegin
  <2> HIDE DEF had
  <2>3. row \in CallRow
    BY <2>1 DEF CallRow
  <2>4. row.pc = "reset_photos"
    OBVIOUS
  <2> HIDE DEF row
  <2> QED BY <1>1, <2>2, <2>3, <2>4, RowStep
<1>4. ASSUME NEW t \in Trip, NEW n \in Slug \union Trip, SlugBegin(c, t, n) PROVE RecordsInv' /\ Sound
  <2> DEFINE row == [pc |-> "slug", trip |-> t, slug |-> n]
  <2>1. row \in CallRow /\ row.pc = "slug" /\ Start(c, row)
    BY <1>4 DEF CallRow, SlugBegin
  <2> HIDE DEF row
  <2> QED BY <1>1, <2>1, RowStep
<1>5. ASSUME NEW s \in Stop, UpdateStopBegin(c, s) PROVE RecordsInv' /\ Sound
  <2>1. PICK n \in Note, v \in View \union {Null} :
          Start(c, [pc |-> "update_stop", stop |-> s, note |-> n, view |-> v])
    BY <1>5 DEF UpdateStopBegin
  <2> DEFINE row == [pc |-> "update_stop", stop |-> s, note |-> n, view |-> v]
  <2>2. row \in CallRow /\ row.pc = "update_stop" /\ Start(c, row)
    BY <2>1 DEF CallRow
  <2> HIDE DEF row
  <2> QED BY <1>1, <2>2, RowStep
<1>6. ASSUME NEW p \in Photo, NEW s \in Stop \union {Null}, NEW n \in Note, NEW v \in View \union {Null},
             NEW pc \in {"update_photo", "rescan"}, Live(photos[p]),
             s # Null => stops[s] # Null /\ (Live(stops[s]) => stops[s].trip = photos[p].trip),
             Start(c, [pc |-> pc, photo |-> p, stop |-> s, note |-> n, view |-> v])
      PROVE  RecordsInv' /\ Sound
  <2> DEFINE row == [pc |-> pc, photo |-> p, stop |-> s, note |-> n, view |-> v]
  <2>1. row \in CallRow
    BY DEF CallRow
  <2>2. Pending(c)'
    <3>1. UNCHANGED <<stops, photos>> /\ call'[c] = row
      BY <1>1, <1>6
    <3>2. photos[p] # Null
      BY <1>6, RowsLive
    <3> QED BY <1>6, <3>1, <3>2 DEF Pending, At
  <2>3. Start(c, row)
    BY <1>6
  <2> HIDE DEF row
  <2> QED BY <1>1, <2>1, <2>2, <2>3, CallStep
<1>7. ASSUME NEW p \in Photo, UpdatePhotoBegin(c, p) PROVE RecordsInv' /\ Sound
  <2>1. PICK s \in KnownStops(photos[p].trip), n \in Note, v \in View \union {Null} :
          Start(c, [pc |-> "update_photo", photo |-> p, stop |-> s, note |-> n, view |-> v])
    BY <1>7 DEF UpdatePhotoBegin
  <2>2. s \in Stop \union {Null}
    BY DEF KnownStops
  <2>3. s # Null => stops[s] # Null /\ (Live(stops[s]) => stops[s].trip = photos[p].trip)
    BY <1>0, OfStops, RowsLive DEF KnownStops
  <2>4. Live(photos[p])
    BY <1>7 DEF UpdatePhotoBegin
  <2> QED BY <1>6, <2>1, <2>2, <2>3, <2>4
<1>8. ASSUME NEW p \in Photo, RescanBegin(c, p) PROVE RecordsInv' /\ Sound
  <2>1. Live(photos[p]) /\ photos[p] \in PhotoRow
        /\ Start(c, [pc |-> "rescan", photo |-> p, stop |-> photos[p].stop,
                     note |-> photos[p].note, view |-> photos[p].view])
    BY <1>0, <1>8, RowTypes DEF RescanBegin
  <2>2. photos[p].stop \in Stop \union {Null} /\ photos[p].note \in Note /\ photos[p].view \in View \union {Null}
    BY <2>1 DEF PhotoRow
  <2>3. photos[p].stop # Null =>
          stops[photos[p].stop] # Null /\ (Live(stops[photos[p].stop]) => stops[photos[p].stop].trip = photos[p].trip)
    BY <1>0, <2>1, TablesInvIs, RowsLive DEF Linked
  <2> QED BY <1>6, <2>1, <2>2, <2>3
<1>9. ASSUME NEW t \in Trip, NEW p \in Photo, CommentBegin(c, t, p), Live(photos[p]), photos[p].trip = t
      PROVE  RecordsInv' /\ Sound
  <2> DEFINE row == [pc |-> "comment", trip |-> t, photo |-> p]
  <2>1. row \in CallRow /\ Start(c, row)
    BY <1>9 DEF CallRow, CommentBegin
  <2>2. Pending(c)'
    <3>1. UNCHANGED <<stops, photos>> /\ call'[c] = row
      BY <1>1, <2>1
    <3> QED BY <1>9, <3>1, RowsLive DEF Pending, At, Member
  <2> HIDE DEF row
  <2> QED BY <1>1, <2>1, <2>2, CallStep
<1>10. ASSUME NEW p \in Photo, CommentByOwner(c, p) PROVE RecordsInv' /\ Sound
  <2>1. Live(photos[p]) /\ photos[p].trip \in Trip /\ CommentBegin(c, photos[p].trip, p)
    BY <1>0, <1>10, TablesInvIs DEF CommentByOwner, Linked
  <2> QED BY <1>9, <2>1
<1>11. ASSUME NEW p \in Photo, NEW n \in Slug \union Trip, CommentByShare(c, n, p) \/ CommentByPresent(c, n, p)
       PROVE  RecordsInv' /\ Sound
  <2>1. PICK t \in Trip : PhotoOfTrip(p, t) /\ CommentBegin(c, t, p)
    BY <1>11 DEF CommentByShare, CommentByPresent, Present, GetTripByPresentSlug, GetTripByShareID
  <2> QED BY <1>9, <2>1 DEF PhotoOfTrip
<1> QED BY <1>2, <1>3, <1>4, <1>5, <1>7, <1>8, <1>10, <1>11 DEF Begin

LEMMA FinishSound == RecordsInv /\ (\E c \in Call : Finish(c)) => RecordsInv' /\ Sound
<1> SUFFICES ASSUME RecordsInv, NEW c \in Call, Finish(c) PROVE RecordsInv' /\ Sound
  OBVIOUS
<1>0. TablesOK /\ TablesInv /\ RecordsOK /\ Pending(c)
  BY DEF RecordsInv, RecordsOK
<1>1. ASSUME Sound, Return(c) PROVE RecordsInv' /\ Sound
  BY <1>1, ReturnStep
<1>2. CASE SlugRefused(c) \/ UpdatePhotoRefused(c) \/ CommentRefused(c) \/ ResetDone(c)
  BY <1>0, <1>1, <1>2, NothingDoneSound DEF SlugRefused, UpdatePhotoRefused, CommentRefused, ResetDone, Give
<1>3. CASE UpdateTripWrite(c)
  BY <1>0, <1>1, <1>3, CallTypes, UpdateTripSound DEF UpdateTripWrite, Pending
<1>4. CASE SlugWrite(c)
  BY <1>0, <1>1, <1>4, CallTypes, UpdatePresentSlugSound DEF SlugWrite
<1>5. CASE UpdateStopWrite(c)
  BY <1>0, <1>1, <1>5, CallTypes, UpdateStopSound DEF UpdateStopWrite
<1>6. CASE UpdatePhotoWrite(c)
  <2>1. /\ call[c].photo \in Photo /\ call[c].stop \in Stop \union {Null}
        /\ call[c].note \in Note /\ call[c].view \in View \union {Null}
        /\ UpdatePhoto(call[c].photo, call[c].stop, call[c].note, call[c].view) /\ Return(c)
    BY <1>0, <1>6, CallTypes DEF UpdatePhotoWrite
  <2>2. Live(photos[call[c].photo]) /\ call[c].stop # Null =>
          Live(stops[call[c].stop]) /\ stops[call[c].stop].trip = photos[call[c].photo].trip
    BY <1>0, <1>6 DEF UpdatePhotoWrite, Pending, StopExists
  <2>3. Sound
    BY <1>0, <2>1, <2>2, UpdatePhotoSound
  <2> QED BY <1>1, <2>1, <2>3
<1>7. CASE CommentWrite(c)
  <2>1. /\ call[c].trip \in Trip /\ call[c].photo \in Photo /\ New(comments) \in Comment
        /\ CreateComment(New(comments), call[c].trip, call[c].photo) /\ Return(c)
    BY <1>0, <1>7, CallTypes, NewIsUnused DEF CommentWrite, TablesOK
  <2>2. Live(photos[call[c].photo]) => photos[call[c].photo].trip = call[c].trip
    BY <1>0, <1>7 DEF CommentWrite, Pending, Member
  <2>3. Sound
    BY <1>0, <2>1, <2>2, CreateCommentSound
  <2> QED BY <1>1, <2>1, <2>3
<1>8. ASSUME NEW pc \in ResetPc, NEW next \in ResetPc, At(c, pc), Sound,
             \/ Become(c, [call[c] EXCEPT !.pc = next])
             \/ Become(c, [call[c] EXCEPT !.pc = next, !.failed = TRUE])
      PROVE  RecordsInv' /\ Sound
  <2>2. call[c] \in [pc : ResetPc, trip : Trip, had : SUBSET (Photo \union Stop \union Route \union Comment),
                     failed : BOOLEAN]
    BY <1>0, <1>8, CallTypes DEF At
  <2>3. ASSUME NEW row, row = [call[c] EXCEPT !.pc = next] \/ row = [call[c] EXCEPT !.pc = next, !.failed = TRUE],
               Become(c, row)
        PROVE  RecordsInv'
    <3>1. row \in [pc : ResetPc, trip : Trip, had : SUBSET (Photo \union Stop \union Route \union Comment),
                   failed : BOOLEAN] /\ row.pc = next
      BY <2>2, <2>3
    <3>2. row \in CallRow /\ row.pc \notin {"update_trip", "update_photo", "rescan", "comment"}
      BY <3>1 DEF CallRow, ResetPc
    <3> QED BY <1>8, <2>3, <3>2, RowStep
  <2> QED BY <1>8, <2>3
<1>9. call[c].pc \in ResetPc => call[c].trip \in Trip
  BY <1>0, CallTypes
<1>10. CASE ResetPhotos(c)
  <2>1. Sound
    BY <1>0, <1>10, DropPhotosSound, NothingDoneSound DEF ResetPhotos, ResetStatement, DeletePhotosByTrip
  <2> QED BY <1>8, <1>10, <2>1 DEF ResetPhotos, ResetStatement, ResetPc
<1>11. CASE ResetStops(c)
  <2>1. Sound
    BY <1>0, <1>11, StopsGoneSound, NothingDoneSound DEF ResetStops, ResetStatement, DeleteStopsByTrip
  <2> QED BY <1>8, <1>11, <2>1 DEF ResetStops, ResetStatement, ResetPc
<1>12. CASE ResetRoutes(c)
  <2>1. Sound
    BY <1>0, <1>12, LeavesGoneSound, NothingDoneSound DEF ResetRoutes, ResetStatement, DeleteRoutesByTrip, DropRoutes
  <2> QED BY <1>8, <1>12, <2>1 DEF ResetRoutes, ResetStatement, ResetPc
<1>13. CASE ResetDefaults(c)
  <2>1. Sound
    BY <1>0, <1>13, <1>9, ResetTripDefaultsSound, NothingDoneSound DEF ResetDefaults, ResetStatement, At, ResetPc
  <2> QED BY <1>8, <1>13, <2>1 DEF ResetDefaults, ResetStatement, ResetPc
<1> QED BY <1>2, <1>3, <1>4, <1>5, <1>6, <1>7, <1>10, <1>11, <1>12, <1>13 DEF Finish

------------------------------------------------------------------------------
(* The specification.                                                        *)

LEMMA RecordsInitially == RecordsInit => RecordsInv
<1> SUFFICES ASSUME RecordsInit PROVE RecordsInv
  OBVIOUS
<1>1. /\ \A t \in Trip : Live(trips[t]) => trips[t].cover = Null /\ trips[t].slug = Null
      /\ trips \in [Trip -> TripRow \union {Null, Gone}]
  <2>1. trips \in [Trip -> {Null} \union
                   [owner : {Null}, note : Note, cover : {Null}, view : {Null}, slug : {Null}]]
    BY DEF RecordsInit
  <2>2. \A row \in [owner : {Null}, note : Note, cover : {Null}, view : {Null}, slug : {Null}] :
          row \in TripRow /\ row.cover = Null /\ row.slug = Null
    BY DEF TripRow
  <2> QED BY <2>1, <2>2, RowsLive
<1>2. /\ stops = [s \in Stop |-> Null] /\ photos = [p \in Photo |-> Null]
      /\ routes = [r \in Route |-> Null] /\ comments = [k \in Comment |-> Null]
      /\ call = [c \in Call |-> Idle]
  BY DEF RecordsInit
<1>3. TablesOK
  BY <1>1, <1>2 DEF TablesOK
<1>4. call \in [Call -> CallRow] /\ \A c \in Call : call[c].pc = "idle"
  BY <1>2 DEF CallRow, Idle
<1>5. Linked /\ Covered
  BY <1>1, <1>2, RowsLive DEF Linked, Covered
<1>6. NamesAreDistinct
  BY <1>1 DEF NamesAreDistinct
<1>7. \A c \in Call : Pending(c)
  BY <1>4 DEF Pending, At
<1> QED BY <1>3, <1>4, <1>5, <1>6, <1>7, TablesInvIs DEF RecordsInv, RecordsOK

LEMMA RecordsStep == RecordsInv /\ [RecordsNext]_recordVars => RecordsInv' /\ Sound
<1> SUFFICES ASSUME RecordsInv, [RecordsNext]_recordVars PROVE RecordsInv' /\ Sound
  OBVIOUS
<1>1. CASE Direct
  BY <1>1, DirectSound, DirectStep DEF Sound
<1>2. CASE \E c \in Call : Begin(c) \/ Finish(c)
  BY <1>2, BeginSound, FinishSound
<1>3. CASE Restart
  <2>1. Sound
    BY <1>3, NothingDoneSound DEF Restart, RecordsInv, RecordsOK
  <2>2. call' \in [Call -> CallRow] /\ \A c \in Call : call'[c].pc = "idle"
    BY <1>3 DEF Restart, CallRow, Idle
  <2>3. \A c \in Call : Pending(c)'
    BY <2>2 DEF Pending, At
  <2> QED BY <2>1, <2>2, <2>3 DEF RecordsInv, RecordsOK, Sound, Written
<1>4. CASE UNCHANGED recordVars
  <2>1. Sound
    BY <1>4, NothingDoneSound DEF recordVars, tables, RecordsInv, RecordsOK
  <2> QED BY <1>4, <2>1, DirectStep DEF recordVars, Sound
<1> QED BY <1>1, <1>2, <1>3, <1>4 DEF RecordsNext

LEMMA RecordsInvariant == RecordsSpec => []RecordsInv
BY RecordsInitially, RecordsStep, PTL DEF RecordsSpec

\* Rows and requests keep their types.
THEOREM RecordsTypes == RecordsSpec => []RecordsOK
<1>1. RecordsInv => RecordsOK
  BY DEF RecordsInv
<1> QED BY <1>1, RecordsInvariant, PTL

\* A photo's stop is there and of the photo's trip, however late updates,
\* rescans and assignments write (server.go:2099, 2209).
THEOREM StopsAreOfTheTrip == RecordsSpec => []StopsOfOwnTrip
<1>1. RecordsInv => StopsOfOwnTrip
  BY DEF RecordsInv, TablesInv
<1> QED BY <1>1, RecordsInvariant, PTL

\* No row outlives its trip and no comment its photo, whatever statement comes
\* after the deletion (server.go:1103, 2477-2484, 2934).
THEOREM NothingIsLeft == RecordsSpec => []NothingOutlivesItsTrip
<1>1. RecordsInv => NothingOutlivesItsTrip
  BY DEF RecordsInv, TablesInv
<1> QED BY <1>1, RecordsInvariant, PTL

\* A cover is a photo of the trip, or one that is gone (server.go:1069).
THEOREM CoversAreOfTheTrip == RecordsSpec => []CoversOfOwnTrip
<1>1. RecordsInv => CoversOfOwnTrip
  BY DEF RecordsInv, TablesInv
<1> QED BY <1>1, RecordsInvariant, PTL

\* A comment is in the trip of its photo, whatever becomes of the name in the
\* link between the check and the INSERT (server.go:1256, 2893, 2917).
THEOREM CommentsAreOfTheTrip == RecordsSpec => []CommentsOfOwnTrip
<1>1. RecordsInit => CommentsOfOwnTrip
  BY RowsLive DEF RecordsInit, CommentsOfOwnTrip
<1>2. RecordsInv /\ CommentsOfOwnTrip /\ [RecordsNext]_recordVars => CommentsOfOwnTrip'
  BY RecordsStep DEF Sound
<1> QED BY <1>1, <1>2, RecordsInvariant, PTL DEF RecordsSpec

\* No presentation name leads to two trips, for any number of requests for it
\* at once (server.go:1173-1185).
THEOREM NamesStayDistinct == RecordsSpec => []NamesAreDistinct
<1>1. RecordsInv => NamesAreDistinct
  BY DEF RecordsInv, TablesInv
<1> QED BY <1>1, RecordsInvariant, PTL

\* A trip that somebody owns stays that user's (server.go:954).
THEOREM OwnersNeverChange == RecordsSpec => OwnersStay
<1>1. RecordsInv /\ [RecordsNext]_recordVars => [OwnersKept]_trips
  BY RecordsStep DEF Sound, Written, TripsKept
<1>2. OwnersStay <=> [][OwnersKept]_trips
  BY DEF OwnersStay, OwnersKept
<1> QED BY <1>1, <1>2, RecordsInvariant, PTL DEF RecordsSpec

------------------------------------------------------------------------------
(* Resets.                                                                   *)

\* What reset c found is of its trip, and what its statements have gone over
\* without an error is gone.
Clearing(c) ==
    call[c].pc \in ResetPc =>
        /\ \A x \in call[c].had :
             /\ x \in Photo => Member(photos, x, call[c].trip)
             /\ x \in Stop => Member(stops, x, call[c].trip)
             /\ x \in Route => Member(routes, x, call[c].trip)
             /\ x \in Comment => Member(comments, x, call[c].trip)
        /\ ~call[c].failed => \A x \in call[c].had :
             /\ ~At(c, "reset_photos") =>
                  (x \in Photo => photos[x] = Gone) /\ (x \in Comment => comments[x] = Gone)
             /\ call[c].pc \notin {"reset_photos", "reset_stops"} => (x \in Stop => stops[x] = Gone)
             /\ call[c].pc \notin {"reset_photos", "reset_stops", "reset_routes"} =>
                  (x \in Route => routes[x] = Gone)

LEMMA KeptFacts ==
  ASSUME RecordsOK, RowsKept
  PROVE  /\ \A x \in Photo : photos[x] = Gone => photos'[x] = Gone
         /\ \A x \in Stop : stops[x] = Gone => stops'[x] = Gone
         /\ \A x \in Route : routes[x] = Gone => routes'[x] = Gone
         /\ \A x \in Comment : comments[x] = Gone => comments'[x] = Gone
         /\ \A x \in Photo : \A t : Member(photos, x, t) => Member(photos', x, t)
         /\ \A x \in Stop : \A t : Member(stops, x, t) => Member(stops', x, t)
         /\ \A x \in Route : \A t : Member(routes, x, t) => Member(routes', x, t)
         /\ \A x \in Comment : \A t : Member(comments, x, t) => Member(comments', x, t)
<1>0. DOMAIN stops = Stop /\ DOMAIN photos = Photo /\ DOMAIN routes = Route /\ DOMAIN comments = Comment
  BY DEF RecordsOK, TablesOK
<1>1. ASSUME NEW old, NEW new, Kept(old, new), NEW x \in DOMAIN old, old[x] = Gone PROVE new[x] = Gone
  BY <1>1, RowsLive DEF Kept, Live
<1>2. ASSUME NEW old, NEW new, Kept(old, new), NEW x \in DOMAIN old, NEW t, Member(old, x, t)
      PROVE  Member(new, x, t)
  BY <1>2 DEF Kept, Member
<1> QED BY <1>0, <1>1, <1>2 DEF RowsKept

\* A request goes on clearing while its row stays, whatever else happens.
LEMMA ClearingKept ==
  ASSUME RecordsOK, RowsKept, NEW c \in Call, Clearing(c), call'[c] = call[c]
  PROVE  Clearing(c)'
<1>1. ASSUME call[c].pc \in ResetPc, NEW x \in call[c].had
      PROVE  /\ x \in Photo => Member(photos', x, call[c].trip)
             /\ x \in Stop => Member(stops', x, call[c].trip)
             /\ x \in Route => Member(routes', x, call[c].trip)
             /\ x \in Comment => Member(comments', x, call[c].trip)
  BY <1>1, KeptFacts DEF Clearing
<1>2. ASSUME call[c].pc \in ResetPc, ~call[c].failed, NEW x \in call[c].had
      PROVE  /\ ~At(c, "reset_photos") =>
                  (x \in Photo => photos'[x] = Gone) /\ (x \in Comment => comments'[x] = Gone)
             /\ call[c].pc \notin {"reset_photos", "reset_stops"} => (x \in Stop => stops'[x] = Gone)
             /\ call[c].pc \notin {"reset_photos", "reset_stops", "reset_routes"} =>
                  (x \in Route => routes'[x] = Gone)
  BY <1>2, KeptFacts DEF Clearing
<1> QED BY <1>1, <1>2 DEF Clearing, At, Member

\* A statement of a reset has gone over what it is for.
LEMMA ResetStatementClears ==
  ASSUME RecordsInv, RowsKept, NEW c \in Call, Clearing(c), NEW pc \in ResetPc, NEW next \in ResetPc, At(c, pc),
         \/ Become(c, [call[c] EXCEPT !.pc = next, !.failed = TRUE])
         \/ /\ Become(c, [call[c] EXCEPT !.pc = next])
            /\ \A x \in call[c].had :
                 /\ pc = "reset_photos" => (x \in Photo => photos'[x] = Gone) /\ (x \in Comment => comments'[x] = Gone)
                 /\ pc = "reset_stops" => (x \in Stop => stops'[x] = Gone)
                 /\ pc = "reset_routes" => (x \in Route => routes'[x] = Gone),
         <<pc, next>> \in {<<"reset_photos", "reset_stops">>, <<"reset_stops", "reset_routes">>,
                           <<"reset_routes", "reset_defaults">>, <<"reset_defaults", "reset_done">>}
  PROVE  Clearing(c)'
<1>0. RecordsOK /\ call \in [Call -> CallRow]
  BY DEF RecordsInv, RecordsOK
<1>1. call[c] \in [pc : ResetPc, trip : Trip, had : SUBSET (Photo \union Stop \union Route \union Comment),
                   failed : BOOLEAN]
  BY <1>0, CallTypes DEF At
<1>2. call'[c].pc = next /\ call'[c].trip = call[c].trip /\ call'[c].had = call[c].had
  BY <1>0, <1>1 DEF Become
<1>3. ~call'[c].failed =>
        /\ ~call[c].failed
        /\ \A x \in call[c].had :
             /\ pc = "reset_photos" => (x \in Photo => photos'[x] = Gone) /\ (x \in Comment => comments'[x] = Gone)
             /\ pc = "reset_stops" => (x \in Stop => stops'[x] = Gone)
             /\ pc = "reset_routes" => (x \in Route => routes'[x] = Gone)
  BY <1>0, <1>1 DEF Become
<1>4. \A x \in call[c].had :
        /\ x \in Photo => Member(photos', x, call[c].trip)
        /\ x \in Stop => Member(stops', x, call[c].trip)
        /\ x \in Route => Member(routes', x, call[c].trip)
        /\ x \in Comment => Member(comments', x, call[c].trip)
  BY <1>0, KeptFacts DEF Clearing, At
<1>5. ASSUME ~call'[c].failed, NEW x \in call[c].had
      PROVE  /\ (x \in Photo => photos'[x] = Gone) /\ (x \in Comment => comments'[x] = Gone)
             /\ next # "reset_stops" => (x \in Stop => stops'[x] = Gone)
             /\ next \notin {"reset_stops", "reset_routes"} => (x \in Route => routes'[x] = Gone)
  <2>1. /\ pc # "reset_photos" => (x \in Photo => photos[x] = Gone) /\ (x \in Comment => comments[x] = Gone)
        /\ pc \notin {"reset_photos", "reset_stops"} => (x \in Stop => stops[x] = Gone)
        /\ pc \notin {"reset_photos", "reset_stops", "reset_routes"} => (x \in Route => routes[x] = Gone)
    BY <1>3, <1>5 DEF Clearing, At
  <2> QED BY <1>0, <1>3, <1>5, <2>1, KeptFacts
<1> QED BY <1>2, <1>4, <1>5 DEF Clearing, At, Member

LEMMA ResetBegins ==
  ASSUME RecordsInv, CommentsOfOwnTrip, NEW c \in Call, NEW t \in Trip, ResetBegin(c, t)
  PROVE  Clearing(c)'
<1>0. TablesOK /\ TablesInv /\ call \in [Call -> CallRow]
      /\ routes \in [Route -> RouteRow \union {Null, Gone}] /\ comments \in [Comment -> CommentRow \union {Null, Gone}]
  BY DEF RecordsInv, RecordsOK, TablesOK
<1> DEFINE on == {k \in Comment : Live(comments[k]) /\ comments[k].photo \in Of(photos, t)}
<1> DEFINE had == Of(photos, t) \union Of(stops, t) \union Of(routes, t) \union on
<1>1. /\ call'[c] = [pc |-> "reset_photos", trip |-> t, failed |-> FALSE, had |-> had]
      /\ UNCHANGED <<photos, stops, routes, comments>>
  BY <1>0 DEF ResetBegin, Start, Become, tables
<1>2. Of(photos, t) \subseteq Photo /\ Of(stops, t) \subseteq Stop /\ Of(routes, t) \subseteq Route /\ on \subseteq Comment
  BY <1>0, OfPhotos, OfStops DEF Of
<1>3. \A x \in Of(photos, t) : Member(photos, x, t)
  BY <1>0, OfPhotos, RowsLive DEF Member
<1>4. \A x \in Of(stops, t) : Member(stops, x, t)
  BY <1>0, OfStops, RowsLive DEF Member
<1>5. \A x \in Of(routes, t) : Member(routes, x, t)
  BY RowsLive DEF Member, Of
<1>6. \A x \in on : Member(comments, x, t)
  <2> SUFFICES ASSUME NEW x \in on PROVE comments[x] # Null /\ comments[x].trip = t
    BY DEF Member
  <2>1. Live(comments[x]) /\ x \in Comment /\ comments[x].photo \in Of(photos, t)
    OBVIOUS
  <2>2. comments[x].photo \in Of(photos, comments[x].trip)
    BY <1>0, <2>1 DEF CommentsOfOwnTrip
  <2> QED BY <1>0, <2>1, <2>2, OfPhotos, RowsLive
<1>7. /\ call'[c].pc = "reset_photos" /\ call'[c].trip = t /\ call'[c].had = had
  BY <1>1
<1> HIDE DEF on
<1>8. \A x \in had :
        /\ x \in Photo => Member(photos, x, t)
        /\ x \in Stop => Member(stops, x, t)
        /\ x \in Route => Member(routes, x, t)
        /\ x \in Comment => Member(comments, x, t)
  BY <1>2, <1>3, <1>4, <1>5, <1>6, IdsAssumption
<1> HIDE DEF had
<1> QED BY <1>1, <1>7, <1>8 DEF Clearing, At, Member

LEMMA ResetClearsMore ==
  ASSUME RecordsInv, CommentsOfOwnTrip, RowsKept, NEW c \in Call, Clearing(c),
         ResetPhotos(c) \/ ResetStops(c) \/ ResetRoutes(c) \/ ResetDefaults(c)
  PROVE  Clearing(c)'
<1>0. TablesOK /\ TablesInv /\ RecordsOK
  BY DEF RecordsInv, RecordsOK
<1>P. ResetPc = {"reset_photos", "reset_stops", "reset_routes", "reset_defaults", "reset_done"}
  BY DEF ResetPc
<1>W. ASSUME NEW table, NEW x \in DOMAIN table, NEW t, Member(table, x, t) PROVE Without(table, Of(table, t))[x] = Gone
  BY <1>W, RowsLive DEF Member, Without, Of, Live
<1>1. CASE ResetPhotos(c)
  <2>1. At(c, "reset_photos") /\ call[c].pc \in ResetPc
    BY <1>1, <1>P DEF ResetPhotos, ResetStatement, At
  <2>2. ASSUME DeletePhotosByTrip(call[c].trip), NEW x \in call[c].had
        PROVE  (x \in Photo => photos'[x] = Gone) /\ (x \in Comment => comments'[x] = Gone)
    <3>1. photos' = Without(photos, Of(photos, call[c].trip)) /\ DOMAIN photos = Photo
      BY <1>0, <2>2 DEF DeletePhotosByTrip, DropPhotos, TablesOK
    <3>2. x \in Photo => photos'[x] = Gone
      BY <1>W, <2>1, <3>1 DEF Clearing
    <3> DEFINE on == {k \in Comment : Live(comments[k]) /\ comments[k].photo \in Of(photos, call[c].trip)}
    <3>3. comments' = Without(comments, on) /\ DOMAIN comments = Comment
      BY <1>0, <2>2 DEF DeletePhotosByTrip, DropPhotos, TablesOK
    <3>4. ASSUME x \in Comment PROVE comments'[x] = Gone
      <4>1. Member(comments, x, call[c].trip)
        BY <2>1, <3>4 DEF Clearing
      <4>2. CASE Live(comments[x])
        <5>1. comments[x].photo \in Of(photos, call[c].trip)
          BY <1>0, <3>4, <4>1, <4>2 DEF CommentsOfOwnTrip, Member
        <5>2. x \in on
          BY <3>4, <4>2, <5>1
        <5> HIDE DEF on
        <5> QED BY <3>3, <3>4, <5>2 DEF Without
      <4>3. CASE ~Live(comments[x])
        <5> HIDE DEF on
        <5> QED BY <3>3, <3>4, <4>1, <4>3 DEF Without, Member, Live
      <4> QED BY <4>2, <4>3
    <3> QED BY <3>2, <3>4
  <2> QED BY <1>1, <1>P, <2>1, <2>2, ResetStatementClears DEF ResetPhotos, ResetStatement
<1>2. CASE ResetStops(c)
  <2>1. At(c, "reset_stops") /\ call[c].pc \in ResetPc
    BY <1>2, <1>P DEF ResetStops, ResetStatement, At
  <2>2. ASSUME DeleteStopsByTrip(call[c].trip), NEW x \in call[c].had PROVE x \in Stop => stops'[x] = Gone
    <3>1. stops' = Without(stops, Of(stops, call[c].trip)) /\ DOMAIN stops = Stop
      BY <1>0, <2>2 DEF DeleteStopsByTrip, TablesOK
    <3> QED BY <1>W, <2>1, <3>1 DEF Clearing
  <2> QED BY <1>2, <1>P, <2>1, <2>2, ResetStatementClears DEF ResetStops, ResetStatement
<1>3. CASE ResetRoutes(c)
  <2>1. At(c, "reset_routes") /\ call[c].pc \in ResetPc
    BY <1>3, <1>P DEF ResetRoutes, ResetStatement, At
  <2>2. ASSUME DeleteRoutesByTrip(call[c].trip), NEW x \in call[c].had PROVE x \in Route => routes'[x] = Gone
    <3>1. routes' = Without(routes, Of(routes, call[c].trip)) /\ DOMAIN routes = Route
      BY <1>0, <2>2 DEF DeleteRoutesByTrip, DropRoutes, TablesOK
    <3> QED BY <1>W, <2>1, <3>1 DEF Clearing
  <2> QED BY <1>3, <1>P, <2>1, <2>2, ResetStatementClears DEF ResetRoutes, ResetStatement
<1>4. CASE ResetDefaults(c)
  BY <1>4, <1>P, ResetStatementClears DEF ResetDefaults, ResetStatement
<1> QED BY <1>1, <1>2, <1>3, <1>4

ClearingInv == \A c \in Call : Clearing(c)

LEMMA ClearingStep ==
  RecordsInv /\ CommentsOfOwnTrip /\ ClearingInv /\ [RecordsNext]_recordVars => ClearingInv'
<1> SUFFICES ASSUME RecordsInv, CommentsOfOwnTrip, ClearingInv, [RecordsNext]_recordVars, NEW d \in Call
             PROVE  Clearing(d)'
  BY DEF ClearingInv
<1>0. RecordsOK /\ RowsKept /\ Clearing(d) /\ call \in [Call -> CallRow]
  BY RecordsStep DEF RecordsInv, RecordsOK, Sound, Written, ClearingInv
<1>1. CASE call'[d] = call[d]
  BY <1>0, <1>1, ClearingKept
<1>2. CASE call'[d].pc \notin ResetPc
  BY <1>2 DEF Clearing
<1>3. CASE \E t \in Trip : ResetBegin(d, t)
  BY <1>3, ResetBegins
<1>4. CASE ResetPhotos(d) \/ ResetStops(d) \/ ResetRoutes(d) \/ ResetDefaults(d)
  BY <1>0, <1>4, ResetClearsMore
<1>5. ASSUME NEW c \in Call, NEW row, Become(c, row)
      PROVE  call'[d] = call[d] \/ (c = d /\ call'[d] = row)
  BY <1>0, <1>5 DEF Become
<1>6. ASSUME NEW c \in Call, Begin(c)
      PROVE  call'[d] = call[d] \/ call'[d].pc \notin ResetPc \/ \E t \in Trip : ResetBegin(d, t)
  <2>1. ASSUME NEW t \in Trip, ResetBegin(c, t)
        PROVE  call'[d] = call[d] \/ \E u \in Trip : ResetBegin(d, u)
    BY <1>5, <2>1 DEF ResetBegin, Start
  <2>2. ASSUME NEW t \in Trip, UpdateTripBegin(c, t) PROVE call'[d] = call[d] \/ call'[d].pc = "update_trip"
    BY <1>5, <2>2 DEF UpdateTripBegin, Start
  <2>3. ASSUME NEW t \in Trip, NEW n, SlugBegin(c, t, n) PROVE call'[d] = call[d] \/ call'[d].pc = "slug"
    BY <1>5, <2>3 DEF SlugBegin, Start
  <2>4. ASSUME NEW s \in Stop, UpdateStopBegin(c, s) PROVE call'[d] = call[d] \/ call'[d].pc = "update_stop"
    BY <1>5, <2>4 DEF UpdateStopBegin, Start
  <2>5. ASSUME NEW p \in Photo, UpdatePhotoBegin(c, p) \/ RescanBegin(c, p)
        PROVE  call'[d] = call[d] \/ call'[d].pc \in {"update_photo", "rescan"}
    <3>1. ASSUME NEW stop, NEW n, NEW v, NEW pc \in {"update_photo", "rescan"},
                 Become(c, [pc |-> pc, photo |-> p, stop |-> stop, note |-> n, view |-> v])
          PROVE  call'[d] = call[d] \/ call'[d].pc \in {"update_photo", "rescan"}
      BY <1>5, <3>1
    <3> QED BY <2>5, <3>1 DEF UpdatePhotoBegin, RescanBegin, Start
  <2>6. ASSUME NEW p \in Photo, NEW n, CommentByOwner(c, p) \/ CommentByShare(c, n, p) \/ CommentByPresent(c, n, p)
        PROVE  call'[d] = call[d] \/ call'[d].pc = "comment"
    <3>1. ASSUME NEW t, Become(c, [pc |-> "comment", trip |-> t, photo |-> p])
          PROVE  call'[d] = call[d] \/ call'[d].pc = "comment"
      BY <1>5, <3>1
    <3> QED BY <2>6, <3>1 DEF CommentByOwner, CommentByShare, CommentByPresent, CommentBegin, Start
  <2>7. ASSUME NEW p \in Photo, CommentByOwner(c, p) PROVE call'[d] = call[d] \/ call'[d].pc = "comment"
    BY <2>6, <2>7
  <2> QED BY <1>6, <2>1, <2>2, <2>3, <2>4, <2>5, <2>6, <2>7 DEF Begin, ResetPc
<1>7. ASSUME NEW c \in Call, Finish(c)
      PROVE  \/ call'[d] = call[d] \/ call'[d].pc \notin ResetPc
             \/ ResetPhotos(d) \/ ResetStops(d) \/ ResetRoutes(d) \/ ResetDefaults(d)
  <2>1. ASSUME Return(c) PROVE call'[d] = call[d] \/ call'[d].pc \notin ResetPc
    BY <1>5, <2>1 DEF Return, Idle, ResetPc
  <2>2. CASE ResetPhotos(c) \/ ResetStops(c) \/ ResetRoutes(c) \/ ResetDefaults(c)
    <3>1. c = d \/ call'[d] = call[d]
      BY <1>5, <2>2 DEF ResetPhotos, ResetStops, ResetRoutes, ResetDefaults, ResetStatement
    <3> QED BY <2>2, <3>1
  <2> QED BY <1>7, <2>1, <2>2 DEF Finish, UpdateTripWrite, SlugWrite, SlugRefused, UpdateStopWrite,
             UpdatePhotoWrite, UpdatePhotoRefused, CommentWrite, CommentRefused, ResetDone, Give
<1>8. CASE Direct \/ UNCHANGED recordVars
  BY <1>1, <1>8, DirectSound DEF recordVars
<1>9. CASE Restart
  BY <1>2, <1>9 DEF Restart, Idle, ResetPc
<1> QED BY <1>1, <1>2, <1>3, <1>4, <1>6, <1>7, <1>8, <1>9 DEF RecordsNext

\* A reset that answers without an error on the way has left nothing of what the
\* trip had when it began, whatever was created or deleted beside it
\* (server.go:2461-2501).
THEOREM ResetsClear == RecordsSpec => []ResetClears
<1>1. RecordsInit => ClearingInv
  BY DEF RecordsInit, ClearingInv, Clearing, Idle, ResetPc
<1>2. ClearingInv => ResetClears
  BY DEF ClearingInv, Clearing, ResetClears, At, ResetPc
<1> QED BY <1>1, <1>2, ClearingStep, RecordsInvariant, CommentsAreOfTheTrip, PTL DEF RecordsSpec

================================================================================
