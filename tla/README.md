# Verification of My Travels

TLA+ models of the server in `src/srv` and of the page in
`src/srv/templates/index.html`, TLC runs over small instances of them, and TLAPS
proofs for instances of any size.

My Travels is a travel journal: trips hold stops, photos and videos, routes and
comments. A Go process serves a single page and a JSON API, keeps its records in
SQLite and the media in a directory, and runs under systemd with
`Restart=always`. It is a small program with no transactions and few locks, and
what is hard about it comes from that: an operation is a sequence of SQL
statements, file operations and web requests, each of which takes effect at
once, and any of which may be the last one that happens.

## 1. The system

### Components

| Component | State | Operations | Correct when |
|---|---|---|---|
| Chunked uploads, `server.go:1756-2066` | the table `s.chunkedUploads` under `chunkedMu`; temp files `_chunks_<id>` | init, chunk, complete; eviction by a goroutine every 10 minutes | an upload has one owner at a time, becomes at most one photo with all acknowledged chunks, and leaves no temp file |
| Photo and video files, `server.go:1545-1750, 2121-2148, 2351-2501, 1088-1108`, `backup.go:416-437` | rows in `photos`, files in `UploadDir` and `UploadDir/thumbs` | upload, import, thumbnail, delete photo, reset trip, delete trip | a row has its file, a file its row, a thumbnail its file |
| Stops and their order, `server.go:1278-1490, 2246-2345, 2682-2822`, `resort_photos.go` | rows in `stops`, `photos.stop_id` and `stop_order` | create, insert, edit, delete a stop; assign and reorder photos; sort photos into stops | a photo's stop exists, no two stops share a place, creating a stop swaps no others |
| Public comment limit, `server.go:95-173` | a map of token buckets under a mutex | check; sweep in a goroutine | a client gets its burst and its rate, and no more because its entry was evicted |
| Upload queue of the page, `index.html:5640-6016` | queue, jobs in flight, retry timers, the list on show | add files, start, retry, sort, clear | every file is uploaded or offered for another try, and the trip is sorted after the last one |
| Trips, share links, presentation names, `server.go:948-1236` | rows in `trips`, unique `share_id` and `present_slug` | create, update, delete, share, name | edits of different fields do not undo each other |
| Photo records, `server.go:2068-2240` | caption, place, camera, `photo_order` | update, rescan | as above; a photo's stop belongs to its trip |
| Comments, `server.go:1238-1272, 2828-3082` | rows in `comments` | create, list, delete | a comment's photo is of its trip |
| Routes and GPX, `server.go:3088-3290` | rows in `routes` | import, create, delete | single statements |
| Export and import, `backup.go` | none of its own | export a ZIP, import it under new ids | an import yields the trip that was exported |
| Grouping, `server.go:2716-2760`, `resort_photos.go:28-120` | none | two clustering algorithms | groups partition the photos with a place |
| Sessions and sign-in, `server.go:331-400, 762-900`, `google_auth.go` | rows in `sessions`, the cache of Google's keys under a mutex | login, callback, logout, expiry | a session is one user's until it ends |
| Administration, `admin.go` | none of its own | statistics, issues, impersonation | reads and single statements |
| Database, `db/db.go` | schema, `migrations` | open, migrate, normalise times | a process that serves has the whole schema |
| HTTP plumbing, `server.go:451-660` | none | routing, origin check, log | stateless |

### How they interact

Every request is a goroutine. Handlers share the database, the upload directory
and two mutex-protected maps (`chunkedUploads`, `commentLimiters`); nothing else
orders them. The DSN (`db/db.go:30-33`) switches on foreign keys, WAL and a busy
timeout, so that a statement is atomic, deleting a trip cascades to its rows,
deleting a stop sets `stop_id` to NULL, and a statement may fail with
`SQLITE_BUSY`. `r.Context()` ends when the client disconnects: every later
statement of that handler then fails, wherever the handler is. Two goroutines run
without a request: the eviction of abandoned uploads and the sweep of the
limiter. A restart takes the maps and the handlers, and leaves the disk.

The page is one thread of callbacks. It keeps a copy of the trip it shows, sends
parts of this copy along with its edits (a stop's `stop_order`, a photo's
`stop_id`), and loads the trip again after most of them. Other pages may show the
same trip.

### What is hard

* Look up, unlock, use later: a chunk handler holds a pointer to an upload that
  complete or the eviction may take from the table meanwhile (1843-1883).
* Delete first, check later: complete removes the table entry before it looks at
  the session (1891-1908).
* Rows and files are written by separate steps, in both orders: an upload
  writes the file first, an import the row.
* List, loop, delete: deleting a trip removes the files it has listed, and then all
  the rows there are (1095-1102).
* Read the largest order, ask a web service for seconds, insert (1320-1357).
* Remove everything, then create it again one by one with a web request before each
  (2697-2810).
* Errors that are not looked at: `os.Remove`, `ListPhotos`, `ShiftStopOrders`,
  `DeleteStopsByTrip`, `AssignPhoto` in loops.
* Timers of the page that act on what is there when they fire.

* A session's end is written with an hour and compared as a text; a cache of keys is
  emptied by one callback while another one fills it, under a mutex held during a web request.
* A migration is several statements that commit one by one.

`PROJECT.json` lists these hazards, each at its line, with the properties that watch
over it or the reason why none does.

## 2. The modules

| Module | Models | Built on |
|---|---|---|
| `ChunkedUpload` | table, temp files, init / chunk / complete / eviction / restart | |
| `UploadLifecycle` | what an upload promises its client | refined by `ChunkedUpload` (`ImplementsLifecycle`) |
| `MediaFiles` | rows, files and thumbnails, six kinds of request, restart | |
| `Itinerary` | stops, orders, assignments, handlers and pages | |
| `CommentLimiter` | the map of buckets and its sweep | |
| `TokenBucket` | an everlasting bucket per client | refined by `CommentLimiter` (`EvictionIsInvisible`) |
| `UploadQueue` | the page's queue, retries, sort and clear | |
| `TripStore` | the five tables of a trip and their statements, one operator each | |
| `TripRecords` | the requests that edit trips, photos, stops, routes, comments | `TripStore` |
| `TripBackup` | export and import, beside those requests | `TripRecords` |
| `Migrations` | the migration runner under starts that break off, newer binaries | |
| `SignIn` | callbacks, Google's keys and their cache, sessions, cookies | |
| `Server` | one life of the process after another: start, serve, die | `Migrations`, `SignIn` |
| `ChunkedUploadProofs`, `MediaFilesProofs`, `ItineraryProofs`, `CommentLimiterProofs`, `UploadQueueProofs`, `TripRecordsProofs`, `TripBackupProofs`, `ServerProofs` | theorems | the module of that name |
| `MCChunkedUpload`, ... | symmetry and data of the instances TLC checks | the module of that name |

Conventions. A handler is a record in the variable `call`: `pc` names the point of
its code it has reached, the other fields are the locals it still needs. An
action is one atomic effect of the code and all that goes with it up to the next
one: one critical section, one system call, one SQL statement, one callback.
Names are the source's where it has one. A definition whose comment begins
with "Mutant" (in `ChunkedUpload`: "A mutation") is not part of the specification: it
is a plausible mistake in the definition after it, kept to show that a property
notices it.

**ChunkedUpload.** `uploads` is the table; `tmp` and `media` are the temp and the
final files, sequences of blocks in the order of their appending (`O_APPEND`), so
that chunks of concurrent requests may interleave. `InitCreate` and
`InitRegister` are `os.Create` and the insertion into the table (1781-1833);
`ChunkLookup`, `ChunkOpen`, `ChunkCopy`, `ChunkCount` follow
1838-1884, `CompleteTake` to `CompleteInsertFails` follow 1888-2000, `EvictScan` and
`EvictRemove` follow 2030-2063. Every error return is an action. Age is counted in ticks
up to `TTL + 1`. `stranded` names the files that a fault has left to nobody, so that
the invariants can say that there are no others.

**MediaFiles.** A photo is one identity for its row, its file and its thumbnail, whose
names all come from its uuid. `UploadStart` to `UploadInsertFails` follow
`handleUploadPhoto`, `ImportStart` to `ImportThumb` the import, `ThumbRequest` to
`ThumbWrite` the thumbnail handler, `DeletePhotoStart` to `Erase` the three deletes.
`adrift` collects what a race has left behind and `broken` what a fault has: each
is written in the one action where this happens, so that reading the model for
these names gives the list of ways in which rows and files can part.

**Itinerary.** The stops of one trip, two pages with their own `view` of them, and the
handlers, one SQL statement per action. A request starts with what the page shows
(`EditStop` sends the order the page has loaded), and ends with the load of
the trip that the page does or does not do (`LoadStops`, `LoadPhotos`). `Clusters`
stands for what the two clustering algorithms compute. `Hangup` is the client that
disconnects, `Busy` a single failing statement; which failures end the request
and which are passed over is in these two actions.

**CommentLimiter.** `CheckRateLimit` is one step, for it holds the mutex throughout;
the sweep takes two, since it reads the clock before it gets the mutex. Time and
tokens are integers: `Cost` ticks fill one token. `TokenBucket` has no map and no
eviction.

**UploadQueue.** One action per callback of the page. An upload ends with an answer
or an error, and after an error the photo may be there all the same. `tasks` holds what
follows the last upload: 300 ms, the sort, 4 s, the clearing. Timers are compared
where the source's delays decide it (`later`, `first`) and are free otherwise.

**TripStore.** A table is a function from ids to rows: `Null` for an id not handed out yet,
`Gone` for a row that was deleted, so that an id never comes back. Each operator is a statement of
`db/queries/trips.sql` as SQLite executes it with the constraints of the migrations: an
INSERT or UPDATE that names a missing row is refused, a trip takes its rows along, a photo
its comments, a stop only sets `stop_id` to NULL, and two trips cannot have one
presentation name. A row keeps the columns that the properties tell apart. The ids of a table are finitely
many (`FiniteAssumption` in `TripBackup`, where an import is measured by the number of rows it has made).

**TripRecords.** The handlers over these statements. A request that comes down to one
statement is one action: what it has looked up before cannot change while the row
exists, and without the row the statement does nothing. Those that write back what they have read
(`UpdateTripBegin`, `UpdateStopBegin`, `UpdatePhotoBegin`, `RescanBegin`), or whose check
may be overtaken (`SlugBegin`, `CommentBegin`), take two steps, with the parameters of the second one in
`call`; a reset takes four, one per statement whose error it does not look at.

**TripBackup.** An export reads a trip by five SELECTs, as `handleGetTrip` and the public
pages do, and delivers a manifest; an import inserts a manifest row by row under new ids,
with the two maps of the code. A manifest keeps in `had` which ids were handed out when
the reading began, but for those of other trips' photos: of these a reference names only what the manifest
lists. An import keeps in `exact` whether a statement whose error it passes over has
failed or somebody has edited the new trip; both are for the properties alone.

**Migrations.** `Script` holds the files as sequences of statements that can be executed
again (`create`) and that cannot (`alter`); `schema` says how far each file has got,
`recorded` is the table `migrations`. `Deploy` installs a newer binary. The
instance has the eleven files of the repository.

**SignIn.** A callback exchanges its code, looks for the key of its token, empties the
cache once if it does not find it, and makes a session. `Rotate` replaces Google's keys;
`Answer` is what Google says at a moment, `Fetched` the arrival, between which the keys may change.
`Valid` is the comparison of two texts (`sessions.sql`): the hour does not count on the
last day. `DropCookie` and `Midnight` are the browsers, whose cookie has the same end with its hour.

**Server.** `Boot` runs the migrations, `Serve` the sign-ins of the newest release, `Crash` takes
what is in memory and leaves the tables, `Outside` is Google, the clock and the browsers.

## 3. The runs

| Run | Instance | What it shows |
|---|---|---|
| `chunked` | 1 upload of 2 chunks of 2 writes, 2 users, 2 requests, TTL 1, all faults, fair | `OneOwner`, `TempFilesTracked`, `MediaFilesTracked`, `OnePhotoPerUpload`, `CountedChunksReachPhoto`; refinement of `UploadLifecycle`; `TempFilesReclaimed` |
| `media_faults` | 1 trip, an image and a video, 2 requests, all faults | `RowsHaveFiles`, `FilesHaveRows`, `ThumbsHaveFiles` |
| `media_deletes` | 1 trip, 1 photo, 2 requests, failing statements, fair | `DeletedTripLosesFiles` |
| `itinerary_one_page` | 1 page, 4 stop ids, 3 photos, disconnects | `OrdersDistinct`, `SortedIntoStops`, `EditsKeepOrder` |
| `itinerary_two_pages` | 2 pages, 2 stop ids, 1 photo, no append, failing statements and loads | `AssignmentsResolve`, `OnlyEditsReorder` |
| `comment_limiter` | 2 clients, burst 2, 8 ticks, TTL 4 | `AtMostTheRate`, `EvictionIsInvisible` |
| `upload_queue` | 2 files, 1 place, 1 retry, 2 clicks, fair | `JobsInOnePlace`, `PhotosGetSorted`, `UploadsEnd` |
| `upload_queue_failures` | 2 files, 2 places, 1 retry | finding: `FailuresStayListed` fails |
| `trip_names` | 2 trips, 2 users, 1 name, 1 photo, 1 comment, 3 requests, restarts | `NamesAreDistinct`, `CommentsOfOwnTrip`, `OwnersStay` |
| `trip_rows` | 2 trips, 1 stop, 2 photos, 1 route, 1 comment, 1 request of several statements, failing statements, restarts | `StopsOfOwnTrip`, `NothingOutlivesItsTrip`, `ResetClears` |
| `trip_backup` | a trip with a row in every table, ids for its copy, 1 job, 1 request, all faults | `CoversOfOwnTrip`, `ReferencesAreKnown`, `AnsweredImportIsWhole` |
| `server` | the 11 migration files, 2 browsers, 2 tokens, 2 keys, 2 days, 1 mishap in a row, fair | `ServedSchemaIsComplete`, `FilesInOrder`, `PublishedKeyIsFound`, `CookiesDecide`, `StartsUnlessHalfway`, `SignInsEnd` |

`TypeOK` is a property of the runs of `Itinerary`, `UploadQueue`, `TripBackup` and `Server`; the types of the
other modules are theorems (section 5).

**Bounds.** Two requests are what every race here needs: one that has looked and
one that acts meanwhile. In `chunked` two writes per chunk let the blocks of two chunks
interleave, and a complete can overtake a chunk; a third request would only repeat one of
them. TTL 1 is enough for an upload to be used, to grow old and to be evicted. An image and a
video take different paths. `Itinerary` needs three stops for a shift between two of
them; `MaxOrder` bounds the orders that pages send, which could otherwise grow for ever,
and `Stop` bounds the uuids in use at one time, since a deleted stop's id may be given
out again once nobody refers to it. `MaxNow` stops the clock of the limiter after the
entries of both clients can have been evicted and made again twice. `Jobs`, `Clicks` and
`Visits` bound what the user does in `UploadQueue`; one place for two files gives a
queue, and the retry delay a job outside it.

In the runs over `TripStore` ids are used once, so that their number bounds how many rows a
behaviour creates. Two trips are what every confusion of trips needs. In `trip_names` three
requests let two trips ask for a name while a comment is under way through it. In
`trip_rows` all requests of one statement interleave with one of several; `Kinds` leaves
out claims and names, which are the other run's. `trip_backup` starts with a trip that has a row in
every table (`SpecFromOneTrip`), since an export of less reads nothing worth losing; `Exports`
bounds the manifests delivered. In `server`, `Mishaps` bounds deaths between two times the
process serves: one suffices to cut a start off at each statement of each file, and
the next start shows what comes of it; `MaxKey` 1 gives one change of the keys, `MaxDay` and `Life` 1 a
session that lives through its last day. Sign-ins are served by the newest release only, so
that the schema's history and the sessions' do not multiply. Symmetry is used for
interchangeable ids and in no run with a liveness property.

**Fairness.** `ChunkedUpload`: a goroutine that needs nothing from the client goes on, the
clock ticks and the eviction runs; chunk handlers, which read the client's body, are
not fair. `MediaFiles`: a handler that has received its request goes on; starting and
receiving are the clients'. `UploadQueue`: a request ends by an answer or an error and timers
fire. `Server`: systemd starts the process again (`Restart=always`) and a start goes on; a
callback's goroutine runs; a request to Google ends, by its answer or because the browser's
disconnection cancels it. Only the steps that take a mutex (`Locked`) are strongly fair: a
Go mutex hands itself over to a goroutine that has waited for a millisecond, so that
nobody is overtaken for ever, although it is free and taken again and again. Nothing is assumed
of clients, of Google's keys or of deployments.

**Deadlock** is not checked where the instance can be used up: all photos (`MediaFiles`),
all files (`UploadQueue`), all ids (`TripRecords`, `TripBackup`), or the days and tokens
(`Server`).

## 4. Findings

A run shows the first; the others are behaviours of the models, which the properties name
and except (`adrift`, `broken`, `stranded`, `Halfway`, or the bounds of the run).

1. `checkAllUploadsFinished` (`index.html:5788-5829`): a job that waits for its retry counts
   as finished, and the list is cleared with a job in it that has failed.
   Run `upload_queue_failures`.
2. `handleChunkedComplete` (`server.go:1891-1908`): a complete whose session has ended
   answers 401 after it has deleted the table entry, and the eviction, which walks the table,
   never removes the temp file. A restart leaves such files as well. The comments at 1756
   and 2002 promise removal.
3. `handleDeleteTrip` (`server.go:1095-1102`): a photo stored after the trip's photos were
   listed loses its row and keeps its file. `handleResetTrip` has the same window.
4. `handleCreateStop` (`server.go:1311-1357`): two stops appended at the same time get the
   same `stop_order`.
5. The import (`backup.go:458-462`) keeps the photo of a comment that is not in the manifest: in the
   database it was exported from, the new trip's comment is then on a photo of the
   old trip. When the new trip is exported once more, its manifest has a comment whose photo
   is not listed and never was one of the trip (hence `had` in `ReferencesAreKnown`). Where comments are made otherwise, `server.go:2907` says "Verify the photo belongs
   to this trip". An export beside a new photo and its comment suffices to get such a manifest.
6. A migration that breaks off between an `ALTER TABLE` and its last statement
   (`db.go:208`) stops every later start with "duplicate column name"; systemd restarts
   it for ever.
7. `handleUpdateStop` (`server.go:1417`) reads the stop's camera and ignores the error: when
   the SELECT fails the camera is overwritten with nothing. `handleUpdateTrip` (1032) writes
   back the defaults it has read before the body.
8. `fetchGoogleKeys` (`google_auth.go:103-114`) does not look at the status of the answer: an
   error in JSON is cached for an hour as no keys. Since a callback that does not find its key
   empties the cache, this costs one refresh per sign-in.

Three more things came up, about which nothing in the repository says what should happen. A retry
button that is clicked twice, while its job is still in the queue, uploads the file
twice (hence `clicks < 2` in `JobsInOnePlace` and `PhotosGetSorted`). The trip that is sorted after the last
upload is the one on show at that moment, which need not be the one the files went to. And
`handleAutoStops` and `handleResortPhotos` pass over statements that fail: with the fault
"busy", `SortedIntoStops` does not hold, which is why `itinerary_one_page` has disconnects
only, and for these the handlers do give up.

## 5. What is proved

The theorems hold for every value of the constants that satisfies the named assumptions,
in particular for any number of requests, uploads, photos, stops, pages, trips, clients,
files in the page's queue and places in flight, browsers, keys, migration files, exports, manifests and
imports. They rest on the `ASSUME`s of the modules alone, which the runs evaluate. Three theorems
of `Itinerary` have hypotheses on its constants besides, and these are the instance of `itinerary_one_page`: `OnePage`
(any two pages are the same one) and `Reliable` (statements and loads do not fail; disconnects may happen).
With a second page or a failed load the properties are false (finding 4 and section 5).

| Theorem | States |
|---|---|
| `ChunkedUploadProofs!TypeCorrect` | `Spec => []TypeOK` |
| `ChunkedUploadProofs!UploadsHaveOneOwner` | `Spec => []OneOwner` |
| `ChunkedUploadProofs!TempFilesAreTracked`, `MediaFilesAreTracked` | `Spec => []TempFilesTracked`, `[]MediaFilesTracked` |
| `ChunkedUploadProofs!UploadsBecomeOnePhoto`, `NoCountedChunkIsLost` | `Spec => []OnePhotoPerUpload`, `[]CountedChunksReachPhoto` |
| `ChunkedUploadProofs!UploadsFollowTheirLife` | `Spec => ImplementsLifecycle` |
| `MediaFilesProofs!TypeCorrect` | `Spec => []TypeOK` |
| `MediaFilesProofs!RowsKeepFiles`, `FilesKeepRows`, `ThumbsKeepFiles` | `Spec => []RowsHaveFiles`, `[]FilesHaveRows`, `[]ThumbsHaveFiles` |
| `ItineraryProofs!TypeCorrect` | `Spec => []TypeOK` |
| `ItineraryProofs!PhotosHaveTheirStop` | `Spec => []AssignmentsResolve` |
| `ItineraryProofs!OnlyEditsSwapStops` | `Spec => OnlyEditsReorder` |
| `ItineraryProofs!OnePageKeepsOrdersDistinct`, `OnePageSortsIntoStops` | `OnePage /\ Reliable => (Spec => []OrdersDistinct)`, `... []SortedIntoStops` |
| `ItineraryProofs!OnePageKeepsOrder` | `OnePage /\ Reliable => (Spec => EditsKeepOrder)` |
| `CommentLimiterProofs!TypeCorrect`, `RateIsKept` | `Spec => []TypeOK`, `[]AtMostTheRate` |
| `CommentLimiterProofs!EvictionCannotBeNoticed` | `Spec => EvictionIsInvisible` |
| `UploadQueueProofs!QueueTypes` | `Spec => []TypeOK` |
| `UploadQueueProofs!JobsStayInOnePlace`, `PhotosAreSorted` | `Spec => []JobsInOnePlace`, `[]PhotosGetSorted` |
| `TripRecordsProofs!RecordsTypes` | `RecordsSpec => []RecordsOK` |
| `TripRecordsProofs!StopsAreOfTheTrip`, `CoversAreOfTheTrip`, `CommentsAreOfTheTrip` | `RecordsSpec => []StopsOfOwnTrip`, `[]CoversOfOwnTrip`, `[]CommentsOfOwnTrip` |
| `TripRecordsProofs!NothingIsLeft`, `NamesStayDistinct` | `RecordsSpec => []NothingOutlivesItsTrip`, `[]NamesAreDistinct` |
| `TripRecordsProofs!OwnersNeverChange`, `ResetsClear` | `RecordsSpec => OwnersStay`, `[]ResetClears` |
| `TripBackupProofs!BackupTypes` | `Spec => []TypeOK` |
| `TripBackupProofs!ImportsKeepStops`, `CoversStayOfTheTrip`, `ImportsLeaveNothing` | `Spec => []StopsOfOwnTrip`, `[]CoversOfOwnTrip`, `[]NothingOutlivesItsTrip` |
| `TripBackupProofs!ManifestsAreClosed`, `AnsweredImportsAreWhole` | `Spec => []ReferencesAreKnown`, `[]AnsweredImportIsWhole` |
| `ServerProofs!TypesHold` | `Spec => []TypeOK` |
| `ServerProofs!SchemaIsComplete`, `FilesComeInOrder` | `Spec => []ServedSchemaIsComplete`, `[]FilesInOrder` |
| `ServerProofs!PublishedKeysAreFound`, `OnlyCookiesDecide` | `Spec => []PublishedKeyIsFound`, `CookiesDecide` |

**Why the invariants are needed.**

* `ChunkedUpload`: which file belongs to whom follows from who owns the upload, so
  that the tracking invariants are proved on top of `OneOwner`, strengthened by what an
  id that was not handed out yet cannot have (no entry, no file, no handler) and
  by what each point of a handler's code implies for its files. For the content: what
  a chunk handler has appended is in the temp file up to its position, what is counted is whole, and what
  complete has read is what the temp file had when it was taken. For the refinement each step is
  shown to keep or lose every upload as the life cycle sees it (`Kept`, `Lost`), or to open, accept for,
  seal or publish exactly one and keep the others; a publication is one of what was accepted because of the
  invariant about the content.
* `MediaFiles`: `Inv` adds to the three properties that the file of a running upload is its own
  (`UploadsOwnFiles`), that a delete has yet to remove only what it listed
  (`TodoIsListed`), and that what a delete has passed is without a file, but for what the
  model calls adrift or broken (`PassedAreGone`). The proof has one lemma per action, and
  in it one step per conjunct.
* `Itinerary`: `AssignmentsResolve` is inductive beside the types, for each statement either
  writes a stop that exists or is refused by the foreign key. The types need the maximum of
  a finite set of orders to be a member of it, which is proved by well-founded induction on
  the strict subset ordering of finite sets. For one page, `PageInv` says of each handler what it is about to
  write: the orders on the page are the stored ones except between a statement that shifts them and the
  load that follows; the place a shift opens is free; a sort has the stops it has made so far in
  order and distinct, and what is left to assign is what has no stop yet. The three theorems follow from it
  at the step that writes.
* `CommentLimiter`: `Credit` says that what was granted and what a bucket could still grant
  together never exceed the burst and the time that has passed; `CutoffsOld` that a cutoff lies
  at least TTL in the past; together with `TTL >= Cap` an entry that is
  swept was full, and this is all the refinement needs.
* `UploadQueue`: `JobsInOnePlace` counts, and is not inductive: `Apart` says instead that the entries of
  the queue, the jobs in flight and the waiting retries are different jobs, that a
  job which has ended is nowhere, and that before the first click the buttons are those of failed
  jobs, so that a click cannot copy one. `PhotosGetSorted` needs what
  `dispatchNext` leaves (`Leaves`, `After`): a queue that is not empty has a job in flight, so the job
  that ends last sees both empty; and `Stays`, that on a page the user stays on the
  trip to sort is the one the files went to. What `dispatchNext` takes is the least
  number of entries that fills the places (`TakenIs`), and each action joins its jobs to the queue
  and leaves the rest to it.
* `TripRecords`: the tables hold what the properties say (`TablesInv`), and each request under
  way has checked what its next statement relies on (`Pending`): that a stop was a stop of the photo's
  trip, a cover a photo of the trip, the photo of a comment one of its trip. A check stays
  true until it is used because rows change their trip and their owner never and a deleted
  id is not used again (`RowsKept`, `OwnersKept`), so that there is one lemma per statement
  ("...Sound") with these four conclusions, and the requests only combine them. For the
  resets, `ClearingInv` says which of the rows there were are gone at each of the four
  statements; that ids of different tables differ (`IdsAssumption`) is used here and
  nowhere else. `CommentsOfOwnTrip` is proved apart from `TablesInv`, since imports break it (finding 5)
  and the rest must hold beside them.
* `TripBackup`: the invariant of `TripRecords` holds beside exports and imports, and each of
  these has one of its own. `Reading` says what an export knows half-way: of the stops and
  photos there were when the reading began, those still in the trip are already in the manifest,
  once their table is read; so a reference to one that is not listed is a reference to a row
  that was deleted, and no row has such a one. `Filling` says what an import relies on: its two
  maps lead to rows of its own new trip, if these were not deleted since, and never to a photo
  that a comment of the manifest names. `Copying` says what it has copied so far: of stops and
  photos exactly the entries that are done, each once and with its columns, of routes and
  comments their number, as long as no statement has failed and nobody has edited the new trip.
  That two imports never share a trip (`TripsApart`) keeps one's rows out of the count of the
  other.
* `Server`: `SchemaInv` says that a recorded file is complete, that a file begins only
  when those before it are complete, and that a start's place in a file is not
  beyond what it has executed there; `KeysInv` that keys in the cache and in answers are never newer than
  what Google publishes (`NotAhead`), that the mutex is held during a request, and that the
  keys which come for a callback which has emptied the cache are from after
  its token was signed (`AnswersAreRecent`); `CookiesDiffer` that no two browsers have the
  same cookie. Both parts are invariants of their own module's steps, and a step of
  the composition is a step or a stutter of each (`BothSteps`).

**The prover.** tlapm 1.4.5 gives `[f EXCEPT ![c].a = x, ![c].b = y]`, two paths through one
index, an encoding from which a contradiction follows. No module uses this form: a handler
is replaced as a whole (`Become`).

**Only model-checked.** Liveness (`TempFilesReclaimed`, `DeletedTripLosesFiles`, `UploadsEnd`,
`StartsUnlessHalfway`, `SignInsEnd`), which is out of the prover's reach. Every invariant and every action property of
the passing runs is a theorem, those of `Itinerary` under the hypotheses of its run: a page that edits a stop
after a failed load is as stale as a second page. `CommentsOfOwnTrip` is not a property of `TripBackup`: finding 5.

## 6. What is not modelled

* EXIF, image scaling, ffmpeg, GPX arithmetic, reverse geocoding: libraries, programs and
  services; that they are slow or fail is in the handlers that call them.
* Which photos form a group (`clusterPhotos`, `resort_photos.go:28-120`): arithmetic on
  coordinates and times in floats. `Itinerary` has the result as a constant.
* The texts of comments and their edits, `photo_order`, and other columns whose only rule is
  that the last writer wins.
* Signatures of tokens and the comparison of OAuth's state parameter, whose failures are
  callbacks that just end; the cookie by which an administrator looks at another user's trips.
* `normalizeTimestamps` (`db.go`), a conversion of texts at the start, and the order of
  keys in a JSON or of entries in a ZIP.
* Markup, wording, logging, progress display, HTTP headers, routing, flags and environment.
* Administration pages and the seeding tool: reads and single statements.
* `dbgen` is generated: its statements are the operators of `TripStore` and the statements
  of `SignIn`, and are mapped as such.

## 7. What could follow

1. An abstract specification of the import, a new trip that is a copy or a part of one, which
   `TripBackup` would refine as long as nobody edits the trip.
2. `StopClustering`: the two grouping algorithms over places on a line, with integers, which would
   then supply `Clusters` of `Itinerary`.
3. `UploadQueue` over `UploadLifecycle`: attempts as uploads of their own, so that an answer that
   is lost and its second photo appear in one model.
