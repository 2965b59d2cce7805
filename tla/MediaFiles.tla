----------------------------- MODULE MediaFiles -----------------------------
(***************************************************************************)
(* Photo rows in the database against files and thumbnails on disk: the     *)
(* handlers that upload, import, show and delete photos, reset a trip and   *)
(* delete a trip (src/srv/server.go, src/srv/backup.go).  Each is a         *)
(* goroutine; its steps are single file operations and single SQL           *)
(* statements, each committed by itself, and they interleave freely.  The   *)
(* tail of a chunked complete is the same as that of an upload.             *)
(*                                                                         *)
(* A photo's row, its file and its thumbnail share one identity here: all   *)
(* three names come from uuids made for that one photo.                     *)
(***************************************************************************)
EXTENDS FiniteSets

CONSTANTS Trip,    \* trips that may be created
          Photo,   \* photos that may be stored
          Video,   \* those of them that are videos
          Call,    \* request goroutines that may run at the same time
          NoTrip,  \* the trip of a photo that does not exist yet
          Faults   \* "restart": the process dies; "io": a file operation fails;
                   \* "db": a statement fails (busy, the client has
                   \* hung up, or the stop of the new photo is gone)

ASSUME VideoAssumption  == Video \subseteq Photo
ASSUME NoTripAssumption == NoTrip \notin Trip
ASSUME FaultsAssumption == Faults \subseteq {"restart", "io", "db"}

VARIABLES
  trips,   \* trip -> "none", "live" or "deleted": its row
  rows,    \* photos with a row; rows go with their trip (ON DELETE CASCADE)
  files,   \* photos with a file in UploadDir
  thumbs,  \* photos with a file in UploadDir/thumbs
  home,    \* the trip a photo was stored for, NoTrip if it was not stored yet
  call,    \* the request goroutines
  adrift,  \* files and thumbnails a race has left without a row
  broken   \* photos whose row or file a fault has left without the other

vars == <<trips, rows, files, thumbs, home, call, adrift, broken>>

Op    == {"upload", "import", "thumbnail", "delete_photo", "delete_trip", "reset_trip"}
Phase == {"receiving", "preview", "ready",                \* upload
          "importing", "extract", "extract_thumb",        \* import
          "stat", "scaling",                              \* thumbnail
          "list", "unlink", "unlink_thumb", "erase"}      \* the three deletes
\* A handler's locals: now is the photo in hand (at most one), todo the listed
\* photos whose files are still to be removed.
Handler == [pc : Phase, op : Op, trip : Trip \union {NoTrip},
            now : SUBSET Photo, todo : SUBSET Photo]
Idle == [pc |-> "idle"]

At(c, S)   == call[c].pc \in S
Holds(c, p) == p \in call[c].now
Become(c, h)  == call' = [call EXCEPT ![c] = h]
Goto(c, l)    == Become(c, [call[c] EXCEPT !.pc = l])
Hold(c, l, p) == Become(c, [call[c] EXCEPT !.pc = l, !.now = {p}])
Return(c)     == Become(c, Idle)
Begin(c, l, op, t, now) ==
  /\ At(c, {"idle"})
  /\ Become(c, [pc |-> l, op |-> op, trip |-> t, now |-> now, todo |-> {}])

PhotosOf(t) == {p \in rows : home[p] = t}
Fresh(p)    == home[p] = NoTrip

\* d is going to delete the row of p and is past removing its file.
Passed(d, p) ==
  /\ At(d, {"unlink", "unlink_thumb", "erase"})
  /\ p \notin call[d].todo
  /\ IF call[d].op = "delete_photo" THEN Holds(d, p) ELSE call[d].trip = home[p]

Init ==
  /\ trips = [t \in Trip |-> "none"]
  /\ rows = {} /\ files = {} /\ thumbs = {}
  /\ home = [p \in Photo |-> NoTrip]
  /\ call = [c \in Call |-> Idle]
  /\ adrift = {} /\ broken = {}

-----------------------------------------------------------------------------
(* POST /api/trips *)

CreateTrip(t) ==
  /\ trips[t] = "none"
  /\ trips' = [trips EXCEPT ![t] = "live"]
  /\ UNCHANGED <<rows, files, thumbs, home, call, adrift, broken>>

-----------------------------------------------------------------------------
(* POST /api/trips/{id}/photos *)

\* The owner's trip exists; then the body is received, which may take minutes.
UploadStart(c, t) ==
  /\ trips[t] = "live"
  /\ Begin(c, "receiving", "upload", t, {})
  /\ UNCHANGED <<trips, rows, files, thumbs, home, adrift, broken>>

UploadWriteFile(c, p) ==
  /\ At(c, {"receiving"})
  /\ Fresh(p)
  /\ home' = [home EXCEPT ![p] = call[c].trip]
  /\ files' = files \union {p}
  /\ Hold(c, IF p \in Video THEN "preview" ELSE "ready", p)
  /\ UNCHANGED <<trips, rows, thumbs, adrift, broken>>

\* os.WriteFile fails half way and its file stays; or the form cannot be read.
UploadRejected(c) ==
  /\ At(c, {"receiving"})
  /\ \/ UNCHANGED <<home, files, broken>>
     \/ /\ "io" \in Faults
        /\ \E p \in Photo : /\ Fresh(p)
                            /\ home' = [home EXCEPT ![p] = call[c].trip]
                            /\ files' = files \union {p}
                            /\ broken' = broken \union {p}
  /\ Return(c)
  /\ UNCHANGED <<trips, rows, thumbs, adrift>>

\* A video's thumbnail is made at once, if ffmpeg can; errors are ignored.
UploadPreview(c) ==
  /\ At(c, {"preview"})
  /\ thumbs' \in {thumbs, thumbs \union call[c].now}
  /\ Goto(c, "ready")
  /\ UNCHANGED <<trips, rows, files, home, adrift, broken>>

\* Mutant: a deferred clean-up takes the file back after a success, too.
UploadInsertRemovesFile(c) ==
  /\ At(c, {"ready"})
  /\ trips[call[c].trip] = "live"
  /\ rows' = rows \union call[c].now
  /\ files' = files \ call[c].now
  /\ Return(c)
  /\ UNCHANGED <<trips, thumbs, home, adrift, broken>>

\* The foreign key asks for the trip.  A handler that is deleting the trip and
\* has its list already will not see the file.
UploadInsert(c) ==
  /\ At(c, {"ready"})
  /\ trips[call[c].trip] = "live"
  /\ rows' = rows \union call[c].now
  /\ adrift' = adrift \union ({"file", "thumb"} \X
                  {p \in call[c].now : \E d \in Call : Passed(d, p)})
  /\ Return(c)
  /\ UNCHANGED <<trips, files, thumbs, home, broken>>

\* Mutant: the file is not taken back.
UploadInsertFailsKeepsFile(c) ==
  /\ At(c, {"ready"})
  /\ trips[call[c].trip] # "live" \/ "db" \in Faults
  /\ Return(c)
  /\ UNCHANGED <<trips, rows, files, thumbs, home, adrift, broken>>

\* The trip has gone or the statement fails: the handler takes its file back,
\* but not the thumbnail it made for a video.
UploadInsertFails(c) ==
  /\ At(c, {"ready"})
  /\ trips[call[c].trip] # "live" \/ "db" \in Faults
  /\ \/ /\ files' = files \ call[c].now
        /\ UNCHANGED broken
     \/ /\ "io" \in Faults
        /\ broken' = broken \union call[c].now
        /\ UNCHANGED files
  /\ adrift' = adrift \union ({"thumb"} \X (call[c].now \intersect thumbs))
  /\ Return(c)
  /\ UNCHANGED <<trips, rows, thumbs, home>>

-----------------------------------------------------------------------------
(* POST /api/trips/import: the row first, then the file, then the thumbnail *)

ImportStart(c, t) ==
  /\ trips[t] = "none"
  /\ trips' = [trips EXCEPT ![t] = "live"]
  /\ Begin(c, "importing", "import", t, {})
  /\ UNCHANGED <<rows, files, thumbs, home, adrift, broken>>

ImportRow(c, p) ==
  /\ At(c, {"importing"})
  /\ Fresh(p)
  /\ trips[call[c].trip] = "live"
  /\ home' = [home EXCEPT ![p] = call[c].trip]
  /\ rows' = rows \union {p}
  /\ Hold(c, "extract", p)
  /\ UNCHANGED <<trips, files, thumbs, adrift, broken>>

\* The manifest is done, or CreatePhoto has failed: what there is stays.
ImportStops(c) ==
  /\ At(c, {"importing"})
  /\ Return(c)
  /\ UNCHANGED <<trips, rows, files, thumbs, home, adrift, broken>>

\* Nothing tells the import that the row it made has been deleted meanwhile.
ImportFile(c) ==
  /\ At(c, {"extract"})
  /\ \/ /\ files' = files \union call[c].now
        /\ adrift' = adrift \union ({"file"} \X
             {p \in call[c].now : p \notin rows \/ \E d \in Call : Passed(d, p)})
        /\ UNCHANGED broken
     \/ /\ "io" \in Faults  \* not in the archive, or extractZipFile fails: a warning
        /\ broken' = broken \union call[c].now
        /\ UNCHANGED <<files, adrift>>
  /\ Goto(c, "extract_thumb")
  /\ UNCHANGED <<trips, rows, thumbs, home>>

ImportThumb(c) ==
  /\ At(c, {"extract_thumb"})
  /\ \/ /\ thumbs' = thumbs \union call[c].now
        /\ adrift' = adrift \union ({"thumb"} \X
             {p \in call[c].now : p \notin files \/ <<"file", p>> \in adrift})
     \/ UNCHANGED <<thumbs, adrift>>
  /\ Goto(c, "importing")
  /\ UNCHANGED <<trips, rows, files, home, broken>>

-----------------------------------------------------------------------------
(* GET /api/uploads/thumb/{filename} *)

\* A page that shows the photo asks for its thumbnail.
ThumbRequest(c, p) ==
  /\ p \in rows
  /\ Begin(c, "stat", "thumbnail", NoTrip, {p})
  /\ UNCHANGED <<trips, rows, files, thumbs, home, adrift, broken>>

\* No cached thumbnail: open the source.
ThumbOpen(c) ==
  /\ At(c, {"stat"})
  /\ call[c].now \intersect thumbs = {}
  /\ call[c].now \subseteq files
  /\ Goto(c, "scaling")
  /\ UNCHANGED <<trips, rows, files, thumbs, home, adrift, broken>>

\* The cached thumbnail is served, or there is no source to scale.
ThumbDone(c) ==
  /\ At(c, {"stat"})
  /\ call[c].now \subseteq thumbs \/ call[c].now \intersect files = {}
  /\ Return(c)
  /\ UNCHANGED <<trips, rows, files, thumbs, home, adrift, broken>>

\* The scaled image is cached, whatever became of the source meanwhile; errors
\* of the decoder are answered, errors of the write are ignored.
ThumbWrite(c) ==
  /\ At(c, {"scaling"})
  /\ \/ /\ thumbs' = thumbs \union call[c].now
        /\ adrift' = adrift \union ({"thumb"} \X (call[c].now \ files))
     \/ UNCHANGED <<thumbs, adrift>>
  /\ Return(c)
  /\ UNCHANGED <<trips, rows, files, home, broken>>

-----------------------------------------------------------------------------
(* DELETE /api/photos/{id}, DELETE /api/trips/{id}, POST /api/trips/{id}/reset *)

DeletePhotoStart(c, p) ==
  /\ p \in rows
  /\ At(c, {"idle"})
  /\ Become(c, [pc |-> "unlink", op |-> "delete_photo", trip |-> NoTrip, now |-> {}, todo |-> {p}])
  /\ UNCHANGED <<trips, rows, files, thumbs, home, adrift, broken>>

DeleteTripStart(c, t) ==
  /\ trips[t] = "live"
  /\ \/ Begin(c, "list", "delete_trip", t, {})
     \/ Begin(c, "list", "reset_trip", t, {})
  /\ UNCHANGED <<trips, rows, files, thumbs, home, adrift, broken>>

\* Mutant: the photos are listed after the DELETE has cascaded to them.
ListPhotosOfNone(c) ==
  /\ At(c, {"list"})
  /\ Goto(c, "unlink")
  /\ UNCHANGED <<trips, rows, files, thumbs, home, adrift, broken>>

\* photos, _ := q.ListPhotos(...): an error counts as an empty list.
ListPhotos(c) ==
  /\ At(c, {"list"})
  /\ \/ /\ Become(c, [call[c] EXCEPT !.pc = "unlink", !.todo = PhotosOf(call[c].trip)])
        /\ UNCHANGED broken
     \/ /\ "db" \in Faults
        /\ Goto(c, "unlink")
        /\ broken' = broken \union PhotosOf(call[c].trip)
  /\ UNCHANGED <<trips, rows, files, thumbs, home, adrift>>

\* os.Remove of the file, whose error is ignored.
Unlink(c, p) ==
  /\ At(c, {"unlink"})
  /\ p \in call[c].todo
  /\ \/ /\ files' = files \ {p}
        /\ UNCHANGED broken
     \/ /\ "io" \in Faults
        /\ broken' = broken \union {p}
        /\ UNCHANGED files
  /\ Become(c, [call[c] EXCEPT !.pc = "unlink_thumb", !.now = {p}, !.todo = @ \ {p}])
  /\ UNCHANGED <<trips, rows, thumbs, home, adrift>>

\* Mutant: a photo's thumbnail is forgotten.
UnlinkThumbNot(c) ==
  /\ At(c, {"unlink_thumb"})
  /\ Goto(c, IF call[c].op = "delete_photo" THEN "erase" ELSE "unlink")
  /\ UNCHANGED <<trips, rows, files, thumbs, home, adrift, broken>>

UnlinkThumb(c) ==
  /\ At(c, {"unlink_thumb"})
  /\ \/ /\ thumbs' = thumbs \ call[c].now
        /\ UNCHANGED broken
     \/ /\ "io" \in Faults
        /\ broken' = broken \union call[c].now
        /\ UNCHANGED thumbs
  /\ Goto(c, IF call[c].op = "delete_photo" THEN "erase" ELSE "unlink")
  /\ UNCHANGED <<trips, rows, files, home, adrift>>

\* The DELETE statement: of the photo, of the trip's photos, or of the trip.
Erase(c) ==
  /\ IF call[c] # Idle /\ call[c].op = "delete_photo"
       THEN At(c, {"erase"})
       ELSE At(c, {"unlink"}) /\ call[c].todo = {}
  /\ LET gone == IF call[c].op = "delete_photo" THEN call[c].now ELSE PhotosOf(call[c].trip)
     IN  \/ /\ rows' = rows \ gone
            /\ trips' = IF call[c].op = "delete_trip"
                          THEN [trips EXCEPT ![call[c].trip] = "deleted"] ELSE trips
            /\ UNCHANGED broken
         \/ /\ "db" \in Faults
            /\ broken' = broken \union gone
            /\ UNCHANGED <<rows, trips>>
  /\ Return(c)
  /\ UNCHANGED <<files, thumbs, home, adrift>>

-----------------------------------------------------------------------------
\* The process dies; whatever the handlers had in hand stays as it is.
Restart ==
  /\ "restart" \in Faults
  /\ call' = [c \in Call |-> Idle]
  /\ broken' = broken \union {p \in Photo : \E c \in Call :
                    call[c] # Idle /\ (Holds(c, p) \/ p \in call[c].todo \/ Passed(c, p))}
  /\ UNCHANGED <<trips, rows, files, thumbs, home, adrift>>

Step(c) ==
  \/ UploadPreview(c) \/ UploadInsert(c) \/ UploadInsertFails(c)
  \/ ImportFile(c) \/ ImportThumb(c) \/ ThumbOpen(c) \/ ThumbDone(c) \/ ThumbWrite(c)
  \/ ListPhotos(c) \/ (\E p \in Photo : Unlink(c, p)) \/ UnlinkThumb(c) \/ Erase(c)

Next ==
  \/ \E t \in Trip : CreateTrip(t)
  \/ \E c \in Call :
       \/ Step(c) \/ UploadRejected(c) \/ ImportStops(c)
       \/ \E t \in Trip : UploadStart(c, t) \/ ImportStart(c, t) \/ DeleteTripStart(c, t)
       \/ \E p \in Photo : \/ UploadWriteFile(c, p) \/ ImportRow(c, p)
                           \/ ThumbRequest(c, p) \/ DeletePhotoStart(c, p)
  \/ Restart

Spec == Init /\ [][Next]_vars

\* A handler that has received its request runs on; uploads wait for clients.
FairSpec == Spec /\ \A c \in Call : WF_vars(Step(c))

-----------------------------------------------------------------------------
(* Properties *)

\* Between these phases and their ends a handler has one photo in hand.
WithPhoto == {"preview", "ready", "extract", "extract_thumb", "stat", "scaling",
              "unlink_thumb", "erase"}

TypeOK ==
  /\ trips \in [Trip -> {"none", "live", "deleted"}]
  /\ rows \subseteq Photo /\ files \subseteq Photo /\ thumbs \subseteq Photo
  /\ home \in [Photo -> Trip \union {NoTrip}]
  /\ call \in [Call -> Handler \union {Idle}]
  /\ \A c \in Call : At(c, WithPhoto) => \E p \in Photo : call[c].now = {p}
  /\ adrift \subseteq {"file", "thumb"} \X Photo
  /\ broken \subseteq Photo

Busy(c) == call[c] # Idle

\* Every file in the upload directory belongs to a photo row, to an upload that is
\* about to insert it or to a delete that is about to remove it: only an upload
\* or import overtaken by a delete of its trip, or a fault, leaves an orphan.
FilesHaveRows ==
  \A p \in files :
    \/ p \in rows
    \/ \E c \in Call : At(c, {"preview", "ready"}) /\ Holds(c, p)
    \/ \E c \in Call : Busy(c) /\ p \in call[c].todo
    \/ <<"file", p>> \in adrift \/ p \in broken

\* Every photo row has its file, unless a handler that removed the file is still
\* to delete the row, or an import is still to write it, or a fault intervened.
RowsHaveFiles ==
  \A p \in rows :
    \/ p \in files
    \/ \E c \in Call : Busy(c) /\ Passed(c, p)
    \/ \E c \in Call : At(c, {"extract"}) /\ Holds(c, p)
    \/ p \in broken

\* A thumbnail goes when its photo's file goes, unless it was written by a
\* handler that had opened the file before, or by the upload of a video whose
\* row could not be inserted.
ThumbsHaveFiles ==
  \A p \in thumbs :
    \/ p \in files
    \/ \E c \in Call : At(c, {"unlink_thumb"}) /\ Holds(c, p)
    \/ <<"thumb", p>> \in adrift \/ p \in broken

\* The files of a deleted trip go away, also those that were being uploaded when
\* the trip went, but for those that a race or a fault set adrift.
DeletedTripLosesFiles ==
  \A p \in Photo :
    (p \in files /\ home[p] # NoTrip /\ trips[home[p]] = "deleted")
      ~> (p \notin files \/ <<"file", p>> \in adrift \/ p \in broken)

=============================================================================
