-------------------------- MODULE MediaFilesProofs --------------------------
(***************************************************************************)
(* Theorems about MediaFiles for any number of trips, photos and requests    *)
(* and any faults: rows, files and thumbnails part only through the races    *)
(* and faults that the specification names.                                  *)
(***************************************************************************)
EXTENDS MediaFiles, TLAPS

\* An upload that has written its file and has not inserted its row.
Uploads(c, p) == At(c, {"preview", "ready"}) /\ Holds(c, p)
Excused(k, p) == <<k, p>> \in adrift \/ p \in broken

\* A photo that has no name yet has nothing, and no request knows it.
StoredHaveHome == \A p \in Photo : Fresh(p) =>
  /\ p \notin rows /\ p \notin files
  /\ \A c \in Call : Busy(c) => p \notin call[c].todo /\ ~ Holds(c, p)

\* Who stores photos does so for a trip.
StoredForTrip == \A c \in Call :
  At(c, {"receiving", "preview", "ready", "importing", "extract", "extract_thumb"}) =>
    call[c].trip \in Trip

\* The file of an upload is its own: no row, no delete and no other upload has it.
UploadsOwnFiles == \A c \in Call, p \in Photo : Uploads(c, p) =>
  /\ p \in files /\ p \notin rows
  /\ \A d \in Call : Busy(d) => p \notin call[d].todo /\ (d # c => ~ Uploads(d, p))

\* A delete still has to remove only files it has listed.
TodoIsListed == \A c \in Call : Busy(c) =>
  /\ call[c].todo # {} => At(c, {"unlink", "unlink_thumb"})
  /\ At(c, {"list"}) => call[c].op # "delete_photo"
  /\ call[c].op = "delete_photo" /\ At(c, {"unlink_thumb", "erase"}) => call[c].todo = {}
  /\ call[c].op = "delete_photo" /\ At(c, {"unlink"}) =>
       call[c].now = {} /\ \E p \in Photo : call[c].todo = {p}
  /\ call[c].op # "delete_photo" => \A p \in call[c].todo : home[p] = call[c].trip

\* What a delete has passed is without a file, but for what came after it looked.
PassedAreGone == \A c \in Call, p \in Photo :
  p \in rows /\ p \in files /\ Passed(c, p) => Excused("file", p)

Inv ==
  /\ TypeOK /\ StoredForTrip /\ StoredHaveHome /\ UploadsOwnFiles /\ TodoIsListed
  /\ PassedAreGone /\ FilesHaveRows /\ RowsHaveFiles /\ ThumbsHaveFiles

\* A request that goes on: what it has in hand changes, the others stay.
LEMMA BecomeEffect ==
  ASSUME TypeOK, NEW c \in Call, NEW h \in Handler \union {Idle}, Become(c, h)
  PROVE  /\ call' \in [Call -> Handler \union {Idle}]
         /\ call'[c] = h /\ \A d \in Call \ {c} : call'[d] = call[d]
BY DEF TypeOK, Become

LEMMA BusyIsHandler ==
  ASSUME TypeOK, NEW c \in Call, call[c].pc # "idle"
  PROVE  call[c] \in Handler
BY DEF TypeOK, Idle

\* A step that takes back no row, no excuse and no upload, takes only files that go
\* from a delete's list, and adds only files of uploads.
LEMMA FilesHaveRowsKept ==
  ASSUME FilesHaveRows, rows \subseteq rows',
         \A p \in files' \ files : \E c \in Call : Uploads(c, p)',
         adrift \subseteq adrift', broken \subseteq broken',
         \A c \in Call, p \in files : Uploads(c, p) => Uploads(c, p)',
         \A c \in Call, p \in files' \ broken' :
           Busy(c) /\ p \in call[c].todo => Busy(c)' /\ p \in call'[c].todo
  PROVE  FilesHaveRows'
BY DEF FilesHaveRows, Uploads

LEMMA StepCreateTrip ==
  ASSUME Inv, NEW t \in Trip, CreateTrip(t)
  PROVE  Inv'
<1>. USE DEF Inv
<1>1. TypeOK'
  BY DEF CreateTrip, TypeOK, At
<1>2. StoredForTrip'
  BY DEF CreateTrip, StoredForTrip, At
<1>3. StoredHaveHome'
  BY NoTripAssumption DEF CreateTrip, StoredHaveHome, Fresh, Holds, Busy
<1>4. UploadsOwnFiles'
  BY DEF CreateTrip, UploadsOwnFiles, Uploads, Holds, Busy, At
<1>5. TodoIsListed'
  BY DEF CreateTrip, TodoIsListed, Busy, At
<1>6. PassedAreGone'
  BY DEF CreateTrip, PassedAreGone, Passed, Excused, Holds, At
<1>7. FilesHaveRows'
  BY DEF CreateTrip, FilesHaveRows, Holds, Busy, At
<1>8. RowsHaveFiles'
  BY DEF CreateTrip, RowsHaveFiles, Passed, Holds, Busy, At
<1>9. ThumbsHaveFiles'
  BY DEF CreateTrip, ThumbsHaveFiles, Holds, At
<1>. QED BY <1>1, <1>2, <1>3, <1>4, <1>5, <1>6, <1>7, <1>8, <1>9

LEMMA StepUploadStart ==
  ASSUME Inv, NEW c \in Call, NEW t \in Trip, UploadStart(c, t)
  PROVE  Inv'
<1>. USE DEF Inv
<1>1. TypeOK'
  BY DEF UploadStart, Begin, Become, TypeOK, At, Handler, Phase, Op, WithPhoto
<1>2. StoredForTrip'
  BY DEF UploadStart, Begin, Become, StoredForTrip, At
<1>3. StoredHaveHome'
  BY NoTripAssumption DEF UploadStart, Begin, Become, StoredHaveHome, Fresh, Holds, Busy
<1>4. UploadsOwnFiles'
  BY DEF UploadStart, Begin, Become, UploadsOwnFiles, Uploads, Holds, Busy, At
<1>5. TodoIsListed'
  BY DEF UploadStart, Begin, Become, TodoIsListed, Busy, At
<1>6. PassedAreGone'
  BY DEF UploadStart, Begin, Become, PassedAreGone, Passed, Excused, Holds, At
<1>7. FilesHaveRows'
  BY DEF UploadStart, Begin, Become, FilesHaveRows, Holds, Busy, TodoIsListed, At, TypeOK
<1>8. RowsHaveFiles'
  BY DEF UploadStart, Begin, Become, RowsHaveFiles, Passed, Holds, Busy, At
<1>9. ThumbsHaveFiles'
  BY DEF UploadStart, Begin, Become, ThumbsHaveFiles, Holds, At, TypeOK
<1>. QED BY <1>1, <1>2, <1>3, <1>4, <1>5, <1>6, <1>7, <1>8, <1>9

LEMMA StepUploadWriteFile ==
  ASSUME Inv, NEW c \in Call, NEW p \in Photo, UploadWriteFile(c, p)
  PROVE  Inv'
<1>. USE DEF Inv
<1>a. call[c] \in Handler BY BusyIsHandler DEF UploadWriteFile, At
<1>b. PICK h \in Handler :
        /\ h = [call[c] EXCEPT !.pc = IF p \in Video THEN "preview" ELSE "ready", !.now = {p}]
        /\ Become(c, h)
  BY <1>a DEF UploadWriteFile, Hold, Handler, Phase
<1>d. /\ call' \in [Call -> Handler \union {Idle}] /\ call'[c] \in Handler
      /\ \A d \in Call \ {c} : call'[d] = call[d]
      /\ call'[c].op = call[c].op /\ call'[c].trip = call[c].trip
      /\ call'[c].pc \in {"preview", "ready"} /\ call'[c].now = {p} /\ call'[c].todo = call[c].todo
  <2>1. call'[c] = h /\ call' \in [Call -> Handler \union {Idle}]
        /\ \A d \in Call \ {c} : call'[d] = call[d]
    BY <1>b, BecomeEffect
  <2>. QED BY <1>a, <1>b, <2>1 DEF Handler
<1>1. TypeOK'
  BY <1>a, <1>d DEF UploadWriteFile, TypeOK, At, Handler
<1>2. StoredForTrip'
  BY <1>a, <1>d DEF UploadWriteFile, StoredForTrip, At
<1>3. StoredHaveHome'
  BY <1>a, <1>d, NoTripAssumption DEF UploadWriteFile, StoredHaveHome, StoredForTrip, Fresh,
     Holds, Busy, At, TypeOK, Idle
<1>4. UploadsOwnFiles'
  BY <1>a, <1>d DEF UploadWriteFile, UploadsOwnFiles, Uploads, Holds, Busy, StoredHaveHome, At,
     Idle
<1>5. TodoIsListed'
  BY <1>a, <1>d DEF UploadWriteFile, TodoIsListed, Busy, StoredHaveHome, At, Idle
<1>6. PassedAreGone'
  BY <1>a, <1>d DEF UploadWriteFile, PassedAreGone, Passed, Excused, Holds, StoredHaveHome, At
<1>7. FilesHaveRows'
  <2>1. \A d \in Call, q \in files : Uploads(d, q) => Uploads(d, q)'
    BY <1>d DEF UploadWriteFile, Uploads, At, Holds
  <2>2. \A d \in Call : Busy(d) => Busy(d)' /\ call[d].todo \subseteq call'[d].todo
    BY <1>a, <1>d DEF UploadWriteFile, Busy, Idle, At
  <2>3. files' = files \union {p}
        /\ rows \subseteq rows' /\ adrift \subseteq adrift' /\ broken \subseteq broken'
    BY DEF UploadWriteFile
  <2>4. Uploads(c, p)' BY <1>d DEF Uploads, At, Holds
  <2>. QED BY <2>1, <2>2, <2>3, <2>4, FilesHaveRowsKept
<1>8. RowsHaveFiles'
  BY <1>a, <1>d DEF UploadWriteFile, RowsHaveFiles, Passed, Holds, Busy, At, Idle
<1>9. ThumbsHaveFiles'
  BY <1>a, <1>d DEF UploadWriteFile, ThumbsHaveFiles, Holds, At
<1>. QED BY <1>1, <1>2, <1>3, <1>4, <1>5, <1>6, <1>7, <1>8, <1>9

LEMMA StepUploadRejected ==
  ASSUME Inv, NEW c \in Call, UploadRejected(c)
  PROVE  Inv'
<1>. USE DEF Inv
<1>1. TypeOK'
  BY DEF UploadRejected, Return, Become, TypeOK, At, Handler, Idle, WithPhoto
<1>2. StoredForTrip'
  BY DEF UploadRejected, Return, Become, StoredForTrip, At, Idle
<1>3. StoredHaveHome'
  BY NoTripAssumption DEF UploadRejected, Return, Become, StoredHaveHome, StoredForTrip, Fresh,
     Holds, Busy, At, TypeOK
<1>4. UploadsOwnFiles'
  BY DEF UploadRejected, Return, Become, UploadsOwnFiles, Uploads, Holds, Busy, At, Idle
<1>5. TodoIsListed'
  BY DEF UploadRejected, Return, Become, TodoIsListed, Busy, StoredHaveHome, At, TypeOK, Handler
<1>6. PassedAreGone'
  BY DEF UploadRejected, Return, Become, PassedAreGone, Passed, Excused, Holds, At, TypeOK, Idle
<1>7. FilesHaveRows'
  BY DEF UploadRejected, Return, Become, FilesHaveRows, Holds, Busy, TodoIsListed, At, TypeOK
<1>8. RowsHaveFiles'
  BY DEF UploadRejected, Return, Become, RowsHaveFiles, Passed, Holds, Busy, At, TypeOK
<1>9. ThumbsHaveFiles'
  BY DEF UploadRejected, Return, Become, ThumbsHaveFiles, Holds, At, TypeOK
<1>. QED BY <1>1, <1>2, <1>3, <1>4, <1>5, <1>6, <1>7, <1>8, <1>9

LEMMA StepUploadPreview ==
  ASSUME Inv, NEW c \in Call, UploadPreview(c)
  PROVE  Inv'
<1>. USE DEF Inv
<1>a. call[c] \in Handler BY BusyIsHandler DEF UploadPreview, At
<1>b. PICK h \in Handler :
        /\ h = [call[c] EXCEPT !.pc = "ready"]
        /\ Become(c, h)
  BY <1>a DEF UploadPreview, Goto, Handler, Phase
<1>d. /\ call' \in [Call -> Handler \union {Idle}] /\ call'[c] \in Handler
      /\ \A d \in Call \ {c} : call'[d] = call[d]
      /\ call'[c].op = call[c].op /\ call'[c].trip = call[c].trip
      /\ call'[c].pc = "ready" /\ call'[c].now = call[c].now /\ call'[c].todo = call[c].todo
  <2>1. call'[c] = h /\ call' \in [Call -> Handler \union {Idle}]
        /\ \A d \in Call \ {c} : call'[d] = call[d]
    BY <1>b, BecomeEffect
  <2>. QED BY <1>a, <1>b, <2>1 DEF Handler
<1>1. TypeOK'
  BY <1>a, <1>d DEF UploadPreview, TypeOK, At, WithPhoto
<1>2. StoredForTrip'
  BY <1>a, <1>d DEF UploadPreview, StoredForTrip, At
<1>3. StoredHaveHome'
  BY <1>a, <1>d, NoTripAssumption DEF UploadPreview, StoredHaveHome, Fresh, Holds, Busy, At, Idle
<1>4. UploadsOwnFiles'
  BY <1>a, <1>d DEF UploadPreview, UploadsOwnFiles, Uploads, Holds, Busy, At, Idle
<1>5. TodoIsListed'
  BY <1>a, <1>d DEF UploadPreview, TodoIsListed, Busy, At, Idle
<1>6. PassedAreGone'
  BY <1>a, <1>d DEF UploadPreview, PassedAreGone, Passed, Excused, Holds, At
<1>7. FilesHaveRows'
  <2>1. \A d \in Call, q \in files : Uploads(d, q) => Uploads(d, q)'
    BY <1>d DEF UploadPreview, Uploads, At, Holds
  <2>2. \A d \in Call : Busy(d) => Busy(d)' /\ call[d].todo \subseteq call'[d].todo
    BY <1>a, <1>d DEF UploadPreview, Busy, Idle, At
  <2>3. files' = files /\ rows \subseteq rows' /\ adrift \subseteq adrift' /\ broken \subseteq broken'
    BY DEF UploadPreview
  <2>. QED BY <2>1, <2>2, <2>3, FilesHaveRowsKept
<1>8. RowsHaveFiles'
  BY DEF UploadPreview, Goto, Become, RowsHaveFiles, Passed, Holds, Busy, At
<1>9. ThumbsHaveFiles'
  BY <1>a, <1>d DEF UploadPreview, ThumbsHaveFiles, Holds, UploadsOwnFiles, Uploads, WithPhoto,
     At, TypeOK
<1>. QED BY <1>1, <1>2, <1>3, <1>4, <1>5, <1>6, <1>7, <1>8, <1>9

LEMMA StepUploadInsert ==
  ASSUME Inv, NEW c \in Call, UploadInsert(c)
  PROVE  Inv'
<1>. USE DEF Inv
<1>1. TypeOK'
  BY DEF UploadInsert, Return, Become, TypeOK, At, Idle, WithPhoto
<1>2. StoredForTrip'
  BY DEF UploadInsert, Return, Become, StoredForTrip, At, Idle
<1>3. StoredHaveHome'
  BY NoTripAssumption DEF UploadInsert, Return, Become, StoredHaveHome, Fresh, Holds, Busy, At,
     Idle
<1>4. UploadsOwnFiles'
  BY DEF UploadInsert, Return, Become, UploadsOwnFiles, Uploads, Holds, Busy, At, TypeOK, Idle
<1>5. TodoIsListed'
  BY DEF UploadInsert, Return, Become, TodoIsListed, Busy, At
<1>6. PassedAreGone'
  BY DEF UploadInsert, Return, Become, PassedAreGone, Passed, Excused, Holds, At, Idle
<1>7. FilesHaveRows'
  BY DEF UploadInsert, Return, Become, FilesHaveRows, Holds, Busy, TodoIsListed, At, TypeOK
<1>8. RowsHaveFiles'
  BY DEF UploadInsert, Return, Become, RowsHaveFiles, Passed, Holds, Busy, UploadsOwnFiles,
     Uploads, At, TypeOK, Handler, Idle
<1>9. ThumbsHaveFiles'
  BY DEF UploadInsert, Return, Become, ThumbsHaveFiles, Holds, At, TypeOK
<1>. QED BY <1>1, <1>2, <1>3, <1>4, <1>5, <1>6, <1>7, <1>8, <1>9

LEMMA StepUploadInsertFails ==
  ASSUME Inv, NEW c \in Call, UploadInsertFails(c)
  PROVE  Inv'
<1>. USE DEF Inv
<1>1. TypeOK'
  BY DEF UploadInsertFails, Return, Become, TypeOK, At, Idle, WithPhoto
<1>2. StoredForTrip'
  BY DEF UploadInsertFails, Return, Become, StoredForTrip, At, Idle
<1>3. StoredHaveHome'
  BY NoTripAssumption DEF UploadInsertFails, Return, Become, StoredHaveHome, Fresh, Holds, Busy
<1>4. UploadsOwnFiles'
  BY DEF UploadInsertFails, Return, Become, UploadsOwnFiles, Uploads, Holds, Busy, At, TypeOK,
     Idle
<1>5. TodoIsListed'
  BY DEF UploadInsertFails, Return, Become, TodoIsListed, Busy, At
<1>6. PassedAreGone'
  BY DEF UploadInsertFails, Return, Become, PassedAreGone, Passed, Excused, Holds, At, Idle
<1>7. FilesHaveRows'
  BY DEF UploadInsertFails, Return, Become, FilesHaveRows, Holds, Busy, TodoIsListed, At, TypeOK
<1>8. RowsHaveFiles'
  BY DEF UploadInsertFails, Return, Become, RowsHaveFiles, Passed, Holds, Busy, UploadsOwnFiles,
     Uploads, At, TypeOK
<1>9. ThumbsHaveFiles'
  BY DEF UploadInsertFails, Return, Become, ThumbsHaveFiles, Holds, At, TypeOK
<1>. QED BY <1>1, <1>2, <1>3, <1>4, <1>5, <1>6, <1>7, <1>8, <1>9

LEMMA StepImportStart ==
  ASSUME Inv, NEW c \in Call, NEW t \in Trip, ImportStart(c, t)
  PROVE  Inv'
<1>. USE DEF Inv
<1>1. TypeOK'
  BY DEF ImportStart, Begin, Become, TypeOK, At, Handler, Phase, Op, WithPhoto
<1>2. StoredForTrip'
  BY DEF ImportStart, Begin, Become, StoredForTrip, At
<1>3. StoredHaveHome'
  BY NoTripAssumption DEF ImportStart, Begin, Become, StoredHaveHome, Fresh, Holds, Busy
<1>4. UploadsOwnFiles'
  BY DEF ImportStart, Begin, Become, UploadsOwnFiles, Uploads, Holds, Busy, At
<1>5. TodoIsListed'
  BY DEF ImportStart, Begin, Become, TodoIsListed, Busy, At
<1>6. PassedAreGone'
  BY DEF ImportStart, Begin, Become, PassedAreGone, Passed, Excused, Holds, At
<1>7. FilesHaveRows'
  BY DEF ImportStart, Begin, Become, FilesHaveRows, Holds, Busy, TodoIsListed, At, TypeOK
<1>8. RowsHaveFiles'
  BY DEF ImportStart, Begin, Become, RowsHaveFiles, Passed, Holds, Busy, At
<1>9. ThumbsHaveFiles'
  BY DEF ImportStart, Begin, Become, ThumbsHaveFiles, Holds, At, TypeOK
<1>. QED BY <1>1, <1>2, <1>3, <1>4, <1>5, <1>6, <1>7, <1>8, <1>9

LEMMA StepImportRow ==
  ASSUME Inv, NEW c \in Call, NEW p \in Photo, ImportRow(c, p)
  PROVE  Inv'
<1>. USE DEF Inv
<1>a. call[c] \in Handler BY BusyIsHandler DEF ImportRow, At
<1>b. PICK h \in Handler :
        /\ h = [call[c] EXCEPT !.pc = "extract", !.now = {p}]
        /\ Become(c, h)
  BY <1>a DEF ImportRow, Hold, Handler, Phase
<1>d. /\ call' \in [Call -> Handler \union {Idle}] /\ call'[c] \in Handler
      /\ \A d \in Call \ {c} : call'[d] = call[d]
      /\ call'[c].op = call[c].op /\ call'[c].trip = call[c].trip
      /\ call'[c].pc = "extract" /\ call'[c].now = {p} /\ call'[c].todo = call[c].todo
  <2>1. call'[c] = h /\ call' \in [Call -> Handler \union {Idle}]
        /\ \A d \in Call \ {c} : call'[d] = call[d]
    BY <1>b, BecomeEffect
  <2>. QED BY <1>a, <1>b, <2>1 DEF Handler
<1>1. TypeOK'
  BY <1>a, <1>d DEF ImportRow, TypeOK, At, Handler
<1>2. StoredForTrip'
  BY <1>a, <1>d DEF ImportRow, StoredForTrip, At
<1>3. StoredHaveHome'
  BY <1>a, <1>d, NoTripAssumption DEF ImportRow, StoredHaveHome, StoredForTrip, Fresh, Holds,
     Busy, At, TypeOK, Idle
<1>4. UploadsOwnFiles'
  BY <1>a, <1>d DEF ImportRow, UploadsOwnFiles, Uploads, Holds, Busy, StoredHaveHome, At, Idle
<1>5. TodoIsListed'
  BY <1>a, <1>d DEF ImportRow, TodoIsListed, Busy, StoredHaveHome, At, Idle
<1>6. PassedAreGone'
  BY <1>a, <1>d DEF ImportRow, PassedAreGone, Passed, Excused, Holds, StoredHaveHome, At
<1>7. FilesHaveRows'
  <2>1. \A d \in Call, q \in files : Uploads(d, q) => Uploads(d, q)'
    BY <1>d DEF ImportRow, Uploads, At, Holds
  <2>2. \A d \in Call : Busy(d) => Busy(d)' /\ call[d].todo \subseteq call'[d].todo
    BY <1>a, <1>d DEF ImportRow, Busy, Idle, At
  <2>3. files' = files /\ rows \subseteq rows' /\ adrift \subseteq adrift' /\ broken \subseteq broken'
    BY DEF ImportRow
  <2>. QED BY <2>1, <2>2, <2>3, FilesHaveRowsKept
<1>8. RowsHaveFiles'
  BY <1>a, <1>d DEF ImportRow, RowsHaveFiles, Passed, Holds, Busy, At
<1>9. ThumbsHaveFiles'
  BY <1>a, <1>d DEF ImportRow, ThumbsHaveFiles, Holds, At
<1>. QED BY <1>1, <1>2, <1>3, <1>4, <1>5, <1>6, <1>7, <1>8, <1>9

LEMMA StepImportStops ==
  ASSUME Inv, NEW c \in Call, ImportStops(c)
  PROVE  Inv'
<1>. USE DEF Inv
<1>1. TypeOK'
  BY DEF ImportStops, Return, Become, TypeOK, At, Idle, WithPhoto
<1>2. StoredForTrip'
  BY DEF ImportStops, Return, Become, StoredForTrip, At, Idle
<1>3. StoredHaveHome'
  BY NoTripAssumption DEF ImportStops, Return, Become, StoredHaveHome, Fresh, Holds, Busy
<1>4. UploadsOwnFiles'
  BY DEF ImportStops, Return, Become, UploadsOwnFiles, Uploads, Holds, Busy, At, Idle
<1>5. TodoIsListed'
  BY DEF ImportStops, Return, Become, TodoIsListed, Busy, At
<1>6. PassedAreGone'
  BY DEF ImportStops, Return, Become, PassedAreGone, Passed, Excused, Holds, At, Idle
<1>7. FilesHaveRows'
  BY DEF ImportStops, Return, Become, FilesHaveRows, Holds, Busy, TodoIsListed, At, TypeOK
<1>8. RowsHaveFiles'
  BY DEF ImportStops, Return, Become, RowsHaveFiles, Passed, Holds, Busy, At
<1>9. ThumbsHaveFiles'
  BY DEF ImportStops, Return, Become, ThumbsHaveFiles, Holds, At, TypeOK
<1>. QED BY <1>1, <1>2, <1>3, <1>4, <1>5, <1>6, <1>7, <1>8, <1>9

LEMMA StepImportFile ==
  ASSUME Inv, NEW c \in Call, ImportFile(c)
  PROVE  Inv'
<1>. USE DEF Inv
<1>1. TypeOK'
  BY DEF ImportFile, Goto, Become, TypeOK, At, Handler, Idle, Phase, WithPhoto
<1>2. StoredForTrip'
  BY DEF ImportFile, Goto, Become, StoredForTrip, At
<1>3. StoredHaveHome'
  BY NoTripAssumption DEF ImportFile, Goto, Become, StoredHaveHome, Fresh, Holds, Busy, At, Idle
<1>4. UploadsOwnFiles'
  BY DEF ImportFile, Goto, Become, UploadsOwnFiles, Uploads, Holds, Busy, At, Idle
<1>5. TodoIsListed'
  BY DEF ImportFile, Goto, Become, TodoIsListed, Busy, At, Idle
<1>6. PassedAreGone'
  BY DEF ImportFile, Goto, Become, PassedAreGone, Passed, Excused, Holds, At
<1>7. FilesHaveRows'
  BY DEF ImportFile, Goto, Become, FilesHaveRows, Holds, Busy, TodoIsListed, At, TypeOK
<1>8. RowsHaveFiles'
  BY DEF ImportFile, Goto, Become, RowsHaveFiles, Passed, Holds, Busy, At
<1>9. ThumbsHaveFiles'
  BY DEF ImportFile, Goto, Become, ThumbsHaveFiles, Holds, At, TypeOK
<1>. QED BY <1>1, <1>2, <1>3, <1>4, <1>5, <1>6, <1>7, <1>8, <1>9

LEMMA StepImportThumb ==
  ASSUME Inv, NEW c \in Call, ImportThumb(c)
  PROVE  Inv'
<1>. USE DEF Inv
<1>a. call[c] \in Handler BY BusyIsHandler DEF ImportThumb, At
<1>b. PICK h \in Handler :
        /\ h = [call[c] EXCEPT !.pc = "importing"]
        /\ Become(c, h)
  BY <1>a DEF ImportThumb, Goto, Handler, Phase
<1>d. /\ call' \in [Call -> Handler \union {Idle}] /\ call'[c] \in Handler
      /\ \A d \in Call \ {c} : call'[d] = call[d]
      /\ call'[c].op = call[c].op /\ call'[c].trip = call[c].trip
      /\ call'[c].pc = "importing" /\ call'[c].now = call[c].now /\ call'[c].todo = call[c].todo
  <2>1. call'[c] = h /\ call' \in [Call -> Handler \union {Idle}]
        /\ \A d \in Call \ {c} : call'[d] = call[d]
    BY <1>b, BecomeEffect
  <2>. QED BY <1>a, <1>b, <2>1 DEF Handler
<1>1. TypeOK'
  <2>1. call[c].now \subseteq Photo BY <1>a DEF Handler
  <2>2. thumbs' \subseteq Photo /\ adrift' \subseteq {"file", "thumb"} \X Photo
    BY <2>1 DEF ImportThumb, TypeOK
  <2>3. \A d \in Call : At(d, WithPhoto)' => \E p \in Photo : call'[d].now = {p}
    BY <1>d DEF TypeOK, At, WithPhoto
  <2>. QED BY <1>d, <2>2, <2>3 DEF ImportThumb, TypeOK
<1>2. StoredForTrip'
  BY <1>a, <1>d DEF ImportThumb, StoredForTrip, At
<1>3. StoredHaveHome'
  BY <1>a, <1>d, NoTripAssumption DEF ImportThumb, StoredHaveHome, Fresh, Holds, Busy, At, Idle
<1>4. UploadsOwnFiles'
  BY <1>a, <1>d DEF ImportThumb, UploadsOwnFiles, Uploads, Holds, Busy, At, Idle
<1>5. TodoIsListed'
  BY <1>a, <1>d DEF ImportThumb, TodoIsListed, Busy, At, Idle
<1>6. PassedAreGone'
  BY <1>a, <1>d DEF ImportThumb, PassedAreGone, Passed, Excused, Holds, At
<1>7. FilesHaveRows'
  <2>1. \A d \in Call, q \in files : Uploads(d, q) => Uploads(d, q)'
    BY <1>d DEF ImportThumb, Uploads, At, Holds
  <2>2. \A d \in Call : Busy(d) => Busy(d)' /\ call[d].todo \subseteq call'[d].todo
    BY <1>a, <1>d DEF ImportThumb, Busy, Idle, At
  <2>3. files' = files /\ rows \subseteq rows' /\ adrift \subseteq adrift' /\ broken \subseteq broken'
    BY DEF ImportThumb
  <2>. QED BY <2>1, <2>2, <2>3, FilesHaveRowsKept
<1>8. RowsHaveFiles'
  BY DEF ImportThumb, Goto, Become, RowsHaveFiles, Passed, Holds, Busy, At
<1>9. ThumbsHaveFiles'
  BY <1>a, <1>d DEF ImportThumb, ThumbsHaveFiles, Holds, At
<1>. QED BY <1>1, <1>2, <1>3, <1>4, <1>5, <1>6, <1>7, <1>8, <1>9

LEMMA StepThumbRequest ==
  ASSUME Inv, NEW c \in Call, NEW p \in Photo, ThumbRequest(c, p)
  PROVE  Inv'
<1>. USE DEF Inv
<1>1. TypeOK'
  BY DEF ThumbRequest, Begin, Become, TypeOK, At, Handler, Phase, Op
<1>2. StoredForTrip'
  BY DEF ThumbRequest, Begin, Become, StoredForTrip, At
<1>3. StoredHaveHome'
  BY NoTripAssumption DEF ThumbRequest, Begin, Become, StoredHaveHome, Fresh, Holds, Busy
<1>4. UploadsOwnFiles'
  BY DEF ThumbRequest, Begin, Become, UploadsOwnFiles, Uploads, Holds, Busy, At
<1>5. TodoIsListed'
  BY DEF ThumbRequest, Begin, Become, TodoIsListed, Busy, At
<1>6. PassedAreGone'
  BY DEF ThumbRequest, Begin, Become, PassedAreGone, Passed, Excused, Holds, At
<1>7. FilesHaveRows'
  BY DEF ThumbRequest, Begin, Become, FilesHaveRows, Holds, Busy, TodoIsListed, At, TypeOK
<1>8. RowsHaveFiles'
  BY DEF ThumbRequest, Begin, Become, RowsHaveFiles, Passed, Holds, Busy, At
<1>9. ThumbsHaveFiles'
  BY DEF ThumbRequest, Begin, Become, ThumbsHaveFiles, Holds, At, TypeOK
<1>. QED BY <1>1, <1>2, <1>3, <1>4, <1>5, <1>6, <1>7, <1>8, <1>9

LEMMA StepThumbOpen ==
  ASSUME Inv, NEW c \in Call, ThumbOpen(c)
  PROVE  Inv'
<1>. USE DEF Inv
<1>1. TypeOK'
  BY DEF ThumbOpen, Goto, Become, TypeOK, At, Handler, Idle, Phase, WithPhoto
<1>2. StoredForTrip'
  BY DEF ThumbOpen, Goto, Become, StoredForTrip, At
<1>3. StoredHaveHome'
  BY NoTripAssumption DEF ThumbOpen, Goto, Become, StoredHaveHome, Fresh, Holds, Busy, At, Idle
<1>4. UploadsOwnFiles'
  BY DEF ThumbOpen, Goto, Become, UploadsOwnFiles, Uploads, Holds, Busy, At, Idle
<1>5. TodoIsListed'
  BY DEF ThumbOpen, Goto, Become, TodoIsListed, Busy, At, Idle
<1>6. PassedAreGone'
  BY DEF ThumbOpen, Goto, Become, PassedAreGone, Passed, Excused, Holds, At
<1>7. FilesHaveRows'
  BY DEF ThumbOpen, Goto, Become, FilesHaveRows, Holds, Busy, TodoIsListed, At, TypeOK
<1>8. RowsHaveFiles'
  BY DEF ThumbOpen, Goto, Become, RowsHaveFiles, Passed, Holds, Busy, At
<1>9. ThumbsHaveFiles'
  BY DEF ThumbOpen, Goto, Become, ThumbsHaveFiles, Holds, At, TypeOK
<1>. QED BY <1>1, <1>2, <1>3, <1>4, <1>5, <1>6, <1>7, <1>8, <1>9

LEMMA StepThumbDone ==
  ASSUME Inv, NEW c \in Call, ThumbDone(c)
  PROVE  Inv'
<1>. USE DEF Inv
<1>1. TypeOK'
  BY DEF ThumbDone, Return, Become, TypeOK, At, Idle, WithPhoto
<1>2. StoredForTrip'
  BY DEF ThumbDone, Return, Become, StoredForTrip, At, Idle
<1>3. StoredHaveHome'
  BY NoTripAssumption DEF ThumbDone, Return, Become, StoredHaveHome, Fresh, Holds, Busy
<1>4. UploadsOwnFiles'
  BY DEF ThumbDone, Return, Become, UploadsOwnFiles, Uploads, Holds, Busy, At, Idle
<1>5. TodoIsListed'
  BY DEF ThumbDone, Return, Become, TodoIsListed, Busy, At
<1>6. PassedAreGone'
  BY DEF ThumbDone, Return, Become, PassedAreGone, Passed, Excused, Holds, At, Idle
<1>7. FilesHaveRows'
  BY DEF ThumbDone, Return, Become, FilesHaveRows, Holds, Busy, TodoIsListed, At, TypeOK
<1>8. RowsHaveFiles'
  BY DEF ThumbDone, Return, Become, RowsHaveFiles, Passed, Holds, Busy, At
<1>9. ThumbsHaveFiles'
  BY DEF ThumbDone, Return, Become, ThumbsHaveFiles, Holds, At, TypeOK
<1>. QED BY <1>1, <1>2, <1>3, <1>4, <1>5, <1>6, <1>7, <1>8, <1>9

LEMMA StepThumbWrite ==
  ASSUME Inv, NEW c \in Call, ThumbWrite(c)
  PROVE  Inv'
<1>. USE DEF Inv
<1>1. TypeOK'
  BY DEF ThumbWrite, Return, Become, TypeOK, At, Idle, WithPhoto
<1>2. StoredForTrip'
  BY DEF ThumbWrite, Return, Become, StoredForTrip, At, Idle
<1>3. StoredHaveHome'
  BY NoTripAssumption DEF ThumbWrite, Return, Become, StoredHaveHome, Fresh, Holds, Busy
<1>4. UploadsOwnFiles'
  BY DEF ThumbWrite, Return, Become, UploadsOwnFiles, Uploads, Holds, Busy, At, Idle
<1>5. TodoIsListed'
  BY DEF ThumbWrite, Return, Become, TodoIsListed, Busy, At
<1>6. PassedAreGone'
  BY DEF ThumbWrite, Return, Become, PassedAreGone, Passed, Excused, Holds, At, Idle
<1>7. FilesHaveRows'
  BY DEF ThumbWrite, Return, Become, FilesHaveRows, Holds, Busy, TodoIsListed, At, TypeOK
<1>8. RowsHaveFiles'
  BY DEF ThumbWrite, Return, Become, RowsHaveFiles, Passed, Holds, Busy, At
<1>9. ThumbsHaveFiles'
  BY DEF ThumbWrite, Return, Become, ThumbsHaveFiles, Holds, At, TypeOK
<1>. QED BY <1>1, <1>2, <1>3, <1>4, <1>5, <1>6, <1>7, <1>8, <1>9

LEMMA StepDeletePhotoStart ==
  ASSUME Inv, NEW c \in Call, NEW p \in Photo, DeletePhotoStart(c, p)
  PROVE  Inv'
<1>. USE DEF Inv
<1>1. TypeOK'
  BY DEF DeletePhotoStart, Become, TypeOK, At, Handler, Phase, Op, WithPhoto
<1>2. StoredForTrip'
  BY DEF DeletePhotoStart, Become, StoredForTrip, At
<1>3. StoredHaveHome'
  BY NoTripAssumption DEF DeletePhotoStart, Become, StoredHaveHome, Fresh, Holds, Busy
<1>4. UploadsOwnFiles'
  BY DEF DeletePhotoStart, Become, UploadsOwnFiles, Uploads, Holds, Busy, At
<1>5. TodoIsListed'
  BY DEF DeletePhotoStart, Become, TodoIsListed, Busy, At
<1>6. PassedAreGone'
  BY DEF DeletePhotoStart, Become, PassedAreGone, Passed, Excused, Holds, At
<1>7. FilesHaveRows'
  BY DEF DeletePhotoStart, Become, FilesHaveRows, Holds, Busy, TodoIsListed, At, TypeOK
<1>8. RowsHaveFiles'
  BY DEF DeletePhotoStart, Become, RowsHaveFiles, Passed, Holds, Busy, At
<1>9. ThumbsHaveFiles'
  BY DEF DeletePhotoStart, Become, ThumbsHaveFiles, Holds, At, TypeOK
<1>. QED BY <1>1, <1>2, <1>3, <1>4, <1>5, <1>6, <1>7, <1>8, <1>9

LEMMA StepDeleteTripStart ==
  ASSUME Inv, NEW c \in Call, NEW t \in Trip, DeleteTripStart(c, t)
  PROVE  Inv'
<1>. USE DEF Inv
<1>1. TypeOK'
  BY DEF DeleteTripStart, Begin, Become, TypeOK, At, Handler, Phase, Op, WithPhoto
<1>2. StoredForTrip'
  BY DEF DeleteTripStart, Begin, Become, StoredForTrip, At, TypeOK
<1>3. StoredHaveHome'
  BY NoTripAssumption DEF DeleteTripStart, Begin, Become, StoredHaveHome, Fresh, Holds, Busy,
     TypeOK
<1>4. UploadsOwnFiles'
  BY DEF DeleteTripStart, Begin, Become, UploadsOwnFiles, Uploads, Holds, Busy, At, TypeOK
<1>5. TodoIsListed'
  BY DEF DeleteTripStart, Begin, Become, TodoIsListed, Busy, At, TypeOK
<1>6. PassedAreGone'
  BY DEF DeleteTripStart, Begin, Become, PassedAreGone, Passed, Excused, Holds, At, TypeOK
<1>7. FilesHaveRows'
  BY DEF DeleteTripStart, Begin, Become, FilesHaveRows, Holds, Busy, TodoIsListed, At, TypeOK
<1>8. RowsHaveFiles'
  BY DEF DeleteTripStart, Begin, Become, RowsHaveFiles, Passed, Holds, Busy, At, TypeOK
<1>9. ThumbsHaveFiles'
  BY DEF DeleteTripStart, Begin, Become, ThumbsHaveFiles, Holds, At, TypeOK
<1>. QED BY <1>1, <1>2, <1>3, <1>4, <1>5, <1>6, <1>7, <1>8, <1>9

LEMMA StepListPhotos ==
  ASSUME Inv, NEW c \in Call, ListPhotos(c)
  PROVE  Inv'
<1>. USE DEF Inv
<1>a. call[c] \in Handler BY BusyIsHandler DEF ListPhotos, At
<1>t. call[c].todo = {} /\ call[c].op # "delete_photo"
  BY <1>a DEF ListPhotos, TodoIsListed, Busy, At, Idle
<1>b. PICK T \in SUBSET Photo :
        /\ Become(c, [call[c] EXCEPT !.pc = "unlink", !.todo = T])
        /\ T = PhotosOf(call[c].trip) \/ (T = {} /\ PhotosOf(call[c].trip) \subseteq broken')
        /\ broken \subseteq broken'
  <2>1. [call[c] EXCEPT !.pc = "unlink"] = [call[c] EXCEPT !.pc = "unlink", !.todo = {}]
    BY <1>a, <1>t DEF Handler
  <2>2. PhotosOf(call[c].trip) \subseteq Photo BY DEF PhotosOf, TypeOK
  <2>3. CASE /\ Become(c, [call[c] EXCEPT !.pc = "unlink", !.todo = PhotosOf(call[c].trip)])
             /\ UNCHANGED broken
    <3>1. PhotosOf(call[c].trip) \in SUBSET Photo BY <2>2
    <3>. WITNESS PhotosOf(call[c].trip) \in SUBSET Photo
    <3>. QED BY <2>3
  <2>4. CASE /\ Goto(c, "unlink")
             /\ broken' = broken \union PhotosOf(call[c].trip)
    BY <2>1, <2>4 DEF Goto
  <2>. QED BY <2>3, <2>4 DEF ListPhotos
<1>d. /\ call' \in [Call -> Handler \union {Idle}] /\ call'[c] \in Handler
      /\ \A d \in Call \ {c} : call'[d] = call[d]
      /\ call'[c].op = call[c].op /\ call'[c].op # "delete_photo"
      /\ call'[c].trip = call[c].trip /\ call'[c].now = call[c].now
      /\ call'[c].pc = "unlink" /\ call'[c].todo = T
  <2>. DEFINE h == [call[c] EXCEPT !.pc = "unlink", !.todo = T]
  <2>1. h \in Handler /\ h.op = call[c].op /\ h.trip = call[c].trip /\ h.now = call[c].now
        /\ h.pc = "unlink" /\ h.todo = T
    BY <1>a DEF Handler, Phase
  <2>2. Become(c, h) BY <1>b
  <2>. HIDE DEF h
  <2>3. call'[c] = h /\ call' \in [Call -> Handler \union {Idle}]
        /\ \A d \in Call \ {c} : call'[d] = call[d]
    BY <2>1, <2>2, BecomeEffect
  <2>. QED BY <1>t, <2>1, <2>3
<1>1. TypeOK'
  BY <1>a, <1>d, <1>b DEF ListPhotos, PhotosOf, TypeOK, At, WithPhoto
<1>2. StoredForTrip'
  BY <1>a, <1>d, <1>b DEF StoredForTrip, At
<1>3. StoredHaveHome'
  BY <1>a, <1>d, NoTripAssumption, <1>b DEF ListPhotos, PhotosOf, StoredHaveHome, Fresh, Holds,
     Busy, At, Idle
<1>4. UploadsOwnFiles'
  BY <1>a, <1>d, <1>b DEF ListPhotos, PhotosOf, UploadsOwnFiles, Uploads, Holds, Busy, At
<1>5. TodoIsListed'
  BY <1>a, <1>d, <1>b DEF ListPhotos, PhotosOf, TodoIsListed, Busy, At
<1>6. PassedAreGone'
  BY <1>a, <1>d, <1>b DEF ListPhotos, PhotosOf, PassedAreGone, Passed, Excused, Holds, At
<1>7. FilesHaveRows'
  <2>1. \A d \in Call, q \in files : Uploads(d, q) => Uploads(d, q)'
    BY <1>d DEF ListPhotos, Uploads, At, Holds
  <2>2. \A d \in Call : Busy(d) => Busy(d)' /\ call[d].todo \subseteq call'[d].todo
    BY <1>a, <1>d, <1>t DEF ListPhotos, Busy, Idle, At
  <2>3. files' = files /\ rows \subseteq rows' /\ adrift \subseteq adrift' /\ broken \subseteq broken'
    BY DEF ListPhotos
  <2>. QED BY <2>1, <2>2, <2>3, FilesHaveRowsKept
<1>8. RowsHaveFiles'
  BY <1>a, <1>d, <1>b DEF ListPhotos, RowsHaveFiles, Passed, Holds, Busy, At
<1>9. ThumbsHaveFiles'
  BY <1>a, <1>d, <1>b DEF ListPhotos, ThumbsHaveFiles, Holds, At
<1>. QED BY <1>1, <1>2, <1>3, <1>4, <1>5, <1>6, <1>7, <1>8, <1>9

LEMMA StepUnlink ==
  ASSUME Inv, NEW c \in Call, NEW p \in Photo, Unlink(c, p)
  PROVE  Inv'
<1>. USE DEF Inv
<1>a. call[c] \in Handler BY BusyIsHandler DEF Unlink, At
<1>b. PICK h \in Handler :
        /\ h = [call[c] EXCEPT !.pc = "unlink_thumb", !.now = {p}, !.todo = @ \ {p}]
        /\ Become(c, h)
  BY <1>a DEF Unlink, Handler, Phase
<1>d. /\ call' \in [Call -> Handler \union {Idle}] /\ call'[c] \in Handler
      /\ \A d \in Call \ {c} : call'[d] = call[d]
      /\ call'[c].op = call[c].op /\ call'[c].trip = call[c].trip
      /\ call'[c].pc = "unlink_thumb" /\ call'[c].now = {p} /\ call'[c].todo = call[c].todo \ {p}
  <2>1. call'[c] = h /\ call' \in [Call -> Handler \union {Idle}]
        /\ \A d \in Call \ {c} : call'[d] = call[d]
    BY <1>b, BecomeEffect
  <2>. QED BY <1>a, <1>b, <2>1 DEF Handler
<1>1. TypeOK'
  BY <1>a, <1>d DEF Unlink, TypeOK, At
<1>2. StoredForTrip'
  BY <1>a, <1>d DEF StoredForTrip, At
<1>3. StoredHaveHome'
  BY <1>a, <1>d, NoTripAssumption DEF Unlink, StoredHaveHome, Fresh, Holds, Busy, At, Idle
<1>4. UploadsOwnFiles'
  BY <1>a, <1>d DEF Unlink, UploadsOwnFiles, Uploads, Holds, Busy, At, Idle
<1>5. TodoIsListed'
  BY <1>a, <1>d DEF Unlink, TodoIsListed, Busy, At, Idle
<1>6. PassedAreGone'
  BY <1>a, <1>d DEF Unlink, PassedAreGone, Passed, Excused, Holds, At
<1>7. FilesHaveRows'
  <2>1. \A d \in Call, q \in files : Uploads(d, q) => Uploads(d, q)'
    BY <1>a, <1>d DEF Unlink, Uploads, At, Holds
  <2>2. \A d \in Call, q \in files' \ broken' :
           Busy(d) /\ q \in call[d].todo => Busy(d)' /\ q \in call'[d].todo
    <3>1. call'[c] # Idle BY <1>d DEF Idle
    <3>2. \A q \in files' \ broken' : q \in call[c].todo => q \in call'[c].todo
      BY <1>a, <1>d DEF Unlink, Handler
    <3>. QED BY <1>d, <3>1, <3>2 DEF Busy
  <2>. QED BY <2>1, <2>2, FilesHaveRowsKept DEF Unlink
<1>8. RowsHaveFiles'
  BY <1>a, <1>d DEF Unlink, RowsHaveFiles, Passed, Holds, Busy, TodoIsListed, At, Idle
<1>9. ThumbsHaveFiles'
  BY <1>a, <1>d DEF Unlink, ThumbsHaveFiles, Holds, At
<1>. QED BY <1>1, <1>2, <1>3, <1>4, <1>5, <1>6, <1>7, <1>8, <1>9

LEMMA StepUnlinkThumb ==
  ASSUME Inv, NEW c \in Call, UnlinkThumb(c)
  PROVE  Inv'
<1>. USE DEF Inv
<1>a. call[c] \in Handler BY BusyIsHandler DEF UnlinkThumb, At
<1>b. PICK h \in Handler :
        /\ h = [call[c] EXCEPT !.pc = IF call[c].op = "delete_photo" THEN "erase" ELSE "unlink"]
        /\ Become(c, h)
  BY <1>a DEF UnlinkThumb, Goto, Handler, Phase
<1>d. /\ call' \in [Call -> Handler \union {Idle}] /\ call'[c] \in Handler
      /\ \A d \in Call \ {c} : call'[d] = call[d]
      /\ call'[c].op = call[c].op /\ call'[c].trip = call[c].trip
      /\ call'[c].pc = (IF call[c].op = "delete_photo" THEN "erase" ELSE "unlink")
      /\ call'[c].now = call[c].now /\ call'[c].todo = call[c].todo
  <2>1. call'[c] = h /\ call' \in [Call -> Handler \union {Idle}]
        /\ \A d \in Call \ {c} : call'[d] = call[d]
    BY <1>b, BecomeEffect
  <2>. QED BY <1>a, <1>b, <2>1 DEF Handler
<1>1. TypeOK'
  BY <1>a, <1>d DEF UnlinkThumb, TypeOK, At, WithPhoto
<1>2. StoredForTrip'
  BY <1>a, <1>d DEF StoredForTrip, At
<1>3. StoredHaveHome'
  BY <1>a, <1>d, NoTripAssumption DEF UnlinkThumb, StoredHaveHome, Fresh, Holds, Busy, At, Idle
<1>4. UploadsOwnFiles'
  BY <1>a, <1>d DEF UnlinkThumb, UploadsOwnFiles, Uploads, Holds, Busy, At, Idle
<1>5. TodoIsListed'
  BY <1>a, <1>d DEF UnlinkThumb, TodoIsListed, Busy, At, Idle
<1>6. PassedAreGone'
  BY <1>a, <1>d DEF UnlinkThumb, PassedAreGone, Passed, Excused, Holds, At
<1>7. FilesHaveRows'
  <2>1. \A d \in Call, q \in files : Uploads(d, q) => Uploads(d, q)'
    BY <1>a, <1>d DEF UnlinkThumb, Uploads, At, Holds
  <2>2. \A d \in Call, q \in files' \ broken' :
           Busy(d) /\ q \in call[d].todo => Busy(d)' /\ q \in call'[d].todo
    <3>1. call'[c] # Idle BY <1>d DEF Idle
    <3>2. \A q \in files' \ broken' : q \in call[c].todo => q \in call'[c].todo
      BY <1>a, <1>d DEF UnlinkThumb, Handler
    <3>. QED BY <1>d, <3>1, <3>2 DEF Busy
  <2>. QED BY <2>1, <2>2, FilesHaveRowsKept DEF UnlinkThumb
<1>8. RowsHaveFiles'
  BY <1>a, <1>d DEF UnlinkThumb, RowsHaveFiles, Passed, Holds, Busy, At, Idle
<1>9. ThumbsHaveFiles'
  BY DEF UnlinkThumb, Goto, Become, ThumbsHaveFiles, Holds, At, TypeOK
<1>. QED BY <1>1, <1>2, <1>3, <1>4, <1>5, <1>6, <1>7, <1>8, <1>9

LEMMA StepErase ==
  ASSUME Inv, NEW c \in Call, Erase(c)
  PROVE  Inv'
<1>. USE DEF Inv
<1>1. TypeOK'
  BY DEF Erase, Return, Become, PhotosOf, TypeOK, At, Idle, WithPhoto
<1>2. StoredForTrip'
  BY DEF Erase, Return, Become, StoredForTrip, At, Idle
<1>3. StoredHaveHome'
  BY NoTripAssumption DEF Erase, Return, Become, StoredHaveHome, Fresh, Holds, Busy
<1>4. UploadsOwnFiles'
  BY DEF Erase, Return, Become, UploadsOwnFiles, Uploads, Holds, Busy, At, Idle
<1>5. TodoIsListed'
  BY DEF Erase, Return, Become, TodoIsListed, Busy, At
<1>6. PassedAreGone'
  BY DEF Erase, Return, Become, PassedAreGone, Passed, Excused, Holds, At, Idle
<1>7. FilesHaveRows'
  BY DEF Erase, Return, Become, PhotosOf, FilesHaveRows, Holds, Busy, TodoIsListed, PassedAreGone,
     Excused, Passed, At, TypeOK
<1>8. RowsHaveFiles'
  BY DEF Erase, Return, Become, PhotosOf, RowsHaveFiles, Passed, Holds, Busy, At
<1>9. ThumbsHaveFiles'
  BY DEF Erase, Return, Become, ThumbsHaveFiles, Holds, At, TypeOK
<1>. QED BY <1>1, <1>2, <1>3, <1>4, <1>5, <1>6, <1>7, <1>8, <1>9

LEMMA StepRestart ==
  ASSUME Inv, Restart
  PROVE  Inv'
<1>. USE DEF Inv
<1>1. TypeOK'
  BY DEF Restart, TypeOK, At, Idle, WithPhoto
<1>2. StoredForTrip'
  BY DEF Restart, StoredForTrip, At, Idle
<1>3. StoredHaveHome'
  BY NoTripAssumption DEF Restart, StoredHaveHome, Fresh, Busy
<1>4. UploadsOwnFiles'
  BY DEF Restart, UploadsOwnFiles, Uploads, At, Idle
<1>5. TodoIsListed'
  BY DEF Restart, TodoIsListed, Busy
<1>6. PassedAreGone'
  BY DEF Restart, PassedAreGone, Passed, At, Idle
<1>7. FilesHaveRows'
  BY DEF Restart, FilesHaveRows, Holds, Busy, At, TypeOK
<1>8. RowsHaveFiles'
  BY DEF Restart, RowsHaveFiles, Holds, Busy, At, TypeOK
<1>9. ThumbsHaveFiles'
  BY DEF Restart, ThumbsHaveFiles, Holds, At, TypeOK
<1>. QED BY <1>1, <1>2, <1>3, <1>4, <1>5, <1>6, <1>7, <1>8, <1>9

LEMMA InitInv == Init => Inv
BY NoTripAssumption
   DEF Init, Inv, TypeOK, StoredForTrip, StoredHaveHome, UploadsOwnFiles, TodoIsListed,
       PassedAreGone, FilesHaveRows, RowsHaveFiles, ThumbsHaveFiles, Uploads, Passed, Fresh,
       At, Busy, Idle, WithPhoto

LEMMA StutterInv == Inv /\ UNCHANGED vars => Inv'
<1>. SUFFICES ASSUME Inv, UNCHANGED vars PROVE Inv' OBVIOUS
<1>. QED
  BY DEF vars, Inv, TypeOK, StoredForTrip, StoredHaveHome, UploadsOwnFiles, TodoIsListed,
         PassedAreGone, FilesHaveRows, RowsHaveFiles, ThumbsHaveFiles, Uploads, Passed,
         Excused, Fresh, Holds, At, Busy

LEMMA StepInv == Inv /\ [Next]_vars => Inv'
<1>. SUFFICES ASSUME Inv, [Next]_vars PROVE Inv' OBVIOUS
<1>1. ASSUME NEW t \in Trip, CreateTrip(t) PROVE Inv' BY <1>1, StepCreateTrip
<1>2. ASSUME NEW c \in Call, Step(c) PROVE Inv'
  BY <1>2, StepUploadPreview, StepUploadInsert, StepUploadInsertFails, StepImportFile,
     StepImportThumb, StepThumbOpen, StepThumbDone, StepThumbWrite, StepListPhotos,
     StepUnlink, StepUnlinkThumb, StepErase DEF Step
<1>3. ASSUME NEW c \in Call, UploadRejected(c) \/ ImportStops(c) PROVE Inv'
  BY <1>3, StepUploadRejected, StepImportStops
<1>4. ASSUME NEW c \in Call, NEW t \in Trip,
             UploadStart(c, t) \/ ImportStart(c, t) \/ DeleteTripStart(c, t)
      PROVE  Inv'
  BY <1>4, StepUploadStart, StepImportStart, StepDeleteTripStart
<1>5. ASSUME NEW c \in Call, NEW p \in Photo,
             \/ UploadWriteFile(c, p) \/ ImportRow(c, p)
             \/ ThumbRequest(c, p) \/ DeletePhotoStart(c, p)
      PROVE  Inv'
  BY <1>5, StepUploadWriteFile, StepImportRow, StepThumbRequest, StepDeletePhotoStart
<1>6. CASE Restart BY <1>6, StepRestart
<1>7. CASE UNCHANGED vars BY <1>7, StutterInv
<1>. QED BY <1>1, <1>2, <1>3, <1>4, <1>5, <1>6, <1>7 DEF Next

LEMMA InvAlways == Spec => []Inv
BY InitInv, StepInv, PTL DEF Spec

\* The rows, the files, the thumbnails and what each request has in hand are always
\* of their kinds, and a request between taking up a photo and letting it go has
\* exactly one in hand.
THEOREM TypeCorrect == Spec => []TypeOK
<1>1. Inv => TypeOK BY DEF Inv
<1>. QED BY <1>1, InvAlways, PTL

\* A photo row has its file, for any number of trips, photos and requests and under
\* every fault: only a delete that is not finished, an import that is about to write
\* the file, or a fault stands between.
THEOREM RowsKeepFiles == Spec => []RowsHaveFiles
<1>1. Inv => RowsHaveFiles BY DEF Inv
<1>. QED BY <1>1, InvAlways, PTL

\* A file belongs to a row or to a request that deals with it, for any number of
\* trips, photos and requests; the races that leave an orphan are the named ones.
THEOREM FilesKeepRows == Spec => []FilesHaveRows
<1>1. Inv => FilesHaveRows BY DEF Inv
<1>. QED BY <1>1, InvAlways, PTL

\* A thumbnail goes with its photo's file, for any number of trips, photos and
\* requests, except where a scaling request or a failed upload came in between.
THEOREM ThumbsKeepFiles == Spec => []ThumbsHaveFiles
<1>1. Inv => ThumbsHaveFiles BY DEF Inv
<1>. QED BY <1>1, InvAlways, PTL

=============================================================================
