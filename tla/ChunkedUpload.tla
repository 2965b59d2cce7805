---------------------------- MODULE ChunkedUpload ----------------------------
(***************************************************************************)
(* Chunked uploads (src/srv/server.go:1756-2066): the in-memory table      *)
(* s.chunkedUploads, the temp files `_chunks_<id>' on disk, the three       *)
(* request handlers init / chunk / complete, each a goroutine, and the      *)
(* goroutine that evicts old uploads.  A handler is a sequence of atomic    *)
(* steps: one critical section of chunkedMu, one system call on a file or   *)
(* one SQL statement.  The process may be restarted between any two steps   *)
(* (srv.service: Restart=always): memory is lost, disk and database stay.   *)
(*                                                                         *)
(* The client is arbitrary here, except that it sends each chunk of an      *)
(* upload at most once (the browser starts a new upload instead of          *)
(* resending: index.html:5677-5731).                                        *)
(***************************************************************************)
EXTENDS Integers, Sequences, FiniteSets, Functions

CONSTANTS User,      \* the accounts requests are sent for
          Upload,    \* upload ids init can hand out (uuids: never reused)
          Call,      \* request goroutines that may run at the same time
          Chunks,    \* how many chunks a file is cut into
          Blocks,    \* io.Copy appends a chunk in this many writes
          TTL,       \* chunkedUploadTTL, in ticks of the clock
          Nobody,    \* the owner of an id not yet handed out
          Faults     \* what may go wrong: "restart" of the process, "io" errors

ASSUME ChunksAssumption == Chunks \in Nat
ASSUME BlocksAssumption == Blocks \in Nat \ {0}
ASSUME TTLAssumption    == TTL \in Nat
ASSUME NobodyAssumption == Nobody \notin User
ASSUME FaultsAssumption == Faults \subseteq {"restart", "io"}

VARIABLES
  signedIn,  \* users with a live row in sessions
  owner,     \* cu.UserID of every id handed out, Nobody for the others
  uploads,   \* s.chunkedUploads: id -> [received: chunks counted, age: ticks]
  tmp,       \* temp files on disk: id -> what was appended, block by block
  call,      \* the request goroutines
  evicting,  \* the victims whose temp file the eviction has yet to remove
  media,     \* finished files on disk, under the id of the upload they come from
  photos,    \* how many photo rows each upload has produced
  sent,      \* chunks the client has sent for each id
  due,       \* chunks counted by the time complete took the upload
  stranded   \* files that exist and that nothing in the program will remove

vars == <<signedIn, owner, uploads, tmp, call, evicting, media, photos, sent,
          due, stranded>>

Chunk   == 1..Chunks
Block   == Chunk \X (1..Blocks)
Entry   == [received : SUBSET Chunk, age : 0..(TTL + 1)]
File    == {"tmp", "media"} \X Upload
Phase   == {"created", "found", "copying", "taken", "read", "unread", "saving",
            "writing", "saved"}
\* A handler's locals: the id and user of the request, the chunk in its body (0:
\* none), the next block to copy and the bytes os.ReadFile returned.
Handler == [pc : Phase, upload : Upload, user : User, chunk : 0..Chunks,
            pos : 1..(Blocks + 1), data : Seq(Block)]
Idle    == [pc |-> "idle"]

Without(f, S) == [x \in (DOMAIN f) \ S |-> f[x]]
With(f, x, v) == [y \in (DOMAIN f) \union {x} |-> IF y = x THEN v ELSE f[y]]

Pc(c)      == call[c].pc
Id(c)      == call[c].upload
Goto(c, l) == call' = [call EXCEPT ![c].pc = l]
Return(c)  == call' = [call EXCEPT ![c] = Idle]

\* A request for upload u by user p, with chunk k in its body, has come to l.
Begin(c, l, u, p, k) ==
  call' = [call EXCEPT ![c] = [pc |-> l, upload |-> u, user |-> p, chunk |-> k,
                               pos |-> 1, data |-> <<>>]]

\* getUser finds the session of the request's cookie and it is the uploader's.
Authorised(c) == call[c].user \in signedIn /\ call[c].user = owner[Id(c)]

Init ==
  /\ signedIn = User
  /\ owner = [u \in Upload |-> Nobody]
  /\ uploads = [u \in {} |-> 0]
  /\ tmp = [u \in {} |-> 0]
  /\ call = [c \in Call |-> Idle]
  /\ evicting = {}
  /\ media = [u \in {} |-> 0]
  /\ photos = [u \in Upload |-> 0]
  /\ sent = [u \in Upload |-> {}]
  /\ due = [u \in Upload |-> {}]
  /\ stranded = {}

-----------------------------------------------------------------------------
(* Sessions come and go while uploads run: login, logout, expiry. *)

SignIn(p) ==
  /\ p \notin signedIn
  /\ signedIn' = signedIn \union {p}
  /\ UNCHANGED <<owner, uploads, tmp, call, evicting, media, photos, sent, due, stranded>>

SignOut(p) ==
  /\ p \in signedIn
  /\ signedIn' = signedIn \ {p}
  /\ UNCHANGED <<owner, uploads, tmp, call, evicting, media, photos, sent, due, stranded>>

-----------------------------------------------------------------------------
(* POST /api/trips/{id}/uploads/init *)

\* The owner of the trip asks for an upload; os.Create makes the temp file.
InitCreate(c, p, u) ==
  /\ Pc(c) = "idle"
  /\ p \in signedIn
  /\ owner[u] = Nobody
  /\ owner' = [owner EXCEPT ![u] = p]
  /\ tmp' = With(tmp, u, <<>>)
  /\ Begin(c, "created", u, p, 0)
  /\ UNCHANGED <<signedIn, uploads, evicting, media, photos, sent, due, stranded>>

InitRegister(c) ==
  /\ Pc(c) = "created"
  /\ uploads' = With(uploads, Id(c), [received |-> {}, age |-> 0])
  /\ Return(c)
  /\ UNCHANGED <<signedIn, owner, tmp, evicting, media, photos, sent, due, stranded>>

-----------------------------------------------------------------------------
(* POST /api/uploads/{uploadID}/chunk *)

ChunkLookup(c, p, u, k) ==
  /\ Pc(c) = "idle"
  /\ u \in DOMAIN uploads
  /\ k \notin sent[u]
  /\ sent' = [sent EXCEPT ![u] = @ \union {k}]
  /\ Begin(c, "found", u, p, k)
  /\ UNCHANGED <<signedIn, owner, uploads, tmp, evicting, media, photos, due, stranded>>

\* (A mutation: the file is opened with O_TRUNC instead of O_APPEND.)
ChunkOpenTruncates(c) ==
  /\ Pc(c) = "found"
  /\ Authorised(c)
  /\ Id(c) \in DOMAIN tmp
  /\ tmp' = [tmp EXCEPT ![Id(c)] = <<>>]
  /\ Goto(c, "copying")
  /\ UNCHANGED <<signedIn, owner, uploads, evicting, media, photos, sent, due, stranded>>

\* os.OpenFile without O_CREATE: it needs the temp file to be there still.
ChunkOpen(c) ==
  /\ Pc(c) = "found"
  /\ Authorised(c)
  /\ Id(c) \in DOMAIN tmp
  /\ Goto(c, "copying")
  /\ UNCHANGED <<signedIn, owner, uploads, tmp, evicting, media, photos, sent, due, stranded>>

\* 401, or 500 when the temp file has gone or cannot be opened.
ChunkRefused(c) ==
  /\ Pc(c) = "found"
  /\ Return(c)
  /\ UNCHANGED <<signedIn, owner, uploads, tmp, evicting, media, photos, sent, due, stranded>>

\* io.Copy appends the next block (O_APPEND).  A file that has been removed in
\* the meantime still takes the bytes, where nobody will read them.
ChunkCopy(c) ==
  /\ Pc(c) = "copying"
  /\ call[c].pos <= Blocks
  /\ tmp' = IF Id(c) \in DOMAIN tmp
              THEN [tmp EXCEPT ![Id(c)] = Append(@, <<call[c].chunk, call[c].pos>>)]
              ELSE tmp
  /\ call' = [call EXCEPT ![c].pos = @ + 1]
  /\ UNCHANGED <<signedIn, owner, uploads, evicting, media, photos, sent, due, stranded>>

\* io.Copy fails: the client went away or the disk is full.  What has been
\* appended stays in the file.
ChunkAborted(c) ==
  /\ Pc(c) = "copying"
  /\ call[c].pos <= Blocks
  /\ Return(c)
  /\ UNCHANGED <<signedIn, owner, uploads, tmp, evicting, media, photos, sent, due, stranded>>

\* (A mutation: the chunk is counted when its last write is issued.)
ChunkCountEarly(c) ==
  /\ Pc(c) = "copying"
  /\ call[c].pos = Blocks
  /\ uploads' = IF Id(c) \in DOMAIN uploads
                  THEN [uploads EXCEPT ![Id(c)].received = @ \union {call[c].chunk}]
                  ELSE uploads
  /\ Return(c)
  /\ UNCHANGED <<signedIn, owner, tmp, evicting, media, photos, sent, due, stranded>>

\* cu.Received and cu.ChunkIndex, through the pointer: of no effect once the
\* upload has left the table.  The client is told that the chunk is stored.
ChunkCount(c) ==
  /\ Pc(c) = "copying"
  /\ call[c].pos = Blocks + 1
  /\ uploads' = IF Id(c) \in DOMAIN uploads
                  THEN [uploads EXCEPT ![Id(c)].received = @ \union {call[c].chunk}]
                  ELSE uploads
  /\ Return(c)
  /\ UNCHANGED <<signedIn, owner, tmp, evicting, media, photos, sent, due, stranded>>

-----------------------------------------------------------------------------
(* POST /api/uploads/{uploadID}/complete *)

\* (A mutation: complete looks the upload up, as chunk does, and leaves it there.)
CompleteLookup(c, p, u) ==
  /\ Pc(c) = "idle"
  /\ u \in DOMAIN uploads
  /\ due' = [due EXCEPT ![u] = uploads[u].received]
  /\ Begin(c, "taken", u, p, 0)
  /\ UNCHANGED <<signedIn, owner, uploads, tmp, evicting, media, photos, sent, stranded>>

\* Look the upload up and delete it from the table, in one critical section.
CompleteTake(c, p, u) ==
  /\ Pc(c) = "idle"
  /\ u \in DOMAIN uploads
  /\ uploads' = Without(uploads, {u})
  /\ due' = [due EXCEPT ![u] = uploads[u].received]
  /\ Begin(c, "taken", u, p, 0)
  /\ UNCHANGED <<signedIn, owner, tmp, evicting, media, photos, sent, stranded>>

\* 401 after the table entry has gone: the temp file is left where it is.
CompleteRefused(c) ==
  /\ Pc(c) = "taken"
  /\ ~Authorised(c)
  /\ stranded' = stranded \union {<<"tmp", Id(c)>>}
  /\ Return(c)
  /\ UNCHANGED <<signedIn, owner, uploads, tmp, evicting, media, photos, sent, due>>

\* os.ReadFile; "unread" is its error, reported only after the os.Remove.
CompleteRead(c) ==
  /\ Pc(c) = "taken"
  /\ Authorised(c)
  /\ \/ /\ Id(c) \in DOMAIN tmp
        /\ call' = [call EXCEPT ![c] = [call[c] EXCEPT !.pc = "read", !.data = tmp[Id(c)]]]
     \/ /\ "io" \in Faults
        /\ Goto(c, "unread")
  /\ UNCHANGED <<signedIn, owner, uploads, tmp, evicting, media, photos, sent, due, stranded>>

\* (A mutation: the error of os.ReadFile is returned before the os.Remove.)
CompleteRemoveIfRead(c) ==
  /\ Pc(c) \in {"read", "unread"}
  /\ IF Pc(c) = "read"
       THEN tmp' = Without(tmp, {Id(c)}) /\ Goto(c, "saving")
       ELSE UNCHANGED tmp /\ Return(c)
  /\ UNCHANGED <<signedIn, owner, uploads, evicting, media, photos, sent, due, stranded>>

\* os.Remove, whose error nobody looks at.
CompleteRemoveTmp(c) ==
  /\ Pc(c) \in {"read", "unread"}
  /\ \/ /\ tmp' = Without(tmp, {Id(c)})
        /\ UNCHANGED stranded
     \/ /\ "io" \in Faults
        /\ stranded' = stranded \union {<<"tmp", Id(c)>>}
        /\ UNCHANGED tmp
  /\ IF Pc(c) = "read" THEN Goto(c, "saving") ELSE Return(c)
  /\ UNCHANGED <<signedIn, owner, uploads, evicting, media, photos, sent, due>>

\* os.WriteFile creates the final file ...
CompleteCreate(c) ==
  /\ Pc(c) = "saving"
  /\ media' = With(media, Id(c), <<>>)
  /\ Goto(c, "writing")
  /\ UNCHANGED <<signedIn, owner, uploads, tmp, evicting, photos, sent, due, stranded>>

\* ... and fills it.
CompleteWrite(c) ==
  /\ Pc(c) = "writing"
  /\ media' = [media EXCEPT ![Id(c)] = call[c].data]
  /\ Goto(c, "saved")
  /\ UNCHANGED <<signedIn, owner, uploads, tmp, evicting, photos, sent, due, stranded>>

\* Either half of os.WriteFile fails; what it wrote so far stays.
CompleteWriteFails(c) ==
  /\ "io" \in Faults
  /\ \/ /\ Pc(c) = "saving"
        /\ UNCHANGED <<media, stranded>>
     \/ /\ Pc(c) = "writing"
        /\ stranded' = stranded \union {<<"media", Id(c)>>}
        /\ \E n \in 0..Len(call[c].data) :
             media' = [media EXCEPT ![Id(c)] = SubSeq(call[c].data, 1, n)]
  /\ Return(c)
  /\ UNCHANGED <<signedIn, owner, uploads, tmp, evicting, photos, sent, due>>

CompleteInsert(c) ==
  /\ Pc(c) = "saved"
  /\ photos' = [photos EXCEPT ![Id(c)] = @ + 1]
  /\ Return(c)
  /\ UNCHANGED <<signedIn, owner, uploads, tmp, evicting, media, sent, due, stranded>>

\* (A mutation: the file of a photo that could not be recorded is kept.)
CompleteInsertFailsKeepsFile(c) ==
  /\ Pc(c) = "saved"
  /\ Return(c)
  /\ UNCHANGED <<signedIn, owner, uploads, tmp, evicting, media, photos, sent, due, stranded>>

\* CreatePhoto fails (the trip is gone, the database is busy, the client has
\* hung up): the handler removes the file it wrote, ignoring errors.
CompleteInsertFails(c) ==
  /\ Pc(c) = "saved"
  /\ \/ /\ media' = Without(media, {Id(c)})
        /\ UNCHANGED stranded
     \/ /\ "io" \in Faults
        /\ stranded' = stranded \union {<<"media", Id(c)>>}
        /\ UNCHANGED media
  /\ Return(c)
  /\ UNCHANGED <<signedIn, owner, uploads, tmp, evicting, photos, sent, due>>

-----------------------------------------------------------------------------
(* Eviction and restart *)

\* Time passes; ages beyond TTL + 1 are not told apart.
Tick ==
  /\ \E u \in DOMAIN uploads : uploads[u].age <= TTL
  /\ uploads' = [u \in DOMAIN uploads |->
       [uploads[u] EXCEPT !.age = IF @ <= TTL THEN @ + 1 ELSE @]]
  /\ UNCHANGED <<signedIn, owner, tmp, call, evicting, media, photos, sent, due, stranded>>

\* (A mutation: the victims are listed but not deleted from the table.)
EvictScanKeepsEntries ==
  LET victims == {u \in DOMAIN uploads : uploads[u].age > TTL}
  IN  /\ evicting = {}
      /\ victims # {}
      /\ evicting' = victims
      /\ UNCHANGED <<signedIn, owner, uploads, tmp, call, media, photos, sent, due, stranded>>

\* The critical section of evictExpiredChunkedUploads.
EvictScan ==
  LET victims == {u \in DOMAIN uploads : uploads[u].age > TTL}
  IN  /\ evicting = {}
      /\ victims # {}
      /\ uploads' = Without(uploads, victims)
      /\ evicting' = victims
      /\ UNCHANGED <<signedIn, owner, tmp, call, media, photos, sent, due, stranded>>

\* (A mutation: the entry is evicted without removing its file.)
EvictForgetsFile(u) ==
  /\ u \in evicting
  /\ evicting' = evicting \ {u}
  /\ UNCHANGED <<signedIn, owner, uploads, tmp, call, media, photos, sent, due, stranded>>

\* One round of its loop outside the lock; a failed os.Remove is logged only.
EvictRemove(u) ==
  /\ u \in evicting
  /\ evicting' = evicting \ {u}
  /\ \/ /\ tmp' = Without(tmp, {u})
        /\ UNCHANGED stranded
     \/ /\ "io" \in Faults
        /\ stranded' = stranded \union {<<"tmp", u>>}
        /\ UNCHANGED tmp
  /\ UNCHANGED <<signedIn, owner, uploads, call, media, photos, sent, due>>

\* The process dies and systemd starts a new one, with an empty table.
Restart ==
  /\ "restart" \in Faults
  /\ uploads' = [u \in {} |-> 0]
  /\ call' = [c \in Call |-> Idle]
  /\ evicting' = {}
  /\ stranded' = stranded \union ({"tmp"} \X DOMAIN tmp)
                   \union {<<"media", Id(c)>> : c \in {d \in Call : Pc(d) \in {"writing", "saved"}}}
  /\ UNCHANGED <<signedIn, owner, tmp, media, photos, sent, due>>

-----------------------------------------------------------------------------
InitStep(c) == InitRegister(c)

ChunkStep(c) ==
  ChunkOpen(c) \/ ChunkRefused(c) \/ ChunkCopy(c) \/ ChunkAborted(c) \/ ChunkCount(c)

CompleteStep(c) ==
  \/ CompleteRefused(c) \/ CompleteRead(c) \/ CompleteRemoveTmp(c) \/ CompleteCreate(c)
  \/ CompleteWrite(c) \/ CompleteWriteFails(c) \/ CompleteInsert(c) \/ CompleteInsertFails(c)

Arrive(c) ==
  \E p \in User, u \in Upload :
    \/ InitCreate(c, p, u)
    \/ \E k \in Chunk : ChunkLookup(c, p, u, k)
    \/ CompleteTake(c, p, u)

Next ==
  \/ \E c \in Call : Arrive(c) \/ InitStep(c) \/ ChunkStep(c) \/ CompleteStep(c)
  \/ \E p \in User : SignIn(p) \/ SignOut(p)
  \/ \E u \in Upload : EvictRemove(u)
  \/ Tick \/ EvictScan \/ Restart

Spec == Init /\ [][Next]_vars

\* What the Go scheduler and the clock guarantee.  A chunk handler waits for the
\* client's body and the client may do anything: neither is fair.
Fairness ==
  /\ \A c \in Call : WF_vars(InitStep(c)) /\ WF_vars(CompleteStep(c))
  /\ WF_vars(Tick) /\ WF_vars(EvictScan)
  /\ \A u \in Upload : WF_vars(EvictRemove(u))

FairSpec == Spec /\ Fairness

-----------------------------------------------------------------------------
(* Properties *)

\* Handler c is at one of the points S of its code, for upload u.
At(c, u, S) == Pc(c) \in S /\ Id(c) = u

\* From here on the handler alone decides what becomes of the upload.
Holds(c, u) ==
  At(c, u, {"created", "taken", "read", "unread", "saving", "writing", "saved"})

\* The state stays inside the types the Go declarations give it.
TypeOK ==
  /\ signedIn \subseteq User
  /\ owner \in [Upload -> User \union {Nobody}]
  /\ DOMAIN uploads \subseteq Upload /\ uploads \in [DOMAIN uploads -> Entry]
  /\ DOMAIN tmp \subseteq Upload     /\ tmp \in [DOMAIN tmp -> Seq(Block)]
  /\ call \in [Call -> Handler \union {Idle}]
  /\ \A c \in Call : Pc(c) \in {"found", "copying"} => call[c].chunk \in Chunk
  /\ evicting \subseteq Upload
  /\ DOMAIN media \subseteq Upload   /\ media \in [DOMAIN media -> Seq(Block)]
  /\ photos \in [Upload -> Nat]
  /\ sent \in [Upload -> SUBSET Chunk]
  /\ due \in [Upload -> SUBSET Chunk]
  /\ stranded \subseteq File

\* An upload is in the table, or in the hands of one init or complete handler,
\* or a victim of the eviction, or finished: never two of these at once.  It is
\* what lets complete read and remove the temp file outside the mutex
\* (server.go:1891-1911) while the eviction removes files outside it too.
OneOwner ==
  /\ \A u \in DOMAIN uploads : u \notin evicting /\ photos[u] = 0
  /\ \A c \in Call, u \in Upload :
       Holds(c, u) => /\ u \notin DOMAIN uploads /\ u \notin evicting /\ photos[u] = 0
                      /\ \A d \in Call : Holds(d, u) => d = c
  /\ \A u \in evicting : photos[u] = 0

\* Every temp file on disk belongs to a table entry, to a running init or
\* complete, or to the eviction, and every table entry has its file; the only
\* exceptions are the files a restart, a failed os.Remove or a complete refused
\* after the table entry was deleted left behind.
TempFilesTracked ==
  /\ DOMAIN uploads \subseteq DOMAIN tmp
  /\ \A u \in DOMAIN tmp :
       \/ u \in DOMAIN uploads \union evicting
       \/ \E c \in Call : At(c, u, {"created", "taken", "read", "unread"})
       \/ <<"tmp", u>> \in stranded

\* Every finished file on disk has its photo row or a complete handler that is
\* about to insert or remove it, unless a fault stranded it
\* (server.go:1944-1990).
MediaFilesTracked ==
  \A u \in DOMAIN media :
    \/ photos[u] = 1
    \/ \E c \in Call : At(c, u, {"writing", "saved"})
    \/ <<"media", u>> \in stranded

\* However many completes arrive for an upload, and whatever the eviction does
\* meanwhile, at most one photo comes out of it, and its file is on disk.
OnePhotoPerUpload ==
  \A u \in Upload : photos[u] > 0 => photos[u] = 1 /\ u \in DOMAIN media

\* A chunk the client was told is stored, when that was counted before complete
\* took the upload, is in the photo's file with all its blocks.  Chunk handlers
\* append without the mutex (server.go:1857-1875), so this rests on the order
\* of copy and count in one handler and of take and read in the other.
CountedChunksReachPhoto ==
  \A u \in Upload : photos[u] > 0 =>
    due[u] \X (1..Blocks) \subseteq Range(media[u])

\* No temp file stays for ever: it is removed by its complete or by the eviction,
\* even if the client never comes back, or else a fault has stranded it
\* (server.go:2002-2007).
TempFilesReclaimed ==
  \A u \in Upload : u \in DOMAIN tmp ~> (u \notin DOMAIN tmp \/ <<"tmp", u>> \in stranded)

\* The upload table, its handlers and its eviction implement the life cycle.
Stage(u) ==
  IF photos[u] > 0 THEN "photo"
  ELSE IF u \in DOMAIN uploads THEN "open"
  ELSE IF \E c \in Call : Holds(c, u) /\ Pc(c) # "created" THEN "sealed"
  ELSE IF owner[u] = Nobody \/ \E c \in Call : At(c, u, {"created"}) THEN "new"
  ELSE "gone"

Accepted(u) ==
  IF u \in DOMAIN uploads THEN uploads[u].received
  ELSE IF Stage(u) \in {"sealed", "photo"} THEN due[u] ELSE {}

Content(u) ==
  IF photos[u] = 0 THEN {} ELSE {k \in Chunk : {k} \X (1..Blocks) \subseteq Range(media[u])}

Lifecycle == INSTANCE UploadLifecycle WITH
  stage    <- [u \in Upload |-> Stage(u)],
  accepted <- [u \in Upload |-> Accepted(u)],
  content  <- [u \in Upload |-> Content(u)]

\* An upload is opened once, sealed once, and becomes one photo that holds every
\* chunk acknowledged before the seal, or is given up.
ImplementsLifecycle == Lifecycle!Spec

=============================================================================
