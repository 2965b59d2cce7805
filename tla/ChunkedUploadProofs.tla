------------------------- MODULE ChunkedUploadProofs -------------------------
(***************************************************************************)
(* Theorems about ChunkedUpload, for any sets of users, uploads and request *)
(* goroutines, any number and size of chunks, any TTL and any faults.       *)
(***************************************************************************)
EXTENDS ChunkedUpload, SequenceTheorems, TLAPS

\* Groups of disjuncts of the next-state relation.
SessionStep == \E p \in User : SignIn(p) \/ SignOut(p)
CleanupStep == (\E u \in Upload : EvictRemove(u)) \/ Tick \/ EvictScan \/ Restart

LEMMA BusyIsHandler ==
  ASSUME TypeOK, NEW c \in Call, Pc(c) # "idle"
  PROVE  call[c] \in Handler
BY DEF TypeOK, Pc, Idle

-----------------------------------------------------------------------------
(* Type correctness *)

LEMMA TypeInit == Init => TypeOK
BY BlocksAssumption DEF Init, TypeOK, Pc, Idle

\* The three ways the handlers' locals change keep their type.
CallType ==
  /\ call \in [Call -> Handler \union {Idle}]
  /\ \A c \in Call : Pc(c) \in {"found", "copying"} => call[c].chunk \in Chunk

LEMMA BeginType ==
  ASSUME CallType, NEW c \in Call, NEW l \in Phase, NEW u \in Upload, NEW p \in User,
         NEW k \in 0..Chunks, l = "found" \/ l = "copying" => k \in Chunk,
         Begin(c, l, u, p, k)
  PROVE  CallType'
BY BlocksAssumption, ChunksAssumption DEF CallType, Begin, Handler, Pc

LEMMA GotoType ==
  ASSUME CallType, NEW c \in Call, NEW l \in Phase, Pc(c) # "idle",
         l = "found" \/ l = "copying" => call[c].chunk \in Chunk,
         Goto(c, l)
  PROVE  CallType'
<1>1. call[c] \in Handler BY DEF CallType, Pc, Idle
<1>. QED BY <1>1 DEF CallType, Goto, Handler, Pc

LEMMA ReturnType ==
  ASSUME CallType, NEW c \in Call, Return(c)
  PROVE  CallType'
BY DEF CallType, Return, Pc, Idle

LEMMA TypeSession ==
  ASSUME TypeOK, NEW p \in User, SignIn(p) \/ SignOut(p)
  PROVE  TypeOK'
BY DEF TypeOK, SignIn, SignOut, Pc

LEMMA TypeInitHandler ==
  ASSUME TypeOK, NEW c \in Call,
         (\E p \in User, u \in Upload : InitCreate(c, p, u)) \/ InitStep(c)
  PROVE  TypeOK'
<1>0. CallType BY DEF TypeOK, CallType
<1>1. ASSUME NEW p \in User, NEW u \in Upload, InitCreate(c, p, u) PROVE TypeOK'
  <2>1. CallType'
    BY <1>0, <1>1, BeginType, ChunksAssumption DEF InitCreate, Phase
  <2>. QED BY <1>1, <2>1 DEF InitCreate, TypeOK, CallType, With
<1>2. CASE InitRegister(c)
  <2>1. CallType' BY <1>0, <1>2, ReturnType DEF InitRegister
  <2>2. call[c] \in Handler BY <1>2, BusyIsHandler DEF InitRegister
  <2>3. [received |-> {}, age |-> 0] \in Entry BY TTLAssumption DEF Entry
  <2>. QED BY <1>2, <2>1, <2>2, <2>3 DEF InitRegister, TypeOK, CallType, With, Id, Handler
<1>. QED BY <1>1, <1>2 DEF InitStep

LEMMA TypeChunk ==
  ASSUME TypeOK, NEW c \in Call,
         \/ \E p \in User, u \in Upload, k \in Chunk : ChunkLookup(c, p, u, k)
         \/ ChunkStep(c)
  PROVE  TypeOK'
<1>0. CallType BY DEF TypeOK, CallType
<1>1. ASSUME NEW p \in User, NEW u \in Upload, NEW k \in Chunk, ChunkLookup(c, p, u, k)
      PROVE  TypeOK'
  <2>1. k \in 0..Chunks BY ChunksAssumption DEF Chunk
  <2>2. CallType' BY <1>0, <1>1, <2>1, BeginType DEF ChunkLookup, Phase
  <2>. QED BY <1>1, <2>2 DEF ChunkLookup, TypeOK, CallType
<1>2. CASE ChunkOpen(c)
  <2>1. call[c].chunk \in Chunk BY <1>2 DEF ChunkOpen, TypeOK
  <2>2. CallType' BY <1>0, <1>2, <2>1, GotoType DEF ChunkOpen, Phase
  <2>. QED BY <1>2, <2>2 DEF ChunkOpen, TypeOK, CallType
<1>3. CASE ChunkRefused(c) \/ ChunkAborted(c)
  <2>1. CallType' BY <1>0, <1>3, ReturnType DEF ChunkRefused, ChunkAborted
  <2>. QED BY <1>3, <2>1 DEF ChunkRefused, ChunkAborted, TypeOK, CallType
<1>4. CASE ChunkCopy(c)
  <2>1. call[c] \in Handler /\ call[c].chunk \in Chunk
    BY <1>4, BusyIsHandler DEF ChunkCopy, TypeOK
  <2>2. [call[c] EXCEPT !.pos = @ + 1] \in Handler
    BY <1>4, <2>1, BlocksAssumption, SMTT(20) DEF ChunkCopy, Handler
  <2>3. <<call[c].chunk, call[c].pos>> \in Block
    BY <1>4, <2>1, BlocksAssumption DEF ChunkCopy, Handler, Block
  <2>4. DOMAIN tmp' \subseteq Upload /\ tmp' \in [DOMAIN tmp' -> Seq(Block)]
    BY <1>4, <2>3 DEF ChunkCopy, TypeOK
  <2>5. call' \in [Call -> Handler \union {Idle}]
    BY <1>4, <2>2 DEF ChunkCopy, TypeOK
  <2>6. \A d \in Call : Pc(d)' \in {"found", "copying"} => call'[d].chunk \in Chunk
    BY <1>4, <2>1 DEF ChunkCopy, TypeOK, Pc, Handler
  <2>. QED BY <1>4, <2>4, <2>5, <2>6 DEF ChunkCopy, TypeOK
<1>5. CASE ChunkCount(c)
  <2>1. call[c] \in Handler /\ call[c].chunk \in Chunk
    BY <1>5, BusyIsHandler DEF ChunkCount, TypeOK
  <2>2. uploads' \in [DOMAIN uploads' -> Entry] /\ DOMAIN uploads' \subseteq Upload
    BY <1>5, <2>1, ZenonT(40) DEF ChunkCount, TypeOK, Entry, Id
  <2>3. CallType' BY <1>0, <1>5, ReturnType DEF ChunkCount
  <2>. QED BY <1>5, <2>2, <2>3 DEF ChunkCount, TypeOK, CallType
<1>. QED BY <1>1, <1>2, <1>3, <1>4, <1>5 DEF ChunkStep

LEMMA TypeComplete ==
  ASSUME TypeOK, NEW c \in Call,
         (\E p \in User, u \in Upload : CompleteTake(c, p, u)) \/ CompleteStep(c)
  PROVE  TypeOK'
<1>0. CallType BY DEF TypeOK, CallType
<1>1. ASSUME NEW p \in User, NEW u \in Upload, CompleteTake(c, p, u) PROVE TypeOK'
  <2>1. CallType' BY <1>0, <1>1, BeginType, ChunksAssumption DEF CompleteTake, Phase
  <2>2. due' \in [Upload -> SUBSET Chunk] BY <1>1 DEF CompleteTake, TypeOK, Entry
  <2>. QED BY <1>1, <2>1, <2>2 DEF CompleteTake, TypeOK, CallType, Without
<1>2. ASSUME CompleteStep(c)
      PROVE  TypeOK'
  <2>0. call[c] \in Handler
    BY <1>2, BusyIsHandler DEF CompleteStep, CompleteRefused, CompleteRead, CompleteRemoveTmp,
       CompleteCreate, CompleteWrite, CompleteWriteFails, CompleteInsert, CompleteInsertFails
  <2>id. Id(c) \in Upload /\ call[c].data \in Seq(Block)
    BY <2>0 DEF Handler, Id
  <2>1. CASE CompleteRefused(c)
    <3>1. CallType' BY <1>0, <2>1, ReturnType DEF CompleteRefused
    <3>. QED BY <2>1, <2>id, <3>1 DEF CompleteRefused, TypeOK, CallType, File
  <2>2. CASE CompleteRead(c)
    <3>1. CASE Goto(c, "unread")
      <4>1. CallType' BY <1>0, <2>2, <3>1, GotoType DEF CompleteRead, Phase
      <4>. QED BY <2>2, <4>1 DEF CompleteRead, TypeOK, CallType
    <3>2. CASE /\ Id(c) \in DOMAIN tmp
               /\ call' = [call EXCEPT ![c] = [call[c] EXCEPT !.pc = "read", !.data = tmp[Id(c)]]]
      <4>1. CallType'
        BY <1>0, <2>0, <3>2 DEF TypeOK, CallType, Handler, Phase, Pc
      <4>. QED BY <2>2, <4>1 DEF CompleteRead, TypeOK, CallType
    <3>. QED BY <2>2, <3>1, <3>2 DEF CompleteRead
  <2>3. CASE CompleteRemoveTmp(c)
    <3>1. CallType' BY <1>0, <2>3, ReturnType, GotoType DEF CompleteRemoveTmp, Phase
    <3>. QED BY <2>3, <2>id, <3>1 DEF CompleteRemoveTmp, TypeOK, CallType, File, Without
  <2>4. CASE CompleteCreate(c)
    <3>1. CallType' BY <1>0, <2>4, GotoType DEF CompleteCreate, Phase
    <3>. QED BY <2>4, <2>id, <3>1 DEF CompleteCreate, TypeOK, CallType, With
  <2>5. CASE CompleteWrite(c)
    <3>1. CallType' BY <1>0, <2>5, GotoType DEF CompleteWrite, Phase
    <3>2. DOMAIN media' \subseteq Upload /\ media' \in [DOMAIN media' -> Seq(Block)]
      BY <2>5, <2>id DEF CompleteWrite, TypeOK
    <3>. QED BY <2>5, <3>1, <3>2 DEF CompleteWrite, TypeOK, CallType
  <2>6. CASE CompleteWriteFails(c)
    <3>1. CallType' BY <1>0, <2>6, ReturnType DEF CompleteWriteFails
    <3>2. \A n \in 0..Len(call[c].data) : SubSeq(call[c].data, 1, n) \in Seq(Block)
      BY <2>id, SubSeqProperties
    <3>3. DOMAIN media' \subseteq Upload /\ media' \in [DOMAIN media' -> Seq(Block)]
      BY <2>6, <3>2 DEF CompleteWriteFails, TypeOK
    <3>. QED BY <2>6, <2>id, <3>1, <3>3 DEF CompleteWriteFails, TypeOK, CallType, File
  <2>7. CASE CompleteInsert(c)
    <3>1. CallType' BY <1>0, <2>7, ReturnType DEF CompleteInsert
    <3>2. photos' \in [Upload -> Nat] BY <2>7, <2>id DEF CompleteInsert, TypeOK
    <3>. QED BY <2>7, <3>1, <3>2 DEF CompleteInsert, TypeOK, CallType
  <2>8. CASE CompleteInsertFails(c)
    <3>1. CallType' BY <1>0, <2>8, ReturnType DEF CompleteInsertFails
    <3>. QED BY <2>8, <2>id, <3>1 DEF CompleteInsertFails, TypeOK, CallType, File, Without
  <2>. QED BY <1>2, <2>1, <2>2, <2>3, <2>4, <2>5, <2>6, <2>7, <2>8 DEF CompleteStep
<1>. QED BY <1>1, <1>2

LEMMA TypeCleanup ==
  ASSUME TypeOK, CleanupStep
  PROVE  TypeOK'
<1>1. CASE \E u \in Upload : EvictRemove(u)
  BY <1>1 DEF EvictRemove, TypeOK, Without, File, Pc
<1>2. CASE Tick
  <2>1. ASSUME NEW u \in DOMAIN uploads
        PROVE  [uploads[u] EXCEPT !.age = IF @ <= TTL THEN @ + 1 ELSE @] \in Entry
    <3>1. uploads[u] \in Entry BY DEF TypeOK
    <3>2. (IF uploads[u].age <= TTL THEN uploads[u].age + 1 ELSE uploads[u].age) \in 0..(TTL + 1)
      BY <3>1, TTLAssumption DEF Entry
    <3>. QED BY <3>1, <3>2 DEF Entry
  <2>2. DOMAIN uploads' \subseteq Upload /\ uploads' \in [DOMAIN uploads' -> Entry]
    BY <1>2, <2>1 DEF Tick, TypeOK
  <2>. QED BY <1>2, <2>2 DEF Tick, TypeOK, Pc
<1>3. CASE EvictScan
  BY <1>3 DEF EvictScan, TypeOK, Without, Pc
<1>4. CASE Restart
  <2>1. call' \in [Call -> Handler \union {Idle}]
        /\ \A c \in Call : Pc(c)' \notin {"found", "copying"}
    BY <1>4 DEF Restart, Pc, Idle
  <2>2. ASSUME NEW c \in Call, Pc(c) \in {"writing", "saved"}
        PROVE  Id(c) \in Upload
    BY <2>2, BusyIsHandler DEF Id, Handler
  <2>3. stranded' \subseteq File
    BY <1>4, <2>2 DEF Restart, TypeOK, File
  <2>4. uploads' \in [DOMAIN uploads' -> Entry] /\ DOMAIN uploads' = {}
    BY <1>4 DEF Restart
  <2>. QED BY <1>4, <2>1, <2>3, <2>4 DEF Restart, TypeOK
<1>. QED BY <1>1, <1>2, <1>3, <1>4 DEF CleanupStep

\* Every reachable state has the types of the Go declarations.
THEOREM TypeCorrect == Spec => []TypeOK
<1>1. TypeOK /\ [Next]_vars => TypeOK'
  <2>. SUFFICES ASSUME TypeOK, [Next]_vars PROVE TypeOK'
    OBVIOUS
  <2>1. ASSUME NEW c \in Call, Arrive(c) PROVE TypeOK'
    BY <2>1, TypeInitHandler, TypeChunk, TypeComplete DEF Arrive
  <2>2. ASSUME NEW c \in Call, InitStep(c) \/ ChunkStep(c) \/ CompleteStep(c) PROVE TypeOK'
    BY <2>2, TypeInitHandler, TypeChunk, TypeComplete
  <2>3. CASE SessionStep
    BY <2>3, TypeSession DEF SessionStep
  <2>4. CASE CleanupStep
    BY <2>4, TypeCleanup
  <2>5. CASE UNCHANGED vars
    BY <2>5 DEF vars, TypeOK, Pc
  <2>. QED BY <2>1, <2>2, <2>3, <2>4, <2>5 DEF Next, SessionStep, CleanupStep
<1>. QED BY <1>1, TypeInit, PTL DEF Spec

-----------------------------------------------------------------------------
(* Who owns an upload and its files *)

\* Ids not handed out have left no trace.
FreshIdsUntouched ==
  \A u \in Upload : owner[u] = Nobody =>
    /\ u \notin DOMAIN uploads \union evicting \union DOMAIN tmp \union DOMAIN media
    /\ photos[u] = 0
    /\ \A c \in Call : Pc(c) # "idle" => Id(c) # u

\* The files a handler is going to register, fill or record are on disk.
HandlersHaveFiles ==
  \A c \in Call :
    /\ Pc(c) = "created" => Id(c) \in DOMAIN tmp
    /\ Pc(c) \in {"writing", "saved"} => Id(c) \in DOMAIN media

\* The inductive invariant: what is owned by whom says which files exist.
Ownership ==
  /\ TypeOK
  /\ OneOwner
  /\ FreshIdsUntouched
  /\ HandlersHaveFiles
  /\ TempFilesTracked
  /\ MediaFilesTracked
  /\ OnePhotoPerUpload

LEMMA OwnershipInit == Init => Ownership
BY TypeInit, NobodyAssumption
   DEF Init, Ownership, OneOwner, FreshIdsUntouched, HandlersHaveFiles, TempFilesTracked,
       MediaFilesTracked, OnePhotoPerUpload, Holds, At, Pc, Idle

LEMMA OwnershipInitCreate ==
  ASSUME Ownership, NEW c \in Call, NEW p \in User, NEW u \in Upload, InitCreate(c, p, u), TypeOK'
  PROVE  Ownership'
<1>. USE DEF Ownership, TypeOK, InitCreate, Begin, With, Holds, At, Pc, Id
<1>. p # Nobody BY NobodyAssumption
<1>1. OneOwner' BY DEF OneOwner, FreshIdsUntouched
<1>2. FreshIdsUntouched' BY DEF FreshIdsUntouched
<1>3. HandlersHaveFiles' BY DEF HandlersHaveFiles
<1>4. TempFilesTracked' BY DEF TempFilesTracked
<1>5. MediaFilesTracked' BY DEF MediaFilesTracked
<1>6. OnePhotoPerUpload' BY DEF OnePhotoPerUpload
<1>. QED BY <1>1, <1>2, <1>3, <1>4, <1>5, <1>6

LEMMA OwnershipInitRegister ==
  ASSUME Ownership, NEW c \in Call, InitRegister(c), TypeOK'
  PROVE  Ownership'
<1>. USE DEF Ownership, TypeOK, InitRegister, Return, With, Holds, At, Pc, Id, Idle
<1>0. Id(c) \in Upload /\ Holds(c, Id(c)) BY BusyIsHandler DEF Handler
<1>1. OneOwner'
  <2>1. /\ Id(c) \notin evicting /\ photos[Id(c)] = 0
        /\ \A d \in Call : Holds(d, Id(c)) => d = c
    BY <1>0 DEF OneOwner
  <2>. HIDE DEF Holds
  <2>2. \A d \in Call, u \in Upload : Holds(d, u)' => Holds(d, u) /\ d # c
    BY DEF Holds
  <2>. QED BY <1>0, <2>1, <2>2 DEF OneOwner
<1>2. FreshIdsUntouched' BY DEF FreshIdsUntouched
<1>3. HandlersHaveFiles' BY DEF HandlersHaveFiles
<1>4. TempFilesTracked' BY DEF TempFilesTracked, HandlersHaveFiles
<1>5. MediaFilesTracked' BY DEF MediaFilesTracked
<1>6. OnePhotoPerUpload' BY DEF OnePhotoPerUpload
<1>. QED BY <1>1, <1>2, <1>3, <1>4, <1>5, <1>6

\* When nothing gains an owner, uploads still have one owner at most.
LEMMA OwnersOnlyLost ==
  ASSUME OneOwner, photos' = photos,
         DOMAIN uploads' \subseteq DOMAIN uploads, evicting' \subseteq evicting,
         \A c \in Call, u \in Upload : Holds(c, u)' => Holds(c, u)
  PROVE  OneOwner'
BY DEF OneOwner

LEMMA OwnershipSession ==
  ASSUME Ownership, NEW p \in User, SignIn(p) \/ SignOut(p), TypeOK'
  PROVE  Ownership'
BY DEF SignIn, SignOut, Ownership, OneOwner, FreshIdsUntouched, HandlersHaveFiles,
       TempFilesTracked, MediaFilesTracked, OnePhotoPerUpload, Holds, At, Pc, Id

LEMMA OwnershipChunk ==
  ASSUME Ownership, NEW c \in Call, TypeOK',
         \/ \E p \in User, u \in Upload, k \in Chunk : ChunkLookup(c, p, u, k)
         \/ ChunkStep(c)
  PROVE  Ownership'
<1>. USE DEF Ownership, TypeOK, Pc, Id
<1>1. /\ DOMAIN uploads' = DOMAIN uploads /\ DOMAIN tmp' = DOMAIN tmp
      /\ UNCHANGED <<owner, evicting, media, photos, due, stranded>>
  BY DEF ChunkLookup, ChunkStep, ChunkOpen, ChunkRefused, ChunkCopy, ChunkAborted, ChunkCount
<1>2. /\ \A d \in Call \ {c} : call'[d] = call[d]
      /\ Pc(c) \in {"idle", "found", "copying"}
      /\ Pc(c)' \in {"idle", "found", "copying"}
      /\ Pc(c)' # "idle" => \/ Pc(c) # "idle" /\ Id(c)' = Id(c)
                            \/ Id(c)' \in DOMAIN uploads
  <2>1. CASE \E p \in User, u \in Upload, k \in Chunk : ChunkLookup(c, p, u, k)
    BY <2>1 DEF ChunkLookup, Begin
  <2>2. CASE ChunkRefused(c) \/ ChunkAborted(c) \/ ChunkCount(c)
    BY <2>2 DEF ChunkRefused, ChunkAborted, ChunkCount, Return, Idle
  <2>3. CASE ChunkOpen(c) \/ ChunkCopy(c)
    BY <2>3, BusyIsHandler DEF ChunkOpen, ChunkCopy, Goto, Handler
  <2>. QED BY <2>1, <2>2, <2>3 DEF ChunkStep
<1>3. OneOwner'
  BY <1>1, <1>2, OwnersOnlyLost DEF Holds, At
<1>4. FreshIdsUntouched'
  <2>1. ASSUME NEW u \in Upload, owner[u] = Nobody, NEW d \in Call, Pc(d)' # "idle"
        PROVE  Id(d)' # u
    <3>1. CASE d = c BY <1>2, <2>1, <3>1 DEF FreshIdsUntouched
    <3>2. CASE d # c BY <1>2, <2>1, <3>2 DEF FreshIdsUntouched
    <3>. QED BY <3>1, <3>2
  <2>. QED BY <1>1, <2>1 DEF FreshIdsUntouched
<1>5. HandlersHaveFiles' BY <1>1, <1>2 DEF HandlersHaveFiles
<1>6. TempFilesTracked' BY <1>1, <1>2 DEF TempFilesTracked, At
<1>7. MediaFilesTracked' BY <1>1, <1>2 DEF MediaFilesTracked, At
<1>8. OnePhotoPerUpload' BY <1>1 DEF OnePhotoPerUpload
<1>. QED BY <1>3, <1>4, <1>5, <1>6, <1>7, <1>8

LEMMA OwnershipTake ==
  ASSUME Ownership, NEW c \in Call, NEW p \in User, NEW u \in Upload, CompleteTake(c, p, u), TypeOK'
  PROVE  Ownership'
<1>. USE DEF Ownership, TypeOK, CompleteTake, Begin, Without, At, Pc, Id
<1>1. OneOwner'
  <2>1. \A d \in Call : ~Holds(d, u) BY DEF OneOwner
  <2>2. \A d \in Call, v \in Upload : Holds(d, v)' <=> (d = c /\ v = u) \/ Holds(d, v)
    BY <2>1 DEF Holds
  <2>3. u \notin evicting /\ photos[u] = 0 BY DEF OneOwner
  <2>. QED BY <2>1, <2>2, <2>3 DEF OneOwner
<1>2. FreshIdsUntouched' BY DEF FreshIdsUntouched
<1>3. HandlersHaveFiles' BY DEF HandlersHaveFiles
<1>4. TempFilesTracked' BY ZenonT(40) DEF TempFilesTracked
<1>5. MediaFilesTracked' BY DEF MediaFilesTracked
<1>6. OnePhotoPerUpload' BY DEF OnePhotoPerUpload
<1>. QED BY <1>1, <1>2, <1>3, <1>4, <1>5, <1>6

\* When no id is handed out and no file, row or handler appears for one that is
\* fresh, the fresh ids stay untouched.
LEMMA FreshIdsKept ==
  ASSUME FreshIdsUntouched, UNCHANGED <<owner, photos>>,
         DOMAIN uploads' \subseteq DOMAIN uploads, evicting' \subseteq evicting \union DOMAIN uploads,
         DOMAIN tmp' \subseteq DOMAIN tmp,
         \A u \in DOMAIN media' : u \in DOMAIN media \/ owner[u] # Nobody,
         \A c \in Call : Pc(c)' # "idle" => Pc(c) # "idle" /\ Id(c)' = Id(c)
  PROVE  FreshIdsUntouched'
BY DEF FreshIdsUntouched

\* Reading the file leaves the handler with the same upload.
LEMMA ReadKeepsUpload ==
  ASSUME TypeOK, NEW c \in Call, CompleteRead(c)
  PROVE  /\ \A d \in Call \ {c} : call'[d] = call[d]
         /\ Pc(c)' \in {"read", "unread"} /\ Id(c)' = Id(c)
<1>1. call[c] \in Handler BY BusyIsHandler DEF CompleteRead
<1>2. CASE Goto(c, "unread") BY <1>1, <1>2 DEF Goto, TypeOK, Handler, Pc, Id
<1>3. CASE call' = [call EXCEPT ![c] = [call[c] EXCEPT !.pc = "read", !.data = tmp[Id(c)]]]
  BY <1>1, <1>3 DEF TypeOK, Handler, Pc, Id
<1>. QED BY <1>2, <1>3 DEF CompleteRead

\* What every step of a complete handler but the insert has in common.
LEMMA CompleteFrame ==
  ASSUME TypeOK, NEW c \in Call, CompleteStep(c)
  PROVE  /\ UNCHANGED <<owner, uploads, evicting>>
         /\ \A d \in Call \ {c} : call'[d] = call[d]
         /\ Holds(c, Id(c)) /\ Id(c) \in Upload
         /\ \A d \in Call : Pc(d)' # "idle" => Pc(d) # "idle" /\ Id(d)' = Id(d)
         /\ \A d \in Call, u \in Upload : Holds(d, u)' => Holds(d, u)
<1>1. Holds(c, Id(c)) /\ Id(c) \in Upload
  BY BusyIsHandler DEF CompleteStep, CompleteRefused, CompleteRead, CompleteRemoveTmp,
     CompleteCreate, CompleteWrite, CompleteWriteFails, CompleteInsert, CompleteInsertFails,
     Holds, At, Handler, Id
<1>2. UNCHANGED <<owner, uploads, evicting>>
  BY DEF CompleteStep, CompleteRefused, CompleteRead, CompleteRemoveTmp,
     CompleteCreate, CompleteWrite, CompleteWriteFails, CompleteInsert, CompleteInsertFails
<1>3. /\ \A d \in Call \ {c} : call'[d] = call[d]
      /\ Pc(c)' # "idle" => Id(c)' = Id(c)
  <2>1. CASE Return(c)
    BY <2>1 DEF TypeOK, Return, Idle, Pc
  <2>2. CASE \E l \in Phase : Goto(c, l)
    BY <1>1, <2>2, BusyIsHandler DEF TypeOK, Goto, Pc, Id, Handler, Holds, At
  <2>3. CASE CompleteRead(c)
    BY <2>3, ReadKeepsUpload
  <2>. QED BY <2>1, <2>2, <2>3
       DEF CompleteStep, CompleteRefused, CompleteRemoveTmp, CompleteCreate, CompleteWrite,
           CompleteWriteFails, CompleteInsert, CompleteInsertFails, Phase
<1>4. \A d \in Call, u \in Upload : Holds(d, u)' => Holds(d, u)
  BY <1>1, <1>3 DEF Holds, At, Pc, Id
<1>5. \A d \in Call : Pc(d)' # "idle" => Pc(d) # "idle" /\ Id(d)' = Id(d)
  BY <1>1, <1>3 DEF Holds, At, Pc, Id
<1>. QED BY <1>1, <1>2, <1>3, <1>4, <1>5

LEMMA OwnershipComplete ==
  ASSUME Ownership, NEW c \in Call, CompleteStep(c), TypeOK'
  PROVE  Ownership'
<1>0. TypeOK BY DEF Ownership
<1>f. /\ UNCHANGED <<owner, uploads, evicting>>
      /\ \A d \in Call \ {c} : call'[d] = call[d]
      /\ Holds(c, Id(c)) /\ Id(c) \in Upload
      /\ \A d \in Call : Pc(d)' # "idle" => Pc(d) # "idle" /\ Id(d)' = Id(d)
      /\ \A d \in Call, u \in Upload : Holds(d, u)' => Holds(d, u)
  BY <1>0, CompleteFrame
<1>o. /\ Id(c) \notin DOMAIN uploads /\ Id(c) \notin evicting /\ photos[Id(c)] = 0
      /\ owner[Id(c)] # Nobody
      /\ \A d \in Call : Holds(d, Id(c)) => d = c
  BY <1>f DEF Ownership, OneOwner, FreshIdsUntouched, Holds, At
<1>1. CASE CompleteInsert(c)
  <2>. USE <1>1 DEF CompleteInsert, Ownership, TypeOK, Return, Pc, Id, Idle
  <2>1. OneOwner'
    <3>1. \A d \in Call, u \in Upload : Holds(d, u)' => u # Id(c)
      BY <1>f, <1>o DEF Holds, At
    <3>. QED BY <1>f, <1>o, <3>1 DEF OneOwner
  <2>2. FreshIdsUntouched' BY <1>o DEF FreshIdsUntouched
  <2>3. HandlersHaveFiles' BY DEF HandlersHaveFiles
  <2>4. TempFilesTracked' BY DEF TempFilesTracked, At
  <2>5. MediaFilesTracked'
    <3>1. photos'[Id(c)] = 1 /\ \A u \in Upload : u # Id(c) => photos'[u] = photos[u]
      BY <1>f, <1>o
    <3>. QED BY <1>f, <3>1 DEF MediaFilesTracked, At
  <2>6. OnePhotoPerUpload' BY <1>o DEF OnePhotoPerUpload, HandlersHaveFiles
  <2>. QED BY <2>1, <2>2, <2>3, <2>4, <2>5, <2>6
<1>2. CASE CompleteRefused(c) \/ CompleteRead(c) \/ CompleteRemoveTmp(c)
  <2>. USE DEF Ownership, TypeOK
  <2>1. UNCHANGED <<media, photos>>
    BY <1>2 DEF CompleteRefused, CompleteRead, CompleteRemoveTmp
  <2>2. OneOwner' BY <1>f, <2>1, OwnersOnlyLost
  <2>3. DOMAIN tmp' \subseteq DOMAIN tmp
    BY <1>2 DEF CompleteRefused, CompleteRead, CompleteRemoveTmp, Without
  <2>4. FreshIdsUntouched' BY <1>f, <2>1, <2>3, FreshIdsKept
  <2>pc. Pc(c)' \in {"idle", "read", "unread", "saving"}
    <3>1. CASE Return(c) BY <3>1 DEF Return, Idle, Pc
    <3>2. CASE \E l \in {"unread", "saving"} : Goto(c, l)
      BY <1>f, <3>2, BusyIsHandler DEF Goto, Pc, Handler, Holds, At
    <3>3. CASE CompleteRead(c)
      BY <1>0, <3>3, ReadKeepsUpload
    <3>. QED BY <1>2, <3>1, <3>2, <3>3 DEF CompleteRefused, CompleteRemoveTmp
  <2>5. HandlersHaveFiles'
    <3>1. ASSUME NEW d \in Call, Pc(d)' = "created" PROVE Id(d)' \in DOMAIN tmp'
      <4>1. d # c BY <2>pc, <3>1
      <4>2. Holds(d, Id(d)) /\ Id(d) # Id(c) /\ Id(d) \in DOMAIN tmp
        BY <1>f, <1>o, <3>1, <4>1 DEF Holds, At, Pc, Id, HandlersHaveFiles
      <4>. QED BY <1>2, <1>f, <4>1, <4>2
           DEF CompleteRefused, CompleteRead, CompleteRemoveTmp, Without, Id
    <3>2. ASSUME NEW d \in Call, Pc(d)' \in {"writing", "saved"} PROVE Id(d)' \in DOMAIN media'
      <4>1. d # c BY <2>pc, <3>2
      <4>. QED BY <1>f, <2>1, <3>2, <4>1 DEF Pc, Id, HandlersHaveFiles
    <3>. QED BY <3>1, <3>2 DEF HandlersHaveFiles
  <2>6. TempFilesTracked'
    <3>1. DOMAIN uploads' \subseteq DOMAIN tmp'
      BY <1>2, <1>f, <1>o DEF CompleteRefused, CompleteRead, CompleteRemoveTmp, Without, TempFilesTracked
    <3>2. ASSUME NEW u \in DOMAIN tmp', u \notin DOMAIN uploads \union evicting, 
                 <<"tmp", u>> \notin stranded'
          PROVE  \E d \in Call : At(d, u, {"created", "taken", "read", "unread"})'
      <4>1. PICK d \in Call : At(d, u, {"created", "taken", "read", "unread"})
        BY <1>2, <2>3, <3>2 DEF TempFilesTracked, CompleteRefused, CompleteRead, CompleteRemoveTmp
      <4>2. CASE d # c BY <1>f, <4>1, <4>2 DEF At, Pc, Id
      <4>3. CASE d = c
        <5>1. CASE CompleteRead(c)
          BY <1>0, <4>1, <4>3, <5>1, ReadKeepsUpload DEF At
        <5>2. CASE CompleteRefused(c) \/ CompleteRemoveTmp(c)
          BY <3>2, <4>1, <4>3, <5>2 DEF CompleteRefused, CompleteRemoveTmp, Without, At
        <5>. QED BY <1>2, <5>1, <5>2
      <4>. QED BY <4>2, <4>3
    <3>. QED BY <1>f, <3>1, <3>2 DEF TempFilesTracked
  <2>7. MediaFilesTracked'
    <3>1. Pc(c) \notin {"writing", "saved"}
      BY <1>2 DEF CompleteRefused, CompleteRead, CompleteRemoveTmp
    <3>2. stranded \subseteq stranded'
      BY <1>2 DEF CompleteRefused, CompleteRead, CompleteRemoveTmp
    <3>. QED BY <1>f, <2>1, <3>1, <3>2 DEF MediaFilesTracked, At, Pc, Id
  <2>8. OnePhotoPerUpload' BY <2>1 DEF OnePhotoPerUpload
  <2>. QED BY <2>2, <2>4, <2>5, <2>6, <2>7, <2>8
<1>3. CASE CompleteCreate(c) \/ CompleteWrite(c) \/ CompleteWriteFails(c) \/ CompleteInsertFails(c)
  <2>. USE DEF Ownership, TypeOK
  <2>1. /\ UNCHANGED <<tmp, photos>> /\ stranded \subseteq stranded'
        /\ Pc(c) \in {"saving", "writing", "saved"}
        /\ \A u \in Upload \ {Id(c)} : u \in DOMAIN media' <=> u \in DOMAIN media
        /\ DOMAIN media' \subseteq Upload
    BY <1>3, <1>f DEF CompleteCreate, CompleteWrite, CompleteWriteFails, CompleteInsertFails, With, Without
  <2>2. /\ Pc(c)' \in {"idle", "writing", "saved"}
        /\ Pc(c)' # "idle" => Id(c) \in DOMAIN media'
    <3>1. CASE Return(c) BY <3>1 DEF Return, Idle, Pc
    <3>2. CASE CompleteCreate(c)
      BY <1>f, <3>2, BusyIsHandler DEF CompleteCreate, Goto, Pc, Handler, With
    <3>3. CASE CompleteWrite(c)
      BY <1>f, <3>3, BusyIsHandler DEF CompleteWrite, Goto, Pc, Handler, HandlersHaveFiles
    <3>. QED BY <1>3, <3>1, <3>2, <3>3 DEF CompleteWriteFails, CompleteInsertFails
  <2>3. OneOwner' BY <1>f, <2>1, OwnersOnlyLost
  <2>4. FreshIdsUntouched' BY <1>f, <1>o, <2>1, FreshIdsKept
  <2>5. HandlersHaveFiles'
    <3>1. ASSUME NEW d \in Call, d # c, Pc(d) \in {"writing", "saved"}
          PROVE  Id(d) \in DOMAIN media'
      <4>1. Holds(d, Id(d)) /\ Id(d) # Id(c) /\ Id(d) \in DOMAIN media
        BY <1>o, <3>1 DEF Holds, At, HandlersHaveFiles
      <4>. QED BY <2>1, <4>1
    <3>. QED BY <1>f, <2>1, <2>2, <3>1 DEF HandlersHaveFiles, Pc, Id
  <2>6. TempFilesTracked' BY <1>f, <2>1 DEF TempFilesTracked, At, Pc, Id
  <2>7. MediaFilesTracked'
    <3>1. ASSUME Id(c) \in DOMAIN media', Pc(c)' = "idle"
          PROVE  <<"media", Id(c)>> \in stranded'
      <4>0. call[c] \in Handler BY <1>f, BusyIsHandler DEF Holds, At
      <4>1. CASE CompleteWriteFails(c)
        <5>1. CASE Pc(c) = "saving"
          <6>1. Id(c) \in DOMAIN media BY <3>1, <4>1, <5>1 DEF CompleteWriteFails
          <6>2. \A d \in Call : ~At(d, Id(c), {"writing", "saved"})
            BY <1>o, <5>1 DEF Holds, At
          <6>3. photos[Id(c)] # 1 BY <1>o
          <6>. QED BY <2>1, <6>1, <6>2, <6>3 DEF MediaFilesTracked, At
        <5>2. CASE Pc(c) = "writing" BY <4>1, <5>2 DEF CompleteWriteFails
        <5>. QED BY <4>1, <5>1, <5>2 DEF CompleteWriteFails
      <4>2. CASE CompleteInsertFails(c)
        BY <3>1, <4>2 DEF CompleteInsertFails, Without
      <4>3. CASE CompleteCreate(c) \/ CompleteWrite(c)
        BY <3>1, <4>0, <4>3 DEF CompleteCreate, CompleteWrite, Goto, Pc, Handler
      <4>. QED BY <1>3, <4>1, <4>2, <4>3
    <3>2. \A u \in Upload : u = Id(c) /\ Pc(c)' # "idle" => At(c, u, {"writing", "saved"})'
      BY <1>f, <2>2 DEF At
    <3>3. ASSUME NEW u \in DOMAIN media', u # Id(c), photos[u] # 1, <<"media", u>> \notin stranded
          PROVE  \E d \in Call : At(d, u, {"writing", "saved"})'
      <4>1. PICK d \in Call : At(d, u, {"writing", "saved"})
        BY <2>1, <3>3 DEF MediaFilesTracked
      <4>2. d # c BY <3>3, <4>1 DEF At
      <4>. QED BY <1>f, <4>1, <4>2 DEF At, Pc, Id
    <3>4. ASSUME NEW u \in DOMAIN media'
          PROVE  \/ photos'[u] = 1
                 \/ \E d \in Call : At(d, u, {"writing", "saved"})'
                 \/ <<"media", u>> \in stranded'
      <4>1. CASE u = Id(c) BY <1>f, <3>1, <3>2, <3>4, <4>1
      <4>2. CASE u # Id(c)
        <5>1. photos' = photos /\ stranded \subseteq stranded' BY <2>1
        <5>. QED BY <3>3, <3>4, <4>2, <5>1
      <4>. QED BY <4>1, <4>2
    <3>. QED BY <3>4 DEF MediaFilesTracked
  <2>8. OnePhotoPerUpload' BY <1>o, <2>1 DEF OnePhotoPerUpload
  <2>. QED BY <2>3, <2>4, <2>5, <2>6, <2>7, <2>8
<1>. QED BY <1>1, <1>2, <1>3 DEF CompleteStep

LEMMA OwnershipCleanup ==
  ASSUME Ownership, CleanupStep, TypeOK'
  PROVE  Ownership'
<1>. USE DEF Ownership, TypeOK
<1>1. ASSUME NEW u \in Upload, EvictRemove(u) PROVE Ownership'
  <2>. USE <1>1 DEF EvictRemove, Without
  <2>0. u \notin DOMAIN uploads /\ \A c \in Call : ~Holds(c, u) BY DEF OneOwner
  <2>1. OneOwner' BY OwnersOnlyLost DEF Holds, At, Pc, Id
  <2>2. FreshIdsUntouched' BY FreshIdsKept DEF Pc, Id
  <2>3. HandlersHaveFiles' BY <2>0 DEF HandlersHaveFiles, Holds, At, Pc, Id
  <2>4. TempFilesTracked' BY <2>0 DEF TempFilesTracked, Holds, At, Pc, Id
  <2>5. MediaFilesTracked' BY DEF MediaFilesTracked, At, Pc, Id
  <2>6. OnePhotoPerUpload' BY DEF OnePhotoPerUpload
  <2>. QED BY <2>1, <2>2, <2>3, <2>4, <2>5, <2>6
<1>2. CASE Tick
  <2>. USE <1>2 DEF Tick
  <2>1. OneOwner' BY OwnersOnlyLost DEF Holds, At, Pc, Id
  <2>2. FreshIdsUntouched' BY FreshIdsKept DEF Pc, Id
  <2>3. HandlersHaveFiles' BY DEF HandlersHaveFiles, Pc, Id
  <2>4. TempFilesTracked' BY DEF TempFilesTracked, At, Pc, Id
  <2>5. MediaFilesTracked' BY DEF MediaFilesTracked, At, Pc, Id
  <2>6. OnePhotoPerUpload' BY DEF OnePhotoPerUpload
  <2>. QED BY <2>1, <2>2, <2>3, <2>4, <2>5, <2>6
<1>3. CASE EvictScan
  <2>. USE <1>3 DEF EvictScan, Without
  <2>1. OneOwner' BY DEF OneOwner, Holds, At, Pc, Id
  <2>2. FreshIdsUntouched' BY FreshIdsKept DEF Pc, Id
  <2>3. HandlersHaveFiles' BY DEF HandlersHaveFiles, Pc, Id
  <2>4. TempFilesTracked' BY DEF TempFilesTracked, At, Pc, Id
  <2>5. MediaFilesTracked' BY DEF MediaFilesTracked, At, Pc, Id
  <2>6. OnePhotoPerUpload' BY DEF OnePhotoPerUpload
  <2>. QED BY <2>1, <2>2, <2>3, <2>4, <2>5, <2>6
<1>4. CASE Restart
  <2>. USE <1>4 DEF Restart
  <2>0. \A c \in Call : Pc(c)' = "idle" BY DEF Pc, Idle
  <2>1. OneOwner' BY <2>0, OwnersOnlyLost DEF Holds, At
  <2>2. FreshIdsUntouched' BY <2>0, FreshIdsKept
  <2>3. HandlersHaveFiles' BY <2>0 DEF HandlersHaveFiles
  <2>4. TempFilesTracked' BY <2>0 DEF TempFilesTracked
  <2>5. MediaFilesTracked' BY <2>0 DEF MediaFilesTracked, At
  <2>6. OnePhotoPerUpload' BY DEF OnePhotoPerUpload
  <2>. QED BY <2>1, <2>2, <2>3, <2>4, <2>5, <2>6
<1>. QED BY <1>1, <1>2, <1>3, <1>4 DEF CleanupStep

LEMMA OwnershipStep == Ownership /\ TypeOK' /\ [Next]_vars => Ownership'
<1>. SUFFICES ASSUME Ownership, TypeOK', [Next]_vars PROVE Ownership'
  OBVIOUS
<1>1. ASSUME NEW c \in Call, Arrive(c) PROVE Ownership'
  BY <1>1, OwnershipInitCreate, OwnershipChunk, OwnershipTake DEF Arrive
<1>2. ASSUME NEW c \in Call, InitStep(c) \/ ChunkStep(c) \/ CompleteStep(c) PROVE Ownership'
  BY <1>2, OwnershipInitRegister, OwnershipChunk, OwnershipComplete DEF InitStep
<1>3. CASE SessionStep BY <1>3, OwnershipSession DEF SessionStep
<1>4. CASE CleanupStep BY <1>4, OwnershipCleanup
<1>5. CASE UNCHANGED vars
  BY <1>5 DEF vars, Ownership, OneOwner, FreshIdsUntouched, HandlersHaveFiles, TempFilesTracked,
              MediaFilesTracked, OnePhotoPerUpload, Holds, At, Pc, Id
<1>. QED BY <1>1, <1>2, <1>3, <1>4, <1>5 DEF Next, SessionStep, CleanupStep

LEMMA OwnershipInvariant == Spec => []Ownership
BY TypeCorrect, OwnershipInit, OwnershipStep, PTL DEF Spec

\* At any moment an upload is in the table, in one handler's hands, a victim of
\* the eviction or finished, and never two of these.
THEOREM UploadsHaveOneOwner == Spec => []OneOwner
BY OwnershipInvariant, PTL DEF Ownership

\* No temp file is forgotten but by a restart, a failed remove or a refused complete.
THEOREM TempFilesAreTracked == Spec => []TempFilesTracked
BY OwnershipInvariant, PTL DEF Ownership

\* No finished file is forgotten but by a restart or an I/O error.
THEOREM MediaFilesAreTracked == Spec => []MediaFilesTracked
BY OwnershipInvariant, PTL DEF Ownership

\* No upload ever produces two photos.
THEOREM UploadsBecomeOnePhoto == Spec => []OnePhotoPerUpload
BY OwnershipInvariant, PTL DEF Ownership

-----------------------------------------------------------------------------
(* What the client was told is stored is in the photo *)

AllBlocks(K) == K \X (1..Blocks)

\* The inductive invariant: where the blocks of counted chunks are, from the
\* moment they are appended to the moment the photo has its row.
TableBlocksKept ==
  \A u \in DOMAIN uploads : AllBlocks(uploads[u].received) \subseteq Range(tmp[u])

HandlerBlocksKept(c) ==
  /\ Pc(c) = "found" => call[c].pos = 1
  /\ Pc(c) = "copying" /\ Id(c) \in DOMAIN tmp =>
       {call[c].chunk} \X (1..(call[c].pos - 1)) \subseteq Range(tmp[Id(c)])
  /\ Pc(c) = "taken" /\ Id(c) \in DOMAIN tmp => AllBlocks(due[Id(c)]) \subseteq Range(tmp[Id(c)])
  /\ Pc(c) \in {"read", "saving", "writing", "saved"} =>
       AllBlocks(due[Id(c)]) \subseteq Range(call[c].data)
  /\ Pc(c) = "saved" => media[Id(c)] = call[c].data

CountedBlocksKept ==
  /\ TableBlocksKept
  /\ \A c \in Call : HandlerBlocksKept(c)
  /\ CountedChunksReachPhoto

LEMMA RangeAppend ==
  ASSUME NEW S, NEW s \in Seq(S), NEW x \in S
  PROVE  Range(Append(s, x)) = Range(s) \union {x}
BY AppendProperties DEF Range

\* A handler that does not move keeps its blocks when the files only grow.
LEMMA OtherHandlersKeepBlocks ==
  ASSUME NEW d \in Call, HandlerBlocksKept(d), call'[d] = call[d],
         Holds(d, Id(d)) => due'[Id(d)] = due[Id(d)],
         Pc(d) # "idle" /\ Id(d) \in DOMAIN tmp' =>
            Id(d) \in DOMAIN tmp /\ Range(tmp[Id(d)]) \subseteq Range(tmp'[Id(d)]),
         Pc(d) = "saved" => media'[Id(d)] = media[Id(d)]
  PROVE  HandlerBlocksKept(d)'
<1>1. CASE Pc(d) \in {"found", "copying"}
  BY <1>1 DEF HandlerBlocksKept, Pc, Id
<1>2. CASE Pc(d) \in {"taken", "read", "saving", "writing", "saved"}
  BY <1>2 DEF HandlerBlocksKept, Holds, At, Pc, Id
<1>3. CASE Pc(d) \notin {"found", "copying", "taken", "read", "saving", "writing", "saved"}
  BY <1>3 DEF HandlerBlocksKept, Pc
<1>. QED BY <1>1, <1>2, <1>3

LEMMA IdleKeepsBlocks ==
  ASSUME NEW c \in Call, TypeOK, Return(c)
  PROVE  HandlerBlocksKept(c)'
BY DEF TypeOK, Return, HandlerBlocksKept, Pc, Idle

LEMMA ContentInit == Init => CountedBlocksKept
BY DEF Init, CountedBlocksKept, TableBlocksKept, HandlerBlocksKept, CountedChunksReachPhoto, Pc, Idle

LEMMA ContentInitHandler ==
  ASSUME Ownership, CountedBlocksKept, NEW c \in Call,
         (\E p \in User, u \in Upload : InitCreate(c, p, u)) \/ InitStep(c)
  PROVE  CountedBlocksKept'
<1>. USE DEF CountedBlocksKept
<1>0. TypeOK BY DEF Ownership
<1>1. ASSUME NEW p \in User, NEW u \in Upload, InitCreate(c, p, u) PROVE CountedBlocksKept'
  <2>. USE <1>1 DEF InitCreate
  <2>1. /\ \A d \in Call : Pc(d) # "idle" => Id(d) # u
        /\ u \notin DOMAIN uploads
    BY DEF Ownership, FreshIdsUntouched
  <2>2. ASSUME NEW d \in Call, d # c PROVE HandlerBlocksKept(d)'
    <3>1. call'[d] = call[d] BY <1>0, <2>2 DEF Begin, TypeOK
    <3>. QED BY <2>1, <3>1, OtherHandlersKeepBlocks DEF With
  <2>3. HandlerBlocksKept(c)' BY <1>0 DEF Begin, TypeOK, HandlerBlocksKept, Pc
  <2>4. DOMAIN uploads \subseteq DOMAIN tmp BY DEF Ownership, TempFilesTracked
  <2>5. TableBlocksKept' BY <2>1, <2>4 DEF TableBlocksKept, With
  <2>6. CountedChunksReachPhoto' BY DEF CountedChunksReachPhoto
  <2>. QED BY <2>2, <2>3, <2>5, <2>6
<1>2. CASE InitRegister(c)
  <2>. USE <1>2 DEF InitRegister
  <2>1. ASSUME NEW d \in Call, d # c PROVE HandlerBlocksKept(d)'
    <3>1. call'[d] = call[d] BY <1>0, <2>1 DEF Return, TypeOK
    <3>. QED BY <3>1, OtherHandlersKeepBlocks
  <2>2. HandlerBlocksKept(c)' BY <1>0, IdleKeepsBlocks
  <2>3. ASSUME NEW u \in DOMAIN uploads'
        PROVE  AllBlocks(uploads'[u].received) \subseteq Range(tmp'[u])
    <3>1. CASE u = Id(c)
      <4>1. uploads'[u].received = {} BY <3>1 DEF With
      <4>. QED BY <4>1 DEF AllBlocks
    <3>2. CASE u # Id(c) BY <2>3, <3>2 DEF With, TableBlocksKept
    <3>. QED BY <3>1, <3>2
  <2>4. TableBlocksKept' BY <2>3 DEF TableBlocksKept
  <2>5. CountedChunksReachPhoto' BY DEF CountedChunksReachPhoto
  <2>. QED BY <2>1, <2>2, <2>4, <2>5
<1>. QED BY <1>1, <1>2 DEF InitStep

LEMMA ContentChunk ==
  ASSUME Ownership, CountedBlocksKept, NEW c \in Call,
         \/ \E p \in User, u \in Upload, k \in Chunk : ChunkLookup(c, p, u, k)
         \/ ChunkStep(c)
  PROVE  CountedBlocksKept'
<1>. USE DEF CountedBlocksKept
<1>0. TypeOK BY DEF Ownership
<1>1. UNCHANGED <<media, photos, due>> /\ DOMAIN tmp' = DOMAIN tmp /\ DOMAIN uploads' = DOMAIN uploads
  BY DEF ChunkLookup, ChunkStep, ChunkOpen, ChunkRefused, ChunkCopy, ChunkAborted, ChunkCount
<1>2. \A u \in DOMAIN tmp : Range(tmp[u]) \subseteq Range(tmp'[u])
  <2>1. CASE ChunkCopy(c)
    <3>1. call[c] \in Handler /\ call[c].chunk \in Chunk
      BY <1>0, <2>1, BusyIsHandler DEF ChunkCopy, TypeOK
    <3>2. <<call[c].chunk, call[c].pos>> \in Block
      BY <2>1, <3>1, BlocksAssumption DEF ChunkCopy, Handler, Block
    <3>. QED BY <1>0, <2>1, <3>2, RangeAppend DEF ChunkCopy, TypeOK
  <2>2. CASE ~ChunkCopy(c)
    BY <2>2 DEF ChunkLookup, ChunkStep, ChunkOpen, ChunkRefused, ChunkAborted, ChunkCount
  <2>. QED BY <2>1, <2>2
<1>3. ASSUME NEW d \in Call, d # c PROVE HandlerBlocksKept(d)'
  <2>1. call'[d] = call[d]
    BY <1>0, <1>3 DEF ChunkLookup, ChunkStep, ChunkOpen, ChunkRefused, ChunkCopy, ChunkAborted,
       ChunkCount, Begin, Goto, Return, TypeOK
  <2>. QED BY <1>1, <1>2, <2>1, OtherHandlersKeepBlocks
<1>4. HandlerBlocksKept(c)'
  <2>1. CASE \E p \in User, u \in Upload, k \in Chunk : ChunkLookup(c, p, u, k)
    BY <1>0, <2>1 DEF ChunkLookup, Begin, TypeOK, HandlerBlocksKept, Pc
  <2>2. CASE ChunkRefused(c) \/ ChunkAborted(c) \/ ChunkCount(c)
    BY <1>0, <2>2, IdleKeepsBlocks DEF ChunkRefused, ChunkAborted, ChunkCount
  <2>3. CASE ChunkOpen(c)
    <3>1. call[c] \in Handler /\ call[c].pos = 1
      BY <1>0, <2>3, BusyIsHandler DEF ChunkOpen, HandlerBlocksKept
    <3>2. call'[c] = [call[c] EXCEPT !.pc = "copying"] BY <1>0, <2>3 DEF ChunkOpen, Goto, TypeOK
    <3>3. Pc(c)' = "copying" /\ call'[c].pos = 1 BY <3>1, <3>2 DEF Pc, Handler
    <3>. QED BY <3>3 DEF HandlerBlocksKept
  <2>4. CASE ChunkCopy(c)
    <3>1. call[c] \in Handler /\ call[c].chunk \in Chunk /\ call[c].pos \in 1..Blocks
      BY <1>0, <2>4, BusyIsHandler, BlocksAssumption DEF ChunkCopy, TypeOK, Handler
    <3>2. /\ Pc(c)' = "copying" /\ Id(c)' = Id(c)
          /\ call'[c].chunk = call[c].chunk /\ call'[c].pos = call[c].pos + 1
      BY <1>0, <2>4, <3>1 DEF ChunkCopy, TypeOK, Pc, Id, Handler
    <3>3. ASSUME Id(c) \in DOMAIN tmp
          PROVE  {call[c].chunk} \X (1..call[c].pos) \subseteq Range(tmp'[Id(c)])
      <4>1. Range(tmp'[Id(c)]) = Range(tmp[Id(c)]) \union {<<call[c].chunk, call[c].pos>>}
        <5>1. <<call[c].chunk, call[c].pos>> \in Block BY <3>1 DEF Block
        <5>2. tmp[Id(c)] \in Seq(Block) BY <1>0, <3>3 DEF TypeOK
        <5>3. tmp'[Id(c)] = Append(tmp[Id(c)], <<call[c].chunk, call[c].pos>>)
          BY <2>4, <3>3 DEF ChunkCopy
        <5>. QED BY <5>1, <5>2, <5>3, RangeAppend
      <4>2. {call[c].chunk} \X (1..(call[c].pos - 1)) \subseteq Range(tmp[Id(c)])
        BY <2>4, <3>3 DEF ChunkCopy, HandlerBlocksKept
      <4>. QED BY <3>1, <4>1, <4>2
    <3>. QED BY <1>1, <3>1, <3>2, <3>3 DEF HandlerBlocksKept
  <2>. QED BY <2>1, <2>2, <2>3, <2>4 DEF ChunkStep
<1>5. TableBlocksKept'
  <2>0. DOMAIN uploads \subseteq DOMAIN tmp BY DEF Ownership, TempFilesTracked
  <2>1. CASE ChunkCount(c)
    <3>1. call[c] \in Handler BY <1>0, <2>1, BusyIsHandler DEF ChunkCount
    <3>2. Id(c) \in DOMAIN uploads => AllBlocks({call[c].chunk}) \subseteq Range(tmp[Id(c)])
      BY <2>0, <2>1, BlocksAssumption DEF ChunkCount, HandlerBlocksKept, AllBlocks
    <3>3. ASSUME NEW u \in DOMAIN uploads
          PROVE  AllBlocks(uploads'[u].received) \subseteq Range(tmp[u])
      <4>1. uploads[u] \in Entry BY <1>0 DEF TypeOK
      <4>2. CASE u = Id(c)
        <5>1. uploads'[u].received = uploads[u].received \union {call[c].chunk}
          BY <2>1, <4>1, <4>2 DEF ChunkCount, Entry
        <5>. QED BY <3>2, <4>2, <5>1 DEF TableBlocksKept, AllBlocks
      <4>3. CASE u # Id(c)
        <5>1. uploads'[u] = uploads[u] BY <2>1, <4>3 DEF ChunkCount
        <5>. QED BY <5>1 DEF TableBlocksKept
      <4>. QED BY <4>2, <4>3
    <3>. QED BY <1>1, <2>1, <3>3 DEF TableBlocksKept, ChunkCount
  <2>2. CASE ~ChunkCount(c)
    <3>1. uploads' = uploads
      BY <2>2 DEF ChunkLookup, ChunkStep, ChunkOpen, ChunkRefused, ChunkCopy, ChunkAborted
    <3>. QED BY <1>2, <2>0, <3>1 DEF TableBlocksKept
  <2>. QED BY <2>1, <2>2
<1>6. CountedChunksReachPhoto' BY <1>1 DEF CountedChunksReachPhoto
<1>. QED BY <1>3, <1>4, <1>5, <1>6

LEMMA ContentTake ==
  ASSUME Ownership, CountedBlocksKept, NEW c \in Call, NEW p \in User, NEW u \in Upload,
         CompleteTake(c, p, u)
  PROVE  CountedBlocksKept'
<1>. USE DEF CountedBlocksKept, CompleteTake
<1>0. TypeOK /\ OneOwner BY DEF Ownership
<1>1. photos[u] = 0 /\ \A d \in Call : ~Holds(d, u) BY <1>0 DEF OneOwner
<1>2. \A v \in Upload : v # u => due'[v] = due[v] BY <1>0 DEF TypeOK
<1>3. due'[u] = uploads[u].received BY <1>0 DEF TypeOK
<1>4. ASSUME NEW d \in Call, d # c PROVE HandlerBlocksKept(d)'
  <2>1. call'[d] = call[d] BY <1>0, <1>4 DEF Begin, TypeOK
  <2>2. Holds(d, Id(d)) => Id(d) \in Upload /\ Id(d) # u
    BY <1>0, <1>1, BusyIsHandler DEF Holds, At, Handler, Id
  <2>. QED BY <1>2, <2>1, <2>2, OtherHandlersKeepBlocks
<1>5. HandlerBlocksKept(c)'
  <2>1. Pc(c)' = "taken" /\ Id(c)' = u BY <1>0 DEF Begin, TypeOK, Pc, Id
  <2>. QED BY <1>3, <2>1 DEF HandlerBlocksKept, TableBlocksKept
<1>6. TableBlocksKept' BY DEF TableBlocksKept, Without
<1>7. CountedChunksReachPhoto' BY <1>1, <1>2 DEF CountedChunksReachPhoto
<1>. QED BY <1>4, <1>5, <1>6, <1>7

LEMMA ContentComplete ==
  ASSUME Ownership, CountedBlocksKept, NEW c \in Call, CompleteStep(c)
  PROVE  CountedBlocksKept'
<1>. USE DEF CountedBlocksKept
<1>0. TypeOK /\ OneOwner BY DEF Ownership
<1>f. /\ UNCHANGED <<owner, uploads, evicting>>
      /\ \A d \in Call \ {c} : call'[d] = call[d]
      /\ Holds(c, Id(c)) /\ Id(c) \in Upload
  BY <1>0, CompleteFrame
<1>o. /\ Id(c) \notin DOMAIN uploads /\ photos[Id(c)] = 0
      /\ \A d \in Call : Holds(d, Id(c)) => d = c
  BY <1>0, <1>f DEF OneOwner
<1>h. call[c] \in Handler BY <1>0, <1>f, BusyIsHandler DEF Holds, At
<1>1. /\ due' = due
      /\ \A u \in Upload : u # Id(c) =>
           /\ u \in DOMAIN tmp' <=> u \in DOMAIN tmp
           /\ u \in DOMAIN tmp => tmp'[u] = tmp[u]
           /\ u \in DOMAIN media => u \in DOMAIN media' /\ media'[u] = media[u]
           /\ photos'[u] = photos[u]
      /\ \A u \in DOMAIN tmp' : u \in DOMAIN tmp /\ tmp'[u] = tmp[u]
  <2>1. CASE CompleteRefused(c) \/ CompleteRead(c) \/ CompleteRemoveTmp(c)
    BY <1>0, <2>1 DEF CompleteRefused, CompleteRead, CompleteRemoveTmp, Without
  <2>2. CASE CompleteCreate(c) \/ CompleteWrite(c) \/ CompleteWriteFails(c) \/ CompleteInsertFails(c)
    BY <1>0, <2>2 DEF CompleteCreate, CompleteWrite, CompleteWriteFails, CompleteInsertFails, With, Without
  <2>3. CASE CompleteInsert(c) BY <1>0, <2>3 DEF CompleteInsert, TypeOK
  <2>. QED BY <2>1, <2>2, <2>3 DEF CompleteStep
<1>2. ASSUME NEW d \in Call, d # c PROVE HandlerBlocksKept(d)'
  <2>1. Pc(d) = "saved" => Id(d) \in Upload /\ Id(d) # Id(c) /\ Id(d) \in DOMAIN media
    BY <1>0, <1>2, <1>o, BusyIsHandler DEF Holds, At, Ownership, HandlersHaveFiles, Handler, Id
  <2>. QED BY <1>f, <1>1, <1>2, <2>1, OtherHandlersKeepBlocks
<1>3. HandlerBlocksKept(c)'
  <2>1. CASE Return(c) BY <1>0, <2>1, IdleKeepsBlocks
  <2>2. CASE CompleteRead(c)
    <3>1. CASE Goto(c, "unread")
      <4>1. Pc(c)' = "unread" BY <1>0, <1>h, <3>1 DEF Goto, TypeOK, Handler, Pc
      <4>. QED BY <4>1 DEF HandlerBlocksKept
    <3>2. CASE /\ Id(c) \in DOMAIN tmp
               /\ call' = [call EXCEPT ![c] = [call[c] EXCEPT !.pc = "read", !.data = tmp[Id(c)]]]
      <4>1. Pc(c)' = "read" /\ Id(c)' = Id(c) /\ call'[c].data = tmp[Id(c)]
        BY <1>0, <1>h, <3>2 DEF TypeOK, Handler, Pc, Id
      <4>. QED BY <1>1, <2>2, <3>2, <4>1 DEF HandlerBlocksKept, CompleteRead
    <3>. QED BY <2>2, <3>1, <3>2 DEF CompleteRead
  <2>3. CASE CompleteRemoveTmp(c) /\ Goto(c, "saving")
    <3>1. Pc(c)' = "saving" /\ Id(c)' = Id(c) /\ call'[c].data = call[c].data
      BY <1>0, <1>h, <2>3 DEF Goto, TypeOK, Handler, Pc, Id
    <3>2. Pc(c) = "read"
      <4>. SUFFICES ASSUME Return(c) PROVE FALSE BY <2>3 DEF CompleteRemoveTmp
      <4>1. Pc(c)' = "idle" BY <1>0 DEF Return, TypeOK, Idle, Pc
      <4>. QED BY <3>1, <4>1
    <3>. QED BY <1>1, <3>1, <3>2 DEF HandlerBlocksKept
  <2>4. CASE CompleteCreate(c)
    <3>1. Pc(c)' = "writing" /\ Id(c)' = Id(c) /\ call'[c].data = call[c].data
      BY <1>0, <1>h, <2>4 DEF CompleteCreate, Goto, TypeOK, Handler, Pc, Id
    <3>. QED BY <1>1, <2>4, <3>1 DEF CompleteCreate, HandlerBlocksKept
  <2>5. CASE CompleteWrite(c)
    <3>1. Pc(c)' = "saved" /\ Id(c)' = Id(c) /\ call'[c].data = call[c].data
      BY <1>0, <1>h, <2>5 DEF CompleteWrite, Goto, TypeOK, Handler, Pc, Id
    <3>2. media'[Id(c)] = call[c].data
      BY <2>5 DEF CompleteWrite, Ownership, HandlersHaveFiles
    <3>. QED BY <1>1, <2>5, <3>1, <3>2 DEF CompleteWrite, HandlerBlocksKept
  <2>. QED BY <2>1, <2>2, <2>3, <2>4, <2>5
       DEF CompleteStep, CompleteRefused, CompleteRemoveTmp, CompleteWriteFails, CompleteInsert,
           CompleteInsertFails
<1>4. TableBlocksKept'
  <2>1. DOMAIN uploads \subseteq DOMAIN tmp /\ DOMAIN uploads \subseteq Upload
    BY <1>0 DEF Ownership, TempFilesTracked, TypeOK
  <2>. QED BY <1>f, <1>o, <1>1, <2>1 DEF TableBlocksKept
<1>5. CountedChunksReachPhoto'
  <2>1. ASSUME NEW u \in Upload, u # Id(c), photos'[u] > 0
        PROVE  due'[u] \X (1..Blocks) \subseteq Range(media'[u])
    BY <1>1, <2>1 DEF CountedChunksReachPhoto, Ownership, OnePhotoPerUpload
  <2>2. ASSUME photos'[Id(c)] > 0
        PROVE  due'[Id(c)] \X (1..Blocks) \subseteq Range(media'[Id(c)])
    <3>1. CompleteInsert(c)
      BY <1>o, <2>2 DEF CompleteStep, CompleteRefused, CompleteRead, CompleteRemoveTmp,
         CompleteCreate, CompleteWrite, CompleteWriteFails, CompleteInsertFails
    <3>. QED BY <3>1 DEF CompleteInsert, HandlerBlocksKept, AllBlocks
  <2>. QED BY <1>f, <2>1, <2>2 DEF CountedChunksReachPhoto
<1>. QED BY <1>2, <1>3, <1>4, <1>5

LEMMA ContentCleanup ==
  ASSUME Ownership, CountedBlocksKept, CleanupStep
  PROVE  CountedBlocksKept'
<1>. USE DEF CountedBlocksKept
<1>0. TypeOK /\ OneOwner BY DEF Ownership
<1>1. ASSUME NEW u \in Upload, EvictRemove(u) PROVE CountedBlocksKept'
  <2>. USE <1>1 DEF EvictRemove, Without
  <2>1. \A c \in Call : HandlerBlocksKept(c)' BY OtherHandlersKeepBlocks
  <2>2. TableBlocksKept'
    BY <1>0 DEF TableBlocksKept, OneOwner, Ownership, TempFilesTracked
  <2>3. CountedChunksReachPhoto' BY DEF CountedChunksReachPhoto
  <2>. QED BY <2>1, <2>2, <2>3
<1>2. CASE Tick \/ EvictScan
  <2>. USE <1>2 DEF Tick, EvictScan, Without
  <2>1. \A c \in Call : HandlerBlocksKept(c)' BY OtherHandlersKeepBlocks
  <2>2. TableBlocksKept'
    <3>1. ASSUME NEW u \in DOMAIN uploads'
          PROVE  u \in DOMAIN uploads /\ uploads'[u].received = uploads[u].received
      <4>1. u \in DOMAIN uploads BY <3>1
      <4>2. uploads[u] \in Entry BY <1>0, <4>1 DEF TypeOK
      <4>. QED BY <3>1, <4>1, <4>2 DEF Entry
    <3>. QED BY <3>1 DEF TableBlocksKept
  <2>3. CountedChunksReachPhoto' BY DEF CountedChunksReachPhoto
  <2>. QED BY <2>1, <2>2, <2>3
<1>3. CASE Restart
  <2>. USE <1>3 DEF Restart
  <2>1. \A c \in Call : HandlerBlocksKept(c)' BY DEF HandlerBlocksKept, Pc, Idle
  <2>2. TableBlocksKept' BY DEF TableBlocksKept
  <2>3. CountedChunksReachPhoto' BY DEF CountedChunksReachPhoto
  <2>. QED BY <2>1, <2>2, <2>3
<1>. QED BY <1>1, <1>2, <1>3 DEF CleanupStep

LEMMA ContentStep == Ownership /\ CountedBlocksKept /\ [Next]_vars => CountedBlocksKept'
<1>. SUFFICES ASSUME Ownership, CountedBlocksKept, [Next]_vars PROVE CountedBlocksKept'
  OBVIOUS
<1>1. ASSUME NEW c \in Call, Arrive(c) PROVE CountedBlocksKept'
  BY <1>1, ContentInitHandler, ContentChunk, ContentTake DEF Arrive
<1>2. ASSUME NEW c \in Call, InitStep(c) \/ ChunkStep(c) \/ CompleteStep(c) PROVE CountedBlocksKept'
  BY <1>2, ContentInitHandler, ContentChunk, ContentComplete
<1>3. CASE SessionStep \/ UNCHANGED vars
  <2>1. UNCHANGED <<uploads, tmp, call, media, photos, due>>
    BY <1>3 DEF SessionStep, SignIn, SignOut, vars
  <2>2. \A c \in Call : HandlerBlocksKept(c)'
    BY <2>1, OtherHandlersKeepBlocks DEF CountedBlocksKept
  <2>. QED BY <2>1, <2>2 DEF CountedBlocksKept, TableBlocksKept, CountedChunksReachPhoto
<1>4. CASE CleanupStep BY <1>4, ContentCleanup
<1>. QED BY <1>1, <1>2, <1>3, <1>4 DEF Next, SessionStep, CleanupStep

LEMMA ContentInvariant == Spec => []CountedBlocksKept
BY OwnershipInvariant, ContentInit, ContentStep, PTL DEF Spec

\* Every chunk that was counted before complete took the upload is whole in the
\* photo's file, however the chunk, complete and eviction steps interleave.
THEOREM NoCountedChunkIsLost == Spec => []CountedChunksReachPhoto
BY ContentInvariant, PTL DEF CountedBlocksKept

-----------------------------------------------------------------------------
(* The table, its handlers and its eviction implement the life cycle          *)

Sealing(u)  == \E c \in Call : Holds(c, u) /\ Pc(c) # "created"
Starting(u) == owner[u] = Nobody \/ \E c \in Call : At(c, u, {"created"})

\* What a step does to one upload, seen from the life cycle.
Kept(u) == Stage(u)' = Stage(u) /\ Accepted(u)' = Accepted(u) /\ Content(u)' = Content(u)
Lost(u) == /\ Stage(u) \in {"new", "open", "sealed"} /\ Stage(u)' = "gone"
           /\ Accepted(u)' = {} /\ Content(u)' = Content(u)

LEMMA StageIs ==
  ASSUME TypeOK, NEW u \in Upload
  PROVE  /\ Stage(u) = IF photos[u] # 0 THEN "photo" ELSE IF u \in DOMAIN uploads THEN "open"
                       ELSE IF Sealing(u) THEN "sealed" ELSE IF Starting(u) THEN "new" ELSE "gone"
         /\ photos[u] = 0 => Content(u) = {}
<1>1. photos[u] \in Nat
  BY DEF TypeOK
<1> QED BY <1>1 DEF Stage, Sealing, Starting, Content

LEMMA StageBecomes ==
  ASSUME TypeOK', NEW u \in Upload
  PROVE  /\ Stage(u)' = IF photos'[u] # 0 THEN "photo" ELSE IF u \in DOMAIN uploads' THEN "open"
                        ELSE IF Sealing(u)' THEN "sealed" ELSE IF Starting(u)' THEN "new" ELSE "gone"
         /\ photos'[u] = 0 => Content(u)' = {}
<1>1. photos'[u] \in Nat
  BY DEF TypeOK
<1> QED BY <1>1 DEF Stage, Sealing, Starting, Content

\* Stages of the life cycle and steps of it.
LEMMA LifecycleInit == Init => Lifecycle!Init
<1> SUFFICES ASSUME Init PROVE Lifecycle!Init
  OBVIOUS
<1>1. ASSUME NEW u \in Upload PROVE Stage(u) = "new" /\ Accepted(u) = {} /\ Content(u) = {}
  BY DEF Init, Stage, Accepted, Content, Holds, At, Pc, Id, Idle
<1> QED BY <1>1 DEF Lifecycle!Init

LEMMA LifecycleLoses ==
  ASSUME \A u \in Upload : Kept(u) \/ Lost(u)
  PROVE  Lifecycle!Next
<1> DEFINE S == {u \in Upload : Lost(u)}
<1>1. Lifecycle!Discard(S)
  BY DEF Kept, Lost, Lifecycle!Discard
<1> QED BY <1>1 DEF Lifecycle!Next

LEMMA LifecycleOpens ==
  ASSUME NEW u \in Upload, \A v \in Upload \ {u} : Kept(v),
         Stage(u) = "new", Stage(u)' = "open", Accepted(u)' = Accepted(u), Content(u)' = Content(u)
  PROVE  Lifecycle!Next
<1>1. Lifecycle!Open(u)
  BY DEF Kept, Lifecycle!Open, Lifecycle!Move
<1> QED BY <1>1 DEF Lifecycle!Next

LEMMA LifecycleAccepts ==
  ASSUME NEW u \in Upload, NEW k \in Chunk, \A v \in Upload \ {u} : Kept(v),
         Stage(u) = "open", Stage(u)' = "open", Accepted(u)' = Accepted(u) \union {k},
         Content(u)' = Content(u)
  PROVE  Lifecycle!Next
<1>1. Lifecycle!Accept(u, k)
  BY DEF Kept, Lifecycle!Accept
<1> QED BY <1>1 DEF Lifecycle!Next

LEMMA LifecycleSeals ==
  ASSUME NEW u \in Upload, \A v \in Upload \ {u} : Kept(v),
         Stage(u) = "open", Stage(u)' = "sealed", Accepted(u)' = Accepted(u), Content(u)' = Content(u)
  PROVE  Lifecycle!Next
<1>1. Lifecycle!Seal(u)
  BY DEF Kept, Lifecycle!Seal, Lifecycle!Move
<1> QED BY <1>1 DEF Lifecycle!Next

LEMMA LifecyclePublishes ==
  ASSUME NEW u \in Upload, \A v \in Upload \ {u} : Kept(v),
         Stage(u) = "sealed", Stage(u)' = "photo", Accepted(u)' = Accepted(u),
         Accepted(u) \subseteq Content(u)', Content(u)' \subseteq Chunk
  PROVE  Lifecycle!Next
<1>1. PICK K : K = Content(u)'
  OBVIOUS
<1>2. K \in SUBSET Chunk /\ Accepted(u) \subseteq K
  BY <1>1
<1>3. Lifecycle!Publish(u)
  BY <1>1, <1>2 DEF Kept, Lifecycle!Publish, Lifecycle!Move
<1> QED BY <1>3 DEF Lifecycle!Next

\* The step of a handler that holds an upload neither before nor after it.
LEMMA BesideKept ==
  ASSUME TypeOK, TypeOK', NEW c \in Call, NEW u \in Upload,
         \A d \in Call \ {c} : call'[d] = call[d], ~Holds(c, u), ~Holds(c, u)',
         (owner'[u] = Nobody) = (owner[u] = Nobody), photos'[u] = photos[u],
         (u \in DOMAIN uploads') = (u \in DOMAIN uploads),
         u \in DOMAIN uploads => uploads'[u].received = uploads[u].received,
         due'[u] = due[u], photos[u] # 0 => media'[u] = media[u]
  PROVE  Kept(u)
<1>1. ASSUME NEW d \in Call
      PROVE  Holds(d, u)' = Holds(d, u) /\ (Holds(d, u) => Pc(d)' = Pc(d))
  BY <1>1 DEF Holds, At, Pc, Id
<1>2. \A d \in Call : At(d, u, {"created"}) <=> (Holds(d, u) /\ Pc(d) = "created")
  BY DEF Holds, At
<1>3. \A d \in Call : At(d, u, {"created"})' <=> (Holds(d, u)' /\ Pc(d)' = "created")
  BY DEF Holds, At
<1>4. Sealing(u)' = Sealing(u) /\ Starting(u)' = Starting(u)
  BY <1>1, <1>2, <1>3 DEF Sealing, Starting
<1>5. Stage(u)' = Stage(u)
  BY <1>4, StageIs, StageBecomes
<1> QED BY <1>5 DEF Kept, Accepted, Content

\* A handler at work on an upload that stays open, sealed or published.
LEMMA HolderKeeps ==
  ASSUME TypeOK, TypeOK', NEW c \in Call, NEW u \in Upload,
         At(c, u, {"taken", "read", "unread", "saving", "writing"}),
         At(c, u, {"read", "unread", "saving", "writing", "saved"})',
         photos[u] = 0, photos'[u] = 0, u \notin DOMAIN uploads, u \notin DOMAIN uploads',
         due'[u] = due[u]
  PROVE  Kept(u)
<1>1. Sealing(u) /\ Sealing(u)'
  BY DEF Sealing, Holds, At
<1>2. Stage(u) = "sealed" /\ Stage(u)' = "sealed" /\ Content(u) = {} /\ Content(u)' = {}
  BY <1>1, StageIs, StageBecomes
<1> QED BY <1>2 DEF Kept, Accepted

\* A handler that gives its upload up.
LEMMA HolderLoses ==
  ASSUME Ownership, TypeOK', NEW c \in Call, NEW u \in Upload, Holds(c, u), Pc(c) # "created",
         Return(c), owner' = owner, photos' = photos, uploads' = uploads
  PROVE  Lost(u)
<1>1. /\ photos[u] = 0 /\ u \notin DOMAIN uploads /\ TypeOK
      /\ \A d \in Call : Holds(d, u) => d = c
  BY DEF Ownership, OneOwner
<1>2. owner[u] # Nobody
  BY <1>1 DEF Ownership, FreshIdsUntouched, Holds, At
<1>3. ASSUME NEW d \in Call PROVE ~Holds(d, u)'
  BY <1>1, <1>3 DEF Return, TypeOK, Idle, Holds, At, Pc, Id
<1>4. ~Sealing(u)' /\ ~Starting(u)'
  BY <1>2, <1>3 DEF Sealing, Starting, Holds, At
<1>5. Sealing(u)
  BY <1>1 DEF Sealing
<1>6. Stage(u) = "sealed" /\ Stage(u)' = "gone" /\ Content(u) = {} /\ Content(u)' = {}
  BY <1>1, <1>4, <1>5, StageIs, StageBecomes
<1> QED BY <1>1, <1>6 DEF Lost, Accepted

LEMMA LifecycleSession ==
  ASSUME Ownership, TypeOK', SessionStep
  PROVE  Lifecycle!Next
<1>1. TypeOK /\ UNCHANGED <<owner, uploads, tmp, call, evicting, media, photos, sent, due, stranded>>
  BY DEF Ownership, SessionStep, SignIn, SignOut
<1>2. ASSUME NEW u \in Upload PROVE Kept(u)
  BY <1>1 DEF Kept, Stage, Accepted, Content, Holds, At, Pc, Id
<1> QED BY <1>2, LifecycleLoses

\* os.Create has made the temp file: the id is taken, the upload not open yet.
LEMMA LifecycleInitCreate ==
  ASSUME Ownership, TypeOK', NEW c \in Call, NEW p \in User, NEW u \in Upload, InitCreate(c, p, u)
  PROVE  Lifecycle!Next
<1>1. /\ TypeOK /\ Pc(c) = "idle" /\ owner[u] = Nobody /\ photos' = photos /\ uploads' = uploads
      /\ due' = due /\ media' = media /\ At(c, u, {"created"})' /\ p # Nobody
      /\ owner' = [owner EXCEPT ![u] = p]
      /\ \A d \in Call \ {c} : call'[d] = call[d]
  BY NobodyAssumption DEF Ownership, InitCreate, Begin, TypeOK, At, Pc, Id
<1>2. photos[u] = 0 /\ u \notin DOMAIN uploads /\ \A d \in Call : ~Holds(d, u)
  BY <1>1 DEF Ownership, FreshIdsUntouched, Holds, At
<1>3. ASSUME NEW v \in Upload \ {u} PROVE Kept(v)
  <2>1. ~Holds(c, v) /\ ~Holds(c, v)'
    BY <1>1 DEF Holds, At
  <2>2. owner'[v] = owner[v]
    BY <1>1 DEF TypeOK
  <2> QED BY <1>1, <2>1, <2>2, BesideKept
<1>4. Kept(u)
  <2>1. ASSUME NEW d \in Call PROVE ~(Holds(d, u)' /\ Pc(d)' # "created")
    BY <1>1, <1>2 DEF Holds, At, Pc, Id
  <2>2. ~Sealing(u) /\ Starting(u) /\ ~Sealing(u)' /\ Starting(u)'
    BY <1>1, <1>2, <2>1 DEF Sealing, Starting
  <2>3. Stage(u) = "new" /\ Stage(u)' = "new" /\ Content(u) = {} /\ Content(u)' = {}
    BY <1>1, <1>2, <2>2, StageIs, StageBecomes
  <2> QED BY <1>1, <1>2, <2>3 DEF Kept, Accepted
<1> QED BY <1>3, <1>4, LifecycleLoses

LEMMA LifecycleInitRegister ==
  ASSUME Ownership, TypeOK', NEW c \in Call, InitRegister(c)
  PROVE  Lifecycle!Next
<1> PICK u : u = Id(c)
  OBVIOUS
<1>1. /\ TypeOK /\ u \in Upload /\ At(c, u, {"created"}) /\ owner' = owner /\ photos' = photos
      /\ uploads' = With(uploads, u, [received |-> {}, age |-> 0]) /\ due' = due /\ media' = media
      /\ Pc(c)' = "idle" /\ \A d \in Call \ {c} : call'[d] = call[d]
  BY BusyIsHandler DEF Ownership, InitRegister, Return, TypeOK, At, Pc, Id, Idle, Handler
<1>2. /\ photos[u] = 0 /\ u \notin DOMAIN uploads
      /\ \A d \in Call : Holds(d, u) => d = c
  BY <1>1 DEF Ownership, OneOwner, Holds, At
<1>3. ASSUME NEW v \in Upload \ {u} PROVE Kept(v)
  <2>1. ~Holds(c, v) /\ ~Holds(c, v)'
    BY <1>1 DEF Holds, At
  <2>2. (v \in DOMAIN uploads') = (v \in DOMAIN uploads) /\ (v \in DOMAIN uploads => uploads'[v] = uploads[v])
    BY <1>1 DEF With
  <2> QED BY <1>1, <2>1, <2>2, BesideKept
<1>4. ~Sealing(u) /\ Starting(u)
  BY <1>1, <1>2 DEF Sealing, Starting, At
<1>5. u \in DOMAIN uploads' /\ uploads'[u].received = {}
  BY <1>1 DEF With
<1>6. Stage(u) = "new" /\ Stage(u)' = "open" /\ Content(u) = {} /\ Content(u)' = {}
  BY <1>1, <1>2, <1>4, <1>5, StageIs, StageBecomes
<1>7. Accepted(u) = {} /\ Accepted(u)' = {}
  BY <1>2, <1>5, <1>6 DEF Accepted
<1> QED BY <1>1, <1>3, <1>6, <1>7, LifecycleOpens

\* A chunk is acknowledged while its upload is in the table, or after that with
\* no effect; nothing else in its handler shows.
LEMMA LifecycleChunk ==
  ASSUME Ownership, TypeOK', NEW c \in Call,
         \/ \E p \in User, u \in Upload, k \in Chunk : ChunkLookup(c, p, u, k)
         \/ ChunkStep(c)
  PROVE  Lifecycle!Next
<1>1. /\ TypeOK /\ owner' = owner /\ photos' = photos /\ due' = due /\ media' = media
      /\ DOMAIN uploads' = DOMAIN uploads
      /\ \A d \in Call \ {c} : call'[d] = call[d]
      /\ \A u \in Upload : ~Holds(c, u)
  BY DEF Ownership, TypeOK, ChunkLookup, ChunkStep, ChunkOpen, ChunkRefused, ChunkCopy, ChunkAborted,
         ChunkCount, Begin, Goto, Return, Holds, At, Pc
<1>2. \A u \in Upload : ~Holds(c, u)'
  <2>1. Pc(c)' \in {"idle", "found", "copying"}
    <3> USE <1>1 DEF TypeOK, Pc
    <3>1. ASSUME NEW p \in User, NEW u \in Upload, NEW k \in Chunk, ChunkLookup(c, p, u, k)
          PROVE  Pc(c)' = "found"
      BY <3>1 DEF ChunkLookup, Begin
    <3>2. ChunkOpen(c) \/ ChunkCopy(c) => Pc(c)' = "copying"
      <4>1. Pc(c) # "idle" => call[c] \in Handler
        BY BusyIsHandler
      <4>2. ChunkOpen(c) => Pc(c)' = "copying"
        BY <4>1 DEF ChunkOpen, Goto, Handler
      <4>3. ChunkCopy(c) => Pc(c)' = "copying"
        BY <4>1 DEF ChunkCopy, Handler
      <4> QED BY <4>2, <4>3
    <3>3. ChunkRefused(c) \/ ChunkAborted(c) \/ ChunkCount(c) => Pc(c)' = "idle"
      BY DEF ChunkRefused, ChunkAborted, ChunkCount, Return, Idle
    <3> QED BY <3>1, <3>2, <3>3 DEF ChunkStep
  <2> QED BY <2>1 DEF Holds, At
<1>3. ASSUME NEW v \in Upload, v \in DOMAIN uploads => uploads'[v].received = uploads[v].received
      PROVE  Kept(v)
  BY <1>1, <1>2, <1>3, BesideKept
<1>4. CASE ChunkCount(c) /\ Id(c) \in DOMAIN uploads
  <2> PICK u : u = Id(c)
    OBVIOUS
  <2>1. /\ u \in Upload /\ u \in DOMAIN uploads /\ u \in DOMAIN uploads' /\ call[c].chunk \in Chunk
        /\ uploads'[u].received = uploads[u].received \union {call[c].chunk}
    BY <1>1, <1>4 DEF ChunkCount, TypeOK, Entry
  <2>2. ASSUME NEW v \in Upload \ {u} PROVE Kept(v)
    <3>1. v \in DOMAIN uploads => uploads'[v] = uploads[v]
      BY <1>1, <1>4 DEF ChunkCount, TypeOK
    <3> QED BY <1>3, <3>1
  <2>3. photos[u] = 0
    BY <2>1 DEF Ownership, OneOwner
  <2>4. Stage(u) = "open" /\ Stage(u)' = "open" /\ Content(u) = {} /\ Content(u)' = {}
    BY <1>1, <2>1, <2>3, StageIs, StageBecomes
  <2>5. Accepted(u)' = Accepted(u) \union {call[c].chunk}
    BY <2>1 DEF Accepted
  <2> QED BY <2>1, <2>2, <2>4, <2>5, LifecycleAccepts
<1>5. CASE ~(ChunkCount(c) /\ Id(c) \in DOMAIN uploads)
  <2>1. uploads' = uploads
    BY <1>5 DEF ChunkLookup, ChunkStep, ChunkOpen, ChunkRefused, ChunkCopy, ChunkAborted, ChunkCount
  <2> QED BY <1>3, <2>1, LifecycleLoses
<1> QED BY <1>4, <1>5

\* Taking the upload out of the table seals it: what is counted by then stays due.
LEMMA LifecycleTake ==
  ASSUME Ownership, TypeOK', NEW c \in Call, NEW p \in User, NEW u \in Upload, CompleteTake(c, p, u)
  PROVE  Lifecycle!Next
<1>1. /\ TypeOK /\ Pc(c) = "idle" /\ u \in DOMAIN uploads /\ owner' = owner /\ photos' = photos
      /\ media' = media /\ At(c, u, {"taken"})' /\ due' = [due EXCEPT ![u] = uploads[u].received]
      /\ uploads' = Without(uploads, {u})
      /\ \A d \in Call \ {c} : call'[d] = call[d]
  BY DEF Ownership, CompleteTake, Begin, TypeOK, At, Pc, Id
<1>2. ASSUME NEW v \in Upload \ {u} PROVE Kept(v)
  <2>1. ~Holds(c, v) /\ ~Holds(c, v)'
    BY <1>1 DEF Holds, At
  <2>2. /\ (v \in DOMAIN uploads') = (v \in DOMAIN uploads) /\ due'[v] = due[v]
        /\ v \in DOMAIN uploads => uploads'[v] = uploads[v]
    BY <1>1 DEF Without, TypeOK
  <2> QED BY <1>1, <2>1, <2>2, BesideKept
<1>3. photos[u] = 0
  BY <1>1 DEF Ownership, OneOwner
<1>4. Sealing(u)'
  BY <1>1 DEF Sealing, Holds, At
<1>5. u \notin DOMAIN uploads' /\ due'[u] = uploads[u].received
  BY <1>1 DEF Without, TypeOK
<1>6. Stage(u) = "open" /\ Stage(u)' = "sealed" /\ Content(u) = {} /\ Content(u)' = {}
  BY <1>1, <1>3, <1>4, <1>5, StageIs, StageBecomes
<1>7. Accepted(u)' = Accepted(u)
  BY <1>1, <1>5, <1>6 DEF Accepted
<1> QED BY <1>2, <1>6, <1>7, LifecycleSeals

\* Between the two nothing shows but the upload given up, or its photo.
LEMMA LifecycleComplete ==
  ASSUME Ownership, CountedBlocksKept, TypeOK', NEW c \in Call, CompleteStep(c)
  PROVE  Lifecycle!Next
<1> PICK u : u = Id(c)
  OBVIOUS
<1>1. /\ TypeOK /\ owner' = owner /\ uploads' = uploads /\ due' = due
      /\ Pc(c) \in {"taken", "read", "unread", "saving", "writing", "saved"}
      /\ \A d \in Call \ {c} : call'[d] = call[d]
      /\ call[c] \in Handler
  <2>1. TypeOK /\ Pc(c) \in {"taken", "read", "unread", "saving", "writing", "saved"}
    BY DEF Ownership, CompleteStep, CompleteRefused, CompleteRead, CompleteRemoveTmp, CompleteCreate,
           CompleteWrite, CompleteWriteFails, CompleteInsert, CompleteInsertFails
  <2>2. owner' = owner /\ uploads' = uploads /\ due' = due
    BY DEF CompleteStep, CompleteRefused, CompleteRead, CompleteRemoveTmp, CompleteCreate,
           CompleteWrite, CompleteWriteFails, CompleteInsert, CompleteInsertFails
  <2>3. \A d \in Call \ {c} : call'[d] = call[d]
    BY <2>1 DEF TypeOK, CompleteStep, CompleteRefused, CompleteRead, CompleteRemoveTmp, CompleteCreate,
           CompleteWrite, CompleteWriteFails, CompleteInsert, CompleteInsertFails, Goto, Return
  <2> QED BY <2>1, <2>2, <2>3, BusyIsHandler
<1>m. \/ Return(c) /\ Pc(c)' = "idle"
      \/ /\ At(c, u, {"taken", "read", "unread", "saving", "writing"})
         /\ At(c, u, {"read", "unread", "saving", "writing", "saved"})'
         /\ photos' = photos
  <2>1. Return(c) => Pc(c)' = "idle"
    BY <1>1 DEF Return, TypeOK, Pc, Idle
  <2>2. ASSUME NEW l \in {"read", "unread", "saving", "writing", "saved"},
               \/ Goto(c, l)
               \/ call' = [call EXCEPT ![c] = [call[c] EXCEPT !.pc = l, !.data = tmp[Id(c)]]]
        PROVE  At(c, u, {"read", "unread", "saving", "writing", "saved"})'
    <3>1. call \in [Call -> Handler \union {Idle}]
      BY <1>1 DEF TypeOK
    <3>2. call'[c].pc = l /\ call'[c].upload = call[c].upload
      BY <1>1, <2>2, <3>1, ZenonT(40) DEF Goto, Handler
    <3> QED BY <2>2, <3>2 DEF At, Pc, Id
  <2> DEFINE Moves(l) == \/ Goto(c, l)
                         \/ call' = [call EXCEPT ![c] = [call[c] EXCEPT !.pc = l, !.data = tmp[Id(c)]]]
             At5 == Pc(c) \in {"taken", "read", "unread", "saving", "writing"} /\ photos' = photos
  <2>3. CASE CompleteRefused(c) \/ CompleteWriteFails(c) \/ CompleteInsert(c) \/ CompleteInsertFails(c)
    BY <2>1, <2>3 DEF CompleteRefused, CompleteWriteFails, CompleteInsert, CompleteInsertFails
  <2>4. CompleteRead(c) => At5 /\ (Moves("read") \/ Moves("unread"))
    BY DEF CompleteRead
  <2>5. CompleteRemoveTmp(c) => Return(c) \/ (At5 /\ Moves("saving"))
    BY DEF CompleteRemoveTmp
  <2>6. CompleteCreate(c) => At5 /\ Moves("writing")
    BY DEF CompleteCreate
  <2>7. CompleteWrite(c) => At5 /\ Moves("saved")
    BY DEF CompleteWrite
  <2>8. ASSUME NEW l \in {"read", "unread", "saving", "writing", "saved"}, At5, Moves(l)
        PROVE  /\ At(c, u, {"taken", "read", "unread", "saving", "writing"})
               /\ At(c, u, {"read", "unread", "saving", "writing", "saved"})'
               /\ photos' = photos
    BY <2>2, <2>8 DEF At
  <2> HIDE DEF Moves, At5
  <2> QED BY <2>1, <2>3, <2>4, <2>5, <2>6, <2>7, <2>8 DEF CompleteStep
<1>2. /\ u \in Upload /\ Holds(c, u) /\ photos[u] = 0 /\ u \notin DOMAIN uploads /\ Pc(c) # "created"
      /\ \A v \in Upload \ {u} : ~Holds(c, v) /\ ~Holds(c, v)'
  <2>1. u \in Upload /\ Holds(c, u)
    BY <1>1 DEF Handler, Holds, At, Id
  <2>2. \A v \in Upload \ {u} : ~Holds(c, v) /\ ~Holds(c, v)'
    BY <1>m DEF Holds, At
  <2> QED BY <1>1, <2>1, <2>2 DEF Ownership, OneOwner
<1>3. ASSUME NEW v \in Upload \ {u} PROVE Kept(v)
  <2>1. photos'[v] = photos[v] /\ (photos[v] # 0 => media'[v] = media[v])
    <3>1. photos[v] # 0 => v \in DOMAIN media
      BY <1>1 DEF Ownership, OnePhotoPerUpload, TypeOK
    <3> QED BY <1>1, <3>1 DEF TypeOK, CompleteStep, CompleteRefused, CompleteRead, CompleteRemoveTmp,
          CompleteCreate, CompleteWrite, CompleteWriteFails, CompleteInsert, CompleteInsertFails, With, Without
  <2> QED BY <1>1, <1>2, <2>1, BesideKept
<1>4. CASE Return(c) /\ photos' = photos
  <2>1. Lost(u)
    BY <1>1, <1>2, <1>4, HolderLoses
  <2> QED BY <1>3, <2>1, LifecycleLoses
<1>5. CASE ~Return(c)
  <2>1. /\ At(c, u, {"taken", "read", "unread", "saving", "writing"})
        /\ At(c, u, {"read", "unread", "saving", "writing", "saved"})'
        /\ photos' = photos
    BY <1>m, <1>5
  <2>2. Kept(u)
    BY <1>1, <1>2, <2>1, HolderKeeps
  <2> QED BY <1>3, <2>2, LifecycleLoses
<1>6. CASE CompleteInsert(c)
  <2>1. /\ Pc(c) = "saved" /\ photos'[u] = 1 /\ media' = media /\ due' = due
    BY <1>1, <1>2, <1>6 DEF CompleteInsert, TypeOK
  <2>2. AllBlocks(due[u]) \subseteq Range(media[u])
    BY <2>1 DEF CountedBlocksKept, HandlerBlocksKept
  <2>3. Sealing(u)
    BY <1>2 DEF Sealing
  <2>4. Stage(u) = "sealed" /\ Stage(u)' = "photo"
    BY <1>1, <1>2, <2>1, <2>3, StageIs, StageBecomes
  <2>5. Accepted(u) = due[u] /\ Accepted(u)' = due[u]
    BY <1>1, <1>2, <2>4 DEF Accepted
  <2>6. Content(u)' = {k \in Chunk : {k} \X (1..Blocks) \subseteq Range(media[u])}
    BY <2>1 DEF Content
  <2>7. due[u] \subseteq Content(u)'
    BY <1>1, <1>2, <2>2, <2>6 DEF AllBlocks, TypeOK
  <2> QED BY <1>2, <1>3, <2>4, <2>5, <2>6, <2>7, LifecyclePublishes
<1>7. CompleteInsert(c) \/ photos' = photos
  BY DEF CompleteStep, CompleteRefused, CompleteRead, CompleteRemoveTmp, CompleteCreate,
         CompleteWrite, CompleteWriteFails, CompleteInsertFails
<1> QED BY <1>4, <1>5, <1>6, <1>7

\* The eviction gives up its victims, a restart all that has not become a photo.
LEMMA LifecycleCleanup ==
  ASSUME Ownership, TypeOK', CleanupStep
  PROVE  Lifecycle!Next
<1>0. TypeOK
  BY DEF Ownership
<1>1. ASSUME call' = call, owner' = owner, photos' = photos, media' = media, due' = due,
             NEW v \in Upload, (v \in DOMAIN uploads') = (v \in DOMAIN uploads),
             v \in DOMAIN uploads => uploads'[v].received = uploads[v].received
      PROVE  Kept(v)
  <2>1. Sealing(v)' = Sealing(v) /\ Starting(v)' = Starting(v)
    BY <1>1 DEF Sealing, Starting, Holds, At, Pc, Id
  <2>2. Stage(v)' = Stage(v)
    BY <1>0, <1>1, <2>1, StageIs, StageBecomes
  <2> QED BY <1>1, <2>2 DEF Kept, Accepted, Content
<1>2. CASE (\E u \in Upload : EvictRemove(u)) \/ Tick
  <2>1. ASSUME NEW v \in Upload PROVE Kept(v)
    BY <1>0, <1>1, <1>2 DEF EvictRemove, Tick, TypeOK, Entry
  <2> QED BY <2>1, LifecycleLoses
<1>3. CASE EvictScan
  <2> DEFINE victims == {u \in DOMAIN uploads : uploads[u].age > TTL}
  <2>1. /\ call' = call /\ owner' = owner /\ photos' = photos /\ media' = media /\ due' = due
        /\ uploads' = Without(uploads, victims)
    BY <1>3 DEF EvictScan
  <2>2. ASSUME NEW v \in Upload \ victims PROVE Kept(v)
    BY <1>1, <2>1 DEF Without
  <2>3. ASSUME NEW v \in victims PROVE v \in Upload /\ Lost(v)
    <3>1. v \in Upload /\ v \in DOMAIN uploads /\ v \notin DOMAIN uploads' /\ photos[v] = 0 /\ owner[v] # Nobody
      BY <1>0, <2>1 DEF Without, TypeOK, Ownership, OneOwner, FreshIdsUntouched
    <3>2. \A d \in Call : ~Holds(d, v)
      BY <3>1 DEF Ownership, OneOwner
    <3>3. ~Sealing(v)' /\ ~Starting(v)'
      BY <2>1, <3>1, <3>2 DEF Sealing, Starting, Holds, At, Pc, Id
    <3>4. Stage(v) = "open" /\ Stage(v)' = "gone" /\ Content(v) = {} /\ Content(v)' = {}
      BY <1>0, <2>1, <3>1, <3>3, StageIs, StageBecomes
    <3> QED BY <3>1, <3>4 DEF Lost, Accepted
  <2> QED BY <2>2, <2>3, LifecycleLoses
<1>4. CASE Restart
  <2>1. /\ owner' = owner /\ photos' = photos /\ media' = media /\ due' = due
        /\ DOMAIN uploads' = {} /\ \A d \in Call : Pc(d)' = "idle"
    BY <1>4 DEF Restart, Pc, Idle
  <2>2. ASSUME NEW v \in Upload PROVE ~Sealing(v)' /\ (Starting(v)' <=> owner[v] = Nobody)
    BY <2>1 DEF Sealing, Starting, Holds, At
  <2>3. ASSUME NEW v \in Upload, photos[v] # 0 PROVE Kept(v)
    <3>1. v \notin DOMAIN uploads
      BY <1>0, <2>3 DEF Ownership, OneOwner, TypeOK
    <3>2. Stage(v) = "photo" /\ Stage(v)' = "photo"
      BY <1>0, <2>1, <2>3, StageIs, StageBecomes
    <3> QED BY <2>1, <3>1, <3>2 DEF Kept, Accepted, Content
  <2>4. ASSUME NEW v \in Upload, photos[v] = 0, owner[v] = Nobody PROVE Kept(v)
    <3>1. v \notin DOMAIN uploads /\ ~Sealing(v) /\ Starting(v)
      BY <2>4 DEF Ownership, FreshIdsUntouched, Sealing, Starting, Holds, At
    <3>2. Stage(v) = "new" /\ Stage(v)' = "new" /\ Content(v) = {} /\ Content(v)' = {}
      BY <1>0, <2>1, <2>2, <2>4, <3>1, StageIs, StageBecomes
    <3> QED BY <2>1, <3>1, <3>2 DEF Kept, Accepted
  <2>5. ASSUME NEW v \in Upload, photos[v] = 0, owner[v] # Nobody PROVE Kept(v) \/ Lost(v)
    <3>1. Stage(v)' = "gone" /\ Content(v) = {} /\ Content(v)' = {}
      BY <1>0, <2>1, <2>2, <2>5, StageIs, StageBecomes
    <3>2. Accepted(v)' = {}
      BY <2>1, <3>1 DEF Accepted
    <3>3. Stage(v) \in {"new", "open", "sealed"} \/ (Stage(v) = "gone" /\ v \notin DOMAIN uploads)
      BY <1>0, <2>5, StageIs
    <3> QED BY <3>1, <3>2, <3>3 DEF Kept, Lost, Accepted
  <2> QED BY <2>3, <2>4, <2>5, LifecycleLoses
<1> QED BY <1>2, <1>3, <1>4 DEF CleanupStep

LEMMA LifecycleStep ==
  Ownership /\ CountedBlocksKept /\ TypeOK' /\ [Next]_vars => [Lifecycle!Next]_Lifecycle!vars
<1> SUFFICES ASSUME Ownership, CountedBlocksKept, TypeOK', [Next]_vars
             PROVE  [Lifecycle!Next]_Lifecycle!vars
  OBVIOUS
<1>1. ASSUME NEW c \in Call, Arrive(c) PROVE Lifecycle!Next
  BY <1>1, LifecycleInitCreate, LifecycleChunk, LifecycleTake DEF Arrive
<1>2. ASSUME NEW c \in Call, InitStep(c) \/ ChunkStep(c) \/ CompleteStep(c) PROVE Lifecycle!Next
  BY <1>2, LifecycleInitRegister, LifecycleChunk, LifecycleComplete DEF InitStep
<1>3. CASE SessionStep
  BY <1>3, LifecycleSession
<1>4. CASE CleanupStep
  BY <1>4, LifecycleCleanup
<1>5. CASE UNCHANGED vars
  BY <1>5 DEF vars, Lifecycle!vars, Stage, Accepted, Content, Holds, At, Pc, Id
<1> QED BY <1>1, <1>2, <1>3, <1>4, <1>5 DEF Next, SessionStep, CleanupStep

\* Whatever requests, evictions, failures and restarts come together, an upload is
\* opened once, sealed once, and becomes one photo with every chunk that was
\* acknowledged before the seal, or is given up for good (server.go:1756-2066).
THEOREM UploadsFollowTheirLife == Spec => ImplementsLifecycle
<1>1. Init => Lifecycle!Init
  BY LifecycleInit
<1>2. Ownership /\ CountedBlocksKept /\ TypeOK' /\ [Next]_vars => [Lifecycle!Next]_Lifecycle!vars
  BY LifecycleStep
<1> QED BY <1>1, <1>2, TypeCorrect, OwnershipInvariant, ContentInvariant, PTL
        DEF Spec, ImplementsLifecycle, Lifecycle!Spec

================================================================================
