\* One upload of two chunks, each appended by two writes; two concurrent requests
\* of two users, every fault, fair scheduling.
SPECIFICATION FairSpec
CONSTANTS
  User = {p, q}
  Upload = {a}
  Call = {c1, c2}
  Chunks = 2
  Blocks = 2
  TTL = 1
  Nobody = Nobody
  Faults = {"restart", "io"}
INVARIANTS
  OneOwner
  TempFilesTracked
  MediaFilesTracked
  OnePhotoPerUpload
  CountedChunksReachPhoto
PROPERTIES
  ImplementsLifecycle
  TempFilesReclaimed
