\* The eleven migration files of the repository, two browsers, two sessions, a
\* change of Google's keys, and one death of the process between two times it serves.
SPECIFICATION FairSpec
CONSTANTS
  Script <- Files
  Mishaps = 1
  Browser = {b1, b2}
  User = {u}
  Token = {k1, k2}
  Null = Null
  Life = 1
  MaxDay = 1
  MaxKey = 1
INVARIANTS
  TypeOK
  ServedSchemaIsComplete
  FilesInOrder
  PublishedKeyIsFound
PROPERTIES
  StartsUnlessHalfway
  
  SignInsEnd
CHECK_DEADLOCK FALSE
