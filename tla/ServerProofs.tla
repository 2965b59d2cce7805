---------------------------- MODULE ServerProofs ----------------------------
(***************************************************************************)
(* Theorems about Server, for any migration files, any number of browsers,  *)
(* users, days and keys.  The schema and the sign-ins share no variable, so *)
(* each has an inductive invariant of its own.                              *)
(***************************************************************************)
EXTENDS Server, WellFoundedInduction, TLAPS

------------------------------------------------------------------------------
(* The schema.                                                               *)

LEMMA LeastOf ==
  ASSUME NEW S \in SUBSET Nat, S # {}
  PROVE  \E k \in S : \A l \in S : k <= l
<1> DEFINE Less == {ss \in Nat \X Nat : ss[1] < ss[2]}
<1>1. IsWellFoundedOn(Less, Nat)
  BY NatLessThanWellFounded DEF OpToRel
<1> HIDE DEF Less
<1>2. PICK k \in S : \A l \in S : ~(<<l, k>> \in Less)
  BY <1>1, WFMin, Zenon
<1>3. ASSUME NEW l \in S PROVE k <= l
  <2>1. l \in Nat /\ k \in Nat /\ ~(<<l, k>> \in Less)
    BY <1>2
  <2>2. ~(l < k)
    BY <2>1 DEF Less
  <2> QED BY <2>1, <2>2
<1> QED BY <1>3

\* What RunMigrations does next: it serves when every file has been executed,
\* and otherwise takes the first one that has not.
LEMMA FollowingCases ==
  ASSUME NEW n \in Nat, NEW executed, release \in Nat
  PROVE  \/ /\ Following(n, executed) = [pc |-> "serving"]
            /\ \A k \in n + 1 .. release : k \in executed
         \/ \E f \in n + 1 .. release :
              /\ Following(n, executed) = [pc |-> "migrating", executed |-> executed, file |-> f, place |-> 1]
              /\ f \notin executed
              /\ \A k \in n + 1 .. f - 1 : k \in executed
<1> DEFINE open == {k \in n + 1 .. release : k \notin executed}
<1> DEFINE f == CHOOSE k \in open : \A l \in open : k <= l
<1>1. CASE open = {}
  BY <1>1 DEF Following
<1>2. CASE open # {}
  <2>1. open \in SUBSET Nat
    OBVIOUS
  <2>2. \E k \in open : \A l \in open : k <= l
    <3> HIDE DEF open
    <3> QED BY <1>2, <2>1, LeastOf
  <2>3. f \in open /\ \A l \in open : f <= l
    <3> HIDE DEF open
    <3> QED BY <2>2
  <2>4. \A k \in n + 1 .. f - 1 : k \in executed
    <3> SUFFICES ASSUME NEW k \in n + 1 .. f - 1, k \notin executed PROVE FALSE
      OBVIOUS
    <3>1. f \in n + 1 .. release
      BY <2>3
    <3> HIDE DEF f
    <3>2. k \in open
      BY <3>1
    <3> QED BY <3>1, <3>2, <2>3
  <2>5. Following(n, executed) = [pc |-> "migrating", executed |-> executed, file |-> f, place |-> 1]
    BY <1>2 DEF Following
  <2> HIDE DEF f
  <2> QED BY <2>3, <2>4, <2>5
<1> QED BY <1>1, <1>2

\* Recorded files are complete, a file begins after those before it are, and
\* the place of the start is not beyond what has been done.
SchemaInv ==
    /\ MigrationsOK
    /\ \A n \in File : schema[n] <= Len(Script[n])
    /\ \A n \in recorded : Complete(n)
    /\ FilesInOrder
    /\ ServedSchemaIsComplete
    /\ Has("migrating") =>
         /\ boot.executed \subseteq recorded
         /\ boot.file \in 1 .. release
         /\ boot.place <= Len(Script[boot.file]) + 1
         /\ boot.place <= schema[boot.file] + 1
         /\ \A k \in 1 .. boot.file - 1 : Complete(k)

LEMMA Files ==
    /\ Len(Script) \in Nat /\ File = 1 .. Len(Script)
    /\ \A n \in File : Len(Script[n]) \in Nat /\ DOMAIN Script[n] = 1 .. Len(Script[n])
<1>1. Script \in Seq(Seq({"create", "alter"}))
  BY ScriptAssumption
<1>2. \A n \in File : Script[n] \in Seq({"create", "alter"})
  BY <1>1 DEF File
<1> QED BY <1>1, <1>2 DEF File

LEMMA SchemaInit == MigrationsInit => SchemaInv
<1> SUFFICES ASSUME MigrationsInit PROVE SchemaInv
  OBVIOUS
<1> USE Files, MishapsAssumption DEF MigrationsInit
<1>1. MigrationsOK
  BY DEF MigrationsOK, Down
<1>2. ~Has("migrating") /\ ~Has("serving")
  BY DEF Has, Down
<1> QED BY <1>1, <1>2 DEF SchemaInv, FilesInOrder, ServedSchemaIsComplete

\* Where Following leads, the invariant holds.
LEMMA SchemaFollowing ==
  ASSUME SchemaInv, NEW n \in 0 .. release, NEW executed \in SUBSET recorded,
         \A k \in 1 .. n : Complete(k)'
         , release' = release, schema' = schema, recorded \subseteq recorded', recorded' \subseteq File
         , \A k \in recorded' : Complete(k)', mishaps' \in 0 .. Mishaps
         , boot' = Following(n, executed)
  PROVE  SchemaInv'
<1> USE Files
<1>0. /\ release \in Nat /\ release \in 0 .. Len(Script) /\ n \in Nat
      /\ schema \in [File -> Nat] /\ recorded \subseteq File
  BY DEF SchemaInv, MigrationsOK
<1>1. CASE /\ Following(n, executed) = [pc |-> "serving"]
           /\ \A k \in n + 1 .. release : k \in executed
  <2>1. ~Has("migrating")'
    BY <1>1 DEF Has
  <2>2. MigrationsOK'
    BY <1>0, <1>1 DEF MigrationsOK, File
  <2>3. ServedSchemaIsComplete'
    <3> SUFFICES ASSUME NEW k \in 1 .. release PROVE Complete(k)'
      BY DEF ServedSchemaIsComplete
    <3>1. k \in 1 .. n \/ k \in n + 1 .. release
      BY <1>0
    <3> QED BY <3>1, <1>1
  <2> QED BY <2>1, <2>2, <2>3 DEF SchemaInv, FilesInOrder, Complete
<1>2. ASSUME NEW f \in n + 1 .. release,
             Following(n, executed) = [pc |-> "migrating", executed |-> executed, file |-> f, place |-> 1],
             \A k \in n + 1 .. f - 1 : k \in executed
      PROVE  SchemaInv'
  <2>0. f \in File /\ f \in 1 .. release
    BY <1>0
  <2>1. MigrationsOK'
    BY <1>0, <1>2, <2>0 DEF MigrationsOK, File
  <2>2. ~Has("serving")'
    BY <1>2 DEF Has
  <2>3. ASSUME NEW k \in 1 .. f - 1 PROVE Complete(k)'
    <3>1. k \in 1 .. n \/ k \in n + 1 .. f - 1
      BY <1>0, <2>0
    <3> QED BY <3>1, <1>2
  <2>4. /\ boot'.executed = executed /\ boot'.file = f /\ boot'.place = 1
    BY <1>2
  <2>5. schema[f] \in Nat /\ Len(Script[f]) \in Nat
    BY <1>0, <2>0
  <2> QED BY <2>0, <2>1, <2>2, <2>3, <2>4, <2>5 DEF SchemaInv, FilesInOrder, ServedSchemaIsComplete, Complete
<1> QED BY <1>0, <1>1, <1>2, FollowingCases

LEMMA SchemaStep == SchemaInv /\ [MigrationsNext]_migrationVars => SchemaInv'
<1> SUFFICES ASSUME SchemaInv, [MigrationsNext]_migrationVars PROVE SchemaInv'
  OBVIOUS
<1> USE Files
<1>0. /\ release \in Nat /\ release \in 0 .. Len(Script)
      /\ schema \in [File -> Nat] /\ recorded \in SUBSET File /\ mishaps \in 0 .. Mishaps
      /\ MigrationsOK
  BY DEF SchemaInv, MigrationsOK
<1>D. ASSUME release' \in 0 .. Len(Script), UNCHANGED <<schema, recorded>>, boot' = Down,
             mishaps' \in 0 .. Mishaps
      PROVE  SchemaInv'
  <2>1. ~Has("migrating")' /\ ~Has("serving")'
    BY <1>D DEF Has, Down
  <2>2. MigrationsOK'
    BY <1>0, <1>D DEF MigrationsOK, Down
  <2> QED BY <1>D, <2>1, <2>2 DEF SchemaInv, FilesInOrder, ServedSchemaIsComplete, Complete
<1>1. CASE StartUp
  <2>1. mishaps' \in 0 .. Mishaps
    BY <1>0, <1>1, MishapsAssumption DEF StartUp
  <2>2. \A k \in recorded' : Complete(k)'
    BY <1>1 DEF StartUp, SchemaInv, Complete
  <2>3. 0 \in 0 .. release /\ \A k \in 1 .. 0 : Complete(k)'
    BY <1>0
  <2>4. /\ release' = release /\ schema' = schema /\ recorded' = recorded
        /\ boot' = Following(0, recorded)
    BY <1>1 DEF StartUp
  <2>5. recorded \in SUBSET recorded /\ recorded \subseteq recorded' /\ recorded' \subseteq File
    BY <1>0, <2>4
  <2> QED BY <2>1, <2>2, <2>3, <2>4, <2>5, SchemaFollowing
<1>M. ASSUME Has("migrating")
      PROVE  /\ boot \in [pc : {"migrating"}, executed : SUBSET File, file : File, place : Nat \ {0}]
             /\ boot.executed \subseteq recorded
             /\ boot.file \in 1 .. release /\ boot.file \in File
             /\ boot.place \in Nat /\ boot.place >= 1
             /\ boot.place <= Len(Script[boot.file]) + 1
             /\ boot.place <= schema[boot.file] + 1
             /\ schema[boot.file] <= Len(Script[boot.file])
             /\ schema[boot.file] \in Nat /\ Len(Script[boot.file]) \in Nat
             /\ \A k \in 1 .. boot.file - 1 : Complete(k)
  <2>1. boot \in [pc : {"migrating"}, executed : SUBSET File, file : File, place : Nat \ {0}]
    BY <1>M, <1>0 DEF Has, MigrationsOK, Down
  <2> QED BY <1>M, <1>0, <2>1 DEF SchemaInv
<1>2. CASE Execute
  <2>0. Has("migrating") /\ boot.place \in 1 .. Len(Script[boot.file])
    BY <1>2, <1>M DEF Execute
  <2>1. CASE Repeats
    BY <1>2, <2>1, <1>0, <1>D DEF Execute
  <2>2. CASE ~Repeats
    <3>1. /\ schema' = Done /\ boot' = [boot EXCEPT !.place = @ + 1]
          /\ UNCHANGED <<release, recorded, mishaps>>
      BY <1>2, <2>2 DEF Execute
    <3>2. /\ boot'.pc = "migrating" /\ boot'.executed = boot.executed /\ boot'.file = boot.file
          /\ boot'.place = boot.place + 1
          /\ boot' \in [pc : {"migrating"}, executed : SUBSET File, file : File, place : Nat \ {0}]
      BY <3>1, <1>M, <2>0, SMTT(20)
    <3>3. /\ schema' \in [File -> Nat]
          /\ \A n \in File : n # boot.file => schema'[n] = schema[n]
          /\ schema'[boot.file] = IF boot.place <= schema[boot.file] THEN schema[boot.file] ELSE boot.place
      BY <3>1, <1>0, <1>M, <2>0 DEF Done
    <3>4. /\ schema'[boot.file] >= boot.place /\ schema'[boot.file] >= schema[boot.file]
          /\ schema'[boot.file] <= Len(Script[boot.file])
      BY <3>3, <2>0, <2>0, <1>M
    <3>5. \A n \in File : schema'[n] <= Len(Script[n])
      BY <3>3, <3>4, <2>0, <1>M DEF SchemaInv
    <3>6. \A n \in File : Complete(n) => Complete(n)'
      <4> SUFFICES ASSUME NEW n \in File, schema[n] = Len(Script[n]) PROVE schema'[n] = Len(Script[n])
        BY DEF Complete
      <4> QED BY <3>3, <3>4, <2>0, <1>M
    <3>7. FilesInOrder'
      <4> SUFFICES ASSUME NEW n \in File, schema'[n] > 0, NEW k \in 1 .. n - 1 PROVE Complete(k)'
        BY DEF FilesInOrder
      <4>1. k \in File
        BY <1>0
      <4>2. CASE n = boot.file
        BY <4>1, <4>2, <3>6, <2>0, <1>M
      <4>3. CASE n # boot.file
        BY <4>1, <4>3, <3>3, <3>6 DEF SchemaInv, FilesInOrder
      <4> QED BY <4>2, <4>3
    <3>8. MigrationsOK'
      BY <1>0, <3>1, <3>2, <3>3 DEF MigrationsOK
    <3>9. ~Has("serving")' /\ Has("migrating")'
      BY <3>2 DEF Has
    <3>10. \A k \in 1 .. boot.file - 1 : k \in File /\ Complete(k)'
      BY <3>6, <2>0, <1>M, <1>0
    <3>11. \A n \in recorded' : Complete(n)'
      BY <3>1, <3>6, <1>0 DEF SchemaInv
    <3>12. boot'.place <= Len(Script[boot.file]) + 1 /\ boot'.place <= schema'[boot.file] + 1
      BY <3>2, <3>3, <3>4, <2>0, <1>M
    <3> QED BY <3>1, <3>2, <3>5, <3>7, <3>8, <3>9, <3>10, <3>11, <3>12, <2>0, <1>M DEF SchemaInv, ServedSchemaIsComplete
  <2> QED BY <2>1, <2>2
<1>3. CASE Record
  <2>0. /\ Has("migrating") /\ boot.place \notin 1 .. Len(Script[boot.file])
        /\ UNCHANGED <<release, schema>> /\ recorded' = recorded \union {boot.file}
        /\ boot' = Following(boot.file, boot.executed)
    BY <1>3, <1>M DEF Record
  <2>1. Complete(boot.file)
    BY <2>0, <1>M DEF Complete
  <2>2. mishaps' \in 0 .. Mishaps
    BY <1>0, <1>3, MishapsAssumption DEF Record
  <2>3. \A k \in recorded' : Complete(k)'
    BY <2>0, <2>1 DEF SchemaInv, Complete
  <2>4. \A k \in 1 .. boot.file : Complete(k)'
    <3> SUFFICES ASSUME NEW k \in 1 .. boot.file PROVE Complete(k)
      BY <2>0 DEF Complete
    <3>1. k = boot.file \/ k \in 1 .. boot.file - 1
      BY <2>0, <1>M, <1>0
    <3> QED BY <3>1, <2>0, <2>1, <1>M
  <2>5. boot.file \in 0 .. release /\ boot.executed \in SUBSET recorded /\ recorded' \subseteq File
    <3>1. boot.file \in 1 .. release /\ boot.file \in File /\ boot.executed \subseteq recorded
      BY <2>0, <1>M
    <3>2. boot.file \in 0 .. release
      BY <3>1, <1>0
    <3>3. recorded' \subseteq File
      BY <3>1, <2>0, <1>0
    <3> QED BY <3>1, <3>2, <3>3
  <2> QED BY <2>0, <2>2, <2>3, <2>4, <2>5, SchemaFollowing
<1>4. CASE Die
  BY <1>0, <1>4, <1>D, MishapsAssumption DEF Die
<1>5. CASE Deploy
  BY <1>0, <1>5, <1>D DEF Deploy
<1>6. CASE UNCHANGED migrationVars
  <2>1. Has("migrating")' = Has("migrating") /\ Has("serving")' = Has("serving")
    BY <1>6 DEF migrationVars, Has
  <2> QED BY <1>6, <2>1 DEF migrationVars, SchemaInv, MigrationsOK, FilesInOrder, ServedSchemaIsComplete, Complete
<1> QED BY <1>1, <1>2, <1>3, <1>4, <1>5, <1>6 DEF MigrationsNext

------------------------------------------------------------------------------
(* Google's keys.                                                            *)

\* Keys that Google has published, not before its present ones.
NotAhead(keys) == keys = NoKeys \/ (keys.from <= published.from /\ keys.to <= published.to)

\* A callback that has emptied the cache, or is about to.
Seeking(b) ==
    \/ At(b, "refresh")
    \/ attempt[b].pc \in {"lock", "fetch", "fetched"} /\ attempt[b].again

CallbackInv(b) ==
    /\ attempt[b].pc \in {"fetch", "fetched"} => mutex = b
    /\ attempt[b].pc \in {"lock", "fetch", "fetched", "refresh"} => attempt[b].kid <= published.to
    /\ At(b, "fetched") => NotAhead(attempt[b].keys)
    /\ At(b, "lock") /\ attempt[b].again /\ cache # Null =>
         cache.keys = NoKeys \/ attempt[b].kid <= cache.keys.to
    /\ At(b, "refused") => attempt[b].kid < published.from

\* An answer of Google that somebody holds is not older than the keys of those
\* who seek one: nobody begins to seek while the mutex is held.
AnswersAreRecent ==
    \A b, c \in Browser : At(c, "fetched") /\ Seeking(b) =>
        attempt[c].keys = NoKeys \/ attempt[b].kid <= attempt[c].keys.to

KeysInv ==
    /\ SignInOK
    /\ published.from <= published.to
    /\ cache # Null => NotAhead(cache.keys)
    /\ \A b \in Browser : CallbackInv(b)
    /\ AnswersAreRecent

LEMMA CallbackTypes ==
  ASSUME SignInOK, NEW b \in Browser
  PROVE  /\ attempt[b] \in Attempt
         /\ attempt[b].pc \in {"idle", "exchange", "verified", "lock", "fetch", "refresh", "fetched", "refused"}
         /\ attempt[b].pc \in {"exchange", "verified", "lock", "fetch", "refresh", "fetched"} => attempt[b].user \in User
         /\ attempt[b].pc \in {"lock", "fetch", "refresh", "fetched"} => attempt[b].again \in BOOLEAN
         /\ attempt[b].pc \in {"lock", "fetch", "refresh", "fetched", "refused"} => attempt[b].kid \in Key
         /\ At(b, "fetched") => attempt[b].keys \in Keys \union {NoKeys}
         /\ attempt[b].pc \in {"lock", "fetch", "refresh"} =>
              attempt[b] = [pc |-> attempt[b].pc, user |-> attempt[b].user, kid |-> attempt[b].kid, again |-> attempt[b].again]
<1>1. attempt[b] \in Attempt
  BY DEF SignInOK
<1> QED BY <1>1 DEF Attempt, Idle, At

LEMMA KeyTypes ==
  ASSUME SignInOK
  PROVE  /\ Key \subseteq Nat /\ published \in Keys
         /\ published.from \in Nat /\ published.to \in Nat /\ published.from \in Key /\ published.to \in Key
         /\ \A keys \in Keys \union {NoKeys} : keys.from \in Nat /\ keys.to \in Nat
         /\ NoKeys.from = 1 /\ NoKeys.to = 0
         /\ cache # Null => cache \in [keys : Keys \union {NoKeys}, fresh : BOOLEAN]
         /\ cache # Null => cache.keys \in Keys \union {NoKeys}
<1>1. Key \subseteq Nat
  BY SignInAssumption DEF Key
<1>2. published \in Keys /\ published.from \in Key /\ published.to \in Key
  BY DEF SignInOK, Keys
<1>3. \A keys \in Keys \union {NoKeys} : keys.from \in Nat /\ keys.to \in Nat
  <2> SUFFICES ASSUME NEW keys \in Keys \union {NoKeys} PROVE keys.from \in Nat /\ keys.to \in Nat
    OBVIOUS
  <2>1. CASE keys \in Keys
    BY <1>1, <2>1 DEF Keys
  <2>2. CASE keys = NoKeys
    BY <2>2 DEF NoKeys
  <2> QED BY <2>1, <2>2
<1>4. cache # Null => cache \in [keys : Keys \union {NoKeys}, fresh : BOOLEAN]
  BY DEF SignInOK
<1> QED BY <1>1, <1>2, <1>3, <1>4 DEF NoKeys

\* The callback of b goes on to a row that asks nothing of the keys but, when it
\* is "refresh" or "refused", of the key of its token.
LEMMA CallbackMoves ==
  ASSUME KeysInv, NEW b \in Browser, NEW row \in Attempt,
         attempt' = [attempt EXCEPT ![b] = row],
         row.pc \notin {"lock", "fetch", "fetched"},
         row.pc = "refresh" => row.kid <= published.to /\ \A c \in Browser \ {b} : ~At(c, "fetched"),
         row.pc = "refused" => row.kid < published.from,
         published' = published, cache' = cache,
         mutex' = mutex \/ (mutex' = Null /\ mutex = b),
         SignInOK'
  PROVE  KeysInv'
<1>1. /\ attempt'[b] = row /\ \A c \in Browser : c # b => attempt'[c] = attempt[c]
  BY DEF KeysInv, SignInOK
<1>2. ASSUME NEW c \in Browser PROVE CallbackInv(c)'
  <2>1. CASE c = b
    BY <1>1, <2>1 DEF CallbackInv, At
  <2>2. CASE c # b
    BY <1>1, <2>2 DEF CallbackInv, At, KeysInv, NotAhead
  <2> QED BY <2>1, <2>2
<1>3. AnswersAreRecent'
  BY <1>1 DEF AnswersAreRecent, At, Seeking, KeysInv
<1> QED BY <1>2, <1>3 DEF KeysInv, NotAhead

\* What a callback does with keys that are not older than its token.
LEMMA Judged ==
  ASSUME KeysInv, NEW b \in Browser, NEW keys \in Keys \union {NoKeys},
         attempt[b].pc \in {"lock", "fetched"},
         NotAhead(keys),
         attempt[b].again => keys = NoKeys \/ attempt[b].kid <= keys.to,
         Judge(b, keys)
  PROVE  \E row \in Attempt :
            /\ attempt' = [attempt EXCEPT ![b] = row]
            /\ row.pc \in {"idle", "verified", "refresh", "refused"}
            /\ row.pc = "refresh" => row.kid <= published.to
            /\ row.pc = "refused" => row.kid < published.from
<1> DEFINE row == IF Holds(keys, attempt[b].kid) THEN [pc |-> "verified", user |-> attempt[b].user]
                  ELSE IF ~attempt[b].again
                    THEN [pc |-> "refresh", user |-> attempt[b].user, kid |-> attempt[b].kid, again |-> FALSE]
                  ELSE IF keys # NoKeys THEN [pc |-> "refused", kid |-> attempt[b].kid]
                  ELSE Idle
<1>1. /\ attempt[b].user \in User /\ attempt[b].again \in BOOLEAN /\ attempt[b].kid \in Key
      /\ attempt[b].kid <= published.to
  BY CallbackTypes DEF KeysInv, CallbackInv
<1>2. /\ published.from \in Nat /\ published.to \in Nat /\ attempt[b].kid \in Nat
      /\ keys.from \in Nat /\ keys.to \in Nat
  BY <1>1, KeyTypes DEF KeysInv
<1>3. row \in Attempt
  BY <1>1 DEF Attempt, Idle
<1>4. row.pc \in {"idle", "verified", "refresh", "refused"}
  BY DEF Idle
<1>5. row.pc = "refresh" => row.kid <= published.to
  BY <1>1 DEF Idle
<1>6. row.pc = "refused" => row.kid < published.from
  <2> SUFFICES ASSUME ~Holds(keys, attempt[b].kid), attempt[b].again, keys # NoKeys
               PROVE  attempt[b].kid < published.from
    BY DEF Idle
  <2> QED BY <1>2 DEF Holds, NotAhead
<1>7. attempt' = [attempt EXCEPT ![b] = row]
  BY DEF Judge, Become
<1> HIDE DEF row
<1> QED BY <1>3, <1>4, <1>5, <1>6, <1>7

LEMMA KeysStep ==
  ASSUME KeysInv, SignInOK', NEW b \in Browser,
         Locked(b) \/ Unlocked(b) \/ Logout(b) \/ \E u \in User : Callback(b, u)
  PROVE  KeysInv'
<1>0. SignInOK /\ CallbackInv(b) /\ published.from <= published.to
  BY DEF KeysInv
<1>C. ASSUME NEW c \in Browser PROVE CallbackInv(c)
  BY DEF KeysInv
<1>K. /\ published.from \in Nat /\ published.to \in Nat /\ published \in Keys
      /\ cache # Null => cache.keys \in Keys \union {NoKeys}
      /\ \A keys \in Keys \union {NoKeys} : keys.from \in Nat /\ keys.to \in Nat
      /\ Key \subseteq Nat
  BY <1>0, KeyTypes
<1>A. attempt \in [Browser -> Attempt]
  BY <1>0 DEF SignInOK
<1>N. \A c \in Browser : c # Null
  BY SignInAssumption
<1>1. ASSUME Idle \in Attempt, attempt' = [attempt EXCEPT ![b] = Idle],
             published' = published, cache' = cache, mutex' = mutex \/ (mutex' = Null /\ mutex = b)
      PROVE  KeysInv'
  <2>1. Idle.pc = "idle"
    BY DEF Idle
  <2> QED BY <1>1, <2>1, CallbackMoves
<1>2. Idle \in Attempt
  BY DEF Attempt
<1>3. CASE UseCache(b)
  <2>1. cache.keys \in Keys \union {NoKeys} /\ NotAhead(cache.keys) /\ At(b, "lock") /\ mutex = Null
        /\ Judge(b, cache.keys) /\ UNCHANGED <<published, cache, mutex>>
    BY <1>3, <1>K DEF UseCache, KeysInv
  <2>2. attempt[b].again => cache.keys = NoKeys \/ attempt[b].kid <= cache.keys.to
    BY <1>0, <1>3, <2>1 DEF CallbackInv, UseCache
  <2>3. PICK row \in Attempt :
            /\ attempt' = [attempt EXCEPT ![b] = row]
            /\ row.pc \in {"idle", "verified", "refresh", "refused"}
            /\ row.pc = "refresh" => row.kid <= published.to
            /\ row.pc = "refused" => row.kid < published.from
    BY <2>1, <2>2, Judged DEF At
  <2>4. \A c \in Browser \ {b} : ~At(c, "fetched")
    BY <2>1, <1>C, <1>N DEF CallbackInv, At
  <2> QED BY <2>1, <2>3, <2>4, CallbackMoves
<1>4. CASE AskGoogle(b)
  <2>1. /\ At(b, "lock") /\ mutex = Null /\ mutex' = b /\ UNCHANGED <<cache, published>>
        /\ attempt' = [attempt EXCEPT ![b] = [attempt[b] EXCEPT !.pc = "fetch"]]
    BY <1>4 DEF AskGoogle, Become
  <2>2. /\ attempt'[b].pc = "fetch" /\ attempt'[b].kid = attempt[b].kid /\ attempt'[b].again = attempt[b].again
        /\ \A c \in Browser : c # b => attempt'[c] = attempt[c]
    <3>1. attempt[b] = [pc |-> "lock", user |-> attempt[b].user, kid |-> attempt[b].kid, again |-> attempt[b].again]
      BY <1>0, <2>1, CallbackTypes DEF At
    <3>2. attempt'[b] = [pc |-> "fetch", user |-> attempt[b].user, kid |-> attempt[b].kid, again |-> attempt[b].again]
      BY <2>1, <3>1, <1>A
    <3> QED BY <2>1, <3>2, <1>A
  <2>3. \A c \in Browser : attempt[c].pc \notin {"fetch", "fetched"}
    BY <2>1, <1>C, <1>N DEF CallbackInv
  <2>4. ASSUME NEW c \in Browser PROVE CallbackInv(c)'
    BY <1>C, <2>1, <2>2, <2>3 DEF CallbackInv, At, NotAhead
  <2>5. \A c \in Browser : ~At(c, "fetched")'
    BY <2>2, <2>3 DEF At
  <2> QED BY <2>1, <2>4, <2>5 DEF KeysInv, AnswersAreRecent, NotAhead
<1>5. ASSUME NEW keys \in {published, NoKeys}, Answer(b, keys)
      PROVE  KeysInv'
  <2>1. /\ At(b, "fetch") /\ mutex = b /\ UNCHANGED <<cache, published, mutex>>
        /\ attempt' = [attempt EXCEPT ![b] = [pc |-> "fetched", user |-> attempt[b].user, kid |-> attempt[b].kid,
                                               again |-> attempt[b].again, keys |-> keys]]
    BY <1>5, <1>0 DEF Answer, Become, CallbackInv, At
  <2>2. /\ attempt'[b].pc = "fetched" /\ attempt'[b].kid = attempt[b].kid /\ attempt'[b].again = attempt[b].again
        /\ attempt'[b].keys = keys
        /\ \A c \in Browser : c # b => attempt'[c] = attempt[c]
    BY <2>1, <1>A
  <2>3. \A c \in Browser : c # b => attempt[c].pc \notin {"fetch", "fetched"}
    BY <2>1, <1>C DEF CallbackInv
  <2>4. keys = NoKeys \/ keys = published
    OBVIOUS
  <2>5. ASSUME NEW c \in Browser PROVE CallbackInv(c)'
    BY <1>C, <1>K, <2>1, <2>2, <2>3, <2>4 DEF CallbackInv, At, NotAhead
  <2>6. AnswersAreRecent'
    <3> SUFFICES ASSUME NEW d \in Browser, NEW c \in Browser, At(c, "fetched")', Seeking(d)'
                 PROVE  (attempt[c].keys = NoKeys \/ attempt[d].kid <= attempt[c].keys.to)'
      BY DEF AnswersAreRecent
    <3>1. c = b
      BY <2>2, <2>3 DEF At
    <3>2. (attempt[d].kid <= published.to)'
      BY <2>5 DEF CallbackInv, Seeking, At
    <3> QED BY <3>1, <3>2, <2>1, <2>2, <2>4
  <2> QED BY <2>1, <2>5, <2>6 DEF KeysInv, NotAhead
<1>6. CASE Fetched(b)
  <2>1. /\ At(b, "fetched") /\ mutex = b /\ UNCHANGED published /\ mutex' = Null
        /\ cache' = [keys |-> attempt[b].keys, fresh |-> TRUE]
        /\ Judge(b, attempt[b].keys)
        /\ attempt[b].keys \in Keys \union {NoKeys} /\ NotAhead(attempt[b].keys)
    BY <1>6, <1>0, CallbackTypes DEF Fetched, CallbackInv, At
  <2>2. ASSUME NEW c \in Browser, Seeking(c)
        PROVE  attempt[b].keys = NoKeys \/ attempt[c].kid <= attempt[b].keys.to
    BY <2>1, <2>2 DEF KeysInv, AnswersAreRecent
  <2>3. attempt[b].again => attempt[b].keys = NoKeys \/ attempt[b].kid <= attempt[b].keys.to
    BY <2>1, <2>2 DEF Seeking, At
  <2>4. PICK row \in Attempt :
            /\ attempt' = [attempt EXCEPT ![b] = row]
            /\ row.pc \in {"idle", "verified", "refresh", "refused"}
            /\ row.pc = "refresh" => row.kid <= published.to
            /\ row.pc = "refused" => row.kid < published.from
    BY <2>1, <2>3, Judged DEF At
  <2>5. /\ attempt'[b] = row /\ \A c \in Browser : c # b => attempt'[c] = attempt[c]
    BY <2>4, <1>A
  <2>6. \A c \in Browser : c # b => attempt[c].pc \notin {"fetch", "fetched"}
    BY <2>1, <1>C DEF CallbackInv
  <2>7. ASSUME NEW c \in Browser PROVE CallbackInv(c)'
    <3>1. CASE c = b
      BY <2>1, <2>4, <2>5, <3>1 DEF CallbackInv, At
    <3>2. CASE c # b
      BY <1>C, <2>1, <2>2, <2>5, <2>6, <3>2 DEF CallbackInv, At, Seeking
    <3> QED BY <3>1, <3>2
  <2>8. \A c \in Browser : ~At(c, "fetched")'
    BY <2>4, <2>5, <2>6 DEF At
  <2> QED BY <1>0, <2>1, <2>7, <2>8 DEF KeysInv, AnswersAreRecent, NotAhead
<1>7. CASE FetchFails(b)
  <2>1. attempt' = [attempt EXCEPT ![b] = Idle] /\ UNCHANGED <<published, cache>> /\ mutex' = Null /\ mutex = b
    BY <1>0, <1>7 DEF FetchFails, Become, CallbackInv
  <2> QED BY <1>1, <1>2, <2>1
<1>8. CASE Refresh(b)
  <2>1. /\ At(b, "refresh") /\ mutex = Null /\ cache' = Null /\ UNCHANGED <<published, mutex>>
        /\ attempt' = [attempt EXCEPT ![b] = [attempt[b] EXCEPT !.pc = "lock", !.again = TRUE]]
    BY <1>8 DEF Refresh, Become
  <2>2. /\ attempt'[b].pc = "lock" /\ attempt'[b].kid = attempt[b].kid
        /\ \A c \in Browser : c # b => attempt'[c] = attempt[c]
    <3>1. attempt[b] = [pc |-> "refresh", user |-> attempt[b].user, kid |-> attempt[b].kid, again |-> attempt[b].again]
      BY <1>0, <2>1, CallbackTypes DEF At
    <3>2. attempt'[b] = [pc |-> "lock", user |-> attempt[b].user, kid |-> attempt[b].kid, again |-> TRUE]
      BY <2>1, <3>1, <1>A
    <3> QED BY <2>1, <3>2, <1>A
  <2>3. \A c \in Browser : attempt[c].pc \notin {"fetch", "fetched"}
    BY <2>1, <1>C, <1>N DEF CallbackInv
  <2>4. ASSUME NEW c \in Browser PROVE CallbackInv(c)'
    BY <1>C, <2>1, <2>2, <2>3 DEF CallbackInv, At, NotAhead
  <2>5. \A c \in Browser : ~At(c, "fetched")'
    BY <2>2, <2>3 DEF At
  <2> QED BY <1>0, <2>1, <2>4, <2>5 DEF KeysInv, AnswersAreRecent
<1>9. ASSUME NEW k \in Key, Exchange(b, k) PROVE KeysInv'
  <2>1. /\ Holds(published, k) /\ UNCHANGED <<published, cache, mutex>>
        /\ attempt' = [attempt EXCEPT ![b] = [pc |-> "lock", user |-> attempt[b].user, kid |-> k, again |-> FALSE]]
    BY <1>9 DEF Exchange, Become
  <2>2. /\ attempt'[b] = [pc |-> "lock", user |-> attempt[b].user, kid |-> k, again |-> FALSE]
        /\ \A c \in Browser : c # b => attempt'[c] = attempt[c]
    BY <2>1, <1>A
  <2>3. ASSUME NEW c \in Browser PROVE CallbackInv(c)'
    <3>1. CASE c = b
      BY <2>1, <2>2, <3>1 DEF CallbackInv, At, Holds
    <3>2. CASE c # b
      BY <1>C, <2>1, <2>2, <3>2 DEF CallbackInv, At, NotAhead
    <3> QED BY <3>1, <3>2
  <2>4. AnswersAreRecent'
    BY <2>1, <2>2 DEF KeysInv, AnswersAreRecent, At, Seeking
  <2> QED BY <1>0, <2>1, <2>3, <2>4 DEF KeysInv, NotAhead
<1>10. CASE Logout(b)
  <2>1. UNCHANGED <<published, cache, mutex, attempt>>
    BY <1>10 DEF Logout
  <2> QED BY <2>1 DEF KeysInv, CallbackInv, AnswersAreRecent, NotAhead, At, Seeking
<1>11. ASSUME NEW u \in User, Callback(b, u) PROVE KeysInv'
  <2>1. attempt' = [attempt EXCEPT ![b] = [pc |-> "exchange", user |-> u]] /\ UNCHANGED <<published, cache, mutex>>
    BY <1>11 DEF Callback, Become
  <2>2. [pc |-> "exchange", user |-> u] \in Attempt
    BY DEF Attempt
  <2> QED BY <2>1, <2>2, CallbackMoves
<1>12. CASE ExchangeFails(b) \/ Refused(b) \/ SessionFails(b) \/ SignedIn(b)
  <2>1. attempt' = [attempt EXCEPT ![b] = Idle] /\ UNCHANGED <<published, cache, mutex>>
    BY <1>12 DEF ExchangeFails, Refused, SessionFails, SignedIn, Become
  <2> QED BY <1>1, <1>2, <2>1
<1> QED BY <1>3, <1>4, <1>5, <1>6, <1>7, <1>8, <1>9, <1>10, <1>11, <1>12 DEF Locked, Unlocked

\* What runs after a start, what goes on around it, and the end of the process.
SignInStep == SignInNext \/ World \/ Forget

\* A free token, with what is left of the sessions.
LEMMA NewSession ==
  ASSUME SignInOK, NEW b \in Browser, SignedIn(b)
  PROVE  /\ NewToken \in Token /\ sessions[NewToken] = Null
         /\ \A c \in Browser : jar[c] # NewToken
         /\ attempt[b].user \in User
         /\ jar' = [jar EXCEPT ![b] = NewToken]
         /\ \E left \in [Token -> Session \union {Null}] :
              /\ sessions' = [left EXCEPT ![NewToken] = [user |-> attempt[b].user, expires |-> today + Life]]
              /\ \A k \in Token : left[k] = sessions[k] \/ (left[k] = Null /\ ~Valid(sessions[k]))
<1>1. NewToken \in FreeTokens
  BY DEF SignedIn, NewToken
<1>2. attempt[b].user \in User
  BY CallbackTypes DEF SignedIn, At
<1>3. sessions \in [Token -> Session \union {Null}]
  BY DEF SignInOK
<1>4. WithoutExpired(attempt[b].user) \in [Token -> Session \union {Null}]
  BY <1>3 DEF WithoutExpired
<1>5. \A k \in Token : \/ WithoutExpired(attempt[b].user)[k] = sessions[k]
                       \/ WithoutExpired(attempt[b].user)[k] = Null /\ ~Valid(sessions[k])
  BY DEF WithoutExpired
<1>6. PICK left \in {sessions, WithoutExpired(attempt[b].user)} :
         sessions' = [left EXCEPT ![NewToken] = [user |-> attempt[b].user, expires |-> today + Life]]
  BY DEF SignedIn
<1>7. /\ left \in [Token -> Session \union {Null}]
      /\ \A k \in Token : left[k] = sessions[k] \/ (left[k] = Null /\ ~Valid(sessions[k]))
  BY <1>3, <1>4, <1>5
<1> HIDE DEF NewToken
<1> QED BY <1>1, <1>2, <1>6, <1>7 DEF FreeTokens, SignedIn

LEMMA SignInTypes == SignInOK /\ [SignInStep]_signInVars => SignInOK'
<1> SUFFICES ASSUME SignInOK, [SignInStep]_signInVars PROVE SignInOK'
  OBVIOUS
<1>0. /\ today \in 0 .. MaxDay /\ published \in Keys
      /\ cache \in {Null} \union [keys : Keys \union {NoKeys}, fresh : BOOLEAN]
      /\ mutex \in Browser \union {Null}
      /\ attempt \in [Browser -> Attempt]
      /\ sessions \in [Token -> Session \union {Null}]
      /\ jar \in [Browser -> Token \union {Null}]
  BY DEF SignInOK
<1>I. Idle \in Attempt
  BY DEF Attempt
<1>1. ASSUME NEW b \in Browser, NEW row \in Attempt, Become(b, row)
      PROVE  attempt' \in [Browser -> Attempt]
  BY <1>0, <1>1 DEF Become
<1>2. ASSUME NEW b \in Browser, NEW keys \in Keys \union {NoKeys}, attempt[b].pc \in {"lock", "fetched"},
             Judge(b, keys)
      PROVE  attempt' \in [Browser -> Attempt]
  <2>1. attempt[b].user \in User /\ attempt[b].kid \in Key
    BY <1>2, CallbackTypes
  <2> DEFINE row == IF Holds(keys, attempt[b].kid) THEN [pc |-> "verified", user |-> attempt[b].user]
                    ELSE IF ~attempt[b].again
                      THEN [pc |-> "refresh", user |-> attempt[b].user, kid |-> attempt[b].kid, again |-> FALSE]
                    ELSE IF keys # NoKeys THEN [pc |-> "refused", kid |-> attempt[b].kid]
                    ELSE Idle
  <2>2. row \in Attempt
    BY <2>1 DEF Attempt, Idle
  <2>3. Become(b, row)
    BY <1>2 DEF Judge
  <2> HIDE DEF row
  <2> QED BY <2>2, <2>3, <1>1
<1>3. ASSUME NEW b \in Browser, Locked(b) PROVE SignInOK'
  <2>1. CASE UseCache(b)
    <3>1. cache.keys \in Keys \union {NoKeys} /\ attempt[b].pc = "lock" /\ Judge(b, cache.keys)
      BY <1>0, <2>1 DEF UseCache, At
    <3>2. attempt' \in [Browser -> Attempt]
      BY <3>1, <1>2
    <3> QED BY <1>0, <2>1, <3>2 DEF UseCache, SignInOK
  <2>2. CASE AskGoogle(b)
    <3>1. /\ attempt[b].user \in User /\ attempt[b].kid \in Key /\ attempt[b].again \in BOOLEAN
          /\ attempt[b] = [pc |-> "lock", user |-> attempt[b].user, kid |-> attempt[b].kid, again |-> attempt[b].again]
      BY <2>2, CallbackTypes DEF AskGoogle, At
    <3>2. [attempt[b] EXCEPT !.pc = "fetch"]
             = [pc |-> "fetch", user |-> attempt[b].user, kid |-> attempt[b].kid, again |-> attempt[b].again]
      BY <3>1
    <3>3. [attempt[b] EXCEPT !.pc = "fetch"] \in Attempt
      BY <3>1, <3>2 DEF Attempt
    <3>4. attempt' \in [Browser -> Attempt]
      BY <3>3, <2>2, <1>1 DEF AskGoogle
    <3> QED BY <1>0, <2>2, <3>4 DEF AskGoogle, SignInOK
  <2>3. CASE Refresh(b)
    <3>1. /\ attempt[b].user \in User /\ attempt[b].kid \in Key
          /\ attempt[b] = [pc |-> "refresh", user |-> attempt[b].user, kid |-> attempt[b].kid, again |-> attempt[b].again]
      BY <2>3, CallbackTypes DEF Refresh, At
    <3>2. attempt' = [attempt EXCEPT ![b] = [attempt[b] EXCEPT !.pc = "lock", !.again = TRUE]]
      BY <2>3 DEF Refresh, Become
    <3>3. attempt'[b] = [pc |-> "lock", user |-> attempt[b].user, kid |-> attempt[b].kid, again |-> TRUE]
      BY <3>1, <3>2, <1>0
    <3>4. attempt'[b] \in Attempt
      BY <3>1, <3>3 DEF Attempt
    <3>5. attempt' \in [Browser -> Attempt]
      BY <3>2, <3>4, <1>0
    <3> QED BY <1>0, <2>3, <3>5 DEF Refresh, SignInOK
  <2> QED BY <1>3, <2>1, <2>2, <2>3 DEF Locked
<1>4. ASSUME NEW b \in Browser, Unlocked(b) PROVE SignInOK'
  <2>1. ASSUME NEW k \in Key, Exchange(b, k) PROVE SignInOK'
    <3>1. attempt[b].user \in User
      BY <2>1, CallbackTypes DEF Exchange, At
    <3>2. [pc |-> "lock", user |-> attempt[b].user, kid |-> k, again |-> FALSE] \in Attempt
      BY <3>1 DEF Attempt
    <3>3. attempt' \in [Browser -> Attempt]
      BY <3>2, <2>1, <1>1 DEF Exchange
    <3> QED BY <1>0, <2>1, <3>3 DEF Exchange, SignInOK
  <2>2. CASE ExchangeFails(b) \/ Refused(b) \/ SessionFails(b)
    <3>1. attempt' \in [Browser -> Attempt]
      BY <2>2, <1>1, <1>I DEF ExchangeFails, Refused, SessionFails
    <3> QED BY <1>0, <2>2, <3>1 DEF ExchangeFails, Refused, SessionFails, SignInOK
  <2>3. ASSUME NEW keys \in {published, NoKeys}, Answer(b, keys) PROVE SignInOK'
    <3>1. attempt[b].user \in User /\ attempt[b].kid \in Key /\ attempt[b].again \in BOOLEAN
      BY <2>3, CallbackTypes DEF Answer, At
    <3>2. [pc |-> "fetched", user |-> attempt[b].user, kid |-> attempt[b].kid,
           again |-> attempt[b].again, keys |-> keys] \in Attempt
      BY <1>0, <3>1 DEF Attempt
    <3>3. attempt' \in [Browser -> Attempt]
      BY <3>2, <2>3, <1>1 DEF Answer
    <3> QED BY <1>0, <2>3, <3>3 DEF Answer, SignInOK
  <2>4. CASE Fetched(b)
    <3>1. attempt[b].keys \in Keys \union {NoKeys} /\ attempt[b].pc = "fetched" /\ Judge(b, attempt[b].keys)
      BY <2>4, CallbackTypes DEF Fetched, At
    <3>2. attempt' \in [Browser -> Attempt]
      BY <3>1, <1>2
    <3>3. cache' \in [keys : Keys \union {NoKeys}, fresh : BOOLEAN] /\ mutex' = Null
      BY <2>4, <3>1 DEF Fetched
    <3> QED BY <1>0, <2>4, <3>2, <3>3 DEF Fetched, SignInOK
  <2>5. CASE FetchFails(b)
    <3>1. attempt' \in [Browser -> Attempt]
      BY <2>5, <1>1, <1>I DEF FetchFails
    <3> QED BY <1>0, <2>5, <3>1 DEF FetchFails, SignInOK
  <2>6. CASE SignedIn(b)
    <3>1. attempt' \in [Browser -> Attempt]
      BY <2>6, <1>1, <1>I DEF SignedIn
    <3>2. today + Life \in 0 .. MaxDay + Life
      BY <1>0, SignInAssumption
    <3>3. NewToken \in Token /\ attempt[b].user \in User /\ jar' = [jar EXCEPT ![b] = NewToken]
      BY <2>6, NewSession
    <3>4. PICK left \in [Token -> Session \union {Null}] :
            sessions' = [left EXCEPT ![NewToken] = [user |-> attempt[b].user, expires |-> today + Life]]
      BY <2>6, NewSession
    <3> HIDE DEF NewToken
    <3>5. [user |-> attempt[b].user, expires |-> today + Life] \in Session
      BY <3>2, <3>3 DEF Session
    <3>6. sessions' \in [Token -> Session \union {Null}]
      BY <3>3, <3>4, <3>5
    <3>7. jar' \in [Browser -> Token \union {Null}]
      BY <1>0, <3>3
    <3> QED BY <1>0, <2>6, <3>1, <3>6, <3>7 DEF SignedIn, SignInOK
  <2> QED BY <1>4, <2>1, <2>2, <2>3, <2>4, <2>5, <2>6 DEF Unlocked
<1>5. ASSUME NEW b \in Browser, Logout(b) PROVE SignInOK'
  <2>1. sessions' \in [Token -> Session \union {Null}] /\ jar' \in [Browser -> Token \union {Null}]
    BY <1>0, <1>5 DEF Logout
  <2> QED BY <1>0, <1>5, <2>1 DEF Logout, SignInOK
<1>6. ASSUME NEW b \in Browser, NEW u \in User, Callback(b, u) PROVE SignInOK'
  <2>1. [pc |-> "exchange", user |-> u] \in Attempt
    BY DEF Attempt
  <2>2. attempt' \in [Browser -> Attempt]
    BY <2>1, <1>6, <1>1 DEF Callback
  <2> QED BY <1>0, <1>6, <2>2 DEF Callback, SignInOK
<1>7. CASE World
  <2>1. CASE Rotate
    BY <1>0, <2>1 DEF Rotate, SignInOK
  <2>2. CASE Hour
    <3>1. cache' \in [keys : Keys \union {NoKeys}, fresh : BOOLEAN]
      BY <1>0, <2>2 DEF Hour
    <3> QED BY <1>0, <2>2, <3>1 DEF Hour, SignInOK
  <2>3. CASE Midnight
    <3>1. today' \in 0 .. MaxDay /\ jar' \in [Browser -> Token \union {Null}]
      BY <1>0, <2>3, SignInAssumption DEF Midnight
    <3> QED BY <1>0, <2>3, <3>1 DEF Midnight, SignInOK
  <2>4. ASSUME NEW b \in Browser, DropCookie(b) PROVE SignInOK'
    <3>1. jar' \in [Browser -> Token \union {Null}]
      BY <1>0, <2>4 DEF DropCookie
    <3> QED BY <1>0, <2>4, <3>1 DEF DropCookie, SignInOK
  <2> QED BY <1>7, <2>1, <2>2, <2>3, <2>4 DEF World
<1>8. CASE Forget
  <2>1. attempt' \in [Browser -> Attempt]
    BY <1>8, <1>I DEF Forget
  <2> QED BY <1>0, <1>8, <2>1 DEF Forget, SignInOK
<1>9. CASE UNCHANGED signInVars
  BY <1>0, <1>9 DEF signInVars, SignInOK
<1> QED BY <1>3, <1>4, <1>5, <1>6, <1>7, <1>8, <1>9 DEF SignInStep, SignInNext

LEMMA KeysInit == SignInInit => KeysInv
<1> SUFFICES ASSUME SignInInit PROVE KeysInv
  OBVIOUS
<1> USE SignInAssumption DEF SignInInit
<1>1. SignInOK
  BY DEF SignInOK, Keys, Key, Attempt
<1>2. \A b \in Browser : attempt[b].pc = "idle"
  BY DEF Idle
<1> QED BY <1>1, <1>2 DEF KeysInv, CallbackInv, AnswersAreRecent, At, Seeking

LEMMA KeysInvariant == KeysInv /\ [SignInStep]_signInVars => KeysInv'
<1> SUFFICES ASSUME KeysInv, [SignInStep]_signInVars PROVE KeysInv'
  OBVIOUS
<1>0. SignInOK /\ SignInOK'
  BY SignInTypes DEF KeysInv
<1>1. CASE SignInNext
  BY <1>0, <1>1, KeysStep DEF SignInNext
<1>2. CASE Rotate
  <2>1. /\ published.from \in Nat /\ published.to \in Nat /\ published'.from \in Nat /\ published'.to \in Nat
        /\ published'.from >= published.from /\ published'.to >= published.to
        /\ published'.from <= published'.to
        /\ UNCHANGED <<cache, mutex, attempt>>
    BY <1>0, <1>2, KeyTypes DEF Rotate
  <2>2. \A keys \in Keys \union {NoKeys} : NotAhead(keys) => NotAhead(keys)'
    <3> SUFFICES ASSUME NEW keys \in Keys \union {NoKeys}, NotAhead(keys) PROVE NotAhead(keys)'
      OBVIOUS
    <3>1. keys.from \in Nat /\ keys.to \in Nat
      BY <1>0, KeyTypes
    <3> QED BY <2>1, <3>1 DEF NotAhead
  <2>3. cache # Null => NotAhead(cache.keys)'
    BY <2>1, <2>2, <1>0, KeyTypes DEF KeysInv, NotAhead
  <2>4. ASSUME NEW b \in Browser PROVE CallbackInv(b)'
    <3>1. CallbackInv(b)
      BY DEF KeysInv
    <3>2. attempt[b].pc \in {"lock", "fetch", "refresh", "fetched", "refused"} => attempt[b].kid \in Nat
      <4>1. Key \subseteq Nat
        BY <1>0, KeyTypes
      <4>2. attempt[b].pc \in {"lock", "fetch", "refresh", "fetched", "refused"} => attempt[b].kid \in Key
        BY <1>0, CallbackTypes, Zenon
      <4> QED BY <4>1, <4>2
    <3>3. At(b, "fetched") => NotAhead(attempt[b].keys)'
      <4>1. At(b, "fetched") => attempt[b].keys \in Keys \union {NoKeys} /\ NotAhead(attempt[b].keys)
        BY <3>1, <1>0, CallbackTypes DEF CallbackInv
      <4> QED BY <4>1, <2>1, <2>2 DEF NotAhead
    <3> QED BY <2>1, <3>1, <3>2, <3>3 DEF CallbackInv, At, NotAhead
  <2>5. AnswersAreRecent'
    BY <2>1 DEF KeysInv, AnswersAreRecent, At, Seeking
  <2> QED BY <1>0, <2>1, <2>3, <2>4, <2>5 DEF KeysInv, NotAhead
<1>3. CASE Hour
  <2>1. /\ cache # Null /\ cache'.keys = cache.keys
        /\ UNCHANGED <<published, mutex, attempt>>
    <3>1. cache \in [keys : Keys \union {NoKeys}, fresh : BOOLEAN] /\ cache' = [cache EXCEPT !.fresh = FALSE]
      BY <1>0, <1>3, KeyTypes DEF Hour
    <3>2. cache'.keys = cache.keys
      BY <3>1
    <3> QED BY <1>3, <3>2 DEF Hour
  <2> QED BY <1>0, <2>1 DEF KeysInv, CallbackInv, AnswersAreRecent, At, Seeking, NotAhead
<1>4. CASE Midnight \/ (\E b \in Browser : DropCookie(b)) \/ UNCHANGED signInVars
  <2>1. UNCHANGED <<published, cache, mutex, attempt>>
    BY <1>4 DEF Midnight, DropCookie, signInVars
  <2> QED BY <1>0, <2>1 DEF KeysInv, CallbackInv, AnswersAreRecent, At, Seeking, NotAhead
<1>5. CASE Forget
  <2>1. UNCHANGED published /\ cache' = Null /\ \A b \in Browser : attempt'[b].pc = "idle"
    BY <1>5 DEF Forget, Idle
  <2> QED BY <1>0, <2>1 DEF KeysInv, CallbackInv, AnswersAreRecent, At, Seeking
<1> QED BY <1>1, <1>2, <1>3, <1>4, <1>5 DEF SignInStep, World

------------------------------------------------------------------------------
(* Sessions and cookies.                                                     *)

\* No two browsers have the cookie of one session.
CookiesDiffer == \A b, c \in Browser : b # c /\ jar[b] = jar[c] => jar[b] = Null

LEMMA CookiesStep == SignInOK /\ CookiesDiffer /\ [SignInStep]_signInVars => CookiesDiffer'
<1> SUFFICES ASSUME SignInOK, CookiesDiffer, [SignInStep]_signInVars PROVE CookiesDiffer'
  OBVIOUS
<1>0. jar \in [Browser -> Token \union {Null}]
  BY DEF SignInOK
<1>1. ASSUME NEW b \in Browser, SignedIn(b) PROVE CookiesDiffer'
  <2>1. jar' = [jar EXCEPT ![b] = NewToken] /\ \A c \in Browser : jar[c] # NewToken
    BY <1>1, NewSession
  <2> HIDE DEF NewToken
  <2> QED BY <1>0, <2>1 DEF CookiesDiffer
<1>2. ASSUME NEW b \in Browser, jar' = [jar EXCEPT ![b] = Null] PROVE CookiesDiffer'
  BY <1>0, <1>2 DEF CookiesDiffer
<1>3. CASE Midnight
  BY <1>0, <1>3 DEF Midnight, CookiesDiffer
<1>4. ASSUME UNCHANGED jar PROVE CookiesDiffer'
  BY <1>4 DEF CookiesDiffer
<1>5. ASSUME NEW b \in Browser, Locked(b) \/ Unlocked(b) \/ Logout(b) \/ \E u \in User : Callback(b, u)
      PROVE  UNCHANGED jar \/ SignedIn(b) \/ jar' = [jar EXCEPT ![b] = Null]
  BY <1>5 DEF Locked, UseCache, AskGoogle, Refresh, Unlocked, Exchange, ExchangeFails, Answer, Fetched,
              FetchFails, Refused, SessionFails, Logout, Callback
<1>6. ASSUME World \/ Forget
      PROVE  UNCHANGED jar \/ Midnight \/ \E b \in Browser : jar' = [jar EXCEPT ![b] = Null]
  BY <1>6 DEF World, Forget, Rotate, Hour, DropCookie
<1> QED BY <1>1, <1>2, <1>3, <1>4, <1>5, <1>6 DEF SignInStep, SignInNext, signInVars

\* The step of CookiesDecide.
Decided == \A b \in Browser : jar'[b] = jar[b] => GetUser(b)' = GetUser(b)

LEMMA DecidedStep == SignInOK /\ CookiesDiffer /\ [SignInStep]_signInVars => Decided
<1> SUFFICES ASSUME SignInOK, CookiesDiffer, [SignInStep]_signInVars, NEW b \in Browser, jar'[b] = jar[b]
             PROVE  GetUser(b)' = GetUser(b)
  BY DEF Decided
<1>0. /\ jar \in [Browser -> Token \union {Null}] /\ sessions \in [Token -> Session \union {Null}]
      /\ today \in 0 .. MaxDay
  BY DEF SignInOK
<1>N. Null \notin Token
  BY SignInAssumption
<1>1. CASE jar[b] = Null
  BY <1>1 DEF GetUser, GetSession
<1>2. CASE jar[b] # Null
  <2> DEFINE k == jar[b]
  <2>0. k \in Token
    BY <1>0, <1>2
  <2>1. ASSUME sessions'[k] = sessions[k], today' = today PROVE GetUser(b)' = GetUser(b)
    BY <2>1 DEF GetUser, GetSession, Valid
  <2>2. ASSUME sessions'[k] = Null, sessions[k] = Null \/ ~Valid(sessions[k]) PROVE GetUser(b)' = GetUser(b)
    BY <2>2 DEF GetUser, GetSession
  <2>3. ASSUME NEW c \in Browser, SignedIn(c) PROVE GetUser(b)' = GetUser(b)
    <3>1. NewToken \in Token /\ k # NewToken
      BY <2>3, NewSession
    <3>2. PICK left \in [Token -> Session \union {Null}] :
            /\ sessions' = [left EXCEPT ![NewToken] = [user |-> attempt[c].user, expires |-> today + Life]]
            /\ \A l \in Token : left[l] = sessions[l] \/ (left[l] = Null /\ ~Valid(sessions[l]))
      BY <2>3, NewSession
    <3>3. today' = today
      BY <2>3 DEF SignedIn
    <3> HIDE DEF NewToken, k
    <3>4. sessions'[k] = left[k]
      BY <3>1, <3>2, <2>0
    <3>5. sessions'[k] = sessions[k] \/ (sessions'[k] = Null /\ ~Valid(sessions[k]))
      BY <3>2, <3>4, <2>0
    <3> USE DEF k
    <3> QED BY <2>1, <2>2, <3>3, <3>5
  <2>4. ASSUME NEW c \in Browser, Logout(c) PROVE GetUser(b)' = GetUser(b)
    <3>1. jar[c] # Null /\ jar' = [jar EXCEPT ![c] = Null] /\ today' = today
          /\ sessions' \in {sessions, [sessions EXCEPT ![jar[c]] = Null]}
      BY <2>4 DEF Logout
    <3>2. b # c
      BY <1>0, <1>2, <3>1
    <3>3. k # jar[c]
      BY <1>2, <3>2 DEF CookiesDiffer
    <3>4. sessions'[k] = sessions[k]
      BY <1>0, <2>0, <3>1, <3>3
    <3> QED BY <2>1, <3>1, <3>4
  <2>5. CASE Midnight
    <3>1. today' = today + 1 /\ sessions' = sessions
          /\ jar' = [c \in Browser |-> IF Expires(c) THEN Null ELSE jar[c]]
      BY <2>5 DEF Midnight
    <3>2. ~Expires(b)
      BY <1>2, <3>1
    <3>3. CASE sessions[k] = Null
      BY <3>1, <3>3 DEF GetUser, GetSession
    <3>4. CASE sessions[k] # Null
      <4>1. sessions[k].expires \in 0 .. MaxDay + Life
        BY <1>0, <2>0, <3>4 DEF Session
      <4>2. sessions[k].expires # today
        BY <1>2, <3>2, <3>4 DEF Expires
      <4>3. Valid(sessions[k])' = Valid(sessions[k])
        BY <1>0, <3>1, <4>1, <4>2 DEF Valid
      <4> QED BY <3>1, <4>3 DEF GetUser, GetSession
    <3> QED BY <3>3, <3>4
  <2>6. ASSUME NEW c \in Browser, Locked(c) \/ Unlocked(c) \/ \E u \in User : Callback(c, u), ~SignedIn(c)
        PROVE  UNCHANGED <<today, sessions>>
    BY <2>6 DEF Locked, UseCache, AskGoogle, Refresh, Unlocked, Exchange, ExchangeFails, Answer, Fetched,
                FetchFails, Refused, SessionFails, Callback
  <2>7. ASSUME World \/ Forget, ~Midnight PROVE UNCHANGED <<today, sessions>>
    BY <2>7 DEF World, Forget, Rotate, Hour, DropCookie
  <2>8. CASE UNCHANGED <<today, sessions>>
    BY <2>8, <2>1
  <2> HIDE DEF k
  <2> QED BY <2>3, <2>4, <2>5, <2>6, <2>7, <2>8 DEF SignInStep, SignInNext, signInVars
<1> QED BY <1>1, <1>2

------------------------------------------------------------------------------
(* The server.                                                               *)

ServerInv == SchemaInv /\ KeysInv /\ CookiesDiffer

\* A step of the server is one of each part, or leaves a part alone.
LEMMA BothSteps == [Next]_vars => [MigrationsNext]_migrationVars /\ [SignInStep]_signInVars
BY DEF Next, vars, Boot, Serve, Crash, Outside, MigrationsNext, migrationVars, SignInStep, signInVars

LEMMA ServerInvariant == Spec => []ServerInv
<1>1. Init => ServerInv
  <2>1. SignInInit => CookiesDiffer
    BY DEF SignInInit, CookiesDiffer
  <2> QED BY <2>1, SchemaInit, KeysInit DEF Init, ServerInv
<1>2. ServerInv /\ [Next]_vars => ServerInv'
  <2>1. KeysInv => SignInOK
    BY DEF KeysInv
  <2> QED BY <2>1, BothSteps, SchemaStep, KeysInvariant, CookiesStep DEF ServerInv
<1> QED BY <1>1, <1>2, PTL DEF Spec

\* The state of the server has its types: one start at a time, callbacks with
\* what they have learnt so far, a cache of keys, sessions and cookies.
THEOREM TypesHold == Spec => []TypeOK
<1>1. ServerInv => TypeOK
  BY DEF ServerInv, SchemaInv, KeysInv, TypeOK
<1> QED BY <1>1, ServerInvariant, PTL

\* Whatever files a release brings and wherever starts have died, a process that
\* serves finds the whole schema of its release (db.go:184-201).
THEOREM SchemaIsComplete == Spec => []ServedSchemaIsComplete
<1>1. ServerInv => ServedSchemaIsComplete
  BY DEF ServerInv, SchemaInv
<1> QED BY <1>1, ServerInvariant, PTL

\* No statement of a file has an effect before the files before it are complete,
\* over all releases and starts (db.go:160-201).
THEOREM FilesComeInOrder == Spec => []FilesInOrder
<1>1. ServerInv => FilesInOrder
  BY DEF ServerInv, SchemaInv
<1> QED BY <1>1, ServerInvariant, PTL

\* A sign-in is refused for want of its key only when Google has withdrawn that
\* key, for any number of callbacks and changes of keys (google_auth.go:186-205).
THEOREM PublishedKeysAreFound == Spec => []PublishedKeyIsFound
<1>1. ServerInv => PublishedKeyIsFound
  <2> SUFFICES ASSUME KeysInv, NEW b \in Browser, At(b, "refused") PROVE ~Holds(published, attempt[b].kid)
    BY DEF ServerInv, PublishedKeyIsFound
  <2>1. attempt[b].kid < published.from
    BY DEF KeysInv, CallbackInv
  <2>2. attempt[b].kid \in Nat /\ published.from \in Nat
    <3>1. SignInOK
      BY DEF KeysInv
    <3>2. Key \subseteq Nat /\ published.from \in Nat
      BY <3>1, KeyTypes
    <3>3. attempt[b].kid \in Key
      BY <3>1, CallbackTypes DEF At
    <3> QED BY <3>2, <3>3
  <2> QED BY <2>1, <2>2 DEF Holds
<1> QED BY <1>1, ServerInvariant, PTL

\* Who a browser's requests are from changes only with its own cookies: other
\* sign-ins and sign-outs, the removal of expired rows, restarts and midnight
\* leave it alone (server.go:331-354, 853-865, 881-900).
THEOREM OnlyCookiesDecide == Spec => CookiesDecide
<1>1. ServerInv /\ [Next]_vars => [Decided]_<<today, sessions, jar>>
  <2>1. ServerInv => SignInOK /\ CookiesDiffer
    BY DEF ServerInv, KeysInv
  <2> QED BY <2>1, BothSteps, DecidedStep
<1>2. CookiesDecide <=> [][Decided]_<<today, sessions, jar>>
  BY DEF CookiesDecide, Decided
<1> QED BY <1>1, <1>2, ServerInvariant, PTL DEF Spec

=============================================================================
