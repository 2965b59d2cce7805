----------------------------- MODULE Migrations -----------------------------
(***************************************************************************)
(* The schema of the database and the start of the process (db.go,          *)
(* server.go:306-315).  The binary holds migration files; RunMigrations      *)
(* reads which of them the database has recorded and executes the others in  *)
(* order.  A file is several statements, each of which commits by itself;    *)
(* the last one records the file.  CREATE ... IF NOT EXISTS can be executed  *)
(* again, ALTER TABLE ... ADD COLUMN cannot.  A start that fails ends the    *)
(* process, and systemd starts it again (srv.service, Restart=always).       *)
(***************************************************************************)
EXTENDS Naturals, Sequences

CONSTANTS
    Script,   \* the files: sequences of "create" and "alter", without the INSERT
              \* at their end
    Mishaps   \* bound: how often the process dies, or a statement fails, in a row

ASSUME ScriptAssumption == Script \in Seq(Seq({"create", "alter"}))
ASSUME MishapsAssumption == Mishaps \in Nat

VARIABLES
    release,   \* how many files the installed binary holds
    schema,    \* how many statements of each file have had their effect
    recorded,  \* the files in table migrations
    boot,      \* where the process is
    mishaps    \* since it has served

migrationVars == <<release, schema, recorded, boot, mishaps>>

File == DOMAIN Script
Down == [pc |-> "down"]

MigrationsOK ==
    /\ release \in 0 .. Len(Script)
    /\ schema \in [File -> Nat]
    /\ recorded \subseteq File
    /\ boot \in {Down} \union [pc : {"migrating"}, executed : SUBSET File, file : File, place : Nat \ {0}]
                       \union [pc : {"serving"}]
    /\ mishaps \in 0 .. Mishaps

MigrationsInit ==
    /\ release \in File
    /\ schema = [n \in File |-> 0] /\ recorded = {}
    /\ boot = Down
    /\ mishaps = 0

Has(pc) == boot.pc = pc

\* The first file after n that is to be executed, or on to serving.
\* Mutant: one file more than there are.
OneTooMany(n, executed) ==
    IF n <= release
      THEN [pc |-> "migrating", executed |-> executed, file |-> n + 1, place |-> 1]
      ELSE [pc |-> "serving"]
\* Mutant: the files are not sorted.
Unsorted(n, executed) ==
    LET open == {k \in n + 1 .. release : k \notin executed} IN
    IF open # {}
      THEN [pc |-> "migrating", executed |-> executed, place |-> 1,
            file |-> CHOOSE k \in open : \A l \in open : k >= l]
      ELSE [pc |-> "serving"]
\* Mutant: what has been executed is not asked.
FromTheStart(n, executed) ==
    IF n < release
      THEN [pc |-> "migrating", executed |-> executed, file |-> n + 1, place |-> 1]
      ELSE [pc |-> "serving"]
Following(n, executed) ==
    LET open == {k \in n + 1 .. release : k \notin executed} IN
    IF open # {}
      THEN [pc |-> "migrating", executed |-> executed, place |-> 1,
            file |-> CHOOSE k \in open : \A l \in open : k <= l]
      ELSE [pc |-> "serving"]

\* No table migrations yet: nothing is recorded.
StartUp ==
    /\ Has("down")
    /\ boot' = Following(0, recorded)
    /\ mishaps' = IF boot'.pc = "serving" THEN 0 ELSE mishaps
    /\ UNCHANGED <<release, schema, recorded>>

Statement == Script[boot.file][boot.place]
Repeats == Statement = "alter" /\ boot.place <= schema[boot.file]

\* What is there already stays as it is.
Done == [schema EXCEPT ![boot.file] = IF boot.place <= @ THEN @ ELSE boot.place]

\* Mutant: an error of a file is logged, and the next one begins.
ExecuteAnyway ==
    /\ Has("migrating") /\ boot.place \in DOMAIN Script[boot.file]
    /\ IF Repeats
         THEN boot' = Following(boot.file, boot.executed) /\ UNCHANGED schema
         ELSE /\ schema' = Done
              /\ boot' = [boot EXCEPT !.place = @ + 1]
    /\ UNCHANGED <<release, recorded, mishaps>>

\* "duplicate column name": the start fails.
Execute ==
    /\ Has("migrating") /\ boot.place \in DOMAIN Script[boot.file]
    /\ IF Repeats
         THEN boot' = Down /\ UNCHANGED schema
         ELSE /\ schema' = Done
              /\ boot' = [boot EXCEPT !.place = @ + 1]
    /\ UNCHANGED <<release, recorded, mishaps>>

\* INSERT OR IGNORE INTO migrations
Record ==
    /\ Has("migrating") /\ boot.place \notin DOMAIN Script[boot.file]
    /\ recorded' = recorded \union {boot.file}
    /\ boot' = Following(boot.file, boot.executed)
    /\ mishaps' = IF boot'.pc = "serving" THEN 0 ELSE mishaps
    /\ UNCHANGED <<release, schema>>

\* The process dies, or a statement of the start fails.
Die ==
    /\ mishaps < Mishaps /\ ~Has("down")
    /\ boot' = Down
    /\ mishaps' = mishaps + 1
    /\ UNCHANGED <<release, schema, recorded>>

\* A newer binary is installed and the process started again.
Deploy ==
    /\ release < Len(Script)
    /\ release' = release + 1
    /\ boot' = Down
    /\ UNCHANGED <<schema, recorded, mishaps>>

MigrationsNext == StartUp \/ Execute \/ Record \/ Die \/ Deploy

------------------------------------------------------------------------------
Complete(n) == schema[n] = Len(Script[n])

\* A process that serves finds the whole schema of its release, whatever starts
\* died before it (db.go:184-201): dbgen's statements name all the columns.
ServedSchemaIsComplete == Has("serving") => \A n \in 1 .. release : Complete(n)

\* A file begins when the one before is complete, over all starts: later files
\* alter the tables that earlier ones create.
FilesInOrder == \A n \in File : schema[n] > 0 => \A k \in 1 .. n - 1 : Complete(k)

\* A file that has altered a table and is not recorded: no start can pass it.
Halfway ==
    \E n \in File : n \notin recorded /\ \E i \in 1 .. schema[n] : Script[n][i] = "alter"

\* A process that is down comes up, unless a start was cut off between an ALTER
\* and the end of its file (db.go:208, srv.service:11).
StartsUnlessHalfway == Has("down") ~> (Has("serving") \/ Halfway)

=============================================================================
