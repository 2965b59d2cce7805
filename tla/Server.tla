------------------------------- MODULE Server -------------------------------
(***************************************************************************)
(* One life of the server after another: the start over the migrations, the *)
(* sign-ins that the newest release serves, and the end of the process,     *)
(* which loses the cache of keys and the callbacks under way and keeps the  *)
(* tables.  Sessions are those of the release in the repository; what older *)
(* releases did is not modelled, only the schema they left.                 *)
(***************************************************************************)
EXTENDS Migrations, SignIn

vars == <<release, schema, recorded, boot, mishaps,
          today, published, cache, mutex, attempt, sessions, jar>>

TypeOK == MigrationsOK /\ SignInOK

Init == MigrationsInit /\ SignInInit

Serves == Has("serving") /\ release = Len(Script)

Boot == (StartUp \/ Execute \/ Record \/ Deploy) /\ UNCHANGED signInVars
Serve == Serves /\ SignInNext /\ UNCHANGED migrationVars
Crash == Die /\ Forget
Outside == Serves /\ World /\ UNCHANGED migrationVars

Next == Boot \/ Serve \/ Crash \/ Outside

Spec == Init /\ [][Next]_vars

\* systemd starts the process again and the start goes on; goroutines run; a
\* request to Google ends, by its answer or because the browser hangs up, which
\* cancels it; a mutex of Go lets everybody in who waits.
Fairness ==
    /\ WF_vars(Boot /\ ~Deploy)
    /\ \A b \in Browser : WF_vars(Serves /\ Unlocked(b) /\ UNCHANGED migrationVars)
    /\ \A b \in Browser : SF_vars(Serves /\ Locked(b) /\ UNCHANGED migrationVars)

FairSpec == Spec /\ Fairness

=============================================================================
