------------------------------- MODULE SignIn -------------------------------
(***************************************************************************)
(* Signing in with Google, the cache of Google's keys, sessions and what    *)
(* browsers keep of them (google_auth.go, server.go:331-378, 792-900).      *)
(*                                                                          *)
(* Google signs an ID token with one of the keys it publishes, and replaces *)
(* them from time to time.  A callback that finds a token's key neither in  *)
(* the cache nor, after one refresh, at Google refuses the sign-in.  The    *)
(* mutex of the cache is held while Google is asked.  Signatures are        *)
(* external, and so is the comparison of the state parameter; a callback    *)
(* that is refused for other reasons than the key just ends.                *)
(***************************************************************************)
EXTENDS Naturals

CONSTANTS
    Browser, User, Token,
    Null,
    Life,       \* how long a session lasts, in days; 30 in the code
    MaxDay,     \* bound: days
    MaxKey      \* bound: keys

ASSUME SignInAssumption ==
    /\ Null \notin User \union Token \union Browser
    /\ Life \in Nat /\ MaxDay \in Nat /\ MaxKey \in Nat

VARIABLES
    today,
    published,  \* Google's keys, from the oldest to the newest
    cache,      \* cachedKeys, and whether cachedKeysAt is less than an hour ago
    mutex,      \* the callback that holds cachedKeysMu during a request
    attempt,    \* where each browser's callback is: it waits for one at a time
    sessions,   \* table sessions, Null where there is no row
    jar         \* the cookies of each browser

signInVars == <<today, published, cache, mutex, attempt, sessions, jar>>

Key == 0 .. MaxKey
Keys == [from : Key, to : Key]
NoKeys == [from |-> 1, to |-> 0]
Session == [user : User, expires : 0 .. MaxDay + Life]
Idle == [pc |-> "idle"]

\* "again": the cache has been emptied for this callback.
Attempt ==
    {Idle} \union [pc : {"exchange", "verified"}, user : User]
    \union [pc : {"lock", "fetch", "refresh"}, user : User, kid : Key, again : BOOLEAN]
    \union [pc : {"fetched"}, user : User, kid : Key, again : BOOLEAN, keys : Keys \union {NoKeys}]
    \union [pc : {"refused"}, kid : Key]

SignInOK ==
    /\ today \in 0 .. MaxDay
    /\ published \in Keys
    /\ cache \in {Null} \union [keys : Keys \union {NoKeys}, fresh : BOOLEAN]
    /\ mutex \in Browser \union {Null}
    /\ attempt \in [Browser -> Attempt]
    /\ sessions \in [Token -> Session \union {Null}]
    /\ jar \in [Browser -> Token \union {Null}]

SignInInit ==
    /\ today = 0
    /\ published = [from |-> 0, to |-> 0]
    /\ cache = Null
    /\ mutex = Null
    /\ attempt = [b \in Browser |-> Idle]
    /\ sessions = [k \in Token |-> Null]
    /\ jar = [b \in Browser |-> Null]

At(b, pc) == attempt[b].pc = pc
Become(b, row) == attempt' = [attempt EXCEPT ![b] = row]
Holds(keys, k) == keys.from <= k /\ k <= keys.to

------------------------------------------------------------------------------
(* Sessions.                                                                 *)

\* expires_at is RFC 3339, datetime('now') has a blank where that has a T, and
\* the comparison is one of texts: the hour does not count on the last day.
\* Mutant: both sides are dates.
DaysDiffer(row) == row.expires > today
Valid(row) == row.expires >= today

GetSession(k) == k # Null /\ sessions[k] # Null /\ Valid(sessions[k])

\* The user that the requests of browser b are from.
GetUser(b) == IF GetSession(jar[b]) THEN sessions[jar[b]].user ELSE Null

\* Without the sessions that are no longer valid: DeleteExpiredSessions.
\* Mutant: the sessions of the user are deleted with them.
WithoutUser(u) ==
    [k \in Token |-> IF sessions[k] # Null /\ (~Valid(sessions[k]) \/ sessions[k].user = u)
                     THEN Null ELSE sessions[k]]
WithoutExpired(u) ==
    [k \in Token |-> IF sessions[k] # Null /\ ~Valid(sessions[k]) THEN Null ELSE sessions[k]]

------------------------------------------------------------------------------
(* Signing in.                                                               *)

\* Google sends the browser back with a code for the account chosen there.
Callback(b, u) ==
    /\ At(b, "idle")
    /\ Become(b, [pc |-> "exchange", user |-> u])
    /\ UNCHANGED <<today, published, cache, mutex, sessions, jar>>

\* The ID token comes, signed by a key that is published then.
Exchange(b, k) ==
    /\ At(b, "exchange") /\ Holds(published, k)
    /\ Become(b, [pc |-> "lock", user |-> attempt[b].user, kid |-> k, again |-> FALSE])
    /\ UNCHANGED <<today, published, cache, mutex, sessions, jar>>

\* Google refuses, its answer fails, or the browser hangs up.
ExchangeFails(b) ==
    /\ At(b, "exchange")
    /\ Become(b, Idle)
    /\ UNCHANGED <<today, published, cache, mutex, sessions, jar>>

\* What the callback does with the keys it gets: it goes on, empties the cache
\* and asks again, or answers; "refused" is the answer when there were keys.
Judge(b, keys) ==
    Become(b, IF Holds(keys, attempt[b].kid) THEN [pc |-> "verified", user |-> attempt[b].user]
              ELSE IF ~attempt[b].again
                THEN [pc |-> "refresh", user |-> attempt[b].user, kid |-> attempt[b].kid, again |-> FALSE]
              ELSE IF keys # NoKeys THEN [pc |-> "refused", kid |-> attempt[b].kid]
              ELSE Idle)

\* fetchGoogleKeys with keys in the cache that are less than an hour old.
UseCache(b) ==
    /\ At(b, "lock") /\ mutex = Null
    /\ cache # Null /\ cache.fresh
    /\ Judge(b, cache.keys)
    /\ UNCHANGED <<today, published, cache, mutex, sessions, jar>>

\* Mutant: the mutex is free during the request.
AskGoogleUnlocked(b) ==
    /\ At(b, "lock") /\ mutex = Null
    /\ cache # Null => ~cache.fresh
    /\ Become(b, [attempt[b] EXCEPT !.pc = "fetch"])
    /\ UNCHANGED <<today, published, cache, mutex, sessions, jar>>
AskGoogle(b) ==
    /\ At(b, "lock") /\ mutex = Null
    /\ cache # Null => ~cache.fresh
    /\ mutex' = b
    /\ Become(b, [attempt[b] EXCEPT !.pc = "fetch"])
    /\ UNCHANGED <<today, published, cache, sessions, jar>>

\* Google answers with the keys of the moment, which may change before the
\* answer arrives.  Its status is not looked at: an error in JSON is no keys.
Answer(b, keys) ==
    /\ At(b, "fetch") /\ keys \in {published, NoKeys}
    /\ Become(b, [pc |-> "fetched", user |-> attempt[b].user, kid |-> attempt[b].kid,
                  again |-> attempt[b].again, keys |-> keys])
    /\ UNCHANGED <<today, published, cache, mutex, sessions, jar>>

Fetched(b) ==
    /\ At(b, "fetched")
    /\ cache' = [keys |-> attempt[b].keys, fresh |-> TRUE]
    /\ mutex' = Null
    /\ Judge(b, attempt[b].keys)
    /\ UNCHANGED <<today, published, sessions, jar>>

\* Mutant: the mutex is not unlocked on this path.
FetchFailsLocked(b) ==
    /\ attempt[b].pc \in {"fetch", "fetched"}
    /\ Become(b, Idle)
    /\ UNCHANGED <<today, published, cache, mutex, sessions, jar>>
FetchFails(b) ==
    /\ attempt[b].pc \in {"fetch", "fetched"}
    /\ mutex' = Null
    /\ Become(b, Idle)
    /\ UNCHANGED <<today, published, cache, sessions, jar>>

\* "Keys may have rotated, force refresh": the cache is emptied, and the keys
\* are fetched again, by this callback or one that is faster.
Refresh(b) ==
    /\ At(b, "refresh") /\ mutex = Null
    /\ cache' = Null
    /\ Become(b, [attempt[b] EXCEPT !.pc = "lock", !.again = TRUE])
    /\ UNCHANGED <<today, published, mutex, sessions, jar>>

\* "no matching key found"
Refused(b) ==
    /\ At(b, "refused")
    /\ Become(b, Idle)
    /\ UNCHANGED <<today, published, cache, mutex, sessions, jar>>

\* The statements on sessions and the answer with the cookie; an error of the
\* first statement is not looked at.  A uuid is new: no row and no cookie has it.
FreeTokens == {k \in Token : sessions[k] = Null /\ \A b \in Browser : jar[b] # k}
NewToken == CHOOSE k \in FreeTokens : TRUE

SignedIn(b) ==
    /\ At(b, "verified") /\ FreeTokens # {}
    /\ \E left \in {sessions, WithoutExpired(attempt[b].user)} :
         sessions' = [left EXCEPT ![NewToken] = [user |-> attempt[b].user, expires |-> today + Life]]
    /\ jar' = [jar EXCEPT ![b] = NewToken]
    /\ Become(b, Idle)
    /\ UNCHANGED <<today, published, cache, mutex>>

SessionFails(b) ==
    /\ At(b, "verified")
    /\ Become(b, Idle)
    /\ UNCHANGED <<today, published, cache, mutex, sessions, jar>>

\* An error of the statement is not looked at.
Logout(b) ==
    /\ jar[b] # Null
    /\ sessions' \in {sessions, [sessions EXCEPT ![jar[b]] = Null]}
    /\ jar' = [jar EXCEPT ![b] = Null]
    /\ UNCHANGED <<today, published, cache, mutex, attempt>>

------------------------------------------------------------------------------
(* Around the server.                                                        *)

\* Google replaces its keys.
Rotate ==
    /\ published' \in {[from |-> published.from, to |-> published.to + 1],
                       [from |-> published.from + 1, to |-> published.to]}
    /\ published' \in Keys /\ published'.from <= published'.to
    /\ UNCHANGED <<today, cache, mutex, attempt, sessions, jar>>

\* An hour passes.
Hour ==
    /\ cache # Null /\ cache.fresh
    /\ cache' = [cache EXCEPT !.fresh = FALSE]
    /\ UNCHANGED <<today, published, mutex, attempt, sessions, jar>>

\* A browser drops the cookie of a session in the course of the last day.
Expires(b) == jar[b] # Null /\ sessions[jar[b]] # Null /\ sessions[jar[b]].expires = today

DropCookie(b) ==
    /\ Expires(b)
    /\ jar' = [jar EXCEPT ![b] = Null]
    /\ UNCHANGED <<today, published, cache, mutex, attempt, sessions>>

Midnight ==
    /\ today < MaxDay
    /\ today' = today + 1
    /\ jar' = [b \in Browser |-> IF Expires(b) THEN Null ELSE jar[b]]
    /\ UNCHANGED <<published, cache, mutex, attempt, sessions>>

\* The process ends: what it kept in memory is lost, the database is not.
Forget ==
    /\ cache' = Null /\ mutex' = Null
    /\ attempt' = [b \in Browser |-> Idle]
    /\ UNCHANGED <<today, published, sessions, jar>>

\* The steps of b's callback that wait for the mutex, and its other steps: the
\* answers it waits for, one of which comes, and what it does then.
Locked(b) == UseCache(b) \/ AskGoogle(b) \/ Refresh(b)
Unlocked(b) ==
    \/ \E k \in Key : Exchange(b, k)
    \/ ExchangeFails(b)
    \/ Answer(b, published) \/ Answer(b, NoKeys) \/ Fetched(b) \/ FetchFails(b)
    \/ Refused(b) \/ SignedIn(b) \/ SessionFails(b)

SignInNext ==
    \E b \in Browser : Locked(b) \/ Unlocked(b) \/ Logout(b) \/ \E u \in User : Callback(b, u)

World == Rotate \/ Hour \/ Midnight \/ \E b \in Browser : DropCookie(b)

------------------------------------------------------------------------------
\* "no matching key found" is the answer only when Google has withdrawn the
\* token's key or gave no keys, however the callbacks that fill and empty the cache overlap
\* (google_auth.go:186-205).
PublishedKeyIsFound == \A b \in Browser : At(b, "refused") => ~Holds(published, attempt[b].kid)

\* Who a browser's requests are from changes only with the cookies of that
\* browser: neither the sign-ins and sign-outs of others, nor the removal of
\* expired sessions, nor time end a session that the browser still has a cookie
\* for (server.go:331-354, 853-865, 881-900, sessions.sql).
CookiesDecide ==
    [][\A b \in Browser : jar'[b] = jar[b] => GetUser(b)' = GetUser(b)]_<<today, sessions, jar>>

\* Every sign-in gets its answer, although all of them wait for one mutex that
\* is held while Google is asked (google_auth.go:92-117).
SignInsEnd == \A b \in Browser : ~At(b, "idle") ~> At(b, "idle")

=============================================================================
