-------------------------- MODULE CommentLimiter --------------------------
(***************************************************************************)
(* The per-client rate limit on public comments (src/srv/server.go): a map   *)
(* of token buckets made on demand, whose dormant entries a goroutine        *)
(* evicts.  Time passes in ticks; a bucket gains one unit per tick and a      *)
(* comment costs Cost units, so that 3 a minute is Cost = 20 with ticks of a  *)
(* second.  A check holds the mutex throughout and is one step.               *)
(***************************************************************************)
EXTENDS Integers, FiniteSets

CONSTANTS
  IP,         \* clients
  Burst,      \* publicCommentBurst
  Cost,       \* ticks per token: 1 / publicCommentRateLimit
  TTL,        \* commentLimiterTTL
  Crowd,      \* the map size above which it is swept, 64 in the code
  Pause,      \* the time between two sweeps, a minute in the code
  MaxNow      \* bound of the model: the clock stops there

Cap == Burst * Cost

ASSUME CostAssumption  == Burst \in Nat /\ Cost \in Nat \ {0} /\ Cap \in Nat
ASSUME TimesAssumption == TTL \in Nat /\ Pause \in Nat /\ Crowd \in Nat /\ MaxNow \in Nat
\* `Generous (1 hour) so a returning user doesn't get a fresh burst': an evicted
\* bucket would be full.  An hour is more than 5 tokens at 3 a minute.
ASSUME TTLAssumption   == TTL >= Cap

VARIABLES
  now,      \* the clock
  known,    \* clients with an entry in the map
  bucket,   \* their entries: the tokens left at time last, and lastSeen
  cleanup,  \* commentLimiterCleanup, -Pause-1 for the zero time
  started,  \* sweeps started that have not looked at the clock
  cutoffs,  \* the cutoff times of sweeps that wait for the mutex
  granted   \* how many comments of a client were let through

vars == <<now, known, bucket, cleanup, started, cutoffs, granted>>

NewLimiter == [tokens |-> Cap, last |-> 0, seen |-> 0]

\* What rate.Limiter finds in a bucket at a time t.
TokensAt(b, t) == IF b.tokens + (t - b.last) < Cap THEN b.tokens + (t - b.last) ELSE Cap

Init ==
  /\ now = 0
  /\ known = {}
  /\ bucket = [ip \in IP |-> NewLimiter]
  /\ cleanup = -Pause - 1
  /\ started = 0
  /\ cutoffs = {}
  /\ granted = [ip \in IP |-> 0]

Tick ==
  /\ now < MaxNow
  /\ now' = now + 1
  /\ UNCHANGED <<known, bucket, cleanup, started, cutoffs, granted>>

\* Mutant: only a new entry is touched.
EntryNotTouched(ip) == IF ip \in known THEN bucket[ip]
                       ELSE [tokens |-> Cap, last |-> now, seen |-> now]

\* The entry is found or made, and touched.
Entry(ip) == IF ip \in known THEN [bucket[ip] EXCEPT !.seen = now]
             ELSE [tokens |-> Cap, last |-> now, seen |-> now]

\* A map grown large is swept, at most once per Pause.
StartSweep(size) ==
  IF size > Crowd /\ now - cleanup > Pause
    THEN cleanup' = now /\ started' = started + 1
    ELSE UNCHANGED <<cleanup, started>>

\* entry.limiter.Allow, which leaves a bucket it refuses as it was.
AllowFrom(ip, b) ==
  IF TokensAt(b, now) >= Cost
    THEN /\ bucket' = [bucket EXCEPT ![ip] = [b EXCEPT !.tokens = TokensAt(b, now) - Cost,
                                                       !.last = now]]
         /\ granted' = [granted EXCEPT ![ip] = @ + 1]
    ELSE /\ bucket' = [bucket EXCEPT ![ip] = b]
         /\ UNCHANGED granted

CheckRateLimit(ip) ==
  /\ known' = known \union {ip}
  /\ StartSweep(Cardinality(known \union {ip}))
  /\ AllowFrom(ip, Entry(ip))
  /\ UNCHANGED <<now, cutoffs>>

\* Mutant: the cutoff is a Pause ago.
ReadClockPause ==
  /\ started > 0
  /\ started' = started - 1
  /\ cutoffs' = cutoffs \union {now - Pause}
  /\ UNCHANGED <<now, known, bucket, cleanup, granted>>

\* pruneCommentLimiters takes its cutoff before it gets the mutex.
ReadClock ==
  /\ started > 0
  /\ started' = started - 1
  /\ cutoffs' = cutoffs \union {now - TTL}
  /\ UNCHANGED <<now, known, bucket, cleanup, granted>>

Sweep(cutoff) ==
  /\ cutoff \in cutoffs
  /\ cutoffs' = cutoffs \ {cutoff}
  /\ LET old == {ip \in known : bucket[ip].seen < cutoff}
     IN  /\ known' = known \ old
         /\ bucket' = [ip \in IP |-> IF ip \in old THEN NewLimiter ELSE bucket[ip]]
  /\ UNCHANGED <<now, cleanup, started, granted>>

Next == Tick \/ (\E ip \in IP : CheckRateLimit(ip)) \/ ReadClock \/ (\E t \in cutoffs : Sweep(t))

Spec == Init /\ [][Next]_vars

-----------------------------------------------------------------------------
(* Properties *)

TypeOK ==
  /\ now \in Nat
  /\ known \subseteq IP
  /\ bucket \in [IP -> [tokens : 0..Cap, last : Nat, seen : Nat]]
  /\ cleanup \in Int
  /\ started \in Nat
  /\ cutoffs \subseteq Int
  /\ granted \in [IP -> Nat]

\* A client gets its burst and then one comment per Cost ticks, however often its
\* entry was evicted and made again.
AtMostTheRate == \A ip \in IP : granted[ip] * Cost <= Cap + now

\* Nobody can tell that entries are evicted: every client behaves as if it had a
\* bucket of its own for ever.
Bucket == INSTANCE TokenBucket WITH
  level <- [ip \in IP |-> IF ip \in known THEN TokensAt(bucket[ip], now) ELSE Cap]

EvictionIsInvisible == Bucket!Spec

=============================================================================
