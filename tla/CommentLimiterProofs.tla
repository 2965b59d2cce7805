----------------------- MODULE CommentLimiterProofs -----------------------
(***************************************************************************)
(* Proofs about CommentLimiter for every number of clients, burst, rate and   *)
(* TTL: a client never gets more than its burst and the rate, and the         *)
(* eviction of entries cannot be noticed.                                     *)
(***************************************************************************)
EXTENDS CommentLimiter, TLAPS

\* The units a client's bucket holds now, evicted or not.
Level(ip) == IF ip \in known THEN TokensAt(bucket[ip], now) ELSE Cap

\* A bucket's times lie in the past, and it was touched after it was used.
TimesPast == \A ip \in IP : bucket[ip].last <= bucket[ip].seen /\ bucket[ip].seen <= now

\* A sweep that waits evicts nothing younger than TTL.
CutoffsOld == \A t \in cutoffs : t <= now - TTL

\* What a client was granted and may still take came from the burst and the time.
Credit == \A ip \in IP : granted[ip] * Cost + Level(ip) <= Cap + now

Inv == TypeOK /\ TimesPast /\ CutoffsOld /\ Credit

\* The constants as the proofs use them.
LEMMA Constants ==
  /\ Cap \in Nat /\ Cost \in Nat /\ Cost > 0
  /\ TTL \in Nat /\ TTL >= Cap /\ Pause \in Nat
BY CostAssumption, TimesAssumption, TTLAssumption

\* A bucket never holds less than nothing, nor more than Cap.
LEMMA TokensBounded ==
  ASSUME NEW b, NEW t \in Nat, b \in [tokens : 0..Cap, last : Nat, seen : Nat],
         b.last <= t
  PROVE  TokensAt(b, t) \in 0..Cap
BY Constants DEF TokensAt

\* One tick adds one unit to a bucket that is not full.
LEMMA TokensTick ==
  ASSUME NEW b, NEW t \in Nat, b \in [tokens : 0..Cap, last : Nat, seen : Nat],
         b.last <= t
  PROVE  TokensAt(b, t + 1) = IF TokensAt(b, t) < Cap THEN TokensAt(b, t) + 1 ELSE Cap
BY Constants DEF TokensAt

LEMMA LevelBounded ==
  ASSUME Inv, NEW ip \in IP
  PROVE  Level(ip) \in 0..Cap
<1>1. bucket[ip] \in [tokens : 0..Cap, last : Nat, seen : Nat] /\ now \in Nat
  BY DEF Inv, TypeOK
<1>2. bucket[ip].last <= now
  BY <1>1 DEF Inv, TimesPast
<1>3. TokensAt(bucket[ip], now) \in 0..Cap
  BY <1>1, <1>2, TokensBounded
<1> QED BY <1>3, Constants DEF Level

\* Finding or making an entry leaves the client's level as it is.
LEMMA EntryKeepsLevel ==
  ASSUME Inv, NEW ip \in IP
  PROVE  /\ Entry(ip) \in [tokens : 0..Cap, last : Nat, seen : Nat]
         /\ Entry(ip).last <= now /\ Entry(ip).seen = now
         /\ TokensAt(Entry(ip), now) = Level(ip)
<1>1. bucket[ip] \in [tokens : 0..Cap, last : Nat, seen : Nat] /\ now \in Nat
  BY DEF Inv, TypeOK
<1>2. bucket[ip].last <= now
  BY <1>1 DEF Inv, TimesPast
<1>3. CASE ip \in known
  BY <1>1, <1>2, <1>3 DEF Entry, Level, TokensAt
<1>4. CASE ip \notin known
  BY <1>1, <1>4, Constants DEF Entry, Level, TokensAt
<1> QED BY <1>3, <1>4

-----------------------------------------------------------------------------
(* What each step does to the levels *)

LEMMA TickLevels ==
  ASSUME Inv, Tick, NEW ip \in IP
  PROVE  Level(ip)' = IF Level(ip) < Cap THEN Level(ip) + 1 ELSE Cap
<1>1. bucket[ip] \in [tokens : 0..Cap, last : Nat, seen : Nat] /\ now \in Nat
  BY DEF Inv, TypeOK
<1>2. bucket[ip].last <= now
  BY <1>1 DEF Inv, TimesPast
<1>3. TokensAt(bucket[ip], now + 1)
        = IF TokensAt(bucket[ip], now) < Cap THEN TokensAt(bucket[ip], now) + 1 ELSE Cap
  BY <1>1, <1>2, TokensTick
<1>4. now' = now + 1 /\ bucket' = bucket /\ known' = known
  BY DEF Tick
<1>5. Level(ip)' = IF ip \in known THEN TokensAt(bucket[ip], now + 1) ELSE Cap
  BY <1>4 DEF Level, TokensAt
<1> QED BY <1>3, <1>5, Constants DEF Level

\* A check takes Cost units if they are there, and nothing else.
LEMMA CheckLevels ==
  ASSUME Inv, NEW ip \in IP, CheckRateLimit(ip)
  PROVE  /\ now' = now
         /\ \A x \in IP \ {ip} : Level(x)' = Level(x) /\ granted'[x] = granted[x]
         /\ \/ /\ Level(ip) >= Cost
               /\ Level(ip)' = Level(ip) - Cost
               /\ granted' = [granted EXCEPT ![ip] = @ + 1]
            \/ Level(ip)' = Level(ip) /\ granted' = granted
<1>1. /\ Entry(ip) \in [tokens : 0..Cap, last : Nat, seen : Nat]
      /\ TokensAt(Entry(ip), now) = Level(ip)
  BY EntryKeepsLevel
<1>2. Level(ip) \in 0..Cap
  BY LevelBounded
<1>3. now \in Nat /\ bucket \in [IP -> [tokens : 0..Cap, last : Nat, seen : Nat]]
      /\ granted \in [IP -> Nat]
  BY DEF Inv, TypeOK
<1>4. now' = now /\ known' = known \union {ip} /\ AllowFrom(ip, Entry(ip))
  BY DEF CheckRateLimit
<1>5. \A x \in IP \ {ip} : bucket'[x] = bucket[x] /\ granted'[x] = granted[x]
  BY <1>3, <1>4 DEF AllowFrom
<1>6. \A x \in IP \ {ip} : Level(x)' = Level(x)
  BY <1>4, <1>5 DEF Level, TokensAt
<1>7. CASE Level(ip) >= Cost
  <2>1. bucket'[ip] = [Entry(ip) EXCEPT !.tokens = Level(ip) - Cost, !.last = now]
    BY <1>1, <1>3, <1>4, <1>7 DEF AllowFrom
  <2>2. bucket'[ip].tokens = Level(ip) - Cost /\ bucket'[ip].last = now
    BY <1>1, <2>1
  <2>3. Level(ip)' = Level(ip) - Cost
    BY <1>2, <1>3, <1>4, <1>7, <2>2, Constants DEF Level, TokensAt
  <2>4. granted' = [granted EXCEPT ![ip] = @ + 1]
    BY <1>1, <1>4, <1>7 DEF AllowFrom
  <2> QED BY <1>4, <1>5, <1>6, <1>7, <2>3, <2>4
<1>8. CASE ~(Level(ip) >= Cost)
  <2>1. bucket'[ip] = Entry(ip) /\ granted' = granted
    BY <1>1, <1>3, <1>4, <1>8 DEF AllowFrom
  <2>2. Level(ip)' = TokensAt(Entry(ip), now)
    BY <1>4, <2>1 DEF Level, TokensAt
  <2> QED BY <1>1, <1>4, <1>5, <1>6, <2>1, <2>2
<1> QED BY <1>7, <1>8

\* An entry old enough to be evicted is full: a sweep changes no level.
LEMMA SweepLevels ==
  ASSUME Inv, NEW t \in cutoffs, Sweep(t), NEW ip \in IP
  PROVE  Level(ip)' = Level(ip)
<1> DEFINE old == {x \in known : bucket[x].seen < t}
<1>1. bucket[ip] \in [tokens : 0..Cap, last : Nat, seen : Nat] /\ now \in Nat /\ t \in Int
  BY DEF Inv, TypeOK
<1>2. bucket[ip].last <= bucket[ip].seen /\ bucket[ip].seen <= now /\ t <= now - TTL
  BY <1>1 DEF Inv, TimesPast, CutoffsOld
<1>3. /\ now' = now /\ known' = known \ old
      /\ bucket'[ip] = IF ip \in old THEN NewLimiter ELSE bucket[ip]
  BY DEF Sweep
<1>4. CASE ip \in old
  <2>1. now - bucket[ip].last > Cap
    BY <1>1, <1>2, <1>4, Constants
  <2>2. TokensAt(bucket[ip], now) = Cap
    BY <1>1, <2>1, Constants DEF TokensAt
  <2> QED BY <1>3, <1>4, <2>2 DEF Level
<1>5. CASE ip \notin old
  BY <1>3, <1>5 DEF Level, TokensAt
<1> QED BY <1>4, <1>5

-----------------------------------------------------------------------------
(* The invariant *)

LEMMA InitInv == Init => Inv
<1> SUFFICES ASSUME Init PROVE Inv
  OBVIOUS
<1> USE Constants
<1>1. NewLimiter \in [tokens : 0..Cap, last : Nat, seen : Nat]
  BY DEF NewLimiter
<1>2. TypeOK
  BY <1>1 DEF Init, TypeOK
<1>3. TimesPast /\ CutoffsOld
  BY DEF Init, TimesPast, CutoffsOld, NewLimiter
<1>4. Credit
  BY DEF Init, Credit, Level
<1> QED BY <1>2, <1>3, <1>4 DEF Inv

\* CostTimes(n): granting one more comment costs Cost more.
LEMMA OneMore ==
  ASSUME NEW n \in Nat
  PROVE  (n + 1) * Cost = n * Cost + Cost /\ n * Cost \in Nat
BY Constants

LEMMA TickInv == Inv /\ Tick => Inv'
<1> SUFFICES ASSUME Inv, Tick PROVE Inv'
  OBVIOUS
<1>1. now' = now + 1 /\ bucket' = bucket /\ cutoffs' = cutoffs /\ granted' = granted
      /\ now \in Nat
  BY DEF Tick, Inv, TypeOK
<1>2. TypeOK'
  BY <1>1 DEF Tick, Inv, TypeOK
<1>3. TimesPast'
  BY <1>1 DEF Inv, TypeOK, TimesPast
<1>4. CutoffsOld'
  BY <1>1, Constants DEF Inv, TypeOK, CutoffsOld
<1>5. ASSUME NEW ip \in IP PROVE granted'[ip] * Cost + Level(ip)' <= Cap + now'
  <2>1. Level(ip)' <= Level(ip) + 1 /\ Level(ip)' \in Int /\ Level(ip) \in Int
    BY TickLevels, LevelBounded, Constants
  <2>2. granted[ip] * Cost + Level(ip) <= Cap + now /\ granted[ip] * Cost \in Nat
    BY OneMore DEF Inv, Credit, TypeOK
  <2> QED BY <1>1, <2>1, <2>2, Constants
<1> QED BY <1>2, <1>3, <1>4, <1>5 DEF Inv, Credit

LEMMA CheckInv ==
  ASSUME Inv, NEW ip \in IP, CheckRateLimit(ip)
  PROVE  Inv'
<1>1. /\ Entry(ip) \in [tokens : 0..Cap, last : Nat, seen : Nat]
      /\ Entry(ip).last <= now /\ Entry(ip).seen = now
      /\ TokensAt(Entry(ip), now) = Level(ip)
  BY EntryKeepsLevel
<1>2. Level(ip) \in 0..Cap
  BY LevelBounded
<1>3. /\ now' = now /\ cutoffs' = cutoffs /\ known' = known \union {ip}
      /\ AllowFrom(ip, Entry(ip)) /\ StartSweep(Cardinality(known \union {ip}))
  BY DEF CheckRateLimit
<1>4. TypeOK
  BY DEF Inv
<1>5. /\ bucket' \in [IP -> [tokens : 0..Cap, last : Nat, seen : Nat]]
      /\ bucket'[ip].last <= now /\ bucket'[ip].seen = now
      /\ \A x \in IP \ {ip} : bucket'[x] = bucket[x]
      /\ granted' \in [IP -> Nat]
  <2> DEFINE e == Entry(ip)
             b == [e EXCEPT !.tokens = Level(ip) - Cost, !.last = now]
  <2>0. now \in Nat /\ bucket \in [IP -> [tokens : 0..Cap, last : Nat, seen : Nat]]
        /\ granted \in [IP -> Nat]
    BY <1>4 DEF TypeOK
  <2>1. CASE Level(ip) >= Cost
    <3>1. bucket' = [bucket EXCEPT ![ip] = b] /\ granted' = [granted EXCEPT ![ip] = @ + 1]
      BY <1>1, <1>3, <2>1 DEF AllowFrom
    <3>2. Level(ip) - Cost \in 0..Cap
      BY <1>2, <2>1, Constants
    <3> HIDE DEF e
    <3>3. /\ b \in [tokens : 0..Cap, last : Nat, seen : Nat]
          /\ b.last = now /\ b.seen = now
      BY <1>1, <2>0, <3>2 DEF e
    <3> QED BY <2>0, <3>1, <3>3
  <2>2. CASE ~(Level(ip) >= Cost)
    BY <1>1, <1>3, <2>0, <2>2 DEF AllowFrom
  <2> QED BY <2>1, <2>2
<1>6. cleanup' \in Int /\ started' \in Nat
  BY <1>3, <1>4 DEF StartSweep, TypeOK
<1>7. TypeOK'
  BY <1>3, <1>4, <1>5, <1>6 DEF TypeOK
<1>8. TimesPast'
  BY <1>3, <1>4, <1>5 DEF TimesPast, Inv, TypeOK
<1>9. CutoffsOld'
  BY <1>3 DEF Inv, CutoffsOld
<1>10. ASSUME NEW x \in IP PROVE granted'[x] * Cost + Level(x)' <= Cap + now'
  <2>1. granted[x] * Cost + Level(x) <= Cap + now /\ granted[x] \in Nat /\ now \in Nat
    BY <1>4 DEF Inv, Credit, TypeOK
  <2>2. (granted[x] + 1) * Cost = granted[x] * Cost + Cost /\ granted[x] * Cost \in Nat
    BY <2>1, OneMore
  <2>3. CASE x # ip
    BY <1>3, <2>1, <2>3, CheckLevels
  <2>4. CASE x = ip
    <3>1. CASE /\ Level(ip)' = Level(ip) - Cost
               /\ granted' = [granted EXCEPT ![ip] = @ + 1]
      <4>1. granted'[x] = granted[x] + 1
        BY <1>4, <2>4, <3>1 DEF TypeOK
      <4> QED BY <1>2, <1>3, <2>1, <2>2, <2>4, <3>1, <4>1, Constants
    <3>2. CASE Level(ip)' = Level(ip) /\ granted' = granted
      BY <1>3, <2>1, <2>4, <3>2
    <3> QED BY <3>1, <3>2, CheckLevels
  <2> QED BY <2>3, <2>4
<1> QED BY <1>7, <1>8, <1>9, <1>10 DEF Inv, Credit

LEMMA ReadClockInv == Inv /\ ReadClock => Inv'
<1> SUFFICES ASSUME Inv, ReadClock PROVE Inv'
  OBVIOUS
<1> USE Constants
<1>1. TypeOK'
  BY DEF Inv, TypeOK, ReadClock
<1>2. TimesPast' /\ CutoffsOld'
  BY DEF Inv, TypeOK, TimesPast, CutoffsOld, ReadClock
<1>3. Credit'
  BY DEF Inv, Credit, Level, TokensAt, ReadClock
<1> QED BY <1>1, <1>2, <1>3 DEF Inv

LEMMA SweepInv ==
  ASSUME Inv, NEW t \in cutoffs, Sweep(t)
  PROVE  Inv'
<1> USE Constants
<1>1. NewLimiter \in [tokens : 0..Cap, last : Nat, seen : Nat]
  BY DEF NewLimiter
<1>2. TypeOK'
  BY <1>1 DEF Inv, TypeOK, Sweep
<1>3. TimesPast'
  BY DEF Inv, TypeOK, TimesPast, Sweep, NewLimiter
<1>4. CutoffsOld'
  BY DEF Inv, CutoffsOld, Sweep
<1>5. now' = now /\ granted' = granted
  BY DEF Sweep
<1>6. Credit'
  BY <1>5, SweepLevels DEF Inv, Credit
<1> QED BY <1>2, <1>3, <1>4, <1>6 DEF Inv

LEMMA NextInv == Inv /\ [Next]_vars => Inv'
<1> SUFFICES ASSUME Inv, [Next]_vars PROVE Inv'
  OBVIOUS
<1>1. CASE Tick
  BY <1>1, TickInv
<1>2. CASE \E ip \in IP : CheckRateLimit(ip)
  BY <1>2, CheckInv
<1>3. CASE ReadClock
  BY <1>3, ReadClockInv
<1>4. CASE \E t \in cutoffs : Sweep(t)
  BY <1>4, SweepInv
<1>5. CASE UNCHANGED vars
  BY <1>5 DEF vars, Inv, TypeOK, TimesPast, CutoffsOld, Credit, Level, TokensAt
<1> QED BY <1>1, <1>2, <1>3, <1>4, <1>5 DEF Next

-----------------------------------------------------------------------------
(* Theorems *)

\* The invariant behind the theorems: types, times in the past, sweeps that spare
\* the young, and the credit that a client has used and has left.
THEOREM Invariant == Spec => []Inv
BY InitInv, NextInv, PTL DEF Spec

\* Every reachable state is of its type; above all no bucket is overdrawn.
THEOREM TypeCorrect == Spec => []TypeOK
<1>1. Inv => TypeOK
  BY DEF Inv
<1> QED BY <1>1, Invariant, PTL

\* By any time a client has been let through at most its burst and once per Cost
\* ticks, although entries are evicted and made anew.
THEOREM RateIsKept == Spec => []AtMostTheRate
<1>1. Inv => AtMostTheRate
  <2> SUFFICES ASSUME Inv, NEW ip \in IP PROVE granted[ip] * Cost <= Cap + now
    BY DEF AtMostTheRate
  <2>1. granted[ip] * Cost + Level(ip) <= Cap + now /\ granted[ip] \in Nat /\ now \in Nat
    BY DEF Inv, Credit, TypeOK
  <2>2. Level(ip) \in 0..Cap /\ granted[ip] * Cost \in Nat
    BY <2>1, LevelBounded, OneMore
  <2> QED BY <2>1, <2>2, Constants
<1> QED BY <1>1, Invariant, PTL

\* Every step of the limiter is a step of the clients' own, everlasting buckets, or
\* none: evicting an entry is invisible.
THEOREM EvictionCannotBeNoticed == Spec => EvictionIsInvisible
<1> DEFINE level == [ip \in IP |-> Level(ip)]
<1>1. Init => Bucket!Init
  BY DEF Init, Bucket!Init
<1>2. Inv /\ [Next]_vars => [Bucket!Next]_Bucket!vars
  <2> SUFFICES ASSUME Inv, [Next]_vars PROVE [Bucket!Next]_Bucket!vars
    OBVIOUS
  <2> USE DEF Level
  <2>1. CASE Tick
    <3>1. \A ip \in IP : Level(ip)' = IF Level(ip) < Cap THEN Level(ip) + 1 ELSE Cap
      BY <2>1, TickLevels
    <3> QED BY <2>1, <3>1 DEF Tick, Bucket!Next, Bucket!Tick
  <2>2. ASSUME NEW ip \in IP, CheckRateLimit(ip) PROVE [Bucket!Next]_Bucket!vars
    <3>1. /\ now' = now
          /\ \A x \in IP \ {ip} : Level(x)' = Level(x)
      BY <2>2, CheckLevels
    <3>2. CASE /\ Level(ip) >= Cost
               /\ Level(ip)' = Level(ip) - Cost
               /\ granted' = [granted EXCEPT ![ip] = @ + 1]
      BY <3>1, <3>2 DEF Bucket!Next, Bucket!Grant
    <3>3. CASE Level(ip)' = Level(ip) /\ granted' = granted
      BY <3>1, <3>3 DEF Bucket!vars
    <3> QED BY <2>2, <3>2, <3>3, CheckLevels
  <2>3. CASE ReadClock
    BY <2>3 DEF ReadClock, Bucket!vars, TokensAt
  <2>4. ASSUME NEW t \in cutoffs, Sweep(t) PROVE [Bucket!Next]_Bucket!vars
    <3>1. \A ip \in IP : Level(ip)' = Level(ip)
      BY <2>4, SweepLevels
    <3> QED BY <2>4, <3>1 DEF Sweep, Bucket!vars
  <2>5. CASE UNCHANGED vars
    BY <2>5 DEF vars, Bucket!vars, TokensAt
  <2> QED BY <2>1, <2>2, <2>3, <2>4, <2>5 DEF Next
<1> QED BY <1>1, <1>2, Invariant, PTL DEF Spec, EvictionIsInvisible, Bucket!Spec

=============================================================================
