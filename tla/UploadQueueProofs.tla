------------------------- MODULE UploadQueueProofs -------------------------
(***************************************************************************)
(* Theorems about UploadQueue, for any number of files, places in flight,   *)
(* retries, clicks and visits.                                              *)
(***************************************************************************)
EXTENDS UploadQueue, FiniteSetTheorems, SequenceTheorems, TLAPS

-----------------------------------------------------------------------------
(* Sets of jobs, and the least number of a set. *)

LEMMA JobsAre ==
  /\ Jobs \in Nat /\ MaxRetries \in Nat /\ Clicks \in Nat /\ Visits \in Nat
  /\ MaxConcurrent \in Nat /\ MaxConcurrent >= 1
BY BoundsAssumption

LEMMA Finite ==
  ASSUME NEW S \in SUBSET Job
  PROVE  IsFiniteSet(S) /\ Cardinality(S) \in Nat
<1>1. IsFiniteSet(Job)
  BY JobsAre, FS_Interval DEF Job
<1>2. IsFiniteSet(S)
  BY <1>1, FS_Subset
<1> QED BY <1>2, FS_CardinalityType

LEMMA LeastOf ==
  ASSUME NEW S \in SUBSET Nat, S # {}
  PROVE  \E k \in S : \A l \in S : k <= l
<1> DEFINE Less == {ss \in Nat \X Nat : ss[1] < ss[2]}
<1>1. IsWellFoundedOn(Less, Nat)
  BY NatLessThanWellFounded DEF OpToRel
<1> HIDE DEF Less
<1>2. PICK k \in S : \A l \in S : ~(<<l, k>> \in Less)
  BY <1>1, WFMin, Zenon
<1>3. ASSUME NEW l \in S PROVE k <= l
  <2>1. l \in Nat /\ k \in Nat /\ ~(<<l, k>> \in Less)
    BY <1>2
  <2>2. ~(l < k)
    BY <2>1 DEF Less
  <2> QED BY <2>1, <2>2
<1> QED BY <1>3

Distinct(q) == \A i, k \in DOMAIN q : q[i] = q[k] => i = k

\* The number of entries with one value: none, or some; one at most when the
\* entries differ.
LEMMA Counting ==
  ASSUME NEW q \in Seq(Job), NEW n \in 0..Len(q), NEW j \in Job
  PROVE  /\ Cardinality({i \in 1..n : q[i] = j}) \in Nat
         /\ Cardinality({i \in 1..n : q[i] = j}) > 0 <=> \E i \in 1..n : q[i] = j
         /\ Distinct(q) => Cardinality({i \in 1..n : q[i] = j}) <= 1
<1> DEFINE C == {i \in 1..n : q[i] = j}
<1>1. IsFiniteSet(C) /\ Cardinality(C) \in Nat
  <2>1. IsFiniteSet(1..n) /\ C \in SUBSET (1..n)
    BY FS_Interval
  <2> HIDE DEF C
  <2> QED BY <2>1, FS_Subset, FS_CardinalityType
<1>2. Cardinality(C) = 0 <=> C = {}
  BY <1>1, FS_EmptySet
<1>3. ASSUME Distinct(q), NEW i \in C PROVE C = {i}
  BY <1>3 DEF Distinct
<1>4. ASSUME Distinct(q) PROVE Cardinality(C) <= 1
  <2>1. CASE C = {}
    BY <2>1, <1>2
  <2>2. CASE C # {}
    <3>1. PICK i \in C : TRUE
      BY <2>2
    <3>2. C = {i}
      BY <1>3, <1>4
    <3>3. Cardinality(C) = 1
      BY <3>2, FS_Singleton, Zenon
    <3> QED BY <3>3
  <2> QED BY <2>1, <2>2
<1>5. C # {} <=> \E i \in 1..n : q[i] = j
  OBVIOUS
<1> HIDE DEF C
<1>6. Cardinality(C) > 0 <=> \E i \in 1..n : q[i] = j
  BY <1>1, <1>2, <1>5
<1> QED BY <1>1, <1>4, <1>6 DEF C

\* dispatchNext takes entries until enough jobs are in flight, and no more.
LEMMA TakenIs ==
  ASSUME NEW q \in Seq(Job), NEW f \in SUBSET Job, NEW known \in SUBSET Job
  PROVE  /\ Taken(q, f, known) \in 0..Len(q)
         /\ \/ Taken(q, f, known) = Len(q)
            \/ Cardinality(f \union Started(q, Taken(q, f, known), known)) >= MaxConcurrent
         /\ \A m \in 0..Taken(q, f, known) - 1 :
              ~(Cardinality(f \union Started(q, m, known)) >= MaxConcurrent)
<1> DEFINE Enough(n) == Cardinality(f \union Started(q, n, known)) >= MaxConcurrent
<1> DEFINE S == {n \in 0..Len(q) : n = Len(q) \/ Enough(n)}
<1>0. Taken(q, f, known) = Min(S)
  BY DEF Taken
<1> HIDE DEF Enough
<1>1. S \in SUBSET Nat /\ Len(q) \in S
  OBVIOUS
<1>2. \E k \in S : \A l \in S : k <= l
  <2> HIDE DEF S
  <2> QED BY <1>1, LeastOf
<1>3. Min(S) \in S /\ \A l \in S : Min(S) <= l
  <2> HIDE DEF S
  <2> QED BY <1>2 DEF Min
<1>4. Min(S) \in 0..Len(q) /\ (Min(S) = Len(q) \/ Enough(Min(S)))
  <2> DEFINE k == Min(S)
  <2>1. k \in S
    BY <1>3
  <2> HIDE DEF k
  <2>2. k \in 0..Len(q) /\ (k = Len(q) \/ Enough(k))
    BY <2>1
  <2> QED BY <2>2 DEF k
<1>5. ASSUME NEW m \in 0..Min(S) - 1 PROVE ~Enough(m)
  <2> DEFINE k == Min(S)
  <2>1. k \in 0..Len(q) /\ \A l \in S : k <= l
    BY <1>3, <1>4
  <2>2. m \in 0..k - 1
    OBVIOUS
  <2> HIDE DEF k
  <2> QED BY <2>1, <2>2
<1> HIDE DEF S
<1> QED BY <1>0, <1>4, <1>5 DEF Enough

\* What dispatchNext does: it takes n entries and starts the jobs S.
Outcome(q, f, known, r, b, n, S) ==
  /\ n \in 0..Len(q) /\ S \subseteq known
  /\ S = {q[i] : i \in 1..n} \intersect known
  /\ queue' = SubSeq(q, n + 1, Len(q))
  /\ inFlight' = f \union S
  /\ running' \in [Job -> Nat]
  /\ \A j \in Job :
       /\ j \notin S => running'[j] = r[j]
       /\ j \in S => running'[j] > r[j]
       /\ Distinct(q) => running'[j] <= r[j] + 1
  /\ buttons' = b \ S
  /\ Cardinality(inFlight') <= MaxConcurrent
  /\ queue' # <<>> => inFlight' # {}

LEMMA Dispatched ==
  ASSUME NEW q \in Seq(Job), NEW f \in SUBSET Job, NEW known \in SUBSET Job,
         NEW r \in [Job -> Nat], NEW b,
         Cardinality(f) <= MaxConcurrent, Dispatch(q, f, known, r, b)
  PROVE  \E n, S : Outcome(q, f, known, r, b, n, S)
<1> DEFINE n == Taken(q, f, known)
<1> DEFINE S == Started(q, n, known)
<1> DEFINE count(j) == Cardinality({i \in 1..n : q[i] = j})
<1>1. n \in 0..Len(q) /\ (n = Len(q) \/ Cardinality(f \union S) >= MaxConcurrent)
      /\ \A m \in 0..n - 1 : ~(Cardinality(f \union Started(q, m, known)) >= MaxConcurrent)
  BY TakenIs
<1>2. /\ queue' = SubSeq(q, n + 1, Len(q))
      /\ inFlight' = f \union S
      /\ running' = [j \in Job |-> IF j \in known THEN r[j] + count(j) ELSE r[j]]
      /\ buttons' = b \ S
  BY DEF Dispatch
<1> HIDE DEF n
<1>3. S = {q[i] : i \in 1..n} \intersect known /\ S \in SUBSET known
  BY DEF Started
<1>4. \A j \in Job : /\ count(j) \in Nat
                     /\ count(j) > 0 <=> \E i \in 1..n : q[i] = j
                     /\ Distinct(q) => count(j) <= 1
  BY <1>1, Counting
<1>5. \A j \in known : j \in S <=> \E i \in 1..n : q[i] = j
  BY <1>3
<1> HIDE DEF count, S
<1>6. running' \in [Job -> Nat]
  BY <1>2, <1>4
<1>7. ASSUME NEW j \in Job
      PROVE  /\ j \notin S => running'[j] = r[j]
             /\ j \in S => running'[j] > r[j]
             /\ Distinct(q) => running'[j] <= r[j] + 1
  <2>1. r[j] \in Nat /\ count(j) \in Nat
    BY <1>4
  <2>2. running'[j] = IF j \in known THEN r[j] + count(j) ELSE r[j]
    BY <1>2
  <2>3. CASE j \notin known
    BY <2>1, <2>2, <2>3, <1>3
  <2>4. CASE j \in known
    <3>1. j \in S <=> count(j) > 0
      BY <2>4, <1>4, <1>5
    <3>2. Distinct(q) => count(j) <= 1
      BY <1>4
    <3> QED BY <2>1, <2>2, <2>4, <3>1, <3>2
  <2> QED BY <2>3, <2>4
<1>8. Cardinality(f \union S) <= MaxConcurrent
  <2>1. CASE n = 0
    <3>1. f \union S = f
      BY <2>1, <1>3
    <3> QED BY <3>1
  <2>2. CASE n # 0
    <3> DEFINE T == f \union Started(q, n - 1, known)
    <3>1. n - 1 \in 0..n - 1 /\ n \in 1..Len(q) /\ q[n] \in Job
      BY <1>1, <2>2
    <3>2. ~(Cardinality(T) >= MaxConcurrent)
      BY <1>1, <3>1
    <3>3. T \in SUBSET Job
      BY DEF Started
    <3>4. f \union S \in SUBSET (T \union {q[n]})
      BY <1>3, <3>1 DEF Started
    <3> HIDE DEF T
    <3>5. IsFiniteSet(T) /\ Cardinality(T) \in Nat
      BY <3>3, Finite
    <3>6. /\ IsFiniteSet(T \union {q[n]})
          /\ Cardinality(T \union {q[n]}) = IF q[n] \in T THEN Cardinality(T) ELSE Cardinality(T) + 1
      BY <3>5, FS_AddElement
    <3>7. Cardinality(f \union S) <= Cardinality(T \union {q[n]})
      BY <3>4, <3>6, FS_Subset
    <3>8. Cardinality(f \union S) \in Nat
      BY <1>3, Finite
    <3> QED BY <3>2, <3>5, <3>6, <3>7, <3>8, JobsAre
  <2> QED BY <2>1, <2>2
<1>9. ASSUME queue' # <<>> PROVE inFlight' # {}
  <2>1. n # Len(q)
    BY <1>1, <1>2, <1>9
  <2>2. Cardinality(f \union S) >= 1 /\ Cardinality(f \union S) # 0
    <3>1. Cardinality(f \union S) \in Nat
      BY <1>3, Finite
    <3> QED BY <1>1, <2>1, <3>1, JobsAre
  <2> QED BY <2>2, <1>2, FS_EmptySet
<1> QED BY <1>1, <1>2, <1>3, <1>6, <1>7, <1>8, <1>9 DEF Outcome

\* The rest of a queue after its first n entries.
LEMMA RestOf ==
  ASSUME NEW q \in Seq(Job), NEW n \in 0..Len(q)
  PROVE  /\ SubSeq(q, n + 1, Len(q)) \in Seq(Job)
         /\ \A i \in DOMAIN SubSeq(q, n + 1, Len(q)) :
              \E k \in DOMAIN q : k \notin 1..n /\ SubSeq(q, n + 1, Len(q))[i] = q[k]
         /\ Distinct(q) => Distinct(SubSeq(q, n + 1, Len(q)))
         /\ \A k \in DOMAIN q : k \notin 1..n => SubSeq(q, n + 1, Len(q)) # <<>>
         /\ 1..n \subseteq DOMAIN q
<1> DEFINE s == SubSeq(q, n + 1, Len(q))
<1>0. Len(q) \in Nat /\ n \in Nat /\ n <= Len(q) /\ DOMAIN q = 1..Len(q)
  OBVIOUS
<1>1. s \in Seq(Job) /\ Len(s) = Len(q) - n
  OBVIOUS
<1>a. \A i \in 1..Len(q) - n : s[i] = q[i + n]
  OBVIOUS
<1> HIDE DEF s
<1>b. DOMAIN s = 1..Len(q) - n
  BY <1>1
<1>2. ASSUME NEW i \in DOMAIN s PROVE i \in Nat /\ i + n \in DOMAIN q /\ i + n \notin 1..n /\ s[i] = q[i + n]
  <2>1. s[i] = q[i + n] /\ i \in 1..Len(q) - n
    BY <1>a, <1>b
  <2>2. i \in Nat /\ i + n \in 1..Len(q) /\ i + n \notin 1..n
    BY <1>0, <2>1
  <2> QED BY <1>0, <2>1, <2>2
<1>3. Distinct(q) => Distinct(s)
  <2> SUFFICES ASSUME Distinct(q), NEW i \in DOMAIN s, NEW k \in DOMAIN s, s[i] = s[k] PROVE i = k
    BY DEF Distinct
  <2>1. i + n = k + n
    BY <1>2 DEF Distinct
  <2> QED BY <2>1, <1>2
<1>4. ASSUME NEW k \in DOMAIN q, k \notin 1..n PROVE s # <<>>
  <2>1. Len(s) > 0
    BY <1>0, <1>1, <1>4
  <2> QED BY <2>1
<1>5. 1..n \subseteq DOMAIN q
  BY <1>0
<1> QED BY <1>1, <1>2, <1>3, <1>4, <1>5 DEF s

-----------------------------------------------------------------------------
(* The invariant. *)

\* The entries of queue q, the jobs f in flight with their runs r, and those
\* whose retries w wait, are different jobs.
Single(q, f, r, w) ==
  /\ Distinct(q)
  /\ \A j \in Job : r[j] + w[j] <= 1 /\ (j \in f <=> r[j] > 0)
  /\ \A i \in DOMAIN q : r[q[i]] = 0 /\ w[q[i]] = 0

\* Job j is in no place: it has not been added yet, or has ended.
Nowhere(j) == j \notin Queued /\ running[j] = 0 /\ timers[j] = 0

\* Something will come back to the queue.
Active == \E k \in Job : running[k] > 0 \/ timers[k] > 0

\* Whatever the user does.
Always ==
  /\ clicks \in Nat /\ visits \in Nat
  /\ done \subseteq 1..added /\ failed \subseteq 1..added /\ unsorted \subseteq 1..added
  /\ \A j \in Job : j > added => Nowhere(j)
  /\ \A j \in inFlight : running[j] > 0
  /\ Cardinality(inFlight) <= MaxConcurrent
  /\ queue # <<>> => Active

\* As long as no job can run twice: jobs that have ended are nowhere, and the
\* buttons before the first click are those of failed jobs.
Apart ==
  /\ Single(queue, inFlight, running, timers)
  /\ done \intersect failed = {}
  /\ \A j \in done \union failed : Nowhere(j)
  /\ clicks = 0 => buttons \subseteq failed

\* As long as the user stays on the page.
Stays ==
  /\ trip \in Trip
  /\ \A j \in 1..added : home[j] = trip
  /\ \A i \in DOMAIN tasks : tasks[i].trip \in {trip, NoTrip} /\ (tasks[i].stage = "sorting" => tasks[i].trip = trip)

QueueInv ==
  /\ TypeOK
  /\ Always
  /\ clicks < 2 => Apart
  /\ visits = 0 => Stays
  /\ PhotosGetSorted

-----------------------------------------------------------------------------
(* dispatchNext and the invariant. *)

LEMMA QueuedIs == \A j : j \in Queued <=> \E i \in DOMAIN queue : queue[i] = j
BY DEF Queued, Range

\* What dispatchNext leaves of queue q, and what it adds to the runs r.
Leaves(q, f, known, r, b) ==
  /\ queue' \in Seq(Job) /\ inFlight' \in SUBSET Job /\ running' \in [Job -> Nat]
  /\ buttons' \subseteq b
  /\ \A i \in DOMAIN queue' : \E k \in DOMAIN q : queue'[i] = q[k]
  /\ \A j \in Job : running'[j] >= r[j]
  /\ \A j \in Job : running'[j] > r[j] => \E k \in DOMAIN q : q[k] = j
  /\ \A j \in inFlight' : j \in f \/ running'[j] > r[j]
  /\ Cardinality(inFlight') <= MaxConcurrent
  /\ queue' # <<>> => inFlight' # {}
  /\ \A k \in DOMAIN q : q[k] \in known => queue' # <<>> \/ inFlight' # {}

LEMMA DispatchKeeps ==
  ASSUME NEW q \in Seq(Job), NEW f \in SUBSET Job, NEW known \in SUBSET Job,
         NEW r \in [Job -> Nat], NEW b,
         Cardinality(f) <= MaxConcurrent, Dispatch(q, f, known, r, b)
  PROVE  Leaves(q, f, known, r, b)
<1>1. PICK n, S : Outcome(q, f, known, r, b, n, S)
  BY Dispatched, Zenon
<1>2. n \in 0..Len(q) /\ queue' = SubSeq(q, n + 1, Len(q)) /\ S = {q[i] : i \in 1..n} \intersect known
  BY <1>1, Zenon DEF Outcome
<1>3. /\ queue' \in Seq(Job)
      /\ \A i \in DOMAIN queue' : \E k \in DOMAIN q : k \notin 1..n /\ queue'[i] = q[k]
      /\ Distinct(q) => Distinct(queue')
      /\ \A k \in DOMAIN q : k \notin 1..n => queue' # <<>>
      /\ 1..n \subseteq DOMAIN q
  BY <1>2, RestOf
<1>4. \A j : j \in S <=> j \in known /\ \E i \in 1..n : q[i] = j
  BY <1>2
<1>5. \A j \in S : \E k \in DOMAIN q : q[k] = j
  BY <1>3, <1>4
<1>6. \A j \in Job : running'[j] \in Nat /\ r[j] \in Nat /\ (running'[j] > r[j] <=> j \in S) /\ running'[j] >= r[j]
  BY <1>1, SMTT(30) DEF Outcome
<1>7. inFlight' = f \union S /\ S \subseteq Job
  BY <1>1 DEF Outcome
<1>8. ASSUME NEW k \in DOMAIN q, q[k] \in known PROVE queue' # <<>> \/ inFlight' # {}
  <2>1. CASE k \in 1..n
    BY <1>4, <1>7, <1>8, <2>1
  <2>2. CASE k \notin 1..n
    BY <1>3, <2>2
  <2> QED BY <2>1, <2>2
<1>9. /\ buttons' \subseteq b /\ Cardinality(inFlight') <= MaxConcurrent
      /\ queue' # <<>> => inFlight' # {}
      /\ running' \in [Job -> Nat]
  BY <1>1 DEF Outcome
<1> QED BY <1>3, <1>5, <1>6, <1>7, <1>8, <1>9 DEF Leaves

LEMMA DispatchSingle ==
  ASSUME NEW q \in Seq(Job), NEW f \in SUBSET Job, NEW known \in SUBSET Job,
         NEW r \in [Job -> Nat], NEW b, NEW w \in [Job -> Nat],
         Cardinality(f) <= MaxConcurrent, Dispatch(q, f, known, r, b), Single(q, f, r, w)
  PROVE  Single(queue', inFlight', running', w)
<1>1. PICK n, S : Outcome(q, f, known, r, b, n, S)
  BY Dispatched, Zenon
<1>2. n \in 0..Len(q) /\ queue' = SubSeq(q, n + 1, Len(q)) /\ S = {q[i] : i \in 1..n} \intersect known
  BY <1>1, Zenon DEF Outcome
<1>3. /\ queue' \in Seq(Job)
      /\ \A i \in DOMAIN queue' : \E k \in DOMAIN q : k \notin 1..n /\ queue'[i] = q[k]
      /\ Distinct(q) => Distinct(queue')
      /\ \A k \in DOMAIN q : k \notin 1..n => queue' # <<>>
      /\ 1..n \subseteq DOMAIN q
  BY <1>2, RestOf
<1>4. \A j : j \in S <=> j \in known /\ \E i \in 1..n : q[i] = j
  BY <1>2
<1>5. Distinct(queue') /\ Distinct(q)
  BY <1>3 DEF Single
<1>6. \A j \in S : r[j] = 0 /\ w[j] = 0
  BY <1>3, <1>4 DEF Single
<1>7. ASSUME NEW j \in Job PROVE running'[j] + w[j] <= 1 /\ (j \in inFlight' <=> running'[j] > 0)
  <2>1. /\ r[j] \in Nat /\ w[j] \in Nat /\ running'[j] \in Nat
        /\ running'[j] <= r[j] + 1
        /\ j \in S => running'[j] > r[j]
        /\ j \notin S => running'[j] = r[j]
        /\ inFlight' = f \union S
    BY <1>1, <1>5 DEF Outcome
  <2>2. r[j] + w[j] <= 1 /\ (j \in f <=> r[j] > 0)
    BY DEF Single
  <2> QED BY <1>6, <2>1, <2>2
<1>8. ASSUME NEW i \in DOMAIN queue' PROVE running'[queue'[i]] = 0 /\ w[queue'[i]] = 0
  <2>1. PICK k \in DOMAIN q : k \notin 1..n /\ queue'[i] = q[k]
    BY <1>3
  <2>2. q[k] \notin S
    BY <1>3, <1>4, <1>5, <2>1, ZenonT(40) DEF Distinct
  <2>3. r[q[k]] = 0 /\ w[q[k]] = 0 /\ q[k] \in Job
    BY <2>1 DEF Single
  <2>4. running'[q[k]] = r[q[k]]
    BY <1>1, <2>2, <2>3 DEF Outcome
  <2> QED BY <2>1, <2>3, <2>4
<1> QED BY <1>5, <1>7, <1>8 DEF Single

\* What checkAllUploadsFinished leaves: the tasks there were, and one more when
\* nothing is queued or in flight.
LEMMA Checked ==
  ASSUME TypeOK, NEW bad, CheckAllFinished(bad)
  PROVE  /\ tasks' \in Seq(Task)
         /\ \A i \in DOMAIN tasks : i \in DOMAIN tasks' /\ tasks'[i] = tasks[i]
         /\ \A i \in DOMAIN tasks' :
              \/ i \in DOMAIN tasks /\ tasks'[i] = tasks[i]
              \/ tasks'[i].stage = "settle" /\ tasks'[i].trip = NoTrip
         /\ inFlight' # {} \/ queue' # <<>> \/ \E i \in DOMAIN tasks' : tasks'[i].stage = "settle"
<1> DEFINE new == [stage |-> "settle", trip |-> NoTrip, later |-> {}, first |-> {},
                   hasFailed |-> jobs \intersect bad # {}]
<1>1. new \in Task /\ new.stage = "settle" /\ new.trip = NoTrip
  BY DEF Task
<1>2. tasks \in Seq(Task)
  BY DEF TypeOK
<1>3. tasks' = IF inFlight' # {} \/ queue' # <<>> THEN tasks ELSE Append(tasks, new)
  BY DEF CheckAllFinished
<1> HIDE DEF new
<1>4. CASE inFlight' # {} \/ queue' # <<>>
  BY <1>2, <1>3, <1>4
<1>5. CASE ~(inFlight' # {} \/ queue' # <<>>)
  <2>1. tasks' = Append(tasks, new)
    BY <1>3, <1>5
  <2>2. /\ tasks' \in Seq(Task) /\ DOMAIN tasks' = 1..Len(tasks) + 1
        /\ tasks'[Len(tasks) + 1] = new
        /\ \A i \in 1..Len(tasks) : tasks'[i] = tasks[i]
    BY <1>1, <1>2, <2>1
  <2>3. DOMAIN tasks = 1..Len(tasks) /\ Len(tasks) \in Nat
    BY <1>2
  <2> QED BY <1>1, <2>2, <2>3
<1> QED BY <1>4, <1>5

LEMMA Removed ==
  ASSUME NEW T, NEW s \in Seq(T), NEW i \in DOMAIN s
  PROVE  /\ RemoveAt(s, i) \in Seq(T)
         /\ \A m \in DOMAIN RemoveAt(s, i) : \E k \in DOMAIN s : RemoveAt(s, i)[m] = s[k]
         /\ \A k \in DOMAIN s : k # i => \E m \in DOMAIN RemoveAt(s, i) : RemoveAt(s, i)[m] = s[k]
<1> DEFINE a == SubSeq(s, 1, i - 1)
<1> DEFINE z == SubSeq(s, i + 1, Len(s))
<1> DEFINE y == RemoveAt(s, i)
<1>0. i \in 1..Len(s) /\ Len(s) \in Nat
  OBVIOUS
<1>1. a \in Seq(T) /\ Len(a) = i - 1 /\ \A m \in 1..i - 1 : a[m] = s[m]
  BY <1>0
<1>2. z \in Seq(T) /\ Len(z) = Len(s) - i /\ \A m \in 1..Len(s) - i : z[m] = s[m + i]
  BY <1>0
<1>3. y = a \o z
  BY DEF RemoveAt
<1> HIDE DEF a, z, y
<1>4. y \in Seq(T) /\ Len(y) = Len(s) - 1
      /\ \A m \in 1..Len(s) - 1 : y[m] = IF m <= i - 1 THEN a[m] ELSE z[m - (i - 1)]
  <2>1. Len(a) = i - 1 /\ Len(a) + Len(z) = Len(s) - 1 /\ a \in Seq(T) /\ z \in Seq(T)
    BY <1>0, <1>1, <1>2
  <2>2. y \in Seq(T) /\ Len(y) = Len(a) + Len(z)
        /\ \A m \in 1..Len(a) + Len(z) : y[m] = IF m <= Len(a) THEN a[m] ELSE z[m - Len(a)]
    BY <1>3, <2>1, ConcatProperties
  <2> QED BY <2>1, <2>2
<1>5. \A m \in 1..Len(s) - 1 : y[m] = IF m <= i - 1 THEN s[m] ELSE s[m + 1]
  <2> SUFFICES ASSUME NEW m \in 1..Len(s) - 1 PROVE y[m] = IF m <= i - 1 THEN s[m] ELSE s[m + 1]
    OBVIOUS
  <2>1. CASE m <= i - 1
    BY <1>0, <1>1, <1>4, <2>1
  <2>2. CASE m > i - 1
    <3> DEFINE l == m - (i - 1)
    <3>1. l \in 1..Len(s) - i /\ l + i = m + 1 /\ ~(m <= i - 1)
      BY <1>0, <2>2
    <3>2. y[m] = z[l]
      BY <1>4, <3>1
    <3> HIDE DEF l
    <3> QED BY <1>2, <3>1, <3>2
  <2> QED BY <2>1, <2>2
<1>6. DOMAIN y = 1..Len(s) - 1 /\ DOMAIN s = 1..Len(s)
  BY <1>4
<1>7. \A m \in DOMAIN y : \E k \in DOMAIN s : y[m] = s[k]
  BY <1>0, <1>5, <1>6, SMTT(30)
<1>8. ASSUME NEW k \in DOMAIN s, k # i PROVE \E m \in DOMAIN y : y[m] = s[k]
  <2>1. CASE k < i
    <3>1. k \in 1..Len(s) - 1 /\ k <= i - 1
      BY <1>0, <1>6, <2>1
    <3> QED BY <1>5, <1>6, <3>1
  <2>2. CASE k > i
    <3>1. k - 1 \in 1..Len(s) - 1 /\ ~(k - 1 <= i - 1) /\ k - 1 + 1 = k
      BY <1>0, <1>6, <2>2
    <3> QED BY <1>5, <1>6, <3>1
  <2> QED BY <1>0, <1>6, <1>8, <2>1, <2>2
<1> QED BY <1>4, <1>7, <1>8 DEF y

\* Two queues, one after the other.
LEMMA Joined ==
  ASSUME NEW a \in Seq(Job), NEW z \in Seq(Job)
  PROVE  /\ a \o z \in Seq(Job)
         /\ \A m \in DOMAIN (a \o z) : (\E i \in DOMAIN a : (a \o z)[m] = a[i]) \/ (\E i \in DOMAIN z : (a \o z)[m] = z[i])
         /\ \A i \in DOMAIN a : \E m \in DOMAIN (a \o z) : (a \o z)[m] = a[i]
         /\ \A i \in DOMAIN z : \E m \in DOMAIN (a \o z) : (a \o z)[m] = z[i]
         /\ Distinct(a) /\ Distinct(z) /\ (\A i \in DOMAIN a, k \in DOMAIN z : a[i] # z[k]) => Distinct(a \o z)
<1> DEFINE y == a \o z
<1>1. y \in Seq(Job) /\ Len(y) = Len(a) + Len(z)
      /\ \A m \in 1..Len(a) + Len(z) : y[m] = IF m <= Len(a) THEN a[m] ELSE z[m - Len(a)]
  BY ConcatProperties
<1>2. /\ DOMAIN y = 1..Len(y) /\ DOMAIN a = 1..Len(a) /\ DOMAIN z = 1..Len(z)
      /\ Len(a) \in Nat /\ Len(z) \in Nat /\ Len(y) \in Nat
  BY <1>1
<1> HIDE DEF y
<1>3. ASSUME NEW i \in DOMAIN a PROVE i \in DOMAIN y /\ y[i] = a[i]
  BY <1>1, <1>2
<1>4. ASSUME NEW i \in DOMAIN z PROVE i + Len(a) \in DOMAIN y /\ y[i + Len(a)] = z[i]
  <2> DEFINE m == i + Len(a)
  <2>1. m \in 1..Len(a) + Len(z) /\ ~(m <= Len(a)) /\ m - Len(a) = i
    BY <1>2
  <2> HIDE DEF m
  <2>2. m \in DOMAIN y /\ y[m] = z[i]
    BY <1>1, <1>2, <2>1
  <2> QED BY <2>2 DEF m
<1>5. ASSUME NEW m \in DOMAIN y
      PROVE  \/ m \in DOMAIN a /\ y[m] = a[m]
             \/ \E i \in DOMAIN z : m = i + Len(a) /\ y[m] = z[i]
  <2>1. m \in 1..Len(a) + Len(z)
    BY <1>1, <1>2
  <2>2. CASE m <= Len(a)
    BY <1>1, <1>2, <2>1, <2>2
  <2>3. CASE m > Len(a)
    <3> DEFINE i == m - Len(a)
    <3>1. i \in DOMAIN z /\ m = i + Len(a) /\ ~(m <= Len(a))
      BY <1>2, <2>1, <2>3
    <3>2. y[m] = z[i]
      BY <1>1, <2>1, <3>1
    <3> HIDE DEF i
    <3> QED BY <3>1, <3>2
  <2> QED BY <1>2, <2>1, <2>2, <2>3
<1>6. ASSUME Distinct(a), Distinct(z), \A i \in DOMAIN a, k \in DOMAIN z : a[i] # z[k],
             NEW l \in DOMAIN y, NEW m \in DOMAIN y, y[l] = y[m]
      PROVE  l = m
  BY <1>5, <1>6 DEF Distinct
<1>7. Distinct(a) /\ Distinct(z) /\ (\A i \in DOMAIN a, k \in DOMAIN z : a[i] # z[k]) => Distinct(y)
  BY <1>6 DEF Distinct
<1> QED BY <1>1, <1>3, <1>4, <1>5, <1>7 DEF y

\* dispatchNext and the parts of the invariant.
After(q, f, known, r) ==
  /\ \A j \in Job : (\A k \in DOMAIN q : q[k] # j) /\ r[j] = 0 => j \notin Queued' /\ running'[j] = 0
  /\ (\A j \in f : r[j] > 0) => \A j \in inFlight' : running'[j] > 0
  /\ (\A j \in f : r[j] > 0) /\ (queue' # <<>> \/ inFlight' # {} \/ \E k \in DOMAIN q : q[k] \in known) =>
       \E k \in Job : running'[k] > 0

LEMMA DispatchAlways ==
  ASSUME NEW q \in Seq(Job), NEW f \in SUBSET Job, NEW known \in SUBSET Job,
         NEW r \in [Job -> Nat], NEW b,
         Cardinality(f) <= MaxConcurrent, Dispatch(q, f, known, r, b)
  PROVE  After(q, f, known, r)
<1>0. Leaves(q, f, known, r, b)
  BY DispatchKeeps, Zenon
<1>1. /\ queue' \in Seq(Job) /\ inFlight' \in SUBSET Job /\ running' \in [Job -> Nat]
      /\ \A i \in DOMAIN queue' : \E k \in DOMAIN q : queue'[i] = q[k]
      /\ \A j \in Job : running'[j] >= r[j]
      /\ \A j \in Job : running'[j] > r[j] => \E k \in DOMAIN q : q[k] = j
      /\ \A j \in inFlight' : j \in f \/ running'[j] > r[j]
      /\ queue' # <<>> => inFlight' # {}
      /\ \A k \in DOMAIN q : q[k] \in known => queue' # <<>> \/ inFlight' # {}
  BY <1>0, Zenon DEF Leaves
<1>2. \A j \in Job : running'[j] \in Nat /\ r[j] \in Nat
  <2>1. running' \in [Job -> Nat]
    BY <1>1
  <2> QED BY <2>1
<1>3. ASSUME NEW j \in Job, \A k \in DOMAIN q : q[k] # j, r[j] = 0 PROVE j \notin Queued' /\ running'[j] = 0
  <2>1. j \notin Queued'
    BY <1>1, <1>3 DEF Queued, Range
  <2>2. running'[j] = 0
    BY <1>1, <1>2, <1>3
  <2> QED BY <2>1, <2>2
<1>4. ASSUME \A j \in f : r[j] > 0 PROVE \A j \in inFlight' : running'[j] > 0
  BY <1>1, <1>2, <1>4
<1>5. ASSUME \A j \in f : r[j] > 0, queue' # <<>> \/ inFlight' # {} \/ \E k \in DOMAIN q : q[k] \in known
      PROVE  \E k \in Job : running'[k] > 0
  <2>1. inFlight' # {}
    BY <1>1, <1>5
  <2> QED BY <1>1, <1>4, <1>5, <2>1
<1> QED BY <1>3, <1>4, <1>5 DEF After

LEMMA Bounds ==
  ASSUME TypeOK
  PROVE  /\ added \in Nat /\ added <= Jobs
         /\ jobs \in SUBSET Job /\ inFlight \in SUBSET Job
         /\ queue \in Seq(Job) /\ tasks \in Seq(Task)
         /\ \A j \in Job : running[j] \in Nat /\ timers[j] \in Nat /\ retries[j] \in 0..MaxRetries
BY JobsAre DEF TypeOK, Job

LEMMA ActiveIs ==
  ASSUME TypeOK
  PROVE  Active <=> \E k \in Job : running[k] + timers[k] > 0
BY Bounds DEF Active

\* One run of job j has ended.
LEMMA RunEnds ==
  ASSUME TypeOK, Always, NEW j \in Job, running[j] > 0, NEW r, r = [running EXCEPT ![j] = @ - 1]
  PROVE  /\ r \in [Job -> Nat] /\ r[j] = running[j] - 1 /\ \A k \in Job : k # j => r[k] = running[k]
         /\ inFlight \ {j} \in SUBSET Job /\ Cardinality(inFlight \ {j}) <= MaxConcurrent
         /\ \A k \in inFlight \ {j} : r[k] > 0
         /\ j <= added
         /\ Single(queue, inFlight, running, timers) =>
              Single(queue, inFlight \ {j}, r, timers) /\ r[j] = 0 /\ timers[j] = 0 /\ j \notin Queued
<1>1. r \in [Job -> Nat] /\ r[j] = running[j] - 1 /\ \A k \in Job : k # j => r[k] = running[k]
  BY Bounds DEF TypeOK
<1>2. Cardinality(inFlight \ {j}) <= MaxConcurrent
  <2>1. inFlight \in SUBSET Job /\ IsFiniteSet(inFlight) /\ Cardinality(inFlight) \in Nat
    BY Bounds, Finite
  <2>2. Cardinality(inFlight \ {j}) <= Cardinality(inFlight) /\ Cardinality(inFlight \ {j}) \in Nat
    BY <2>1, FS_Subset, Finite
  <2> QED BY <2>1, <2>2, JobsAre DEF Always
<1>3. \A k \in inFlight \ {j} : r[k] > 0
  BY <1>1, Bounds DEF Always
<1>4. j <= added
  <2> SUFFICES ASSUME ~(j <= added) PROVE FALSE
    OBVIOUS
  <2>1. j > added
    BY Bounds DEF Job
  <2> QED BY <2>1, Bounds DEF Always, Nowhere
<1>5. ASSUME Single(queue, inFlight, running, timers)
      PROVE  Single(queue, inFlight \ {j}, r, timers) /\ r[j] = 0 /\ timers[j] = 0 /\ j \notin Queued
  <2>1. running[j] + timers[j] <= 1 /\ running[j] \in Nat /\ timers[j] \in Nat
    BY <1>5, Bounds DEF Single
  <2>2. r[j] = 0 /\ timers[j] = 0
    BY <1>1, <2>1
  <2>3. \A i \in DOMAIN queue : queue[i] # j /\ queue[i] \in Job
    BY <1>5, Bounds DEF Single
  <2>4. j \notin Queued
    BY <2>3, QueuedIs
  <2>5. \A k \in Job : r[k] + timers[k] <= 1 /\ (k \in inFlight \ {j} <=> r[k] > 0)
    BY <1>1, <1>5, <2>2 DEF Single
  <2>6. \A i \in DOMAIN queue : r[queue[i]] = 0 /\ timers[queue[i]] = 0
    BY <1>1, <1>5, <2>3 DEF Single
  <2>7. Distinct(queue)
    BY <1>5 DEF Single
  <2> QED BY <2>2, <2>4, <2>5, <2>6, <2>7 DEF Single
<1> QED BY <1>1, <1>2, <1>3, <1>4, <1>5, Bounds

\* A step with dispatchNext, and what it must see to of the rest.
Dispatches(q, f, known, r, b) ==
  /\ q \in Seq(Job) /\ f \in SUBSET Job /\ known \in SUBSET Job /\ r \in [Job -> Nat]
  /\ Cardinality(f) <= MaxConcurrent
  /\ \A k \in f : r[k] > 0
  /\ Dispatch(q, f, known, r, b)

KeepsAlways(q, r) ==
  /\ \A k \in Job : k > added' => (\A m \in DOMAIN q : q[m] # k) /\ r[k] = 0 /\ timers'[k] = 0
  /\ clicks' \in Nat /\ visits' \in Nat
  /\ done' \subseteq 1..added' /\ failed' \subseteq 1..added' /\ unsorted' \subseteq 1..added'

KeepsApart(q, f, r, b) ==
  /\ timers' \in [Job -> Nat] /\ Single(q, f, r, timers')
  /\ done' \intersect failed' = {}
  /\ \A k \in done' \union failed' : k \in Job /\ (\A m \in DOMAIN q : q[m] # k) /\ r[k] = 0 /\ timers'[k] = 0
  /\ clicks' = 0 => b \subseteq failed'

LEMMA DispatchLeaves ==
  ASSUME NEW q, NEW f, NEW known, NEW r, NEW b, Dispatches(q, f, known, r, b)
  PROVE  /\ Leaves(q, f, known, r, b)
         /\ After(q, f, known, r)
         /\ \A w \in [Job -> Nat] : Single(q, f, r, w) => Single(queue', inFlight', running', w)
<1>1. Leaves(q, f, known, r, b)
  BY DispatchKeeps, Zenon DEF Dispatches
<1>2. After(q, f, known, r)
  BY DispatchAlways, Zenon DEF Dispatches
<1>3. ASSUME NEW w \in [Job -> Nat], Single(q, f, r, w) PROVE Single(queue', inFlight', running', w)
  BY <1>3, DispatchSingle, Zenon DEF Dispatches
<1> QED BY <1>1, <1>2, <1>3

LEMMA DispatchTypes ==
  ASSUME NEW q, NEW f, NEW known, NEW r, NEW b, Dispatches(q, f, known, r, b)
  PROVE  /\ queue' \in Seq(Job) /\ inFlight' \in SUBSET Job /\ running' \in [Job -> Nat]
         /\ buttons' \subseteq b
<1>1. Leaves(q, f, known, r, b)
  BY DispatchLeaves, Zenon
<1> QED BY <1>1, Zenon DEF Leaves

LEMMA DispatchActive ==
  ASSUME NEW q, NEW f, NEW known, NEW r, NEW b, Dispatches(q, f, known, r, b),
         inFlight' # {} \/ queue' # <<>> \/ \E k \in DOMAIN q : q[k] \in known
  PROVE  Active'
<1>1. After(q, f, known, r)
  BY DispatchLeaves, Zenon
<1>2. \A k \in f : r[k] > 0
  BY DEF Dispatches
<1> QED BY <1>1, <1>2 DEF After, Active

LEMMA AlwaysAfter ==
  ASSUME NEW q, NEW f, NEW known, NEW r, NEW b, Dispatches(q, f, known, r, b), KeepsAlways(q, r)
  PROVE  Always'
<1>1. After(q, f, known, r) /\ Leaves(q, f, known, r, b)
  BY DispatchLeaves, Zenon
<1>2. \A k \in f : r[k] > 0
  BY DEF Dispatches
<1>3. \A k \in Job : k > added' => Nowhere(k)'
  BY <1>1 DEF After, Nowhere, KeepsAlways
<1>4. \A k \in inFlight' : running'[k] > 0
  BY <1>1, <1>2 DEF After
<1>5. Cardinality(inFlight') <= MaxConcurrent
  BY <1>1, Zenon DEF Leaves
<1>6. queue' # <<>> => Active'
  BY <1>1, <1>2 DEF After, Active
<1> QED BY <1>3, <1>4, <1>5, <1>6 DEF Always, KeepsAlways

LEMMA ApartAfter ==
  ASSUME NEW q, NEW f, NEW known, NEW r, NEW b, Dispatches(q, f, known, r, b), KeepsApart(q, f, r, b)
  PROVE  Apart'
<1>1. After(q, f, known, r) /\ buttons' \subseteq b
  BY DispatchLeaves, DispatchTypes, Zenon
<1>2. Single(queue', inFlight', running', timers')
  BY DispatchLeaves, Zenon DEF KeepsApart
<1>3. \A k \in done' \union failed' : Nowhere(k)'
  BY <1>1 DEF After, Nowhere, KeepsApart
<1> QED BY <1>1, <1>2, <1>3 DEF Apart, KeepsApart

\* Photos are sorted as long as something comes back to the queue.
LEMMA ActiveSorts ==
  ASSUME TypeOK', Active'
  PROVE  PhotosGetSorted'
<1>1. \A k \in Job : timers'[k] \in Nat /\ running'[k] \in Nat
  BY DEF TypeOK
<1>2. \E k \in Job : running'[k] + timers'[k] > 0
  BY <1>1 DEF Active
<1> QED BY <1>2 DEF PhotosGetSorted

-----------------------------------------------------------------------------
(* The steps. *)

LEMMA UploadDoneKeeps ==
  ASSUME QueueInv, NEW j \in Job, UploadDone(j)
  PROVE  QueueInv'
<1> DEFINE r == [running EXCEPT ![j] = @ - 1]
<1> DEFINE f == inFlight \ {j}
<1>0. /\ TypeOK /\ Always /\ running[j] > 0 /\ jobs \in SUBSET Job /\ queue \in Seq(Job)
      /\ Dispatch(queue, f, jobs, r, buttons)
      /\ unsorted' = unsorted \union {j} /\ done' = done \union {j} /\ failed' = failed \ {j}
      /\ retryAll' \in BOOLEAN
      /\ CheckAllFinished(failed \ done')
      /\ UNCHANGED <<added, home, jobs, timers, retries, failures, items, clicks, trip, visits>>
  BY Bounds DEF UploadDone, Summary, page, QueueInv
<1>1. /\ r \in [Job -> Nat] /\ r[j] = running[j] - 1 /\ \A k \in Job : k # j => r[k] = running[k]
      /\ f \in SUBSET Job /\ Cardinality(f) <= MaxConcurrent
      /\ \A k \in f : r[k] > 0
      /\ j <= added
      /\ Single(queue, inFlight, running, timers) =>
           Single(queue, f, r, timers) /\ r[j] = 0 /\ timers[j] = 0 /\ j \notin Queued
  BY <1>0, RunEnds, Zenon
<1>j. j \in 1..added
  BY <1>0, <1>1, Bounds DEF Job
<1> HIDE DEF r, f
<1>2. Dispatches(queue, f, jobs, r, buttons)
  BY <1>0, <1>1 DEF Dispatches
<1>3. TypeOK'
  <2>1. /\ queue' \in Seq(Job) /\ inFlight' \in SUBSET Job /\ running' \in [Job -> Nat]
        /\ buttons' \subseteq buttons
    BY <1>2, DispatchTypes, Zenon
  <2>2. tasks' \in Seq(Task)
    BY <1>0, Checked
  <2> QED BY <1>0, <2>1, <2>2 DEF TypeOK
<1>4. Always'
  <2>1. \A k \in Job : k > added' => (\A m \in DOMAIN queue : queue[m] # k) /\ r[k] = 0 /\ timers'[k] = 0
    BY <1>0, <1>1, QueuedIs, Bounds DEF Always, Nowhere
  <2>2. clicks' \in Nat /\ visits' \in Nat
        /\ done' \subseteq 1..added' /\ failed' \subseteq 1..added' /\ unsorted' \subseteq 1..added'
    BY <1>0, <1>j DEF Always
  <2>3. KeepsAlways(queue, r)
    BY <2>1, <2>2 DEF KeepsAlways
  <2> QED BY <1>2, <2>3, AlwaysAfter, Zenon
<1>5. ASSUME clicks' < 2 PROVE Apart'
  <2>1. Apart
    BY <1>0, <1>5 DEF QueueInv
  <2>2. Single(queue, f, r, timers') /\ timers' \in [Job -> Nat]
    BY <1>0, <1>1, <2>1 DEF Apart, TypeOK
  <2>3. done' \intersect failed' = {}
    BY <1>0, <2>1 DEF Apart
  <2>4. ASSUME NEW k \in done' \union failed'
        PROVE  k \in Job /\ (\A m \in DOMAIN queue : queue[m] # k) /\ r[k] = 0 /\ timers'[k] = 0
    <3>1. CASE k = j
      BY <1>0, <1>1, <2>1, <3>1, QueuedIs DEF Apart
    <3>2. CASE k # j
      <4>1. k \in done \union failed /\ k \in Job
        BY <1>0, <3>2 DEF TypeOK
      <4> QED BY <1>0, <1>1, <2>1, <3>2, <4>1, QueuedIs DEF Apart, Nowhere
    <3> QED BY <3>1, <3>2
  <2>5. clicks' = 0 => buttons \subseteq failed'
    <3> SUFFICES ASSUME clicks' = 0 PROVE buttons \subseteq failed'
      OBVIOUS
    <3>1. buttons \subseteq failed /\ \A k \in failed : running[k] = 0
      BY <1>0, <2>1 DEF Apart, Nowhere
    <3> QED BY <1>0, <3>1
  <2>6. KeepsApart(queue, f, r, buttons)
    BY <2>2, <2>3, <2>4, <2>5 DEF KeepsApart
  <2> QED BY <1>2, <2>6, ApartAfter, Zenon
<1>6. ASSUME visits' = 0 PROVE Stays'
  <2>1. Stays
    BY <1>0, <1>6 DEF QueueInv
  <2>2. \A i \in DOMAIN tasks' :
          \/ i \in DOMAIN tasks /\ tasks'[i] = tasks[i]
          \/ tasks'[i].stage = "settle" /\ tasks'[i].trip = NoTrip
    BY <1>0, Checked
  <2> QED BY <1>0, <2>1, <2>2 DEF Stays
<1>7. PhotosGetSorted'
  <2>1. CASE inFlight' # {} \/ queue' # <<>>
    <3>1. Active'
      BY <1>2, <2>1, DispatchActive, Zenon
    <3> QED BY <1>3, <3>1, ActiveSorts
  <2>2. CASE ~(inFlight' # {} \/ queue' # <<>>)
    <3>1. \E i \in DOMAIN tasks' : tasks'[i].stage = "settle"
      BY <1>0, <2>2, Checked
    <3> QED BY <3>1 DEF PhotosGetSorted
  <2> QED BY <2>1, <2>2
<1> QED BY <1>3, <1>4, <1>5, <1>6, <1>7 DEF QueueInv

\* Nothing is lost by a step that keeps the tasks and stops nothing.
LEMMA StillSorted ==
  ASSUME QueueInv, clicks' \in {clicks, clicks + 1}, UNCHANGED <<tasks, timers, visits, unsorted>>,
         Forgotten' = {} => Forgotten = {}, running' \in [Job -> Nat],
         \A k \in Job : running'[k] >= running[k]
  PROVE  PhotosGetSorted'
<1> SUFFICES ASSUME clicks' < 2, visits' = 0, Forgotten' = {}, NEW j \in unsorted'
             PROVE  \/ \E i \in DOMAIN tasks' : tasks'[i].stage = "settle"
                    \/ \E k \in Job : running'[k] + timers'[k] > 0
  BY DEF PhotosGetSorted
<1>1. clicks < 2 /\ visits = 0 /\ Forgotten = {} /\ j \in unsorted
  BY DEF QueueInv, Always
<1>2. \/ \E i \in DOMAIN tasks : tasks[i].stage = "settle"
      \/ \E k \in Job : running[k] + timers[k] > 0
  BY <1>1 DEF QueueInv, PhotosGetSorted
<1>3. ASSUME NEW k \in Job, running[k] + timers[k] > 0 PROVE running'[k] + timers'[k] > 0
  <2>1. running[k] \in Nat /\ timers[k] \in Nat /\ running'[k] \in Nat /\ running'[k] >= running[k]
    BY Bounds DEF QueueInv
  <2> QED BY <1>3, <2>1
<1> QED BY <1>2, <1>3

LEMMA UploadFailedKeeps ==
  ASSUME QueueInv, NEW j \in Job, UploadFailed(j)
  PROVE  QueueInv'
<1> DEFINE r == [running EXCEPT ![j] = @ - 1]
<1> DEFINE f == inFlight \ {j}
<1> DEFINE b == buttons \union ({j} \intersect items)
<1>0. /\ TypeOK /\ Always /\ running[j] > 0 /\ jobs \in SUBSET Job /\ queue \in Seq(Job)
      /\ Dispatch(queue, f, jobs, r, b)
      /\ unsorted' \in {unsorted, unsorted \union {j}} /\ failed' = failed \union {j}
      /\ failures' = failures + 1
      /\ retryAll' \in BOOLEAN
      /\ CheckAllFinished(failed' \ done)
      /\ UNCHANGED <<added, home, jobs, timers, retries, done, items, clicks, trip, visits>>
  BY Bounds DEF UploadFailed, Attempt, Summary, page, QueueInv
<1>1. /\ r \in [Job -> Nat] /\ r[j] = running[j] - 1 /\ \A k \in Job : k # j => r[k] = running[k]
      /\ f \in SUBSET Job /\ Cardinality(f) <= MaxConcurrent
      /\ \A k \in f : r[k] > 0
      /\ j <= added
      /\ Single(queue, inFlight, running, timers) =>
           Single(queue, f, r, timers) /\ r[j] = 0 /\ timers[j] = 0 /\ j \notin Queued
  BY <1>0, RunEnds, Zenon
<1>j. j \in 1..added
  BY <1>0, <1>1, Bounds DEF Job
<1>b. b \subseteq items /\ b \subseteq buttons \union {j}
  BY <1>0 DEF TypeOK
<1> HIDE DEF r, f, b
<1>2. Dispatches(queue, f, jobs, r, b)
  BY <1>0, <1>1 DEF Dispatches
<1>3. TypeOK'
  <2>1. /\ queue' \in Seq(Job) /\ inFlight' \in SUBSET Job /\ running' \in [Job -> Nat]
        /\ buttons' \subseteq b
    BY <1>2, DispatchTypes, Zenon
  <2>2. tasks' \in Seq(Task)
    BY <1>0, Checked
  <2>3. failures' \in Nat /\ failed' \subseteq Job /\ unsorted' \subseteq Job
    BY <1>0 DEF TypeOK
  <2>4. buttons' \subseteq items'
    BY <1>0, <1>b, <2>1
  <2> QED BY <1>0, <2>1, <2>2, <2>3, <2>4, Zenon DEF TypeOK
<1>4. Always'
  <2>1. \A k \in Job : k > added' => (\A m \in DOMAIN queue : queue[m] # k) /\ r[k] = 0 /\ timers'[k] = 0
    BY <1>0, <1>1, QueuedIs, Bounds DEF Always, Nowhere
  <2>2. clicks' \in Nat /\ visits' \in Nat
        /\ done' \subseteq 1..added' /\ failed' \subseteq 1..added' /\ unsorted' \subseteq 1..added'
    BY <1>0, <1>j DEF Always
  <2>3. KeepsAlways(queue, r)
    BY <2>1, <2>2 DEF KeepsAlways
  <2> QED BY <1>2, <2>3, AlwaysAfter, Zenon
<1>5. ASSUME clicks' < 2 PROVE Apart'
  <2>1. Apart
    BY <1>0, <1>5 DEF QueueInv
  <2>2. Single(queue, f, r, timers') /\ timers' \in [Job -> Nat]
    BY <1>0, <1>1, <2>1 DEF Apart, TypeOK
  <2>n. j \notin done
    BY <1>0, <2>1 DEF Apart, Nowhere
  <2>3. done' \intersect failed' = {}
    BY <1>0, <2>1, <2>n DEF Apart
  <2>4. ASSUME NEW k \in done' \union failed'
        PROVE  k \in Job /\ (\A m \in DOMAIN queue : queue[m] # k) /\ r[k] = 0 /\ timers'[k] = 0
    <3>1. CASE k = j
      BY <1>0, <1>1, <2>1, <3>1, QueuedIs DEF Apart
    <3>2. CASE k # j
      <4>1. k \in done \union failed /\ k \in Job
        BY <1>0, <3>2 DEF TypeOK
      <4> QED BY <1>0, <1>1, <2>1, <3>2, <4>1, QueuedIs DEF Apart, Nowhere
    <3> QED BY <3>1, <3>2
  <2>5. clicks' = 0 => b \subseteq failed'
    BY <1>0, <1>b, <2>1 DEF Apart
  <2>6. KeepsApart(queue, f, r, b)
    BY <2>2, <2>3, <2>4, <2>5 DEF KeepsApart
  <2> QED BY <1>2, <2>6, ApartAfter, Zenon
<1>6. ASSUME visits' = 0 PROVE Stays'
  <2>1. Stays
    BY <1>0, <1>6 DEF QueueInv
  <2>2. \A i \in DOMAIN tasks' :
          \/ i \in DOMAIN tasks /\ tasks'[i] = tasks[i]
          \/ tasks'[i].stage = "settle" /\ tasks'[i].trip = NoTrip
    BY <1>0, Checked
  <2> QED BY <1>0, <2>1, <2>2 DEF Stays
<1>7. PhotosGetSorted'
  <2>1. CASE inFlight' # {} \/ queue' # <<>>
    <3>1. Active'
      BY <1>2, <2>1, DispatchActive, Zenon
    <3> QED BY <1>3, <3>1, ActiveSorts
  <2>2. CASE ~(inFlight' # {} \/ queue' # <<>>)
    <3>1. \E i \in DOMAIN tasks' : tasks'[i].stage = "settle"
      BY <1>0, <2>2, Checked
    <3> QED BY <3>1 DEF PhotosGetSorted
  <2> QED BY <2>1, <2>2
<1> QED BY <1>3, <1>4, <1>5, <1>6, <1>7 DEF QueueInv

LEMMA RetryLaterKeeps ==
  ASSUME QueueInv, NEW j \in Job, RetryLater(j)
  PROVE  QueueInv'
<1> DEFINE r == [running EXCEPT ![j] = @ - 1]
<1> DEFINE f == inFlight \ {j}
<1>0. /\ TypeOK /\ Always /\ running[j] > 0 /\ jobs \in SUBSET Job /\ queue \in Seq(Job)
      /\ running' = r /\ inFlight' = f
      /\ unsorted' \in {unsorted, unsorted \union {j}}
      /\ retries[j] < MaxRetries
      /\ UNCHANGED <<added, home, jobs, queue, done, failed, failures, items, buttons, retryAll,
                     clicks, trip, visits>>
  BY Bounds DEF RetryLater, Attempt, page, QueueInv
<1>r. retries' = [retries EXCEPT ![j] = @ + 1] /\ timers' = [timers EXCEPT ![j] = @ + 1]
      /\ tasks' = [i \in DOMAIN tasks |->
           IF tasks[i].stage = "settle" /\ timers[j] = 0
             THEN [tasks[i] EXCEPT !.later = @ \union {j}] ELSE tasks[i]]
  BY DEF RetryLater
<1>1. /\ r \in [Job -> Nat] /\ r[j] = running[j] - 1 /\ \A k \in Job : k # j => r[k] = running[k]
      /\ f \in SUBSET Job /\ Cardinality(f) <= MaxConcurrent
      /\ \A k \in f : r[k] > 0
      /\ j <= added
      /\ Single(queue, inFlight, running, timers) =>
           Single(queue, f, r, timers) /\ r[j] = 0 /\ timers[j] = 0 /\ j \notin Queued
  BY <1>0, RunEnds, Zenon
<1>j. j \in 1..added
  BY <1>0, <1>1, Bounds DEF Job
<1>t. timers' \in [Job -> Nat] /\ timers'[j] = timers[j] + 1 /\ \A k \in Job : k # j => timers'[k] = timers[k]
  BY <1>0, <1>r DEF TypeOK
<1>q. retries' \in [Job -> 0..MaxRetries]
  BY <1>0, <1>r, JobsAre, SMTT(20) DEF TypeOK
<1>k. tasks' \in Seq(Task) /\ DOMAIN tasks' = DOMAIN tasks
      /\ \A i \in DOMAIN tasks : tasks'[i].stage = tasks[i].stage /\ tasks'[i].trip = tasks[i].trip
  <2>1. ASSUME NEW i \in DOMAIN tasks
        PROVE  tasks'[i] \in Task /\ tasks'[i].stage = tasks[i].stage /\ tasks'[i].trip = tasks[i].trip
    <3>1. tasks[i] \in Task
      BY <1>0, Bounds
    <3>2. tasks'[i] = IF tasks[i].stage = "settle" /\ timers[j] = 0
                        THEN [tasks[i] EXCEPT !.later = @ \union {j}] ELSE tasks[i]
      BY <1>r
    <3> QED BY <3>1, <3>2 DEF Task
  <2>2. Len(tasks) \in Nat /\ DOMAIN tasks = 1..Len(tasks)
    BY <1>0, Bounds
  <2>3. DOMAIN tasks' = DOMAIN tasks
    BY <1>r
  <2>4. tasks' \in [1..Len(tasks) -> Task]
    BY <1>r, <2>1, <2>2
  <2>5. tasks' \in Seq(Task)
    BY <2>2, <2>4
  <2> QED BY <2>1, <2>3, <2>5
<1> HIDE DEF r, f
<1>a. Active'
  BY <1>t, <1>0, Bounds DEF Active
<1>3. TypeOK'
  BY <1>0, <1>1, <1>t, <1>q, <1>k DEF TypeOK
<1>4. Always'
  <2>q. Queued' = Queued
    BY <1>0 DEF Queued
  <2>1. ASSUME NEW k \in Job, k > added' PROVE Nowhere(k)'
    <3>1. k # j /\ Nowhere(k)
      <4>1. added \in Nat /\ k \in Int /\ j <= added /\ k > added
        BY <1>0, <1>1, <2>1, Bounds DEF Job
      <4> QED BY <1>0, <4>1 DEF Always
    <3>2. running'[k] = running[k] /\ timers'[k] = timers[k]
      BY <1>0, <1>1, <1>t, <3>1
    <3> QED BY <2>q, <3>1, <3>2, Zenon DEF Nowhere
  <2>2. clicks' \in Nat /\ visits' \in Nat
        /\ done' \subseteq 1..added' /\ failed' \subseteq 1..added' /\ unsorted' \subseteq 1..added'
    BY <1>0, <1>j DEF Always
  <2> QED BY <1>0, <1>1, <1>a, <2>1, <2>2 DEF Always
<1>5. ASSUME clicks' < 2 PROVE Apart'
  <2>1. Apart
    BY <1>0, <1>5 DEF QueueInv
  <2>2. Single(queue, f, r, timers) /\ r[j] = 0 /\ timers[j] = 0 /\ j \notin Queued
    BY <1>1, <2>1 DEF Apart
  <2>3. Single(queue', inFlight', running', timers')
    <3>1. \A k \in Job : r[k] + timers'[k] <= 1 /\ (k \in f <=> r[k] > 0)
      BY <1>t, <2>2 DEF Single
    <3>2. \A i \in DOMAIN queue : r[queue[i]] = 0 /\ timers'[queue[i]] = 0
      BY <1>t, <1>0, <2>2, QueuedIs DEF Single
    <3> QED BY <1>0, <2>2, <3>1, <3>2 DEF Single
  <2>4. ASSUME NEW k \in done' \union failed' PROVE Nowhere(k)'
    <3>1. k # j /\ k \in Job /\ k \in done \union failed
      BY <1>0, <2>1 DEF Apart, Nowhere, TypeOK
    <3> QED BY <1>0, <1>1, <1>t, <2>1, <3>1 DEF Apart, Nowhere, Queued
  <2> QED BY <1>0, <2>1, <2>3, <2>4 DEF Apart
<1>6. ASSUME visits' = 0 PROVE Stays'
  <2>1. Stays
    BY <1>0, <1>6 DEF QueueInv
  <2> QED BY <1>0, <1>k, <2>1 DEF Stays
<1>7. PhotosGetSorted'
  BY <1>3, <1>a, ActiveSorts
<1> QED BY <1>3, <1>4, <1>5, <1>6, <1>7 DEF QueueInv

\* What a queue holds when jobs are joined to it that were nowhere.
LEMMA JoinedSingle ==
  ASSUME NEW a \in Seq(Job), NEW z \in Seq(Job), NEW f, NEW r, NEW w,
         Single(a, f, r, w) \/ Single(z, f, r, w), Distinct(a), Distinct(z),
         \A i \in DOMAIN a, k \in DOMAIN z : a[i] # z[k],
         \A i \in DOMAIN a : r[a[i]] = 0 /\ w[a[i]] = 0,
         \A i \in DOMAIN z : r[z[i]] = 0 /\ w[z[i]] = 0
  PROVE  Single(a \o z, f, r, w)
<1>1. Distinct(a \o z)
  BY Joined, Zenon
<1>2. \A m \in DOMAIN (a \o z) : (\E i \in DOMAIN a : (a \o z)[m] = a[i]) \/ (\E i \in DOMAIN z : (a \o z)[m] = z[i])
  BY Joined, Zenon
<1>3. ASSUME NEW m \in DOMAIN (a \o z) PROVE r[(a \o z)[m]] = 0 /\ w[(a \o z)[m]] = 0
  <2> DEFINE e == (a \o z)[m]
  <2>1. (\E i \in DOMAIN a : e = a[i]) \/ (\E i \in DOMAIN z : e = z[i])
    BY <1>2
  <2> HIDE DEF e
  <2>2. r[e] = 0 /\ w[e] = 0
    BY <2>1
  <2> QED BY <2>2 DEF e
<1>4. \A j \in Job : r[j] + w[j] <= 1 /\ (j \in f <=> r[j] > 0)
  BY Zenon DEF Single
<1> QED BY <1>1, <1>3, <1>4, Zenon DEF Single

LEMMA AddFilesKeeps ==
  ASSUME QueueInv, NEW n \in 1..Jobs, AddFiles(n)
  PROVE  QueueInv'
<1> DEFINE new == (added + 1)..(added + n)
<1> DEFINE z == [i \in 1..n |-> added + i]
<1> DEFINE q == queue \o z
<1>0. /\ TypeOK /\ Always /\ trip # NoTrip /\ added + n <= Jobs /\ added' = added + n
      /\ home' = [j \in Job |-> IF j \in new THEN trip ELSE home[j]]
      /\ jobs' = jobs \union new /\ items' = items \union new /\ retryAll' = FALSE
      /\ Dispatch(q, inFlight, jobs', running, buttons)
      /\ UNCHANGED <<timers, retries, done, failed, failures, tasks, unsorted, clicks, trip, visits>>
  BY DEF AddFiles, page, QueueInv
<1>n. added \in Nat /\ n \in Nat /\ n >= 1 /\ Jobs \in Nat
  BY <1>0, Bounds, JobsAre
<1>s. /\ \A j \in new : j \in Job /\ j > added
      /\ \A j \in new : j \in 1..added'
      /\ 1..added \subseteq 1..added'
      /\ \A j \in 1..added' : j \in new \/ j \in 1..added
      /\ added' \in 0..Jobs
  BY <1>0, <1>n DEF Job
<1>z. z \in Seq(Job) /\ DOMAIN z = 1..n /\ Distinct(z) /\ \A i \in DOMAIN z : z[i] \in new
  BY <1>0, <1>n DEF Job, Distinct
<1>d. 1 \in DOMAIN z
  BY <1>n, <1>z
<1>t. queue \in Seq(Job) /\ inFlight \in SUBSET Job /\ running \in [Job -> Nat] /\ timers \in [Job -> Nat]
      /\ jobs \in SUBSET Job
  BY <1>0, Bounds DEF TypeOK
<1>w. \A j \in new : Nowhere(j)
  BY <1>0, <1>s DEF Always
<1> HIDE DEF new, z
<1>q. /\ q \in Seq(Job)
      /\ \A m \in DOMAIN q : (\E i \in DOMAIN queue : q[m] = queue[i]) \/ (\E i \in DOMAIN z : q[m] = z[i])
      /\ \A i \in DOMAIN z : \E m \in DOMAIN q : q[m] = z[i]
  BY <1>t, <1>z, Joined, Zenon
<1> HIDE DEF q
<1>u. \A m \in DOMAIN q : q[m] \in Queued \/ q[m] \in new
  BY <1>q, <1>z, QueuedIs
<1>2. Dispatches(q, inFlight, jobs', running, buttons)
  BY <1>0, <1>t, <1>s, <1>q DEF Dispatches, Always
<1>3. TypeOK'
  <2>1. /\ queue' \in Seq(Job) /\ inFlight' \in SUBSET Job /\ running' \in [Job -> Nat]
        /\ buttons' \subseteq buttons
    BY <1>2, DispatchTypes, Zenon
  <2>2. home' \in [Job -> Trip \union {NoTrip}]
    BY <1>0 DEF TypeOK
  <2>3. jobs' \subseteq 1..added' /\ buttons' \subseteq items' /\ items' \subseteq jobs'
    BY <1>0, <1>s, <2>1 DEF TypeOK
  <2>4. retryAll' \in BOOLEAN
    BY <1>0
  <2> QED BY <1>0, <1>s, <2>1, <2>2, <2>3, <2>4, Zenon DEF TypeOK
<1>4. Always'
  <2>1. ASSUME NEW k \in Job, k > added' PROVE (\A m \in DOMAIN q : q[m] # k) /\ running[k] = 0 /\ timers'[k] = 0
    <3>1. k > added /\ k \notin new
      BY <1>0, <1>n, <1>s, <2>1 DEF Job
    <3>2. Nowhere(k)
      BY <1>0, <3>1 DEF Always
    <3> QED BY <1>0, <1>u, <3>1, <3>2 DEF Nowhere
  <2>2. clicks' \in Nat /\ visits' \in Nat
        /\ done' \subseteq 1..added' /\ failed' \subseteq 1..added' /\ unsorted' \subseteq 1..added'
    BY <1>0, <1>s DEF Always
  <2>3. KeepsAlways(q, running)
    BY <2>1, <2>2 DEF KeepsAlways
  <2> QED BY <1>2, <2>3, AlwaysAfter, Zenon
<1>5. ASSUME clicks' < 2 PROVE Apart'
  <2>1. Apart
    BY <1>0, <1>5 DEF QueueInv
  <2>2. Single(q, inFlight, running, timers')
    <3>1. Single(queue, inFlight, running, timers)
      BY <2>1 DEF Apart
    <3>2. \A i \in DOMAIN z : running[z[i]] = 0 /\ timers[z[i]] = 0 /\ z[i] \notin Queued
      BY <1>w, <1>z DEF Nowhere
    <3>3. \A i \in DOMAIN queue, k \in DOMAIN z : queue[i] # z[k]
      BY <3>2, QueuedIs
    <3>4. Distinct(queue) /\ \A i \in DOMAIN queue : running[queue[i]] = 0 /\ timers[queue[i]] = 0
      BY <3>1 DEF Single
    <3>5. Single(queue \o z, inFlight, running, timers)
      BY <1>t, <1>z, <3>1, <3>2, <3>3, <3>4, JoinedSingle, Zenon
    <3> QED BY <1>0, <3>5, Zenon DEF q
  <2>4. ASSUME NEW k \in done' \union failed'
        PROVE  k \in Job /\ (\A m \in DOMAIN q : q[m] # k) /\ running[k] = 0 /\ timers'[k] = 0
    <3>1. k \in 1..added /\ k \in done \union failed
      BY <1>0 DEF Always
    <3>2. k \in Job /\ k \notin new
      BY <1>0, <1>n, <1>s, <3>1 DEF Job
    <3> QED BY <1>0, <1>u, <2>1, <3>1, <3>2 DEF Apart, Nowhere
  <2>6. KeepsApart(q, inFlight, running, buttons)
    BY <1>0, <1>t, <2>1, <2>2, <2>4 DEF KeepsApart, Apart
  <2> QED BY <1>2, <2>6, ApartAfter, Zenon
<1>6. ASSUME visits' = 0 PROVE Stays'
  <2>1. Stays
    BY <1>0, <1>6 DEF QueueInv
  <2>2. \A j \in 1..added' : home'[j] = trip
    BY <1>0, <1>s, <1>n, <2>1 DEF Stays, Job
  <2> QED BY <1>0, <2>1, <2>2 DEF Stays
<1>7. PhotosGetSorted'
  <2>1. Active'
    <3>1. \E m \in DOMAIN q : q[m] \in jobs'
      <4>1. PICK m \in DOMAIN q : q[m] = z[1]
        BY <1>d, <1>q, Zenon
      <4>2. z[1] \in new
        BY <1>d, <1>z, Zenon
      <4>3. z[1] \in jobs'
        BY <1>0, <4>2
      <4> QED BY <4>1, <4>3
    <3> QED BY <1>2, <3>1, DispatchActive, Zenon
  <2> QED BY <1>3, <2>1, ActiveSorts
<1> QED BY <1>3, <1>4, <1>5, <1>6, <1>7 DEF QueueInv

LEMMA FiredKeeps ==
  ASSUME TypeOK, NEW j \in Job, Fired(j)
  PROVE  /\ timers' \in [Job -> Nat] /\ timers'[j] = timers[j] - 1
         /\ \A k \in Job : k # j => timers'[k] = timers[k]
         /\ tasks' \in Seq(Task) /\ DOMAIN tasks' = DOMAIN tasks
         /\ \A i \in DOMAIN tasks : tasks'[i].stage = tasks[i].stage /\ tasks'[i].trip = tasks[i].trip
<1>0. timers[j] > 0 /\ timers' = [timers EXCEPT ![j] = @ - 1]
      /\ tasks' = [i \in DOMAIN tasks |-> [tasks[i] EXCEPT !.first = @ \ {j}]]
  BY DEF Fired
<1>1. timers' \in [Job -> Nat] /\ timers'[j] = timers[j] - 1 /\ \A k \in Job : k # j => timers'[k] = timers[k]
  BY <1>0 DEF TypeOK
<1>2. ASSUME NEW i \in DOMAIN tasks
      PROVE  tasks'[i] \in Task /\ tasks'[i].stage = tasks[i].stage /\ tasks'[i].trip = tasks[i].trip
  <2>1. tasks[i] \in Task
    BY Bounds
  <2>2. tasks'[i] = [tasks[i] EXCEPT !.first = @ \ {j}]
    BY <1>0
  <2> QED BY <2>1, <2>2 DEF Task
<1>3. Len(tasks) \in Nat /\ DOMAIN tasks = 1..Len(tasks)
  BY Bounds
<1>4. DOMAIN tasks' = DOMAIN tasks
  BY <1>0
<1>5. tasks' \in [1..Len(tasks) -> Task]
  BY <1>0, <1>2, <1>3
<1>6. tasks' \in Seq(Task)
  BY <1>3, <1>5
<1> QED BY <1>1, <1>2, <1>4, <1>6

LEMMA RetryTimerKeeps ==
  ASSUME QueueInv, NEW j \in Job, RetryTimer(j)
  PROVE  QueueInv'
<1> DEFINE q == <<j>> \o queue
<1>0. /\ TypeOK /\ Always /\ timers[j] > 0
      /\ Dispatch(q, inFlight, jobs, running, buttons)
      /\ UNCHANGED <<added, home, jobs, retries, done, failed, failures, items, retryAll,
                     unsorted, clicks, trip, visits>>
  BY DEF RetryTimer, Fired, page, QueueInv
<1>1. /\ timers' \in [Job -> Nat] /\ timers'[j] = timers[j] - 1
      /\ \A k \in Job : k # j => timers'[k] = timers[k]
      /\ tasks' \in Seq(Task) /\ DOMAIN tasks' = DOMAIN tasks
      /\ \A i \in DOMAIN tasks : tasks'[i].stage = tasks[i].stage /\ tasks'[i].trip = tasks[i].trip
  BY <1>0, FiredKeeps DEF RetryTimer
<1>t. queue \in Seq(Job) /\ inFlight \in SUBSET Job /\ running \in [Job -> Nat] /\ jobs \in SUBSET Job
      /\ timers[j] \in Nat /\ added \in Nat
  BY <1>0, Bounds DEF TypeOK
<1>z. <<j>> \in Seq(Job) /\ DOMAIN <<j>> = {1} /\ <<j>>[1] = j /\ Distinct(<<j>>)
  BY DEF Distinct
<1>q. /\ q \in Seq(Job)
      /\ \A m \in DOMAIN q : (\E i \in DOMAIN <<j>> : q[m] = <<j>>[i]) \/ (\E i \in DOMAIN queue : q[m] = queue[i])
      /\ \A i \in DOMAIN <<j>> : \E m \in DOMAIN q : q[m] = <<j>>[i]
  BY <1>t, <1>z, Joined, Zenon
<1> HIDE DEF q
<1>u. (\A m \in DOMAIN q : q[m] \in Queued \/ q[m] = j) /\ \E m \in DOMAIN q : q[m] = j
  <2>1. ASSUME NEW m \in DOMAIN q PROVE q[m] \in Queued \/ q[m] = j
    BY <1>q, <1>z, QueuedIs
  <2>2. 1 \in DOMAIN <<j>>
    BY <1>z
  <2>3. \E m \in DOMAIN q : q[m] = <<j>>[1]
    BY <1>q, <2>2, Zenon
  <2>4. \E m \in DOMAIN q : q[m] = j
    <3>1. PICK m \in DOMAIN q : q[m] = <<j>>[1]
      BY <2>3
    <3>2. q[m] = j
      BY <1>z, <3>1, Zenon
    <3> QED BY <3>2
  <2> QED BY <2>1, <2>4
<1>j. j <= added /\ j \in 1..added
  <2>1. ~(j > added)
    BY <1>0 DEF Always, Nowhere
  <2> QED BY <2>1, <1>t DEF Job
<1>2. Dispatches(q, inFlight, jobs, running, buttons)
  BY <1>0, <1>t, <1>q DEF Dispatches, Always
<1>3. TypeOK'
  <2>1. /\ queue' \in Seq(Job) /\ inFlight' \in SUBSET Job /\ running' \in [Job -> Nat]
        /\ buttons' \subseteq buttons
    BY <1>2, DispatchTypes, Zenon
  <2>2. buttons' \subseteq items'
    BY <1>0, <2>1 DEF TypeOK
  <2> QED BY <1>0, <1>1, <2>1, <2>2, Zenon DEF TypeOK
<1>4. Always'
  <2>1. ASSUME NEW k \in Job, k > added' PROVE (\A m \in DOMAIN q : q[m] # k) /\ running[k] = 0 /\ timers'[k] = 0
    <3>1. k > added /\ k # j
      BY <1>0, <1>t, <1>j, <2>1 DEF Job
    <3>2. Nowhere(k)
      BY <1>0, <3>1 DEF Always
    <3> QED BY <1>1, <1>u, <3>1, <3>2 DEF Nowhere
  <2>2. clicks' \in Nat /\ visits' \in Nat
        /\ done' \subseteq 1..added' /\ failed' \subseteq 1..added' /\ unsorted' \subseteq 1..added'
    BY <1>0 DEF Always
  <2>3. KeepsAlways(q, running)
    BY <2>1, <2>2 DEF KeepsAlways
  <2> QED BY <1>2, <2>3, AlwaysAfter, Zenon
<1>a. clicks < 2 => Apart /\ j \notin done \union failed /\ j \notin Queued /\ running[j] = 0 /\ timers'[j] = 0
  <2> SUFFICES ASSUME clicks < 2
               PROVE  Apart /\ j \notin done \union failed /\ j \notin Queued /\ running[j] = 0 /\ timers'[j] = 0
    OBVIOUS
  <2>1. Apart
    BY DEF QueueInv
  <2>2. j \notin done \union failed
    BY <1>0, <2>1 DEF Apart, Nowhere
  <2>3. j \notin Queued
    BY <1>0, <2>1, QueuedIs DEF Apart, Single
  <2>4. running[j] + timers[j] <= 1 /\ running[j] \in Nat
    BY <1>t, <2>1 DEF Apart, Single
  <2>5. running[j] = 0 /\ timers'[j] = 0
    BY <1>0, <1>1, <1>t, <2>4
  <2> QED BY <2>1, <2>2, <2>3, <2>5
<1>5. ASSUME clicks' < 2 PROVE Apart'
  <2>1. Apart /\ j \notin done \union failed /\ j \notin Queued /\ running[j] = 0 /\ timers'[j] = 0
    BY <1>0, <1>5, <1>a
  <2>2. Single(q, inFlight, running, timers')
    <3>1. Single(queue, inFlight, running, timers)
      BY <2>1 DEF Apart
    <3>2. \A k \in Job : running[k] + timers'[k] <= 1 /\ (k \in inFlight <=> running[k] > 0)
      BY <1>1, <2>1, <3>1 DEF Single
    <3>3. \A i \in DOMAIN queue : running[queue[i]] = 0 /\ timers'[queue[i]] = 0 /\ queue[i] # j
      <4> SUFFICES ASSUME NEW i \in DOMAIN queue
                   PROVE  running[queue[i]] = 0 /\ timers'[queue[i]] = 0 /\ queue[i] # j
        OBVIOUS
      <4>1. queue[i] \in Job /\ queue[i] # j
        BY <1>t, <2>1, QueuedIs
      <4> QED BY <1>1, <3>1, <4>1 DEF Single
    <3>4. Distinct(queue)
      BY <3>1 DEF Single
    <3>5. Single(queue, inFlight, running, timers')
      BY <3>2, <3>3, <3>4 DEF Single
    <3>6. \A i \in DOMAIN <<j>> : running[<<j>>[i]] = 0 /\ timers'[<<j>>[i]] = 0
      BY <1>z, <2>1
    <3>7. \A i \in DOMAIN <<j>>, k \in DOMAIN queue : <<j>>[i] # queue[k]
      BY <1>z, <3>3
    <3>8. Single(<<j>> \o queue, inFlight, running, timers')
      BY <1>t, <1>z, <3>3, <3>4, <3>5, <3>6, <3>7, JoinedSingle, Zenon
    <3> QED BY <3>8, Zenon DEF q
  <2>4. ASSUME NEW k \in done' \union failed'
        PROVE  k \in Job /\ (\A m \in DOMAIN q : q[m] # k) /\ running[k] = 0 /\ timers'[k] = 0
    <3>1. k \in done \union failed /\ k # j /\ k \in Job
      BY <1>0, <2>1 DEF TypeOK
    <3> QED BY <1>1, <1>u, <2>1, <3>1 DEF Apart, Nowhere
  <2>6. KeepsApart(q, inFlight, running, buttons)
    BY <1>0, <1>1, <2>1, <2>2, <2>4 DEF KeepsApart, Apart
  <2> QED BY <1>2, <2>6, ApartAfter, Zenon
<1>6. ASSUME visits' = 0 PROVE Stays'
  <2>1. Stays
    BY <1>0, <1>6 DEF QueueInv
  <2> QED BY <1>0, <1>1, <2>1 DEF Stays
<1>7. PhotosGetSorted'
  <2>1. CASE j \in jobs
    <3>1. Active'
      <4>1. \E m \in DOMAIN q : q[m] \in jobs
        BY <1>u, <2>1
      <4> QED BY <1>2, <4>1, DispatchActive, Zenon
    <3> QED BY <1>3, <3>1, ActiveSorts
  <2>2. CASE j \notin jobs
    <3>1. clicks' < 2 => Forgotten' # {}
      BY <1>0, <1>a, <1>j, <2>2 DEF Forgotten
    <3> QED BY <3>1 DEF PhotosGetSorted
  <2> QED BY <2>1, <2>2
<1> QED BY <1>3, <1>4, <1>5, <1>6, <1>7 DEF QueueInv

\* The jobs z are queued again, by one click.
Again(z) ==
  /\ z \in Seq(Job) /\ Distinct(z)
  /\ \A i \in DOMAIN z : z[i] \in jobs
  /\ clicks = 0 => \A i \in DOMAIN z : z[i] \in failed
  /\ clicks' = clicks + 1
  /\ failed' = failed \ {z[i] : i \in DOMAIN z}
  /\ retries' \in [Job -> 0..MaxRetries] /\ failures' \in Nat /\ retryAll' = FALSE
  /\ Dispatch(queue \o z, inFlight, jobs, running, buttons)
  /\ UNCHANGED <<added, home, jobs, timers, done, items, tasks, unsorted, page>>

LEMMA AgainKeeps ==
  ASSUME QueueInv, NEW z, Again(z)
  PROVE  QueueInv'
<1> DEFINE q == queue \o z
<1>0. /\ TypeOK /\ Always
      /\ z \in Seq(Job) /\ Distinct(z)
      /\ \A i \in DOMAIN z : z[i] \in jobs
      /\ clicks' = clicks + 1 /\ clicks \in Nat
      /\ failed' \subseteq failed /\ \A i \in DOMAIN z : z[i] \notin failed'
      /\ retries' \in [Job -> 0..MaxRetries] /\ failures' \in Nat /\ retryAll' = FALSE
      /\ Dispatch(q, inFlight, jobs, running, buttons)
      /\ UNCHANGED <<added, home, jobs, timers, done, items, tasks, unsorted, trip, visits>>
  BY DEF Again, page, QueueInv, Always
<1>t. queue \in Seq(Job) /\ inFlight \in SUBSET Job /\ running \in [Job -> Nat] /\ timers \in [Job -> Nat]
      /\ jobs \in SUBSET Job /\ added \in Nat
  BY <1>0, Bounds DEF TypeOK
<1>q. /\ q \in Seq(Job)
      /\ \A m \in DOMAIN q : (\E i \in DOMAIN queue : q[m] = queue[i]) \/ (\E i \in DOMAIN z : q[m] = z[i])
      /\ \A i \in DOMAIN z : \E m \in DOMAIN q : q[m] = z[i]
  BY <1>0, <1>t, Joined, Zenon
<1> HIDE DEF q
<1>u. \A m \in DOMAIN q : q[m] \in Queued \/ \E i \in DOMAIN z : q[m] = z[i]
  BY <1>q, QueuedIs, Zenon
<1>2. Dispatches(q, inFlight, jobs, running, buttons)
  BY <1>0, <1>t, <1>q DEF Dispatches, Always
<1>d. /\ queue' \in Seq(Job) /\ inFlight' \in SUBSET Job /\ running' \in [Job -> Nat]
      /\ buttons' \subseteq buttons
  BY <1>2, DispatchTypes, Zenon
<1>3. TypeOK'
  <2>1. buttons' \subseteq items' /\ failed' \subseteq Job /\ retryAll' \in BOOLEAN
    BY <1>0, <1>d DEF TypeOK
  <2> QED BY <1>0, <1>d, <2>1, Zenon DEF TypeOK
<1>4. Always'
  <2>1. ASSUME NEW k \in Job, k > added' PROVE (\A m \in DOMAIN q : q[m] # k) /\ running[k] = 0 /\ timers'[k] = 0
    <3>1. Nowhere(k)
      BY <1>0, <2>1 DEF Always
    <3>2. k \notin jobs
      BY <1>0, <1>t, <2>1 DEF TypeOK
    <3> QED BY <1>0, <1>u, <3>1, <3>2 DEF Nowhere
  <2>2. clicks' \in Nat /\ visits' \in Nat
        /\ done' \subseteq 1..added' /\ failed' \subseteq 1..added' /\ unsorted' \subseteq 1..added'
    BY <1>0 DEF Always
  <2>3. KeepsAlways(q, running)
    BY <2>1, <2>2 DEF KeepsAlways
  <2> QED BY <1>2, <2>3, AlwaysAfter, Zenon
<1>5. ASSUME clicks' < 2 PROVE Apart'
  <2>1. Apart /\ clicks = 0
    BY <1>0, <1>5 DEF QueueInv
  <2>z. \A i \in DOMAIN z : z[i] \in failed /\ Nowhere(z[i])
    BY <2>1 DEF Again, Apart
  <2>2. Single(q, inFlight, running, timers')
    <3>1. Single(queue, inFlight, running, timers)
      BY <2>1 DEF Apart
    <3>2. \A i \in DOMAIN z : running[z[i]] = 0 /\ timers[z[i]] = 0 /\ z[i] \notin Queued
      BY <2>z DEF Nowhere
    <3>3. \A i \in DOMAIN queue, k \in DOMAIN z : queue[i] # z[k]
      BY <3>2, QueuedIs
    <3>4. Distinct(queue) /\ \A i \in DOMAIN queue : running[queue[i]] = 0 /\ timers[queue[i]] = 0
      BY <3>1 DEF Single
    <3>5. Single(queue \o z, inFlight, running, timers)
      BY <1>0, <1>t, <3>1, <3>2, <3>3, <3>4, JoinedSingle, Zenon
    <3> QED BY <1>0, <3>5, Zenon DEF q
  <2>4. ASSUME NEW k \in done' \union failed'
        PROVE  k \in Job /\ (\A m \in DOMAIN q : q[m] # k) /\ running[k] = 0 /\ timers'[k] = 0
    <3>1. k \in done \union failed /\ k \in Job /\ Nowhere(k)
      BY <1>0, <2>1 DEF TypeOK, Apart
    <3>2. \A i \in DOMAIN z : z[i] # k
      BY <1>0, <2>1, <2>z DEF Apart
    <3> QED BY <1>0, <1>u, <3>1, <3>2 DEF Nowhere
  <2>5. done' \intersect failed' = {} /\ clicks' # 0
    BY <1>0, <2>1 DEF Apart
  <2>6. KeepsApart(q, inFlight, running, buttons)
    BY <1>0, <1>t, <2>2, <2>4, <2>5 DEF KeepsApart
  <2> QED BY <1>2, <2>6, ApartAfter, Zenon
<1>6. ASSUME visits' = 0 PROVE Stays'
  <2>1. Stays
    BY <1>0, <1>6 DEF QueueInv
  <2> QED BY <1>0, <2>1 DEF Stays
<1>7. PhotosGetSorted'
  <2>1. \A k \in Job : running'[k] >= running[k]
    <3>1. Leaves(q, inFlight, jobs, running, buttons)
      BY <1>2, DispatchLeaves, Zenon
    <3> QED BY <3>1, Zenon DEF Leaves
  <2>2. Forgotten' = {} => Forgotten = {}
    BY <1>0 DEF Forgotten
  <2> QED BY <1>0, <1>d, <2>1, <2>2, StillSorted
<1> QED BY <1>3, <1>4, <1>5, <1>6, <1>7 DEF QueueInv

LEMMA RetryClickKeeps ==
  ASSUME QueueInv, NEW j \in Job, RetryClick(j)
  PROVE  QueueInv'
<1>0. TypeOK /\ j \in jobs /\ clicks' = clicks + 1
      /\ (clicks = 0 => j \in failed)
  <2>1. j \in buttons /\ clicks' = clicks + 1
    BY DEF RetryClick
  <2>2. buttons \subseteq jobs
    BY DEF QueueInv, TypeOK
  <2>3. clicks = 0 => buttons \subseteq failed
    BY DEF QueueInv, Apart
  <2> QED BY <2>1, <2>2, <2>3 DEF QueueInv
<1>1. /\ failed' = failed \ {j}
      /\ retries' = [retries EXCEPT ![j] = 0]
      /\ failures' = IF failures > 0 THEN failures - 1 ELSE 0
      /\ retryAll' = FALSE
      /\ Dispatch(Append(queue, j), inFlight, jobs, running, buttons)
      /\ UNCHANGED <<added, home, jobs, timers, done, items, tasks, unsorted, page>>
  BY <1>0, Zenon DEF RetryClick
<1>2. Append(queue, j) = queue \o <<j>>
  BY <1>0, Bounds
<1>3. retries' \in [Job -> 0..MaxRetries] /\ failures' \in Nat
  BY <1>0, <1>1, JobsAre DEF TypeOK
<1> DEFINE z == <<j>>
<1>4. z \in Seq(Job) /\ Distinct(z) /\ DOMAIN z = {1} /\ z[1] = j
  BY DEF Distinct
<1>5. Dispatch(queue \o z, inFlight, jobs, running, buttons)
  BY <1>1, <1>2, Zenon
<1> HIDE DEF z
<1>6. {z[i] : i \in DOMAIN z} = {j}
  BY <1>4
<1>7. Again(z)
  BY <1>0, <1>1, <1>3, <1>4, <1>5, <1>6 DEF Again
<1> QED BY <1>7, AgainKeeps, Zenon

LEMMA RetryAllClickKeeps ==
  ASSUME QueueInv, RetryAllClick
  PROVE  QueueInv'
<1> DEFINE again == jobs \intersect (failed \ done)
<1>0. /\ clicks' = clicks + 1
      /\ failed' = failed \ again
      /\ retries' = [j \in Job |-> IF j \in again THEN 0 ELSE retries[j]]
      /\ failures' = 0
      /\ retryAll' = FALSE
      /\ UNCHANGED <<added, home, jobs, timers, done, items, tasks, unsorted, page>>
  BY DEF RetryAllClick
<1>1. TypeOK /\ again \in SUBSET Job
  BY DEF QueueInv, TypeOK
<1>2. Cardinality(again) \in Nat /\ IsFiniteSet(again)
  BY <1>1, Finite
<1>3. PICK order \in [1..Cardinality(again) -> again] :
           /\ \A i, k \in DOMAIN order : i < k => order[i] < order[k]
           /\ Dispatch(queue \o order, inFlight, jobs, running, buttons)
  BY Zenon DEF RetryAllClick
<1>4. retries' \in [Job -> 0..MaxRetries] /\ failures' \in Nat
  BY <1>0, <1>1, JobsAre DEF TypeOK
<1>5. again \subseteq jobs /\ again \subseteq failed
  OBVIOUS
<1> HIDE DEF again
<1> DEFINE n == Cardinality(again)
<1>n. n \in Nat
  BY <1>2
<1>o. order \in [1..n -> again] /\ \A i, k \in 1..n : i < k => order[i] < order[k]
  BY <1>3
<1> HIDE DEF n
<1>6. order \in Seq(Job) /\ DOMAIN order = 1..n
  BY <1>1, <1>n, <1>o
<1>7. Distinct(order)
  <2> SUFFICES ASSUME NEW i \in 1..n, NEW k \in 1..n, order[i] = order[k] PROVE i = k
    BY <1>6 DEF Distinct
  <2>1. i \in Int /\ k \in Int
    BY <1>n
  <2>2. order[i] \in Job /\ order[k] \in Job
    BY <1>1, <1>o
  <2>3. order[i] \in Int /\ order[k] \in Int
    BY <2>2 DEF Job
  <2>4. ~(i < k) /\ ~(k < i)
    BY <1>o, <2>3
  <2> QED BY <2>1, <2>4
<1>8. {order[i] : i \in DOMAIN order} = again
  <2>1. order \in Injection(1..n, again)
    BY <1>o, <1>6, <1>7 DEF Injection, IsInjective, Distinct
  <2>2. IsFiniteSet(again) /\ Cardinality(1..n) = n /\ n = Cardinality(again)
    BY <1>2, <1>n, FS_Interval DEF n
  <2>3. order \in Surjection(1..n, again)
    BY <2>1, <2>2, FS_Injection, Zenon
  <2>4. \A j \in again : \E i \in 1..n : order[i] = j
    BY <2>3 DEF Surjection
  <2> QED BY <1>o, <1>6, <2>4
<1>9. Again(order)
  BY <1>0, <1>3, <1>4, <1>5, <1>6, <1>7, <1>8, <1>o DEF Again
<1> QED BY <1>9, AgainKeeps, Zenon

\* A step that leaves the jobs where they are.
LEMMA QuietKeeps ==
  ASSUME QueueInv, visits' \in {visits, visits + 1}, unsorted' \subseteq unsorted, buttons' \subseteq buttons,
         UNCHANGED <<added, home, queue, inFlight, running, timers, retries, done, failed, clicks>>
  PROVE  /\ Always'
         /\ clicks' < 2 => Apart'
<1>1. Queued' = Queued
  BY DEF Queued
<1>2. Always'
  BY <1>1 DEF QueueInv, Always, Active, Nowhere
<1>3. ASSUME clicks' < 2 PROVE Apart'
  BY <1>1, <1>3 DEF QueueInv, Apart, Nowhere, Single, Distinct
<1> QED BY <1>2, <1>3

\* The photos of such a step are sorted as before, if it forgets none and keeps
\* the tasks that ask for a sort.
LEMMA QuietSorts ==
  ASSUME QueueInv, UNCHANGED <<running, timers, clicks>>, visits' = 0 => visits = 0,
         unsorted' \subseteq unsorted, Forgotten' = {} => Forgotten = {},
         \A i \in DOMAIN tasks : tasks[i].stage = "settle" =>
           \E m \in DOMAIN tasks' : tasks'[m].stage = "settle"
  PROVE  PhotosGetSorted'
BY DEF QueueInv, PhotosGetSorted

LEMMA AskForSortKeeps ==
  ASSUME QueueInv, NEW i \in DOMAIN tasks, AskForSort(i)
  PROVE  QueueInv'
<1> DEFINE asked == [tasks[i] EXCEPT !.stage = "sorting", !.trip = trip, !.later = {}]
<1>0. /\ TypeOK /\ tasks' = [tasks EXCEPT ![i] = asked]
      /\ unsorted' = {j \in unsorted : home[j] # trip}
      /\ UNCHANGED <<added, home, jobs, queue, inFlight, running, timers, retries, done, failed,
                     failures, items, buttons, retryAll, clicks, trip, visits>>
  BY DEF AskForSort, page, QueueInv
<1>1. asked \in Task /\ asked.trip = trip /\ asked.stage = "sorting"
  <2>1. tasks[i] \in Task /\ trip \in Trip \union {NoTrip}
    BY <1>0 DEF TypeOK
  <2> QED BY <2>1 DEF Task
<1> HIDE DEF asked
<1>2. /\ tasks' \in Seq(Task) /\ DOMAIN tasks' = DOMAIN tasks
      /\ tasks'[i] = asked /\ \A k \in DOMAIN tasks : k # i => tasks'[k] = tasks[k]
  BY <1>0, <1>1, Bounds
<1>3. TypeOK'
  <2>1. unsorted' \subseteq Job
    BY <1>0 DEF TypeOK
  <2> QED BY <1>0, <1>2, <2>1, Zenon DEF TypeOK
<1>4. Always' /\ (clicks' < 2 => Apart')
  <2>1. unsorted' \subseteq unsorted
    BY <1>0
  <2> QED BY <1>0, <2>1, QuietKeeps
<1>5. ASSUME visits' = 0 PROVE Stays' /\ unsorted' = {}
  <2>1. Stays /\ unsorted \subseteq 1..added
    BY <1>0, <1>5 DEF QueueInv, Always
  <2>2. \A k \in DOMAIN tasks' :
          tasks'[k].trip \in {trip, NoTrip} /\ (tasks'[k].stage = "sorting" => tasks'[k].trip = trip)
    BY <1>1, <1>2, <2>1 DEF Stays
  <2>3. unsorted' = {}
    BY <1>0, <2>1 DEF Stays
  <2> QED BY <1>0, <2>1, <2>2, <2>3 DEF Stays
<1>6. PhotosGetSorted'
  BY <1>5 DEF PhotosGetSorted
<1> QED BY <1>3, <1>4, <1>5, <1>6 DEF QueueInv

LEMMA SortedKeeps ==
  ASSUME QueueInv, NEW i \in DOMAIN tasks, Sorted(i)
  PROVE  QueueInv'
<1> DEFINE cleared == [tasks[i] EXCEPT !.stage = "clear", !.first = Waiting]
<1>0. /\ TypeOK /\ tasks[i].stage = "sorting" /\ retryAll' \in BOOLEAN
      /\ items' \subseteq items /\ buttons' \subseteq buttons /\ buttons' \subseteq items'
      /\ (tasks[i].trip # NoTrip /\ trip' = tasks[i].trip) \/ trip' = trip
      /\ tasks' = RemoveAt(tasks, i) \/ tasks' = [tasks EXCEPT ![i] = cleared]
      /\ UNCHANGED <<added, home, jobs, queue, inFlight, running, timers, retries, done, failed,
                     failures, unsorted, clicks, visits>>
  <2>1. TypeOK /\ buttons \subseteq items
    BY DEF QueueInv, TypeOK
  <2>2. tasks[i].stage = "sorting" /\ (items' \subseteq items /\ buttons' \subseteq buttons /\ buttons' \subseteq items')
    BY <2>1 DEF Sorted, Redraw
  <2>3. retryAll' \in BOOLEAN /\ (tasks' = RemoveAt(tasks, i) \/ tasks' = [tasks EXCEPT ![i] = cleared])
    BY DEF Sorted, Summary
  <2> QED BY <2>1, <2>2, <2>3 DEF Sorted
<1>1. cleared \in Task /\ cleared.trip = tasks[i].trip /\ cleared.stage = "clear"
  <2>1. tasks[i] \in Task /\ Waiting \in SUBSET Job
    BY <1>0 DEF TypeOK, Waiting
  <2> HIDE DEF Waiting
  <2> QED BY <2>1 DEF Task
<1> HIDE DEF cleared
<1>2. /\ tasks' \in Seq(Task)
      /\ \A m \in DOMAIN tasks' :
           \/ \E k \in DOMAIN tasks : tasks'[m] = tasks[k]
           \/ tasks'[m].trip = tasks[i].trip /\ tasks'[m].stage = "clear"
      /\ \A k \in DOMAIN tasks : k # i => \E m \in DOMAIN tasks' : tasks'[m] = tasks[k]
  <2>1. CASE tasks' = RemoveAt(tasks, i)
    BY <1>0, <2>1, Removed, Bounds
  <2>2. CASE tasks' = [tasks EXCEPT ![i] = cleared]
    <3>1. /\ tasks' \in Seq(Task) /\ DOMAIN tasks' = DOMAIN tasks
          /\ tasks'[i] = cleared /\ \A k \in DOMAIN tasks : k # i => tasks'[k] = tasks[k]
      BY <1>0, <1>1, <2>2, Bounds
    <3> QED BY <1>1, <3>1
  <2> QED BY <1>0, <2>1, <2>2
<1>3. TypeOK'
  <2>1. trip' \in Trip \union {NoTrip}
    <3>1. tasks[i] \in Task /\ trip \in Trip \union {NoTrip}
      BY <1>0 DEF TypeOK
    <3> QED BY <1>0, <3>1 DEF Task
  <2>2. items' \subseteq jobs'
    BY <1>0 DEF TypeOK
  <2> QED BY <1>0, <1>2, <2>1, <2>2, Zenon DEF TypeOK
<1>4. Always' /\ (clicks' < 2 => Apart')
  BY <1>0, QuietKeeps
<1>5. ASSUME visits' = 0 PROVE Stays'
  <2>1. Stays
    BY <1>0, <1>5 DEF QueueInv
  <2>2. trip' = trip
    BY <1>0, <2>1 DEF Stays
  <2>3. ASSUME NEW m \in DOMAIN tasks'
        PROVE  tasks'[m].trip \in {trip, NoTrip} /\ (tasks'[m].stage = "sorting" => tasks'[m].trip = trip)
    BY <1>2, <2>1 DEF Stays
  <2> QED BY <1>0, <2>1, <2>2, <2>3 DEF Stays
<1>6. PhotosGetSorted'
  <2>1. \A k \in DOMAIN tasks : tasks[k].stage = "settle" => \E m \in DOMAIN tasks' : tasks'[m].stage = "settle"
    <3> SUFFICES ASSUME NEW k \in DOMAIN tasks, tasks[k].stage = "settle"
                 PROVE  \E m \in DOMAIN tasks' : tasks'[m].stage = "settle"
      OBVIOUS
    <3>1. k # i
      BY <1>0
    <3>2. PICK m \in DOMAIN tasks' : tasks'[m] = tasks[k]
      BY <1>2, <3>1
    <3> QED BY <3>2
  <2>2. Forgotten' = Forgotten
    BY <1>0 DEF Forgotten
  <2> QED BY <1>0, <2>1, <2>2, QuietSorts
<1> QED BY <1>3, <1>4, <1>5, <1>6 DEF QueueInv

LEMMA ClearKeeps ==
  ASSUME QueueInv, NEW i \in DOMAIN tasks, Clear(i)
  PROVE  QueueInv'
<1>0. /\ TypeOK /\ tasks[i].stage = "clear" /\ tasks' = RemoveAt(tasks, i)
      /\ jobs' = {} /\ failures' = 0 /\ retryAll' = FALSE /\ items' = {} /\ buttons' = {}
      /\ UNCHANGED <<trip, added, home, queue, inFlight, running, timers, retries, done, failed,
                     unsorted, clicks, visits>>
  BY DEF Clear, Redraw, QueueInv
<1>2. /\ tasks' \in Seq(Task)
      /\ \A m \in DOMAIN tasks' : \E k \in DOMAIN tasks : tasks'[m] = tasks[k]
      /\ \A k \in DOMAIN tasks : k # i => \E m \in DOMAIN tasks' : tasks'[m] = tasks[k]
  BY <1>0, Removed, Bounds
<1>3. TypeOK'
  <2>1. jobs' \subseteq 1..added' /\ failures' \in Nat /\ retryAll' \in BOOLEAN
        /\ buttons' \subseteq items' /\ items' \subseteq jobs'
    BY <1>0
  <2> QED BY <1>0, <1>2, <2>1, Zenon DEF TypeOK
<1>4. Always' /\ (clicks' < 2 => Apart')
  BY <1>0, QuietKeeps
<1>5. ASSUME visits' = 0 PROVE Stays'
  <2>1. Stays
    BY <1>0, <1>5 DEF QueueInv
  <2>3. ASSUME NEW m \in DOMAIN tasks'
        PROVE  tasks'[m].trip \in {trip, NoTrip} /\ (tasks'[m].stage = "sorting" => tasks'[m].trip = trip)
    BY <1>2, <2>1 DEF Stays
  <2> QED BY <1>0, <2>1, <2>3 DEF Stays
<1>6. PhotosGetSorted'
  <2>1. \A k \in DOMAIN tasks : tasks[k].stage = "settle" => \E m \in DOMAIN tasks' : tasks'[m].stage = "settle"
    <3> SUFFICES ASSUME NEW k \in DOMAIN tasks, tasks[k].stage = "settle"
                 PROVE  \E m \in DOMAIN tasks' : tasks'[m].stage = "settle"
      OBVIOUS
    <3>1. k # i
      BY <1>0
    <3>2. PICK m \in DOMAIN tasks' : tasks'[m] = tasks[k]
      BY <1>2, <3>1
    <3> QED BY <3>2
  <2>2. Forgotten' = {} => Forgotten = {}
    BY <1>0 DEF Forgotten
  <2> QED BY <1>0, <2>1, <2>2, QuietSorts
<1> QED BY <1>3, <1>4, <1>5, <1>6 DEF QueueInv

LEMMA VisitKeeps ==
  ASSUME QueueInv, NEW t \in Trip \union {NoTrip}, Visit(t)
  PROVE  QueueInv'
<1>0. /\ TypeOK /\ visits \in Nat /\ visits' = visits + 1 /\ trip' = t
      /\ items' = {} /\ buttons' = {} /\ retryAll' = FALSE
      /\ UNCHANGED <<added, home, jobs, queue, inFlight, running, timers, retries, done, failed,
                     failures, tasks, unsorted, clicks>>
  BY DEF Visit, Redraw, QueueInv, Always
<1>1. TypeOK'
  <2>1. retryAll' \in BOOLEAN /\ buttons' \subseteq items' /\ items' \subseteq jobs'
    BY <1>0
  <2> QED BY <1>0, <2>1, Zenon DEF TypeOK
<1>2. Always' /\ (clicks' < 2 => Apart')
  BY <1>0, QuietKeeps
<1>3. visits' # 0
  BY <1>0
<1> QED BY <1>1, <1>2, <1>3 DEF QueueInv, PhotosGetSorted

LEMMA ReloadKeeps ==
  ASSUME QueueInv, Reload
  PROVE  QueueInv'
<1>0. /\ TypeOK /\ items' = {} /\ buttons' = {} /\ retryAll' = FALSE
      /\ UNCHANGED <<added, home, jobs, queue, inFlight, running, timers, retries, done, failed,
                     failures, tasks, unsorted, clicks, trip, visits>>
  BY DEF Reload, Redraw, page, QueueInv
<1>1. TypeOK'
  <2>1. retryAll' \in BOOLEAN /\ buttons' \subseteq items' /\ items' \subseteq jobs'
    BY <1>0
  <2> QED BY <1>0, <2>1, Zenon DEF TypeOK
<1>2. Always' /\ (clicks' < 2 => Apart')
  BY <1>0, QuietKeeps
<1>3. visits' = 0 => Stays'
  BY <1>0 DEF QueueInv, Stays
<1>4. PhotosGetSorted'
  <2>1. Forgotten' = Forgotten
    BY <1>0 DEF Forgotten
  <2> QED BY <1>0, <2>1, QuietSorts
<1> QED BY <1>1, <1>2, <1>3, <1>4 DEF QueueInv

LEMMA StutterKeeps ==
  ASSUME QueueInv, UNCHANGED vars
  PROVE  QueueInv'
<1>0. UNCHANGED <<trip, visits, added, home, jobs, queue, inFlight, running, timers, retries, done,
                  failed, failures, items, buttons, retryAll, tasks, unsorted, clicks>>
  BY DEF vars, page
<1>1. Queued' = Queued /\ Forgotten' = Forgotten
  BY <1>0 DEF Queued, Forgotten
<1>2. TypeOK'
  BY <1>0, Zenon DEF QueueInv, TypeOK
<1>3. Always' /\ (clicks' < 2 => Apart')
  BY <1>0, QuietKeeps
<1>4. visits' = 0 => Stays'
  BY <1>0 DEF QueueInv, Stays
<1>5. PhotosGetSorted'
  BY <1>0, <1>1, QuietSorts
<1> QED BY <1>2, <1>3, <1>4, <1>5 DEF QueueInv

-----------------------------------------------------------------------------
(* The theorems. *)

\* A page that was just opened has nothing to upload.
LEMMA QueueInit ==
  ASSUME Init
  PROVE  QueueInv
<1>0. /\ trip \in Trip /\ added = 0 /\ home = [j \in Job |-> NoTrip]
      /\ jobs = {} /\ queue = <<>> /\ inFlight = {}
      /\ running = [j \in Job |-> 0] /\ timers = [j \in Job |-> 0] /\ retries = [j \in Job |-> 0]
      /\ done = {} /\ failed = {} /\ failures = 0
      /\ items = {} /\ buttons = {} /\ retryAll = FALSE /\ tasks = <<>> /\ unsorted = {}
      /\ clicks = 0 /\ visits = 0
  BY DEF Init
<1>1. TypeOK
  <2>1. /\ running \in [Job -> Nat] /\ timers \in [Job -> Nat] /\ retries \in [Job -> 0..MaxRetries]
        /\ home \in [Job -> Trip \union {NoTrip}] /\ added \in 0..Jobs
    BY <1>0, JobsAre
  <2>2. /\ trip \in Trip \union {NoTrip} /\ jobs \subseteq 1..added
        /\ inFlight \subseteq Job /\ done \subseteq Job /\ failed \subseteq Job /\ failures \in Nat
        /\ buttons \subseteq items /\ items \subseteq jobs /\ retryAll \in BOOLEAN
        /\ unsorted \subseteq Job
    BY <1>0
  <2>3. queue \in Seq(Job) /\ tasks \in Seq(Task)
    BY <1>0
  <2> QED BY <2>1, <2>2, <2>3, Zenon DEF TypeOK
<1>2. DOMAIN queue = {} /\ DOMAIN tasks = {} /\ 1..added = {}
  BY <1>0
<1>3. Always
  <2>1. Cardinality(inFlight) <= MaxConcurrent
    BY <1>0, FS_EmptySet, JobsAre
  <2>2. ASSUME NEW j \in Job PROVE Nowhere(j)
    <3>1. j \notin Queued
      BY <1>2, QueuedIs
    <3> QED BY <1>0, <3>1 DEF Nowhere
  <2> QED BY <1>0, <2>1, <2>2 DEF Always
<1>4. Apart
  <2>1. Single(queue, inFlight, running, timers)
    BY <1>0, <1>2 DEF Single, Distinct
  <2> QED BY <1>0, <2>1 DEF Apart
<1>5. Stays
  BY <1>0, <1>2 DEF Stays
<1>6. PhotosGetSorted
  BY <1>0 DEF PhotosGetSorted
<1> QED BY <1>1, <1>3, <1>4, <1>5, <1>6 DEF QueueInv

LEMMA QueueStep == QueueInv /\ [Next]_vars => QueueInv'
<1> SUFFICES ASSUME QueueInv, [Next]_vars PROVE QueueInv'
  OBVIOUS
<1>1. ASSUME NEW n \in 1..Jobs, AddFiles(n) PROVE QueueInv'
  BY <1>1, AddFilesKeeps
<1>2. ASSUME NEW j \in Job, Ends(j) PROVE QueueInv'
  BY <1>2, UploadDoneKeeps, RetryLaterKeeps, UploadFailedKeeps DEF Ends
<1>3. ASSUME NEW j \in Job, RetryTimer(j) PROVE QueueInv'
  BY <1>3, RetryTimerKeeps
<1>4. ASSUME NEW j \in Job, RetryClick(j) PROVE QueueInv'
  BY <1>4, RetryClickKeeps
<1>5. CASE RetryAllClick
  BY <1>5, RetryAllClickKeeps
<1>6. CASE Reload
  BY <1>6, ReloadKeeps
<1>7. CASE TaskStep
  BY <1>7, AskForSortKeeps, SortedKeeps, ClearKeeps DEF TaskStep
<1>8. ASSUME NEW t \in Trip \union {NoTrip}, Visit(t) PROVE QueueInv'
  BY <1>8, VisitKeeps
<1>9. CASE UNCHANGED vars
  BY <1>9, StutterKeeps
<1> QED BY <1>1, <1>2, <1>3, <1>4, <1>5, <1>6, <1>7, <1>8, <1>9 DEF Next

LEMMA QueueInvariant == Spec => []QueueInv
<1>1. Init => QueueInv
  BY QueueInit
<1> QED BY <1>1, QueueStep, PTL DEF Spec

\* The bookkeeping of the page keeps its types: the lines and the buttons on the
\* page belong to jobs that are known, and job.retries does not exceed MAX_RETRIES
\* (index.html:5713).
THEOREM QueueTypes == Spec => []TypeOK
<1>1. QueueInv => TypeOK
  BY DEF QueueInv
<1> QED BY <1>1, QueueInvariant, PTL

LEMMA OnePlace == QueueInv => JobsInOnePlace
<1> SUFFICES ASSUME QueueInv, clicks < 2
    PROVE  /\ {j \in Job : running[j] > 0} = inFlight
           /\ Cardinality(inFlight) <= MaxConcurrent
           /\ \A j \in Job :
                /\ Cardinality({i \in DOMAIN queue : queue[i] = j}) + running[j] + timers[j] <= 1
                /\ j \in done => j \notin Queued /\ running[j] + timers[j] = 0
  BY DEF JobsInOnePlace
<1>0. TypeOK /\ Apart /\ Single(queue, inFlight, running, timers)
  BY DEF QueueInv, Apart
<1>1. {j \in Job : running[j] > 0} = inFlight
  BY <1>0, Bounds DEF Single
<1>2. Cardinality(inFlight) <= MaxConcurrent
  BY DEF QueueInv, Always
<1>3. ASSUME NEW j \in Job
      PROVE  Cardinality({i \in DOMAIN queue : queue[i] = j}) + running[j] + timers[j] <= 1
  <2> DEFINE count == Cardinality({i \in DOMAIN queue : queue[i] = j})
  <2>1. queue \in Seq(Job) /\ Len(queue) \in 0..Len(queue) /\ DOMAIN queue = 1..Len(queue)
    BY <1>0, Bounds
  <2>2. /\ count \in Nat /\ count <= 1
        /\ count > 0 => \E i \in DOMAIN queue : queue[i] = j
    BY <1>0, <2>1, Counting DEF Single
  <2>3. running[j] \in Nat /\ timers[j] \in Nat /\ running[j] + timers[j] <= 1
    BY <1>0, Bounds DEF Single
  <2>4. (\E i \in DOMAIN queue : queue[i] = j) => running[j] = 0 /\ timers[j] = 0
    BY <1>0 DEF Single
  <2> HIDE DEF count
  <2>5. count + running[j] + timers[j] <= 1
    BY <2>2, <2>3, <2>4
  <2> QED BY <2>5 DEF count
<1>4. ASSUME NEW j \in Job, j \in done PROVE j \notin Queued /\ running[j] + timers[j] = 0
  BY <1>0, <1>4 DEF Apart, Nowhere
<1> QED BY <1>1, <1>2, <1>3, <1>4

\* Unless the user has asked twice for retries, a file is never queued, in flight
\* or waiting for its retry twice over, one that is done is in none of these
\* places, and no more than MAX_CONCURRENT uploads run: dispatchNext, the catch
\* branch, the timer and the retry buttons hand a job on and never copy it
\* (index.html:5668-5731, 5905-5973).
THEOREM JobsStayInOnePlace == Spec => []JobsInOnePlace
<1> QED BY OnePlace, QueueInvariant, PTL

\* On a page the user stays on, a photo that was stored and not yet sorted always
\* has something ahead that will ask for the sort: the 300 ms of
\* checkAllUploadsFinished (index.html:5788-5798), a run of an upload or a retry
\* that waits.  Excepted are a job that the list was cleared of and two clicks.
THEOREM PhotosAreSorted == Spec => []PhotosGetSorted
<1>1. QueueInv => PhotosGetSorted
  BY DEF QueueInv
<1> QED BY <1>1, QueueInvariant, PTL

=============================================================================
