---------------------------- MODULE UploadQueue ----------------------------
(***************************************************************************)
(* The page's side of uploading (src/srv/templates/index.html): a queue of   *)
(* files, a limited number of uploads in flight, retries after a delay, and   *)
(* what happens when all is done: the trip is sorted into stops and the list  *)
(* is cleared.  JavaScript runs one callback at a time; each action is one    *)
(* callback.  What an upload is made of is the subject of ChunkedUpload; here *)
(* it ends with an answer or an error, and an error does not tell whether the *)
(* photo was stored.                                                          *)
(***************************************************************************)
EXTENDS Integers, Sequences, FiniteSets, FiniteSetsExt, SequencesExt

CONSTANTS
  Trip,           \* trips the page may show
  NoTrip,         \* the list of trips is shown
  Jobs,           \* bound of the model: how many files the user adds
  MaxConcurrent,  \* MAX_CONCURRENT
  MaxRetries,     \* MAX_RETRIES
  Clicks,         \* bound of the model: how often the user asks for a retry
  Visits          \* bound of the model: how often the user goes to another view

ASSUME NoTripAssumption == NoTrip \notin Trip
ASSUME BoundsAssumption == /\ {Jobs, MaxRetries, Clicks, Visits} \subseteq Nat
                           /\ MaxConcurrent \in Nat \ {0}

Job == 1..Jobs

VARIABLES
  trip,      \* state.currentTrip
  added,     \* uploadIdCounter
  home,      \* job -> the trip in its url
  jobs,      \* uploadJobs
  queue,     \* uploadQueue
  inFlight,  \* inFlightUploads
  running,   \* job -> how many runs of doChunkedUpload are under way for it
  timers,    \* job -> how many of its retries wait for their time
  retries,   \* job.retries
  done,      \* jobs with job.done
  failed,    \* jobs with job.failed
  failures,  \* uploadBatchFailed
  items,     \* jobs whose line is in the document
  buttons,   \* those of them with a retry button
  retryAll,  \* the "Retry All Failed" button is shown
  tasks,     \* what follows when all is finished, see Task
  unsorted,  \* jobs with a photo since a sort was last asked for
  clicks, visits

page  == <<trip, visits>>
vars  == <<trip, added, home, jobs, queue, inFlight, running, timers, retries, done, failed,
           failures, items, buttons, retryAll, tasks, unsorted, clicks, visits>>

\* "settle": the 300 ms before the sort; "sorting": its request, for trip, is under
\* way; "clear": the 4 s before the list goes.  A retry waits 1 to 4 s: one that is
\* set during the 300 ms comes after them (later), one that waited when the 4 s
\* began comes before their end (first).
Task == [stage : {"settle", "sorting", "clear"}, hasFailed : BOOLEAN,
         trip : Trip \union {NoTrip}, later : SUBSET Job, first : SUBSET Job]

Waiting == {j \in Job : timers[j] > 0}

Init ==
  /\ trip \in Trip
  /\ added = 0 /\ home = [j \in Job |-> NoTrip]
  /\ jobs = {} /\ queue = <<>> /\ inFlight = {}
  /\ running = [j \in Job |-> 0] /\ timers = [j \in Job |-> 0] /\ retries = [j \in Job |-> 0]
  /\ done = {} /\ failed = {} /\ failures = 0
  /\ items = {} /\ buttons = {} /\ retryAll = FALSE
  /\ tasks = <<>>
  /\ unsorted = {}
  /\ clicks = 0 /\ visits = 0

-----------------------------------------------------------------------------
\* The jobs that the first n entries of a queue start: unknown ids are skipped.
Started(q, n, known) == {q[i] : i \in 1..n} \intersect known

\* How many entries dispatchNext takes: until enough jobs are in flight.
Taken(q, f, known) ==
  Min({n \in 0..Len(q) :
         n = Len(q) \/ Cardinality(f \union Started(q, n, known)) >= MaxConcurrent})

\* dispatchNext, with queue q, jobs f in flight, runs r and retry buttons b.  A job
\* that starts loses its button.
Dispatch(q, f, known, r, b) ==
  LET n == Taken(q, f, known)
  IN  /\ queue' = SubSeq(q, n + 1, Len(q))
      /\ inFlight' = f \union Started(q, n, known)
      /\ running' = [j \in Job |->
           IF j \in known THEN r[j] + Cardinality({i \in 1..n : q[i] = j}) ELSE r[j]]
      /\ buttons' = b \ Started(q, n, known)

\* updateUploadSummary
Summary(q, f, n) == retryAll' = (n > 0 /\ f = {} /\ q = <<>>)

\* checkAllUploadsFinished, after dispatchNext and with the failed jobs bad: retries
\* that wait do not count.
CheckAllFinished(bad) ==
  tasks' = IF inFlight' # {} \/ queue' # <<>> THEN tasks
           ELSE Append(tasks, [stage |-> "settle", trip |-> NoTrip, later |-> {}, first |-> {},
                               hasFailed |-> jobs \intersect bad # {}])

-----------------------------------------------------------------------------
\* uploadPhotos: n files are dropped on the page of a trip.
AddFiles(n) ==
  LET new == (added + 1)..(added + n)
  IN  /\ trip # NoTrip
      /\ n > 0 /\ added + n <= Jobs
      /\ added' = added + n
      /\ home' = [j \in Job |-> IF j \in new THEN trip ELSE home[j]]
      /\ jobs' = jobs \union new
      /\ items' = items \union new
      /\ retryAll' = FALSE
      /\ Dispatch(queue \o [i \in 1..n |-> added + i], inFlight, jobs', running, buttons)
      /\ UNCHANGED <<timers, retries, done, failed, failures, tasks, unsorted, clicks, page>>

\* Mutant: nothing follows the last upload.
UploadDoneUnchecked(j) ==
  /\ running[j] > 0
  /\ unsorted' = unsorted \union {j}
  /\ done' = done \union {j} /\ failed' = failed \ {j}
  /\ Summary(queue, inFlight \ {j}, failures)
  /\ Dispatch(queue, inFlight \ {j}, jobs, [running EXCEPT ![j] = @ - 1], buttons)
  /\ UNCHANGED <<added, home, jobs, timers, retries, failures, items, tasks, clicks, page>>

\* doChunkedUpload(job).then
UploadDone(j) ==
  /\ running[j] > 0
  /\ unsorted' = unsorted \union {j}
  /\ done' = done \union {j} /\ failed' = failed \ {j}
  /\ Summary(queue, inFlight \ {j}, failures)
  /\ Dispatch(queue, inFlight \ {j}, jobs, [running EXCEPT ![j] = @ - 1], buttons)
  /\ CheckAllFinished(failed \ done')
  /\ UNCHANGED <<added, home, jobs, timers, retries, failures, items, clicks, page>>

\* An attempt fails: the photo was not stored, or the answer was lost.
Attempt(j) ==
  /\ running[j] > 0
  /\ unsorted' \in {unsorted, unsorted \union {j}}

\* Mutant: one retry too many.
RetryLaterOnceMore(j) ==
  /\ Attempt(j)
  /\ retries' = [retries EXCEPT ![j] = @ + 1]
  /\ timers' = [timers EXCEPT ![j] = @ + 1]
  /\ inFlight' = inFlight \ {j}
  /\ running' = [running EXCEPT ![j] = @ - 1]
  /\ UNCHANGED <<added, home, jobs, queue, done, failed, failures, items, buttons, retryAll,
                 tasks, clicks, page>>

\* Mutant: the place in flight is kept for the retry.
RetryLaterKeepsPlace(j) ==
  /\ Attempt(j)
  /\ retries[j] < MaxRetries
  /\ retries' = [retries EXCEPT ![j] = @ + 1]
  /\ timers' = [timers EXCEPT ![j] = @ + 1]
  /\ running' = [running EXCEPT ![j] = @ - 1]
  /\ UNCHANGED <<added, home, jobs, queue, inFlight, done, failed, failures, items, buttons,
                 retryAll, tasks, clicks, page>>

\* .catch with retries left: a timer is set, the freed place stays free until then.
RetryLater(j) ==
  /\ Attempt(j)
  /\ retries[j] < MaxRetries
  /\ retries' = [retries EXCEPT ![j] = @ + 1]
  /\ timers' = [timers EXCEPT ![j] = @ + 1]
  /\ inFlight' = inFlight \ {j}
  /\ running' = [running EXCEPT ![j] = @ - 1]
  /\ tasks' = [i \in DOMAIN tasks |->
       IF tasks[i].stage = "settle" /\ timers[j] = 0
         THEN [tasks[i] EXCEPT !.later = @ \union {j}] ELSE tasks[i]]
  /\ UNCHANGED <<added, home, jobs, queue, done, failed, failures, items, buttons, retryAll,
                 clicks, page>>

\* .catch without
UploadFailed(j) ==
  /\ Attempt(j)
  /\ retries[j] = MaxRetries
  /\ failed' = failed \union {j}
  /\ failures' = failures + 1
  /\ Summary(queue, inFlight \ {j}, failures + 1)
  /\ Dispatch(queue, inFlight \ {j}, jobs, [running EXCEPT ![j] = @ - 1],
              buttons \union ({j} \intersect items))
  /\ CheckAllFinished(failed' \ done)
  /\ UNCHANGED <<added, home, jobs, timers, retries, done, items, clicks, page>>

Fired(j) ==
  /\ timers[j] > 0
  /\ \A i \in DOMAIN tasks : j \notin tasks[i].later
  /\ timers' = [timers EXCEPT ![j] = @ - 1]
  /\ tasks' = [i \in DOMAIN tasks |-> [tasks[i] EXCEPT !.first = @ \ {j}]]
  /\ UNCHANGED <<added, home, jobs, retries, done, failed, failures, items, retryAll,
                 unsorted, clicks, page>>

\* Mutant: the job is queued again, and nobody takes it from there.
RetryTimerQueuesOnly(j) ==
  /\ Fired(j)
  /\ queue' = <<j>> \o queue
  /\ UNCHANGED <<inFlight, running, buttons>>

\* The delay is over.
RetryTimer(j) ==
  /\ Fired(j)
  /\ Dispatch(<<j>> \o queue, inFlight, jobs, running, buttons)

\* retryUpload: the button of one line.
RetryClick(j) ==
  /\ trip # NoTrip /\ j \in buttons /\ clicks < Clicks
  /\ clicks' = clicks + 1
  /\ IF j \notin jobs
       THEN UNCHANGED <<queue, inFlight, running, buttons, failed, retries, failures, retryAll>>
       ELSE /\ failed' = failed \ {j}
            /\ retries' = [retries EXCEPT ![j] = 0]
            /\ failures' = IF failures > 0 THEN failures - 1 ELSE 0
            /\ retryAll' = FALSE
            /\ Dispatch(Append(queue, j), inFlight, jobs, running, buttons)
  /\ UNCHANGED <<added, home, jobs, timers, done, items, tasks, unsorted, page>>

\* retryAllFailed
RetryAllClick ==
  LET again == jobs \intersect (failed \ done)
  IN  /\ trip # NoTrip /\ retryAll /\ clicks < Clicks
      /\ clicks' = clicks + 1
      /\ failed' = failed \ again
      /\ retries' = [j \in Job |-> IF j \in again THEN 0 ELSE retries[j]]
      /\ failures' = 0
      /\ retryAll' = FALSE
      /\ \E order \in [1..Cardinality(again) -> again] :
           /\ \A i, k \in DOMAIN order : i < k => order[i] < order[k]
           /\ Dispatch(queue \o order, inFlight, jobs, running, buttons)
      /\ UNCHANGED <<added, home, jobs, timers, done, items, tasks, unsorted, page>>

-----------------------------------------------------------------------------
(* The two timeouts of checkAllUploadsFinished and the request between them *)

\* The page is drawn anew, without the lines of the uploads.
Redraw == items' = {} /\ buttons' = {}

\* The trip on show is sorted, whichever it is; without one there is no request.
AskForSort(i) ==
  /\ tasks[i].stage = "settle"
  /\ tasks' = [tasks EXCEPT ![i] = [tasks[i] EXCEPT !.stage = "sorting", !.trip = trip, !.later = {}]]
  /\ unsorted' = {j \in unsorted : home[j] # trip}
  /\ UNCHANGED <<added, home, jobs, queue, inFlight, running, timers, retries, done, failed,
                 failures, items, buttons, retryAll, clicks, page>>

\* The request has ended: its trip, or the trip on show, is drawn.
Sorted(i) ==
  /\ tasks[i].stage = "sorting"
  /\ \/ tasks[i].trip # NoTrip /\ trip' = tasks[i].trip
     \/ UNCHANGED trip
  /\ IF trip' = NoTrip THEN UNCHANGED <<items, buttons>> ELSE Redraw
  /\ IF tasks[i].hasFailed
       THEN /\ tasks' = RemoveAt(tasks, i)
            /\ Summary(queue, inFlight, failures)
       ELSE /\ tasks' = [tasks EXCEPT ![i] = [tasks[i] EXCEPT !.stage = "clear", !.first = Waiting]]
            /\ retryAll' = FALSE
  /\ UNCHANGED <<added, home, jobs, queue, inFlight, running, timers, retries, done, failed,
                 failures, unsorted, clicks, visits>>

\* The list goes, with whatever is in it by now.
Clear(i) ==
  /\ tasks[i].stage = "clear" /\ tasks[i].first = {}
  /\ tasks' = RemoveAt(tasks, i)
  /\ jobs' = {} /\ failures' = 0 /\ retryAll' = FALSE
  /\ Redraw
  /\ UNCHANGED <<trip, added, home, queue, inFlight, running, timers, retries, done, failed,
                 unsorted, clicks, visits>>

\* The user opens another trip, or the list of trips.
Visit(t) ==
  /\ t # trip /\ visits < Visits
  /\ visits' = visits + 1
  /\ trip' = t
  /\ Redraw /\ retryAll' = FALSE
  /\ UNCHANGED <<added, home, jobs, queue, inFlight, running, timers, retries, done, failed,
                 failures, tasks, unsorted, clicks>>

\* Another change to the trip has it drawn anew.
Reload ==
  /\ trip # NoTrip
  /\ Redraw /\ retryAll' = FALSE
  /\ UNCHANGED <<added, home, jobs, queue, inFlight, running, timers, retries, done, failed,
                 failures, tasks, unsorted, clicks, page>>

-----------------------------------------------------------------------------
Ends(j) == UploadDone(j) \/ RetryLater(j) \/ UploadFailed(j)

TaskStep == \E i \in DOMAIN tasks : AskForSort(i) \/ Sorted(i) \/ Clear(i)

Next ==
  \/ \E n \in 1..Jobs : AddFiles(n)
  \/ \E j \in Job : Ends(j) \/ RetryTimer(j) \/ RetryClick(j)
  \/ RetryAllClick \/ Reload \/ TaskStep
  \/ \E t \in Trip \union {NoTrip} : Visit(t)

Spec == Init /\ [][Next]_vars

\* Requests end, by an answer or an error, and timers fire.
FairSpec == Spec /\ WF_vars(TaskStep) /\ \A j \in Job : WF_vars(Ends(j)) /\ WF_vars(RetryTimer(j))

-----------------------------------------------------------------------------
(* Properties *)

Queued == Range(queue)

TypeOK ==
  /\ trip \in Trip \union {NoTrip} /\ home \in [Job -> Trip \union {NoTrip}]
  /\ added \in 0..Jobs /\ jobs \subseteq 1..added
  /\ queue \in Seq(Job) /\ inFlight \subseteq Job
  /\ running \in [Job -> Nat] /\ timers \in [Job -> Nat] /\ retries \in [Job -> 0..MaxRetries]
  /\ done \subseteq Job /\ failed \subseteq Job /\ failures \in Nat
  /\ buttons \subseteq items /\ items \subseteq jobs
  /\ retryAll \in BOOLEAN
  /\ tasks \in Seq(Task)
  /\ unsorted \subseteq Job

\* Unless the user has asked twice for retries, a job is in one place: it waits in
\* the queue, or one upload of it is in flight, or its retry waits, or it has
\* ended; and no more than MAX_CONCURRENT uploads run.
JobsInOnePlace ==
  clicks < 2 =>
    /\ {j \in Job : running[j] > 0} = inFlight
    /\ Cardinality(inFlight) <= MaxConcurrent
    /\ \A j \in Job :
         /\ Cardinality({i \in DOMAIN queue : queue[i] = j}) + running[j] + timers[j] <= 1
         /\ j \in done => j \notin Queued /\ running[j] + timers[j] = 0

\* Jobs the list was cleared of before they had ended.
Forgotten == (1..added) \ (jobs \union done \union failed)

\* Every photo that was stored is followed by a request to sort its trip, unless
\* the user has gone to another view, a job was forgotten, or two uploads of one
\* run: the check is left to the last job that ends, also when a retry of an
\* earlier one still waits.
PhotosGetSorted ==
  clicks < 2 /\ visits = 0 /\ Forgotten = {} =>
    \A j \in unsorted :
      \/ \E i \in DOMAIN tasks : tasks[i].stage = "settle"
      \/ \E k \in Job : running[k] + timers[k] > 0

\* Every file that was added is uploaded or shown as failed, or the list has been
\* cleared; none is left in the queue, although a failed attempt starts nothing.
UploadsEnd ==
  \A j \in Job : j \in Queued \/ running[j] > 0 \/ timers[j] > 0
                   ~> j \in done \/ j \in failed \/ j \notin jobs

\* `Keep queue visible if there are failures (user can retry)' (index.html:5815):
\* a job that has failed for good stays known, so that it can be tried again.
FailuresStayListed == \A j \in failed \ done : j \in jobs

=============================================================================
