--------------------------- MODULE ItineraryProofs ---------------------------
(***************************************************************************)
(* Theorems about Itinerary for any number of pages, stops and photos, any   *)
(* clusters and any faults: a photo's stop always exists, and only an edit   *)
(* of a stop can change the order of others.  And for one page whose         *)
(* statements do not fail, though it may hang up at any of them: stops keep  *)
(* distinct places and their order, and a sort leaves the clusters it found. *)
(***************************************************************************)
EXTENDS Itinerary, FiniteSetTheorems, TLAPS

\* A finite set of integers has a maximum: an element with the fewest above it.
LEMMA MaxIsMember ==
  ASSUME NEW S, S \subseteq Int, S # {}, IsFiniteSet(S)
  PROVE  Max(S) \in S /\ \A y \in S : Max(S) >= y
<1> DEFINE Above(x) == {y \in S : y > x}
           T == {Above(x) : x \in S}
<1>1. T # {} BY DEF T
<1>2. T \subseteq FiniteSubsetsOf(S)
  BY FS_Subset DEF FiniteSubsetsOf
<1>3. \E A \in T : \A B \in T : ~ (<<B, A>> \in StrictSubsetOrdering(S))
  <2>. HIDE DEF T
  <2>. QED BY <1>1, <1>2, FS_StrictSubsetOrderingWellFounded, WFMin
<1>4. PICK x \in S : \A B \in T : ~ (<<B, Above(x)>> \in StrictSubsetOrdering(S)) BY <1>3
<1>5. \A y \in S : x >= y
  <2>. SUFFICES ASSUME NEW y \in S, ~ (x >= y) PROVE FALSE OBVIOUS
  <2>1. x \in Int /\ y \in Int /\ y > x OBVIOUS
  <2>2. Above(y) \in T OBVIOUS
  <2>. HIDE DEF T
  <2>3. \A z \in S : z > y => z > x BY <2>1
  <2>4. Above(y) \subseteq Above(x) BY <2>3
  <2>5. y \in Above(x) /\ y \notin Above(y) BY <2>1
  <2>6. Above(x) \subseteq S /\ Above(y) \subseteq S OBVIOUS
  <2>. HIDE DEF Above
  <2>. QED BY <1>4, <2>2, <2>4, <2>5, <2>6 DEF StrictSubsetOrdering
<1>. QED BY <1>5 DEF Max

-----------------------------------------------------------------------------
(* Type correctness *)

\* Only the two requests that sort photos into stops get to these statements.
Sorting   == {"list", "clear_stops", "clear_photos", "create"}
SortsOnly == \A c \in Client : call[c].pc \in Sorting => call[c].op \in {"auto", "resort"}

Typed == TypeOK /\ SortsOnly

LEMMA TypeInit == Init => Typed
BY DEF Init, Typed, TypeOK, SortsOnly, Sorting, NoOrder, Unassigned, Idle

LEMMA BusyIsHandler ==
  ASSUME TypeOK, NEW c \in Client, call[c].pc # "idle"
  PROVE  call[c] \in Handler
BY DEF TypeOK, Idle

CallType == call \in [Client -> Handler \union {Idle}] /\ SortsOnly

LEMMA BeginType ==
  ASSUME CallType, NEW c \in Client, NEW l \in Phase, NEW o \in Op,
         NEW s \in Stop \union {NoStop}, NEW n \in Nat, NEW ps \in SUBSET Photo,
         l \in Sorting => o \in {"auto", "resort"}, Begin(c, l, o, s, n, ps)
  PROVE  CallType'
BY DEF CallType, SortsOnly, Begin, Become, Handler

LEMMA GotoType ==
  ASSUME CallType, NEW c \in Client, NEW l \in Phase, call[c] \in Handler,
         l \in Sorting => call[c].op \in {"auto", "resort"}, Goto(c, l)
  PROVE  CallType'
BY DEF CallType, SortsOnly, Goto, Become, Handler

LEMMA FailType ==
  ASSUME CallType, NEW c \in Client, call[c] \in Handler, Fail(c)
  PROVE  CallType'
BY DEF CallType, SortsOnly, Sorting, Fail, Become, Handler, Phase, Op, Idle

LEMMA ReturnType ==
  ASSUME CallType, NEW c \in Client, Become(c, Idle)
  PROVE  CallType'
BY DEF CallType, SortsOnly, Sorting, Become, Idle

\* The order a stop is appended with is a natural number.
LEMMA NextOrder ==
  ASSUME TypeOK, Bounded
  PROVE  /\ Max({order[s] : s \in live} \union {-1}) + 1 \in Nat
         /\ \A t \in live : order[t] # Max({order[s] : s \in live} \union {-1}) + 1
<1> DEFINE S == {order[s] : s \in live} \union {-1}
<1>1. S \subseteq -1 .. MaxOrder
  <2>1. \A s \in live : order[s] \in Nat /\ order[s] < MaxOrder BY DEF TypeOK, Bounded
  <2>. QED BY <2>1, MaxOrderAssumption
<1>2. IsFiniteSet(S)
  <2>. HIDE DEF S
  <2>1. -1 \in Int /\ MaxOrder \in Int BY MaxOrderAssumption
  <2>2. IsFiniteSet(-1 .. MaxOrder) BY <2>1, FS_Interval
  <2>. QED BY <1>1, <2>2, FS_Subset
<1>3. S \subseteq Int /\ S # {} BY <1>1
<1>4. Max(S) \in S /\ \A y \in S : Max(S) >= y
  <2>. HIDE DEF S
  <2>. QED BY <1>2, <1>3, MaxIsMember
<1>5. \A n \in -1 .. MaxOrder : n + 1 \in Nat BY MaxOrderAssumption
<1>6. Max(S) + 1 \in Nat
  <2>. HIDE DEF S
  <2>. QED BY <1>1, <1>4, <1>5
<1>7. ASSUME NEW t \in live PROVE order[t] # Max(S) + 1
  <2>1. order[t] \in S OBVIOUS
  <2>. HIDE DEF S
  <2>2. order[t] \in Int /\ Max(S) \in Int /\ Max(S) >= order[t] BY <1>3, <1>4, <2>1
  <2>. QED BY <2>2
<1>. QED BY <1>6, <1>7

LEMMA TypeRequest ==
  ASSUME Typed, NEW c \in Client, Request(c)
  PROVE  Typed'
<1>. SUFFICES CallType' /\ UNCHANGED <<live, order, assigned, view>>
  BY DEF Typed, TypeOK, CallType
<1>0. /\ CallType /\ 0 \in Nat /\ {} \in SUBSET Photo /\ NoStop \in Stop \union {NoStop}
      /\ \A s \in Stop : view[c].order[s] \in Nat
      /\ \A p \in Photo : view[c].assigned[p] \in Stop \union {NoStop}
  BY DEF Typed, TypeOK, CallType
<1>1. CASE AppendStop(c) \/ SortIntoStops(c) \/ Reload(c)
  BY <1>0, <1>1, BeginType DEF AppendStop, SortIntoStops, Reload, Phase, Op, Sorting
<1>2. ASSUME NEW s \in Stop, EditStop(c, s) \/ RemoveStop(c, s)
      PROVE  CallType' /\ UNCHANGED <<live, order, assigned, view>>
  BY <1>0, <1>2, BeginType DEF EditStop, RemoveStop, Phase, Op, Sorting
<1>3. ASSUME NEW s \in Stop, NEW moved \in SUBSET Photo, InsertStop(c, s, moved)
      PROVE  CallType' /\ UNCHANGED <<live, order, assigned, view>>
  <2>1. view[c].order[s] + 1 \in Nat BY <1>0
  <2>. QED BY <1>0, <1>3, <2>1, BeginType DEF InsertStop, Phase, Op, Sorting
<1>4. ASSUME NEW p \in Photo, SavePhoto(c, p)
      PROVE  CallType' /\ UNCHANGED <<live, order, assigned, view>>
  <2>1. {p} \in SUBSET Photo OBVIOUS
  <2>. QED BY <1>0, <1>4, <2>1, BeginType DEF SavePhoto, Phase, Op, Sorting
<1>5. ASSUME NEW p \in Photo, NEW s \in Stop \union {NoStop},
             AssignPhoto(c, p, s) \/ ReorderPhotos(c, p, s)
      PROVE  CallType' /\ UNCHANGED <<live, order, assigned, view>>
  <2>1. /\ {p} \in SUBSET Photo
        /\ {p} \union {q \in Photo : view[c].assigned[q] = s} \in SUBSET Photo
    OBVIOUS
  <2>. QED BY <1>0, <1>5, <2>1, BeginType DEF AssignPhoto, ReorderPhotos, Phase, Op, Sorting
<1>. QED BY <1>1, <1>2, <1>3, <1>4, <1>5 DEF Request

\* What a cluster is, and the photos of none.
LEMMA ClusterType ==
  ASSUME NEW op \in {"auto", "resort"}
  PROVE  \A i \in DOMAIN Clusters[op] : Clusters[op][i] \subseteq Photo /\ i \in Nat \ {0}
<1>1. Clusters[op] \in Seq((SUBSET Photo) \ {{}}) BY ClustersAssumption
<1>. QED BY <1>1

\* What a page shows.
View == [live : SUBSET Stop, order : [Stop -> Nat], assigned : [Photo -> Stop \union {NoStop}]]

\* One case per statement of a handler.
LEMMA TypeStatement ==
  ASSUME Typed, NEW c \in Client, Statement(c)
  PROVE  Typed'
<1>0. CallType /\ TypeOK BY DEF Typed, TypeOK, CallType
<1>h. ASSUME NEW l \in Phase, At(c, l) PROVE call[c] \in Handler
  BY <1>0, <1>h, BusyIsHandler DEF At, Phase
<1>1. CASE ShiftStopOrders(c)
  <2>1. CallType' BY <1>0, <1>1, <1>h, GotoType DEF ShiftStopOrders, Phase, Sorting
  <2>2. order' \in [Stop -> Nat] BY <1>0, <1>1 DEF ShiftStopOrders, TypeOK
  <2>. QED BY <1>1, <2>1, <2>2 DEF ShiftStopOrders, Typed, TypeOK, CallType
<1>2. CASE MaxStopOrder(c)
  <2>1. call[c] \in Handler BY <1>2, <1>h DEF MaxStopOrder, Phase
  <2>2. Max({order[s] : s \in live} \union {-1}) + 1 \in Nat BY <1>0, <1>2, NextOrder DEF MaxStopOrder
  <2>3. PICK n \in Nat : n = Max({order[s] : s \in live} \union {-1}) + 1 BY <2>2
  <2>4. Become(c, [call[c] EXCEPT !.pc = "insert", !.order = n])
    BY <1>2, <2>3 DEF MaxStopOrder
  <2>5. CallType' BY <1>0, <2>1, <2>4 DEF Become, CallType, SortsOnly, Sorting, Handler, Phase
  <2>. QED BY <1>2, <2>5 DEF MaxStopOrder, Typed, TypeOK, CallType
<1>3. CASE UpdateStop(c)
  <2>1. call[c] \in Handler BY <1>3, <1>h DEF UpdateStop, Phase
  <2>2. CallType' BY <1>0, <1>3, <2>1, GotoType, ReturnType DEF UpdateStop, Phase, Sorting
  <2>3. order' \in [Stop -> Nat] BY <1>0, <1>3, <2>1 DEF UpdateStop, TypeOK, Handler
  <2>. QED BY <1>3, <2>2, <2>3 DEF UpdateStop, Typed, TypeOK, CallType
<1>4. CASE DeleteStop(c)
  <2>1. CallType' BY <1>0, <1>4, <1>h, GotoType DEF DeleteStop, Phase, Sorting
  <2>. QED BY <1>4, <2>1 DEF DeleteStop, Typed, TypeOK, CallType
<1>5. CASE CheckStop(c)
  <2>1. CallType' BY <1>0, <1>5, <1>h, GotoType, FailType DEF CheckStop, Phase, Sorting
  <2>. QED BY <1>5, <2>1 DEF CheckStop, Typed, TypeOK, CallType
<1>6. CASE AllAssigned(c)
  <2>1. CallType' BY <1>0, <1>6, <1>h, GotoType, ReturnType DEF AllAssigned, Phase, Sorting
  <2>. QED BY <1>6, <2>1 DEF AllAssigned, Typed, TypeOK, CallType
<1>7. ASSUME NEW p \in Photo, SetPhotoStopID(c, p) PROVE Typed'
  <2>1. call[c] \in Handler BY <1>7, <1>h DEF SetPhotoStopID, Phase
  <2>2. CallType'
    BY <1>0, <1>7, <2>1, FailType DEF SetPhotoStopID, Become, CallType, SortsOnly, Handler
  <2>3. assigned' \in [Photo -> Stop \union {NoStop}]
    BY <1>0, <1>7 DEF SetPhotoStopID, TypeOK
  <2>. QED BY <1>7, <2>2, <2>3 DEF SetPhotoStopID, Typed, TypeOK, CallType
<1>8. CASE ListPhotos(c)
  <2>1. CallType' BY <1>0, <1>8, <1>h, GotoType
    DEF ListPhotos, Phase, Sorting, At, CallType, SortsOnly
  <2>. QED BY <1>8, <2>1 DEF ListPhotos, Typed, TypeOK, CallType
<1>9. CASE DeleteStopsByTrip(c)
  <2>1. CallType' BY <1>0, <1>9, <1>h, GotoType
    DEF DeleteStopsByTrip, Phase, Sorting, At, CallType, SortsOnly
  <2>. QED BY <1>9, <2>1 DEF DeleteStopsByTrip, Typed, TypeOK, CallType, NoOrder, Unassigned
<1>10. CASE ClearPhotoStopIDs(c)
  <2>1. CallType' BY <1>0, <1>10, <1>h, GotoType
    DEF ClearPhotoStopIDs, Phase, Sorting, At, CallType, SortsOnly
  <2>. QED BY <1>10, <2>1 DEF ClearPhotoStopIDs, Typed, TypeOK, CallType, Unassigned
<1>11. CASE AllCreated(c)
  <2>1. call[c] \in Handler BY <1>11, <1>h DEF AllCreated, Phase
  <2>2. CallType' BY <1>0, <1>11, <2>1
    DEF AllCreated, Become, CallType, SortsOnly, Sorting, Handler, Phase
  <2>. QED BY <1>11, <2>2 DEF AllCreated, Typed, TypeOK, CallType
<1>12. ASSUME NEW s \in Stop, CreateStop(c, s) PROVE Typed'
  <2>1. call[c] \in Handler BY <1>12, <1>h DEF CreateStop, Phase
  <2>2. CallType' BY <1>0, <1>12, <2>1
    DEF CreateStop, Become, CallType, SortsOnly, Sorting, Handler, Phase
  <2>3. order' \in [Stop -> Nat] BY <1>0, <1>12, <2>1 DEF CreateStop, TypeOK, Handler
  <2>. QED BY <1>12, <2>2, <2>3 DEF CreateStop, Typed, TypeOK, CallType
<1>13. ASSUME NEW s \in Stop, CreateClusterStop(c, s) PROVE Typed'
  <2>1. call[c] \in Handler BY <1>13, <1>h DEF CreateClusterStop, Phase
  <2>. DEFINE n == call[c].next
              ps == Clusters[call[c].op][n]
  <2>2. n + 1 \in Nat /\ n - 1 \in Nat /\ ps \in SUBSET Photo
    <3>1. call[c].op \in {"auto", "resort"}
      BY <1>0, <1>13 DEF CreateClusterStop, At, CallType, SortsOnly, Sorting
    <3>2. n \in Nat \ {0} /\ ps \subseteq Photo
      BY <1>13, <3>1, ClusterType DEF CreateClusterStop
    <3>. QED BY <3>2
  <2>3. /\ Become(c, [call[c] EXCEPT !.pc = "assign", !.stop = s, !.next = n + 1, !.todo = ps])
        /\ order' = [order EXCEPT ![s] = n - 1]
    BY <1>13 DEF CreateClusterStop
  <2>. HIDE DEF n, ps
  <2>4. CallType' BY <1>0, <2>1, <2>2, <2>3 DEF Become, CallType, SortsOnly, Sorting, Handler, Phase
  <2>5. order' \in [Stop -> Nat] BY <1>0, <2>2, <2>3 DEF TypeOK
  <2>. QED BY <1>13, <2>4, <2>5 DEF CreateClusterStop, Typed, TypeOK, CallType
<1>14. CASE LoadStops(c)
  <2>1. CallType' BY <1>0, <1>14, <1>h, GotoType DEF LoadStops, Phase, Sorting
  <2>2. view'[c] = [view[c] EXCEPT !.live = live, !.order = order]
        /\ \A d \in Client \ {c} : view'[d] = view[d]
    BY <1>0, <1>14 DEF LoadStops, TypeOK
  <2>3. view' = [d \in Client |-> view'[d]] BY <1>0, <1>14 DEF LoadStops, TypeOK
  <2>4. \A d \in Client : view[d] \in View BY <1>0 DEF TypeOK, View
  <2>5. view'[c] \in View BY <1>0, <2>2, <2>4 DEF TypeOK, View
  <2>6. view' \in [Client -> View] BY <2>2, <2>3, <2>4, <2>5
  <2>. QED BY <1>0, <1>14, <2>1, <2>6 DEF LoadStops, Typed, TypeOK, CallType, View
<1>15. CASE LoadPhotos(c)
  <2>1. CallType' BY <1>0, <1>15, ReturnType DEF LoadPhotos
  <2>2. view'[c] = [view[c] EXCEPT !.assigned = assigned]
        /\ \A d \in Client \ {c} : view'[d] = view[d]
    BY <1>0, <1>15 DEF LoadPhotos, TypeOK
  <2>3. view' = [d \in Client |-> view'[d]] BY <1>0, <1>15 DEF LoadPhotos, TypeOK
  <2>4. \A d \in Client : view[d] \in View BY <1>0 DEF TypeOK, View
  <2>5. view'[c] \in View BY <1>0, <2>2, <2>4 DEF TypeOK, View
  <2>6. view' \in [Client -> View] BY <2>2, <2>3, <2>4, <2>5
  <2>. QED BY <1>0, <1>15, <2>1, <2>6 DEF LoadPhotos, Typed, TypeOK, CallType, View
<1>. QED
  BY <1>1, <1>2, <1>3, <1>4, <1>5, <1>6, <1>7, <1>8, <1>9, <1>10, <1>11, <1>12, <1>13,
     <1>14, <1>15 DEF Statement

\* A failing statement or a client that hangs up only moves the handler.
LEMMA TypeFault ==
  ASSUME Typed, NEW c \in Client, Hangup(c) \/ Busy(c)
  PROVE  Typed'
<1>0. CallType /\ TypeOK BY DEF Typed, TypeOK, CallType
<1>. SUFFICES CallType' /\ UNCHANGED <<live, order, assigned, view>>
  BY <1>0 DEF Typed, TypeOK, CallType
<1>1. CASE Hangup(c)
  <2>1. CASE call[c].pc \notin {"idle", "load", "load_photos"} /\ Fail(c)
    BY <1>0, <1>1, <2>1, BusyIsHandler, FailType DEF Hangup
  <2>2. CASE Become(c, Idle)
    BY <1>0, <1>1, <2>2, ReturnType DEF Hangup
  <2>. QED BY <1>1, <2>1, <2>2 DEF Hangup
<1>2. CASE Busy(c)
  <2>0. call[c] \in Handler /\ UNCHANGED <<live, order, assigned, view>>
    BY <1>0, <1>2, BusyIsHandler DEF Busy, At
  <2>1. ASSUME NEW l \in Phase, NEW k \in Phase, At(c, l), Goto(c, k),
               k \in Sorting => l \in Sorting
        PROVE  CallType'
    BY <1>0, <2>0, <2>1, GotoType DEF At, CallType, SortsOnly
  <2>2. CASE Fail(c) BY <1>0, <2>0, <2>2, FailType
  <2>3. CASE Become(c, [call[c] EXCEPT !.next = @ + 1])
    BY <1>0, <2>0, <2>3 DEF Become, CallType, SortsOnly, Handler
  <2>4. CASE \E p \in call[c].todo : Become(c, [call[c] EXCEPT !.todo = @ \ {p}])
    BY <1>0, <2>0, <2>4 DEF Become, CallType, SortsOnly, Handler
  <2>. QED
    <3>1. /\ "max" \in Phase /\ "insert" \in Phase /\ "shift" \in Phase /\ "list" \in Phase
          /\ "clear_stops" \in Phase /\ "clear_photos" \in Phase /\ "create" \in Phase
          /\ "insert" \notin Sorting
          /\ {"list", "create", "clear_stops", "clear_photos"} \subseteq Sorting
      BY DEF Phase, Sorting
    <3>. QED BY <1>2, <2>0, <2>1, <2>2, <2>3, <2>4, <3>1 DEF Busy
<1>. QED BY <1>1, <1>2

LEMMA TypeNext == Typed /\ [Next]_vars => Typed'
<1>1. ASSUME Typed, UNCHANGED vars PROVE Typed'
  BY <1>1 DEF Typed, TypeOK, SortsOnly, vars
<1>. QED BY <1>1, TypeRequest, TypeStatement, TypeFault DEF Next

LEMMA TypedAlways == Spec => []Typed
BY TypeInit, TypeNext, PTL DEF Spec

\* Every reachable state is well-typed, whatever the handlers and pages do.
THEOREM TypeCorrect == Spec => []TypeOK
<1>1. Typed => TypeOK BY DEF Typed
<1>. QED BY <1>1, TypedAlways, PTL

-----------------------------------------------------------------------------
(* A photo's stop exists *)

LEMMA ResolveNext ==
  ASSUME TypeOK, AssignmentsResolve, [Next]_vars
  PROVE  AssignmentsResolve'
<1>1. ASSUME NEW c \in Client, Request(c) \/ Hangup(c) \/ Busy(c)
      PROVE  UNCHANGED <<live, assigned>>
  BY <1>1 DEF Request, Hangup, Busy, AppendStop, SortIntoStops, Reload, EditStop, RemoveStop,
              InsertStop, SavePhoto, AssignPhoto, ReorderPhotos
<1>2. ASSUME NEW c \in Client, Statement(c) PROVE AssignmentsResolve'
  <2>1. CASE DeleteStop(c)
    BY <2>1 DEF DeleteStop, AssignmentsResolve
  <2>2. CASE DeleteStopsByTrip(c) \/ ClearPhotoStopIDs(c)
    BY <2>2 DEF DeleteStopsByTrip, ClearPhotoStopIDs, AssignmentsResolve, Unassigned
  <2>3. CASE \E p \in Photo : SetPhotoStopID(c, p)
    BY <2>3 DEF SetPhotoStopID, AssignmentsResolve, TypeOK
  <2>4. CASE \E s \in Stop : CreateStop(c, s) \/ CreateClusterStop(c, s)
    BY <2>4 DEF CreateStop, CreateClusterStop, AssignmentsResolve
  <2>5. CASE \/ ShiftStopOrders(c) \/ MaxStopOrder(c) \/ UpdateStop(c) \/ CheckStop(c)
             \/ AllAssigned(c) \/ ListPhotos(c) \/ AllCreated(c) \/ LoadStops(c) \/ LoadPhotos(c)
    BY <2>5 DEF ShiftStopOrders, MaxStopOrder, UpdateStop, CheckStop, AllAssigned, ListPhotos,
                AllCreated, LoadStops, LoadPhotos, AssignmentsResolve
  <2>. QED BY <1>2, <2>1, <2>2, <2>3, <2>4, <2>5 DEF Statement
<1>3. CASE UNCHANGED vars BY <1>3 DEF vars, AssignmentsResolve
<1>. QED BY <1>1, <1>2, <1>3 DEF Next, AssignmentsResolve

\* Whatever requests and failures come together, a photo is assigned to no stop
\* or to one that exists: the check before the UPDATE is not what ensures it, the
\* foreign key and ON DELETE SET NULL are.
THEOREM PhotosHaveTheirStop == Spec => []AssignmentsResolve
<1>1. Init => AssignmentsResolve
  BY DEF Init, AssignmentsResolve, Unassigned
<1>2. Typed => TypeOK BY DEF Typed
<1>. QED BY <1>1, <1>2, ResolveNext, TypedAlways, PTL DEF Spec

-----------------------------------------------------------------------------
(* The order of the stops there are *)

\* A request, a load or a fault leaves the orders as they are; a new stop is none
\* of those there were; a shift moves what lies behind as a whole.
LEMMA StepKeepsOrder ==
  ASSUME TypeOK, NEW c \in Client, Request(c) \/ Statement(c) \/ Hangup(c) \/ Busy(c),
         ~ UpdateStop(c)
  PROVE  KeepsOrder
<1>0. \A s \in live : s \in Stop /\ order[s] \in Nat BY DEF TypeOK
<1>1. CASE order' = order BY <1>1 DEF KeepsOrder
<1>2. CASE ShiftStopOrders(c)
  <2>1. \A s, t \in Nat : s < t => s + 1 < t + 1 /\ s < t + 1 OBVIOUS
  <2>2. \A s \in live : order'[s] = IF order[s] >= call[c].order THEN order[s] + 1 ELSE order[s]
    BY <1>0, <1>2 DEF ShiftStopOrders
  <2>3. call[c].order \in Nat
    BY <1>2, BusyIsHandler DEF ShiftStopOrders, At, Handler
  <2>. QED BY <1>0, <2>2, <2>3 DEF KeepsOrder
<1>3. CASE DeleteStop(c)
  <2>1. \A s \in live \intersect live' : order'[s] = order[s]
    BY <1>0, <1>3 DEF DeleteStop, TypeOK
  <2>. QED BY <2>1 DEF KeepsOrder
<1>4. CASE DeleteStopsByTrip(c) BY <1>4 DEF DeleteStopsByTrip, KeepsOrder
<1>5. ASSUME NEW s \in Stop, CreateStop(c, s) \/ CreateClusterStop(c, s)
      PROVE  KeepsOrder
  <2>1. s \notin live /\ \A t \in live : order'[t] = order[t]
    BY <1>0, <1>5 DEF CreateStop, CreateClusterStop, Fresh, TypeOK
  <2>. QED BY <2>1 DEF KeepsOrder
<1>6. CASE Request(c) \/ Hangup(c) \/ Busy(c)
  <2>1. order' = order
    BY <1>6 DEF Request, Hangup, Busy, AppendStop, SortIntoStops, Reload, EditStop, RemoveStop,
              InsertStop, SavePhoto, AssignPhoto, ReorderPhotos
  <2>. QED BY <1>1, <2>1
<1>7. CASE \/ MaxStopOrder(c) \/ CheckStop(c) \/ AllAssigned(c) \/ ListPhotos(c) \/ AllCreated(c)
           \/ LoadStops(c) \/ LoadPhotos(c) \/ ClearPhotoStopIDs(c)
           \/ \E p \in Photo : SetPhotoStopID(c, p)
  <2>1. order' = order
    BY <1>7 DEF MaxStopOrder, CheckStop, AllAssigned, ListPhotos, AllCreated, LoadStops,
                LoadPhotos, ClearPhotoStopIDs, SetPhotoStopID
  <2>. QED BY <1>1, <2>1
<1>. QED BY <1>2, <1>3, <1>4, <1>5, <1>6, <1>7 DEF Statement

\* An edit leaves its first phase.
LEMMA UpdateMoves ==
  ASSUME TypeOK, NEW c \in Client, UpdateStop(c)
  PROVE  At(c, "update") /\ call'[c] # call[c]
<1>1. At(c, "update") /\ (Goto(c, "load") \/ Become(c, Idle))
  BY DEF UpdateStop
<1>2. call[c] \in Handler BY <1>1, BusyIsHandler DEF At
<1>3. call'[c].pc # "update"
  BY <1>1, <1>2 DEF TypeOK, Goto, Become, Handler, Idle
<1>. QED BY <1>1, <1>3 DEF At

\* Creating, inserting and deleting stops, sorting photos into them, stale pages
\* and failing statements never swap two stops: only an edit can.
THEOREM OnlyEditsSwapStops == Spec => OnlyEditsReorder
<1>1. ASSUME TypeOK, [Next]_vars,
             \A c \in Client : At(c, "update") => call'[c] = call[c]
      PROVE  KeepsOrder
  <2>1. CASE UNCHANGED vars BY <2>1 DEF vars, KeepsOrder
  <2>2. ASSUME NEW c \in Client, Request(c) \/ Statement(c) \/ Hangup(c) \/ Busy(c)
        PROVE  KeepsOrder
    <3>1. ~ UpdateStop(c) BY <1>1, UpdateMoves
    <3>. QED BY <1>1, <2>2, <3>1, StepKeepsOrder
  <2>. QED BY <1>1, <2>1, <2>2 DEF Next
<1>2. Typed => TypeOK BY DEF Typed
<1>. QED BY <1>1, <1>2, TypedAlways, PTL DEF Spec, OnlyEditsReorder

-----------------------------------------------------------------------------
(* What a single page does, its client hanging up at any time: the order of the
   stops and what a sort leaves.  Two pages, or a statement that fails, break
   both: the findings of README.md say how. *)

OnePage  == \A c, d \in Client : c = d
Reliable == "busy" \notin Faults /\ "offline" \notin Faults

Found(h)   == Clusters[h.op]
AtStop(s)  == {p \in Photo : assigned[p] = s}
IsSort(h)  == h # Idle /\ h.op \in {"auto", "resort"}

\* The stops are the first clusters found, in order, but for the photos that the
\* request has yet to assign.
SortedSoFar(h) ==
  /\ h.next - 1 \in 0..Len(Found(h))
  /\ Cardinality(live) = h.next - 1
  /\ \A s \in live : order[s] < h.next - 1
  /\ \A i \in 1..(h.next - 1) : \E s \in live : order[s] = i - 1 /\ AtStop(s) = Found(h)[i] \ h.todo
  /\ \A p \in Photo : assigned[p] = NoStop \/ \E i \in 1..(h.next - 1) : p \in Found(h)[i]

\* What the request is about to assign: the photos of the last stop, or those of
\* no cluster.
AssignsRest(h) ==
  \/ /\ h.stop \in live /\ h.next > 1 /\ order[h.stop] = h.next - 2
     /\ h.todo \subseteq Found(h)[h.next - 1]
  \/ /\ h.stop = NoStop /\ h.next = Len(Found(h)) + 1
     /\ h.todo \intersect Clustered(h.op) = {}

SortInv(h) ==
  IsSort(h) =>
    /\ h.pc \in {"list", "clear_stops", "clear_photos"} => h.next = 1 /\ h.todo = {}
    /\ h.pc = "clear_photos" \/ (h.pc = "list" /\ h.op = "auto") => live = {}
    /\ h.pc \in {"create", "assign", "load"} => SortedSoFar(h)
    /\ h.pc \in {"create", "load"} => h.todo = {}
    /\ h.pc = "load" => h.next = Len(Found(h)) + 1
    /\ h.pc = "assign" => AssignsRest(h)

\* Which requests get where.
Steps(h) ==
  h # Idle =>
    /\ h.op = "failed" => h.pc \in {"load", "load_photos"}
    /\ h.pc = "update" => h.op = "update"
    /\ h.pc = "shift" => h.op = "insert"
    /\ h.op \in {"auto", "resort"} => h.pc \in Sorting \union {"assign", "load", "load_photos"}

\* An edit sends the order that is stored, a new stop goes to a place that is free.
SendsOrder(h) ==
  /\ h.pc = "update" /\ h.stop \in live => h.order = order[h.stop]
  /\ h.pc = "insert" => \A s \in live : order[s] # h.order

\* The orders a page shows are those stored, but between a shift and the next
\* load: a page that has shifted stops loads the trip even when it gives up.
Shifted(h) == h # Idle /\ h.op \in {"insert", "failed"} /\ h.pc \notin {"shift", "load_photos"}
SeesOrders(c, h) ==
  ~Shifted(h) => \A s \in live \intersect view[c].live : view[c].order[s] = order[s]

PageInv ==
  /\ IsFiniteSet(live)
  /\ OrdersDistinct
  /\ \A c \in Client :
       Steps(call[c]) /\ SendsOrder(call[c]) /\ SortInv(call[c]) /\ SeesOrders(c, call[c])

LEMMA PageInit == Init => PageInv
BY FS_EmptySet DEF Init, PageInv, OrdersDistinct, Steps, SendsOrder, SortInv, IsSort, SeesOrders,
                   Shifted, Idle

\* The clusters have no photo in common.
LEMMA FoundApart ==
  ASSUME NEW op \in {"auto", "resort"}
  PROVE  /\ Len(Clusters[op]) \in Nat /\ DOMAIN Clusters[op] = 1..Len(Clusters[op])
         /\ \A i \in 1..Len(Clusters[op]) : Clusters[op][i] \subseteq Photo
         /\ \A i, j \in 1..Len(Clusters[op]) :
              i # j => Clusters[op][i] \intersect Clusters[op][j] = {}
<1>1. Clusters[op] \in Seq((SUBSET Photo) \ {{}})
  BY ClustersAssumption
<1>2. Len(Clusters[op]) \in Nat /\ DOMAIN Clusters[op] = 1..Len(Clusters[op])
  BY <1>1
<1> QED BY <1>1, <1>2, ClustersAssumption

\* The handler of a page at a step of it, and the one it becomes.
LEMMA HandlerAt ==
  ASSUME Typed, NEW c \in Client, NEW l \in Phase, At(c, l)
  PROVE  call[c] \in Handler /\ call[c] # Idle /\ call[c].pc = l
BY BusyIsHandler DEF Typed, At, Phase, Idle

LEMMA BecomesIt ==
  ASSUME Typed, NEW c \in Client, NEW h, Become(c, h)
  PROVE  call'[c] = h
BY DEF Typed, TypeOK, Become

LEMMA PageStep ==
  ASSUME OnePage, NEW c \in Client, NEW k, call'[c] = k, IsFiniteSet(live'), OrdersDistinct',
         Steps(k), SendsOrder(k)', SortInv(k)', SeesOrders(c, k)'
  PROVE  PageInv'
<1>1. ASSUME NEW d \in Client PROVE d = c
  BY DEF OnePage
<1>2. call'[c] = k /\ Steps(call'[c]) /\ SendsOrder(call[c])' /\ SortInv(call[c])' /\ SeesOrders(c, call[c])'
  BY DEF SendsOrder, SortInv, SeesOrders, SortedSoFar, AssignsRest
<1> QED BY <1>1, <1>2 DEF PageInv, Steps

\* A step that leaves the tables and the page alone.
LEMMA QuietPage ==
  ASSUME OnePage, PageInv, NEW c \in Client, NEW k, call'[c] = k, UNCHANGED <<live, order, assigned, view>>,
         Steps(k), SendsOrder(k), SortInv(k), ~Shifted(k) => ~Shifted(call[c])
  PROVE  PageInv'
<1>1. SendsOrder(k)' /\ SortInv(k)' /\ SeesOrders(c, k)' /\ IsFiniteSet(live') /\ OrdersDistinct'
  BY DEF PageInv, SendsOrder, SortInv, SeesOrders, SortedSoFar, AssignsRest, AtStop, OrdersDistinct
<1> QED BY <1>1, PageStep

LEMMA PageRequest ==
  ASSUME OnePage, Typed, PageInv, NEW c \in Client, Request(c)
  PROVE  PageInv'
<1>0. /\ TypeOK /\ call[c] = Idle /\ UNCHANGED <<live, order, assigned, view>> /\ ~Shifted(Idle)
      /\ \A s \in live \intersect view[c].live : view[c].order[s] = order[s]
  <2>1. call[c] = Idle /\ UNCHANGED <<live, order, assigned, view>>
    BY DEF Request, Begin, AppendStop, SortIntoStops, Reload, EditStop, RemoveStop, InsertStop,
           SavePhoto, AssignPhoto, ReorderPhotos
  <2>2. ~Shifted(Idle) /\ SeesOrders(c, Idle)
    BY <2>1 DEF PageInv, Shifted
  <2> QED BY <2>1, <2>2 DEF Typed, SeesOrders
<1>1. ASSUME NEW l \in Phase, NEW o \in Op, NEW s, NEW n, NEW ps, Begin(c, l, o, s, n, ps),
             l # "insert", o # "failed", l = "shift" => o = "insert",
             l = "update" => o = "update" /\ (s \in live => n = order[s]),
             o \in {"auto", "resort"} => ps = {} /\ (l = "clear_stops" \/ (l = "list" /\ o = "resort"))
      PROVE  PageInv'
  <2>1. PICK k : k = [pc |-> l, op |-> o, stop |-> s, order |-> n, todo |-> ps, next |-> 1]
    OBVIOUS
  <2>2. call'[c] = k
    BY <1>1, <2>1, BecomesIt DEF Begin
  <2>3. Steps(k) /\ SendsOrder(k) /\ SortInv(k)
    BY <1>1, <2>1 DEF Steps, SendsOrder, SortInv, IsSort, Sorting
  <2> QED BY <1>0, <2>2, <2>3, QuietPage
<1>2. CASE AppendStop(c) \/ SortIntoStops(c) \/ Reload(c)
  BY <1>1, <1>2 DEF AppendStop, SortIntoStops, Reload, Phase, Op
<1>3. ASSUME NEW s \in Stop, EditStop(c, s) PROVE PageInv'
  BY <1>0, <1>1, <1>3 DEF EditStop, Phase, Op
<1>4. ASSUME NEW s \in Stop, RemoveStop(c, s) PROVE PageInv'
  BY <1>1, <1>4 DEF RemoveStop, Phase, Op
<1>5. ASSUME NEW s \in Stop, NEW moved \in SUBSET Photo, InsertStop(c, s, moved) PROVE PageInv'
  BY <1>1, <1>5 DEF InsertStop, Phase, Op
<1>6. ASSUME NEW p \in Photo, SavePhoto(c, p) PROVE PageInv'
  BY <1>1, <1>6 DEF SavePhoto, Phase, Op
<1>7. ASSUME NEW p \in Photo, NEW s \in Stop \union {NoStop}, AssignPhoto(c, p, s) \/ ReorderPhotos(c, p, s)
      PROVE  PageInv'
  BY <1>1, <1>7 DEF AssignPhoto, ReorderPhotos, Phase, Op
<1> QED BY <1>2, <1>3, <1>4, <1>5, <1>6, <1>7 DEF Request

\* The statements that read, and the requests that give up.
LEMMA PageGivesUp ==
  ASSUME OnePage, Typed, PageInv, NEW c \in Client, Fail(c), call[c] \in Handler,
         call[c].pc \notin {"load", "load_photos"}, UNCHANGED <<live, order, assigned, view>>
  PROVE  PageInv'
<1>1. PICK k : k = call'[c]
  OBVIOUS
<1>2. k = Idle \/ (k # Idle /\ k.pc = "load" /\ k.op = "failed")
  BY <1>1 DEF Fail, Become, Typed, TypeOK, Handler, Idle
<1>3. k = Idle => call[c].op \notin {"insert", "failed"}
  <2>1. call[c].op = "insert" => k # Idle
    BY <1>1 DEF Fail, Become, Typed, TypeOK, Handler, Idle
  <2>2. call[c] # Idle /\ Steps(call[c])
    BY DEF PageInv, Handler, Idle
  <2> QED BY <2>1, <2>2 DEF Steps
<1>4. k = Idle => ~Shifted(call[c])
  BY <1>3 DEF Shifted
<1>5. ~Shifted(k) => k = Idle
  BY <1>2 DEF Shifted
<1>6. Steps(k) /\ SendsOrder(k) /\ SortInv(k)
  BY <1>2 DEF Steps, SendsOrder, SortInv, IsSort, Idle
<1> QED BY <1>1, <1>4, <1>5, <1>6, QuietPage

LEMMA PageMaxOrder ==
  ASSUME OnePage, Typed, PageInv, NEW c \in Client, MaxStopOrder(c)
  PROVE  PageInv'
<1>1. call[c] \in Handler /\ call[c].pc = "max" /\ call[c] # Idle
  BY HandlerAt DEF MaxStopOrder, Phase
<1>2. PICK n : n = Max({order[s] : s \in live} \union {-1}) + 1
  OBVIOUS
<1>3. PICK k : k = [call[c] EXCEPT !.pc = "insert", !.order = n]
  OBVIOUS
<1>4. call'[c] = k /\ UNCHANGED <<live, order, assigned, view>>
  BY <1>2, <1>3, BecomesIt DEF MaxStopOrder
<1>5. k.pc = "insert" /\ k.order = n /\ k.op = call[c].op /\ k # Idle
  BY <1>1, <1>3 DEF Handler, Idle
<1>6. call[c].op \notin {"auto", "resort", "failed"}
  BY <1>1 DEF PageInv, Steps, Sorting
<1>7. Steps(k) /\ SortInv(k) /\ (~Shifted(k) => ~Shifted(call[c]))
  BY <1>1, <1>5, <1>6 DEF Steps, SortInv, IsSort, Shifted
<1>8. SendsOrder(k)
  BY <1>2, <1>5, NextOrder DEF SendsOrder, MaxStopOrder, Typed
<1> QED BY <1>4, <1>7, <1>8, QuietPage

LEMMA PageChecks ==
  ASSUME OnePage, Typed, PageInv, NEW c \in Client, CheckStop(c)
  PROVE  PageInv'
<1>1. /\ call[c] \in Handler /\ call[c].pc = "check" /\ call[c] # Idle
      /\ UNCHANGED <<live, order, assigned, view>>
  BY HandlerAt DEF CheckStop, Phase
<1>2. CASE Fail(c)
  BY <1>1, <1>2, PageGivesUp
<1>3. CASE Goto(c, "assign")
  <2>1. PICK k : k = [call[c] EXCEPT !.pc = "assign"]
    OBVIOUS
  <2>2. call'[c] = k
    BY <1>3, <2>1, BecomesIt DEF Goto
  <2>3. k.pc = "assign" /\ k.op = call[c].op /\ k # Idle
    BY <1>1, <2>1 DEF Handler, Idle
  <2>4. call[c].op \notin {"auto", "resort", "failed"}
    BY <1>1 DEF PageInv, Steps, Sorting
  <2>5. Steps(k) /\ SendsOrder(k) /\ SortInv(k) /\ (~Shifted(k) => ~Shifted(call[c]))
    BY <1>1, <2>3, <2>4 DEF Steps, SendsOrder, SortInv, IsSort, Shifted
  <2> QED BY <1>1, <2>2, <2>5, QuietPage
<1> QED BY <1>2, <1>3 DEF CheckStop

LEMMA PageAllAssigned ==
  ASSUME OnePage, Typed, PageInv, NEW c \in Client, AllAssigned(c)
  PROVE  PageInv'
<1>1. /\ call[c] \in Handler /\ call[c].pc = "assign" /\ call[c] # Idle /\ call[c].todo = {}
      /\ UNCHANGED <<live, order, assigned, view>>
      /\ Steps(call[c]) /\ SortInv(call[c])
  <2>1. At(c, "assign") /\ call[c].todo = {} /\ UNCHANGED <<live, order, assigned, view>>
    BY DEF AllAssigned
  <2>2. call[c] \in Handler /\ call[c].pc = "assign" /\ call[c] # Idle
    BY <2>1, HandlerAt DEF Phase
  <2> QED BY <2>1, <2>2 DEF PageInv
<1>2. call[c].op # "failed"
  BY <1>1 DEF Steps
<1>3. CASE call[c].op = "save" /\ Become(c, Idle)
  <2>1. call'[c] = Idle /\ ~Shifted(call[c])
    BY <1>3, BecomesIt DEF Shifted
  <2>2. Steps(Idle) /\ SendsOrder(Idle) /\ SortInv(Idle)
    BY DEF Steps, SendsOrder, SortInv, IsSort, Idle
  <2> QED BY <1>1, <2>1, <2>2, QuietPage
<1>4. CASE Goto(c, IF call[c].op \in {"auto", "resort"} /\ call[c].stop # NoStop THEN "create" ELSE "load")
  <2>1. PICK l : l = IF call[c].op \in {"auto", "resort"} /\ call[c].stop # NoStop THEN "create" ELSE "load"
    OBVIOUS
  <2>2. PICK k : k = [call[c] EXCEPT !.pc = l]
    OBVIOUS
  <2>3. call'[c] = k
    BY <1>4, <2>1, <2>2, BecomesIt DEF Goto
  <2>4. /\ k.pc = l /\ k.op = call[c].op /\ k # Idle /\ k.next = call[c].next /\ k.todo = call[c].todo
        /\ k.stop = call[c].stop /\ k.order = call[c].order
    BY <1>1, <2>2 DEF Handler, Idle
  <2>5. Steps(k) /\ SendsOrder(k) /\ (~Shifted(k) => ~Shifted(call[c]))
    BY <1>1, <1>2, <2>1, <2>4 DEF Steps, SendsOrder, Shifted, Sorting
  <2>6. ASSUME IsSort(k) PROVE SortedSoFar(k) /\ (k.pc = "load" => k.next = Len(Found(k)) + 1)
    <3>1. SortedSoFar(call[c]) /\ AssignsRest(call[c]) /\ Found(k) = Found(call[c])
      BY <1>1, <2>4, <2>6 DEF SortInv, IsSort, Found
    <3>2. k.pc = "load" => k.stop = NoStop
      BY <2>1, <2>4, <2>6 DEF IsSort
    <3>3. NoStop \notin live
      BY NoStopAssumption DEF Typed, TypeOK
    <3> QED BY <2>4, <3>1, <3>2, <3>3 DEF SortedSoFar, AssignsRest
  <2>7. SortInv(k)
    BY <1>1, <2>1, <2>4, <2>6 DEF SortInv
  <2> QED BY <1>1, <2>3, <2>5, <2>7, QuietPage
<1> QED BY <1>3, <1>4 DEF AllAssigned

LEMMA PageLists ==
  ASSUME OnePage, Typed, PageInv, AssignmentsResolve, NEW c \in Client, ListPhotos(c)
  PROVE  PageInv'
<1>1. /\ call[c] \in Handler /\ call[c].pc = "list" /\ call[c] # Idle
      /\ UNCHANGED <<live, order, assigned, view>>
      /\ Steps(call[c]) /\ SortInv(call[c]) /\ call[c].op \in {"auto", "resort"}
  BY HandlerAt DEF ListPhotos, Phase, PageInv, Typed, SortsOnly, Sorting
<1>2. PICK l : l = IF call[c].op = "auto" THEN "create" ELSE "clear_stops"
  OBVIOUS
<1>3. PICK k : k = [call[c] EXCEPT !.pc = l]
  OBVIOUS
<1>4. call'[c] = k
  BY <1>2, <1>3, BecomesIt DEF ListPhotos, Goto
<1>5. /\ k.pc = l /\ k.op = call[c].op /\ k # Idle /\ k.next = call[c].next /\ k.todo = call[c].todo
  BY <1>1, <1>3 DEF Handler, Idle
<1>6. Steps(k) /\ SendsOrder(k) /\ (~Shifted(k) => ~Shifted(call[c]))
  BY <1>1, <1>2, <1>5 DEF Steps, SendsOrder, Shifted, Sorting
<1>7. k.next = 1 /\ k.todo = {} /\ (call[c].op = "auto" => live = {})
  BY <1>1, <1>5 DEF SortInv, IsSort
<1>8. ASSUME live = {} PROVE SortedSoFar(k)
  <2>1. Len(Found(k)) \in Nat
    BY <1>1, <1>5, FoundApart DEF Found
  <2>2. Cardinality({}) = 0
    BY FS_EmptySet
  <2> QED BY <1>7, <1>8, <2>1, <2>2 DEF SortedSoFar, AssignmentsResolve
<1>9. SortInv(k)
  BY <1>1, <1>2, <1>5, <1>7, <1>8 DEF SortInv
<1> QED BY <1>1, <1>4, <1>6, <1>9, QuietPage

LEMMA PageAllCreated ==
  ASSUME OnePage, Typed, PageInv, NEW c \in Client, AllCreated(c)
  PROVE  PageInv'
<1>1. /\ call[c] \in Handler /\ call[c].pc = "create" /\ call[c] # Idle
      /\ UNCHANGED <<live, order, assigned, view>>
      /\ Steps(call[c]) /\ SortInv(call[c]) /\ call[c].op \in {"auto", "resort"}
  <2>1. At(c, "create") /\ UNCHANGED <<live, order, assigned, view>>
    BY DEF AllCreated
  <2>2. call[c] \in Handler /\ call[c].pc = "create" /\ call[c] # Idle
    BY <2>1, HandlerAt DEF Phase
  <2> QED BY <2>1, <2>2 DEF PageInv, Typed, SortsOnly, Sorting
<1>2. PICK k : k = IF call[c].op = "auto" THEN [call[c] EXCEPT !.pc = "load"]
                   ELSE [call[c] EXCEPT !.pc = "assign", !.stop = NoStop, !.todo = Photo \ Clustered("resort")]
  OBVIOUS
<1>3. call'[c] = k
  BY <1>2, BecomesIt DEF AllCreated
<1>4. /\ k.op = call[c].op /\ k # Idle /\ k.next = call[c].next
      /\ \/ k.op = "auto" /\ k.pc = "load" /\ k.todo = call[c].todo
         \/ k.op = "resort" /\ k.pc = "assign" /\ k.stop = NoStop /\ k.todo = Photo \ Clustered("resort")
  BY <1>1, <1>2 DEF Handler, Idle
<1>5. Steps(k) /\ SendsOrder(k) /\ (~Shifted(k) => ~Shifted(call[c]))
  BY <1>1, <1>4 DEF Steps, SendsOrder, Shifted, Sorting
<1>6. SortedSoFar(call[c]) /\ call[c].todo = {} /\ call[c].next \notin DOMAIN Found(call[c])
  BY <1>1 DEF SortInv, IsSort, AllCreated, Found
<1>7. /\ Len(Found(k)) \in Nat /\ DOMAIN Found(k) = 1..Len(Found(k)) /\ Found(k) = Found(call[c])
      /\ \A i \in 1..Len(Found(k)) : Found(k)[i] \subseteq Clustered(k.op)
  BY <1>1, <1>4, FoundApart DEF Found, Clustered
<1>8. k.next = Len(Found(k)) + 1
  <2>1. k.next \in Nat
    BY <1>1, <1>4 DEF Handler
  <2>2. k.next - 1 \in 0..Len(Found(k)) /\ k.next \notin 1..Len(Found(k))
    BY <1>4, <1>6, <1>7 DEF SortedSoFar
  <2> QED BY <1>7, <2>1, <2>2
<1>9. \A i \in 1..(k.next - 1) : Found(k)[i] \ k.todo = Found(k)[i] \ call[c].todo
  <2>1. k.next - 1 = Len(Found(k))
    BY <1>7, <1>8
  <2>2. \A i \in 1..Len(Found(k)) : Found(k)[i] \ k.todo = Found(k)[i]
    BY <1>4, <1>6, <1>7
  <2> QED BY <1>6, <2>1, <2>2
<1>10. SortedSoFar(k)
  BY <1>4, <1>6, <1>7, <1>9, SMTT(20) DEF SortedSoFar
<1>11. k.pc = "assign" => AssignsRest(k)
  BY <1>4, <1>8 DEF AssignsRest
<1>12. SortInv(k)
  BY <1>4, <1>6, <1>8, <1>10, <1>11 DEF SortInv
<1> QED BY <1>1, <1>3, <1>5, <1>12, QuietPage

LEMMA PageLoads ==
  ASSUME OnePage, Typed, PageInv, NEW c \in Client, LoadStops(c) \/ LoadPhotos(c)
  PROVE  PageInv'
<1>1. UNCHANGED <<live, order, assigned>> /\ IsFiniteSet(live') /\ OrdersDistinct'
  BY DEF LoadStops, LoadPhotos, PageInv, OrdersDistinct
<1>2. CASE LoadStops(c)
  <2>1. At(c, "load") /\ Goto(c, "load_photos")
        /\ view' = [view EXCEPT ![c] = [view[c] EXCEPT !.live = live, !.order = order]]
    BY <1>2 DEF LoadStops
  <2>2. call[c] \in Handler /\ call[c] # Idle /\ call[c].pc = "load"
    BY <2>1, HandlerAt DEF Phase
  <2>3. PICK k : k = [call[c] EXCEPT !.pc = "load_photos"]
    OBVIOUS
  <2>4. call'[c] = k
    BY <2>1, <2>3, BecomesIt DEF Goto
  <2>5. k.pc = "load_photos" /\ k.op = call[c].op
    BY <2>2, <2>3 DEF Handler
  <2>6. view'[c].order = order
    BY <2>1 DEF Typed, TypeOK
  <2>7. Steps(k) /\ SendsOrder(k)' /\ SortInv(k)' /\ SeesOrders(c, k)'
    BY <1>1, <2>5, <2>6 DEF Steps, SendsOrder, SortInv, SeesOrders
  <2> QED BY <1>1, <2>4, <2>7, PageStep
<1>3. CASE LoadPhotos(c)
  <2>1. At(c, "load_photos") /\ Become(c, Idle) /\ view' = [view EXCEPT ![c].assigned = assigned]
    BY <1>3 DEF LoadPhotos
  <2>2. call[c].pc = "load_photos" /\ SeesOrders(c, call[c]) /\ call'[c] = Idle
    BY <2>1, BecomesIt DEF At, PageInv
  <2>3. view'[c].order = view[c].order /\ view'[c].live = view[c].live
    BY <2>1 DEF Typed, TypeOK
  <2>4. \A s \in live \intersect view[c].live : view[c].order[s] = order[s]
    BY <2>2 DEF SeesOrders, Shifted
  <2>5. Steps(Idle) /\ SendsOrder(Idle)' /\ SortInv(Idle)' /\ SeesOrders(c, Idle)'
    BY <1>1, <2>3, <2>4 DEF Steps, SendsOrder, SortInv, IsSort, SeesOrders, Idle
  <2> QED BY <1>1, <2>2, <2>5, PageStep
<1> QED BY <1>2, <1>3

LEMMA PageHangsUp ==
  ASSUME OnePage, Reliable, Typed, PageInv, NEW c \in Client, Hangup(c) \/ Busy(c)
  PROVE  PageInv'
<1>1. /\ call[c].pc \notin {"idle", "load", "load_photos"} /\ Fail(c)
      /\ UNCHANGED <<live, order, assigned, view>>
  BY DEF Reliable, Hangup, Busy
<1>2. call[c] \in Handler
  BY <1>1, BusyIsHandler DEF Typed
<1> QED BY <1>1, <1>2, PageGivesUp

-----------------------------------------------------------------------------
(* The statements that write. *)

LEMMA PageShifts ==
  ASSUME OnePage, Typed, PageInv, NEW c \in Client, ShiftStopOrders(c)
  PROVE  PageInv'
<1>1. At(c, "shift") /\ Goto(c, "insert") /\ live' = live
  BY DEF ShiftStopOrders
<1>2. call[c] \in Handler /\ call[c].pc = "shift" /\ call[c].op = "insert" /\ call[c].order \in Nat
  <2>1. call[c] \in Handler /\ call[c].pc = "shift" /\ call[c] # Idle
    BY <1>1, HandlerAt DEF Phase
  <2> QED BY <2>1 DEF PageInv, Steps, Handler
<1>3. PICK k : k = [call[c] EXCEPT !.pc = "insert"]
  OBVIOUS
<1>4. call'[c] = k
  BY <1>1, <1>3, BecomesIt DEF Goto
<1>5. k.pc = "insert" /\ k.op = "insert" /\ k.order = call[c].order /\ k # Idle
  BY <1>2, <1>3 DEF Handler, Idle
<1>6. \A s \in live : /\ order[s] \in Nat
                      /\ order'[s] = IF order[s] >= k.order THEN order[s] + 1 ELSE order[s]
  BY <1>5 DEF ShiftStopOrders, Typed, TypeOK
<1>7. OrdersDistinct'
  <2>1. ASSUME NEW s \in live, NEW t \in live, order'[s] = order'[t] PROVE order[s] = order[t]
    BY <1>2, <1>5, <1>6, <2>1
  <2> QED BY <1>1, <2>1 DEF OrdersDistinct, PageInv
<1>8. SendsOrder(k)'
  <2>1. \A s \in live : order'[s] # k.order
    BY <1>2, <1>5, <1>6
  <2> QED BY <1>1, <1>5, <2>1 DEF SendsOrder
<1>9. Steps(k) /\ SortInv(k)' /\ SeesOrders(c, k)' /\ IsFiniteSet(live')
  BY <1>1, <1>5 DEF Steps, SortInv, IsSort, SeesOrders, Shifted, PageInv
<1> QED BY <1>4, <1>7, <1>8, <1>9, PageStep

LEMMA PageCreates ==
  ASSUME OnePage, Typed, PageInv, NEW c \in Client, NEW s \in Stop, CreateStop(c, s)
  PROVE  PageInv'
<1>1. /\ At(c, "insert") /\ Fresh(s) /\ live' = live \union {s} /\ order' = [order EXCEPT ![s] = call[c].order]
      /\ Become(c, [call[c] EXCEPT !.pc = "assign", !.stop = s]) /\ view' = view
  BY DEF CreateStop
<1>2. call[c] \in Handler /\ call[c].pc = "insert" /\ call[c] # Idle
  BY <1>1, HandlerAt DEF Phase
<1>3. call[c].op \notin {"auto", "resort", "failed"} /\ \A t \in live : order[t] # call[c].order
  BY <1>2 DEF PageInv, Steps, SendsOrder, Sorting
<1>4. PICK k : k = [call[c] EXCEPT !.pc = "assign", !.stop = s]
  OBVIOUS
<1>5. call'[c] = k
  BY <1>1, <1>4, BecomesIt
<1>6. k.pc = "assign" /\ k.op = call[c].op /\ k # Idle
  BY <1>2, <1>4 DEF Handler, Idle
<1>7. order'[s] = call[c].order /\ \A t \in live : t # s /\ order'[t] = order[t]
  BY <1>1 DEF Fresh, Typed, TypeOK
<1>8. OrdersDistinct'
  BY <1>1, <1>3, <1>7 DEF OrdersDistinct, PageInv
<1>9. IsFiniteSet(live')
  BY <1>1, FS_AddElement DEF PageInv
<1>10. SeesOrders(c, k)'
  <2>1. s \notin view[c].live
    BY <1>1 DEF Fresh
  <2>2. ~Shifted(k) => SeesOrders(c, call[c]) /\ ~Shifted(call[c])
    BY <1>2, <1>6 DEF Shifted, PageInv
  <2> QED BY <1>1, <1>7, <2>1, <2>2 DEF SeesOrders
<1>11. Steps(k) /\ SendsOrder(k)' /\ SortInv(k)'
  BY <1>3, <1>6 DEF Steps, SendsOrder, SortInv, IsSort
<1> QED BY <1>5, <1>8, <1>9, <1>10, <1>11, PageStep

\* An edit writes the order the stop has.
LEMMA UpdateIsNoMove ==
  ASSUME Typed, PageInv, NEW c \in Client, UpdateStop(c)
  PROVE  live' = live /\ order' = order
<1>1. At(c, "update") /\ live' = live
      /\ order' = IF call[c].stop \in live THEN [order EXCEPT ![call[c].stop] = call[c].order] ELSE order
  BY DEF UpdateStop
<1>2. call[c].stop \in live => call[c].order = order[call[c].stop]
  BY <1>1 DEF PageInv, SendsOrder, At
<1> QED BY <1>1, <1>2 DEF Typed, TypeOK

LEMMA PageEdits ==
  ASSUME OnePage, Typed, PageInv, NEW c \in Client, UpdateStop(c)
  PROVE  PageInv'
<1>1. /\ At(c, "update") /\ (Goto(c, "load") \/ Become(c, Idle)) /\ UNCHANGED <<live, order, assigned, view>>
  BY UpdateIsNoMove DEF UpdateStop
<1>2. call[c] \in Handler /\ call[c].pc = "update" /\ call[c].op = "update" /\ call[c] # Idle
  <2>1. call[c] \in Handler /\ call[c].pc = "update" /\ call[c] # Idle
    BY <1>1, HandlerAt DEF Phase
  <2> QED BY <2>1 DEF PageInv, Steps
<1>3. ~Shifted(call[c])
  BY <1>2 DEF Shifted
<1>4. CASE Become(c, Idle)
  <2>1. Steps(Idle) /\ SendsOrder(Idle) /\ SortInv(Idle)
    BY DEF Steps, SendsOrder, SortInv, IsSort, Idle
  <2> QED BY <1>1, <1>3, <1>4, <2>1, BecomesIt, QuietPage
<1>5. CASE Goto(c, "load")
  <2>1. PICK k : k = [call[c] EXCEPT !.pc = "load"]
    OBVIOUS
  <2>2. k.pc = "load" /\ k.op = "update"
    BY <1>2, <2>1 DEF Handler
  <2>3. Steps(k) /\ SendsOrder(k) /\ SortInv(k)
    BY <2>2 DEF Steps, SendsOrder, SortInv, IsSort
  <2>4. call'[c] = k
    BY <1>5, <2>1, BecomesIt DEF Goto
  <2> QED BY <1>1, <1>3, <2>3, <2>4, QuietPage
<1> QED BY <1>1, <1>4, <1>5

LEMMA PageDeletes ==
  ASSUME OnePage, Typed, PageInv, NEW c \in Client, DeleteStop(c)
  PROVE  PageInv'
<1>1. /\ At(c, "delete") /\ Goto(c, "load") /\ view' = view /\ live' = live \ {call[c].stop}
      /\ order' = [order EXCEPT ![call[c].stop] = 0]
  BY DEF DeleteStop
<1>2. call[c] \in Handler /\ call[c].pc = "delete" /\ call[c] # Idle
  BY <1>1, HandlerAt DEF Phase
<1>3. Steps(call[c])
  BY DEF PageInv
<1>4. PICK k : k = [call[c] EXCEPT !.pc = "load"]
  OBVIOUS
<1>5. call'[c] = k
  BY <1>1, <1>4, BecomesIt DEF Goto
<1>6. k.pc = "load" /\ k.op = call[c].op /\ k # Idle
  BY <1>2, <1>4 DEF Handler, Idle
<1>7. call[c].op \notin {"auto", "resort", "failed"}
  BY <1>2, <1>3 DEF Steps, Sorting
<1>8. \A t \in live' : t \in live /\ order'[t] = order[t]
  BY <1>1 DEF Typed, TypeOK
<1>9. OrdersDistinct'
  BY <1>8 DEF OrdersDistinct, PageInv
<1>10. IsFiniteSet(live')
  BY <1>1, FS_RemoveElement DEF PageInv
<1>11. SeesOrders(c, k)'
  <2>1. ~Shifted(k) => SeesOrders(c, call[c]) /\ ~Shifted(call[c])
    BY <1>2, <1>6 DEF Shifted, PageInv
  <2> QED BY <1>1, <1>8, <2>1 DEF SeesOrders
<1>12. Steps(k) /\ SendsOrder(k)' /\ SortInv(k)'
  BY <1>6, <1>7 DEF Steps, SendsOrder, SortInv, IsSort
<1> QED BY <1>5, <1>9, <1>10, <1>11, <1>12, PageStep

\* The two statements that empty the tables.
LEMMA PageClears ==
  ASSUME OnePage, Typed, PageInv, AssignmentsResolve, NEW c \in Client,
         DeleteStopsByTrip(c) \/ ClearPhotoStopIDs(c)
  PROVE  PageInv'
<1>1. /\ call[c] \in Handler /\ call[c].pc \in {"clear_stops", "clear_photos"} /\ call[c] # Idle
      /\ Steps(call[c]) /\ SortInv(call[c]) /\ call[c].op \in {"auto", "resort"}
  <2>1. At(c, "clear_stops") \/ At(c, "clear_photos")
    BY DEF DeleteStopsByTrip, ClearPhotoStopIDs
  <2>2. call[c] \in Handler /\ call[c].pc \in {"clear_stops", "clear_photos"} /\ call[c] # Idle
    BY <2>1, HandlerAt DEF Phase
  <2> QED BY <2>2 DEF PageInv, Typed, SortsOnly, Sorting
<1>2. call[c].next = 1 /\ call[c].todo = {} /\ live' = {} /\ view' = view /\ assigned' = Unassigned
  BY <1>1 DEF SortInv, IsSort, DeleteStopsByTrip, ClearPhotoStopIDs, At
<1>3. PICK l : /\ l = IF At(c, "clear_stops") THEN "clear_photos"
                       ELSE IF call[c].op = "auto" THEN "list" ELSE "create"
  OBVIOUS
<1>4. PICK k : k = [call[c] EXCEPT !.pc = l]
  OBVIOUS
<1>5. call'[c] = k
  BY <1>3, <1>4, BecomesIt DEF DeleteStopsByTrip, ClearPhotoStopIDs, Goto, At
<1>6. k.pc = l /\ k.op = call[c].op /\ k # Idle /\ k.next = 1 /\ k.todo = {}
  BY <1>1, <1>2, <1>4 DEF Handler, Idle
<1>7. IsFiniteSet(live') /\ OrdersDistinct' /\ SeesOrders(c, k)'
  BY <1>2, FS_EmptySet DEF OrdersDistinct, SeesOrders
<1>8. Steps(k) /\ SendsOrder(k)'
  BY <1>1, <1>3, <1>6 DEF Steps, SendsOrder, Sorting
<1>9. SortedSoFar(k)'
  <2>1. Len(Found(k)) \in Nat
    BY <1>1, <1>6, FoundApart DEF Found
  <2>2. Cardinality({}) = 0
    BY FS_EmptySet
  <2> QED BY <1>2, <1>6, <2>1, <2>2 DEF SortedSoFar, Unassigned, Found
<1>10. l \in {"clear_photos", "list", "create"}
  BY <1>3
<1>11. SortInv(k)'
  BY <1>2, <1>3, <1>6, <1>9, <1>10 DEF SortInv
<1> QED BY <1>5, <1>7, <1>8, <1>11, PageStep

\* The next cluster's stop, whose photos are still to be assigned.
LEMMA PageCreatesCluster ==
  ASSUME OnePage, Typed, PageInv, AssignmentsResolve, NEW c \in Client, NEW s \in Stop,
         CreateClusterStop(c, s)
  PROVE  PageInv'
<1>1. /\ call[c] \in Handler /\ call[c].pc = "create" /\ call[c] # Idle
      /\ Steps(call[c]) /\ SortInv(call[c]) /\ call[c].op \in {"auto", "resort"}
  <2>1. At(c, "create")
    BY DEF CreateClusterStop
  <2>2. call[c] \in Handler /\ call[c].pc = "create" /\ call[c] # Idle
    BY <2>1, HandlerAt DEF Phase
  <2> QED BY <2>2 DEF PageInv, Typed, SortsOnly, Sorting
<1>2. PICK n \in Nat : n = call[c].next
  BY <1>1 DEF Handler
<1>3. PICK found : found = Found(call[c])
  OBVIOUS
<1>4. /\ Len(found) \in Nat /\ DOMAIN found = 1..Len(found)
      /\ \A i, j \in 1..Len(found) : i # j => found[i] \intersect found[j] = {}
  BY <1>1, <1>3, FoundApart DEF Found
<1>5. /\ n \in 1..Len(found) /\ Fresh(s) /\ live' = live \union {s} /\ view' = view /\ assigned' = assigned
      /\ order' = [order EXCEPT ![s] = n - 1]
      /\ Become(c, [call[c] EXCEPT !.pc = "assign", !.stop = s, !.next = n + 1, !.todo = found[n]])
  BY <1>2, <1>3, <1>4 DEF CreateClusterStop, Found
<1>6. PICK k : k = [call[c] EXCEPT !.pc = "assign", !.stop = s, !.next = n + 1, !.todo = found[n]]
  OBVIOUS
<1>7. call'[c] = k
  BY <1>5, <1>6, BecomesIt
<1>8. k.pc = "assign" /\ k.op = call[c].op /\ k.stop = s /\ k.next = n + 1 /\ k.todo = found[n] /\ k # Idle
  BY <1>1, <1>6 DEF Handler, Idle
<1>9. Found(k) = found /\ n + 1 - 1 = n /\ n + 1 - 2 = n - 1
  BY <1>2, <1>3, <1>8 DEF Found
<1>10. SortedSoFar(call[c]) /\ call[c].todo = {}
  BY <1>1 DEF SortInv, IsSort
<1>11. /\ Cardinality(live) = n - 1
       /\ \A t \in live : order[t] < n - 1
       /\ \A i \in 1..(n - 1) : \E t \in live : order[t] = i - 1 /\ AtStop(t) = found[i]
       /\ \A p \in Photo : assigned[p] = NoStop \/ \E i \in 1..(n - 1) : p \in found[i]
  BY <1>2, <1>3, <1>10 DEF SortedSoFar
<1>12. order'[s] = n - 1 /\ s \notin live /\ \A t \in live : t # s /\ order'[t] = order[t] /\ order[t] \in Nat
  BY <1>5 DEF Fresh, Typed, TypeOK
<1>13. OrdersDistinct'
  <2>1. \A t \in live : order'[t] # order'[s]
    BY <1>11, <1>12
  <2> QED BY <1>5, <1>12, <2>1 DEF OrdersDistinct, PageInv
<1>14. IsFiniteSet(live') /\ Cardinality(live') = n
  <2>1. IsFiniteSet(live \union {s}) /\ Cardinality(live \union {s}) = Cardinality(live) + 1
    BY <1>12, FS_AddElement DEF PageInv
  <2>2. n - 1 + 1 = n
    BY <1>2
  <2> QED BY <1>5, <1>11, <2>1, <2>2
<1>15. SeesOrders(c, k)'
  <2>1. s \notin view[c].live
    BY <1>5 DEF Fresh
  <2>2. SeesOrders(c, call[c]) /\ ~Shifted(call[c])
    BY <1>1 DEF Shifted, PageInv
  <2> QED BY <1>5, <1>12, <2>1, <2>2 DEF SeesOrders
<1>16. SortedSoFar(k)'
  <2>1. \A t \in live' : order'[t] < n
    BY <1>2, <1>5, <1>11, <1>12
  <2>2. ASSUME NEW i \in 1..n PROVE \E t \in live' : order'[t] = i - 1 /\ AtStop(t)' = found[i] \ found[n]
    <3>1. CASE i = n
      <4>1. AtStop(s)' = {}
        BY <1>5, <1>12, NoStopAssumption DEF AtStop, AssignmentsResolve
      <4> QED BY <1>5, <1>12, <3>1, <4>1
    <3>2. CASE i # n
      <4>1. i \in 1..(n - 1) /\ i \in 1..Len(found)
        BY <1>2, <1>4, <1>5, <3>2
      <4>2. PICK t \in live : order[t] = i - 1 /\ AtStop(t) = found[i]
        BY <1>11, <4>1
      <4>3. found[i] \ found[n] = found[i]
        BY <1>4, <1>5, <3>2, <4>1
      <4>4. AtStop(t)' = AtStop(t)
        BY <1>5 DEF AtStop
      <4> QED BY <1>5, <1>12, <4>2, <4>3, <4>4
    <3> QED BY <3>1, <3>2
  <2>3. \A p \in Photo : assigned'[p] = NoStop \/ \E i \in 1..n : p \in found[i]
    <3>1. 1..(n - 1) \subseteq 1..n
      BY <1>2
    <3> QED BY <1>5, <1>11, <3>1
  <2>4. n \in 0..Len(found)
    BY <1>4, <1>5
  <2>5. k.next - 1 = n /\ k.todo = found[n]
    BY <1>2, <1>8
  <2>6. SortedSoFar(k)' <=>
          /\ n \in 0..Len(found) /\ Cardinality(live') = n /\ \A t \in live' : order'[t] < n
          /\ \A i \in 1..n : \E t \in live' : order'[t] = i - 1 /\ AtStop(t)' = found[i] \ found[n]
          /\ \A p \in Photo : assigned'[p] = NoStop \/ \E i \in 1..n : p \in found[i]
    BY <1>9, <2>5, Zenon DEF SortedSoFar, Found
  <2> QED BY <1>14, <2>1, <2>2, <2>3, <2>4, <2>6
<1>17. AssignsRest(k)'
  <2>1. k.next > 1 /\ order'[k.stop] = k.next - 2 /\ k.stop \in live' /\ k.todo \subseteq Found(k)[k.next - 1]
    BY <1>2, <1>5, <1>8, <1>9, <1>12
  <2> QED BY <2>1 DEF AssignsRest, Found
<1>18. Steps(k) /\ SendsOrder(k)'
  BY <1>1, <1>8 DEF Steps, SendsOrder
<1>19. SortInv(k)'
  BY <1>8, <1>16, <1>17 DEF SortInv
<1> QED BY <1>7, <1>13, <1>14, <1>15, <1>18, <1>19, PageStep

\* One photo to the stop of its cluster: it was at no stop, so that no other
\* cluster loses it.
LEMMA SortAssigns ==
  ASSUME Typed, OrdersDistinct, NEW h, NEW k, NEW p \in Photo,
         h \in Handler, h.op \in {"auto", "resort"}, SortedSoFar(h), AssignsRest(h), p \in h.todo,
         k = [h EXCEPT !.todo = h.todo \ {p}],
         UNCHANGED <<live, order>>, assigned' = [assigned EXCEPT ![p] = h.stop]
  PROVE  SortedSoFar(k)' /\ AssignsRest(k)'
<1>1. PICK n \in Int : n = h.next - 1
  BY DEF Handler
<1>2. PICK found : found = Found(h)
  OBVIOUS
<1>3. /\ k.op = h.op /\ k.next = h.next /\ k.stop = h.stop /\ k.todo = h.todo \ {p} /\ Found(k) = found
  BY <1>2 DEF Handler, Found
<1>4. /\ Len(found) \in Nat
      /\ \A i \in 1..Len(found) : found[i] \subseteq Clustered(h.op)
      /\ \A i, j \in 1..Len(found) : i # j => found[i] \intersect found[j] = {}
  BY <1>2, FoundApart DEF Found, Clustered
<1>5. /\ n \in 0..Len(found) /\ Cardinality(live) = n /\ \A s \in live : order[s] < n
      /\ \A i \in 1..n : \E s \in live : order[s] = i - 1 /\ AtStop(s) = found[i] \ h.todo
      /\ \A q \in Photo : assigned[q] = NoStop \/ \E i \in 1..n : q \in found[i]
  BY <1>1, <1>2, Zenon DEF SortedSoFar
<1>6. /\ \A s \in live : s \in Stop /\ s # NoStop
      /\ \A q \in Photo : assigned'[q] = IF q = p THEN h.stop ELSE assigned[q]
  BY NoStopAssumption DEF Typed, TypeOK
<1>7. \/ h.stop \in live /\ n >= 1 /\ order[h.stop] = n - 1 /\ h.todo \subseteq found[n]
      \/ h.stop = NoStop /\ n = Len(found) /\ h.todo \intersect Clustered(h.op) = {}
  <2>1. h.next \in Nat /\ h.next - 2 = n - 1 /\ (h.next > 1 => n >= 1) /\ (h.next = Len(found) + 1 => n = Len(found))
    BY <1>1, <1>4 DEF Handler
  <2> QED BY <1>1, <1>2, <2>1 DEF AssignsRest
<1>8. ASSUME NEW i \in 1..n PROVE \E s \in live : order[s] = i - 1 /\ AtStop(s)' = found[i] \ k.todo
  <2>1. PICK s \in live : order[s] = i - 1 /\ AtStop(s) = found[i] \ h.todo
    BY <1>5
  <2>2. i \in 1..Len(found)
    BY <1>4, <1>5
  <2>3. CASE h.stop = NoStop /\ h.todo \intersect Clustered(h.op) = {}
    <3>1. p \notin found[i]
      BY <1>4, <2>2, <2>3
    <3>2. AtStop(s)' = AtStop(s)
      BY <1>6, <2>1, <2>3, <3>1 DEF AtStop
    <3> QED BY <1>3, <2>1, <3>1, <3>2
  <2>4. CASE h.stop \in live /\ order[h.stop] = n - 1 /\ h.todo \subseteq found[n] /\ i = n
    <3>1. s = h.stop
      BY <2>1, <2>4 DEF OrdersDistinct
    <3>2. AtStop(s)' = AtStop(s) \union {p}
      BY <1>6, <3>1 DEF AtStop
    <3> QED BY <1>3, <2>1, <2>4, <3>2
  <2>5. CASE h.stop \in live /\ n >= 1 /\ order[h.stop] = n - 1 /\ h.todo \subseteq found[n] /\ i # n
    <3>1. s # h.stop
      <4>1. i - 1 # n - 1
        BY <2>5
      <4> QED BY <2>1, <2>5, <4>1
    <3>2. n \in 1..Len(found)
      BY <1>4, <1>5, <2>5
    <3>3. p \notin found[i]
      BY <1>4, <2>2, <2>5, <3>2
    <3>4. AtStop(s)' = AtStop(s)
      BY <1>6, <2>1, <3>1, <3>3 DEF AtStop
    <3> QED BY <1>3, <2>1, <3>3, <3>4
  <2> QED BY <1>7, <2>3, <2>4, <2>5
<1>9. ASSUME NEW q \in Photo PROVE assigned'[q] = NoStop \/ \E i \in 1..n : q \in found[i]
  <2>1. CASE h.stop \in live /\ n >= 1 /\ h.todo \subseteq found[n] /\ q = p
    <3>1. n \in 1..n
      BY <1>1, <2>1
    <3> QED BY <2>1, <3>1
  <2>2. CASE h.stop = NoStop \/ q # p
    BY <1>5, <1>6, <2>2
  <2> QED BY <1>7, <2>1, <2>2
<1>10. SortedSoFar(k)'
  <2>1. k.next - 1 = n
    BY <1>1, <1>3
  <2>2. SortedSoFar(k)' <=>
          /\ n \in 0..Len(found) /\ Cardinality(live') = n /\ \A s \in live' : order'[s] < n
          /\ \A i \in 1..n : \E s \in live' : order'[s] = i - 1 /\ AtStop(s)' = found[i] \ k.todo
          /\ \A q \in Photo : assigned'[q] = NoStop \/ \E i \in 1..n : q \in found[i]
    BY <1>3, <2>1, Zenon DEF SortedSoFar, Found
  <2> QED BY <1>5, <1>8, <1>9, <2>2
<1>11. AssignsRest(k)'
  <2>1. AssignsRest(k)
    BY <1>2, <1>3 DEF AssignsRest
  <2> QED BY <2>1 DEF AssignsRest, Found
<1> QED BY <1>10, <1>11

LEMMA PageAssigns ==
  ASSUME OnePage, Typed, PageInv, NEW c \in Client, NEW p \in Photo, SetPhotoStopID(c, p)
  PROVE  PageInv'
<1>1. /\ call[c] \in Handler /\ call[c].pc = "assign" /\ call[c] # Idle /\ p \in call[c].todo
      /\ Steps(call[c]) /\ SortInv(call[c]) /\ UNCHANGED <<live, order, view>>
  <2>1. At(c, "assign") /\ p \in call[c].todo /\ UNCHANGED <<live, order, view>>
    BY DEF SetPhotoStopID
  <2>2. call[c] \in Handler /\ call[c].pc = "assign" /\ call[c] # Idle
    BY <2>1, HandlerAt DEF Phase
  <2> QED BY <2>1, <2>2 DEF PageInv
<1>2. CASE call[c].stop \notin live \union {NoStop}
  <2>1. call[c].op \notin {"auto", "resort"}
    BY <1>1, <1>2 DEF SortInv, IsSort, AssignsRest
  <2>2. Fail(c) /\ assigned' = assigned
    BY <1>2, <2>1 DEF SetPhotoStopID
  <2> QED BY <1>1, <2>2, PageGivesUp
<1>3. CASE call[c].stop \in live \union {NoStop}
  <2>1. PICK k : k = [call[c] EXCEPT !.todo = call[c].todo \ {p}]
    OBVIOUS
  <2>2. call'[c] = k /\ assigned' = [assigned EXCEPT ![p] = call[c].stop]
    BY <1>3, <2>1, BecomesIt DEF SetPhotoStopID
  <2>3. k.pc = "assign" /\ k.op = call[c].op /\ k # Idle
    BY <1>1, <2>1 DEF Handler, Idle
  <2>4. IsSort(k) => SortedSoFar(k)' /\ AssignsRest(k)'
    <3>1. ASSUME IsSort(k) PROVE SortedSoFar(call[c]) /\ AssignsRest(call[c]) /\ call[c].op \in {"auto", "resort"}
      BY <1>1, <2>3, <3>1 DEF SortInv, IsSort
    <3>2. OrdersDistinct
      BY DEF PageInv
    <3> QED BY <1>1, <2>1, <2>2, <3>1, <3>2, SortAssigns
  <2>5. SortInv(k)'
    BY <2>3, <2>4 DEF SortInv
  <2>6. Steps(k) /\ SendsOrder(k)'
    BY <1>1, <2>3 DEF Steps, SendsOrder
  <2>7. SeesOrders(c, k)'
    <3>1. ~Shifted(k) => ~Shifted(call[c]) /\ SeesOrders(c, call[c])
      BY <1>1, <2>3 DEF Shifted, PageInv
    <3> QED BY <1>1, <3>1 DEF SeesOrders
  <2>8. IsFiniteSet(live') /\ OrdersDistinct'
    BY <1>1 DEF PageInv, OrdersDistinct
  <2> QED BY <2>2, <2>5, <2>6, <2>7, <2>8, PageStep
<1> QED BY <1>2, <1>3

LEMMA PageNext ==
  OnePage /\ Reliable /\ Typed /\ AssignmentsResolve /\ PageInv /\ [Next]_vars => PageInv'
<1> SUFFICES ASSUME OnePage, Reliable, Typed, AssignmentsResolve, PageInv, [Next]_vars PROVE PageInv'
  OBVIOUS
<1>1. ASSUME NEW c \in Client, Request(c) \/ Hangup(c) \/ Busy(c) PROVE PageInv'
  BY <1>1, PageRequest, PageHangsUp
<1>2. ASSUME NEW c \in Client, Statement(c) PROVE PageInv'
  BY <1>2, PageShifts, PageMaxOrder, PageEdits, PageDeletes, PageChecks, PageAllAssigned, PageAssigns,
     PageLists, PageClears, PageAllCreated, PageCreates, PageCreatesCluster, PageLoads DEF Statement
<1>3. CASE UNCHANGED vars
  BY <1>3 DEF vars, PageInv, OrdersDistinct, Steps, SendsOrder, SortInv, SortedSoFar, AssignsRest, AtStop,
              SeesOrders
<1> QED BY <1>1, <1>2, <1>3 DEF Next

LEMMA PageInvariant == OnePage /\ Reliable => (Spec => []PageInv)
<1>1. ASSUME OnePage, Reliable PROVE Spec => []PageInv
  <2>1. Typed /\ AssignmentsResolve /\ PageInv /\ [Next]_vars => PageInv'
    BY <1>1, PageNext
  <2> QED BY <2>1, PageInit, TypedAlways, PhotosHaveTheirStop, PTL DEF Spec
<1> QED BY <1>1

\* As long as one page is at work and no statement fails, no two stops share a
\* place in the order: an inserted stop finds the place its shift has made, an
\* appended one comes behind the last, also when requests are given up half-way
\* (server.go:1311-1357).
THEOREM OnePageKeepsOrdersDistinct == OnePage /\ Reliable => (Spec => []OrdersDistinct)
<1>1. PageInv => OrdersDistinct
  BY DEF PageInv
<1>2. ASSUME OnePage, Reliable PROVE Spec => []OrdersDistinct
  BY <1>1, <1>2, PageInvariant, PTL
<1> QED BY <1>2

\* A request that has sorted the photos leaves the clusters it has found, in
\* order, each with its photos, and no other stop (server.go:2706-2810,
\* resort_photos.go:149-228).
THEOREM OnePageSortsIntoStops == OnePage /\ Reliable => (Spec => []SortedIntoStops)
<1>1. ASSUME Typed, PageInv PROVE SortedIntoStops
  <2> SUFFICES ASSUME NEW c \in Client, At(c, "load"), call[c].op \in {"auto", "resort"}
               PROVE  /\ Cardinality(live) = Len(Clusters[call[c].op])
                      /\ \A i \in DOMAIN Clusters[call[c].op] : \E s \in live :
                           order[s] = i - 1 /\ {p \in Photo : assigned[p] = s} = Clusters[call[c].op][i]
    BY Zenon DEF SortedIntoStops
  <2>1. call[c] # Idle /\ call[c].pc = "load" /\ SortInv(call[c])
    BY <1>1, HandlerAt DEF Phase, PageInv
  <2>2. SortedSoFar(call[c]) /\ call[c].todo = {} /\ call[c].next = Len(Found(call[c])) + 1
    BY <2>1 DEF SortInv, IsSort
  <2>3. /\ Len(Found(call[c])) \in Nat /\ DOMAIN Found(call[c]) = 1..Len(Found(call[c]))
    BY FoundApart DEF Found
  <2>4. call[c].next - 1 = Len(Found(call[c]))
    BY <2>2, <2>3
  <2> QED BY <2>2, <2>3, <2>4 DEF SortedSoFar, AtStop, Found
<1>2. ASSUME OnePage, Reliable PROVE Spec => []SortedIntoStops
  BY <1>1, <1>2, TypedAlways, PageInvariant, PTL
<1> QED BY <1>2

\* Nothing a single page does swaps two stops: it inserts and edits with orders it
\* has loaded, and those are the stored ones (index.html:5296-5397 and 6438-6470,
\* server.go:1311-1467).
THEOREM OnePageKeepsOrder == OnePage /\ Reliable => (Spec => EditsKeepOrder)
<1>1. ASSUME Typed, PageInv, [Next]_vars PROVE KeepsOrder
  <2>1. CASE UNCHANGED vars BY <2>1 DEF vars, KeepsOrder
  <2>2. ASSUME NEW c \in Client, UpdateStop(c) PROVE KeepsOrder
    BY <1>1, <2>2, UpdateIsNoMove DEF KeepsOrder
  <2>3. ASSUME NEW c \in Client, Request(c) \/ Statement(c) \/ Hangup(c) \/ Busy(c), ~UpdateStop(c)
        PROVE  KeepsOrder
    BY <1>1, <2>3, StepKeepsOrder DEF Typed
  <2> QED BY <1>1, <2>1, <2>2, <2>3 DEF Next
<1>2. ASSUME OnePage, Reliable PROVE Spec => EditsKeepOrder
  BY <1>1, <1>2, TypedAlways, PageInvariant, PTL DEF Spec, EditsKeepOrder
<1> QED BY <1>2

================================================================================
