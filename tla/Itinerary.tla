----------------------------- MODULE Itinerary -----------------------------
(***************************************************************************)
(* The stops of one trip, their stop_order, and the stop each photo is       *)
(* assigned to: the handlers of src/srv/server.go and                        *)
(* src/srv/resort_photos.go that write them, and the pages that call these   *)
(* handlers with what they loaded some time ago                              *)
(* (src/srv/templates/index.html).  Every SQL statement is a step and        *)
(* commits by itself; the statements of two requests interleave freely.      *)
(*                                                                         *)
(* The trip's photos are fixed here, and Clusters stands for what the two    *)
(* clustering algorithms compute from their places and times.                *)
(***************************************************************************)
EXTENDS Integers, Sequences, FiniteSets, FiniteSetsExt

CONSTANTS
  Client,    \* open pages, each with at most one request under way
  Stop,      \* stop ids; one nobody knows stands for a new uuid
  Photo,     \* the trip's photos
  NoStop,    \* stop_id NULL
  Clusters,  \* "auto" and "resort" -> the clusters found, in their order
  Requests,  \* the kinds of request the pages make, a subset of Op
  MaxOrder,  \* bound of the model on the orders pages send and stops get
  Faults     \* "hangup": the client disconnects, so that every later statement
             \* of its request fails; "offline": loading the trip fails;
             \* "busy": one statement fails

ASSUME NoStopAssumption   == NoStop \notin Stop
ASSUME MaxOrderAssumption == MaxOrder \in Nat
ASSUME FaultsAssumption   == Faults \subseteq {"hangup", "offline", "busy"}
ASSUME ClustersAssumption ==
  /\ Clusters \in [{"auto", "resort"} -> Seq((SUBSET Photo) \ {{}})]
  /\ \A op \in {"auto", "resort"} : \A i, j \in DOMAIN Clusters[op] :
       i # j => Clusters[op][i] \intersect Clusters[op][j] = {}

VARIABLES
  live,      \* the stops with a row
  order,     \* their stop_order (0 for the others)
  assigned,  \* photo -> its stop_id
  view,      \* page -> the stops, orders and assignments it last loaded
  call       \* page -> the handler that serves its request, or "load"

vars == <<live, order, assigned, view, call>>

-----------------------------------------------------------------------------
Phase == {"max", "shift", "insert", "assign", "update", "delete", "check",
          "list", "clear_stops", "clear_photos", "create", "load", "load_photos"}
Op    == {"append", "insert", "update", "delete", "assign", "save", "reorder",
          "auto", "resort", "failed", "reload"}
Handler == [pc : Phase, op : Op, stop : Stop \union {NoStop}, order : Nat,
            todo : SUBSET Photo, next : Nat]
Idle == [pc |-> "idle"]

At(c, l)   == call[c].pc = l
Become(c, h) == call' = [call EXCEPT ![c] = h]
Goto(c, l) == Become(c, [call[c] EXCEPT !.pc = l])
\* The request was refused or given up: some pages load the trip anew.
Fail(c)    == Become(c, IF call[c].op \in {"insert", "auto"}
                          THEN [call[c] EXCEPT !.pc = "load", !.op = "failed"] ELSE Idle)
Begin(c, l, o, s, n, ps) ==
  /\ o \in Requests
  /\ call[c] = Idle
  /\ Become(c, [pc |-> l, op |-> o, stop |-> s, order |-> n, todo |-> ps, next |-> 1])

\* uuid.New: an id that no row, no page and no request refers to.
Fresh(s) ==
  /\ s \notin live
  /\ \A c \in Client : s \notin view[c].live /\ (call[c] # Idle => call[c].stop # s)
  /\ \A c \in Client, p \in Photo : view[c].assigned[p] # s

\* The bound on orders, which a page could otherwise drive up for ever.
Bounded == \A s \in live : order[s] < MaxOrder

Clustered(op) == UNION {Clusters[op][i] : i \in DOMAIN Clusters[op]}
Unassigned    == [p \in Photo |-> NoStop]
NoOrder       == [s \in Stop |-> 0]

Init ==
  /\ live = {} /\ order = NoOrder /\ assigned = Unassigned
  /\ view = [c \in Client |-> [live |-> {}, order |-> NoOrder, assigned |-> Unassigned]]
  /\ call = [c \in Client |-> Idle]

-----------------------------------------------------------------------------
(* Requests, with what the page shows *)

\* A click on the map: the stop goes behind the others.
AppendStop(c) ==
  /\ Begin(c, "max", "append", NoStop, 0, {})
  /\ UNCHANGED <<live, order, assigned, view>>

\* "+ Add Stop" behind stop s, and the scissors that move the later photos of s
\* to the new stop.
InsertStop(c, s, moved) ==
  /\ Bounded /\ view[c].order[s] < MaxOrder
  /\ s \in view[c].live
  /\ \/ moved = {}
     \/ moved # {p \in Photo : view[c].assigned[p] = s}
  /\ \A p \in moved : view[c].assigned[p] = s
  /\ Begin(c, "shift", "insert", NoStop, view[c].order[s] + 1, moved)
  /\ UNCHANGED <<live, order, assigned, view>>

\* Renaming or editing a stop sends its stop_order along.
EditStop(c, s) ==
  /\ s \in view[c].live /\ view[c].order[s] <= MaxOrder
  /\ Begin(c, "update", "update", s, view[c].order[s], {})
  /\ UNCHANGED <<live, order, assigned, view>>

RemoveStop(c, s) ==
  /\ s \in view[c].live
  /\ Begin(c, "delete", "delete", s, 0, {})
  /\ UNCHANGED <<live, order, assigned, view>>

\* Dropping a photo on a stop, on "Unassigned", or choosing its stop.
AssignPhoto(c, p, s) ==
  /\ s \in view[c].live \union {NoStop}
  /\ Begin(c, "check", "assign", s, 0, {p})
  /\ UNCHANGED <<live, order, assigned, view>>

\* Dropping a photo into a stop's grid sends the whole grid.
ReorderPhotos(c, p, s) ==
  /\ s \in view[c].live \union {NoStop}
  /\ Begin(c, "check", "reorder", s, 0, {p} \union {q \in Photo : view[c].assigned[q] = s})
  /\ UNCHANGED <<live, order, assigned, view>>

\* Saving a caption, place or camera sends the photo's stop_id along.
SavePhoto(c, p) ==
  /\ Begin(c, "assign", "save", view[c].assigned[p], 0, {p})
  /\ UNCHANGED <<live, order, assigned, view>>

\* All uploads are done, or "Re-sort" was confirmed.
SortIntoStops(c) ==
  /\ \/ Begin(c, "clear_stops", "auto", NoStop, 0, {})
     \/ Begin(c, "list", "resort", NoStop, 0, {})
  /\ UNCHANGED <<live, order, assigned, view>>

Reload(c) ==
  /\ Begin(c, "load", "reload", NoStop, 0, {})
  /\ UNCHANGED <<live, order, assigned, view>>

-----------------------------------------------------------------------------
(* handleCreateStop *)

\* Mutant: the stop at the wanted place stays there.
ShiftStopOrdersBehind(c) ==
  /\ At(c, "shift")
  /\ order' = [s \in Stop |-> IF s \in live /\ order[s] > call[c].order
                                THEN order[s] + 1 ELSE order[s]]
  /\ Goto(c, "insert")
  /\ UNCHANGED <<live, assigned, view>>

\* Mutant: the stops before the wanted place are moved, not those behind.
ShiftStopOrdersBefore(c) ==
  /\ At(c, "shift")
  /\ order' = [s \in Stop |-> IF s \in live /\ order[s] < call[c].order
                                THEN order[s] + 1 ELSE order[s]]
  /\ Goto(c, "insert")
  /\ UNCHANGED <<live, assigned, view>>

ShiftStopOrders(c) ==
  /\ At(c, "shift")
  /\ order' = [s \in Stop |-> IF s \in live /\ order[s] >= call[c].order
                                THEN order[s] + 1 ELSE order[s]]
  /\ Goto(c, "insert")
  /\ UNCHANGED <<live, assigned, view>>

\* Mutant: the new stop is not put behind the last.
MaxStopOrderItself(c) ==
  /\ At(c, "max") /\ Bounded
  /\ Become(c, [call[c] EXCEPT !.pc = "insert",
                               !.order = Max({order[s] : s \in live} \union {-1})])
  /\ UNCHANGED <<live, order, assigned, view>>

MaxStopOrder(c) ==
  /\ At(c, "max") /\ Bounded
  /\ Become(c, [call[c] EXCEPT !.pc = "insert",
                               !.order = Max({order[s] : s \in live} \union {-1}) + 1])
  /\ UNCHANGED <<live, order, assigned, view>>

\* After up to seconds of reverseGeocode.
CreateStop(c, s) ==
  /\ At(c, "insert")
  /\ Fresh(s)
  /\ live' = live \union {s}
  /\ order' = [order EXCEPT ![s] = call[c].order]
  /\ Become(c, [call[c] EXCEPT !.pc = "assign", !.stop = s])
  /\ UNCHANGED <<assigned, view>>

-----------------------------------------------------------------------------
(* handleUpdateStop, handleDeleteStop *)

\* A stop that has gone meanwhile is a 404, or an UPDATE of no row.  A page that
\* has renamed the stop does not load the trip again.
UpdateStop(c) ==
  /\ At(c, "update")
  /\ order' = IF call[c].stop \in live
                THEN [order EXCEPT ![call[c].stop] = call[c].order] ELSE order
  /\ Goto(c, "load") \/ Become(c, Idle)
  /\ UNCHANGED <<live, assigned, view>>

\* Mutant: without foreign_keys(1) the photos keep the stop's id.
DeleteStopOnly(c) ==
  /\ At(c, "delete")
  /\ live' = live \ {call[c].stop}
  /\ order' = [order EXCEPT ![call[c].stop] = 0]
  /\ Goto(c, "load")
  /\ UNCHANGED <<assigned, view>>

\* The photos' stop_id goes NULL with the stop (ON DELETE SET NULL).
DeleteStop(c) ==
  /\ At(c, "delete")
  /\ live' = live \ {call[c].stop}
  /\ order' = [order EXCEPT ![call[c].stop] = 0]
  /\ assigned' = [p \in Photo |-> IF assigned[p] = call[c].stop THEN NoStop ELSE assigned[p]]
  /\ Goto(c, "load")
  /\ UNCHANGED view

-----------------------------------------------------------------------------
(* handleAssignPhoto, handleReorderPhotos, handleUpdatePhoto, and the loops that
   assign photos in handleCreateStop, handleAutoStops, handleResortPhotos *)

\* The stop must exist.
CheckStop(c) ==
  /\ At(c, "check")
  /\ IF call[c].stop \in live \union {NoStop} THEN Goto(c, "assign") ELSE Fail(c)
  /\ UNCHANGED <<live, order, assigned, view>>

\* One UPDATE.  The foreign key refuses a stop that has gone: an error ends the
\* request, but the two loops that sort photos into stops go on.
SetPhotoStopID(c, p) ==
  /\ At(c, "assign")
  /\ p \in call[c].todo
  /\ \/ /\ call[c].stop \in live \union {NoStop}
        /\ assigned' = [assigned EXCEPT ![p] = call[c].stop]
        /\ Become(c, [call[c] EXCEPT !.todo = @ \ {p}])
     \/ /\ call[c].stop \notin live \union {NoStop}
        /\ IF call[c].op \in {"auto", "resort"}
             THEN Become(c, [call[c] EXCEPT !.todo = @ \ {p}])
             ELSE Fail(c)
        /\ UNCHANGED assigned
  /\ UNCHANGED <<live, order, view>>

\* Saving a camera does not load the trip again.
AllAssigned(c) ==
  /\ At(c, "assign")
  /\ call[c].todo = {}
  /\ \/ Goto(c, IF call[c].op \in {"auto", "resort"} /\ call[c].stop # NoStop
                  THEN "create" ELSE "load")
     \/ call[c].op = "save" /\ Become(c, Idle)
  /\ UNCHANGED <<live, order, assigned, view>>

-----------------------------------------------------------------------------
(* handleAutoStops, handleResortPhotos *)

\* The re-sort lists the photos first, the other afterwards.
ListPhotos(c) ==
  /\ At(c, "list")
  /\ Goto(c, IF call[c].op = "auto" THEN "create" ELSE "clear_stops")
  /\ UNCHANGED <<live, order, assigned, view>>

\* Mutant: the old stops are kept.
DeleteNoStops(c) ==
  /\ At(c, "clear_stops")
  /\ Goto(c, "clear_photos")
  /\ UNCHANGED <<live, order, assigned, view>>

DeleteStopsByTrip(c) ==
  /\ At(c, "clear_stops")
  /\ live' = {} /\ order' = NoOrder /\ assigned' = Unassigned
  /\ Goto(c, "clear_photos")
  /\ UNCHANGED view

ClearPhotoStopIDs(c) ==
  /\ At(c, "clear_photos")
  /\ assigned' = Unassigned
  /\ Goto(c, IF call[c].op = "auto" THEN "list" ELSE "create")
  /\ UNCHANGED <<live, order, view>>

\* A second of sleep and a reverseGeocode lie before every CreateStop but the first.
CreateClusterStop(c, s) ==
  /\ At(c, "create")
  /\ call[c].next \in DOMAIN Clusters[call[c].op]
  /\ Fresh(s)
  /\ live' = live \union {s}
  /\ order' = [order EXCEPT ![s] = call[c].next - 1]
  /\ Become(c, [call[c] EXCEPT !.pc = "assign", !.stop = s, !.next = @ + 1,
                               !.todo = Clusters[call[c].op][call[c].next]])
  /\ UNCHANGED <<assigned, view>>

\* The re-sort also unassigns the photos of no cluster.
AllCreated(c) ==
  /\ At(c, "create")
  /\ call[c].next \notin DOMAIN Clusters[call[c].op]
  /\ Become(c, IF call[c].op = "auto"
                  THEN [call[c] EXCEPT !.pc = "load"]
                  ELSE [call[c] EXCEPT !.pc = "assign", !.stop = NoStop,
                                       !.todo = Photo \ Clustered("resort")])
  /\ UNCHANGED <<live, order, assigned, view>>

-----------------------------------------------------------------------------
(* buildTripDetail: the stops, then the photos *)

LoadStops(c) ==
  /\ At(c, "load")
  /\ view' = [view EXCEPT ![c] = [view[c] EXCEPT !.live = live, !.order = order]]
  /\ Goto(c, "load_photos")
  /\ UNCHANGED <<live, order, assigned>>

LoadPhotos(c) ==
  /\ At(c, "load_photos")
  /\ view' = [view EXCEPT ![c].assigned = assigned]
  /\ Become(c, Idle)
  /\ UNCHANGED <<live, order, assigned>>

-----------------------------------------------------------------------------
Hangup(c) ==
  /\ \/ "hangup" \in Faults /\ call[c].pc \notin {"idle", "load", "load_photos"} /\ Fail(c)
     \/ "offline" \in Faults /\ At(c, "load") /\ Become(c, Idle)
  /\ UNCHANGED <<live, order, assigned, view>>

\* One statement fails: most handlers give up, some errors are not looked at.
Busy(c) ==
  /\ "busy" \in Faults
  /\ \/ At(c, "max") /\ Goto(c, "insert")
     \/ At(c, "shift") /\ Goto(c, "insert")
     \/ At(c, "clear_stops") /\ Goto(c, "clear_photos")
     \/ At(c, "clear_photos") /\ Goto(c, IF call[c].op = "auto" THEN "list" ELSE "create")
     \/ /\ At(c, "create")
        /\ call[c].next \in DOMAIN Clusters[call[c].op]
        /\ Become(c, [call[c] EXCEPT !.next = @ + 1])
     \/ /\ At(c, "assign")
        /\ call[c].op \in {"auto", "resort"}
        /\ \E p \in call[c].todo : Become(c, [call[c] EXCEPT !.todo = @ \ {p}])
     \/ At(c, "assign") /\ call[c].op \notin {"auto", "resort"} /\ call[c].todo # {} /\ Fail(c)
     \/ call[c].pc \in {"insert", "update", "delete", "check", "list"} /\ Fail(c)
  /\ UNCHANGED <<live, order, assigned, view>>

Request(c) ==
  \/ AppendStop(c) \/ SortIntoStops(c) \/ Reload(c)
  \/ \E s \in Stop : EditStop(c, s) \/ RemoveStop(c, s)
  \/ \E s \in Stop : \E moved \in SUBSET Photo : InsertStop(c, s, moved)
  \/ \E p \in Photo : SavePhoto(c, p)
  \/ \E p \in Photo, s \in Stop \union {NoStop} : AssignPhoto(c, p, s) \/ ReorderPhotos(c, p, s)

Statement(c) ==
  \/ ShiftStopOrders(c) \/ MaxStopOrder(c) \/ UpdateStop(c) \/ DeleteStop(c)
  \/ CheckStop(c) \/ AllAssigned(c) \/ (\E p \in Photo : SetPhotoStopID(c, p))
  \/ ListPhotos(c) \/ DeleteStopsByTrip(c) \/ ClearPhotoStopIDs(c) \/ AllCreated(c)
  \/ (\E s \in Stop : CreateStop(c, s) \/ CreateClusterStop(c, s))
  \/ LoadStops(c) \/ LoadPhotos(c)

Next == \E c \in Client : Request(c) \/ Statement(c) \/ Hangup(c) \/ Busy(c)

Spec == Init /\ [][Next]_vars

-----------------------------------------------------------------------------
(* Properties *)

TypeOK ==
  /\ live \subseteq Stop
  /\ order \in [Stop -> Nat]
  /\ assigned \in [Photo -> Stop \union {NoStop}]
  /\ view \in [Client -> [live : SUBSET Stop, order : [Stop -> Nat],
                          assigned : [Photo -> Stop \union {NoStop}]]]
  /\ call \in [Client -> Handler \union {Idle}]

\* A photo's stop exists, whatever requests and failures come together.
AssignmentsResolve == \A p \in Photo : assigned[p] \in live \union {NoStop}

\* No two stops of a trip share a place in its order: `Determine stop order: use
\* provided order (shifting existing), or append' (server.go:1311).
OrdersDistinct == \A s, t \in live : order[s] = order[t] => s = t

KeepsOrder == \A s, t \in live \intersect live' : order[s] < order[t] => order'[s] < order'[t]

\* Nothing a single page does changes the order of the stops there are: it
\* inserts and edits with the orders it has loaded, and those are the stored ones.
EditsKeepOrder == [][KeepsOrder]_vars

\* However requests interleave, only an edit of a stop may change the order of
\* other stops: creating one shifts what lies behind as a whole.
OnlyEditsReorder ==
  [][(\A c \in Client : At(c, "update") => call'[c] = call[c]) => KeepsOrder]_vars

\* `Remove existing stops and stop assignments' (server.go:2706)
\* and `Create stops and assign photos' (2768): once a request has sorted the photos,
\* the stops are the clusters it found, in order, and there are no others.
SortedIntoStops ==
  \A c \in Client : At(c, "load") /\ call[c].op \in {"auto", "resort"} =>
    LET found == Clusters[call[c].op]
    IN  /\ Cardinality(live) = Len(found)
        /\ \A i \in DOMAIN found : \E s \in live :
             order[s] = i - 1 /\ {p \in Photo : assigned[p] = s} = found[i]

=============================================================================
