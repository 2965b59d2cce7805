---------------------------- MODULE MCTripBackup ----------------------------
(* Small instances of TripBackup for TLC. *)
EXTENDS TripBackup

CONSTANTS t1, s1, p1, r1, k1, u, x, v

\* One trip with a row in every table, made by somebody earlier.
OneTrip ==
    /\ trips = [t \in Trip |-> IF t = t1 THEN [owner |-> u, note |-> x, cover |-> p1,
                                               view |-> v, slug |-> Null] ELSE Null]
    /\ stops = [s \in Stop |-> IF s = s1 THEN [trip |-> t1, note |-> x, view |-> v] ELSE Null]
    /\ photos = [p \in Photo |-> IF p = p1 THEN [trip |-> t1, stop |-> s1, note |-> x, view |-> v]
                                           ELSE Null]
    /\ routes = [r \in Route |-> IF r = r1 THEN [trip |-> t1] ELSE Null]
    /\ comments = [k \in Comment |-> IF k = k1 THEN [trip |-> t1, photo |-> p1] ELSE Null]
    /\ call = [c \in Call |-> Idle]
    /\ job = [j \in Job |-> Idle]
    /\ backups = {}

SpecFromOneTrip == OneTrip /\ [][Next]_vars

=============================================================================
