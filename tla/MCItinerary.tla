---------------------------- MODULE MCItinerary ----------------------------
(* Small instances of Itinerary for TLC. *)
EXTENDS Itinerary, TLC

CONSTANTS p1, p2, p3

\* p1 and p2 lie far apart; p3 has no place and was taken after p1.
ThreePhotos == [op \in {"auto", "resort"} |->
  IF op = "auto" THEN <<{p1}, {p2}>> ELSE <<{p1, p3}, {p2}>>]

\* p1 has a place.
OnePhoto == [op \in {"auto", "resort"} |-> <<{p1}>>]

Symmetry == Permutations(Stop) \union Permutations(Client)

=============================================================================
