---------------------------- MODULE MCTripRecords ----------------------------
(* Small instances of TripRecords for TLC. *)
EXTENDS TripRecords, TLC

Symmetry == Permutations(Call) \union Permutations(Trip) \union Permutations(User)

=============================================================================
