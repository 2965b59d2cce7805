---------------------------- MODULE MCMediaFiles ----------------------------
(* Small instances of MediaFiles for TLC. *)
EXTENDS MediaFiles, TLC

\* Trips, requests, and photos of one kind are interchangeable.
Symmetry == Permutations(Trip) \union Permutations(Call) \union Permutations(Photo \ Video)

=============================================================================
