------------------------- MODULE MCCommentLimiter -------------------------
(* Small instances of CommentLimiter for TLC. *)
EXTENDS CommentLimiter, TLC

Symmetry == Permutations(IP)

=============================================================================
