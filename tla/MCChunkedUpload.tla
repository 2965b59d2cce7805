--------------------------- MODULE MCChunkedUpload ---------------------------
(* A small instance of ChunkedUpload for TLC: liveness, hence no symmetry. *)
EXTENDS ChunkedUpload
=============================================================================
