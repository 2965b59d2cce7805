--------------------------- MODULE UploadLifecycle ---------------------------
(***************************************************************************)
(* What a chunked upload promises its client, without files, locks,        *)
(* handlers or time: an upload id is used once; it is open, then sealed,    *)
(* then one photo or gone for good; and a photo holds every chunk that was  *)
(* acknowledged before the upload was sealed.                               *)
(***************************************************************************)
CONSTANTS Upload, Chunk

VARIABLES stage,     \* where each upload is in its life
          accepted,  \* the chunks acknowledged to the client while it was open
          content    \* the chunks the photo made from it holds complete

vars == <<stage, accepted, content>>

Stage == {"new", "open", "sealed", "photo", "gone"}

Init ==
  /\ stage = [u \in Upload |-> "new"]
  /\ accepted = [u \in Upload |-> {}]
  /\ content = [u \in Upload |-> {}]

Move(u, from, to) ==
  /\ stage[u] = from
  /\ stage' = [stage EXCEPT ![u] = to]

Open(u) == Move(u, "new", "open") /\ UNCHANGED <<accepted, content>>

Accept(u, k) ==
  /\ stage[u] = "open"
  /\ accepted' = [accepted EXCEPT ![u] = @ \union {k}]
  /\ UNCHANGED <<stage, content>>

Seal(u) == Move(u, "open", "sealed") /\ UNCHANGED <<accepted, content>>

Publish(u) ==
  /\ Move(u, "sealed", "photo")
  /\ \E K \in SUBSET Chunk :
       /\ accepted[u] \subseteq K
       /\ content' = [content EXCEPT ![u] = K]
  /\ UNCHANGED accepted

\* Uploads that are not photos yet are given up, any number at once.
Discard(S) ==
  /\ \A u \in S : stage[u] \in {"new", "open", "sealed"}
  /\ stage' = [u \in Upload |-> IF u \in S THEN "gone" ELSE stage[u]]
  /\ accepted' = [u \in Upload |-> IF u \in S THEN {} ELSE accepted[u]]
  /\ UNCHANGED content

Next ==
  \/ \E u \in Upload : Open(u) \/ Seal(u) \/ Publish(u)
  \/ \E u \in Upload, k \in Chunk : Accept(u, k)
  \/ \E S \in SUBSET Upload : Discard(S)

Spec == Init /\ [][Next]_vars

=============================================================================
