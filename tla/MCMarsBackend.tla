---------------------------- MODULE MCMarsBackend -----------------------------
(* MarsBackend for TLC, with the feed it implements.                         *)
EXTENDS MarsBackend

Feed == INSTANCE VersionedFeed WITH Keys <- Segments, published <- version, served <- Served

(* The index that queries read of a segment is always a published version, is *)
(* never dropped and never goes back, although a fetch fails halfway or       *)
(* rebuilds some segments only.                                              *)
ImplementsFeed == Feed!Spec
=============================================================================
