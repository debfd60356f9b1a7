----------------------------- MODULE MCAmpExempt ------------------------------
(* AmpExempt for TLC, with the feed it implements.                           *)
EXTENDS AmpExempt

Feed == INSTANCE VersionedFeed WITH Keys <- Segments, published <- version, served <- keywords

(* The keywords of every segment are always a published version and never go *)
(* back: a segment that answers 304 or fails keeps its keywords when its      *)
(* siblings are refreshed (103-105, 164-166), and a refresh swaps in all      *)
(* segments at once (186-187).                                               *)
ImplementsFeed == Feed!Spec
=============================================================================
