------------------------ MODULE MCSearchTermsPipeline -------------------------
(* SearchTermsPipeline for TLC: the constants are in the .cfg files.         *)
EXTENDS SearchTermsPipeline
=============================================================================
