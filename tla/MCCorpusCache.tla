---------------------------- MODULE MCCorpusCache -----------------------------
(* CorpusCache for TLC: the constants are in the .cfg files.                 *)
EXTENDS CorpusCache
=============================================================================
