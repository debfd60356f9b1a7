------------------------- MODULE MCFleeceQueueWorker -------------------------
(* Model checking of FleeceQueueWorker: one submission of two terms that may  *)
(* raise, one that does not validate, and two or three streams.              *)
EXTENDS FleeceQueueWorker
=============================================================================
