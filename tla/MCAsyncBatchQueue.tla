--------------------------- MODULE MCAsyncBatchQueue --------------------------
(***************************************************************************)
(* Model checking of AsyncBatchQueue, and its refinement of BatchQueue.     *)
(***************************************************************************)
EXTENDS AsyncBatchQueue, FiniteSets

(* The batch on which a callback is running, as BatchQueue sees it: a live    *)
(* batch of an unwinding run() is already abandoned.                        *)
Busy ==
    LET running == {i \in DOMAIN batches : batches[i].st \in Running}
    IN  IF running = {} \/ pc = "unwind" THEN 0
        ELSE Len(batches[CHOOSE i \in running : TRUE].items)

Consumer ==
    CASE task = "none" -> "idle"
      [] task = "finished" -> "finished"
      [] task = "cancelled" \/ pc = "unwind" -> "abandoned"
      [] OTHER -> "active"

Abstract == INSTANCE BatchQueue WITH
    Item <- 1..MaxPuts, Capacity <- MaxQueueSize + 2 * MaxBatchSize,
    busy <- Busy, open <- ~shutdown, consumer <- Consumer

(* AsyncBatchQueue implements BatchQueue: one batch at a time, in order,      *)
(* never more than MaxBatchSize items, nothing after the end, and a normal   *)
(* end only when everything accepted was handed over.                       *)
ImplementsBatchQueue == Abstract!Spec
=============================================================================
