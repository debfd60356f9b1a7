------------------------------ MODULE BatchQueue ------------------------------
(***************************************************************************)
(* What AsyncBatchQueue promises its caller and its callback, with none of  *)
(* its tasks: accepted items are handed over in order, one batch of at most *)
(* MaxBatchSize at a time, until the consumer ends.  It ends early only     *)
(* after the queue was closed, and otherwise with nothing left.             *)
(***************************************************************************)
EXTENDS Naturals, Sequences

CONSTANTS Item, MaxBatchSize, Capacity

VARIABLES
    accepted,   \* the items accepted, in order
    handed,     \* the items handed over, in order
    busy,       \* the size of the batch being processed, 0 if none
    open,       \* whether items are accepted
    consumer    \* idle, active, finished or abandoned

vars == <<accepted, handed, busy, open, consumer>>

Init ==
    /\ accepted = <<>> /\ handed = <<>>
    /\ busy = 0
    /\ open = TRUE
    /\ consumer = "idle"

Waiting == Len(accepted) - Len(handed)

Accept(i) ==
    /\ open
    /\ Waiting < Capacity
    /\ accepted' = Append(accepted, i)
    /\ UNCHANGED <<handed, busy, open, consumer>>

Activate ==
    /\ open
    /\ consumer = "idle"
    /\ consumer' = "active"
    /\ UNCHANGED <<accepted, handed, busy, open>>

Hand(n) ==
    /\ consumer = "active"
    /\ busy = 0
    /\ n <= Waiting
    /\ busy' = n
    /\ handed' = SubSeq(accepted, 1, Len(handed) + n)
    /\ UNCHANGED <<accepted, open, consumer>>

(* A batch ends; the next one may start in the same step.                   *)
Settle ==
    /\ busy > 0
    /\ UNCHANGED <<accepted, open>>
    /\ \/ busy' = 0 /\ UNCHANGED <<handed, consumer>>
       \/ /\ ~open
          /\ Waiting = 0
          /\ busy' = 0
          /\ consumer' = "finished"
          /\ UNCHANGED handed
       \/ \E n \in 1..MaxBatchSize :
             /\ n <= Waiting
             /\ busy' = n
             /\ handed' = SubSeq(accepted, 1, Len(handed) + n)
             /\ UNCHANGED consumer

Close ==
    /\ open' = FALSE
    /\ UNCHANGED <<accepted, handed, busy, consumer>>

Finish ==
    /\ ~open
    /\ consumer = "active"
    /\ busy = 0
    /\ Waiting = 0
    /\ consumer' = "finished"
    /\ UNCHANGED <<accepted, handed, busy, open>>

(* The consumer is cancelled, which closes the queue if it was open.        *)
Abandon ==
    /\ consumer = "active"
    /\ open' = FALSE
    /\ consumer' = "abandoned"
    /\ busy' = 0
    /\ UNCHANGED <<accepted, handed>>

Next ==
    \/ \E i \in Item : Accept(i)
    \/ \E n \in 1..MaxBatchSize : Hand(n)
    \/ Activate \/ Settle \/ Close \/ Finish \/ Abandon

Spec == Init /\ [][Next]_vars
=============================================================================
