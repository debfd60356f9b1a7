--------------------------- MODULE AsyncBatchQueue ---------------------------
(***************************************************************************)
(* merino_common.utils.async_batch_queue.AsyncBatchQueue.                   *)
(*                                                                         *)
(* An asyncio program: every action below is what one task does between    *)
(* two awaits.  The tasks are the callers of put(), start() and stop(), the *)
(* run loop, the getter task that _wait_for_batch races against a timer and *)
(* the shutdown event, and the in-flight task that runs _process.          *)
(*                                                                         *)
(* Items are the numbers of the put() calls, so they are distinct.         *)
(***************************************************************************)
EXTENDS Integers, Sequences

CONSTANTS
    MaxBatchSize,      \* max_batch_size
    MaxQueueSize,      \* max_queue_size
    HasErrorCallback,  \* whether on_error was given
    Stoppers,          \* the calls of stop(), each made at most once
    MaxPuts            \* bound: the number of put() calls in a behaviour

ASSUME SizesAssumption ==
    /\ MaxBatchSize \in Nat \ {0}
    /\ MaxQueueSize \in Nat \ {0}
    /\ MaxBatchSize <= MaxQueueSize        \* __init__ raises ValueError otherwise
    /\ HasErrorCallback \in BOOLEAN
    /\ MaxPuts \in Nat

VARIABLES
    queue,      \* self._queue, oldest item first
    shutdown,   \* self._shutdown
    task,       \* self._current_task: none, alive, finished or cancelled
    pc,         \* the await at which run() is suspended
    batch,      \* the local `batch` of _wait_for_batch and run()
    getter,     \* the getter task of _wait_for_batch: none, pending or done
    taken,      \* the result of a getter that is done and not read yet
    batches,    \* every batch given to _process, in order
    inFlight,   \* the local `in_flight` of run(): 0 is None, or its index
    pending,    \* self._pending_item_count
    stop,       \* the progress of each stop() call
    metrics,    \* the OTel counters
    accepted,   \* history: the items put() accepted, in order
    handed,     \* history: the items on_batch was called with, in order
    puts        \* history: how many times put() was called

runVars   == <<task, pc, batch, getter, taken, inFlight>>
procVars  == <<batches, pending, handed>>
putVars   == <<accepted, puts>>
vars == <<queue, shutdown, runVars, procVars, putVars, stop, metrics>>

-----------------------------------------------------------------------------
Created  == "new"                      \* create_task(_process), not stepped yet
Running  == {"callback", "on_error"}   \* awaiting on_batch, or on_error
Settled  == {"ok", "error"}            \* _process returned
Status   == {Created, "cancelled"} \union Running \union Settled

Batch == [items : Seq(1..MaxPuts), st : Status]

Live(b) == b.st \in {Created} \union Running

SmallerOf(m, n) == IF m <= n THEN m ELSE n

Metrics == [processed : Nat, failed : Nat, rescued : Nat, unrescued : Nat,
            rejected : Nat, dropped : Nat]

Init ==
    /\ queue = <<>>
    /\ shutdown = FALSE
    /\ task = "none" /\ pc = "none" /\ inFlight = 0
    /\ batch = <<>> /\ getter = "none" /\ taken = <<>>
    /\ batches = <<>> /\ pending = 0 /\ handed = <<>>
    /\ stop = [s \in Stoppers |-> "idle"]
    /\ metrics = [processed |-> 0, failed |-> 0, rescued |-> 0, unrescued |-> 0,
                  rejected |-> 0, dropped |-> 0]
    /\ accepted = <<>> /\ puts = 0

-----------------------------------------------------------------------------
(* put(): never awaits, so it is one step of its caller.                   *)

PutAccepted ==
    /\ puts < MaxPuts
    /\ ~shutdown
    /\ Len(queue) < MaxQueueSize
    /\ puts' = puts + 1
    /\ queue' = Append(queue, puts')
    /\ accepted' = Append(accepted, puts')
    /\ UNCHANGED <<shutdown, runVars, procVars, stop, metrics>>

PutRejected ==
    /\ puts < MaxPuts
    /\ shutdown \/ Len(queue) >= MaxQueueSize
    /\ puts' = puts + 1
    /\ metrics' = [metrics EXCEPT !.rejected = @ + 1]
    /\ UNCHANGED <<queue, shutdown, runVars, procVars, stop, accepted>>

Start ==
    /\ ~shutdown
    /\ task = "none"
    /\ task' = "alive"
    /\ pc' = "created"
    /\ UNCHANGED <<queue, shutdown, batch, getter, taken, inFlight, procVars,
                   putVars, stop, metrics>>

-----------------------------------------------------------------------------
(* The run loop.  The operators with parameters are the stretches of run()  *)
(* between two awaits, with the values `batches` and `pending` have there.  *)

(* The test of _flush_all's loop.                                            *)
NothingLeft == queue = <<>>

(* _flush_all: the next batch is collected without waiting and processed    *)
(* inside the run task; an empty queue ends run().                          *)
Flush(bs, p) ==
    /\ batch' = <<>> /\ getter' = "none" /\ taken' = <<>> /\ inFlight' = 0
    /\ \/ /\ NothingLeft
          /\ pc' = "done" /\ task' = "finished"
          /\ batches' = bs /\ pending' = p
          /\ UNCHANGED <<queue, handed>>
       \/ /\ ~NothingLeft
          /\ LET n == SmallerOf(MaxBatchSize, Len(queue))
                 b == SubSeq(queue, 1, n)
             IN  /\ batches' = Append(bs, [items |-> b, st |-> "callback"])
                 /\ handed' = handed \o b
                 /\ queue' = SubSeq(queue, n + 1, Len(queue))
                 /\ pending' = p + n
          /\ pc' = "flush"
          /\ UNCHANGED task

(* `if in_flight is not None` after the loop.                                  *)
MustDrain(f) == f # 0

(* The test of `while not self._shutdown.is_set()`, with f in flight: wait   *)
(* for another batch, or await the in-flight one, or flush at once.         *)
LoopHead(bs, f, p) ==
    \/ /\ ~shutdown
       /\ pc' = "wait" /\ getter' = "pending"
       /\ batch' = <<>> /\ taken' = <<>> /\ inFlight' = f
       /\ batches' = bs /\ pending' = p
       /\ UNCHANGED <<queue, task, handed>>
    \/ /\ shutdown /\ MustDrain(f)
       /\ pc' = "drain" /\ getter' = "none"
       /\ batch' = <<>> /\ taken' = <<>> /\ inFlight' = f
       /\ batches' = bs /\ pending' = p
       /\ UNCHANGED <<queue, task, handed>>
    \/ /\ shutdown /\ ~MustDrain(f)
       /\ Flush(bs, p)

(* `if batch: in_flight = create_task(self._process(batch))`.               *)
Launch(b, p) ==
    \/ b = <<>> /\ LoopHead(batches, 0, p)
    \/ /\ b # <<>>
       /\ LoopHead(Append(batches, [items |-> b, st |-> Created]),
                   Len(batches) + 1, p)

(* Mutant of InFlightDone: the next batch is started at once.               *)
InFlightIgnored == TRUE

InFlightDone == inFlight # 0 => ~Live(batches[inFlight])

(* _wait_for_batch returns b: the batch in flight is awaited first.         *)
Collected(b, p) ==
    \/ InFlightDone /\ Launch(b, p)
    \/ /\ ~InFlightDone
       /\ pc' = "join" /\ batch' = b /\ pending' = p
       /\ getter' = "none" /\ taken' = <<>>
       /\ UNCHANGED <<queue, task, inFlight, batches, handed>>

RunBegins ==
    /\ pc = "created"
    /\ LoopHead(batches, 0, pending)
    /\ UNCHANGED <<shutdown, putVars, stop, metrics>>

GetterTakes ==
    /\ getter = "pending"
    /\ queue # <<>>
    /\ getter' = "done"
    /\ taken' = <<Head(queue)>>
    /\ queue' = Tail(queue)
    /\ UNCHANGED <<shutdown, task, pc, batch, inFlight, procVars, putVars, stop,
                   metrics>>

(* `if getter in done`.  Mutant: the item of a getter that is done is not     *)
(* looked at once the shutdown is.                                          *)
GetterIgnoredOnShutdown == getter = "done" /\ ~shutdown

GetterHasItem == getter = "done"

(* The wait returns with the getter done: its item is kept whatever else    *)
(* happened; the loop goes on unless the batch is full or the delay is over. *)
WaitItem ==
    /\ pc = "wait"
    /\ GetterHasItem
    /\ LET b == batch \o taken
       IN  \/ /\ Len(b) < MaxBatchSize
              /\ batch' = b /\ pending' = pending + 1
              /\ getter' = "pending" /\ taken' = <<>>
              /\ UNCHANGED <<queue, task, pc, inFlight, batches, handed>>
           \/ Collected(b, pending + 1)
    /\ UNCHANGED <<shutdown, putVars, stop, metrics>>

(* Whether the delay or the shutdown ends the batch.  Mutant: the delay does   *)
(* not end a batch that is only partial.                                     *)
WaitMayEndUnlessPartial == shutdown \/ batch = <<>>

WaitMayEnd == TRUE

(* The wait returns without an item, on the collection delay (which may     *)
(* elapse at any time) or on shutdown: the getter is cancelled.             *)
WaitNothing ==
    /\ pc = "wait"
    /\ ~GetterHasItem
    /\ WaitMayEnd
    /\ Collected(batch, pending)
    /\ UNCHANGED <<shutdown, putVars, stop, metrics>>

Join ==
    /\ pc = "join"
    /\ InFlightDone
    /\ Launch(batch, pending)
    /\ UNCHANGED <<shutdown, putVars, stop, metrics>>

Drained ==
    /\ pc = "drain"
    /\ InFlightDone
    /\ Flush(batches, pending)
    /\ UNCHANGED <<shutdown, putVars, stop, metrics>>

-----------------------------------------------------------------------------
(* _process, in the in-flight task or, while flushing, in the run task.     *)

Unwinding == pc = "unwind"

InFlightBegins ==
    \E i \in DOMAIN batches :
        /\ batches[i].st = Created
        /\ ~Unwinding
        /\ batches' = [batches EXCEPT ![i].st = "callback"]
        /\ handed' = handed \o batches[i].items
        /\ UNCHANGED <<queue, shutdown, runVars, pending, putVars, stop, metrics>>

(* _process returns: the batch no longer counts as pending, and a run loop  *)
(* that was flushing goes on to the next batch.                             *)
Return(i, st) ==
    LET bs == [batches EXCEPT ![i].st = st]
        p  == pending - Len(batches[i].items)
    IN  \/ /\ pc = "flush"
           /\ Flush(bs, p)
        \/ /\ pc # "flush"
           /\ batches' = bs /\ pending' = p
           /\ UNCHANGED <<queue, runVars, handed>>

CallbackReturns ==
    \E i \in DOMAIN batches :
        /\ batches[i].st = "callback"
        /\ ~Unwinding
        /\ metrics' = [metrics EXCEPT !.processed = @ + Len(batches[i].items)]
        /\ Return(i, "ok")
        /\ UNCHANGED <<shutdown, putVars, stop>>

CallbackRaises ==
    \E i \in DOMAIN batches :
        /\ batches[i].st = "callback"
        /\ ~Unwinding
        /\ metrics' = [metrics EXCEPT !.failed = @ + Len(batches[i].items)]
        /\ IF HasErrorCallback
           THEN /\ batches' = [batches EXCEPT ![i].st = "on_error"]
                /\ UNCHANGED <<queue, runVars, pending, handed>>
           ELSE Return(i, "error")
        /\ UNCHANGED <<shutdown, putVars, stop>>

ErrorCallbackEnds ==
    \E i \in DOMAIN batches :
        /\ batches[i].st = "on_error"
        /\ ~Unwinding
        /\ \/ metrics' = [metrics EXCEPT !.rescued = @ + Len(batches[i].items)]
           \/ metrics' = [metrics EXCEPT !.unrescued = @ + Len(batches[i].items)]
        /\ Return(i, "error")
        /\ UNCHANGED <<shutdown, putVars, stop>>

-----------------------------------------------------------------------------
(* stop() and the cancellation of the run task.                             *)

SomeLive == \E i \in DOMAIN batches : Live(batches[i])

(* `if in_flight is not None` in run()'s finally.  Mutant: nothing is waited for. *)
NothingToCancel == FALSE

MustUnwind == SomeLive

(* run_task.cancel(): CancelledError at the current await.  A live batch is  *)
(* cancelled too and awaited before run() ends; the locals `batch` and the  *)
(* result of a getter that is done are gone with the coroutine (their values *)
(* stay in the variables, as history).                                      *)
CancelRun ==
    /\ getter' = "none"
    /\ \/ /\ task = "alive" /\ MustUnwind
          /\ pc' = "unwind"
          /\ UNCHANGED task
       \/ /\ task = "alive" /\ ~MustUnwind
          /\ pc' = "done" /\ task' = "cancelled"
       \/ /\ task # "alive"
          /\ UNCHANGED <<pc, task>>
    /\ UNCHANGED <<batch, taken, inFlight>>

(* The cancelled batch has ended, and with it run().                        *)
Unwind ==
    /\ Unwinding
    /\ batches' = [i \in DOMAIN batches |->
                     IF Live(batches[i]) THEN [batches[i] EXCEPT !.st = "cancelled"]
                                         ELSE batches[i]]
    /\ pc' = "done" /\ task' = "cancelled"
    /\ UNCHANGED <<queue, shutdown, batch, getter, taken, inFlight, pending,
                   handed, putVars, stop, metrics>>

StopGraceful(s) ==
    /\ stop[s] = "idle"
    /\ shutdown' = TRUE
    /\ stop' = [stop EXCEPT ![s] = IF task = "alive" THEN "waiting" ELSE "returned"]
    /\ UNCHANGED <<queue, runVars, procVars, putVars, metrics>>

StopForce(s) ==
    /\ stop[s] = "idle"
    /\ shutdown' = TRUE
    /\ stop' = [stop EXCEPT ![s] = IF task = "alive" THEN "forcing" ELSE "returned"]
    /\ CancelRun
    /\ UNCHANGED <<queue, procVars, putVars, metrics>>

(* Mutant of StopExpires: run() is shielded from the deadline.               *)
StopExpiresShielded(s) ==
    /\ stop[s] = "waiting"
    /\ stop' = [stop EXCEPT ![s] = "expired"]
    /\ UNCHANGED <<queue, shutdown, runVars, procVars, putVars, metrics>>

(* The deadline of asyncio.wait_for passes, at any time: it cancels run().   *)
StopExpires(s) ==
    /\ stop[s] = "waiting"
    /\ stop' = [stop EXCEPT ![s] = "expired"]
    /\ CancelRun
    /\ UNCHANGED <<queue, shutdown, procVars, putVars, metrics>>

(* Mutant of StopEnds: the drop counts the queue and not the pending items.   *)
StopEndsQueueOnly(s) ==
    /\ task \in {"finished", "cancelled"}
    /\ stop[s] \in {"forcing", "waiting", "expired"}
    /\ stop' = [stop EXCEPT ![s] = IF @ = "expired" THEN "timed_out" ELSE "returned"]
    /\ metrics' = [metrics EXCEPT !.dropped =
                     IF stop[s] = "expired" THEN @ + Len(queue) ELSE @]
    /\ UNCHANGED <<queue, shutdown, runVars, procVars, putVars>>

(* The run task has ended: a graceful stop returns, raises TimeoutError      *)
(* (and records the drop), or raises the CancelledError of another stop().   *)
StopEnds(s) ==
    /\ task \in {"finished", "cancelled"}
    /\ \/ /\ stop[s] = "forcing" \/ (stop[s] = "waiting" /\ task = "finished")
          /\ stop' = [stop EXCEPT ![s] = "returned"]
          /\ UNCHANGED metrics
       \/ /\ stop[s] = "waiting" /\ task = "cancelled"
          /\ stop' = [stop EXCEPT ![s] = "interrupted"]
          /\ UNCHANGED metrics
       \/ /\ stop[s] = "expired"
          /\ stop' = [stop EXCEPT ![s] = "timed_out"]
          /\ metrics' = [metrics EXCEPT !.dropped = @ + Len(queue) + pending]
    /\ UNCHANGED <<queue, shutdown, runVars, procVars, putVars>>

-----------------------------------------------------------------------------
RunStep == \/ RunBegins \/ WaitItem \/ WaitNothing \/ Join \/ Drained \/ Unwind

CallbackEnds == CallbackReturns \/ CallbackRaises \/ ErrorCallbackEnds

Next ==
    \/ PutAccepted \/ PutRejected \/ Start
    \/ RunStep \/ GetterTakes \/ InFlightBegins \/ CallbackEnds
    \/ \E s \in Stoppers : StopGraceful(s) \/ StopForce(s) \/ StopExpires(s) \/ StopEnds(s)

Spec == Init /\ [][Next]_vars

(* The event loop steps every ready task, timers fire; nobody has to call    *)
(* put, start or stop, and on_batch and on_error may hang.                   *)
Scheduling ==
    /\ WF_vars(RunStep) /\ WF_vars(GetterTakes) /\ WF_vars(InFlightBegins)
    /\ \A s \in Stoppers : WF_vars(StopExpires(s)) /\ WF_vars(StopEnds(s))

FairSpec == Spec /\ Scheduling

(* The callbacks return too: the docstring leaves hung ones to the caller.   *)
CallbacksReturn == WF_vars(CallbackEnds)

-----------------------------------------------------------------------------
TypeOK ==
    /\ queue \in Seq(1..MaxPuts)
    /\ shutdown \in BOOLEAN
    /\ task \in {"none", "alive", "finished", "cancelled"}
    /\ pc \in {"none", "created", "wait", "join", "drain", "flush", "unwind", "done"}
    /\ batch \in Seq(1..MaxPuts)
    /\ getter \in {"none", "pending", "done"}
    /\ taken \in Seq(1..MaxPuts)
    /\ batches \in Seq(Batch)
    /\ inFlight \in 0..Len(batches)
    /\ pending \in Nat
    /\ stop \in [Stoppers -> {"idle", "waiting", "forcing", "expired", "returned",
                              "timed_out", "interrupted"}]
    /\ metrics \in Metrics
    /\ accepted \in Seq(1..MaxPuts)
    /\ handed \in Seq(1..MaxPuts)
    /\ puts \in 0..MaxPuts

(* The shape of the reachable states: which await of run() goes with which    *)
(* task state and what its locals hold there ...                            *)
RunShape ==
    /\ task = "none" <=> pc = "none"
    /\ task \in {"finished", "cancelled"} <=> pc = "done"
    /\ pc = "wait" <=> getter # "none"
    /\ getter = "pending" => taken = <<>>
    /\ getter = "done" => Len(taken) = 1
    /\ pc \in {"none", "created", "join", "drain", "flush"} => taken = <<>>
    /\ pc \in {"none", "created", "drain", "flush"} => batch = <<>>
    /\ task = "finished" => batch = <<>> /\ taken = <<>> /\ queue = <<>>
    /\ Len(taken) <= 1 /\ Len(batch) <= MaxBatchSize /\ Len(queue) <= MaxQueueSize
    /\ Len(batch) + Len(taken) <= MaxBatchSize
    /\ pc = "wait" => Len(batch) < MaxBatchSize
    /\ pc \in {"drain", "flush"} \/ task = "finished" => shutdown

(* ... and which batch can be live there.                                    *)
BatchesShape ==
    /\ \A i \in DOMAIN batches : Live(batches[i]) =>
          /\ i = Len(batches)
          /\ pc \in {"wait", "join", "drain", "flush", "unwind"}
          /\ pc \in {"wait", "join", "drain"} => i = inFlight
          /\ pc = "flush" => batches[i].st \in Running
          /\ batches[i].st = "on_error" => HasErrorCallback
    /\ \A i \in DOMAIN batches : batches[i].st = "cancelled" => task = "cancelled"
    /\ pc = "flush" => batches # <<>> /\ Live(batches[Len(batches)])
    /\ \A i \in DOMAIN batches : Len(batches[i].items) \in 1..MaxBatchSize

(* _pending_item_count is what was read off the queue and not processed: the  *)
(* batch being collected and the last batch, unless _process returned.       *)
LastUnsettled ==
    IF batches # <<>> /\ batches[Len(batches)].st \notin Settled
    THEN Len(batches[Len(batches)].items)
    ELSE 0

PendingExact == pending = Len(batch) + LastUnsettled

(* Batches are processed serially (run, 369-371): on_batch or on_error of     *)
(* one batch is never running while another batch has not ended.            *)
Serial ==
    \A i, j \in DOMAIN batches :
        batches[i].st \in Running /\ Live(batches[j]) => i = j

(* Nothing outlives the batcher (run, 395-402): once the run task has ended,  *)
(* however it ended, no callback is running and none will start.            *)
NoOutlive == task \in {"finished", "cancelled"} => ~SomeLive

(* The counters balance (the metrics of the docstring, 100-121): each accepted*)
(* item is counted as settled, or is still pending, queued or in the getter. *)
SettledCount ==
    metrics.processed + (IF HasErrorCallback THEN metrics.rescued + metrics.unrescued
                                             ELSE metrics.failed)

Held == Len(queue) + pending + Len(taken)

Balance == Len(accepted) = SettledCount + Held

(* The conjunction that is inductive.                                        *)
IndInv == TypeOK /\ RunShape /\ BatchesShape /\ PendingExact /\ Balance

(* The drop a graceful stop() records on its deadline misses at most the one  *)
(* item a getter had just taken (stop, 445-454), if one stop() timed out:    *)
(* each of several records it.                                              *)
DroppedWithinOne ==
    \A s \in Stoppers :
        stop[s] = "timed_out" /\ (\A t \in Stoppers \ {s} : stop[t] # "timed_out") =>
            Len(accepted) - (SettledCount + metrics.dropped) \in 0..1

(* max_queue_size bounds the memory (put, 189-193): the items accepted and    *)
(* not settled are at most a full queue, the batch being collected and the   *)
(* batch being processed.                                                   *)
BoundedBacklog ==
    Len(accepted) - SettledCount <= MaxQueueSize + 2 * MaxBatchSize

(* stop() always comes back, hung callbacks included (stop, 440-444).        *)
StopReturns ==
    \A s \in Stoppers :
        stop[s] # "idle" ~> stop[s] \in {"returned", "timed_out", "interrupted"}

(* An accepted item of a started queue reaches on_batch, unless run() is     *)
(* cancelled, when the callbacks return (run, 381-393).                      *)
HandedOver ==
    CallbacksReturn => \A n \in 1..MaxPuts :
        (task = "alive" /\ Len(accepted) >= n) ~> (Len(handed) >= n \/ task = "cancelled")
=============================================================================
