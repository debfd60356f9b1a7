------------------------- MODULE AsyncBatchQueueProofs -------------------------
(***************************************************************************)
(* Proofs about AsyncBatchQueue, for every batch size, queue size, number   *)
(* of put() calls and set of stop() calls.                                  *)
(***************************************************************************)
EXTENDS MCAsyncBatchQueue, SequenceTheorems, TLAPS

(* A part of a sequence is a sequence over the same set.                      *)
LEMMA SubSeqType ==
  ASSUME NEW S, NEW s \in Seq(S), NEW m \in 1..(Len(s) + 1), NEW n \in (m - 1)..Len(s)
  PROVE  SubSeq(s, m, n) \in Seq(S) /\ Len(SubSeq(s, m, n)) = n - m + 1
<1>1. m \in Int /\ n \in Int /\ \A i \in m..n : s[i] \in S
  OBVIOUS
<1> QED BY <1>1, SubSeqProperties

(* TypeOK in two parts: what the run loop writes, and the rest.              *)
RunTypeOK ==
    /\ queue \in Seq(1..MaxPuts)
    /\ task \in {"none", "alive", "finished", "cancelled"}
    /\ pc \in {"none", "created", "wait", "join", "drain", "flush", "unwind", "done"}
    /\ batch \in Seq(1..MaxPuts)
    /\ getter \in {"none", "pending", "done"}
    /\ taken \in Seq(1..MaxPuts)
    /\ batches \in Seq(Batch)
    /\ inFlight \in 0..Len(batches)
    /\ pending \in Nat
    /\ handed \in Seq(1..MaxPuts)

OtherTypeOK ==
    /\ shutdown \in BOOLEAN
    /\ stop \in [Stoppers -> {"idle", "waiting", "forcing", "expired", "returned",
                              "timed_out", "interrupted"}]
    /\ metrics \in Metrics
    /\ accepted \in Seq(1..MaxPuts)
    /\ puts \in 0..MaxPuts

(* TypeOK, divided into what run() writes and the rest.                       *)
LEMMA TypeSplit == TypeOK <=> RunTypeOK /\ OtherTypeOK
  BY DEF TypeOK, RunTypeOK, OtherTypeOK

RunInv == RunTypeOK /\ RunShape /\ BatchesShape /\ PendingExact

(* What the parameter bs of the stretches of run() is: no batch is live,     *)
(* none was cancelled, and none is empty or too large.                      *)
Quiet(bs) ==
    /\ bs \in Seq(Batch)
    /\ \A i \in DOMAIN bs : /\ bs[i].st \in Settled
                            /\ Len(bs[i].items) \in 1..MaxBatchSize

(* ... or f is its last element, just created.                              *)
LaunchedIn(bs, f) ==
    /\ bs \in Seq(Batch)
    /\ f = Len(bs) /\ f > 0
    /\ \A i \in DOMAIN bs : /\ i # f => bs[i].st \in Settled
                            /\ Len(bs[i].items) \in 1..MaxBatchSize
    /\ bs[f].st = Created

-----------------------------------------------------------------------------
(* _flush_all hands over one more batch, or run() comes to its end.           *)
LEMMA FlushInv ==
  ASSUME SizesAssumption, RunTypeOK, Len(queue) <= MaxQueueSize, task = "alive",
         shutdown, shutdown' = shutdown,
         NEW bs, Quiet(bs), Flush(bs, 0)
  PROVE  RunInv' /\ Len(queue') + pending' + Len(taken') = Len(queue)
<1> USE DEF Quiet, Status, Settled, Running, Created, Live
<1>1. CASE queue = <<>>
  <2>1. /\ batch' = <<>> /\ getter' = "none" /\ taken' = <<>> /\ inFlight' = 0
        /\ pc' = "done" /\ task' = "finished" /\ batches' = bs /\ pending' = 0
        /\ queue' = queue /\ handed' = handed
    BY <1>1 DEF Flush, NothingLeft
  <2>2. RunTypeOK'
    BY <2>1 DEF RunTypeOK
  <2>3. RunShape' /\ BatchesShape'
    BY <1>1, <2>1 DEF RunShape, BatchesShape, SizesAssumption
  <2>4. PendingExact'
    BY <2>1 DEF PendingExact, LastUnsettled
  <2> QED BY <1>1, <2>1, <2>2, <2>3, <2>4 DEF RunInv
<1>2. CASE queue # <<>>
  <2> DEFINE n == SmallerOf(MaxBatchSize, Len(queue))
             b == SubSeq(queue, 1, n)
  <2>1. /\ n \in 1..MaxBatchSize /\ n <= Len(queue)
    BY <1>2 DEF RunTypeOK, SizesAssumption, SmallerOf
  <2>2. b \in Seq(1..MaxPuts) /\ Len(b) = n
    BY <2>1 DEF RunTypeOK, SizesAssumption
  <2>3. /\ SubSeq(queue, n + 1, Len(queue)) \in Seq(1..MaxPuts)
        /\ Len(SubSeq(queue, n + 1, Len(queue))) = Len(queue) - n
    <3>1. n + 1 \in 1..(Len(queue) + 1) /\ Len(queue) \in ((n + 1) - 1)..Len(queue)
      BY <2>1 DEF RunTypeOK
    <3>2. queue \in Seq(1..MaxPuts) /\ Len(queue) - (n + 1) + 1 = Len(queue) - n
      BY <2>1 DEF RunTypeOK
    <3> HIDE DEF n
    <3> QED BY <3>1, <3>2, SubSeqType
  <2>4. /\ batch' = <<>> /\ getter' = "none" /\ taken' = <<>> /\ inFlight' = 0
        /\ pc' = "flush" /\ task' = task
        /\ batches' = Append(bs, [items |-> b, st |-> "callback"])
        /\ handed' = handed \o b
        /\ queue' = SubSeq(queue, n + 1, Len(queue)) /\ pending' = 0 + n
    BY <1>2 DEF Flush, NothingLeft
  <2> HIDE DEF n, b
  <2>5. [items |-> b, st |-> "callback"] \in Batch
    BY <2>2 DEF Batch
  <2>6. /\ batches' \in Seq(Batch) /\ Len(batches') = Len(bs) + 1
        /\ batches'[Len(batches')] = [items |-> b, st |-> "callback"]
        /\ \A i \in DOMAIN batches' : i # Len(batches') =>
              i \in DOMAIN bs /\ batches'[i] = bs[i]
    BY <2>4, <2>5, AppendProperties
  <2>7. RunTypeOK'
    <3>1. pending' \in Nat /\ handed' \in Seq(1..MaxPuts)
      BY <2>1, <2>2, <2>4 DEF RunTypeOK
    <3>2. queue' \in Seq(1..MaxPuts)
      BY <2>3, <2>4
    <3>3. inFlight' \in 0..Len(batches')
      BY <2>4, <2>6
    <3>4. batch' \in Seq(1..MaxPuts) /\ taken' \in Seq(1..MaxPuts)
      BY <2>4
    <3> QED BY <2>4, <2>6, <3>1, <3>2, <3>3, <3>4 DEF RunTypeOK
  <2>8. /\ Len(batches') \in DOMAIN batches' /\ batches' # <<>>
        /\ batches'[Len(batches')].st = "callback"
        /\ Len(batches'[Len(batches')].items) = n
        /\ \A i \in DOMAIN batches' :
              /\ i # Len(batches') => batches'[i].st \in Settled
              /\ Len(batches'[i].items) \in 1..MaxBatchSize
    BY <2>1, <2>2, <2>6
  <2>9. RunShape'
    <3>1. Len(queue') <= MaxQueueSize
      BY <2>1, <2>3, <2>4 DEF RunTypeOK, SizesAssumption
    <3>2. /\ task' = "alive" /\ pc' = "flush" /\ getter' = "none"
          /\ taken' = <<>> /\ batch' = <<>> /\ shutdown'
      BY <2>4
    <3> QED BY <3>1, <3>2 DEF RunShape, SizesAssumption
  <2>10. BatchesShape'
    <3>1. pc' = "flush"
      BY <2>4
    <3> QED BY <2>8, <3>1 DEF BatchesShape
  <2>11. PendingExact'
    BY <2>1, <2>2, <2>4, <2>8 DEF PendingExact, LastUnsettled
  <2> QED BY <2>1, <2>3, <2>4, <2>7, <2>9, <2>10, <2>11 DEF RunInv, RunTypeOK
<1> QED BY <1>1, <1>2

(* The head of run()'s loop: wait, or leave the loop.                         *)
LEMMA LoopHeadInv ==
  ASSUME SizesAssumption, RunTypeOK, Len(queue) <= MaxQueueSize, task = "alive",
         shutdown \in BOOLEAN, shutdown' = shutdown,
         NEW bs, NEW f, NEW p,
         \/ Quiet(bs) /\ f = 0 /\ p = 0
         \/ LaunchedIn(bs, f) /\ p = Len(bs[f].items),
         LoopHead(bs, f, p)
  PROVE  RunInv' /\ Len(queue') + pending' + Len(taken') = Len(queue) + p
<1> USE DEF Quiet, LaunchedIn, Status, Settled, Running, Created, Live
<1>1. CASE shutdown /\ f = 0
  <2>1. Quiet(bs) /\ p = 0 /\ Flush(bs, 0)
    BY <1>1 DEF LoopHead, MustDrain
  <2> QED BY <1>1, <2>1, FlushInv DEF RunTypeOK
<1>2. CASE ~(shutdown /\ f = 0)
  <2>1. /\ batch' = <<>> /\ taken' = <<>> /\ inFlight' = f
        /\ batches' = bs /\ pending' = p
        /\ queue' = queue /\ task' = task /\ handed' = handed
        /\ \/ pc' = "wait" /\ getter' = "pending"
           \/ pc' = "drain" /\ getter' = "none" /\ shutdown /\ f # 0
    BY <1>2 DEF LoopHead, MustDrain
  <2>2. RunTypeOK'
    BY <2>1 DEF RunTypeOK, Batch
  <2>3. RunShape' /\ BatchesShape'
    BY <2>1 DEF RunShape, BatchesShape, SizesAssumption
  <2>4. PendingExact'
    BY <2>1 DEF PendingExact, LastUnsettled
  <2> QED BY <2>1, <2>2, <2>3, <2>4 DEF RunInv, RunTypeOK
<1> QED BY <1>1, <1>2

(* While run() awaits a batch that is done, every batch is settled.          *)
LEMMA DoneIsQuiet ==
  ASSUME RunInv, pc \in {"wait", "join", "drain"}, InFlightDone
  PROVE  Quiet(batches) /\ LastUnsettled = 0 /\ task = "alive"
<1>1. task = "alive"
  BY DEF RunInv, RunShape, RunTypeOK
<1>2. \A i \in DOMAIN batches : ~Live(batches[i])
  BY DEF RunInv, BatchesShape, InFlightDone
<1>3. \A i \in DOMAIN batches : batches[i] \in Batch /\ batches[i].st # "cancelled"
  BY <1>1 DEF RunInv, RunTypeOK, BatchesShape
<1>4. Quiet(batches)
  BY <1>2, <1>3 DEF Quiet, RunInv, RunTypeOK, BatchesShape, Batch, Status, Live,
                    Created, Running, Settled
<1>5. LastUnsettled = 0
  BY <1>4 DEF Quiet, LastUnsettled
<1> QED BY <1>1, <1>4, <1>5

(* A collected batch becomes the one in flight.                               *)
LEMMA LaunchInv ==
  ASSUME SizesAssumption, RunTypeOK, Len(queue) <= MaxQueueSize, task = "alive",
         shutdown \in BOOLEAN, shutdown' = shutdown, Quiet(batches),
         NEW b \in Seq(1..MaxPuts), Len(b) <= MaxBatchSize,
         Launch(b, Len(b))
  PROVE  RunInv' /\ Len(queue') + pending' + Len(taken') = Len(queue) + Len(b)
<1>1. CASE b = <<>>
  <2>1. LoopHead(batches, 0, 0) /\ Len(b) = 0
    BY <1>1 DEF Launch
  <2> QED BY <2>1, LoopHeadInv
<1>2. CASE b # <<>>
  <2> DEFINE new == [items |-> b, st |-> Created]
             bs == Append(batches, new)
             f == Len(batches) + 1
  <2>1. LoopHead(bs, f, Len(b))
    BY <1>2 DEF Launch
  <2>2. new \in Batch /\ new.st = Created /\ new.items = b /\ Len(b) \in 1..MaxBatchSize
    BY <1>2 DEF Batch, Status, Created, SizesAssumption
  <2> HIDE DEF new
  <2>3. /\ bs \in Seq(Batch) /\ Len(bs) = f /\ bs[f] = new /\ f > 0
        /\ \A i \in DOMAIN bs : i # f => i \in DOMAIN batches /\ bs[i] = batches[i]
    BY <2>2, AppendProperties DEF RunTypeOK
  <2> HIDE DEF bs, f
  <2>4. LaunchedIn(bs, f) /\ Len(b) = Len(bs[f].items)
    BY <2>2, <2>3 DEF LaunchedIn, Quiet
  <2> QED BY <2>1, <2>4, LoopHeadInv
<1> QED BY <1>1, <1>2

(* What run() does with what the wait gave it.                                *)
LEMMA CollectedInv ==
  ASSUME SizesAssumption, RunInv, pc = "wait",
         shutdown \in BOOLEAN, shutdown' = shutdown,
         NEW b \in Seq(1..MaxPuts), Len(b) <= MaxBatchSize,
         Collected(b, Len(b) + LastUnsettled)
  PROVE  /\ RunInv'
         /\ Len(queue') + pending' + Len(taken') = Len(queue) + Len(b) + LastUnsettled
<1>1. CASE InFlightDone
  <2>1. Quiet(batches) /\ LastUnsettled = 0 /\ task = "alive"
    BY <1>1, DoneIsQuiet
  <2>2. Launch(b, Len(b))
    BY <1>1, <2>1 DEF Collected
  <2> QED BY <2>1, <2>2, LaunchInv DEF RunInv, RunTypeOK, RunShape
<1>2. CASE ~InFlightDone
  <2>1. /\ pc' = "join" /\ batch' = b /\ pending' = Len(b) + LastUnsettled
        /\ getter' = "none" /\ taken' = <<>> /\ queue' = queue /\ task' = task
        /\ inFlight' = inFlight /\ batches' = batches /\ handed' = handed
    BY <1>2 DEF Collected
  <2>2. LastUnsettled \in Nat
    BY DEF LastUnsettled, RunInv, RunTypeOK, BatchesShape
  <2>3. RunTypeOK'
    BY <2>1, <2>2 DEF RunInv, RunTypeOK
  <2>4. RunShape'
    BY <2>1 DEF RunInv, RunShape
  <2>5. BatchesShape'
    BY <2>1 DEF RunInv, BatchesShape, Live
  <2>6. PendingExact'
    BY <2>1 DEF PendingExact, LastUnsettled
  <2> QED BY <2>1, <2>2, <2>3, <2>4, <2>5, <2>6 DEF RunInv, RunTypeOK
<1> QED BY <1>1, <1>2

(* The batch on which a callback runs is the last, and the only live one.      *)
LEMMA ReturnQuiet ==
  ASSUME RunInv, NEW i \in DOMAIN batches, batches[i].st \in Running, ~Unwinding,
         NEW st \in Settled
  PROVE  /\ i = Len(batches) /\ Live(batches[i]) /\ task = "alive"
         /\ pc \in {"wait", "join", "drain", "flush"}
         /\ Quiet([batches EXCEPT ![i].st = st])
         /\ Len([batches EXCEPT ![i].st = st]) = Len(batches)
<1> DEFINE bs == [batches EXCEPT ![i].st = st]
<1>1. /\ i = Len(batches) /\ Live(batches[i]) /\ task = "alive"
      /\ pc \in {"wait", "join", "drain", "flush"}
  BY DEF RunInv, RunTypeOK, RunShape, BatchesShape, Live, Unwinding
<1>2. \A j \in DOMAIN batches : /\ batches[j] \in Batch
                                /\ j # i => batches[j].st \in Settled
                                /\ Len(batches[j].items) \in 1..MaxBatchSize
  <2>1. \A j \in DOMAIN batches : /\ batches[j] \in Batch
                                  /\ j # i => ~Live(batches[j])
                                  /\ batches[j].st # "cancelled"
                                  /\ Len(batches[j].items) \in 1..MaxBatchSize
    BY <1>1 DEF RunInv, RunTypeOK, BatchesShape
  <2> QED BY <2>1 DEF Batch, Status, Live, Created, Running, Settled
<1>3. bs \in Seq(Batch) /\ DOMAIN bs = DOMAIN batches /\ Len(bs) = Len(batches)
  <2>1. [batches[i] EXCEPT !.st = st] \in Batch
    BY <1>2 DEF Batch, Status
  <2> QED BY <2>1, ExceptSeq DEF RunInv, RunTypeOK
<1>4. \A j \in DOMAIN batches : bs[j].items = batches[j].items /\ bs[j].st \in Settled
  BY <1>2, <1>3 DEF Batch
<1> HIDE DEF bs
<1>5. Quiet(bs)
  BY <1>2, <1>3, <1>4 DEF Quiet
<1> QED BY <1>1, <1>3, <1>5 DEF bs

(* _process of batch i returns, in the in-flight task or while flushing.     *)
LEMMA ReturnInv ==
  ASSUME SizesAssumption, RunInv, shutdown \in BOOLEAN, shutdown' = shutdown,
         NEW i \in DOMAIN batches, batches[i].st \in Running, ~Unwinding,
         NEW st \in Settled, Return(i, st)
  PROVE  /\ RunInv'
         /\ Len(queue') + pending' + Len(taken') + Len(batches[i].items)
              = Len(queue) + pending + Len(taken)
<1> DEFINE bs == [batches EXCEPT ![i].st = st]
           p  == pending - Len(batches[i].items)
           k  == Len(batches[i].items)
<1>1. /\ i = Len(batches) /\ Live(batches[i]) /\ task = "alive"
      /\ pc \in {"wait", "join", "drain", "flush"}
      /\ Quiet(bs) /\ Len(bs) = Len(batches)
  BY ReturnQuiet
<1>2. /\ LastUnsettled = Len(batches[i].items)
      /\ pending = Len(batch) + LastUnsettled
      /\ Len(batches[i].items) \in Nat
  BY <1>1 DEF LastUnsettled, RunInv, PendingExact, Running, Settled, BatchesShape
<1> HIDE DEF bs, k
<1>3. p = Len(batch)
  BY <1>2 DEF RunInv, RunTypeOK
<1>4. CASE pc = "flush"
  <2>1. p = 0 /\ taken = <<>>
    BY <1>3, <1>4 DEF RunInv, RunShape
  <2>2. Flush(bs, 0)
    BY <1>4, <2>1 DEF Return, bs
  <2>3. RunInv' /\ Len(queue') + pending' + Len(taken') = Len(queue)
    BY <1>1, <1>4, <2>2, FlushInv DEF RunInv, RunShape
  <2>4. pending = Len(batches[i].items) /\ Len(taken) = 0
    BY <1>2, <1>3, <2>1 DEF RunInv, RunTypeOK
  <2>5. /\ Len(queue') \in Nat /\ pending' \in Nat /\ Len(taken') \in Nat
        /\ Len(queue) \in Nat
    BY <2>3 DEF RunInv, RunTypeOK
  <2>6. pending = k /\ k \in Nat
    BY <1>2, <2>4 DEF k
  <2>7. Len(queue') + pending' + Len(taken') + k = Len(queue) + pending + Len(taken)
    BY <2>3, <2>4, <2>5, <2>6
  <2> QED BY <2>3, <2>7 DEF k
<1>5. CASE pc # "flush"
  <2>1. /\ batches' = bs /\ pending' = Len(batch) /\ queue' = queue /\ handed' = handed
        /\ task' = task /\ pc' = pc /\ batch' = batch /\ getter' = getter
        /\ taken' = taken /\ inFlight' = inFlight
    BY <1>3, <1>5 DEF Return, bs, runVars
  <2>2. RunTypeOK'
    BY <1>1, <2>1 DEF Quiet, RunInv, RunTypeOK
  <2>3. RunShape'
    BY <2>1 DEF RunInv, RunShape
  <2>4. BatchesShape'
    BY <1>5, <1>1, <2>1 DEF BatchesShape, Quiet, Live, Created, Running, Settled
  <2>5. PendingExact'
    BY <1>1, <2>1 DEF PendingExact, LastUnsettled, Quiet, RunInv, RunTypeOK
  <2>6. Len(queue) \in Nat /\ Len(taken) \in Nat /\ Len(batch) \in Nat
    BY DEF RunInv, RunTypeOK
  <2>7. RunInv'
    BY <2>2, <2>3, <2>4, <2>5 DEF RunInv
  <2>8. pending = Len(batch) + k /\ k \in Nat
    BY <1>2 DEF k
  <2>9. Len(queue') + pending' + Len(taken') + k = Len(queue) + pending + Len(taken)
    BY <2>1, <2>6, <2>8
  <2> QED BY <2>7, <2>9 DEF k
<1> QED BY <1>4, <1>5

(* Cancelling run() keeps its invariant.                                     *)
LEMMA CancelInv ==
  ASSUME RunInv, CancelRun, UNCHANGED <<queue, procVars>>, shutdown' \in {shutdown, TRUE}
  PROVE  RunInv' /\ taken' = taken
<1>1. /\ getter' = "none" /\ batch' = batch /\ taken' = taken /\ inFlight' = inFlight
      /\ queue' = queue /\ batches' = batches /\ pending' = pending /\ handed' = handed
      /\ \/ task = "alive" /\ SomeLive /\ pc' = "unwind" /\ task' = task
         \/ task = "alive" /\ ~SomeLive /\ pc' = "done" /\ task' = "cancelled"
         \/ task # "alive" /\ pc' = pc /\ task' = task
  BY DEF CancelRun, MustUnwind, procVars
<1>2. RunTypeOK'
  BY <1>1 DEF RunInv, RunTypeOK
<1>3. RunShape'
  BY <1>1 DEF RunInv, RunShape, RunTypeOK
<1>4. BatchesShape'
  BY <1>1 DEF RunInv, BatchesShape, SomeLive, Live
<1>5. PendingExact'
  BY <1>1 DEF RunInv, PendingExact, LastUnsettled
<1> QED BY <1>1, <1>2, <1>3, <1>4, <1>5 DEF RunInv

-----------------------------------------------------------------------------
(* The inductive invariant, divided the same way.                             *)
LEMMA IndInvSplit == IndInv <=> RunInv /\ OtherTypeOK /\ Balance
  BY TypeSplit DEF IndInv, RunInv

(* The same of the next state.                                                *)
LEMMA IndInvSplitPrime == IndInv' <=> RunInv' /\ OtherTypeOK' /\ Balance'
  BY DEF IndInv, RunInv, TypeOK, RunTypeOK, OtherTypeOK

(* What is held is a number, and so is what was settled.                     *)
LEMMA CountsType ==
  ASSUME RunTypeOK, OtherTypeOK
  PROVE  Held \in Nat /\ SettledCount \in Nat /\ Len(accepted) \in Nat
<1>1. Len(queue) \in Nat /\ pending \in Nat /\ Len(taken) \in Nat /\ Len(accepted) \in Nat
  BY DEF RunTypeOK, OtherTypeOK
<1>2. Held \in Nat
  BY <1>1 DEF Held
<1>3. SettledCount \in Nat
  BY DEF OtherTypeOK, Metrics, SettledCount
<1> QED BY <1>1, <1>2, <1>3

(* A step that moves items between the queue, the getter and the batches.    *)
LEMMA MoveKeepsBalance ==
  ASSUME Balance, UNCHANGED <<metrics, accepted>>, Held' = Held
  PROVE  Balance'
<1>1. SettledCount' = SettledCount
  BY DEF SettledCount
<1> QED BY <1>1 DEF Balance

(* The constructor establishes the invariant.                                 *)
LEMMA InitInv == ASSUME SizesAssumption, Init PROVE IndInv
<1>1. RunTypeOK
  BY DEF Init, RunTypeOK
<1>2. OtherTypeOK
  <2>1. metrics \in Metrics
    BY DEF Init, Metrics
  <2>2. accepted \in Seq(1..MaxPuts) /\ puts \in 0..MaxPuts /\ shutdown \in BOOLEAN
    <3>1. accepted = <<>> /\ puts = 0 /\ shutdown = FALSE
      BY DEF Init
    <3>2. 0 \in 0..MaxPuts
      BY DEF SizesAssumption
    <3>3. <<>> \in Seq(1..MaxPuts) /\ FALSE \in BOOLEAN
      BY EmptySeq
    <3> QED BY <3>1, <3>2, <3>3
  <2>3. stop \in [Stoppers -> {"idle", "waiting", "forcing", "expired", "returned",
                              "timed_out", "interrupted"}]
    BY DEF Init
  <2> QED BY <2>1, <2>2, <2>3 DEF OtherTypeOK
<1>3. RunShape /\ BatchesShape /\ PendingExact
  BY DEF Init, RunShape, BatchesShape, PendingExact, LastUnsettled, SizesAssumption
<1>4. Balance
  BY DEF Init, Balance, Held, SettledCount, SizesAssumption
<1> QED BY <1>1, <1>2, <1>3, <1>4, IndInvSplit DEF RunInv

(* put() adds one item or rejects it.                                         *)
LEMMA PutInv ==
  ASSUME SizesAssumption, IndInv, PutAccepted \/ PutRejected
  PROVE  IndInv'
<1>1. RunInv /\ OtherTypeOK /\ Balance
  BY IndInvSplit
<1>2. CASE PutAccepted
  <2>1. puts + 1 \in 1..MaxPuts /\ puts + 1 \in 0..MaxPuts
    BY <1>1, <1>2 DEF PutAccepted, OtherTypeOK, SizesAssumption
  <2>2. /\ queue' \in Seq(1..MaxPuts) /\ Len(queue') = Len(queue) + 1
        /\ accepted' \in Seq(1..MaxPuts) /\ Len(accepted') = Len(accepted) + 1
        /\ queue' # <<>>
    <3>1. queue' = Append(queue, puts + 1) /\ accepted' = Append(accepted, puts + 1)
      BY <1>2 DEF PutAccepted
    <3>2. queue \in Seq(1..MaxPuts) /\ accepted \in Seq(1..MaxPuts)
      BY <1>1 DEF RunInv, RunTypeOK, OtherTypeOK
    <3> QED BY <2>1, <3>1, <3>2, AppendProperties
  <2>3. /\ UNCHANGED <<shutdown, stop, metrics, task, pc, batch, getter, taken, inFlight,
                       batches, pending, handed>>
        /\ Len(queue) < MaxQueueSize /\ ~shutdown
    BY <1>2 DEF PutAccepted, runVars, procVars
  <2>4. RunTypeOK' /\ OtherTypeOK'
    BY <1>1, <1>2, <2>1, <2>2, <2>3 DEF PutAccepted, RunInv, RunTypeOK, OtherTypeOK
  <2>5. RunShape'
    BY <1>1, <2>2, <2>3 DEF RunInv, RunTypeOK, RunShape, SizesAssumption
  <2>6. BatchesShape' /\ PendingExact'
    BY <1>1, <2>3 DEF RunInv, BatchesShape, PendingExact, LastUnsettled, Live
  <2>7. Balance'
    <3>1. SettledCount' = SettledCount
      BY <2>3 DEF SettledCount
    <3>2. Len(queue) \in Nat /\ pending \in Nat /\ Len(taken) \in Nat
      BY <1>1 DEF RunInv, RunTypeOK
    <3>3. Held' = Held + 1
      BY <2>2, <2>3, <3>2 DEF Held
    <3>4. Held \in Nat /\ SettledCount \in Nat /\ Len(accepted) = SettledCount + Held
      BY <1>1, CountsType DEF RunInv, Balance
    <3> QED BY <2>2, <3>1, <3>3, <3>4 DEF Balance
  <2> QED BY <2>4, <2>5, <2>6, <2>7, IndInvSplitPrime DEF RunInv
<1>3. CASE PutRejected
  <2>1. OtherTypeOK'
    BY <1>1, <1>3 DEF PutRejected, OtherTypeOK, Metrics, SizesAssumption
  <2>2. UNCHANGED <<queue, shutdown, task, pc, batch, getter, taken, inFlight,
                    batches, pending, handed>>
    BY <1>3 DEF PutRejected, runVars, procVars
  <2>3. RunInv'
    BY <1>1, <2>2 DEF RunInv, RunTypeOK, RunShape, BatchesShape, PendingExact,
                      LastUnsettled, Live
  <2>4. Balance'
    BY <1>1, <1>3, <2>2 DEF PutRejected, Balance, Held, SettledCount, OtherTypeOK, Metrics
  <2> QED BY <2>1, <2>3, <2>4, IndInvSplitPrime
<1> QED BY <1>2, <1>3

(* start() creates the run task once.                                         *)
LEMMA StartInv == ASSUME IndInv, Start PROVE IndInv'
<1>1. RunInv /\ OtherTypeOK /\ Balance
  BY IndInvSplit
<1>2. /\ task = "none" /\ task' = "alive" /\ pc' = "created"
      /\ UNCHANGED <<queue, shutdown, batch, getter, taken, inFlight, batches, pending,
                     handed, accepted, puts, stop, metrics>>
  BY DEF Start, procVars, putVars
<1>3. pc = "none" /\ getter = "none" /\ batch = <<>> /\ taken = <<>>
  BY <1>1, <1>2 DEF RunInv, RunShape, RunTypeOK
<1>4. RunTypeOK' /\ OtherTypeOK'
  BY <1>1, <1>2 DEF RunInv, RunTypeOK, OtherTypeOK
<1>5. RunShape'
  BY <1>1, <1>2, <1>3 DEF RunInv, RunShape
<1>6. BatchesShape' /\ PendingExact'
  BY <1>1, <1>2, <1>3 DEF RunInv, BatchesShape, PendingExact, LastUnsettled, Live
<1>7. Balance'
  BY <1>1, <1>2, MoveKeepsBalance DEF Held
<1> QED BY <1>4, <1>5, <1>6, <1>7, IndInvSplitPrime DEF RunInv

(* The getter's task takes the head of the queue.                             *)
LEMMA GetterInv == ASSUME IndInv, GetterTakes PROVE IndInv'
<1>1. RunInv /\ OtherTypeOK /\ Balance
  BY IndInvSplit
<1>2. /\ getter = "pending" /\ queue # <<>> /\ getter' = "done"
      /\ taken' = <<Head(queue)>> /\ queue' = Tail(queue)
      /\ UNCHANGED <<shutdown, task, pc, batch, inFlight, batches, pending, handed,
                     accepted, puts, stop, metrics>>
  BY DEF GetterTakes, procVars, putVars
<1>3. pc = "wait" /\ taken = <<>> /\ task = "alive"
  BY <1>1, <1>2 DEF RunInv, RunShape, RunTypeOK
<1>4. /\ queue' \in Seq(1..MaxPuts) /\ Len(queue) = Len(queue') + 1
      /\ taken' \in Seq(1..MaxPuts) /\ Len(taken') = 1
  <2>1. queue \in Seq(1..MaxPuts) /\ queue # <<>>
    BY <1>1, <1>2 DEF RunInv, RunTypeOK
  <2>2. /\ Head(queue) \in 1..MaxPuts /\ Tail(queue) \in Seq(1..MaxPuts)
        /\ Len(Tail(queue)) = Len(queue) - 1 /\ Len(queue) \in Nat
    <3>1. Head(queue) \in 1..MaxPuts /\ Tail(queue) \in Seq(1..MaxPuts)
      BY <2>1, HeadTailProperties, Zenon
    <3>2. Len(Tail(queue)) = Len(queue) - 1
      BY <2>1, HeadTailProperties, Zenon
    <3>3. Len(queue) \in Nat
      BY <2>1
    <3> QED BY <3>1, <3>2, <3>3
  <2> QED BY <1>2, <2>2
<1>5. RunTypeOK' /\ OtherTypeOK'
  BY <1>1, <1>2, <1>4 DEF RunInv, RunTypeOK, OtherTypeOK
<1>6. RunShape'
  <2>1. Len(queue') <= MaxQueueSize
    <3>1. Len(queue) <= MaxQueueSize /\ Len(queue') \in Nat /\ MaxQueueSize \in Nat
      BY <1>1, <1>4, SizesAssumption DEF RunInv, RunShape, SizesAssumption
    <3> QED BY <1>4, <3>1
  <2>2. Len(batch') + Len(taken') <= MaxBatchSize
    <3>1. Len(batch) < MaxBatchSize /\ MaxBatchSize \in Nat /\ Len(batch) \in Nat
      BY <1>1, <1>3, SizesAssumption DEF RunInv, RunShape, RunTypeOK, SizesAssumption
    <3> QED BY <1>2, <1>4, <3>1
  <2> QED BY <1>1, <1>2, <1>3, <1>4, <2>1, <2>2 DEF RunInv, RunShape
<1>7. BatchesShape' /\ PendingExact'
  BY <1>1, <1>2 DEF RunInv, BatchesShape, PendingExact, LastUnsettled, Live
<1>8. Held' = Held
  <2>1. Len(queue') \in Nat /\ pending' = pending /\ pending \in Nat /\ Len(taken) = 0
    BY <1>1, <1>2, <1>3, <1>4 DEF RunInv, RunTypeOK
  <2> QED BY <1>4, <2>1 DEF Held
<1>9. Balance'
  BY <1>1, <1>2, <1>8, MoveKeepsBalance
<1> QED BY <1>5, <1>6, <1>7, <1>9, IndInvSplitPrime DEF RunInv

(* The steps of the run task that are stretches of run().                    *)
LEMMA RunMoves ==
  ASSUME IndInv, UNCHANGED <<shutdown, putVars, stop, metrics>>,
         RunInv', Held' = Held
  PROVE  IndInv'
<1>1. OtherTypeOK'
  BY IndInvSplit DEF OtherTypeOK, putVars
<1>2. Balance'
  BY IndInvSplit, MoveKeepsBalance DEF putVars
<1> QED BY <1>1, <1>2, IndInvSplitPrime

(* run() is stepped for the first time.                                       *)
LEMMA RunBeginsInv == ASSUME SizesAssumption, IndInv, RunBegins PROVE IndInv'
<1>1. RunInv /\ OtherTypeOK /\ Balance
  BY IndInvSplit
<1>2. pc = "created" /\ LoopHead(batches, 0, pending) /\ UNCHANGED <<shutdown, putVars, stop, metrics>>
  BY DEF RunBegins
<1>3. task = "alive" /\ batch = <<>> /\ taken = <<>>
  BY <1>1, <1>2 DEF RunInv, RunShape, RunTypeOK
<1>4. Quiet(batches)
  <2>1. \A i \in DOMAIN batches : /\ batches[i] \in Batch /\ ~Live(batches[i])
                                  /\ batches[i].st # "cancelled"
                                  /\ Len(batches[i].items) \in 1..MaxBatchSize
    BY <1>1, <1>2, <1>3 DEF RunInv, RunTypeOK, BatchesShape
  <2> QED BY <1>1, <2>1 DEF RunInv, RunTypeOK, Quiet, Batch, Status, Live, Created, Running, Settled
<1>5. pending = 0
  BY <1>1, <1>3, <1>4 DEF RunInv, PendingExact, LastUnsettled, Quiet
<1>6. RunInv' /\ Len(queue') + pending' + Len(taken') = Len(queue) + 0
  BY <1>1, <1>2, <1>3, <1>4, <1>5, LoopHeadInv DEF RunInv, RunShape, OtherTypeOK
<1>7. Held' = Held
  BY <1>1, <1>3, <1>5, <1>6 DEF Held, RunInv, RunTypeOK
<1> QED BY <1>2, <1>6, <1>7, RunMoves

(* run() resumes from its wait, with an item or without.                      *)
LEMMA WaitInv == ASSUME SizesAssumption, IndInv, WaitItem \/ WaitNothing PROVE IndInv'
<1>1. RunInv /\ OtherTypeOK /\ Balance
  BY IndInvSplit
<1>2. pc = "wait" /\ UNCHANGED <<shutdown, putVars, stop, metrics>>
  BY DEF WaitItem, WaitNothing
<1>3. /\ shutdown \in BOOLEAN /\ shutdown' = shutdown
      /\ Len(batch) \in Nat /\ Len(batch) < MaxBatchSize
      /\ pending = Len(batch) + LastUnsettled
      /\ LastUnsettled \in Nat /\ Len(queue) \in Nat
  BY <1>1, <1>2 DEF RunInv, RunTypeOK, OtherTypeOK, RunShape, PendingExact, LastUnsettled, BatchesShape
<1>4. CASE WaitItem
  <2> DEFINE b == batch \o taken
  <2>1. getter = "done" /\ Len(taken) = 1
    BY <1>1, <1>4 DEF WaitItem, GetterHasItem, RunInv, RunShape
  <2>2. b \in Seq(1..MaxPuts) /\ Len(b) = Len(batch) + 1
    <3>1. batch \in Seq(1..MaxPuts) /\ taken \in Seq(1..MaxPuts)
      BY <1>1 DEF RunInv, RunTypeOK
    <3> QED BY <2>1, <3>1, ConcatProperties
  <2>3. /\ Len(b) <= MaxBatchSize
        /\ pending + 1 = Len(b) + LastUnsettled
    BY <1>3, <2>2, SizesAssumption DEF SizesAssumption
  <2>4. CASE Collected(b, pending + 1)
    <3>1. Collected(b, Len(b) + LastUnsettled)
      BY <2>3, <2>4
    <3> HIDE DEF b
    <3>2. /\ RunInv'
          /\ Len(queue') + pending' + Len(taken') = Len(queue) + Len(b) + LastUnsettled
      BY <1>1, <1>2, <1>3, <2>2, <2>3, <3>1, CollectedInv
    <3>3. Held' = Held
      BY <1>3, <2>1, <2>2, <3>2 DEF Held
    <3> QED BY <1>2, <3>2, <3>3, RunMoves
  <2>5. CASE /\ Len(b) < MaxBatchSize
             /\ batch' = b /\ pending' = pending + 1
             /\ getter' = "pending" /\ taken' = <<>>
             /\ UNCHANGED <<queue, task, pc, inFlight, batches, handed>>
    <3>1. RunTypeOK'
      BY <1>1, <2>2, <2>5 DEF RunInv, RunTypeOK
    <3>2. RunShape'
      BY <1>1, <1>2, <2>5 DEF RunInv, RunShape
    <3>3. BatchesShape'
      BY <1>1, <2>5 DEF RunInv, BatchesShape, Live
    <3>4. PendingExact'
      BY <2>3, <2>5 DEF PendingExact, LastUnsettled
    <3>5. Held' = Held
      BY <1>3, <2>1, <2>5 DEF Held
    <3> QED BY <1>2, <3>1, <3>2, <3>3, <3>4, <3>5, RunMoves DEF RunInv
  <2> QED BY <1>4, <2>4, <2>5 DEF WaitItem
<1>5. CASE WaitNothing
  <2>1. /\ Collected(batch, Len(batch) + LastUnsettled) /\ taken = <<>>
        /\ batch \in Seq(1..MaxPuts) /\ Len(batch) <= MaxBatchSize
    BY <1>1, <1>3, <1>5 DEF WaitNothing, GetterHasItem, RunInv, RunShape, RunTypeOK
  <2>2. /\ RunInv'
        /\ Len(queue') + pending' + Len(taken') = Len(queue) + Len(batch) + LastUnsettled
    BY <1>1, <1>2, <1>3, <2>1, CollectedInv
  <2>3. Held' = Held
    BY <1>3, <2>1, <2>2 DEF Held
  <2> QED BY <1>2, <2>2, <2>3, RunMoves
<1> QED BY <1>4, <1>5

(* run() resumes once the batch in flight is done.                            *)
LEMMA JoinInv == ASSUME SizesAssumption, IndInv, Join \/ Drained PROVE IndInv'
<1>1. RunInv /\ OtherTypeOK /\ Balance
  BY IndInvSplit
<1>2. /\ pc \in {"join", "drain"} /\ InFlightDone /\ UNCHANGED <<shutdown, putVars, stop, metrics>>
      /\ shutdown' = shutdown
  BY DEF Join, Drained
<1>3. /\ Quiet(batches) /\ LastUnsettled = 0 /\ task = "alive" /\ taken = <<>>
      /\ Len(queue) <= MaxQueueSize /\ RunTypeOK /\ shutdown \in BOOLEAN
      /\ Len(taken) = 0 /\ Len(queue) \in Nat
  BY <1>1, <1>2, DoneIsQuiet DEF RunInv, RunShape, RunTypeOK, OtherTypeOK
<1>4. pending = Len(batch) /\ Len(batch) \in Nat /\ batch \in Seq(1..MaxPuts)
  BY <1>1, <1>3 DEF RunInv, RunTypeOK, PendingExact
<1>5. CASE Join
  <2>1. Launch(batch, Len(batch)) /\ Len(batch) <= MaxBatchSize
    BY <1>1, <1>4, <1>5 DEF Join, RunInv, RunShape
  <2>2. RunInv' /\ Len(queue') + pending' + Len(taken') = Len(queue) + Len(batch)
    BY <1>2, <1>3, <1>4, <2>1, LaunchInv
  <2>3. Held' = Held
    BY <1>3, <1>4, <2>2 DEF Held
  <2> QED BY <1>2, <2>2, <2>3, RunMoves
<1>6. CASE Drained
  <2>1. shutdown /\ batch = <<>>
    BY <1>1, <1>6 DEF Drained, RunInv, RunShape
  <2>2. Flush(batches, 0) /\ pending = 0
    BY <1>4, <1>6, <2>1 DEF Drained
  <2>3. RunInv' /\ Len(queue') + pending' + Len(taken') = Len(queue)
    BY <1>2, <1>3, <2>1, <2>2, FlushInv
  <2>4. Held' = Held
    BY <1>3, <2>2, <2>3 DEF Held
  <2> QED BY <1>2, <2>3, <2>4, RunMoves
<1> QED BY <1>2, <1>5, <1>6

(* The task of the batch in flight is stepped for the first time.             *)
LEMMA InFlightBeginsInv == ASSUME IndInv, InFlightBegins PROVE IndInv'
<1>1. RunInv /\ OtherTypeOK /\ Balance
  BY IndInvSplit
<1>2. PICK i \in DOMAIN batches :
        /\ batches[i].st = Created
        /\ ~Unwinding
        /\ batches' = [batches EXCEPT ![i].st = "callback"]
        /\ handed' = handed \o batches[i].items
        /\ UNCHANGED <<queue, shutdown, runVars, pending, putVars, stop, metrics>>
  BY DEF InFlightBegins
<1>3. /\ UNCHANGED <<queue, shutdown, task, pc, batch, getter, taken, inFlight, pending,
                     stop, metrics, accepted, puts>>
      /\ shutdown' = shutdown
  BY <1>2 DEF runVars, putVars
<1>4. /\ i = Len(batches) /\ Live(batches[i]) /\ pc # "flush"
      /\ batches[i] \in Batch
  BY <1>1, <1>2 DEF RunInv, RunTypeOK, BatchesShape, Live, Created, Running
<1>5. /\ batches' \in Seq(Batch) /\ Len(batches') = Len(batches)
      /\ DOMAIN batches' = DOMAIN batches
  <2>1. [batches[i] EXCEPT !.st = "callback"] \in Batch
    BY <1>4 DEF Batch, Status, Running
  <2> QED BY <1>1, <1>2, <2>1, ExceptSeq DEF RunInv, RunTypeOK
<1>6. \A j \in DOMAIN batches : /\ batches'[j].items = batches[j].items
                                /\ j # i => batches'[j] = batches[j]
                                /\ batches'[i].st = "callback"
  BY <1>1, <1>2, <1>4 DEF RunInv, RunTypeOK, Batch
<1>7. RunTypeOK' /\ OtherTypeOK'
  <2>1. handed' \in Seq(1..MaxPuts)
    BY <1>1, <1>2, <1>4 DEF RunInv, RunTypeOK, Batch
  <2> QED BY <1>1, <1>3, <1>5, <2>1 DEF RunInv, RunTypeOK, OtherTypeOK
<1>8. RunShape'
  BY <1>1, <1>3 DEF RunInv, RunShape
<1>9. BatchesShape'
  <2>1. \A j \in DOMAIN batches : Len(batches'[j].items) \in 1..MaxBatchSize
    BY <1>1, <1>6 DEF RunInv, BatchesShape
  <2>2. \A j \in DOMAIN batches : Live(batches'[j]) => j = i
    BY <1>1, <1>4, <1>6 DEF RunInv, BatchesShape
  <2>3. /\ pc \in {"wait", "join", "drain", "unwind"}
        /\ pc \in {"wait", "join", "drain"} => i = inFlight
    BY <1>1, <1>4 DEF RunInv, BatchesShape
  <2>4. \A j \in DOMAIN batches : batches'[j].st = "cancelled" => task = "cancelled"
    BY <1>1, <1>6 DEF RunInv, BatchesShape
  <2> QED BY <1>3, <1>4, <1>5, <1>6, <2>1, <2>2, <2>3, <2>4 DEF BatchesShape, Running
<1>10. PendingExact'
  <2>1. batches # <<>> /\ batches' # <<>>
    BY <1>1, <1>5 DEF RunInv, RunTypeOK
  <2>2. LastUnsettled' = LastUnsettled
    <3>1. batches[Len(batches)].st = Created
      BY <1>2, <1>4
    <3>2. /\ batches'[Len(batches')].st = "callback"
          /\ batches'[Len(batches')].items = batches[Len(batches)].items
      BY <1>4, <1>5, <1>6
    <3> QED BY <2>1, <3>1, <3>2 DEF LastUnsettled, Settled, Created
  <2> QED BY <1>1, <1>3, <2>2 DEF RunInv, PendingExact
<1>11. Balance'
  BY <1>1, <1>3, MoveKeepsBalance DEF Held
<1> QED BY <1>7, <1>8, <1>9, <1>10, <1>11, IndInvSplitPrime DEF RunInv

(* A batch is settled: its items leave what is held and are counted.         *)
LEMMA SettleInv ==
  ASSUME SizesAssumption, IndInv, UNCHANGED <<shutdown, putVars, stop>>, metrics' \in Metrics,
         NEW i \in DOMAIN batches, batches[i].st \in Running, ~Unwinding,
         NEW st \in Settled, Return(i, st),
         SettledCount' = SettledCount + Len(batches[i].items)
  PROVE  IndInv'
<1>1. RunInv /\ OtherTypeOK /\ Balance /\ shutdown \in BOOLEAN /\ shutdown' = shutdown
  BY IndInvSplit DEF OtherTypeOK
<1> DEFINE k == Len(batches[i].items)
<1>2. RunInv' /\ Len(queue') + pending' + Len(taken') + k = Len(queue) + pending + Len(taken)
  BY <1>1, ReturnInv
<1>3. OtherTypeOK'
  BY <1>1 DEF OtherTypeOK, putVars
<1>4. /\ Held \in Nat /\ SettledCount \in Nat /\ k \in Nat
      /\ SettledCount' = SettledCount + k
      /\ Len(accepted') = SettledCount + Held
  BY <1>1, CountsType DEF RunInv, RunTypeOK, BatchesShape, Balance, putVars
<1> HIDE DEF k
<1>5. Held' \in Nat /\ Held' + k = Held
  <2>1. Len(queue') \in Nat /\ pending' \in Nat /\ Len(taken') \in Nat
    BY <1>2 DEF RunInv, RunTypeOK
  <2>2. Held' \in Nat
    BY <2>1 DEF Held
  <2> QED BY <1>2, <2>2 DEF Held
<1>6. Balance'
  <2>1. \A a \in Nat, n \in Nat : a + (n + k) = (a + k) + n
    BY <1>4
  <2>2. SettledCount + (Held' + k) = (SettledCount + k) + Held'
    BY <1>4, <1>5, <2>1
  <2>3. Len(accepted') = SettledCount' + Held'
    BY <1>4, <1>5, <2>2, Zenon
  <2> QED BY <2>3 DEF Balance
<1> QED BY <1>2, <1>3, <1>6, IndInvSplitPrime

(* What the callbacks add to the counters is what SettledCount gains.        *)
LEMMA CountersAdd ==
  ASSUME metrics \in Metrics, NEW k \in Nat,
         NEW f \in {"processed", "failed", "rescued", "unrescued"},
         metrics' = [metrics EXCEPT ![f] = @ + k]
  PROVE  /\ metrics' \in Metrics
         /\ f = "failed" /\ HasErrorCallback => SettledCount' = SettledCount
         /\ f = "failed" /\ ~HasErrorCallback => SettledCount' = SettledCount + k
         /\ f = "processed" => SettledCount' = SettledCount + k
         /\ f \in {"rescued", "unrescued"} /\ HasErrorCallback =>
              SettledCount' = SettledCount + k
<1>1. /\ metrics.processed \in Nat /\ metrics.failed \in Nat
      /\ metrics.rescued \in Nat /\ metrics.unrescued \in Nat
  BY DEF Metrics
<1>2. \A a \in Nat, b \in Nat, c \in Nat :
        /\ (a + k) + b = (a + b) + k
        /\ a + (b + k) = (a + b) + k
        /\ (a + k) + (b + c) = (a + (b + c)) + k
        /\ a + ((b + k) + c) = (a + (b + c)) + k
        /\ a + (b + (c + k)) = (a + (b + c)) + k
  OBVIOUS
<1>3. metrics' \in Metrics
  BY DEF Metrics
<1>4. CASE f = "processed"
  <2>1. /\ metrics'.processed = metrics.processed + k /\ metrics'.failed = metrics.failed
        /\ metrics'.rescued = metrics.rescued /\ metrics'.unrescued = metrics.unrescued
    BY <1>4 DEF Metrics
  <2> QED BY <1>1, <1>2, <1>3, <1>4, <2>1 DEF SettledCount
<1>5. CASE f = "failed"
  <2>1. /\ metrics'.processed = metrics.processed /\ metrics'.failed = metrics.failed + k
        /\ metrics'.rescued = metrics.rescued /\ metrics'.unrescued = metrics.unrescued
    BY <1>5 DEF Metrics
  <2> QED BY <1>1, <1>2, <1>3, <1>5, <2>1 DEF SettledCount
<1>6. CASE f = "rescued"
  <2>1. /\ metrics'.processed = metrics.processed /\ metrics'.failed = metrics.failed
        /\ metrics'.rescued = metrics.rescued + k /\ metrics'.unrescued = metrics.unrescued
    BY <1>6 DEF Metrics
  <2> QED BY <1>1, <1>2, <1>3, <1>6, <2>1 DEF SettledCount
<1>7. CASE f = "unrescued"
  <2>1. /\ metrics'.processed = metrics.processed /\ metrics'.failed = metrics.failed
        /\ metrics'.rescued = metrics.rescued /\ metrics'.unrescued = metrics.unrescued + k
    BY <1>7 DEF Metrics
  <2> QED BY <1>1, <1>2, <1>3, <1>7, <2>1 DEF SettledCount
<1> QED BY <1>4, <1>5, <1>6, <1>7

(* on_batch or on_error ends, and run() goes on if it waited for that.        *)
LEMMA CallbackInv == ASSUME SizesAssumption, IndInv, CallbackEnds PROVE IndInv'
<1>1. RunInv /\ OtherTypeOK /\ Balance
  BY IndInvSplit
<1>2. metrics \in Metrics
  BY <1>1 DEF OtherTypeOK
<1>3. \A i \in DOMAIN batches : Len(batches[i].items) \in Nat
  BY <1>1 DEF RunInv, BatchesShape
<1>4. CASE CallbackReturns
  <2>1. PICK i \in DOMAIN batches :
          /\ batches[i].st = "callback" /\ ~Unwinding
          /\ metrics' = [metrics EXCEPT !.processed = @ + Len(batches[i].items)]
          /\ Return(i, "ok") /\ UNCHANGED <<shutdown, putVars, stop>>
    BY <1>4 DEF CallbackReturns
  <2>2. metrics' \in Metrics /\ SettledCount' = SettledCount + Len(batches[i].items)
    BY <1>2, <1>3, <2>1, CountersAdd
  <2> QED BY <2>1, <2>2, SettleInv DEF Running, Settled
<1>5. CASE CallbackRaises
  <2>1. PICK i \in DOMAIN batches :
          /\ batches[i].st = "callback" /\ ~Unwinding
          /\ metrics' = [metrics EXCEPT !.failed = @ + Len(batches[i].items)]
          /\ \/ /\ HasErrorCallback
                /\ batches' = [batches EXCEPT ![i].st = "on_error"]
                /\ UNCHANGED <<queue, runVars, pending, handed>>
             \/ /\ ~HasErrorCallback
                /\ Return(i, "error")
          /\ UNCHANGED <<shutdown, putVars, stop>>
    BY <1>5 DEF CallbackRaises
  <2>2. /\ metrics' \in Metrics
        /\ HasErrorCallback => SettledCount' = SettledCount
        /\ ~HasErrorCallback => SettledCount' = SettledCount + Len(batches[i].items)
    BY <1>2, <1>3, <2>1, CountersAdd
  <2>3. CASE ~HasErrorCallback
    BY <2>1, <2>2, <2>3, SettleInv DEF Running, Settled
  <2>4. CASE HasErrorCallback
    <3>1. /\ UNCHANGED <<queue, shutdown, task, pc, batch, getter, taken, inFlight, pending,
                         handed, stop, accepted, puts>>
          /\ batches' = [batches EXCEPT ![i].st = "on_error"]
      BY <2>1, <2>4 DEF runVars, putVars
    <3>2. i = Len(batches) /\ Live(batches[i]) /\ batches[i] \in Batch
      BY <1>1, <2>1 DEF RunInv, RunTypeOK, BatchesShape, Live, Running
    <3>3. /\ batches' \in Seq(Batch) /\ Len(batches') = Len(batches)
          /\ DOMAIN batches' = DOMAIN batches
      <4>1. [batches[i] EXCEPT !.st = "on_error"] \in Batch
        BY <3>2 DEF Batch, Status, Running
      <4> QED BY <1>1, <3>1, <4>1, ExceptSeq DEF RunInv, RunTypeOK
    <3>4. \A j \in DOMAIN batches : /\ batches'[j].items = batches[j].items
                                    /\ j # i => batches'[j] = batches[j]
                                    /\ batches'[i].st = "on_error"
      BY <1>1, <3>1, <3>2 DEF RunInv, RunTypeOK, Batch
    <3>5. RunTypeOK' /\ OtherTypeOK'
      BY <1>1, <2>2, <3>1, <3>3 DEF RunInv, RunTypeOK, OtherTypeOK
    <3>6. RunShape'
      BY <1>1, <3>1 DEF RunInv, RunShape
    <3>7. BatchesShape'
      <4>1. \A j \in DOMAIN batches : Len(batches'[j].items) \in 1..MaxBatchSize
        BY <1>1, <3>4 DEF RunInv, BatchesShape
      <4>2. \A j \in DOMAIN batches : Live(batches'[j]) => j = i
        BY <1>1, <3>2, <3>4 DEF RunInv, BatchesShape
      <4>3. /\ pc \in {"wait", "join", "drain", "flush", "unwind"}
            /\ pc \in {"wait", "join", "drain"} => i = inFlight
        BY <1>1, <3>2 DEF RunInv, BatchesShape
      <4>4. \A j \in DOMAIN batches : batches'[j].st = "cancelled" => task = "cancelled"
        BY <1>1, <3>4 DEF RunInv, BatchesShape
      <4>5. batches' # <<>> /\ Live(batches'[Len(batches')])
        BY <1>1, <3>2, <3>3, <3>4 DEF RunInv, RunTypeOK, Live, Running
      <4> QED BY <2>4, <3>1, <3>2, <3>3, <3>4, <4>1, <4>2, <4>3, <4>4, <4>5
              DEF BatchesShape, Running
    <3>8. PendingExact'
      <4>1. batches # <<>> /\ batches' # <<>>
        BY <1>1, <3>2, <3>3 DEF RunInv, RunTypeOK
      <4>2. batches[Len(batches)].st = "callback"
        BY <2>1, <3>2
      <4>3. /\ batches'[Len(batches')].st = "on_error"
            /\ batches'[Len(batches')].items = batches[Len(batches)].items
        BY <3>2, <3>3, <3>4
      <4>4. LastUnsettled' = LastUnsettled
        BY <4>1, <4>2, <4>3 DEF LastUnsettled, Settled
      <4> QED BY <1>1, <3>1, <4>4 DEF RunInv, PendingExact
    <3>9. Balance'
      BY <1>1, <2>2, <2>4, <3>1 DEF Balance, Held
    <3> QED BY <3>5, <3>6, <3>7, <3>8, <3>9, IndInvSplitPrime DEF RunInv
  <2> QED BY <2>1, <2>3, <2>4
<1>6. CASE ErrorCallbackEnds
  <2>1. PICK i \in DOMAIN batches :
          /\ batches[i].st = "on_error" /\ ~Unwinding
          /\ \/ metrics' = [metrics EXCEPT !.rescued = @ + Len(batches[i].items)]
             \/ metrics' = [metrics EXCEPT !.unrescued = @ + Len(batches[i].items)]
          /\ Return(i, "error") /\ UNCHANGED <<shutdown, putVars, stop>>
    BY <1>6 DEF ErrorCallbackEnds
  <2>2. HasErrorCallback
    BY <1>1, <2>1 DEF RunInv, BatchesShape, Live, Running
  <2>3. metrics' \in Metrics /\ SettledCount' = SettledCount + Len(batches[i].items)
    BY <1>2, <1>3, <2>1, <2>2, CountersAdd
  <2> QED BY <2>1, <2>3, SettleInv DEF Running, Settled
<1> QED BY <1>4, <1>5, <1>6 DEF CallbackEnds

(* The finally of run() drops what is left and ends.                          *)
LEMMA UnwindInv == ASSUME IndInv, Unwind PROVE IndInv'
<1>1. RunInv /\ OtherTypeOK /\ Balance
  BY IndInvSplit
<1>2. /\ pc = "unwind" /\ pc' = "done" /\ task' = "cancelled"
      /\ UNCHANGED <<queue, shutdown, batch, getter, taken, inFlight, pending, handed,
                     accepted, puts, stop, metrics>>
  BY DEF Unwind, Unwinding, putVars
<1> DEFINE end(b) == IF Live(b) THEN [b EXCEPT !.st = "cancelled"] ELSE b
<1>3. \A b \in Batch : /\ end(b) \in Batch /\ end(b).items = b.items
                       /\ ~Live(end(b))
                       /\ end(b).st \in Settled <=> b.st \in Settled
  BY DEF Batch, Status, Live, Settled, Running, Created
<1>4. /\ batches \in Seq(Batch)
      /\ \A i \in DOMAIN batches : batches[i] \in Batch
      /\ Len(batches) \in Nat /\ DOMAIN batches = 1..Len(batches)
  BY <1>1 DEF RunInv, RunTypeOK
<1>5. batches' = [i \in 1..Len(batches) |-> end(batches[i])]
  BY <1>4 DEF Unwind
<1> HIDE DEF end
<1>6. /\ batches' \in Seq(Batch) /\ Len(batches') = Len(batches)
      /\ DOMAIN batches' = DOMAIN batches
      /\ \A i \in DOMAIN batches : batches'[i] = end(batches[i])
  BY <1>3, <1>4, <1>5
<1>7. \A i \in DOMAIN batches : /\ batches'[i].items = batches[i].items
                                /\ ~Live(batches'[i])
                                /\ batches'[i].st \in Settled <=> batches[i].st \in Settled
  BY <1>3, <1>4, <1>6
<1>8. RunTypeOK' /\ OtherTypeOK'
  BY <1>1, <1>2, <1>6 DEF RunInv, RunTypeOK, OtherTypeOK
<1>9. RunShape'
  BY <1>1, <1>2 DEF RunInv, RunShape
<1>10. BatchesShape'
  <2>1. \A i \in DOMAIN batches' : ~Live(batches'[i])
    BY <1>6, <1>7
  <2>2. \A i \in DOMAIN batches' : Len(batches'[i].items) \in 1..MaxBatchSize
    BY <1>1, <1>6, <1>7 DEF RunInv, BatchesShape
  <2> QED BY <1>2, <2>1, <2>2 DEF BatchesShape
<1>11. PendingExact'
  <2>1. batches = <<>> <=> batches' = <<>>
    BY <1>4, <1>6
  <2>2. batches # <<>> => Len(batches) \in DOMAIN batches
    BY <1>4
  <2>3. LastUnsettled' = LastUnsettled
    BY <1>6, <1>7, <2>1, <2>2 DEF LastUnsettled
  <2> QED BY <1>1, <1>2, <2>3 DEF RunInv, PendingExact
<1>12. Balance'
  BY <1>1, <1>2, MoveKeepsBalance DEF Held
<1> QED BY <1>8, <1>9, <1>10, <1>11, <1>12, IndInvSplitPrime DEF RunInv

(* stop() is called, cancels at its deadline, or returns.                     *)
LEMMA StopInv ==
  ASSUME IndInv, NEW s \in Stoppers,
         StopGraceful(s) \/ StopForce(s) \/ StopExpires(s) \/ StopEnds(s)
  PROVE  IndInv'
<1>1. RunInv /\ OtherTypeOK /\ Balance
  BY IndInvSplit
<1>2. CASE StopForce(s) \/ StopExpires(s)
  <2>1. CancelRun /\ UNCHANGED <<queue, procVars>> /\ shutdown' \in {shutdown, TRUE}
        /\ UNCHANGED <<putVars, metrics>>
    BY <1>2 DEF StopForce, StopExpires
  <2>2. RunInv' /\ taken' = taken
    BY <1>1, <2>1, CancelInv
  <2>3. OtherTypeOK'
    BY <1>1, <1>2 DEF StopForce, StopExpires, OtherTypeOK, putVars
  <2>4. Balance'
    BY <1>1, <2>1, <2>2, MoveKeepsBalance DEF Held, procVars, putVars
  <2> QED BY <2>2, <2>3, <2>4, IndInvSplitPrime
<1>3. CASE StopGraceful(s) \/ StopEnds(s)
  <2>1. UNCHANGED <<queue, task, pc, batch, getter, taken, inFlight, batches, pending,
                    handed, accepted, puts>>
        /\ shutdown' \in {shutdown, TRUE}
    BY <1>3 DEF StopGraceful, StopEnds, runVars, procVars, putVars
  <2>2. RunTypeOK'
    BY <1>1, <2>1 DEF RunInv, RunTypeOK
  <2>3. RunShape'
    BY <1>1, <2>1 DEF RunInv, RunShape
  <2>4. BatchesShape' /\ PendingExact'
    BY <1>1, <2>1 DEF RunInv, BatchesShape, PendingExact, LastUnsettled, Live
  <2>5. metrics' \in Metrics /\ SettledCount' = SettledCount
    <3>1. CASE metrics' = metrics
      BY <1>1, <3>1 DEF OtherTypeOK, SettledCount
    <3>2. CASE metrics' = [metrics EXCEPT !.dropped = @ + Len(queue) + pending]
      <4>1. Len(queue) \in Nat /\ pending \in Nat /\ metrics.dropped \in Nat
            /\ metrics \in Metrics
        BY <1>1 DEF RunInv, RunTypeOK, OtherTypeOK, Metrics
      <4>2. metrics.dropped + Len(queue) + pending \in Nat
        BY <4>1
      <4> QED BY <3>2, <4>1, <4>2 DEF Metrics, SettledCount
    <3> QED BY <1>3, <3>1, <3>2 DEF StopGraceful, StopEnds
  <2>6. OtherTypeOK'
    BY <1>1, <1>3, <2>1, <2>5 DEF StopGraceful, StopEnds, OtherTypeOK
  <2>7. Balance'
    BY <1>1, <2>1, <2>5 DEF Balance, Held
  <2> QED BY <2>2, <2>3, <2>4, <2>6, <2>7, IndInvSplitPrime DEF RunInv
<1> QED BY <1>2, <1>3

-----------------------------------------------------------------------------
(* The inductive invariant holds in every reachable state of every instance. *)
THEOREM Inductive == Spec => []IndInv
<1> USE SizesAssumption
<1>1. Init => IndInv
  BY InitInv
<1>2. IndInv /\ [Next]_vars => IndInv'
  <2> SUFFICES ASSUME IndInv, [Next]_vars PROVE IndInv'
    OBVIOUS
  <2>1. CASE PutAccepted \/ PutRejected
    BY <2>1, PutInv
  <2>2. CASE Start
    BY <2>2, StartInv
  <2>3. CASE RunBegins
    BY <2>3, RunBeginsInv
  <2>4. CASE WaitItem \/ WaitNothing
    BY <2>4, WaitInv
  <2>5. CASE Join \/ Drained
    BY <2>5, JoinInv
  <2>6. CASE Unwind
    BY <2>6, UnwindInv
  <2>7. CASE GetterTakes
    BY <2>7, GetterInv
  <2>8. CASE InFlightBegins
    BY <2>8, InFlightBeginsInv
  <2>9. CASE CallbackEnds
    BY <2>9, CallbackInv
  <2>10. CASE \E s \in Stoppers :
                StopGraceful(s) \/ StopForce(s) \/ StopExpires(s) \/ StopEnds(s)
    BY <2>10, StopInv
  <2>11. CASE UNCHANGED vars
    BY <2>11 DEF vars, runVars, procVars, putVars, IndInv, TypeOK, RunShape, BatchesShape,
                 PendingExact, LastUnsettled, Balance, Held, SettledCount, Live
  <2> QED BY <2>1, <2>2, <2>3, <2>4, <2>5, <2>6, <2>7, <2>8, <2>9, <2>10, <2>11
          DEF Next, RunStep
<1> QED BY <1>1, <1>2, PTL DEF Spec

(* Type correctness, _pending_item_count included.                           *)
THEOREM TypeCorrect == Spec => []TypeOK
<1>1. IndInv => TypeOK
  BY DEF IndInv
<1> QED BY <1>1, Inductive, PTL

(* Batches are processed one at a time, however stop(), the delay and the     *)
(* callbacks interleave (run, 366-403).                                     *)
THEOREM SerialBatches == Spec => []Serial
<1>1. IndInv => Serial
  BY DEF IndInv, BatchesShape, Serial, Live
<1> QED BY <1>1, Inductive, PTL

(* When run() has ended no batch is running or about to (run, 394-403).      *)
THEOREM NothingOutlives == Spec => []NoOutlive
<1>1. IndInv => NoOutlive
  BY DEF IndInv, TypeOK, RunShape, BatchesShape, NoOutlive, SomeLive
<1> QED BY <1>1, Inductive, PTL

(* No accepted item is ever unaccounted for, or counted twice.               *)
THEOREM ItemsBalance == Spec => []Balance
<1>1. IndInv => Balance
  BY DEF IndInv
<1> QED BY <1>1, Inductive, PTL

(* The memory the queue holds is bounded by its two sizes.                   *)
THEOREM BacklogBounded == Spec => []BoundedBacklog
<1>1. IndInv => BoundedBacklog
  <2> SUFFICES ASSUME IndInv PROVE BoundedBacklog
    OBVIOUS
  <2>1. RunInv /\ OtherTypeOK /\ Balance
    BY IndInvSplit
  <2>2. /\ Held \in Nat /\ SettledCount \in Nat
        /\ Len(accepted) = SettledCount + Held
    BY <2>1, CountsType DEF RunInv, Balance
  <2>3. /\ LastUnsettled \in Nat /\ LastUnsettled <= MaxBatchSize
        /\ pending = Len(batch) + LastUnsettled
    <3>1. MaxBatchSize \in Nat
      BY SizesAssumption DEF SizesAssumption
    <3>2. batches # <<>> => Len(batches[Len(batches)].items) \in 1..MaxBatchSize
      BY <2>1 DEF RunInv, RunTypeOK, BatchesShape
    <3> QED BY <2>1, <3>1, <3>2 DEF RunInv, PendingExact, LastUnsettled
  <2>4. /\ Len(batch) \in Nat /\ Len(taken) \in Nat /\ Len(queue) \in Nat
        /\ Len(batch) + Len(taken) <= MaxBatchSize /\ Len(queue) <= MaxQueueSize
        /\ MaxBatchSize \in Nat /\ MaxQueueSize \in Nat
    BY <2>1, SizesAssumption DEF RunInv, RunTypeOK, RunShape, SizesAssumption
  <2>5. Held <= MaxQueueSize + 2 * MaxBatchSize
    BY <2>3, <2>4 DEF Held
  <2>6. Len(accepted) - SettledCount = Held
    BY <2>2
  <2> QED BY <2>5, <2>6 DEF BoundedBacklog
<1> QED BY <1>1, Inductive, PTL

-----------------------------------------------------------------------------
(* A call of stop() has set the shutdown, and is not over before the run task. *)
StopsInv ==
    \A s \in Stoppers :
        /\ stop[s] # "idle" => shutdown
        /\ stop[s] = "timed_out" => task \in {"finished", "cancelled"}

(* What the one stop() that timed out has recorded is what is still held.      *)
OnlyOne(s) == stop[s] = "timed_out" /\ \A t \in Stoppers \ {s} : stop[t] # "timed_out"

DropInv ==
    /\ (\A s \in Stoppers : stop[s] # "timed_out") => metrics.dropped = 0
    /\ \A s \in Stoppers : OnlyOne(s) => metrics.dropped = Len(queue) + pending

(* When the run task has ended nothing moves in the queue.                    *)
LEMMA EndedStays ==
  ASSUME IndInv, task \in {"finished", "cancelled"}
  PROVE  ~RunStep /\ ~GetterTakes /\ ~InFlightBegins /\ ~CallbackEnds
<1>1. pc = "done" /\ getter # "pending"
  BY DEF IndInv, TypeOK, RunShape
<1>2. \A i \in DOMAIN batches : batches[i].st # Created /\ batches[i].st \notin Running
  BY <1>1 DEF IndInv, BatchesShape, Live
<1>3. ~RunStep
  BY <1>1 DEF RunStep, RunBegins, WaitItem, WaitNothing, Join, Drained, Unwind, Unwinding
<1>4. ~CallbackEnds
  BY <1>2 DEF CallbackEnds, CallbackReturns, CallbackRaises, ErrorCallbackEnds, Running
<1> QED BY <1>1, <1>2, <1>3, <1>4 DEF GetterTakes, InFlightBegins

(* Only stop() records a drop.                                               *)
LEMMA CallbackDropsNothing ==
  ASSUME metrics \in Metrics, CallbackEnds
  PROVE  metrics'.dropped = metrics.dropped /\ UNCHANGED <<stop, shutdown>>
<1>1. CASE CallbackReturns
  BY <1>1 DEF CallbackReturns, Metrics
<1>2. CASE CallbackRaises
  BY <1>2 DEF CallbackRaises, Metrics
<1>3. CASE ErrorCallbackEnds
  BY <1>3 DEF ErrorCallbackEnds, Metrics
<1> QED BY <1>1, <1>2, <1>3 DEF CallbackEnds

(* A step of anyone but stop().                                              *)
LEMMA OthersDropNothing ==
  ASSUME IndInv, StopsInv, DropInv,
         UNCHANGED <<stop, shutdown>>, metrics'.dropped = metrics.dropped,
         task \in {"finished", "cancelled"} /\ shutdown => UNCHANGED <<task, queue, pending>>
  PROVE  StopsInv' /\ DropInv'
<1>1. StopsInv'
  BY DEF StopsInv
<1>2. DropInv'
  <2>1. \A s \in Stoppers : stop[s] = "timed_out" => UNCHANGED <<task, queue, pending>>
    BY DEF StopsInv
  <2> QED BY <2>1 DEF DropInv, OnlyOne
<1> QED BY <1>1, <1>2

(* A step of stop().                                                         *)
LEMMA StopDrops ==
  ASSUME IndInv, StopsInv, DropInv, NEW s \in Stoppers,
         StopGraceful(s) \/ StopForce(s) \/ StopExpires(s) \/ StopEnds(s)
  PROVE  StopsInv' /\ DropInv'
<1>0. /\ stop \in [Stoppers -> {"idle", "waiting", "forcing", "expired", "returned",
                               "timed_out", "interrupted"}]
      /\ metrics \in Metrics /\ Len(queue) \in Nat /\ pending \in Nat
  BY DEF IndInv, TypeOK
<1>1. UNCHANGED <<queue, pending>> /\ shutdown' \in {shutdown, TRUE}
      /\ (task \in {"finished", "cancelled"} => task' = task)
  BY DEF StopGraceful, StopForce, StopExpires, StopEnds, CancelRun, procVars, runVars
<1>2. \A t \in Stoppers \ {s} : stop'[t] = stop[t]
  BY <1>0 DEF StopGraceful, StopForce, StopExpires, StopEnds
<1>3. stop[s] # "timed_out" /\ (shutdown' \/ shutdown)
  BY <1>0 DEF StopsInv, StopGraceful, StopForce, StopExpires, StopEnds
<1>4. shutdown'
  BY <1>3 DEF StopGraceful, StopForce, StopExpires, StopEnds
<1>5. CASE stop'[s] = "timed_out"
  <2>1. /\ StopEnds(s) /\ stop[s] = "expired"
        /\ metrics' = [metrics EXCEPT !.dropped = @ + Len(queue) + pending]
    BY <1>0, <1>5 DEF StopGraceful, StopForce, StopExpires, StopEnds
  <2>2. task \in {"finished", "cancelled"}
    BY <2>1 DEF StopEnds
  <2>3. metrics'.dropped = metrics.dropped + Len(queue) + pending
    BY <1>0, <2>1 DEF Metrics
  <2>4. StopsInv'
    BY <1>1, <1>2, <1>4, <2>2 DEF StopsInv
  <2>5. ASSUME NEW t \in Stoppers, OnlyOne(t)' PROVE metrics'.dropped = Len(queue') + pending'
    <3>1. t = s
      BY <1>5, <2>5 DEF OnlyOne
    <3>2. \A x \in Stoppers : stop[x] # "timed_out"
      BY <1>2, <1>3, <2>5, <3>1 DEF OnlyOne
    <3>3. metrics.dropped = 0
      BY <3>2 DEF DropInv
    <3> QED BY <1>0, <1>1, <2>3, <3>3
  <2> QED BY <1>5, <2>4, <2>5 DEF DropInv
<1>6. CASE stop'[s] # "timed_out"
  <2>1. metrics' = metrics
    BY <1>0, <1>6 DEF StopGraceful, StopForce, StopExpires, StopEnds
  <2>2. \A t \in Stoppers : stop'[t] = "timed_out" <=> stop[t] = "timed_out"
    BY <1>2, <1>3, <1>6
  <2>3. StopsInv'
    BY <1>1, <1>4, <2>2 DEF StopsInv
  <2>4. DropInv'
    BY <1>1, <2>1, <2>2 DEF DropInv, OnlyOne
  <2> QED BY <2>3, <2>4
<1> QED BY <1>5, <1>6

(* The drop is exact at the end of the run task, however many puts follow.     *)
LEMMA Drops == Spec => [](StopsInv /\ DropInv)
<1>1. Init => StopsInv /\ DropInv
  BY DEF Init, StopsInv, DropInv, OnlyOne
<1>2. IndInv /\ StopsInv /\ DropInv /\ [Next]_vars => StopsInv' /\ DropInv'
  <2> SUFFICES ASSUME IndInv, StopsInv, DropInv, [Next]_vars PROVE StopsInv' /\ DropInv'
    OBVIOUS
  <2>0. metrics \in Metrics
    BY DEF IndInv, TypeOK
  <2>1. CASE PutAccepted
    BY <2>1, OthersDropNothing DEF PutAccepted
  <2>2. CASE PutRejected
    <3>1. metrics'.dropped = metrics.dropped
      BY <2>0, <2>2 DEF PutRejected, Metrics
    <3> QED BY <2>2, <3>1, OthersDropNothing DEF PutRejected, runVars, procVars
  <2>3. CASE Start
    BY <2>3, OthersDropNothing DEF Start
  <2>4. CASE RunStep
    <3>1. UNCHANGED <<stop, shutdown, metrics>>
      BY <2>4 DEF RunStep, RunBegins, WaitItem, WaitNothing, Join, Drained, Unwind
    <3> QED BY <2>4, <3>1, EndedStays, OthersDropNothing
  <2>5. CASE GetterTakes \/ InFlightBegins
    <3>1. UNCHANGED <<stop, shutdown, metrics>>
      BY <2>5 DEF GetterTakes, InFlightBegins
    <3> QED BY <2>5, <3>1, EndedStays, OthersDropNothing
  <2>6. CASE CallbackEnds
    BY <2>0, <2>6, CallbackDropsNothing, EndedStays, OthersDropNothing
  <2>7. CASE \E s \in Stoppers : StopGraceful(s) \/ StopForce(s) \/ StopExpires(s) \/ StopEnds(s)
    BY <2>7, StopDrops
  <2>8. CASE UNCHANGED vars
    BY <2>8, OthersDropNothing DEF vars, runVars, procVars
  <2> QED BY <2>1, <2>2, <2>3, <2>4, <2>5, <2>6, <2>7, <2>8 DEF Next
<1> QED BY <1>1, <1>2, Inductive, PTL DEF Spec

(* A graceful stop() that runs into its deadline records what is lost, up to   *)
(* the one item in the getter (stop, 445-454).                               *)
THEOREM DropsWithinOne == Spec => []DroppedWithinOne
<1>1. IndInv /\ StopsInv /\ DropInv => DroppedWithinOne
  <2> SUFFICES ASSUME IndInv, StopsInv, DropInv,
                      NEW s \in Stoppers, OnlyOne(s)
               PROVE  Len(accepted) - (SettledCount + metrics.dropped) \in 0..1
    BY DEF DroppedWithinOne, OnlyOne
  <2>1. metrics.dropped = Len(queue) + pending
    BY DEF DropInv
  <2>2. /\ Len(accepted) = SettledCount + (Len(queue) + pending + Len(taken))
        /\ SettledCount \in Nat
    BY CountsType, IndInvSplit DEF RunInv, Balance, Held
  <2>3. Len(queue) \in Nat /\ pending \in Nat /\ Len(taken) \in 0..1
    <3>1. Len(queue) \in Nat /\ pending \in Nat /\ Len(taken) \in Nat
      BY DEF IndInv, TypeOK
    <3>2. Len(taken) <= 1
      BY DEF IndInv, RunShape
    <3>3. \A n \in Nat : n <= 1 => n \in 0..1
      OBVIOUS
    <3> QED BY <3>1, <3>2, <3>3, Zenon
  <2>4. Len(accepted) - (SettledCount + metrics.dropped) = Len(taken)
    BY <2>1, <2>2, <2>3
  <2> QED BY <2>3, <2>4
<1> QED BY <1>1, Inductive, Drops, PTL

-----------------------------------------------------------------------------
(* Where the items are: handed over, in the last batch if it has not begun,  *)
(* in the batch being collected, in the getter, in the queue.               *)
Abandoned == task = "cancelled" \/ pc = "unwind"

Last == batches[Len(batches)]

Unstarted == IF batches # <<>> /\ Last.st = Created THEN Last.items ELSE <<>>

(* The items are in the order of put(), as long as run() is not cancelled.   *)
OrderInv ==
    /\ Abandoned => shutdown
    /\ ~Abandoned => accepted = handed \o (Unstarted \o (batch \o (taken \o queue)))

(* Busy, when run() is not unwinding.                                        *)
Serving == IF batches # <<>> /\ Last.st \in Running THEN Len(Last.items) ELSE 0

(* The outcomes of a stretch of run(): nothing to see, ...                    *)
Stays == /\ Serving' = 0 /\ handed' = handed
         /\ task' = "alive" /\ pc' # "unwind"

(* ... the next batch handed over, or the end with nothing left.             *)
HandsOver ==
    /\ task' = "alive" /\ pc' # "unwind"
    /\ \E n \in 1..MaxBatchSize :
          /\ n <= Len(accepted) - Len(handed)
          /\ Serving' = n
          /\ handed' = SubSeq(accepted, 1, Len(handed) + n)

Finishes == /\ Serving' = 0 /\ handed' = handed
            /\ task' = "finished" /\ pc' # "unwind" /\ shutdown
            /\ Len(accepted) - Len(handed) = 0

(* A part of what was accepted is what was handed over and comes next.        *)
LEMMA PrefixOf ==
  ASSUME NEW S, NEW a \in Seq(S), NEW b \in Seq(S), NEW c \in Seq(S), Len(b) > 0
  PROVE  /\ SubSeq(a \o (b \o c), 1, Len(a) + Len(b)) = a \o b
         /\ Len(a \o (b \o c)) = Len(a) + Len(b) + Len(c)
<1>1. (a \o b) \o c = a \o (b \o c)
  BY ConcatAssociative
<1>2. /\ a \o b \in Seq(S) /\ Len(a \o b) = Len(a) + Len(b)
      /\ b \o c \in Seq(S) /\ Len(b \o c) = Len(b) + Len(c)
      /\ Len(a \o (b \o c)) = Len(a) + Len(b \o c)
  BY ConcatProperties
<1>3. Len(a) \in Nat /\ Len(b) \in Nat /\ Len(c) \in Nat
  OBVIOUS
<1>4. SubSeq((a \o b) \o c, 1, Len(a \o b)) = SubSeq(a \o b, 1, Len(a \o b))
  <2> DEFINE ab == a \o b
  <2>1. 1 \in 1..Len(ab) /\ Len(ab) \in 1..Len(ab) /\ ab \in Seq(S)
    BY <1>2, <1>3
  <2> HIDE DEF ab
  <2>2. SubSeq(ab \o c, 1, Len(ab)) = SubSeq(ab, 1, Len(ab))
    BY <2>1, SubSeqOfConcat1
  <2> QED BY <2>2 DEF ab
<1>5. SubSeq(a \o b, 1, Len(a \o b)) = a \o b
  BY <1>2, SubSeqFull
<1> QED BY <1>1, <1>2, <1>3, <1>4, <1>5

(* The last of quiet batches is settled.                                      *)
LEMMA QuietLast ==
  ASSUME NEW bs, Quiet(bs), bs # <<>>
  PROVE  bs[Len(bs)].st \notin Running /\ bs[Len(bs)].st # Created
<1>1. Len(bs) \in DOMAIN bs
  BY DEF Quiet
<1> QED BY <1>1 DEF Quiet, Settled, Running, Created

(* _flush_all keeps the order: the next batch is the head of the queue.        *)
LEMMA FlushOrder ==
  ASSUME SizesAssumption, RunTypeOK, task = "alive", shutdown,
         accepted \in Seq(1..MaxPuts), accepted' = accepted,
         NEW bs, Quiet(bs), NEW p, Flush(bs, p),
         accepted = handed \o queue
  PROVE  /\ HandsOver \/ Finishes
         /\ accepted' = handed' \o (Unstarted' \o (batch' \o (taken' \o queue')))
<1>0. /\ queue \in Seq(1..MaxPuts) /\ handed \in Seq(1..MaxPuts)
      /\ MaxBatchSize \in Nat \ {0}
  BY DEF RunTypeOK, SizesAssumption
<1>1. CASE queue = <<>>
  <2>1. /\ batch' = <<>> /\ taken' = <<>> /\ queue' = <<>>
        /\ pc' = "done" /\ task' = "finished" /\ batches' = bs /\ handed' = handed
    BY <1>1 DEF Flush, NothingLeft
  <2>2. Serving' = 0 /\ Unstarted' = <<>>
    BY <2>1, QuietLast DEF Serving, Unstarted, Last
  <2>3. accepted = handed
    BY <1>0, <1>1, ConcatEmptySeq
  <2>4. Finishes
    BY <1>0, <2>1, <2>2, <2>3 DEF Finishes
  <2>5. <<>> \o <<>> = <<>> /\ handed \o <<>> = handed
    BY <1>0, ConcatEmptySeq
  <2> QED BY <2>1, <2>2, <2>3, <2>4, <2>5
<1>2. CASE queue # <<>>
  <2> DEFINE n == SmallerOf(MaxBatchSize, Len(queue))
             b == SubSeq(queue, 1, n)
             r == SubSeq(queue, n + 1, Len(queue))
  <2>1. n \in 1..MaxBatchSize /\ n <= Len(queue) /\ Len(queue) \in Nat
    BY <1>0, <1>2 DEF SmallerOf
  <2>2. /\ batch' = <<>> /\ taken' = <<>> /\ pc' = "flush" /\ task' = task
        /\ batches' = Append(bs, [items |-> b, st |-> "callback"])
        /\ handed' = handed \o b /\ queue' = r
    BY <1>2 DEF Flush, NothingLeft
  <2> HIDE DEF n
  <2>3. b \in Seq(1..MaxPuts) /\ Len(b) = n
    <3>1. 1 \in 1..(Len(queue) + 1) /\ n \in (1 - 1)..Len(queue) /\ n - 1 + 1 = n
      BY <2>1
    <3> QED BY <1>0, <3>1, SubSeqType
  <2>4. r \in Seq(1..MaxPuts)
    <3>1. n + 1 \in 1..(Len(queue) + 1) /\ Len(queue) \in ((n + 1) - 1)..Len(queue)
      BY <2>1
    <3> QED BY <1>0, <3>1, SubSeqType
  <2>5. b \o r = queue
    <3>1. 1 \in 1..Len(queue) + 1 /\ n \in 1 - 1..Len(queue) /\ Len(queue) \in n..Len(queue)
      BY <2>1
    <3>2. b \o r = SubSeq(queue, 1, Len(queue))
      BY <1>0, <3>1, ConcatAdjacentSubSeq
    <3> QED BY <1>0, <3>2, SubSeqFull
  <2> HIDE DEF b, r
  <2>6. /\ SubSeq(accepted, 1, Len(handed) + n) = handed \o b
        /\ Len(accepted) = Len(handed) + n + Len(r)
    <3>1. Len(b) > 0 /\ accepted = handed \o (b \o r)
      BY <2>1, <2>3, <2>5
    <3>2. /\ SubSeq(handed \o (b \o r), 1, Len(handed) + Len(b)) = handed \o b
          /\ Len(handed \o (b \o r)) = Len(handed) + Len(b) + Len(r)
      <4>1. handed \in Seq(1..MaxPuts) /\ b \in Seq(1..MaxPuts) /\ r \in Seq(1..MaxPuts)
        BY <1>0, <2>3, <2>4
      <4> QED BY ONLY <4>1, <3>1, PrefixOf
    <3> QED BY <2>3, <3>1, <3>2
  <2>7. Serving' = n /\ Unstarted' = <<>>
    <3>1. batches' # <<>> /\ Last' = [items |-> b, st |-> "callback"]
      <4> DEFINE new == [items |-> b, st |-> "callback"]
      <4>1. new \in Batch /\ bs \in Seq(Batch)
        BY <2>3 DEF Batch, Status, Running, Quiet
      <4> HIDE DEF new
      <4>2. Append(bs, new) # <<>> /\ Append(bs, new)[Len(Append(bs, new))] = new
        BY <4>1, AppendProperties
      <4> QED BY <2>2, <4>2 DEF Last, new
    <3> QED BY <2>3, <3>1 DEF Serving, Unstarted, Running, Created
  <2>8. HandsOver
    <3>1. Len(handed) \in Nat /\ Len(r) \in Nat
      BY <1>0, <2>4
    <3>2. n <= Len(accepted) - Len(handed)
      BY <2>1, <2>6, <3>1
    <3> QED BY <2>1, <2>2, <2>6, <2>7, <3>2 DEF HandsOver
  <2>9. accepted' = handed' \o queue'
    <3>1. (handed \o b) \o r = handed \o (b \o r)
      <4>1. handed \in Seq(1..MaxPuts) /\ b \in Seq(1..MaxPuts) /\ r \in Seq(1..MaxPuts)
        BY <1>0, <2>3, <2>4
      <4> QED BY ONLY <4>1, ConcatAssociative
    <3> QED BY <2>2, <2>5, <3>1
  <2>10. <<>> \o queue' = queue'
    BY <2>2, <2>4, ConcatEmptySeq
  <2> QED BY <2>2, <2>7, <2>8, <2>9, <2>10
<1> QED BY <1>1, <1>2

(* The head of run()'s loop keeps the order, u being what f has not begun.     *)
LEMMA LoopHeadOrder ==
  ASSUME SizesAssumption, RunTypeOK, task = "alive", shutdown \in BOOLEAN,
         accepted \in Seq(1..MaxPuts), accepted' = accepted,
         NEW bs, NEW f, NEW p, NEW u,
         \/ Quiet(bs) /\ f = 0 /\ u = <<>>
         \/ LaunchedIn(bs, f) /\ u = bs[f].items,
         LoopHead(bs, f, p),
         accepted = handed \o (u \o queue)
  PROVE  /\ Stays \/ HandsOver \/ Finishes
         /\ accepted' = handed' \o (Unstarted' \o (batch' \o (taken' \o queue')))
<1>1. CASE shutdown /\ f = 0
  <2>1. Quiet(bs) /\ u = <<>> /\ Flush(bs, p)
    BY <1>1 DEF LoopHead, MustDrain, LaunchedIn
  <2>2. accepted = handed \o queue
    BY <2>1, ConcatEmptySeq DEF RunTypeOK
  <2> QED BY <1>1, <2>1, <2>2, FlushOrder
<1>2. CASE ~(shutdown /\ f = 0)
  <2>1. /\ batch' = <<>> /\ taken' = <<>> /\ batches' = bs
        /\ queue' = queue /\ task' = task /\ handed' = handed
        /\ pc' \in {"wait", "drain"}
    BY <1>2 DEF LoopHead, MustDrain
  <2>2. Serving' = 0 /\ Unstarted' = u
    <3>1. CASE Quiet(bs) /\ u = <<>>
      BY <2>1, <3>1, QuietLast DEF Serving, Unstarted, Last
    <3>2. CASE LaunchedIn(bs, f) /\ u = bs[f].items
      <4>1. bs # <<>> /\ bs[Len(bs)].st = Created /\ bs[Len(bs)].items = u
        BY <3>2 DEF LaunchedIn
      <4> QED BY <2>1, <4>1 DEF Serving, Unstarted, Last, Running, Created
    <3> QED BY <3>1, <3>2
  <2>3. Stays
    BY <2>1, <2>2 DEF Stays
  <2>4. <<>> \o queue = queue
    BY ConcatEmptySeq DEF RunTypeOK
  <2> QED BY <2>1, <2>2, <2>3, <2>4
<1> QED BY <1>1, <1>2

(* A collected batch is next after what was handed over.                      *)
LEMMA LaunchOrder ==
  ASSUME SizesAssumption, RunTypeOK, task = "alive", shutdown \in BOOLEAN,
         accepted \in Seq(1..MaxPuts), accepted' = accepted, Quiet(batches),
         NEW b \in Seq(1..MaxPuts), Len(b) <= MaxBatchSize, NEW p, Launch(b, p),
         accepted = handed \o (b \o queue)
  PROVE  /\ Stays \/ HandsOver \/ Finishes
         /\ accepted' = handed' \o (Unstarted' \o (batch' \o (taken' \o queue')))
<1>1. CASE b = <<>>
  <2>1. LoopHead(batches, 0, p)
    BY <1>1 DEF Launch
  <2> QED BY <1>1, <2>1, LoopHeadOrder
<1>2. CASE b # <<>>
  <2> DEFINE new == [items |-> b, st |-> Created]
             bs == Append(batches, new)
             f == Len(batches) + 1
  <2>1. LoopHead(bs, f, p)
    BY <1>2 DEF Launch
  <2>2. new \in Batch /\ new.st = Created /\ new.items = b /\ Len(b) \in 1..MaxBatchSize
    BY <1>2 DEF Batch, Status, Created, SizesAssumption
  <2> HIDE DEF new
  <2>3. /\ bs \in Seq(Batch) /\ Len(bs) = f /\ bs[f] = new /\ f > 0
        /\ \A i \in DOMAIN bs : i # f => i \in DOMAIN batches /\ bs[i] = batches[i]
    BY <2>2, AppendProperties DEF RunTypeOK
  <2> HIDE DEF bs, f
  <2>4. LaunchedIn(bs, f) /\ b = bs[f].items
    BY <2>2, <2>3 DEF LaunchedIn, Quiet
  <2> QED BY <2>1, <2>4, LoopHeadOrder
<1> QED BY <1>1, <1>2

(* Nothing is served and nothing is unstarted in quiet batches.               *)
LEMMA QuietServesNothing ==
  ASSUME Quiet(batches)
  PROVE  Serving = 0 /\ Unstarted = <<>>
BY QuietLast DEF Serving, Unstarted, Last

(* What run() collected is next, whether it has to await the batch in flight. *)
LEMMA CollectedOrder ==
  ASSUME SizesAssumption, RunInv, pc = "wait", shutdown \in BOOLEAN,
         accepted \in Seq(1..MaxPuts), accepted' = accepted,
         NEW b \in Seq(1..MaxPuts), Len(b) <= MaxBatchSize, NEW p, Collected(b, p),
         accepted = handed \o (Unstarted \o (b \o queue))
  PROVE  /\ \/ Serving = 0 /\ (Stays \/ HandsOver \/ Finishes)
            \/ /\ Serving' = Serving /\ handed' = handed
               /\ task' = "alive" /\ pc' # "unwind"
         /\ accepted' = handed' \o (Unstarted' \o (batch' \o (taken' \o queue')))
<1>0. RunTypeOK /\ queue \in Seq(1..MaxPuts) /\ handed \in Seq(1..MaxPuts) /\ task = "alive"
  BY DEF RunInv, RunTypeOK, RunShape
<1>1. CASE InFlightDone
  <2>1. Quiet(batches)
    BY <1>1, DoneIsQuiet
  <2>2. Launch(b, p)
    BY <1>1 DEF Collected
  <2>3. Serving = 0 /\ Unstarted = <<>>
    BY <2>1, QuietServesNothing
  <2>4. accepted = handed \o (b \o queue)
    <3>1. b \o queue \in Seq(1..MaxPuts)
      BY <1>0, ConcatProperties
    <3> QED BY <2>3, <3>1, ConcatEmptySeq
  <2> QED BY <1>0, <2>1, <2>2, <2>3, <2>4, LaunchOrder
<1>2. CASE ~InFlightDone
  <2>1. /\ pc' = "join" /\ batch' = b /\ taken' = <<>> /\ queue' = queue /\ task' = task
        /\ batches' = batches /\ handed' = handed
    BY <1>2 DEF Collected
  <2>2. Serving' = Serving /\ Unstarted' = Unstarted
    BY <2>1 DEF Serving, Unstarted, Last
  <2>3. <<>> \o queue = queue
    BY <1>0, ConcatEmptySeq
  <2> QED BY <1>0, <2>1, <2>2, <2>3
<1> QED BY <1>1, <1>2

(* The running batch, if any, is the last one.                                *)
LEMMA RunningLast ==
  ASSUME NEW bs \in Seq(Batch),
         \A i \in DOMAIN bs : bs[i].st \in Running => i = Len(bs),
         NEW r, r = {i \in DOMAIN bs : bs[i].st \in Running}
  PROVE  (IF r = {} THEN 0 ELSE Len(bs[CHOOSE i \in r : TRUE].items))
           = (IF bs # <<>> /\ bs[Len(bs)].st \in Running THEN Len(bs[Len(bs)].items) ELSE 0)
<1>1. Len(bs) \in Nat /\ DOMAIN bs = 1..Len(bs) /\ (bs # <<>> <=> Len(bs) \in DOMAIN bs)
  OBVIOUS
<1>2. CASE r = {}
  BY <1>1, <1>2
<1>3. CASE r # {}
  <2>1. (CHOOSE i \in r : TRUE) \in r
    BY <1>3
  <2>2. (CHOOSE i \in r : TRUE) = Len(bs) /\ bs # <<>> /\ bs[Len(bs)].st \in Running
    BY <1>1, <2>1
  <2> QED BY <1>3, <2>2
<1> QED BY <1>2, <1>3

(* Busy, in this state and in the next.                                       *)
LEMMA BusyIs == IndInv => Busy = IF pc = "unwind" THEN 0 ELSE Serving
<1> SUFFICES ASSUME IndInv PROVE Busy = IF pc = "unwind" THEN 0 ELSE Serving
  OBVIOUS
<1>1. /\ batches \in Seq(Batch)
      /\ \A i \in DOMAIN batches : batches[i].st \in Running => i = Len(batches)
  BY DEF IndInv, TypeOK, BatchesShape, Live
<1> QED BY <1>1, RunningLast DEF Busy, Serving, Last

(* The same of the next state.                                                *)
LEMMA BusyIsPrime == IndInv' => Busy' = IF pc' = "unwind" THEN 0 ELSE Serving'
<1> SUFFICES ASSUME IndInv' PROVE Busy' = IF pc' = "unwind" THEN 0 ELSE Serving'
  OBVIOUS
<1>1. /\ batches' \in Seq(Batch)
      /\ \A i \in DOMAIN batches' : batches'[i].st \in Running => i = Len(batches')
  BY DEF IndInv, TypeOK, BatchesShape, Live
<1> QED BY <1>1, RunningLast DEF Busy, Serving, Last

(* A step of BatchQueue, or none that it sees.                                *)
AbstractStep == [Abstract!Next]_(Abstract!vars)

(* A stretch of run() that begins with nothing served.                        *)
LEMMA StretchMaps ==
  ASSUME IndInv, IndInv', task = "alive", pc # "unwind", Serving = 0,
         Stays \/ HandsOver \/ Finishes, UNCHANGED <<accepted, shutdown>>
  PROVE  AbstractStep
<1>1. Busy = 0 /\ Consumer = "active" /\ Busy' = Serving' /\ shutdown \in BOOLEAN
  BY BusyIs, BusyIsPrime DEF Consumer, Stays, HandsOver, Finishes, IndInv, TypeOK
<1>2. CASE Stays
  <2>1. Consumer' = "active" /\ Busy' = 0
    BY <1>1, <1>2 DEF Stays, Consumer
  <2> QED BY <1>1, <1>2, <2>1 DEF Stays, AbstractStep, Abstract!vars
<1>3. CASE HandsOver
  <2>1. Consumer' = "active"
    BY <1>3 DEF HandsOver, Consumer
  <2>2. \E n \in 1..MaxBatchSize : Abstract!Hand(n)
    BY <1>1, <1>3, <2>1 DEF HandsOver, Abstract!Hand, Abstract!Waiting
  <2> QED BY <2>2 DEF AbstractStep, Abstract!Next
<1>4. CASE Finishes
  <2>1. Consumer' = "finished"
    BY <1>4 DEF Finishes, Consumer
  <2>2. Abstract!Finish
    BY <1>1, <1>4, <2>1 DEF Finishes, Abstract!Finish, Abstract!Waiting
  <2> QED BY <2>2 DEF AbstractStep, Abstract!Next
<1> QED BY <1>2, <1>3, <1>4

(* ... that begins where the batch being served ends.                         *)
LEMMA SettleMaps ==
  ASSUME IndInv, IndInv', task = "alive", pc # "unwind", Serving > 0,
         Stays \/ HandsOver \/ Finishes, UNCHANGED <<accepted, shutdown>>
  PROVE  AbstractStep
<1>1. /\ Busy = Serving /\ Consumer = "active" /\ Busy' = Serving' /\ Busy > 0
      /\ UNCHANGED <<accepted, ~shutdown>>
  BY BusyIs, BusyIsPrime DEF Consumer, Stays, HandsOver, Finishes
<1>2. CASE Stays
  <2>1. Consumer' = "active"
    BY <1>2 DEF Stays, Consumer
  <2> QED BY <1>1, <1>2, <2>1 DEF Stays, Abstract!Settle, AbstractStep, Abstract!Next
<1>3. CASE HandsOver
  <2>1. Consumer' = "active"
    BY <1>3 DEF HandsOver, Consumer
  <2>2. Abstract!Settle
    BY <1>1, <1>3, <2>1 DEF HandsOver, Abstract!Settle, Abstract!Waiting
  <2> QED BY <2>2 DEF AbstractStep, Abstract!Next
<1>4. CASE Finishes
  <2>1. Consumer' = "finished"
    BY <1>4 DEF Finishes, Consumer
  <2>2. Abstract!Settle
    BY <1>1, <1>4, <2>1 DEF Finishes, Abstract!Settle, Abstract!Waiting
  <2> QED BY <2>2 DEF AbstractStep, Abstract!Next
<1> QED BY <1>2, <1>3, <1>4

(* Nothing of what BatchQueue sees changes.                                   *)
LEMMA StutterMaps ==
  ASSUME IndInv, IndInv', Serving' = Serving, Consumer' = Consumer,
         pc = "unwind" <=> pc' = "unwind", UNCHANGED <<accepted, handed, shutdown>>
  PROVE  AbstractStep
BY BusyIs, BusyIsPrime DEF AbstractStep, Abstract!vars

-----------------------------------------------------------------------------
(* The invariant of the refinement.                                           *)
RefInv == IndInv /\ StopsInv /\ OrderInv

(* The types the order is about.                                              *)
LEMMA OrderTypes ==
  ASSUME IndInv
  PROVE  /\ SizesAssumption /\ RunInv /\ RunTypeOK
         /\ accepted \in Seq(1..MaxPuts) /\ handed \in Seq(1..MaxPuts)
         /\ queue \in Seq(1..MaxPuts) /\ batch \in Seq(1..MaxPuts)
         /\ taken \in Seq(1..MaxPuts) /\ Unstarted \in Seq(1..MaxPuts)
         /\ shutdown \in BOOLEAN
<1>1. RunInv /\ RunTypeOK /\ OtherTypeOK
  BY IndInvSplit DEF RunInv
<1>2. Unstarted \in Seq(1..MaxPuts)
  <2>1. batches \in Seq(Batch)
    BY <1>1 DEF RunTypeOK
  <2>2. CASE batches = <<>>
    BY <2>2 DEF Unstarted
  <2>3. CASE batches # <<>>
    <3>1. Last \in Batch
      BY <2>1, <2>3 DEF Last
    <3>2. Last.items \in Seq(1..MaxPuts)
      BY <3>1 DEF Batch
    <3>3. Unstarted = Last.items \/ Unstarted = <<>>
      BY DEF Unstarted
    <3> QED BY <3>2, <3>3, EmptySeq
  <2> QED BY <2>2, <2>3
<1> QED BY <1>1, <1>2, SizesAssumption DEF RunTypeOK, OtherTypeOK

(* What is added to the queue is added to all that precedes it.               *)
LEMMA InLine ==
  ASSUME NEW Item, handed \in Seq(Item), Unstarted \in Seq(Item), batch \in Seq(Item),
         taken \in Seq(Item), queue \in Seq(Item), NEW e \in Seq(Item)
  PROVE  /\ Len(handed \o (Unstarted \o (batch \o (taken \o queue))))
              = Len(handed) + (Len(Unstarted) + (Len(batch) + (Len(taken) + Len(queue))))
         /\ (handed \o (Unstarted \o (batch \o (taken \o queue)))) \o e
              = handed \o (Unstarted \o (batch \o (taken \o (queue \o e))))
<1> DEFINE tq == taken \o queue
           bq == batch \o tq
           uq == Unstarted \o bq
<1>1. tq \in Seq(Item) /\ Len(tq) = Len(taken) + Len(queue)
  BY ConcatProperties
<1>2. tq \o e = taken \o (queue \o e)
  <2>1. taken \in Seq(Item) /\ queue \in Seq(Item) /\ e \in Seq(Item)
    OBVIOUS
  <2> QED BY ONLY <2>1, ConcatAssociative, SMTT(40)
<1> HIDE DEF tq
<1>3. bq \in Seq(Item) /\ Len(bq) = Len(batch) + Len(tq)
  BY <1>1, ConcatProperties
<1>4. bq \o e = batch \o (tq \o e)
  <2>1. batch \in Seq(Item) /\ tq \in Seq(Item) /\ e \in Seq(Item)
    BY <1>1
  <2> QED BY ONLY <2>1, ConcatAssociative, SMTT(40)
<1> HIDE DEF bq
<1>5. uq \in Seq(Item) /\ Len(uq) = Len(Unstarted) + Len(bq)
  BY <1>3, ConcatProperties
<1>6. uq \o e = Unstarted \o (bq \o e)
  <2>1. Unstarted \in Seq(Item) /\ bq \in Seq(Item) /\ e \in Seq(Item)
    BY <1>3
  <2> QED BY ONLY <2>1, ConcatAssociative, SMTT(40)
<1> HIDE DEF uq
<1>7. Len(handed \o uq) = Len(handed) + Len(uq)
  BY <1>5, ConcatProperties
<1>8. (handed \o uq) \o e = handed \o (uq \o e)
  <2>1. handed \in Seq(Item) /\ uq \in Seq(Item) /\ e \in Seq(Item)
    BY <1>5
  <2> QED BY ONLY <2>1, ConcatAssociative, SMTT(40)
<1>9. handed \o uq = handed \o (Unstarted \o (batch \o (taken \o queue)))
  BY DEF uq, bq, tq
<1> QED BY <1>1, <1>2, <1>3, <1>4, <1>5, <1>6, <1>7, <1>8, <1>9

(* put() accepts only what fits.                                              *)
LEMMA PutRefines ==
  ASSUME RefInv, IndInv', PutAccepted
  PROVE  OrderInv' /\ AbstractStep
<1>1. /\ ~shutdown /\ Len(queue) < MaxQueueSize /\ puts' = puts + 1 /\ puts < MaxPuts
      /\ queue' = Append(queue, puts + 1) /\ accepted' = Append(accepted, puts + 1)
      /\ UNCHANGED <<shutdown, task, pc, batch, taken, batches, handed>>
  BY DEF PutAccepted, runVars, procVars
<1>2. /\ ~Abandoned /\ ~Abandoned' /\ Unstarted' = Unstarted /\ Serving' = Serving
      /\ Consumer' = Consumer
  BY <1>1 DEF RefInv, OrderInv, Abandoned, Unstarted, Serving, Last, Consumer
<1>3. accepted = handed \o (Unstarted \o (batch \o (taken \o queue)))
  BY <1>2 DEF RefInv, OrderInv
<1>4. /\ SizesAssumption /\ RunInv /\ accepted \in Seq(1..MaxPuts)
      /\ handed \in Seq(1..MaxPuts) /\ queue \in Seq(1..MaxPuts)
      /\ batch \in Seq(1..MaxPuts) /\ taken \in Seq(1..MaxPuts)
      /\ Unstarted \in Seq(1..MaxPuts) /\ puts + 1 \in 1..MaxPuts
  <2>1. puts + 1 \in 1..MaxPuts
    BY <1>1, SizesAssumption DEF RefInv, IndInv, TypeOK, SizesAssumption
  <2> QED BY <2>1, OrderTypes DEF RefInv
<1>9. /\ Len(accepted) = Len(handed) + (Len(Unstarted) + (Len(batch) + (Len(taken) + Len(queue))))
      /\ accepted' = handed \o (Unstarted \o (batch \o (taken \o queue')))
  <2> DEFINE e == <<puts + 1>>
  <2>1. e \in Seq(1..MaxPuts) /\ queue' = queue \o e /\ accepted' = accepted \o e
    <3>1. e \in Seq(1..MaxPuts)
      BY <1>4
    <3>2. queue \in Seq(1..MaxPuts) /\ accepted \in Seq(1..MaxPuts) /\ puts + 1 \in 1..MaxPuts
      BY <1>4
    <3>3. Append(queue, puts + 1) = queue \o e
      BY ONLY <3>2, AppendIsConcat, SMTT(40)
    <3>4. Append(accepted, puts + 1) = accepted \o e
      BY ONLY <3>2, AppendIsConcat, SMTT(40)
    <3> QED BY <1>1, <3>1, <3>3, <3>4
  <2> HIDE DEF e
  <2>2. /\ handed \in Seq(1..MaxPuts) /\ Unstarted \in Seq(1..MaxPuts)
        /\ batch \in Seq(1..MaxPuts) /\ taken \in Seq(1..MaxPuts)
        /\ queue \in Seq(1..MaxPuts) /\ e \in Seq(1..MaxPuts)
    BY <1>4, <2>1
  <2>3. /\ Len(handed \o (Unstarted \o (batch \o (taken \o queue))))
             = Len(handed) + (Len(Unstarted) + (Len(batch) + (Len(taken) + Len(queue))))
        /\ (handed \o (Unstarted \o (batch \o (taken \o queue)))) \o e
             = handed \o (Unstarted \o (batch \o (taken \o (queue \o e))))
    BY <2>2, InLine, Zenon
  <2> QED BY <1>3, <2>1, <2>3
<1>10. OrderInv'
  <2>1. accepted' = handed' \o (Unstarted' \o (batch' \o (taken' \o queue')))
    BY <1>1, <1>2, <1>9
  <2> QED BY <1>2, <2>1 DEF OrderInv
<1>11. Len(accepted) - Len(handed) < MaxQueueSize + 2 * MaxBatchSize
  <2>1. /\ Len(accepted) - Len(handed)
             = Len(Unstarted) + (Len(batch) + (Len(taken) + Len(queue)))
        /\ Len(Unstarted) \in Nat /\ Len(batch) \in Nat /\ Len(taken) \in Nat
        /\ Len(queue) \in Nat
    BY <1>4, <1>9
  <2>2. Len(Unstarted) <= MaxBatchSize
    <3>1. batches # <<>> => Len(Last.items) \in 1..MaxBatchSize
      BY <1>4 DEF RunInv, RunTypeOK, BatchesShape, Last
    <3> QED BY <1>4, <3>1 DEF Unstarted, SizesAssumption
  <2>3. Len(batch) + Len(taken) <= MaxBatchSize /\ MaxBatchSize \in Nat /\ MaxQueueSize \in Nat
    BY <1>4 DEF RunInv, RunShape, SizesAssumption
  <2> QED BY <1>1, <2>1, <2>2, <2>3
<1>12. Abstract!Accept(puts + 1)
  <2>1. Busy' = Busy
    BY <1>1, <1>2, BusyIs, BusyIsPrime DEF RefInv
  <2> QED BY <1>1, <1>2, <1>11, <2>1 DEF Abstract!Accept, Abstract!Waiting
<1> QED BY <1>4, <1>10, <1>12 DEF AbstractStep, Abstract!Next

(* start() activates the consumer.                                           *)
LEMMA StartRefines ==
  ASSUME RefInv, IndInv', Start
  PROVE  OrderInv' /\ AbstractStep
<1>1. /\ task = "none" /\ pc = "none" /\ ~shutdown /\ task' = "alive" /\ pc' = "created"
      /\ UNCHANGED <<queue, shutdown, batch, taken, batches, handed, accepted>>
  BY DEF RefInv, IndInv, RunShape, Start, procVars, putVars
<1>2. Unstarted' = Unstarted /\ Serving' = Serving
  BY <1>1 DEF Unstarted, Serving, Last
<1>3. OrderInv'
  BY <1>1, <1>2 DEF RefInv, OrderInv, Abandoned
<1>4. Busy' = Busy /\ Consumer = "idle" /\ Consumer' = "active"
  BY <1>1, <1>2, BusyIs, BusyIsPrime DEF RefInv, Consumer
<1>5. Abstract!Activate
  BY <1>1, <1>4 DEF Abstract!Activate
<1> QED BY <1>3, <1>5 DEF AbstractStep, Abstract!Next

(* The getter takes the next item.                                            *)
LEMMA GetterRefines ==
  ASSUME RefInv, IndInv', GetterTakes
  PROVE  OrderInv' /\ AbstractStep
<1>1. /\ taken = <<>> /\ queue # <<>> /\ taken' = <<Head(queue)>> /\ queue' = Tail(queue)
      /\ UNCHANGED <<shutdown, task, pc, batch, batches, handed, accepted>>
  BY DEF RefInv, IndInv, RunShape, GetterTakes, procVars, putVars
<1>2. /\ Unstarted' = Unstarted /\ Serving' = Serving /\ Consumer' = Consumer
      /\ Abandoned' = Abandoned
  BY <1>1 DEF Unstarted, Serving, Last, Consumer, Abandoned
<1>3. taken' \o queue' = taken \o queue
  <2>1. queue \in Seq(1..MaxPuts)
    BY OrderTypes DEF RefInv
  <2>2. <<Head(queue)>> \o Tail(queue) = queue
    BY <1>1, <2>1
  <2>3. <<>> \o queue = queue
    BY <2>1, ConcatEmptySeq
  <2> QED BY <1>1, <2>2, <2>3
<1>4. OrderInv'
  BY <1>1, <1>2, <1>3 DEF RefInv, OrderInv
<1>5. AbstractStep
  BY <1>1, <1>2, StutterMaps DEF RefInv
<1> QED BY <1>4, <1>5

(* The order, where nothing was cancelled.                                    *)
InOrder == accepted = handed \o (Unstarted \o (batch \o (taken \o queue)))

(* After a stretch of run() it is not cancelled.                              *)
LEMMA StretchOrder ==
  ASSUME task' \in {"alive", "finished"}, pc' # "unwind", InOrder'
  PROVE  OrderInv'
BY DEF OrderInv, Abandoned, InOrder

(* None of the three outcomes of a stretch is a cancellation.                 *)
LEMMA OutcomeIsNotCancelled ==
  ASSUME Stays \/ HandsOver \/ Finishes
  PROVE  task' \in {"alive", "finished"} /\ pc' # "unwind"
BY DEF Stays, HandsOver, Finishes

(* run() is stepped for the first time.                                       *)
LEMMA RunBeginsRefines ==
  ASSUME RefInv, IndInv', RunBegins
  PROVE  OrderInv' /\ AbstractStep
<1>0. /\ SizesAssumption /\ RunInv /\ RunTypeOK /\ shutdown \in BOOLEAN
      /\ accepted \in Seq(1..MaxPuts) /\ queue \in Seq(1..MaxPuts)
  BY OrderTypes DEF RefInv
<1>1. /\ pc = "created" /\ LoopHead(batches, 0, pending)
      /\ accepted' = accepted /\ shutdown' = shutdown
  BY DEF RunBegins, putVars
<1>2. task = "alive" /\ batch = <<>> /\ taken = <<>> /\ ~Abandoned
  BY <1>0, <1>1 DEF RunInv, RunShape, RunTypeOK, Abandoned
<1>3. Quiet(batches)
  <2>1. \A i \in DOMAIN batches : /\ batches[i] \in Batch /\ ~Live(batches[i])
                                  /\ batches[i].st # "cancelled"
                                  /\ Len(batches[i].items) \in 1..MaxBatchSize
    BY <1>0, <1>1, <1>2 DEF RunInv, RunTypeOK, BatchesShape
  <2> QED BY <1>0, <2>1 DEF RunTypeOK, Quiet, Batch, Status, Live, Created, Running, Settled
<1>4. Serving = 0 /\ Unstarted = <<>>
  BY <1>3, QuietServesNothing
<1>5. accepted = handed \o (<<>> \o queue)
  <2>1. accepted = handed \o (<<>> \o (<<>> \o (<<>> \o queue)))
    BY <1>2, <1>4 DEF RefInv, OrderInv
  <2>2. <<>> \o queue = queue
    BY <1>0, ConcatEmptySeq
  <2> QED BY <2>1, <2>2
<1>6. (Stays \/ HandsOver \/ Finishes) /\ InOrder'
  BY <1>0, <1>1, <1>2, <1>3, <1>5, LoopHeadOrder DEF InOrder
<1>7. OrderInv'
  BY <1>6, StretchOrder, OutcomeIsNotCancelled
<1>8. AbstractStep
  BY <1>1, <1>2, <1>4, <1>6, StretchMaps DEF RefInv
<1> QED BY <1>7, <1>8

(* run() resumes from its wait.                                               *)
LEMMA WaitRefines ==
  ASSUME RefInv, IndInv', WaitItem \/ WaitNothing
  PROVE  OrderInv' /\ AbstractStep
<1>0. /\ SizesAssumption /\ RunInv /\ RunTypeOK /\ shutdown \in BOOLEAN
      /\ accepted \in Seq(1..MaxPuts) /\ queue \in Seq(1..MaxPuts)
      /\ batch \in Seq(1..MaxPuts) /\ taken \in Seq(1..MaxPuts)
  BY OrderTypes DEF RefInv
<1>1. pc = "wait" /\ accepted' = accepted /\ shutdown' = shutdown
  BY DEF WaitItem, WaitNothing, putVars
<1>2. task = "alive" /\ ~Abandoned /\ Len(batch) < MaxBatchSize /\ MaxBatchSize \in Nat
  BY <1>0, <1>1 DEF RunInv, RunShape, RunTypeOK, Abandoned, SizesAssumption
<1>3. accepted = handed \o (Unstarted \o (batch \o (taken \o queue)))
  BY <1>2 DEF RefInv, OrderInv
<1> DEFINE b == batch \o taken
<1>4. /\ b \in Seq(1..MaxPuts) /\ b \o queue = batch \o (taken \o queue)
      /\ Len(b) = Len(batch) + Len(taken)
  <2>1. b \in Seq(1..MaxPuts) /\ Len(b) = Len(batch) + Len(taken)
    BY <1>0, ConcatProperties
  <2>2. b \o queue = batch \o (taken \o queue)
    <3>1. batch \in Seq(1..MaxPuts) /\ taken \in Seq(1..MaxPuts) /\ queue \in Seq(1..MaxPuts)
      BY <1>0
    <3> QED BY ONLY <3>1, ConcatAssociative, SMTT(40)
  <2> QED BY <2>1, <2>2
<1>5. Len(b) <= MaxBatchSize
  BY <1>0, <1>4 DEF RunInv, RunShape
<1>6. taken = <<>> => b = batch
  BY <1>0, ConcatEmptySeq
<1> HIDE DEF b
<1>7. accepted = handed \o (Unstarted \o (b \o queue))
  BY <1>3, <1>4
<1>8. \/ /\ WaitItem
         /\ batch' = b /\ getter' = "pending" /\ taken' = <<>>
         /\ UNCHANGED <<queue, task, pc, inFlight, batches, handed>>
      \/ \E p \in {pending, pending + 1} : Collected(b, p)
  <2>1. CASE WaitItem
    BY <2>1 DEF WaitItem, b
  <2>2. CASE WaitNothing
    <3>1. taken = <<>>
      BY <1>0, <1>1, <2>2 DEF RunInv, RunShape, RunTypeOK, WaitNothing, GetterHasItem
    <3> QED BY <1>6, <2>2, <3>1 DEF WaitNothing
  <2> QED BY <2>1, <2>2
<1>9. CASE \E p \in {pending, pending + 1} : Collected(b, p)
  <2>1. PICK p : Collected(b, p)
    BY <1>9
  <2>2. /\ \/ Serving = 0 /\ (Stays \/ HandsOver \/ Finishes)
           \/ /\ Serving' = Serving /\ handed' = handed
              /\ task' = "alive" /\ pc' # "unwind"
        /\ InOrder'
    BY <1>0, <1>1, <1>4, <1>5, <1>7, <2>1, CollectedOrder DEF InOrder
  <2>3. CASE Serving = 0 /\ (Stays \/ HandsOver \/ Finishes)
    <3>1. OrderInv'
      BY <2>2, <2>3, StretchOrder, OutcomeIsNotCancelled
    <3>2. AbstractStep
      BY <1>1, <1>2, <2>3, StretchMaps DEF RefInv
    <3> QED BY <3>1, <3>2
  <2>4. CASE Serving' = Serving /\ handed' = handed /\ task' = "alive" /\ pc' # "unwind"
    <3>1. OrderInv'
      BY <2>2, <2>4, StretchOrder
    <3>2. Consumer' = Consumer
      BY <1>1, <1>2, <2>4 DEF Consumer
    <3>3. AbstractStep
      BY <1>1, <2>4, <3>2, StutterMaps DEF RefInv
    <3> QED BY <3>1, <3>3
  <2> QED BY <2>2, <2>3, <2>4
<1>10. CASE /\ batch' = b /\ taken' = <<>>
            /\ UNCHANGED <<queue, task, pc, inFlight, batches, handed>>
  <2>1. Serving' = Serving /\ Unstarted' = Unstarted /\ Consumer' = Consumer
    BY <1>10 DEF Serving, Unstarted, Last, Consumer
  <2>2. <<>> \o queue = queue
    BY <1>0, ConcatEmptySeq
  <2>3. InOrder'
    BY <1>1, <1>7, <1>10, <2>1, <2>2 DEF InOrder
  <2>4. OrderInv'
    BY <1>1, <1>2, <1>10, <2>3, StretchOrder
  <2>5. AbstractStep
    BY <1>1, <1>10, <2>1, StutterMaps DEF RefInv
  <2> QED BY <2>4, <2>5
<1> QED BY <1>8, <1>9, <1>10

(* run() resumes once the batch in flight is done.                            *)
LEMMA JoinRefines ==
  ASSUME RefInv, IndInv', Join \/ Drained
  PROVE  OrderInv' /\ AbstractStep
<1>0. /\ SizesAssumption /\ RunInv /\ RunTypeOK /\ shutdown \in BOOLEAN
      /\ accepted \in Seq(1..MaxPuts) /\ queue \in Seq(1..MaxPuts)
      /\ batch \in Seq(1..MaxPuts)
  BY OrderTypes DEF RefInv
<1>1. /\ pc \in {"join", "drain"} /\ InFlightDone
      /\ accepted' = accepted /\ shutdown' = shutdown
  BY DEF Join, Drained, putVars
<1>2. /\ Quiet(batches) /\ task = "alive" /\ taken = <<>> /\ ~Abandoned
      /\ Serving = 0 /\ Unstarted = <<>>
  BY <1>0, <1>1, DoneIsQuiet, QuietServesNothing DEF RunInv, RunShape, RunTypeOK, Abandoned
<1>3. accepted = handed \o (batch \o queue)
  <2>1. accepted = handed \o (<<>> \o (batch \o (<<>> \o queue)))
    BY <1>2 DEF RefInv, OrderInv
  <2>2. <<>> \o queue = queue
    BY <1>0, ConcatEmptySeq
  <2>3. <<>> \o (batch \o queue) = batch \o queue
    BY <1>0, ConcatProperties, ConcatEmptySeq
  <2> QED BY <2>1, <2>2, <2>3
<1>4. (Stays \/ HandsOver \/ Finishes) /\ InOrder'
  <2>1. CASE Join
    <3>1. Launch(batch, pending) /\ Len(batch) <= MaxBatchSize
      BY <1>0, <2>1 DEF Join, RunInv, RunShape
    <3> QED BY <1>0, <1>1, <1>2, <1>3, <3>1, LaunchOrder DEF InOrder
  <2>2. CASE Drained
    <3>1. shutdown /\ batch = <<>> /\ Flush(batches, pending)
      BY <1>0, <2>2 DEF Drained, RunInv, RunShape
    <3>2. accepted = handed \o queue
      BY <1>0, <1>3, <3>1, ConcatEmptySeq
    <3> QED BY <1>0, <1>1, <1>2, <3>1, <3>2, FlushOrder DEF InOrder
  <2> QED BY <2>1, <2>2
<1>5. OrderInv'
  BY <1>4, StretchOrder, OutcomeIsNotCancelled
<1>6. AbstractStep
  BY <1>1, <1>2, <1>4, StretchMaps DEF RefInv
<1> QED BY <1>5, <1>6

(* The cancelled run() ends.                                                  *)
LEMMA UnwindRefines ==
  ASSUME RefInv, IndInv', Unwind
  PROVE  OrderInv' /\ AbstractStep
<1>1. /\ pc = "unwind" /\ pc' = "done" /\ task' = "cancelled" /\ shutdown
      /\ UNCHANGED <<shutdown, handed, accepted>>
  BY DEF RefInv, OrderInv, Abandoned, Unwind, Unwinding, putVars
<1>2. OrderInv'
  BY <1>1 DEF OrderInv, Abandoned
<1>3. ~SomeLive'
  BY <1>1 DEF IndInv, TypeOK, RunShape, BatchesShape, SomeLive
<1>4. Busy' = 0
  <2>1. Serving' = 0
    BY <1>3 DEF SomeLive, Live, Serving, Last, IndInv, TypeOK
  <2> QED BY <1>1, <2>1, BusyIsPrime
<1>5. Busy = 0 /\ Consumer = "abandoned" /\ Consumer' = "abandoned"
  BY <1>1, BusyIs DEF RefInv, Consumer, IndInv, RunShape
<1> QED BY <1>1, <1>2, <1>4, <1>5 DEF AbstractStep, Abstract!vars

(* _process returns, and run() goes on if it was flushing.                    *)
LEMMA ReturnRefines ==
  ASSUME RefInv, IndInv', UNCHANGED <<accepted, shutdown>>,
         NEW i \in DOMAIN batches, batches[i].st \in Running, ~Unwinding,
         NEW st \in Settled, Return(i, st)
  PROVE  OrderInv' /\ AbstractStep
<1> DEFINE bs == [batches EXCEPT ![i].st = st]
           p  == pending - Len(batches[i].items)
<1>0. /\ SizesAssumption /\ RunInv /\ RunTypeOK /\ shutdown \in BOOLEAN
      /\ accepted \in Seq(1..MaxPuts) /\ queue \in Seq(1..MaxPuts)
  BY OrderTypes DEF RefInv
<1>1. /\ i = Len(batches) /\ task = "alive" /\ pc \in {"wait", "join", "drain", "flush"}
      /\ Quiet(bs)
  BY <1>0, ReturnQuiet
<1>2. \/ pc = "flush" /\ Flush(bs, p)
      \/ /\ pc # "flush" /\ batches' = bs
         /\ UNCHANGED <<queue, task, pc, batch, taken, handed>>
  BY DEF Return, runVars
<1>3. /\ batches # <<>> /\ Last = batches[i]
      /\ Serving > 0 /\ Unstarted = <<>> /\ ~Abandoned
  <2>1. batches # <<>> /\ Last = batches[i] /\ Len(batches[i].items) \in 1..MaxBatchSize
    BY <1>0, <1>1 DEF RunInv, RunTypeOK, BatchesShape, Last
  <2> QED BY <1>0, <1>1, <2>1 DEF Serving, Unstarted, Running, Created, Abandoned,
                               SizesAssumption
<1> HIDE DEF bs, p
<1>4. InOrder
  BY <1>3 DEF RefInv, OrderInv, InOrder
<1>5. CASE pc = "flush"
  <2>1. /\ shutdown /\ batch = <<>> /\ taken = <<>>
        /\ Flush(bs, p)
    BY <1>0, <1>2, <1>5 DEF RunInv, RunShape
  <2>2. accepted = handed \o queue
    <3>1. accepted = handed \o (<<>> \o (<<>> \o (<<>> \o queue)))
      BY <1>3, <1>4, <2>1 DEF InOrder
    <3>2. <<>> \o queue = queue
      BY <1>0, ConcatEmptySeq
    <3> QED BY <3>1, <3>2
  <2>3. (HandsOver \/ Finishes) /\ InOrder'
    BY <1>0, <1>1, <2>1, <2>2, FlushOrder DEF InOrder
  <2>4. OrderInv'
    BY <2>3, StretchOrder, OutcomeIsNotCancelled
  <2>5. AbstractStep
    BY <1>1, <1>3, <2>3, SettleMaps DEF RefInv
  <2> QED BY <2>4, <2>5
<1>6. CASE pc # "flush"
  <2>1. batches' = bs /\ UNCHANGED <<queue, task, pc, batch, taken, handed>>
    BY <1>2, <1>6
  <2>2. Serving' = 0 /\ Unstarted' = <<>>
    BY <1>1, <2>1, QuietLast DEF Serving, Unstarted, Last
  <2>3. Stays /\ InOrder'
    BY <1>1, <1>3, <1>4, <2>1, <2>2 DEF Stays, InOrder
  <2>4. OrderInv'
    BY <2>3, StretchOrder, OutcomeIsNotCancelled
  <2>5. AbstractStep
    BY <1>1, <1>3, <2>3, SettleMaps DEF RefInv
  <2> QED BY <2>4, <2>5
<1> QED BY <1>5, <1>6

(* A change of the state of the last batch.                                   *)
LEMMA LastChanges ==
  ASSUME batches \in Seq(Batch), NEW st \in Status, Len(batches) \in DOMAIN batches,
         batches' = [batches EXCEPT ![Len(batches)].st = st]
  PROVE  batches' # <<>> /\ Last'.items = Last.items /\ Last'.st = st
<1>1. batches[Len(batches)] \in Batch
  OBVIOUS
<1>2. [batches[Len(batches)] EXCEPT !.st = st] \in Batch
  BY <1>1 DEF Batch
<1>3. Len(batches') = Len(batches) /\ batches' # <<>>
  <2>1. batches' \in Seq(Batch) /\ Len(batches') = Len(batches)
    BY <1>2, ExceptSeq
  <2> QED BY <2>1
<1>4. batches'[Len(batches)] = [batches[Len(batches)] EXCEPT !.st = st]
  OBVIOUS
<1> QED BY <1>1, <1>3, <1>4 DEF Last, Batch

(* on_batch or on_error ends.                                                 *)
LEMMA CallbackRefines ==
  ASSUME RefInv, IndInv', CallbackEnds
  PROVE  OrderInv' /\ AbstractStep
<1>1. PICK i \in DOMAIN batches :
        /\ batches[i].st \in Running /\ ~Unwinding
        /\ UNCHANGED <<accepted, shutdown>>
        /\ \/ Return(i, "ok")
           \/ Return(i, "error")
           \/ /\ batches' = [batches EXCEPT ![i].st = "on_error"]
              /\ UNCHANGED <<queue, runVars, handed>>
  BY DEF CallbackEnds, CallbackReturns, CallbackRaises, ErrorCallbackEnds, Running, putVars
<1>2. CASE Return(i, "ok") \/ Return(i, "error")
  BY <1>1, <1>2, ReturnRefines DEF Settled
<1>3. CASE /\ batches' = [batches EXCEPT ![i].st = "on_error"]
           /\ UNCHANGED <<queue, runVars, handed>>
  <2>1. RunInv /\ i = Len(batches) /\ batches \in Seq(Batch) /\ batches # <<>>
    <3>1. RunInv
      BY OrderTypes DEF RefInv
    <3>2. i = Len(batches)
      BY <1>1, <3>1, ReturnQuiet DEF Settled
    <3> QED BY <3>1, <3>2 DEF RunInv, RunTypeOK
  <2>2. batches' # <<>> /\ Last'.items = Last.items /\ Last'.st = "on_error"
    BY <1>3, <2>1, LastChanges DEF Status, Running
  <2>3. Last.st \in Running
    BY <1>1, <2>1 DEF Last
  <2>4. Serving' = Serving /\ Unstarted' = Unstarted
    BY <2>1, <2>2, <2>3 DEF Serving, Unstarted, Running, Created
  <2>5. Consumer' = Consumer /\ Abandoned' = Abandoned
        /\ UNCHANGED <<pc, batch, taken, queue, handed>>
    BY <1>3 DEF Consumer, Abandoned, runVars
  <2>6. OrderInv'
    BY <1>1, <2>4, <2>5 DEF RefInv, OrderInv
  <2>7. AbstractStep
    BY <1>1, <2>4, <2>5, StutterMaps DEF RefInv
  <2> QED BY <2>6, <2>7
<1> QED BY <1>1, <1>2, <1>3

(* The batch in flight is handed over.                                        *)
LEMMA InFlightBeginsRefines ==
  ASSUME RefInv, IndInv', InFlightBegins
  PROVE  OrderInv' /\ AbstractStep
<1>0. /\ SizesAssumption /\ RunInv /\ RunTypeOK
      /\ accepted \in Seq(1..MaxPuts) /\ handed \in Seq(1..MaxPuts)
      /\ queue \in Seq(1..MaxPuts) /\ batch \in Seq(1..MaxPuts)
      /\ taken \in Seq(1..MaxPuts) /\ Unstarted \in Seq(1..MaxPuts)
  BY OrderTypes DEF RefInv
<1>1. PICK i \in DOMAIN batches :
        /\ batches[i].st = Created /\ ~Unwinding
        /\ batches' = [batches EXCEPT ![i].st = "callback"]
        /\ handed' = handed \o batches[i].items
        /\ UNCHANGED <<queue, shutdown, task, pc, batch, taken, accepted>>
  BY DEF InFlightBegins, runVars, putVars
<1>2. /\ i = Len(batches) /\ batches \in Seq(Batch) /\ task = "alive" /\ pc # "unwind"
      /\ Len(batches[i].items) \in 1..MaxBatchSize
  BY <1>0, <1>1 DEF RunInv, RunTypeOK, RunShape, BatchesShape, Live, Unwinding
<1>3. batches' # <<>> /\ Last'.items = Last.items /\ Last'.st = "callback"
  BY <1>1, <1>2, LastChanges DEF Status, Running
<1> DEFINE u == Unstarted
           c == batch \o (taken \o queue)
<1>4. /\ Last = batches[i] /\ batches # <<>> /\ u = batches[i].items
      /\ Serving = 0 /\ Serving' = Len(u) /\ Unstarted' = <<>> /\ Len(u) \in 1..MaxBatchSize
  BY <1>1, <1>2, <1>3 DEF Last, Unstarted, Serving, Running, Created
<1>5. c \in Seq(1..MaxPuts)
  BY <1>0, ConcatProperties
<1>6. accepted = handed \o (u \o c)
  BY <1>2 DEF RefInv, OrderInv, Abandoned, IndInv, RunShape
<1> HIDE DEF u, c
<1>7. /\ SubSeq(accepted, 1, Len(handed) + Len(u)) = handed \o u
      /\ Len(accepted) = Len(handed) + Len(u) + Len(c)
  <2>1. u \in Seq(1..MaxPuts) /\ handed \in Seq(1..MaxPuts) /\ c \in Seq(1..MaxPuts)
        /\ Len(u) > 0
    BY <1>0, <1>4, <1>5, SizesAssumption DEF u, SizesAssumption
  <2>2. /\ SubSeq(handed \o (u \o c), 1, Len(handed) + Len(u)) = handed \o u
        /\ Len(handed \o (u \o c)) = Len(handed) + Len(u) + Len(c)
    BY ONLY <2>1, PrefixOf
  <2> QED BY <1>6, <2>2
<1>8. HandsOver
  <2>1. Len(handed) \in Nat /\ Len(c) \in Nat /\ Len(u) \in Nat
    BY <1>0, <1>4, <1>5 DEF SizesAssumption
  <2>2. Len(u) <= Len(accepted) - Len(handed)
    BY <1>7, <2>1
  <2> QED BY <1>1, <1>2, <1>4, <1>7, <2>2 DEF HandsOver
<1>9. InOrder'
  <2>1. handed \in Seq(1..MaxPuts) /\ u \in Seq(1..MaxPuts) /\ c \in Seq(1..MaxPuts)
    BY <1>0, <1>5 DEF u
  <2>2. (handed \o u) \o c = handed \o (u \o c)
    BY ONLY <2>1, ConcatAssociative, SMTT(40)
  <2>3. <<>> \o c = c
    BY <1>5, ConcatEmptySeq
  <2>4. accepted' = handed' \o (<<>> \o c)
    BY <1>1, <1>4, <1>6, <2>2, <2>3
  <2> QED BY <1>1, <1>4, <2>4 DEF InOrder, c
<1>10. OrderInv'
  BY <1>8, <1>9, StretchOrder, OutcomeIsNotCancelled
<1>11. AbstractStep
  BY <1>1, <1>2, <1>4, <1>8, StretchMaps DEF RefInv
<1> QED BY <1>10, <1>11

(* Cancelling run(), by a stop() that has set the shutdown, abandons it.        *)
LEMMA CancelRefines ==
  ASSUME RefInv, IndInv', shutdown', CancelRun,
         UNCHANGED <<queue, batches, handed, accepted>>
  PROVE  OrderInv' /\ AbstractStep
<1>1. /\ UNCHANGED <<batch, taken>>
      /\ \/ task = "alive" /\ SomeLive /\ pc' = "unwind" /\ task' = task
         \/ task = "alive" /\ ~SomeLive /\ pc' = "done" /\ task' = "cancelled"
         \/ task # "alive" /\ pc' = pc /\ task' = task
  BY DEF CancelRun, MustUnwind
<1>2. Serving' = Serving /\ Unstarted' = Unstarted
  BY DEF Serving, Unstarted, Last
<1>3. ~SomeLive => Serving = 0
  BY DEF SomeLive, Serving, Last, Live, RefInv, IndInv, TypeOK
<1>4. OrderInv'
  <2>1. ~Abandoned' => ~Abandoned
    BY <1>1 DEF Abandoned, RefInv, IndInv, RunShape
  <2> QED BY <1>1, <1>2, <2>1 DEF RefInv, OrderInv
<1>5. /\ Busy = IF pc = "unwind" THEN 0 ELSE Serving
      /\ Busy' = IF pc' = "unwind" THEN 0 ELSE Serving
  BY <1>2, BusyIs, BusyIsPrime DEF RefInv
<1>6. CASE task = "alive" /\ pc # "unwind"
  <2>1. Consumer = "active" /\ Consumer' = "abandoned" /\ Busy' = 0
    BY <1>1, <1>3, <1>5, <1>6 DEF Consumer
  <2>2. Abstract!Abandon
    BY <2>1 DEF Abstract!Abandon
  <2> QED BY <1>4, <2>2 DEF AbstractStep, Abstract!Next
<1>7. CASE ~(task = "alive" /\ pc # "unwind")
  <2>1. Consumer' = Consumer /\ Busy' = Busy
    BY <1>1, <1>3, <1>5, <1>7 DEF Consumer, RefInv, IndInv, RunShape
  <2>2. Abstract!Close
    BY <2>1 DEF Abstract!Close
  <2> QED BY <1>4, <2>2 DEF AbstractStep, Abstract!Next
<1> QED BY <1>6, <1>7

(* stop() closes the queue, abandons run() or only returns.                    *)
LEMMA StopRefines ==
  ASSUME RefInv, IndInv', NEW s \in Stoppers,
         StopGraceful(s) \/ StopForce(s) \/ StopExpires(s) \/ StopEnds(s)
  PROVE  OrderInv' /\ AbstractStep
<1>1. CASE StopForce(s) \/ StopExpires(s)
  <2>1. shutdown' /\ CancelRun
    BY <1>1 DEF StopForce, StopExpires, RefInv, StopsInv
  <2>2. UNCHANGED <<queue, batches, handed, accepted>>
    BY <1>1 DEF StopForce, StopExpires, procVars, putVars
  <2> QED BY <2>1, <2>2, CancelRefines
<1>2. CASE StopGraceful(s) \/ StopEnds(s)
  <2>1. /\ UNCHANGED <<queue, task, pc, batch, taken, batches, handed, accepted>>
        /\ shutdown' = TRUE \/ shutdown' = shutdown
    BY <1>2 DEF StopGraceful, StopEnds, runVars, procVars, putVars
  <2>2. Serving' = Serving /\ Unstarted' = Unstarted /\ Consumer' = Consumer
        /\ Abandoned' = Abandoned
    BY <2>1 DEF Serving, Unstarted, Last, Consumer, Abandoned
  <2>3. OrderInv'
    BY <2>1, <2>2 DEF RefInv, OrderInv
  <2>4. CASE shutdown' = TRUE
    <3>1. Busy' = Busy
      BY <2>1, <2>2, BusyIs, BusyIsPrime DEF RefInv
    <3>2. Abstract!Close
      BY <2>1, <2>2, <2>4, <3>1 DEF Abstract!Close
    <3> QED BY <2>3, <3>2 DEF AbstractStep, Abstract!Next
  <2>5. CASE shutdown' = shutdown
    BY <2>1, <2>2, <2>3, <2>5, StutterMaps DEF RefInv
  <2> QED BY <2>1, <2>4, <2>5
<1> QED BY <1>1, <1>2

(* Every step of the queue is a step of BatchQueue, or none.                  *)
LEMMA StepRefines ==
  ASSUME RefInv, IndInv', [Next]_vars
  PROVE  OrderInv' /\ AbstractStep
<1>1. CASE PutAccepted
  BY <1>1, PutRefines
<1>2. CASE PutRejected \/ UNCHANGED vars
  <2>1. UNCHANGED <<queue, shutdown, task, pc, batch, taken, batches, handed, accepted>>
    BY <1>2 DEF PutRejected, vars, runVars, procVars, putVars
  <2>2. Serving' = Serving /\ Unstarted' = Unstarted /\ Consumer' = Consumer
        /\ Abandoned' = Abandoned
    BY <2>1 DEF Serving, Unstarted, Last, Consumer, Abandoned
  <2>3. OrderInv'
    BY <2>1, <2>2 DEF RefInv, OrderInv
  <2> QED BY <2>1, <2>2, <2>3, StutterMaps DEF RefInv
<1>3. CASE Start
  BY <1>3, StartRefines
<1>4. CASE RunStep
  BY <1>4, RunBeginsRefines, WaitRefines, JoinRefines, UnwindRefines DEF RunStep
<1>5. CASE GetterTakes \/ InFlightBegins
  BY <1>5, GetterRefines, InFlightBeginsRefines
<1>6. CASE CallbackEnds
  BY <1>6, CallbackRefines
<1>7. CASE \E s \in Stoppers : StopGraceful(s) \/ StopForce(s) \/ StopExpires(s) \/ StopEnds(s)
  BY <1>7, StopRefines
<1> QED BY <1>1, <1>2, <1>3, <1>4, <1>5, <1>6, <1>7 DEF Next

(* The queue hands over what put() accepted in order, one batch at a time, and *)
(* ends with nothing left unless it was stopped: it implements BatchQueue.    *)
THEOREM ImplementsQueue == Spec => ImplementsBatchQueue
<1>1. Init => OrderInv /\ Abstract!Init
  <2> SUFFICES ASSUME Init PROVE OrderInv /\ Abstract!Init
    OBVIOUS
  <2>1. Unstarted = <<>> /\ Serving = 0 /\ Consumer = "idle"
    BY DEF Init, Unstarted, Serving, Consumer
  <2>2. <<>> \o (<<>> \o (<<>> \o (<<>> \o <<>>))) = <<>>
    OBVIOUS
  <2>3. OrderInv
    BY <2>1, <2>2 DEF Init, OrderInv, Abandoned
  <2>4. Busy = 0
    BY InitInv, SizesAssumption, BusyIs, <2>1 DEF Init
  <2> QED BY <2>1, <2>3, <2>4 DEF Init, Abstract!Init
<1>2. IndInv /\ IndInv' /\ StopsInv /\ OrderInv /\ [Next]_vars
        => OrderInv' /\ [Abstract!Next]_(Abstract!vars)
  BY StepRefines DEF RefInv, AbstractStep
<1> QED BY <1>1, <1>2, Inductive, Drops, PTL DEF Spec, ImplementsBatchQueue, Abstract!Spec
=============================================================================
