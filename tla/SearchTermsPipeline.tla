------------------------- MODULE SearchTermsPipeline --------------------------
(***************************************************************************)
(* The way of a search term: Merino queues it and submits batches to          *)
(* merino-fleece, whose endpoint queues them for sanitization; a batch that   *)
(* could not be submitted goes to Pub/Sub.  Both queues are BatchQueue, which *)
(* AsyncBatchQueue implements.  The network may lose a submission, or deliver *)
(* it after the submitter has given up.                                      *)
(***************************************************************************)
EXTENDS Naturals, Sequences, FiniteSets

CONSTANTS
    Terms,          \* number of search terms, put in the order 1, 2, ...
    Email, Person,  \* those with an at sign or a digit, and those naming a person
    Exemptable,     \* those that an AMP keyword may cover
    BatchSize,      \* max_batch_size, of both queues
    FleeceCapacity  \* max_queue_size of merino-fleece

Term == 1..Terms

ASSUME PipelineAssumption ==
    /\ Terms \in Nat \ {0} /\ BatchSize \in Nat \ {0} /\ FleeceCapacity \in Nat \ {0}
    /\ Email \subseteq Term /\ Person \subseteq Term /\ Exemptable \subseteq Term

VARIABLES
    mAccepted, mHanded, mBusy, mOpen, mConsumer,   \* Merino's queue
    fAccepted, fHanded, fBusy, fOpen, fConsumer,   \* merino-fleece's queue
    submit,     \* on_batch and on_error of Merino: none, post, publish or done
    answer,     \* to the current submission: none, created or unavailable
    network,    \* submissions that merino-fleece has not received
    backup,     \* terms in Pub/Sub
    filtered,   \* terms that _is_publishable held back
    failed,     \* terms of batches counted as failed or unrescued
    gaveUp,     \* history: terms of submissions that failed without a status
    pubsub,     \* message_handler.pubsub_topic is set
    clients,    \* Merino's fleece and Pub/Sub clients are open
    late,       \* terms of a publish that goes on after its task was cancelled
    sanitize,   \* sanitize_batch: none, detect or done
    candidates, \* the queries still needing NER
    cleared,    \* the queries typed NON_PII so far
    wasExempt,  \* history: the terms that is_exempt covered when it was consulted
    logged,     \* terms logged to web.suggest.sanitized
    inPool,     \* a chunk whose batch was abandoned is still in the thread pool
    fleece      \* its lifespan: serving, stopping or down

mVars == <<mAccepted, mHanded, mBusy, mOpen, mConsumer>>
fVars == <<fAccepted, fHanded, fBusy, fOpen, fConsumer>>
sinkVars == <<backup, filtered, failed, gaveUp, late>>
submitVars == <<submit, answer, sinkVars>>
sanitizeVars == <<sanitize, candidates, cleared, wasExempt, logged>>
vars == <<pubsub, mVars, fVars, submitVars, network, clients, sanitizeVars, inPool, fleece>>

MerinoQueue == INSTANCE BatchQueue WITH
    Item <- Term, MaxBatchSize <- BatchSize, Capacity <- Terms,
    accepted <- mAccepted, handed <- mHanded, busy <- mBusy, open <- mOpen,
    consumer <- mConsumer

FleeceQueue == INSTANCE BatchQueue WITH
    Item <- Term, MaxBatchSize <- BatchSize, Capacity <- FleeceCapacity,
    accepted <- fAccepted, handed <- fHanded, busy <- fBusy, open <- fOpen,
    consumer <- fConsumer

Elements(s) == {s[i] : i \in DOMAIN s}

LastBatch(handed, busy) == SubSeq(handed, Len(handed) - busy + 1, Len(handed))

Submission == LastBatch(mHanded, mBusy)

Init ==
    /\ mAccepted = <<>> /\ mHanded = <<>> /\ mBusy = 0 /\ mOpen = TRUE /\ mConsumer = "active"
    /\ fAccepted = <<>> /\ fHanded = <<>> /\ fBusy = 0 /\ fOpen = TRUE /\ fConsumer = "active"
    /\ submit = "none" /\ answer = "none"
    /\ pubsub \in BOOLEAN
    /\ network = {} /\ clients = TRUE
    /\ backup = {} /\ filtered = {} /\ failed = {} /\ gaveUp = {} /\ late = {}
    /\ sanitize = "none" /\ candidates = {} /\ cleared = {}
    /\ wasExempt = {} /\ logged = {} /\ inPool = FALSE
    /\ fleece = "serving"

-----------------------------------------------------------------------------
(* Merino: MessageHandler, FleeceClient and PubSubClient.                    *)

(* put() by the logging middleware, which catches what a closed queue raises. *)
Put ==
    /\ Len(mAccepted) < Terms
    /\ MerinoQueue!Accept(Len(mAccepted) + 1)
    /\ UNCHANGED <<pubsub, fVars, submitVars, network, clients, sanitizeVars, inPool, fleece>>

(* The POST of the batch that the queue hands over in this step.             *)
Post ==
    /\ network' = network \cup {LastBatch(mHanded', mBusy')}
    /\ submit' = "post" /\ answer' = "none"

MerinoHands(n) ==
    /\ submit = "none"
    /\ MerinoQueue!Hand(n) /\ Post
    /\ UNCHANGED <<pubsub, fVars, sinkVars, clients, sanitizeVars, inPool, fleece>>

MerinoSettles ==
    /\ submit = "done"
    /\ MerinoQueue!Settle
    /\ IF mBusy' > 0
       THEN Post
       ELSE submit' = "none" /\ UNCHANGED <<network, answer>>
    /\ UNCHANGED <<pubsub, fVars, sinkVars, clients, sanitizeVars, inPool, fleece>>

(* submit() returns.                                                         *)
Created ==
    /\ submit = "post" /\ answer = "created"
    /\ submit' = "done" /\ answer' = "none"
    /\ UNCHANGED <<pubsub, mVars, fVars, sinkVars, network, clients,
                   sanitizeVars, inPool, fleece>>

(* What of a batch the queue counts as failed or unrescued when a callback    *)
(* raises.  Mutant: the publisher's error is swallowed.                      *)
Swallowed(batch) == {}

Unrescued(batch) == batch

(* When submit() may raise: on the 503, on a broken connection, and on the    *)
(* timeout.  Mutant: the client has no timeout.                              *)
OnAnswer == answer # "none"

OnAnswerOrTimeout == TRUE

(* _is_publishable.                                                          *)
Publishable(t) == t \notin Email

(* submit() raises.  With a topic publish() begins: it holds back what is not  *)
(* publishable, and does not wait when nothing is left.                      *)
SubmitRaises ==
    LET batch == Elements(Submission)
        sanitized == {t \in batch : Publishable(t)}
    IN
    /\ submit = "post" /\ OnAnswerOrTimeout
    /\ gaveUp' = IF answer = "unavailable" THEN gaveUp ELSE gaveUp \cup batch
    /\ \/ /\ ~pubsub
          /\ submit' = "done" /\ failed' = failed \cup Unrescued(batch)
          /\ UNCHANGED filtered
       \/ /\ pubsub
          /\ submit' = IF sanitized = {} THEN "done" ELSE "publish"
          /\ filtered' = filtered \cup (batch \ sanitized)
          /\ UNCHANGED failed
    /\ answer' = "none"
    /\ UNCHANGED <<pubsub, mVars, fVars, backup, late, network, clients, sanitizeVars,
                   inPool, fleece>>

Publishing == {t \in Elements(Submission) : Publishable(t)}

(* publish() ends: the rest of the batch is in Pub/Sub, or the publisher       *)
(* fails, in which case it may be there or not.                              *)
Publish ==
    /\ submit = "publish"
    /\ \/ backup' = backup \cup Publishing /\ UNCHANGED failed
       \/ /\ backup' \in {backup, backup \cup Publishing}
          /\ failed' = failed \cup Unrescued(Elements(Submission))
    /\ submit' = "done"
    /\ UNCHANGED <<pubsub, mVars, fVars, answer, filtered, gaveUp, late, network, clients,
                   sanitizeVars, inPool, fleece>>

(* stop(): the queue is closed, and abandoned at the deadline.                *)
MerinoStops ==
    /\ mOpen
    /\ MerinoQueue!Close
    /\ UNCHANGED <<pubsub, fVars, submitVars, network, clients, sanitizeVars, inPool, fleece>>

MerinoFinishes ==
    /\ submit = "none"
    /\ MerinoQueue!Finish
    /\ UNCHANGED <<pubsub, fVars, submitVars, network, clients, sanitizeVars, inPool, fleece>>

(* The deadline cancels the task, but neither the publisher's request nor the *)
(* thread that waits for it: they go on, whether or not stop() then closes     *)
(* their client.                                                             *)
MerinoDeadline ==
    /\ ~mOpen
    /\ MerinoQueue!Abandon
    /\ submit' = "none" /\ answer' = "none"
    /\ late' = IF submit = "publish" THEN Publishing ELSE {}
    /\ UNCHANGED <<pubsub, fVars, backup, filtered, failed, gaveUp, network, clients,
                   sanitizeVars, inPool, fleece>>

LatePublishEnds ==
    /\ late # {}
    /\ backup' \in {backup, backup \cup late}
    /\ late' = {}
    /\ UNCHANGED <<pubsub, mVars, fVars, submit, answer, filtered, failed, gaveUp, network,
                   clients, sanitizeVars, inPool, fleece>>

(* `await self._queue.stop()` before the clients are closed.                  *)
Drained == mConsumer \in {"finished", "abandoned"}

CloseClients ==
    /\ clients /\ Drained
    /\ clients' = FALSE
    /\ UNCHANGED <<pubsub, mVars, fVars, submitVars, network, sanitizeVars, inPool, fleece>>

-----------------------------------------------------------------------------
(* merino-fleece: the endpoint.                                              *)

(* remaining_capacity(): what waits to be handed over is queued, but for the  *)
(* batch being collected and the one about to start.                         *)
Remaining == {FleeceCapacity - n : n \in {n \in 0..FleeceCapacity :
                  /\ n <= FleeceQueue!Waiting
                  /\ n + 2 * BatchSize >= FleeceQueue!Waiting}}

(* Whether the submission is admitted.  Mutant: the capacity is not checked.  *)
AnySize(count, capacity) == TRUE

Fits(count, capacity) == count <= capacity

(* The terms that the loop of put() queues, up to the first that raises.      *)
Queued(batch, capacity) ==
    IF ~fOpen \/ ~Fits(Len(batch), capacity) THEN <<>>
    ELSE IF Len(batch) <= capacity THEN batch
    ELSE SubSeq(batch, 1, capacity)

(* What the endpoint answers.                                                *)
Answer(batch, queued) == IF queued = batch THEN "created" ELSE "unavailable"

(* submit_search_terms: one step, as it does not await.  The answer is lost on*)
(* a submitter that has moved on.                                            *)
Receive(batch) ==
    /\ fleece # "down" /\ batch \in network
    /\ network' = network \ {batch}
    /\ \E capacity \in Remaining :
           LET queued == Queued(batch, capacity) IN
           /\ fAccepted' = fAccepted \o queued
           /\ answer' = IF submit = "post" /\ batch = Submission
                        THEN Answer(batch, queued) ELSE answer
    /\ UNCHANGED <<pubsub, mVars, fHanded, fBusy, fOpen, fConsumer, submit, sinkVars, clients,
                   sanitizeVars, inPool, fleece>>

Lose(batch) ==
    /\ batch \in network
    /\ network' = network \ {batch}
    /\ UNCHANGED <<pubsub, mVars, fVars, submitVars, clients, sanitizeVars, inPool, fleece>>

-----------------------------------------------------------------------------
(* merino-fleece: sanitize_batch.                                            *)

(* What is_exempt may cover when it is consulted: the keywords are refreshed   *)
(* all the time, and gone after exempts.shutdown().                          *)
Covered(batch) ==
    SUBSET (IF fleece # "down" THEN batch \cap Exemptable ELSE {})

(* The loop over the batch: exempts first, then basic_detect.                *)
Classify == \E covered \in Covered(Elements(LastBatch(fHanded', fBusy'))) :
    LET batch == Elements(LastBatch(fHanded', fBusy')) IN
    /\ wasExempt' = wasExempt \cup covered
    /\ cleared' = covered
    /\ candidates' = batch \ (covered \cup Email)
    /\ sanitize' = "detect"

FleeceHands(n) ==
    /\ sanitize = "none"
    /\ FleeceQueue!Hand(n) /\ Classify
    /\ UNCHANGED <<pubsub, mVars, submitVars, network, clients, logged, inPool, fleece>>

FleeceSettles ==
    /\ sanitize = "done"
    /\ FleeceQueue!Settle
    /\ IF fBusy' > 0
       THEN Classify
       ELSE sanitize' = "none" /\ UNCHANGED <<candidates, cleared, wasExempt>>
    /\ UNCHANGED <<pubsub, mVars, submitVars, network, clients, logged, inPool, fleece>>

(* What a chunk clears.  Mutant: the verdicts are those of another chunk.     *)
WithoutVerdicts(chunk) == chunk

NotPerson(chunk) == chunk \ Person

(* One chunk through detect_person_batch.                                    *)
DetectChunk ==
    /\ sanitize = "detect"
    /\ \E t \in candidates :
           /\ candidates' = candidates \ {t}
           /\ cleared' = cleared \cup NotPerson({t})
    /\ UNCHANGED <<pubsub, mVars, fVars, submitVars, network, clients, sanitize, wasExempt,
                   logged, inPool, fleece>>

(* Detection raises: the queue counts the batch as failed.                   *)
DetectRaises ==
    /\ sanitize = "detect" /\ candidates # {}
    /\ sanitize' = "done" /\ candidates' = {} /\ cleared' = {}
    /\ UNCHANGED <<pubsub, mVars, fVars, submitVars, network, clients, wasExempt, logged,
                   inPool, fleece>>

Log ==
    /\ sanitize = "detect" /\ candidates = {}
    /\ logged' = logged \cup cleared
    /\ sanitize' = "done" /\ cleared' = {}
    /\ UNCHANGED <<pubsub, mVars, fVars, submitVars, network, clients, candidates, wasExempt,
                   inPool, fleece>>

-----------------------------------------------------------------------------
(* merino-fleece: the end of the lifespan.                                   *)

FleeceStops ==
    /\ fleece = "serving"
    /\ fleece' = "stopping"
    /\ FleeceQueue!Close
    /\ UNCHANGED <<pubsub, mVars, submitVars, network, clients, sanitizeVars, inPool>>

FleeceFinishes ==
    /\ sanitize = "none"
    /\ FleeceQueue!Finish
    /\ UNCHANGED <<pubsub, mVars, submitVars, network, clients, sanitizeVars, inPool, fleece>>

(* The deadline cancels the task.  A chunk that the pool has begun goes on.   *)
FleeceDeadline ==
    /\ fleece = "stopping"
    /\ FleeceQueue!Abandon
    /\ inPool' \in {FALSE, candidates # {}}
    /\ sanitize' = "none" /\ candidates' = {} /\ cleared' = {}
    /\ UNCHANGED <<pubsub, mVars, submitVars, network, clients, wasExempt, logged, fleece>>

LateChunkEnds ==
    /\ inPool
    /\ inPool' = FALSE
    /\ UNCHANGED <<pubsub, mVars, fVars, submitVars, network, clients, sanitizeVars, fleece>>

(* What the lifespan waits for before the teardown.  Mutant: a drain without   *)
(* the deadline.                                                             *)
NoDeadline == fConsumer = "finished"

QueueEnded == fConsumer \in {"finished", "abandoned"}

(* What shutdown_executor waits for.  Mutant: nothing (wait=False).           *)
PoolNotAwaited == TRUE

PoolIdle == ~inPool

(* The exempts, the thread pool and the detector go.                         *)
Teardown ==
    /\ fleece = "stopping" /\ QueueEnded /\ PoolIdle
    /\ fleece' = "down"
    /\ UNCHANGED <<pubsub, mVars, fVars, submitVars, network, clients, sanitizeVars, inPool>>

-----------------------------------------------------------------------------
Merino ==
    \/ Created \/ SubmitRaises \/ Publish \/ MerinoSettles \/ MerinoFinishes
    \/ \E n \in 1..BatchSize : MerinoHands(n)

Fleece ==
    \/ DetectChunk \/ DetectRaises \/ Log \/ FleeceSettles \/ FleeceFinishes
    \/ \E n \in 1..BatchSize : FleeceHands(n)

Next ==
    \/ Put \/ Merino \/ MerinoStops \/ MerinoDeadline \/ CloseClients \/ LatePublishEnds
    \/ \E batch \in network : Receive(batch) \/ Lose(batch)
    \/ Fleece \/ FleeceStops \/ FleeceDeadline \/ LateChunkEnds \/ Teardown

Spec == Init /\ [][Next]_vars

(* Both event loops run: a batch is handed over, callbacks and timeouts end;   *)
(* and a detection that has begun ends.                                      *)
FairSpec ==
    /\ Spec
    /\ WF_vars(Merino) /\ WF_vars(Fleece) /\ WF_vars(LateChunkEnds) /\ WF_vars(Teardown)

-----------------------------------------------------------------------------
TypeOK ==
    /\ {mAccepted, mHanded, fAccepted, fHanded} \subseteq Seq(Term)
    /\ {mBusy, fBusy} \subseteq 0..BatchSize
    /\ {mOpen, fOpen, clients, pubsub, inPool} \subseteq BOOLEAN
    /\ {mConsumer, fConsumer} \subseteq {"active", "finished", "abandoned"}
    /\ submit \in {"none", "post", "publish", "done"}
    /\ answer \in {"none", "created", "unavailable"}
    /\ network \subseteq Seq(Term)
    /\ \A s \in {backup, filtered, failed, gaveUp, late, candidates, cleared, wasExempt, logged} :
           s \subseteq Term
    /\ sanitize \in {"none", "detect", "done"}
    /\ fleece \in {"serving", "stopping", "down"}

(* "Terms of any other PII type are never logged" (handler 121): what is      *)
(* logged names no person and has no at sign or digit, or an exempt covered   *)
(* it when it was consulted, whatever refreshes, failures and stops.          *)
OnlyClearedIsLogged == logged \cap (Email \cup Person) \subseteq wasExempt

(* "Admit the whole submission or none of it" (search_terms 59-61): a term    *)
(* that both the fleece queue and Pub/Sub have, and that will be sanitized    *)
(* twice, is of a submission that was accepted while the submitter gave up;   *)
(* a 503 leaves nothing of the submission in the queue.  The comment of the   *)
(* `except` (75-78) expects that concurrent requests pass the check together  *)
(* and one is queued in part; no await separates the check from the puts, so  *)
(* they cannot.                                                              *)
RejectedIsNotQueued == Elements(fAccepted) \cap (backup \cup failed) \subseteq gaveUp

(* No term that Merino took off its queue and settled is lost silently: it is *)
(* in the fleece queue, in Pub/Sub, held back as sensitive, or counted as     *)
(* failed.                                                                   *)
Settled == SubSeq(mHanded, 1, Len(mHanded) - mBusy)

NothingSilentlyDropped ==
    mConsumer # "abandoned" =>
        Elements(Settled) \subseteq Elements(fAccepted) \cup backup \cup filtered \cup failed

(* The clients are closed when no callback of the queue uses them (handler    *)
(* 72-86).  A publish that the deadline abandoned is not waited for.          *)
ClosedAfterTheQueue == ~clients => submit \notin {"post", "publish"}

(* "torn down only after it has drained" (app 28-31): the detector, the thread*)
(* pool and the exempts are there for every batch, and for a chunk that        *)
(* outlives its batch.                                                       *)
TornDownAfterTheQueue == fleece = "down" => sanitize = "none" /\ ~inPool

(* No service takes away what its queue's callbacks still use, wherever its   *)
(* shutdown meets a submission, a backup or a sanitization.  Threads outlive   *)
(* a callback that the deadline cancels: merino-fleece waits for its thread,   *)
(* Merino does not wait for a publish and closes the client under it.         *)
NothingClosedInUse == ClosedAfterTheQueue /\ TornDownAfterTheQueue

(* Every term that Merino accepted is settled, unless its stop() ran into the *)
(* deadline.                                                                 *)
AcceptedIsSettled ==
    \A t \in Term :
        t \in Elements(mAccepted) ~> (t \in Elements(Settled) \/ mConsumer = "abandoned")

(* The lifespan of merino-fleece ends once it has begun to stop, whatever the *)
(* queue still holds and whether or not the drain meets its deadline.         *)
FleeceShutsDown == fleece = "stopping" ~> fleece = "down"
=============================================================================
