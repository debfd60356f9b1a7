-------------------------- MODULE FleeceQueueWorker --------------------------
(***************************************************************************)
(* merino_fleece.sanitize.worker: the process that pulls search term        *)
(* submissions from Pub/Sub.                                                *)
(*                                                                         *)
(* Its threads: the main thread (start, and stop in a signal handler), the  *)
(* heartbeat thread, and the threads on which the Pub/Sub client runs one   *)
(* callback per message.  Pub/Sub itself and the client library are modelled*)
(* from how the worker uses them: at-least-once delivery, and a future that *)
(* ends when the stream fails, is cancelled, or a callback raises.          *)
(***************************************************************************)
EXTENDS Naturals, FiniteSets

CONSTANTS
    Msg,            \* the submissions published to the topic
    Invalid,        \* those that SearchTermsSubmission does not validate
    Poison,         \* those on which sanitizing or emitting may raise
    Size,          \* search terms in a valid submission
    RestartStream,  \* restart_stream
    MaxConnections, \* bound: streams opened in a behaviour
    MaxDeliveries   \* bound: deliveries of one message

ASSUME WorkerAssumption ==
    /\ Invalid \subseteq Msg /\ Poison \subseteq Msg
    /\ Size \in Nat \ {0}
    /\ RestartStream \in BOOLEAN
    /\ MaxConnections \in Nat \ {0} /\ MaxDeliveries \in Nat \ {0}

VARIABLES
    pc,         \* the main thread
    stopping,   \* self._stopping
    stopAt,     \* history: where the main thread was when stop() ran
    conn,       \* history: how many times _connect opened a stream
    future,     \* self._future: running, closing, returned or failed
    open,       \* whether self.subscriber is open
    heartbeat,  \* the heartbeat thread: none, check, write, wait or exited
    hbStop,     \* self._heartbeat_stop
    stale,      \* history: heartbeats written since the stream ended
    msg,        \* each message: backlog, running or acked
    owner,      \* the stream that delivered it last
    step,       \* how many of its terms the running callback has emitted
    dropped,    \* the messages on which the callback caught a ValidationError
                \* while sanitizing or emitting
    emitted,    \* history: whether each term was ever emitted
    deliveries  \* history: how often each message was delivered

mainVars   == <<pc, stopping, stopAt, conn, open>>
beatVars   == <<heartbeat, hbStop, stale>>
msgVars    == <<msg, owner, step, dropped, emitted, deliveries>>
workerVars == <<mainVars, future, beatVars, msgVars>>

WorkerInit ==
    /\ pc = "start" /\ stopping = FALSE /\ stopAt = "never"
    /\ conn = 1 /\ open = TRUE /\ future = "running"
    /\ heartbeat = "none" /\ hbStop = FALSE /\ stale = 0
    /\ msg = [m \in Msg |-> "backlog"]
    /\ owner = [m \in Msg |-> 0]
    /\ step = [m \in Msg |-> 0] /\ dropped = {}
    /\ emitted = [m \in Msg |-> [t \in 1..Size |-> FALSE]]
    /\ deliveries = [m \in Msg |-> 0]

Executing(c) == {m \in Msg : msg[m] = "running" /\ owner[m] = c}

-----------------------------------------------------------------------------
(* The main thread: start().                                               *)

Start ==
    /\ pc = "start"
    /\ pc' = "result"
    /\ heartbeat' = "check"
    /\ UNCHANGED <<stopping, stopAt, conn, open, future, hbStop, stale, msgVars>>

(* result() returns: the stream was cancelled.                               *)
ResultReturns ==
    /\ pc = "result" /\ future = "returned"
    /\ open' = FALSE
    /\ pc' = "returned"
    /\ UNCHANGED <<stopping, stopAt, conn, future, beatVars, msgVars>>

ResultRaises ==
    /\ pc = "result" /\ future = "failed"
    /\ open' = FALSE
    /\ pc' = "errored"
    /\ UNCHANGED <<stopping, stopAt, conn, future, beatVars, msgVars>>

(* `not errored or not restart_stream or _stopping`.  Mutant: _stopping is    *)
(* not looked at.                                                           *)
DoneUnlessRestarting == ~RestartStream

Done == ~RestartStream \/ stopping

AfterError ==
    /\ pc = "errored"
    /\ pc' = IF Done THEN "returned" ELSE "backoff"
    /\ UNCHANGED <<stopping, stopAt, conn, open, future, beatVars, msgVars>>

(* time.sleep(restart_backoff) ends, and restart() connects, ignores an open *)
(* client, or raises out of start().                                        *)
Restart ==
    /\ pc = "backoff"
    /\ \/ /\ ~open
          /\ conn < MaxConnections
          /\ conn' = conn + 1
          /\ open' = TRUE /\ future' = "running" /\ stale' = 0
          /\ pc' = "result"
       \/ /\ ~open
          /\ pc' = "crashed"
          /\ UNCHANGED <<conn, open, future, stale>>
       \/ /\ open
          /\ pc' = "result"
          /\ UNCHANGED <<conn, open, future, stale>>
    /\ UNCHANGED <<stopping, stopAt, heartbeat, hbStop, msgVars>>

(* The future that stop() cancels.  Mutant: it is not cancelled.             *)
StopFlagOnly == future

CancelledFuture == IF future = "running" THEN "closing" ELSE future

(* The signal handler runs in the main thread, between two of its steps.     *)
Stop ==
    /\ pc \in {"start", "result", "errored", "backoff"}
    /\ ~stopping
    /\ stopping' = TRUE /\ stopAt' = pc
    /\ hbStop' = TRUE
    /\ future' = CancelledFuture
    /\ UNCHANGED <<pc, conn, open, heartbeat, stale, msgVars>>

-----------------------------------------------------------------------------
(* The heartbeat thread: one write up front, then one per interval until     *)
(* _heartbeat_stop.  Looking at the future and writing are two steps.        *)

Pulling == future \in {"running", "closing"}   \* _future.running()

(* Mutant of WhenPulling: the future is not looked at before a refresh.      *)
WhenPullingOrNot == TRUE

WhenPulling == Pulling

HeartbeatChecks ==
    /\ heartbeat = "check"
    /\ heartbeat' = IF WhenPulling THEN "write" ELSE "wait"
    /\ UNCHANGED <<mainVars, future, hbStop, stale, msgVars>>

(* The write, or an OSError that is logged and swallowed.                    *)
HeartbeatWrites ==
    /\ heartbeat = "write"
    /\ heartbeat' = "wait"
    /\ \/ stale' = IF Pulling THEN 0 ELSE stale + 1
       \/ stale' = stale
    /\ UNCHANGED <<mainVars, future, hbStop, msgVars>>

HeartbeatWaits ==
    /\ heartbeat = "wait"
    /\ stale < 3
    /\ heartbeat' = IF hbStop THEN "exited" ELSE "check"
    /\ UNCHANGED <<mainVars, future, hbStop, stale, msgVars>>

-----------------------------------------------------------------------------
(* callback(), on a thread of the client.                                    *)

Deliver(m) ==
    /\ future = "running"
    /\ msg[m] = "backlog"
    /\ deliveries[m] < MaxDeliveries
    /\ msg' = [msg EXCEPT ![m] = "running"]
    /\ owner' = [owner EXCEPT ![m] = conn]
    /\ step' = [step EXCEPT ![m] = 0] /\ dropped' = dropped \ {m}
    /\ deliveries' = [deliveries EXCEPT ![m] = @ + 1]
    /\ UNCHANGED <<mainVars, future, beatVars, emitted>>

(* The loop over the terms of a submission goes on.                           *)
TermLeft(m) == m \notin Invalid \cup dropped /\ step[m] < Size

EmitTerm(m) ==
    /\ msg[m] = "running" /\ TermLeft(m)
    /\ step' = [step EXCEPT ![m] = @ + 1]
    /\ emitted' = [emitted EXCEPT ![m][step[m] + 1] = TRUE]
    /\ UNCHANGED <<mainVars, future, beatVars, msg, owner, dropped, deliveries>>

(* Sanitizing or emitting a term raises a ValidationError: the `try` covers    *)
(* them too, and the submission is logged as an invalid message.             *)
DropAsInvalid(m) ==
    /\ msg[m] = "running" /\ m \in Poison /\ TermLeft(m)
    /\ dropped' = dropped \cup {m}
    /\ UNCHANGED <<mainVars, future, beatVars, msg, owner, step, emitted, deliveries>>

(* When message.ack() is reached: at the end of the loop, or of the `except`.  *)
(* Mutant: as soon as the submission was validated.                          *)
AckBeforeEmitting(m) == TRUE

ReadyToAck(m) == m \in Invalid \cup dropped \/ step[m] = Size

(* message.ack(): Pub/Sub forgets the message, or the ack never gets there.  *)
Ack(m) ==
    /\ msg[m] = "running"
    /\ ReadyToAck(m)
    /\ \E st \in {"acked", "backlog"} : msg' = [msg EXCEPT ![m] = st]
    /\ UNCHANGED <<mainVars, future, beatVars, owner, step, dropped, emitted, deliveries>>

(* Sanitizing or emitting raises anything else: the client nacks the message  *)
(* and fails the future of its stream.                                       *)
CallbackRaises(m) ==
    /\ msg[m] = "running" /\ m \in Poison /\ TermLeft(m)
    /\ msg' = [msg EXCEPT ![m] = "backlog"]
    /\ future' = IF owner[m] = conn /\ Pulling THEN "failed" ELSE future
    /\ UNCHANGED <<mainVars, beatVars, owner, step, dropped, emitted, deliveries>>

(* The client library: the stream breaks, or its cancellation is complete.   *)
(* With await_callbacks_on_shutdown both wait for the callbacks of the       *)
(* stream.  Mutant: the option is left at its default.                       *)
NotAwaited == {}

Awaited == Executing(conn)

StreamFails ==
    /\ future = "running" /\ Awaited = {}
    /\ future' = "failed"
    /\ UNCHANGED <<mainVars, beatVars, msgVars>>

StreamCloses ==
    /\ future = "closing" /\ Awaited = {}
    /\ future' = "returned"
    /\ UNCHANGED <<mainVars, beatVars, msgVars>>

-----------------------------------------------------------------------------
Main == Start \/ ResultReturns \/ ResultRaises \/ AfterError \/ Restart

Heartbeat == HeartbeatChecks \/ HeartbeatWrites \/ HeartbeatWaits

WorkerNext ==
    \/ Main \/ Stop \/ Heartbeat \/ StreamFails \/ StreamCloses
    \/ \E m \in Msg :
           Deliver(m) \/ EmitTerm(m) \/ DropAsInvalid(m) \/ Ack(m) \/ CallbackRaises(m)

WorkerSpec == WorkerInit /\ [][WorkerNext]_workerVars

(* Threads run, callbacks end, and a cancelled stream closes.                *)
WorkerFairSpec ==
    /\ WorkerSpec
    /\ WF_workerVars(Main) /\ WF_workerVars(Heartbeat) /\ WF_workerVars(StreamCloses)
    /\ \A m \in Msg : WF_workerVars(EmitTerm(m)) /\ WF_workerVars(Ack(m))

-----------------------------------------------------------------------------
WorkerTypeOK ==
    /\ pc \in {"start", "result", "errored", "backoff", "returned", "crashed"}
    /\ stopAt \in {"never", "start", "result", "errored", "backoff"}
    /\ stopping \in BOOLEAN /\ hbStop \in BOOLEAN /\ open \in BOOLEAN
    /\ conn \in 1..MaxConnections
    /\ future \in {"running", "closing", "returned", "failed"}
    /\ heartbeat \in {"none", "check", "write", "wait", "exited"}
    /\ stale \in Nat
    /\ msg \in [Msg -> {"backlog", "running", "acked"}]
    /\ owner \in [Msg -> 0..MaxConnections]
    /\ step \in [Msg -> 0..Size] /\ dropped \subseteq Msg
    /\ emitted \in [Msg -> [1..Size -> BOOLEAN]]
    /\ deliveries \in [Msg -> 0..MaxDeliveries]

(* Pub/Sub is told to forget a valid submission only once every term of it was*)
(* emitted, whatever stream failures, stops and redeliveries come between; but *)
(* a submission whose terms sanitizing or emitting does not validate is        *)
(* acknowledged as invalid with the terms that were left (callback, 28-38).    *)
AckedWasEmitted ==
    \A m \in Msg \ Invalid :
        msg[m] = "acked" => m \in dropped \/ \A t \in 1..Size : emitted[m][t]

(* stop() drains: when start() returns from a stream that was cancelled no   *)
(* callback of that stream is still executing (stop, 101-103).               *)
DrainedOnReturn ==
    pc = "returned" /\ future = "returned" => Executing(conn) = {}

(* A broken stream lets the heartbeat go stale: at most one refresh, by a    *)
(* thread that had already looked at the future, is written after the stream *)
(* ended and before the next one (_heartbeat_loop, 112-116).                 *)
HeartbeatGoesStale == stale <= 1

(* A stop() that finds the stream open, or just failed, ends start().        *)
StopMidStream ==
    stopAt \in {"start", "result", "errored"} ~> pc = "returned"

(* The claim of stop() and start() (78, 101-103) for every stop().           *)
StopTerminates == stopping ~> pc \in {"returned", "crashed"}
=============================================================================
