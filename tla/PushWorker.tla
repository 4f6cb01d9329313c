------------------------------ MODULE PushWorker ------------------------------
(***************************************************************************)
(* The push-service consumer: main.rs spawns one task for every delivery   *)
(* of push.queue; the task takes a semaphore permit, connects to Redis,    *)
(* locks the template and the FCM client, runs process_message and settles *)
(* the delivery.  Several processes (Instance) consume the same queue and  *)
(* share the idempotency keys in Redis.                                    *)
(*                                                                         *)
(* A delivery tag names the task that serves it.  Each step of a task is   *)
(* one awaited call, with the local computation up to the next await, so   *)
(* tasks interleave exactly at their awaits.  The broker, Redis and FCM    *)
(* are modelled from the calls the code makes to them.  The two circuit    *)
(* breakers are seen here only through the answers they can give.          *)
(***************************************************************************)
EXTENDS Naturals, FiniteSets

CONSTANTS
    Instance,           \* push-service processes
    Msg,                \* messages published to push.queue
    Key,                \* idempotency keys
    Delivery,           \* slots for tasks that run at once (bound)
    Payloads,           \* the contents a message may have
    WorkerConcurrency,  \* permits of the semaphore
    PrefetchCount,      \* basic_qos limit
    MaxAttempts,        \* RetryConfig.max_attempts
    Environments,       \* the kinds and the number of faults to allow for
    None                \* no task, instance or message

FaultKinds == {"process", "broker", "redis", "fcm", "expiry"}

\* What serde and process_message can tell apart in a payload.
PayloadType == [key : Key, format : {"envelope", "bare", "garbage"},
                token : {"ok", "missing", "invalid"},
                render : {"ok", "error", "panic"}]

ASSUME PushConstants ==
    /\ Payloads \subseteq PayloadType
    /\ WorkerConcurrency \in Nat \ {0}
    /\ PrefetchCount \in Nat \ {0}
    /\ MaxAttempts \in Nat
    /\ Environments \subseteq [faults : SUBSET FaultKinds, max : Nat]
    /\ None \notin Delivery
    /\ {"waiting", "settled"} \cap Instance = {}

VARIABLES
    env,        \* the faults that may happen (never changes)
    payload,    \* the content of each message (never changes)
    ready,      \* messages waiting in push.queue
    unacked,    \* delivery tags outstanding on some instance's channel
    acked,      \* messages removed by basic_ack
    dropped,    \* messages removed by basic_reject without requeue
    dlq,        \* messages published to failed.queue
    conn,       \* per instance: "up", "lost" (channel gone) or "down"
    permit,     \* per instance: tasks that hold a semaphore permit
    tlock,      \* per instance: task that holds the template client
    flock,      \* per instance: task that holds the FCM client
    pc,         \* per delivery: what its task does next
    inst,       \* per delivery: the instance that serves it
    msg,        \* per delivery: its message
    attempt,    \* per delivery: attempt number of retry_with_backoff
    idem,       \* Redis: value of idempotency:<key>
    accepted,   \* how often FCM accepted each message
    audit,      \* status in the latest audit row of each message
    faults      \* faults so far

taskVars   == <<pc, inst, msg, attempt>>
lockVars   == <<permit, tlock, flock>>
brokerVars == <<ready, unacked, acked, dropped, dlq>>
vars == <<env, payload, brokerVars, conn, lockVars, taskVars,
          idem, accepted, audit, faults>>

-----------------------------------------------------------------------------
(* Program counters of a task. *)

\* Inside process_message, and settling the delivery after it.
InProcess == {"check", "mark", "fetch", "send", "call", "accepted",
              "marksent", "markfailed", "auditsent", "auditfailed",
              "ack", "deadletter", "reject"}
\* Guards of the task body alive: the permit, and the template client.
HoldsPermit   == {"connect", "lock_template", "lock_fcm"} \cup InProcess
HoldsTemplate == {"lock_fcm"} \cup InProcess
Running       == {"spawned"} \cup HoldsPermit
\* The delivery is still to be settled, also when its task has panicked.
Unsettled     == {"panicked"} \cup Running
PC            == {"unused", "done"} \cup Unsettled

KeyOf(d) == payload[msg[d]].key

Goto(d, label) == pc' = [pc EXCEPT ![d] = label]

\* A fault of the given kind happens in this step.
Fault(kind) == /\ kind \in env.faults
               /\ faults < env.max
               /\ faults' = faults + 1

Init ==
    /\ env \in Environments
    /\ payload \in [Msg -> Payloads]
    /\ ready = Msg
    /\ unacked = {} /\ acked = {} /\ dropped = {} /\ dlq = {}
    /\ conn = [i \in Instance |-> "up"]
    /\ permit = [i \in Instance |-> {}]
    /\ tlock = [i \in Instance |-> None]
    /\ flock = [i \in Instance |-> None]
    /\ pc = [d \in Delivery |-> "unused"]
    /\ inst = [d \in Delivery |-> None]
    /\ msg = [d \in Delivery |-> None]
    /\ attempt = [d \in Delivery |-> 0]
    /\ idem \in [Key -> {"none", "1"}]    \* "1" is the gateway's own mark
    /\ accepted = [m \in Msg |-> 0]
    /\ audit = [m \in Msg |-> "none"]
    /\ faults = 0

-----------------------------------------------------------------------------
(* The consumer loop and the prologue of a task. *)

TagsOf(i) == {d \in unacked : inst[d] = i}

\* basic_qos lets the broker hand another message to this instance.
HasRoom(i) == conn[i] = "up" /\ Cardinality(TagsOf(i)) < PrefetchCount

\* consumer.next() yields a delivery and a task is spawned for it.
Deliver(i, m, d) ==
    /\ HasRoom(i)
    /\ m \in ready
    /\ pc[d] \notin Unsettled
    /\ ready' = ready \ {m}
    /\ unacked' = unacked \cup {d}
    /\ inst' = [inst EXCEPT ![d] = i]
    /\ msg' = [msg EXCEPT ![d] = m]
    /\ attempt' = [attempt EXCEPT ![d] = 0]
    /\ Goto(d, "spawned")
    /\ UNCHANGED <<env, payload, acked, dropped, dlq, conn, lockVars,
                   idem, accepted, audit, faults>>

\* semaphore.acquire().await
AcquirePermit(d) ==
    /\ pc[d] = "spawned"
    /\ Cardinality(permit[inst[d]]) < WorkerConcurrency
    /\ permit' = [permit EXCEPT ![inst[d]] = @ \cup {d}]
    /\ Goto(d, "connect")
    /\ UNCHANGED <<env, payload, brokerVars, conn, tlock, flock, inst, msg, attempt,
                   idem, accepted, audit, faults>>

\* Mutant: the FCM client stays locked.
DropGuards_KeepsFcmLock(d) ==
    /\ permit' = [permit EXCEPT ![inst[d]] = @ \ {d}]
    /\ tlock' = [tlock EXCEPT ![inst[d]] = IF @ = d THEN None ELSE @]
    /\ UNCHANGED flock

\* The task ends or unwinds: the mutex guards and the permit are dropped.
DropGuards(d) ==
    /\ permit' = [permit EXCEPT ![inst[d]] = @ \ {d}]
    /\ tlock' = [tlock EXCEPT ![inst[d]] = IF @ = d THEN None ELSE @]
    /\ flock' = [flock EXCEPT ![inst[d]] = IF @ = d THEN None ELSE @]

Finish(d) == Goto(d, "done") /\ DropGuards(d)

\* Mutant: the requeued message stays outstanding as well.
ConnectFailed_KeepsTag(d) ==
    /\ pc[d] = "connect"
    /\ Fault("redis")
    /\ ready' = IF d \in unacked THEN ready \cup {msg[d]} ELSE ready
    /\ Finish(d)
    /\ UNCHANGED <<env, payload, unacked, acked, dropped, dlq, conn, inst, msg,
                   attempt, idem, accepted, audit>>

\* Mutant: the early return forgets the permit (as with permit.forget()).
ConnectFailed_LeaksPermit(d) ==
    /\ pc[d] = "connect"
    /\ Fault("redis")
    /\ ready' = IF d \in unacked THEN ready \cup {msg[d]} ELSE ready
    /\ unacked' = unacked \ {d}
    /\ Goto(d, "done")
    /\ UNCHANGED <<env, payload, acked, dropped, dlq, conn, lockVars, inst, msg,
                   attempt, idem, accepted, audit>>

\* RedisClient::connect fails: the delivery is rejected with requeue.
ConnectFailed(d) ==
    /\ pc[d] = "connect"
    /\ Fault("redis")
    /\ ready' = IF d \in unacked THEN ready \cup {msg[d]} ELSE ready
    /\ unacked' = unacked \ {d}
    /\ Finish(d)
    /\ UNCHANGED <<env, payload, acked, dropped, dlq, conn, inst, msg, attempt,
                   idem, accepted, audit>>

\* RedisClient::connect succeeds.
Connect(d) ==
    /\ pc[d] = "connect"
    /\ Goto(d, "lock_template")
    /\ UNCHANGED <<env, payload, brokerVars, conn, lockVars, inst, msg, attempt,
                   idem, accepted, audit, faults>>

\* template_service_client.lock().await
LockTemplate(d) ==
    /\ pc[d] = "lock_template"
    /\ tlock[inst[d]] = None
    /\ tlock' = [tlock EXCEPT ![inst[d]] = d]
    /\ Goto(d, "lock_fcm")
    /\ UNCHANGED <<env, payload, brokerVars, conn, permit, flock, inst, msg, attempt,
                   idem, accepted, audit, faults>>

\* fcm_client.lock().await, then process_message parses the envelope.
LockFcm(d) ==
    /\ pc[d] = "lock_fcm"
    /\ flock[inst[d]] = None
    /\ flock' = [flock EXCEPT ![inst[d]] = d]
    /\ Goto(d, IF payload[msg[d]].format = "envelope" THEN "check"
                                                      ELSE "deadletter")
    /\ UNCHANGED <<env, payload, brokerVars, conn, permit, tlock, inst, msg, attempt,
                   idem, accepted, audit, faults>>

-----------------------------------------------------------------------------
(* process_message. Its steps touch neither the broker nor the locks. *)

Step(d, from, to) ==
    /\ pc[d] = from
    /\ Goto(d, to)
    /\ UNCHANGED <<env, payload, brokerVars, conn, lockVars, inst, msg>>

\* A SETEX of the task's key whose reply arrives.
SetKey(d, value) == idem' = [idem EXCEPT ![KeyOf(d)] = value]
\* A SETEX that ends in an error: Redis may have applied it or not.
SetKeyUnsure(d, value) == SetKey(d, value) \/ UNCHANGED idem

\* Mutant: only "sent" ends the processing of a duplicate.
AlreadyHandled_SentOnly(value) == value = "sent"
\* Mutant: only "processing" does.
AlreadyHandled_ProcessingOnly(value) == value = "processing"
\* Mutant: any value counts, the gateway's mark and "failed" included.
AlreadyHandled_AnyValue(value) == value # "none"

\* The values of IdempotencyStatus for which process_message returns Ok at
\* once; a missing key, "failed" and unknown values ("1") go on.
AlreadyHandled(value) == value \in {"sent", "processing"}

CheckIdempotency(d) ==
    /\ Step(d, "check", IF AlreadyHandled(idem[KeyOf(d)]) THEN "ack" ELSE "mark")
    /\ UNCHANGED <<attempt, idem, accepted, audit, faults>>

\* An error of the GET falls into the `_ => {}` arm: processing goes on.
CheckIdempotencyFailed(d) ==
    /\ Step(d, "check", "mark")
    /\ Fault("redis")
    /\ UNCHANGED <<attempt, idem, accepted, audit>>

\* Local checks after mark_as_processing: push_token present, token valid.
AfterMark(p) == IF p.token = "missing" THEN "deadletter"
                ELSE IF p.token = "invalid" THEN "markfailed" ELSE "fetch"

MarkAsProcessing(d) ==
    /\ Step(d, "mark", AfterMark(payload[msg[d]]))
    /\ SetKey(d, "processing")
    /\ UNCHANGED <<attempt, accepted, audit, faults>>

MarkAsProcessingFailed(d) ==
    /\ Step(d, "mark", "deadletter")
    /\ Fault("redis")
    /\ SetKeyUnsure(d, "processing")
    /\ UNCHANGED <<attempt, accepted, audit>>

\* fetch_template fails (through its breaker), or render_template returns an
\* error on the template it brought.
FetchTemplateFailed(d) ==
    /\ Step(d, "fetch", "markfailed")
    /\ UNCHANGED <<attempt, idem, accepted, audit, faults>>

\* fetch_template answers and render_template fills the template in.
FetchTemplate(d) ==
    /\ Step(d, "fetch", "send")
    /\ payload[msg[d]].render = "ok"
    /\ UNCHANGED <<attempt, idem, accepted, audit, faults>>

\* render_template panics: of the filled-in text every "}}" stands before
\* the first "{{".  The spawned task unwinds; nothing settles its delivery
\* and nothing takes the key back from "processing".
RenderPanics(d) ==
    /\ pc[d] = "fetch"
    /\ payload[msg[d]].render = "panic"
    /\ Goto(d, "panicked")
    /\ DropGuards(d)
    /\ UNCHANGED <<env, payload, brokerVars, conn, inst, msg, attempt,
                   idem, accepted, audit, faults>>

\* send_notification: the FCM breaker lets the call through, or rejects it.
BreakerAdmits(d) ==
    /\ Step(d, "send", "call")
    /\ attempt' = [attempt EXCEPT ![d] = 1]
    /\ UNCHANGED <<idem, accepted, audit, faults>>

BreakerRejects(d) ==
    /\ Step(d, "send", "markfailed")
    /\ UNCHANGED <<attempt, idem, accepted, audit, faults>>

\* FCM accepts the request in flight; the task has not seen the reply yet.
FcmAccepts(d) ==
    /\ Step(d, "call", "accepted")
    /\ accepted' = [accepted EXCEPT ![msg[d]] = @ + 1]
    /\ UNCHANGED <<attempt, idem, audit, faults>>

\* retry_with_backoff after a failed attempt of the step at pc: try again,
\* or give up and go on with the error.
Retry(d, from, again, givenUp) ==
    IF attempt[d] >= MaxAttempts
    THEN Step(d, from, givenUp) /\ UNCHANGED attempt
    ELSE Step(d, from, again) /\ attempt' = [attempt EXCEPT ![d] = @ + 1]

\* FCM refuses, or the request never reached it.
FcmRefuses(d) ==
    /\ Retry(d, "call", "call", "markfailed")
    /\ UNCHANGED <<idem, accepted, audit, faults>>

\* FCM accepted the request, but the reply is lost: the attempt has failed.
ReplyLost(d) ==
    /\ Retry(d, "accepted", "call", "markfailed")
    /\ Fault("fcm")
    /\ UNCHANGED <<idem, accepted, audit>>

\* The reply arrives and the breaker records the success.
SendSucceeded(d) ==
    /\ Step(d, "accepted", "marksent")
    /\ attempt' = [attempt EXCEPT ![d] = 1]
    /\ UNCHANGED <<idem, accepted, audit, faults>>

\* record_success fails in Redis: call() turns the success into an error.
RecordSuccessFailed(d) ==
    /\ Step(d, "accepted", "markfailed")
    /\ Fault("redis")
    /\ UNCHANGED <<attempt, idem, accepted, audit>>

MarkAsSent(d) ==
    /\ Step(d, "marksent", "auditsent")
    /\ SetKey(d, "sent")
    /\ UNCHANGED <<attempt, accepted, audit, faults>>

MarkAsSentFailed(d) ==
    /\ Retry(d, "marksent", "marksent", "deadletter")
    /\ Fault("redis")
    /\ SetKeyUnsure(d, "sent")
    /\ UNCHANGED <<accepted, audit>>

\* Mutant: the error path writes "sent".
MarkAsFailed_WritesSent(d) ==
    /\ Step(d, "markfailed", "auditfailed")
    /\ SetKey(d, "sent")
    /\ UNCHANGED <<attempt, accepted, audit, faults>>

MarkAsFailed(d) ==
    /\ Step(d, "markfailed", "auditfailed")
    /\ SetKey(d, "failed")
    /\ UNCHANGED <<attempt, accepted, audit, faults>>

MarkAsFailedFailed(d) ==
    /\ Step(d, "markfailed", "deadletter")
    /\ Fault("redis")
    /\ SetKeyUnsure(d, "failed")
    /\ UNCHANGED <<attempt, accepted, audit>>

\* Mutant: the row gets the status string of the idempotency key.
Log_KeyStatus(d, status) == audit' = [audit EXCEPT ![msg[d]] = idem[KeyOf(d)]]

\* log_notification is best effort: the row is written, or a warning is.
Log(d, status) == \/ audit' = [audit EXCEPT ![msg[d]] = status]
                  \/ UNCHANGED audit

LogSent(d) ==
    /\ Step(d, "auditsent", "ack")
    /\ Log(d, "Sent")
    /\ UNCHANGED <<attempt, idem, accepted, faults>>

LogFailed(d) ==
    /\ Step(d, "auditfailed", "deadletter")
    /\ Log(d, "Failed")
    /\ UNCHANGED <<attempt, idem, accepted, faults>>

-----------------------------------------------------------------------------
(* Settling the delivery. A tag that is no longer outstanding (its channel *)
(* is gone) cannot be settled: the error is logged and the task ends.      *)

Acknowledge(d) ==
    /\ pc[d] = "ack"
    /\ acked' = IF d \in unacked THEN acked \cup {msg[d]} ELSE acked
    /\ unacked' = unacked \ {d}
    /\ Finish(d)
    /\ UNCHANGED <<env, payload, ready, dropped, dlq, conn, inst, msg, attempt,
                   idem, accepted, audit, faults>>

\* The payload is parsed again, as a bare NotificationMessage; only then is
\* a DlqMessage published. An envelope has none of its fields.
PublishToDlq(d) ==
    /\ pc[d] = "deadletter"
    /\ Goto(d, "reject")
    /\ dlq' = IF payload[msg[d]].format = "bare" /\ conn[inst[d]] = "up"
              THEN dlq \cup {msg[d]} ELSE dlq
    /\ UNCHANGED <<env, payload, ready, unacked, acked, dropped, conn, lockVars,
                   inst, msg, attempt, idem, accepted, audit, faults>>

\* reject(tag, false): no dead-letter exchange is declared, the message goes.
Reject(d) ==
    /\ pc[d] = "reject"
    /\ dropped' = IF d \in unacked THEN dropped \cup {msg[d]} ELSE dropped
    /\ unacked' = unacked \ {d}
    /\ Finish(d)
    /\ UNCHANGED <<env, payload, ready, acked, dlq, conn, inst, msg, attempt,
                   idem, accepted, audit, faults>>

-----------------------------------------------------------------------------
(* Environment: key expiry, lost connections, process exits and restarts. *)

\* Redis drops an expired key.
Expire(k) ==
    /\ idem[k] # "none"
    /\ Fault("expiry")
    /\ idem' = [idem EXCEPT ![k] = "none"]
    /\ UNCHANGED <<env, payload, brokerVars, conn, lockVars, taskVars, accepted, audit>>

\* The broker puts the outstanding deliveries of a closed channel back.
RequeueAll(i) ==
    /\ ready' = ready \cup {msg[d] : d \in TagsOf(i)}
    /\ unacked' = unacked \ TagsOf(i)
    /\ UNCHANGED <<acked, dropped, dlq>>

\* The process ends: its tasks, permits and locks are gone.
KillTasks(i) ==
    /\ pc' = [d \in Delivery |-> IF inst[d] = i /\ pc[d] \in Unsettled
                                 THEN "done" ELSE pc[d]]
    /\ permit' = [permit EXCEPT ![i] = {}]
    /\ tlock' = [tlock EXCEPT ![i] = None]
    /\ flock' = [flock EXCEPT ![i] = None]

\* The AMQP connection breaks; running tasks go on until main returns.
ConnectionLost(i) ==
    /\ conn[i] = "up"
    /\ Fault("broker")
    /\ conn' = [conn EXCEPT ![i] = "lost"]
    /\ RequeueAll(i)
    /\ UNCHANGED <<env, payload, lockVars, taskVars, idem, accepted, audit>>

\* consumer.next() yields None, main returns and the runtime drops its tasks.
ConsumerClosed(i) ==
    /\ conn[i] = "lost"
    /\ conn' = [conn EXCEPT ![i] = "down"]
    /\ KillTasks(i)
    /\ UNCHANGED <<env, payload, brokerVars, inst, msg, attempt,
                   idem, accepted, audit, faults>>

\* The process is killed while it is connected.
Crash(i) ==
    /\ conn[i] = "up"
    /\ Fault("process")
    /\ conn' = [conn EXCEPT ![i] = "down"]
    /\ RequeueAll(i)
    /\ KillTasks(i)
    /\ UNCHANGED <<env, payload, inst, msg, attempt, idem, accepted, audit>>

\* The container is started again and main reconnects.
Restart(i) ==
    /\ conn[i] = "down"
    /\ conn' = [conn EXCEPT ![i] = "up"]
    /\ UNCHANGED <<env, payload, brokerVars, lockVars, taskVars,
                   idem, accepted, audit, faults>>

\* No task is left and the broker has nothing to hand out, or nobody to hand
\* it to: deliveries of panicked tasks fill every prefetch window.
Idle ==
    /\ \A d \in Delivery : pc[d] \notin Running
    /\ ready = {} \/ \A i \in Instance : ~HasRoom(i)
    /\ UNCHANGED vars

-----------------------------------------------------------------------------
\* What a task does by itself, and what FCM answers.
Progress(d) ==
    \/ AcquirePermit(d) \/ Connect(d) \/ LockTemplate(d) \/ LockFcm(d)
    \/ CheckIdempotency(d) \/ MarkAsProcessing(d)
    \/ FetchTemplate(d) \/ FetchTemplateFailed(d) \/ RenderPanics(d)
    \/ BreakerAdmits(d) \/ BreakerRejects(d)
    \/ FcmAccepts(d) \/ FcmRefuses(d) \/ SendSucceeded(d)
    \/ MarkAsSent(d) \/ MarkAsFailed(d) \/ LogSent(d) \/ LogFailed(d)
    \/ Acknowledge(d) \/ PublishToDlq(d) \/ Reject(d)

\* A call of the task that fails, and how the task goes on.
CallFails(d) ==
    \/ ConnectFailed(d) \/ CheckIdempotencyFailed(d) \/ MarkAsProcessingFailed(d)
    \/ ReplyLost(d) \/ RecordSuccessFailed(d)
    \/ MarkAsSentFailed(d) \/ MarkAsFailedFailed(d)

Next ==
    \/ \E i \in Instance, m \in Msg, d \in Delivery : Deliver(i, m, d)
    \/ \E d \in Delivery : Progress(d) \/ CallFails(d)
    \/ \E k \in Key : Expire(k)
    \/ \E i \in Instance : ConnectionLost(i) \/ ConsumerClosed(i)
                           \/ Crash(i) \/ Restart(i)
    \/ Idle

Spec == Init /\ [][Next]_vars

\* tokio polls every ready task; RabbitMQ delivers while a consumer has room;
\* main returns once its consumer is closed and compose restarts it.  That
\* FCM answers is an assumption on FCM: the client sets no timeout.
Fairness ==
    /\ \A d \in Delivery : WF_vars(Progress(d))
    /\ WF_vars(\E i \in Instance, m \in Msg, d \in Delivery : Deliver(i, m, d))
    /\ \A i \in Instance : WF_vars(ConsumerClosed(i)) /\ WF_vars(Restart(i))

FairSpec == Spec /\ Fairness

-----------------------------------------------------------------------------
(* Properties. *)

TypeOK ==
    /\ env \in Environments
    /\ payload \in [Msg -> Payloads]
    /\ ready \subseteq Msg /\ acked \subseteq Msg
    /\ dropped \subseteq Msg /\ dlq \subseteq Msg
    /\ unacked \subseteq Delivery
    /\ conn \in [Instance -> {"up", "lost", "down"}]
    /\ permit \in [Instance -> SUBSET Delivery]
    /\ tlock \in [Instance -> Delivery \cup {None}]
    /\ flock \in [Instance -> Delivery \cup {None}]
    /\ pc \in [Delivery -> PC]
    /\ inst \in [Delivery -> Instance \cup {None}]
    /\ msg \in [Delivery -> Msg \cup {None}]
    /\ \A d \in Delivery :
          pc[d] # "unused" => inst[d] \in Instance /\ msg[d] \in Msg
    /\ \A d \in unacked : pc[d] # "unused"
    /\ attempt \in [Delivery -> Nat]
    /\ idem \in [Key -> {"none", "1", "processing", "sent", "failed"}]
    /\ accepted \in [Msg -> Nat]
    /\ audit \in [Msg -> {"none", "Sent", "Failed"}]
    /\ faults \in Nat

\* Every message is in exactly one place: waiting, held by one outstanding
\* delivery, acknowledged or dropped. No path of the task settles a message
\* twice, requeues a settled one or leaves one behind, whatever crashes.
ExactlyOnePlace ==
    /\ \A m \in Msg :
          \/ m \in ready \/ m \in acked \/ m \in dropped
          \/ \E d \in unacked : msg[d] = m
    /\ ready \cap acked = {} /\ ready \cap dropped = {} /\ acked \cap dropped = {}
    /\ \A d \in unacked : msg[d] \notin ready \cup acked \cup dropped
    /\ \A d, e \in unacked : msg[d] = msg[e] => d = e

\* An outstanding tag has a live task on a connected instance to settle it,
\* unless that task has panicked in render_template; and a live task on a
\* connected instance still has its tag.
TagsMatchTasks ==
    \A d \in Delivery :
        d \in unacked <=> pc[d] \in Unsettled /\ conn[inst[d]] = "up"

\* Some message with this idempotency key has reached FCM.
Delivered(k) == \E m \in Msg : payload[m].key = k /\ accepted[m] > 0

\* The mark "sent", which makes every later duplicate skip, is only ever
\* there after FCM accepted a notification for that key.
SentMeansAccepted == \A k \in Key : idem[k] = "sent" => Delivered(k)

\* An audit trail that says Sent is true of that very message.
AuditedSentMeansAccepted ==
    \A m \in Msg : audit[m] = "Sent" => accepted[m] > 0

\* Whoever reads the shared state is told no lie about a delivery: neither a
\* duplicate that skips on "sent" nor a reader of the audit log.
SentClaimsTrue == SentMeansAccepted /\ AuditedSentMeansAccepted

\* Every way out of a task gives its permit back, and only a task that is
\* past acquire() has one: the semaphore never leaks.
PermitsReturned ==
    \A i \in Instance :
        permit[i] = {d \in Delivery : inst[d] = i /\ pc[d] \in HoldsPermit}

\* Whatever WorkerConcurrency is, the two mutexes let one task at a time be
\* inside process_message on an instance.
SerialProcessing ==
    \A d, e \in Delivery :
        pc[d] \in InProcess /\ pc[e] \in InProcess /\ inst[d] = inst[e] => d = e

\* A bare message is removed from the queue only once failed.queue has it:
\* the publish precedes the reject on the same channel.
BareDroppedIsDeadLettered ==
    \A m \in dropped : payload[m].format = "bare" => m \in dlq

OneProcess == \A i, j \in Instance : i = j

\* The conditions under which idempotency keys do their work: one process,
\* which may crash or lose its broker connection, but Redis and FCM answer
\* and no key expires.
OneSoundProcess == OneProcess /\ env.faults \subseteq {"process", "broker"}

OnePerKey ==
    /\ \A m \in Msg : accepted[m] <= 1
    /\ \A m, n \in Msg :
          accepted[m] > 0 /\ accepted[n] > 0 /\ payload[m].key = payload[n].key
          => m = n

\* One key, at most one notification: no redelivery, restart or duplicate
\* message makes FCM accept a second one.
AtMostOncePerKey == OneSoundProcess => OnePerKey

KeepsSent == \A k \in Key : idem[k] = "sent" => idem'[k] = "sent"

\* Once a key says "sent" no later step of a task turns it back.
SentIsFinal == [][OneSoundProcess => KeepsSent]_vars

\* A message whose task panics once it has a template.
Panics(p) == p.token = "ok" /\ p.render = "panic"

\* A message that ends without taking its key back from "processing".
LeavesProcessing(p) == p.token = "missing" \/ Panics(p)

\* An acknowledged message was delivered under its key, unless another
\* message left that key at "processing". (One process that does not crash
\* and reaches Redis; FCM replies may be lost and keys expire.)
AckedMeansDelivered ==
    OneProcess /\ env.faults \subseteq {"fcm", "expiry"} =>
    \A m \in acked :
        \/ Delivered(payload[m].key)
        \/ \E n \in Msg : payload[n].key = payload[m].key
                          /\ LeavesProcessing(payload[n])

\* After any finite number of faults every message is settled in the end:
\* those whose rendering panics excepted, and as long as these are too few
\* to fill a prefetch window for good.
EverySettled ==
    Cardinality({m \in Msg : Panics(payload[m])}) < PrefetchCount =>
    \A m \in Msg : ~Panics(payload[m]) => <>(m \in acked \cup dropped)

-----------------------------------------------------------------------------
(* The consumer implements the queue it consumes from. *)

Places(m) ==
    {"waiting" : w \in {m} \cap ready}
    \cup {inst[d] : d \in {e \in unacked : msg[e] = m}}
    \cup {"settled" : s \in {m} \cap (acked \cup dropped)}

Queue == INSTANCE QueueConsumer
         WITH place <- [m \in Msg |-> Places(m)], HasTtl <- FALSE

\* For a reader of push.queue every step is one of QueueConsumer: no path of
\* a task settles a message it does not hold, settles or requeues one twice,
\* or leaves one behind, and a settled message never comes back.
ImplementsQueue == Queue!Spec
=============================================================================
