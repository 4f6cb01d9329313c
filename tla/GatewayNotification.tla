------------------------- MODULE GatewayNotification -------------------------
(***************************************************************************)
(* POST /notifications/send of the api-gateway: the guard that validates   *)
(* the token, NotificationService.sendNotification with the Redis calls it *)
(* awaits, the interceptor that answers for a handler that takes too long, *)
(* and the RabbitMQ client that publishes in the background.               *)
(*                                                                         *)
(* Handlers of one process interleave at their awaits. Redis names         *)
(* idempotency:<n> are shared with the consumers of the two queues, so     *)
(* that idem ranges over all names and holds the values any of them write. *)
(***************************************************************************)
EXTENDS Naturals, FiniteSets

CONSTANTS
    Request,       \* requests clients make
    Name,          \* idempotency keys and request ids
    Environments,  \* what clients send, how many wait at once, which faults,
                   \* and whose declaration of email.queue the broker accepts
    None           \* no answer yet

FaultKinds == {"process", "broker", "redis", "slow", "expiry"}
Channels == {"email", "push"}
\* The x-idempotency-key, request_id and notification_type of a request, and
\* its optional metadata, with a push_token or without.
Submission == [key : Name, id : Name, channel : Channels,
               metadata : {"token", "other", "absent"}]
Answers == {"queued", "duplicate", "error", "timeout", "unauthorized"}

ASSUME GatewayConstants ==
    /\ Environments \subseteq [submissions : SUBSET Submission, concurrency : Nat,
                               faults : SUBSET FaultKinds, max : Nat,
                               declared : SUBSET {"gateway", "email-service"}]
    /\ None \notin Answers

VARIABLES
    env,        \* the environment (never changes)
    sub,        \* what each request submits (never changes)
    pc,         \* per request: what its handler awaits next
    answer,     \* per request: what the client was told
    idem,       \* Redis: value of idempotency:<name>
    status,     \* Redis: status in notification:<request_id>
    inflight,   \* emitted, not yet confirmed by the broker
    published,  \* how often each request's message reached its queue
    faults      \* faults so far

redisVars == <<idem, status>>
handlerVars == <<pc, answer>>
gatewayVars == <<env, sub, handlerVars, redisVars, inflight, published, faults>>

Running == {"get", "setex", "pending", "respond", "failed"}
PC == {"new", "done"} \cup Running
IdemValues == {"none", "1", "processing", "sent", "failed"}

Goto(r, label) == pc' = [pc EXCEPT ![r] = label]

\* The client hears the first answer only.
Tell(r, a) == answer' = IF answer[r] = None THEN [answer EXCEPT ![r] = a] ELSE answer

Fault(kind) == /\ kind \in env.faults
               /\ faults < env.max
               /\ faults' = faults + 1

\* Requests whose client still waits.
Waiting == {r \in Request : pc[r] \in Running /\ answer[r] = None}

Init ==
    /\ env \in Environments
    /\ sub \in [Request -> env.submissions]
    /\ pc = [r \in Request |-> "new"]
    /\ answer = [r \in Request |-> None]
    /\ idem = [n \in Name |-> "none"]
    /\ status = [n \in Name |-> "none"]
    /\ inflight = {}
    /\ published = [r \in Request |-> 0]
    /\ faults = 0

-----------------------------------------------------------------------------
(* The handler. *)

\* JwtAuthGuard asks the user-service; any error is an answer of its own.
Authenticate(r) ==
    /\ pc[r] = "new"
    /\ Cardinality(Waiting) < env.concurrency
    /\ \/ Goto(r, "get") /\ UNCHANGED answer
       \/ Goto(r, "done") /\ Tell(r, "unauthorized")
    /\ UNCHANGED <<env, sub, redisVars, inflight, published, faults>>

\* Mutant: the key is not looked up.
CheckKey_Skipped(r) ==
    /\ pc[r] = "get"
    /\ Goto(r, "setex")
    /\ UNCHANGED <<env, sub, answer, redisVars, inflight, published, faults>>

\* GET of the idempotency key: any value at all makes this a duplicate.
CheckKey(r) ==
    /\ pc[r] = "get"
    /\ IF idem[sub[r].key] = "none"
       THEN Goto(r, "setex") /\ UNCHANGED answer
       ELSE Goto(r, "done") /\ Tell(r, "duplicate")
    /\ UNCHANGED <<env, sub, redisVars, inflight, published, faults>>

\* The GET is outside the try block: its error leaves no status.
CheckKeyFailed(r) ==
    /\ pc[r] = "get"
    /\ Goto(r, "done") /\ Tell(r, "error")
    /\ Fault("redis")
    /\ UNCHANGED <<env, sub, redisVars, inflight, published>>

\* SETEX of the key, whoever has written it since the GET.
SetKey(r) ==
    /\ pc[r] = "setex"
    /\ Goto(r, "pending")
    /\ idem' = [idem EXCEPT ![sub[r].key] = "1"]
    /\ UNCHANGED <<env, sub, answer, status, inflight, published, faults>>

\* SETEX throws, with or without effect.
SetKeyFailed(r) ==
    /\ pc[r] = "setex"
    /\ Goto(r, "failed")
    /\ idem' \in {idem, [idem EXCEPT ![sub[r].key] = "1"]}
    /\ Fault("redis")
    /\ UNCHANGED <<env, sub, answer, status, inflight, published>>

\* storeNotificationStatus.
StoreStatus(r, s) == status' = [status EXCEPT ![sub[r].id] = s]

\* The status is stored; then the message is emitted, and nothing waits for it.
StorePending(r) ==
    /\ pc[r] = "pending"
    /\ Goto(r, "respond")
    /\ StoreStatus(r, "pending")
    /\ inflight' = inflight \cup {r}
    /\ UNCHANGED <<env, sub, answer, idem, published, faults>>

\* Mutant: the message is emitted before the status is stored.
StorePendingFailed_Emitted(r) ==
    /\ pc[r] = "pending"
    /\ Goto(r, "failed")
    /\ UNCHANGED status \/ StoreStatus(r, "pending")
    /\ inflight' = inflight \cup {r}
    /\ Fault("redis")
    /\ UNCHANGED <<env, sub, answer, idem, published>>

\* Storing the status throws, with or without effect.
StorePendingFailed(r) ==
    /\ pc[r] = "pending"
    /\ Goto(r, "failed")
    /\ UNCHANGED status \/ StoreStatus(r, "pending")
    /\ Fault("redis")
    /\ UNCHANGED <<env, sub, answer, idem, inflight, published>>

\* The handler returns and the interceptors send its answer.
Respond(r) ==
    /\ pc[r] = "respond"
    /\ Goto(r, "done") /\ Tell(r, "queued")
    /\ UNCHANGED <<env, sub, redisVars, inflight, published, faults>>

\* Mutant: the catch block throws before it stores the failure.
StoreFailed_Not(r) ==
    /\ pc[r] = "failed"
    /\ Goto(r, "done") /\ Tell(r, "error")
    /\ UNCHANGED <<env, sub, redisVars, inflight, published, faults>>

\* The catch block stores the failure and throws. The key stays.
StoreFailed(r) ==
    /\ pc[r] = "failed"
    /\ Goto(r, "done") /\ Tell(r, "error")
    /\ StoreStatus(r, "failed")
    /\ UNCHANGED <<env, sub, idem, inflight, published, faults>>

\* Storing the failure throws too, with or without effect.
StoreFailedFailed(r) ==
    /\ pc[r] = "failed"
    /\ Goto(r, "done") /\ Tell(r, "error")
    /\ UNCHANGED status \/ StoreStatus(r, "failed")
    /\ Fault("redis")
    /\ UNCHANGED <<env, sub, idem, inflight, published>>

\* TimeoutInterceptor answers 408; the handler it gave up on runs on.
Timeout(r) ==
    /\ r \in Waiting
    /\ Tell(r, "timeout")
    /\ Fault("slow")
    /\ UNCHANGED <<env, sub, pc, redisVars, inflight, published>>

Handle(r) ==
    \/ CheckKey(r) \/ SetKey(r) \/ StorePending(r) \/ Respond(r) \/ StoreFailed(r)

HandleFailed(r) ==
    \/ CheckKeyFailed(r) \/ SetKeyFailed(r) \/ StorePendingFailed(r)
    \/ StoreFailedFailed(r) \/ Timeout(r)

-----------------------------------------------------------------------------
(* The RabbitMQ client behind emit, and the environment. *)

\* The gateway declares email.queue without the arguments email-service gives
\* it. Once the broker refuses that, the client never gets a channel.
HasChannel(r) == sub[r].channel = "email" => "gateway" \in env.declared

\* The message reaches its queue and is confirmed.
Publish(r) ==
    /\ r \in inflight /\ HasChannel(r)
    /\ inflight' = inflight \ {r}
    /\ published' = [published EXCEPT ![r] = @ + 1]
    /\ UNCHANGED <<env, sub, handlerVars, redisVars, faults>>

\* The connection breaks before the confirm, and the client will send again.
PublishUnconfirmed(r) ==
    /\ r \in inflight /\ HasChannel(r)
    /\ published' = [published EXCEPT ![r] = @ + 1]
    /\ Fault("broker")
    /\ UNCHANGED <<env, sub, handlerVars, redisVars, inflight>>

\* The client cannot connect; nobody subscribes to the error.
PublishLost(r) ==
    /\ r \in inflight
    /\ inflight' = inflight \ {r}
    /\ Fault("broker")
    /\ UNCHANGED <<env, sub, handlerVars, redisVars, published>>

\* The gateway dies: clients that wait lose their connection.
Crash ==
    /\ Fault("process")
    /\ inflight # {} \/ \E r \in Request : pc[r] \in Running
    /\ pc' = [r \in Request |-> IF pc[r] \in Running THEN "done" ELSE pc[r]]
    /\ answer' = [r \in Request |-> IF r \in Waiting THEN "error" ELSE answer[r]]
    /\ inflight' = {}
    /\ UNCHANGED <<env, sub, redisVars, published>>

\* 24 hours after its last write, or 1 hour for a status.
Expire(n) ==
    /\ \/ idem' = [idem EXCEPT ![n] = "none"] /\ idem[n] # "none" /\ UNCHANGED status
       \/ status' = [status EXCEPT ![n] = "none"] /\ status[n] # "none" /\ UNCHANGED idem
    /\ Fault("expiry")
    /\ UNCHANGED <<env, sub, handlerVars, inflight, published>>

-----------------------------------------------------------------------------
GatewayTypeOK ==
    /\ env \in Environments
    /\ sub \in [Request -> env.submissions]
    /\ pc \in [Request -> PC]
    /\ answer \in [Request -> Answers \cup {None}]
    /\ idem \in [Name -> IdemValues]
    /\ status \in [Name -> {"none", "pending", "failed"}]
    /\ inflight \subseteq Request
    /\ published \in [Request -> Nat]
    /\ faults \in 0..env.max

\* Messages that left the handler of r for the broker.
Emitted(r) == r \in inflight \/ published[r] > 0

\* Clients send one request at a time, none is answered before its handler is
\* done, and no key expires.
OneAtATime == env.concurrency = 1 /\ env.faults \cap {"slow", "expiry"} = {}

\* sendNotification looks the key up and writes it in two commands. For
\* clients that wait for their answers, at most one request of a key is ever
\* emitted, whatever Redis, the broker or a crash do to it.
OneEmissionPerKey ==
    OneAtATime => \A r, q \in Request :
        Emitted(r) /\ Emitted(q) /\ sub[r].key = sub[q].key => r = q

\* A client that sendNotification told "error" may repeat its request under
\* another key: the first one was not emitted and never will be. Only a crash
\* after emit makes that answer a lie.
ErrorMeansUnpublished ==
    "process" \notin env.faults =>
        \A r \in Request : answer[r] = "error" => ~Emitted(r) /\ pc[r] = "done"

\* Once its handler is done, getStatus reports a request that was not emitted
\* as pending only if ids are reused, a message or the gateway was lost, or
\* Redis failed twice.
StatusTruthful ==
    (env.faults \cap {"process", "broker"} = {} /\ env.max <= 1) =>
        \A r \in Request :
            (/\ pc[r] = "done" /\ ~Emitted(r)
             /\ \A q \in Request \ {r} : sub[q].id # sub[r].id)
            => status[sub[r].id] # "pending"
=============================================================================
