---------------------------- MODULE EmailProcessor ----------------------------
(***************************************************************************)
(* The consumer of email.queue: EmailProcessor.handleEmailMessage with the *)
(* Redis, template and SMTP calls it awaits. Each process runs up to       *)
(* PrefetchCount handlers at once, which interleave at their awaits. A     *)
(* delivery tag names the handler that serves it.                          *)
(*                                                                         *)
(* The errors of a status post are swallowed; that the post, or the GET of *)
(* a template, never ends is a fault of its own, since no HTTP call of the *)
(* service has a timeout.  The breaker around SMTP never opens as          *)
(* sendEmail uses it, so every call reaches SMTP: EmailCircuitBreaker.     *)
(***************************************************************************)
EXTENDS Naturals, FiniteSets

CONSTANTS
    Instance,       \* email-service processes
    Msg,            \* messages published to email.queue
    Id,             \* request_ids; several messages may have the same one
    Delivery,       \* numbers for the handlers that run at once (bound)
    Contents,       \* what the messages may say, one function per choice
    PrefetchCount,  \* prefetchCount of the consumer
    Environments,   \* the kinds and the number of faults to allow for
    None            \* no instance, no message, no request_id

FaultKinds == {"process", "broker", "redis", "smtp", "http", "expiry", "ttl"}

\* What the deserializer and the handler can tell apart in a message:
\*   "object"   an object, with a request_id or (None) without;
\*   "text"     no JSON object: every field the handler reads is undefined;
\*   "null"     the JSON value null: reading any field throws;
\*   "foreign"  a packet with another pattern than "email.queue".
Formats == {"object", "text", "null", "foreign"}
Content == [format : Formats, id : Id \cup {None}, retry : Nat]

ASSUME EmailConstants ==
    /\ \A choice \in Contents :
          /\ choice \in [Msg -> Content]
          /\ \A m \in Msg : choice[m].format = "text"
                            => choice[m].id = None /\ choice[m].retry = 0
    /\ Delivery \subseteq Nat
    /\ None \notin Instance
    /\ {"waiting", "settled"} \cap Instance = {}
    /\ PrefetchCount \in Nat \ {0}
    /\ Environments \subseteq [faults : SUBSET FaultKinds, max : Nat]

VARIABLES
    env,          \* the faults that may happen (never changes)
    content,      \* format, request_id and retry_count of each message (never changes)
    ready,        \* messages waiting in email.queue
    unacked,      \* delivery tags outstanding on some channel
    acked,        \* messages removed by channel.ack
    deadLettered, \* messages routed to dlx.exchange
    pc,           \* per delivery: what its handler awaits next
    inst, msg,    \* per delivery: its process and its message
    marked,       \* Redis: the request_ids whose idempotency:<request_id> exists
    raced,        \* history: the request_ids that two handlers found new at once
    accepted,     \* how often SMTP accepted each message
    metric,       \* Redis: the three counters
    faults        \* faults so far

brokerVars == <<ready, unacked, acked, deadLettered>>
vars == <<env, content, brokerVars, pc, inst, msg, marked, raced, accepted, metric,
          faults>>

\* The handler has ended by an exception, or waits for an HTTP answer that
\* does not come; its tag is still outstanding.
Stuck == {"rejected", "hung"}
Running == {"exists", "set", "count", "template", "send", "accepted", "ack",
            "failed", "nack", "no_handler"}
PC == {"free"} \cup Stuck \cup Running

\* message.request_id; without one the key is idempotency:undefined.
IdOf(m) == content[m].id

Goto(d, label) == pc' = [pc EXCEPT ![d] = label]

\* The handler returns.
Return(d) ==
    /\ Goto(d, "free")
    /\ inst' = [inst EXCEPT ![d] = None]
    /\ msg' = [msg EXCEPT ![d] = None]

Fault(kind) == /\ kind \in env.faults
               /\ faults < env.max
               /\ faults' = faults + 1

\* incrementCounter: errors are swallowed.
Count(name) == metric' = [metric EXCEPT ![name] = @ + 1]
CountLost(name) == UNCHANGED metric /\ Fault("redis")
Increment(name) == (Count(name) /\ UNCHANGED faults) \/ CountLost(name)

Init ==
    /\ env \in Environments
    /\ content \in Contents
    /\ ready = Msg /\ unacked = {} /\ acked = {} /\ deadLettered = {}
    /\ pc = [d \in Delivery |-> "free"]
    /\ inst = [d \in Delivery |-> None]
    /\ msg = [d \in Delivery |-> None]
    /\ marked = {} /\ raced = {}
    /\ accepted = [m \in Msg |-> 0]
    /\ metric = [processed |-> 0, delivered |-> 0, failed |-> 0]
    /\ faults = 0

-----------------------------------------------------------------------------
(* deserialize, then handleEmailMessage *)

\* Where the packet goes. The handler of null throws on message.request_id,
\* and again, in its catch block, on message.notification_id: nothing settles
\* the message. The server has no handler for a foreign pattern.
Dispatch(m) == CASE content[m].format = "null"    -> "rejected"
                 [] content[m].format = "foreign" -> "no_handler"
                 [] OTHER                         -> "exists"

TagsOf(i) == {d \in unacked : inst[d] = i}

Receive(i, m, d) ==
    /\ m \in ready
    /\ pc[d] = "free" /\ \A e \in Delivery : pc[e] = "free" => d <= e
    /\ Cardinality(TagsOf(i)) < PrefetchCount
    /\ ready' = ready \ {m}
    /\ unacked' = unacked \cup {d}
    /\ inst' = [inst EXCEPT ![d] = i]
    /\ msg' = [msg EXCEPT ![d] = m]
    /\ Goto(d, Dispatch(m))
    /\ UNCHANGED <<env, content, acked, deadLettered, marked, raced, accepted, metric, faults>>

\* The Nest server rejects a packet that no handler is registered for.
NoHandler(d) ==
    /\ pc[d] = "no_handler"
    /\ Return(d)
    /\ unacked' = unacked \ {d}
    /\ deadLettered' = IF d \in unacked THEN deadLettered \cup {msg[d]} ELSE deadLettered
    /\ UNCHANGED <<env, content, ready, acked, marked, raced, accepted, metric, faults>>

Step(d, from, to) ==
    /\ pc[d] = from
    /\ Goto(d, to)
    /\ UNCHANGED <<env, content, brokerVars, inst, msg>>

\* The handler of a duplicate acknowledges it and returns. On a closed
\* channel ack throws, and the handler goes to its catch block instead.
AckDuplicate(d) ==
    /\ pc[d] = "exists"
    /\ IdOf(msg[d]) \in marked
    /\ IF d \in unacked
       THEN /\ acked' = acked \cup {msg[d]}
            /\ unacked' = unacked \ {d}
            /\ Return(d)
       ELSE UNCHANGED <<acked, unacked, inst, msg>> /\ Goto(d, "failed")
    /\ UNCHANGED <<env, content, ready, deadLettered, marked, raced, accepted,
                   metric, faults>>

\* checkAndMarkProcessed: EXISTS says no.
CheckNew(d) ==
    /\ Step(d, "exists", "set")
    /\ IdOf(msg[d]) \notin marked
    /\ raced' = IF \E e \in Delivery : pc[e] = "set" /\ IdOf(msg[e]) = IdOf(msg[d])
                THEN raced \cup {IdOf(msg[d])} ELSE raced
    /\ UNCHANGED <<marked, accepted, metric, faults>>

\* exists() turns an error into false.
CheckFailed(d) ==
    /\ Step(d, "exists", "set")
    /\ Fault("redis")
    /\ UNCHANGED <<marked, raced, accepted, metric>>

\* Mutant: the request is not marked before the handler goes on.
MarkProcessed_Skipped(d) ==
    /\ Step(d, "set", "count")
    /\ UNCHANGED <<marked, raced, accepted, metric, faults>>

\* checkAndMarkProcessed: SETEX.
MarkProcessed(d) ==
    /\ Step(d, "set", "count")
    /\ marked' = marked \cup {IdOf(msg[d])}
    /\ UNCHANGED <<raced, accepted, metric, faults>>

\* The error of SETEX is caught: the handler goes on, marked or not.
MarkFailed(d) ==
    /\ Step(d, "set", "count")
    /\ marked' \in {marked, marked \cup {IdOf(msg[d])}}
    /\ Fault("redis")
    /\ UNCHANGED <<raced, accepted, metric>>

\* The processed counter; the status post after it has no effect here.
CountProcessed(d) ==
    /\ Step(d, "count", "template")
    /\ Increment("processed")
    /\ UNCHANGED <<marked, raced, accepted>>

\* getTemplate and renderTemplate succeed, or one of them throws, as they
\* always do without a template_code and variables.
Template(d) ==
    /\ \E ok \in BOOLEAN :
          /\ Step(d, "template", IF ok THEN "send" ELSE "failed")
          /\ ok => content[msg[d]].format # "text"
    /\ UNCHANGED <<marked, raced, accepted, metric, faults>>

\* SMTP accepts the mail; sendMail has not returned yet.
SmtpAccepts(d) ==
    /\ Step(d, "send", "accepted")
    /\ accepted' = [accepted EXCEPT ![msg[d]] = @ + 1]
    /\ UNCHANGED <<marked, raced, metric, faults>>

\* sendMail fails; the result {success: false} is thrown by the handler.
SmtpRefuses(d) ==
    /\ Step(d, "send", "failed")
    /\ UNCHANGED <<marked, raced, accepted, metric, faults>>

\* The mail is accepted, but the connection breaks before the answer.
SmtpReplyLost(d) ==
    /\ Step(d, "accepted", "failed")
    /\ Fault("smtp")
    /\ UNCHANGED <<marked, raced, accepted, metric>>

\* sendEmail returns success; the delivered counter is incremented.
SendSucceeded(d) ==
    /\ Step(d, "accepted", "ack")
    /\ Increment("delivered")
    /\ UNCHANGED <<marked, raced, accepted>>

\* ack of a delivered mail; on a closed channel it throws into the catch block.
Ack(d) ==
    /\ pc[d] = "ack"
    /\ IF d \in unacked
       THEN /\ acked' = acked \cup {msg[d]}
            /\ unacked' = unacked \ {d}
            /\ Return(d)
       ELSE UNCHANGED <<acked, unacked, inst, msg>> /\ Goto(d, "failed")
    /\ UNCHANGED <<env, content, ready, deadLettered, marked, raced, accepted,
                   metric, faults>>

\* Mutant: the failure path does not count.
CountFailed_Not(d) ==
    /\ Step(d, "failed", "nack")
    /\ UNCHANGED <<marked, raced, accepted, metric, faults>>

\* The catch block counts the failure and posts the status.
CountFailed(d) ==
    /\ Step(d, "failed", "nack")
    /\ Increment("failed")
    /\ UNCHANGED <<marked, raced, accepted>>

\* Mutant: the two bounds overlap, so the last retry is also dead-lettered.
Nack_Overlap(d) ==
    /\ pc[d] = "nack"
    /\ Return(d)
    /\ unacked' = unacked \ {d}
    /\ ready' = IF d \in unacked /\ content[msg[d]].retry <= 3
                THEN ready \cup {msg[d]} ELSE ready
    /\ deadLettered' = IF d \in unacked /\ content[msg[d]].retry >= 3
                       THEN deadLettered \cup {msg[d]} ELSE deadLettered
    /\ UNCHANGED <<env, content, acked, marked, raced, accepted, metric, faults>>

\* Mutant: the handler ends without settling its message.
Nack_Never(d) ==
    /\ pc[d] = "nack"
    /\ Return(d)
    /\ UNCHANGED <<env, content, brokerVars, marked, raced, accepted, metric, faults>>

\* nack with requeue while retry_count < 3, and to the dead-letter exchange
\* otherwise. Nothing increments retry_count. On a closed channel nack throws
\* and the handler ends.
Nack(d) ==
    /\ pc[d] = "nack"
    /\ Return(d)
    /\ unacked' = unacked \ {d}
    /\ ready' = IF d \in unacked /\ content[msg[d]].retry < 3
                THEN ready \cup {msg[d]} ELSE ready
    /\ deadLettered' = IF d \in unacked /\ content[msg[d]].retry >= 3
                       THEN deadLettered \cup {msg[d]} ELSE deadLettered
    /\ UNCHANGED <<env, content, acked, marked, raced, accepted, metric, faults>>

\* A status post or the GET of the template gets no answer: the handler
\* waits for ever.  (One whose channel is gone has nothing left to settle.)
HttpHangs(d) ==
    /\ pc[d] \in {"template", "accepted", "nack"}
    /\ Fault("http")
    /\ IF d \in unacked THEN Goto(d, "hung") /\ UNCHANGED <<inst, msg>> ELSE Return(d)
    /\ UNCHANGED <<env, content, brokerVars, marked, raced, accepted, metric>>

-----------------------------------------------------------------------------
(* Environment. *)

\* The idempotency key of a request expires.
Expire(id) ==
    /\ id \in marked
    /\ Fault("expiry")
    /\ marked' = marked \ {id}
    /\ UNCHANGED <<env, content, brokerVars, pc, inst, msg, raced, accepted, metric>>

\* x-message-ttl: a message that waits too long is dead-lettered.
QueueTTL(m) ==
    /\ m \in ready
    /\ Fault("ttl")
    /\ ready' = ready \ {m}
    /\ deadLettered' = deadLettered \cup {m}
    /\ UNCHANGED <<env, content, unacked, acked, pc, inst, msg, marked, raced, accepted, metric>>

RequeueAll(i) ==
    LET tags == TagsOf(i)
    IN  /\ ready' = ready \cup {msg[d] : d \in tags}
        /\ unacked' = unacked \ tags
        /\ UNCHANGED <<acked, deadLettered>>

\* Delivery numbers that name nothing any more.
Release(gone) ==
    /\ pc' = [d \in Delivery |-> IF d \in gone THEN "free" ELSE pc[d]]
    /\ inst' = [d \in Delivery |-> IF d \in gone THEN None ELSE inst[d]]
    /\ msg' = [d \in Delivery |-> IF d \in gone THEN None ELSE msg[d]]

\* The channel is lost and re-established by the client library; handlers
\* in progress go on.
ConnectionLost(i) ==
    /\ Fault("broker")
    /\ RequeueAll(i)
    /\ Release({d \in Delivery : inst[d] = i /\ pc[d] \in Stuck})
    /\ UNCHANGED <<env, content, marked, raced, accepted, metric>>

\* The process dies with its handlers and is started again.
Crash(i) ==
    /\ Fault("process")
    /\ RequeueAll(i)
    /\ Release({d \in Delivery : inst[d] = i})
    /\ UNCHANGED <<env, content, marked, raced, accepted, metric>>

\* No handler runs, and no message waits for a process with room for it.
Idle ==
    /\ \A d \in Delivery : pc[d] \in {"free"} \cup Stuck
    /\ ready = {} \/ \A i \in Instance : Cardinality(TagsOf(i)) = PrefetchCount
    /\ UNCHANGED vars

Progress(d) ==
    \/ NoHandler(d) \/ AckDuplicate(d) \/ CheckNew(d) \/ MarkProcessed(d)
    \/ CountProcessed(d) \/ Template(d) \/ SmtpAccepts(d) \/ SmtpRefuses(d) \/ SendSucceeded(d)
    \/ Ack(d) \/ CountFailed(d) \/ Nack(d)

CallFails(d) == CheckFailed(d) \/ MarkFailed(d) \/ SmtpReplyLost(d) \/ HttpHangs(d)

Next ==
    \/ \E i \in Instance, m \in Msg, d \in Delivery : Receive(i, m, d)
    \/ \E d \in Delivery : Progress(d) \/ CallFails(d)
    \/ \E id \in marked : Expire(id)
    \/ \E m \in Msg : QueueTTL(m)
    \/ \E i \in Instance : ConnectionLost(i) \/ Crash(i)
    \/ Idle

Spec == Init /\ [][Next]_vars

\* The event loop runs every handler whose await is over; nodemailer ends an
\* SMTP call by its own timeouts; an HTTP call ends or is the fault HttpHangs;
\* the broker delivers while a consumer has room.
Fairness ==
    /\ \A d \in Delivery : WF_vars(Progress(d))
    /\ WF_vars(\E i \in Instance, m \in Msg, d \in Delivery : Receive(i, m, d))

FairSpec == Spec /\ Fairness

-----------------------------------------------------------------------------
(* Properties. *)

TypeOK ==
    /\ env \in Environments
    /\ content \in Contents
    /\ ready \subseteq Msg /\ acked \subseteq Msg /\ deadLettered \subseteq Msg
    /\ unacked \subseteq Delivery
    /\ pc \in [Delivery -> PC]
    /\ inst \in [Delivery -> Instance \cup {None}]
    /\ msg \in [Delivery -> Msg \cup {None}]
    /\ \A d \in Delivery :
          pc[d] # "free" => inst[d] \in Instance /\ msg[d] \in Msg
    /\ \A d \in unacked : pc[d] # "free"
    /\ marked \subseteq Id \cup {None}
    /\ raced \subseteq Id \cup {None}
    /\ accepted \in [Msg -> Nat]
    /\ metric \in [{"processed", "delivered", "failed"} -> Nat]
    /\ faults \in Nat

OneMailFor(id) ==
    /\ \A m \in Msg : IdOf(m) = id => accepted[m] <= 1
    /\ \A m, n \in Msg :
          IdOf(m) = id /\ IdOf(n) = id /\ accepted[m] > 0 /\ accepted[n] > 0 => m = n

\* A request results in at most one mail, for any number of messages with its
\* request_id, processes that crash, redeliveries and lost answers of SMTP,
\* with one exception: two handlers were between EXISTS and SETEX of
\* checkAndMarkProcessed at the same time. (Redis answers, keys stay.)
AtMostOneMail ==
    env.faults \cap {"redis", "expiry"} = {} =>
    \A id \in (Id \cup {None}) \ raced : OneMailFor(id)

\* The counters agree: every processed message ends as delivered or failed,
\* once (if no process dies, no channel is lost and Redis answers).
MetricsBalance ==
    env.faults \subseteq {"smtp", "expiry", "ttl"} =>
    metric.processed =
        metric.delivered + metric.failed
        + Cardinality({d \in Delivery :
                          pc[d] \in {"template", "send", "accepted", "failed"}})

IsStuck(m) == \E d \in unacked : msg[d] = m /\ pc[d] \in Stuck

\* Handlers that do not end fill the prefetch window of every process.
AllWindowsStuck ==
    \A i \in Instance :
        Cardinality({d \in TagsOf(i) : pc[d] \in Stuck}) = PrefetchCount

\* Every message is acknowledged or dead-lettered in the end, after any finite
\* number of faults: unless its own handler is stuck for good, on the value
\* null or on an HTTP call that does not end, or the stuck handlers of others
\* leave no process room to take it.
EverySettled ==
    \A m \in Msg :
        <>(m \in acked \cup deadLettered) \/ <>[]IsStuck(m) \/ <>[]AllWindowsStuck

-----------------------------------------------------------------------------
(* The consumer implements the queue it consumes from. *)

Places(m) ==
    {"waiting" : w \in {m} \cap ready}
    \cup {inst[d] : d \in {e \in unacked : msg[e] = m}}
    \cup {"settled" : s \in {m} \cap (acked \cup deadLettered)}

Queue == INSTANCE QueueConsumer
         WITH place <- [m \in Msg |-> Places(m)], HasTtl <- TRUE

\* For a reader of email.queue every step is one of QueueConsumer, whatever
\* the message says and on every path through the catch block: no handler
\* settles a message it does not hold, or the same one twice.
ImplementsQueue == Queue!Spec

-----------------------------------------------------------------------------
(* What the documentation says, and the code does not do. *)

\* README.MD:161-166, failed messages are retried and, after 3 retries, go to
\* the dead-letter queue: no message is acknowledged without a mail sent.
AckedWasSent == \A m \in acked : accepted[m] > 0
=============================================================================
