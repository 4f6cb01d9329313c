-------------------------- MODULE NotificationSystem --------------------------
(***************************************************************************)
(* The path of a notification: the gateway publishes it, email-service or  *)
(* push-service delivers it, and all three keep idempotency:<name> in one  *)
(* Redis. The gateway uses the client's key and writes 1, push-service the *)
(* same key with processing and sent, email-service the request id.        *)
(*                                                                         *)
(* The consumers are reduced to what they do with that name and to the     *)
(* ways in which they fail on a message: PushWorker and EmailProcessor     *)
(* model them whole. One push-service process handles one message at a     *)
(* time; email handlers interleave.                                        *)
(***************************************************************************)
EXTENDS GatewayNotification

CONSTANT MaxCopies     \* publications of one request (bound)

Copy == Request \X (1..MaxCopies)

VARIABLES
    stage,      \* what becomes of each copy of a message
    delivered,  \* how often each request was delivered to its channel
    failed      \* history: the requests a consumer failed on

consumerVars == <<stage, delivered, failed>>
vars == <<gatewayVars, consumerVars>>

Stages == {"none", "queued", "mark", "send", "settled"}
InWork == {"mark", "send"}

Channel(c) == sub[c[1]].channel

\* The name whose key the consumer of a copy looks at.
ConsumerName(c) == IF Channel(c) = "email" THEN sub[c[1]].id ELSE sub[c[1]].key

\* email-service asks EXISTS; push-service takes any value that is not its own
\* (the gateway's 1 too) for none.
SeenBefore(c) ==
    IF Channel(c) = "email" THEN idem[ConsumerName(c)] # "none"
    ELSE idem[ConsumerName(c)] \in {"processing", "sent"}

SystemInit ==
    /\ Init
    /\ stage = [c \in Copy |-> "none"]
    /\ delivered = [r \in Request |-> 0]
    /\ failed = {}

-----------------------------------------------------------------------------
(* The queues. *)

Enqueue(r) ==
    /\ published[r] < MaxCopies
    /\ stage' = [stage EXCEPT ![<<r, published[r] + 1>>] = "queued"]
    /\ UNCHANGED <<delivered, failed>>

PublishStep(r) == Publish(r) /\ Enqueue(r)
PublishUnconfirmedStep(r) == PublishUnconfirmed(r) /\ Enqueue(r)

-----------------------------------------------------------------------------
(* The consumers. *)

Advance(c, from, to) ==
    /\ stage[c] = from
    /\ stage' = [stage EXCEPT ![c] = to]
    /\ UNCHANGED <<env, sub, handlerVars, status, inflight, published, faults>>

\* email-service must have declared the queue as its own; push-service holds a
\* mutex from before the check to the end.
MayStart(c) ==
    IF Channel(c) = "email" THEN "email-service" \in env.declared
    ELSE \A x \in Copy : Channel(x) = "push" => stage[x] \notin InWork

\* push-service finds no metadata where NotificationMessage requires it.
Unreadable(c) == Channel(c) = "push" /\ sub[c[1]].metadata = "absent"

\* It rejects what it cannot read before it has looked at any key.
RejectUnreadable(c) ==
    /\ MayStart(c) /\ Unreadable(c)
    /\ Advance(c, "queued", "settled")
    /\ failed' = failed \cup {c[1]}
    /\ UNCHANGED <<idem, delivered>>

\* A duplicate is acknowledged.
DropDuplicate(c) ==
    /\ MayStart(c) /\ ~Unreadable(c) /\ SeenBefore(c)
    /\ Advance(c, "queued", "settled")
    /\ UNCHANGED <<idem, delivered, failed>>

\* Mutant: the consumer does not look at the key.
Take_Unchecked(c) ==
    /\ MayStart(c) /\ ~Unreadable(c)
    /\ Advance(c, "queued", "mark")
    /\ UNCHANGED <<idem, delivered, failed>>

Take(c) ==
    /\ MayStart(c) /\ ~Unreadable(c) /\ ~SeenBefore(c)
    /\ Advance(c, "queued", "mark")
    /\ UNCHANGED <<idem, delivered, failed>>

\* Mutant: the copy is settled instead of sent.
Mark_Settles(c) ==
    /\ Advance(c, "mark", "settled")
    /\ idem' = [idem EXCEPT ![ConsumerName(c)] = "1"]
    /\ UNCHANGED <<delivered, failed>>

\* checkAndMarkProcessed or mark_as_processing.
Mark(c) ==
    /\ Advance(c, "mark", "send")
    /\ idem' = [idem EXCEPT ![ConsumerName(c)] =
                    IF Channel(c) = "email" THEN "1" ELSE "processing"]
    /\ UNCHANGED <<delivered, failed>>

\* The gateway puts push_token beside the metadata; push-service reads the one
\* in the metadata, which is there if the client has sent it.
HasToken(c) == sub[c[1]].metadata = "token"

\* The channel accepts the message; push-service then calls mark_as_sent.
Deliver(c) ==
    /\ Advance(c, "send", "settled")
    /\ Channel(c) = "push" => HasToken(c)
    /\ delivered' = [delivered EXCEPT ![c[1]] = @ + 1]
    /\ idem' = IF Channel(c) = "email" THEN idem
               ELSE [idem EXCEPT ![ConsumerName(c)] = "sent"]
    /\ UNCHANGED failed

\* email-service gets no template (it reads data.data of an answer that is the
\* template itself) or no mail out, and returns the message to its queue.
EmailFails(c) ==
    /\ Channel(c) = "email"
    /\ Advance(c, "send", "queued")
    /\ failed' = failed \cup {c[1]}
    /\ UNCHANGED <<idem, delivered>>

\* push-service gives the message up. Without a push_token, and when rendering
\* panics, the key stays at "processing"; otherwise mark_as_failed is called.
\* What a panic leaves unsettled counts as settled here.
PushFails(c) ==
    /\ Channel(c) = "push"
    /\ Advance(c, "send", "settled")
    /\ failed' = failed \cup {c[1]}
    /\ \/ UNCHANGED idem
       \/ HasToken(c) /\ idem' = [idem EXCEPT ![ConsumerName(c)] = "failed"]
    /\ UNCHANGED delivered

Consume(c) ==
    \/ RejectUnreadable(c) \/ DropDuplicate(c) \/ Take(c) \/ Mark(c)
    \/ Deliver(c) \/ EmailFails(c) \/ PushFails(c)

-----------------------------------------------------------------------------
\* Every request is answered and every message settled, or kept from its queue
\* or its consumer by the other's declaration of email.queue.
Idle ==
    /\ \A r \in Request : pc[r] = "done"
    /\ \A r \in inflight : ~HasChannel(r)
    /\ \A c \in Copy :
          stage[c] \in {"none", "settled"} \/ (stage[c] = "queued" /\ ~MayStart(c))
    /\ UNCHANGED vars

Next ==
    \/ \E r \in Request :
        \/ /\ Authenticate(r) \/ Handle(r) \/ HandleFailed(r) \/ PublishLost(r)
           /\ UNCHANGED consumerVars
        \/ PublishStep(r) \/ PublishUnconfirmedStep(r)
    \/ \E c \in Copy : Consume(c)
    \/ (Crash \/ \E n \in Name : Expire(n)) /\ UNCHANGED consumerVars
    \/ Idle

\* Redis calls return, the client publishes while it is connected, and each
\* consumer works on every message in its queue.
Fairness ==
    /\ \A r \in Request : /\ WF_vars(Handle(r) /\ UNCHANGED consumerVars)
                          /\ WF_vars(PublishStep(r))
    /\ \A c \in Copy : WF_vars(Consume(c))

Spec == SystemInit /\ [][Next]_vars
FairSpec == Spec /\ Fairness

-----------------------------------------------------------------------------
TypeOK ==
    /\ GatewayTypeOK
    /\ stage \in [Copy -> Stages]
    /\ delivered \in [Request -> Nat]
    /\ failed \subseteq Request

\* No request id is the idempotency key of a request.
NamesApart == \A r, q \in Request : sub[r].id # sub[q].key

Deliveries(n) == {r \in Request : sub[r].key = n /\ sub[r].channel = "push"
                                  /\ delivered[r] > 0}

\* The gateway writes 1 to the key push-service reads, and the broker may get
\* a message twice. With clients that wait for their answers, a key still
\* brings at most one push notification.
OnePushPerKey ==
    (OneAtATime /\ NamesApart) =>
        \A n \in Name : /\ Cardinality(Deliveries(n)) <= 1
                        /\ \A r \in Deliveries(n) : delivered[r] = 1

\* The message that the name of r let through, its own or that of the request
\* that made r a duplicate, was delivered, or its consumer failed on it.
Handled(r) ==
    \E q \in Request : /\ sub[q].key = sub[r].key
                       /\ \E x \in Request : /\ delivered[x] > 0 \/ x \in failed
                                             /\ \/ sub[x].key = sub[q].key
                                                \/ sub[x].id = sub[q].id

\* Both services have their channel to email.queue: it was made anew after the
\* gateway had declared it.
BothDeclared == env.declared = {"gateway", "email-service"}

\* The gateway and the consumers mark the same names, and a mark may be taken
\* for another's. Without faults, a notification that the gateway answered
\* with "queued", or refused as a duplicate, does not vanish between marks: its
\* consumer delivers it in the end or meets a failure of its own, provided that
\* no request id is used as a key and email.queue serves both sides.
AnsweredIsHandled ==
    \A r \in Request : (env.max = 0 /\ NamesApart /\ BothDeclared
                        /\ answer[r] \in {"queued", "duplicate"}) ~> Handled(r)

\* README.md: "Delivery adapters enforce at-least-once externally", which takes
\* at least one attempt. The gateway marks idempotency:<key> before it
\* publishes, and email-service takes idempotency:<request_id> for a sign that
\* it has sent the mail.
AtLeastOnce == \A r \in Request : answer[r] = "queued" ~> Handled(r)
=============================================================================
