------------------------ MODULE NotificationSystemProofs ------------------------
(***************************************************************************)
(* Safety of NotificationSystem for any number of requests, keys, ids,     *)
(* copies and faults. A key is not locked: what keeps its second request   *)
(* from being emitted is spread over the label of its handler, the value   *)
(* in Redis and the fact that no other handler runs.                       *)
(***************************************************************************)
EXTENDS NotificationSystem, FiniteSetTheorems, TLAPS

\* The steps, grouped by what they leave alone.
HandlerStep(r) == Authenticate(r) \/ Handle(r) \/ HandleFailed(r)

GatewayStep ==
    \/ \E r \in Request : HandlerStep(r)
    \/ \E r \in Request : Publish(r) \/ PublishUnconfirmed(r) \/ PublishLost(r)
    \/ Crash
    \/ \E n \in Name : Expire(n)

LEMMA StepKinds ==
    ASSUME [Next]_vars
    PROVE  \/ GatewayStep
           \/ \E c \in Copy : Consume(c)
           \/ UNCHANGED vars
BY DEF Next, PublishStep, PublishUnconfirmedStep, Idle, GatewayStep, HandlerStep

LEMMA EnvFixed == ASSUME [Next]_vars PROVE UNCHANGED <<env, sub>>
BY StepKinds DEF GatewayStep, HandlerStep, Handle, HandleFailed, Authenticate, CheckKey,
   CheckKeyFailed, SetKey, SetKeyFailed, StorePending, StorePendingFailed, Respond,
   StoreFailed, StoreFailedFailed, Timeout, Publish, PublishUnconfirmed, PublishLost,
   Crash, Expire, Consume, RejectUnreadable, DropDuplicate, Take, Mark, Deliver,
       EmailFails, PushFails, Advance, vars, gatewayVars

\* A consumer changes nothing of the gateway but the values of names, and
\* takes none away.
LEMMA ConsumersLeaveGateway ==
    ASSUME TypeOK, NEW c \in Copy, Consume(c)
    PROVE  /\ UNCHANGED <<env, sub, handlerVars, status, inflight, published, faults>>
           /\ \A n \in Name : idem[n] # "none" => idem'[n] # "none"
BY DEF Consume, RejectUnreadable, DropDuplicate, Take, Mark, Deliver,
       EmailFails, PushFails, Advance, TypeOK, GatewayTypeOK

-----------------------------------------------------------------------------
(* Types. *)

LEMMA SubmissionType == ASSUME TypeOK PROVE sub \in [Request -> Submission]
BY GatewayConstants DEF TypeOK, GatewayTypeOK, Submission

LEMMA FaultType ==
    ASSUME TypeOK, NEW kind, Fault(kind), UNCHANGED env
    PROVE  faults' \in 0..env'.max
BY GatewayConstants DEF TypeOK, GatewayTypeOK, Fault

LEMMA AnswerType ==
    ASSUME TypeOK, NEW r \in Request, NEW a \in Answers, Tell(r, a)
    PROVE  answer' \in [Request -> Answers \cup {None}]
BY DEF TypeOK, GatewayTypeOK, Tell

LEMMA TypeInit == SystemInit => TypeOK
BY GatewayConstants DEF SystemInit, Init, TypeOK, GatewayTypeOK, PC, IdemValues, Stages

LEMMA TypeStep == TypeOK /\ [Next]_vars => TypeOK'
<1> SUFFICES ASSUME TypeOK, [Next]_vars PROVE TypeOK'
  OBVIOUS
<1>s. sub \in [Request -> Submission]
  BY SubmissionType
<1>e. UNCHANGED <<env, sub>>
  BY EnvFixed
<1>1. ASSUME NEW r \in Request, HandlerStep(r), UNCHANGED consumerVars PROVE TypeOK'
  <2>1. pc' \in [Request -> PC]
    BY <1>1 DEF HandlerStep, Handle, HandleFailed, Authenticate, CheckKey, CheckKeyFailed,
       SetKey, SetKeyFailed, StorePending, StorePendingFailed, Respond, StoreFailed,
       StoreFailedFailed, Timeout, Goto, TypeOK, GatewayTypeOK, PC, Running
  <2>2. answer' \in [Request -> Answers \cup {None}]
    BY <1>1, AnswerType DEF HandlerStep, Handle, HandleFailed, Authenticate, CheckKey,
       CheckKeyFailed, SetKey, SetKeyFailed, StorePending, StorePendingFailed, Respond,
       StoreFailed, StoreFailedFailed, Timeout, TypeOK, GatewayTypeOK, Answers
  <2>3. idem' \in [Name -> IdemValues]
    BY <1>1, <1>s DEF HandlerStep, Handle, HandleFailed, Authenticate, CheckKey,
       CheckKeyFailed, SetKey, SetKeyFailed, StorePending, StorePendingFailed, Respond,
       StoreFailed, StoreFailedFailed, Timeout, redisVars, TypeOK, GatewayTypeOK,
       IdemValues, Submission
  <2>4. status' \in [Name -> {"none", "pending", "failed"}]
    BY <1>1, <1>s DEF HandlerStep, Handle, HandleFailed, Authenticate, CheckKey,
       CheckKeyFailed, SetKey, SetKeyFailed, StorePending, StorePendingFailed, Respond,
       StoreFailed, StoreFailedFailed, Timeout, redisVars, StoreStatus, TypeOK,
       GatewayTypeOK, Submission
  <2>5. inflight' \subseteq Request /\ UNCHANGED published
    BY <1>1 DEF HandlerStep, Handle, HandleFailed, Authenticate, CheckKey, CheckKeyFailed,
       SetKey, SetKeyFailed, StorePending, StorePendingFailed, Respond, StoreFailed,
       StoreFailedFailed, Timeout, TypeOK, GatewayTypeOK
  <2>6. faults' \in 0..env'.max
    BY <1>1, <1>e, FaultType DEF HandlerStep, Handle, HandleFailed, Authenticate, CheckKey,
       CheckKeyFailed, SetKey, SetKeyFailed, StorePending, StorePendingFailed, Respond,
       StoreFailed, StoreFailedFailed, Timeout, TypeOK, GatewayTypeOK
  <2> QED
    BY <1>1, <1>e, <2>1, <2>2, <2>3, <2>4, <2>5, <2>6 DEF TypeOK, GatewayTypeOK, consumerVars
<1>2. ASSUME NEW r \in Request, PublishLost(r), UNCHANGED consumerVars PROVE TypeOK'
  BY <1>2, <1>e, FaultType DEF PublishLost, TypeOK, GatewayTypeOK, consumerVars, handlerVars, redisVars
<1>3. ASSUME NEW r \in Request, PublishStep(r) \/ PublishUnconfirmedStep(r) PROVE TypeOK'
  BY <1>3, <1>e, FaultType DEF PublishStep, Publish, PublishUnconfirmedStep, PublishUnconfirmed,
     Enqueue, TypeOK, GatewayTypeOK, consumerVars, handlerVars, redisVars, Stages, Copy
<1>4. ASSUME NEW c \in Copy, Consume(c) PROVE TypeOK'
  <2>1. c[1] \in Request /\ ConsumerName(c) \in Name
    BY <1>s DEF Copy, ConsumerName, Submission
  <2>2. idem' \in [Name -> IdemValues]
    BY <1>4, <2>1 DEF Consume, RejectUnreadable, DropDuplicate, Take, Mark, Deliver,
       EmailFails, PushFails, TypeOK, GatewayTypeOK,
       IdemValues
  <2>3. stage' \in [Copy -> Stages]
    BY <1>4 DEF Consume, RejectUnreadable, DropDuplicate, Take, Mark, Deliver,
       EmailFails, PushFails, Advance, TypeOK, Stages
  <2>4. delivered' \in [Request -> Nat] /\ failed' \subseteq Request
    BY <1>4, <2>1 DEF Consume, RejectUnreadable, DropDuplicate, Take, Mark, Deliver,
       EmailFails, PushFails, TypeOK
  <2> QED
    BY <1>4, <1>e, <2>2, <2>3, <2>4, ConsumersLeaveGateway
       DEF TypeOK, GatewayTypeOK, handlerVars
<1>5. CASE Crash /\ UNCHANGED consumerVars
  BY <1>5, <1>e, FaultType DEF Crash, TypeOK, GatewayTypeOK, consumerVars, redisVars, PC, Answers
<1>6. ASSUME NEW n \in Name, Expire(n), UNCHANGED consumerVars PROVE TypeOK'
  BY <1>6, <1>e, FaultType DEF Expire, TypeOK, GatewayTypeOK, consumerVars, handlerVars, IdemValues
<1>7. CASE UNCHANGED vars
  BY <1>7 DEF vars, gatewayVars, handlerVars, redisVars, consumerVars, TypeOK, GatewayTypeOK
<1> QED
  BY <1>1, <1>2, <1>3, <1>4, <1>5, <1>6, <1>7 DEF Next, HandlerStep, Idle

\* No step of the gateway, the broker or a consumer leaves the types, and no
\* more faults happen than the environment allows.
THEOREM TypeInvariant == Spec => []TypeOK
BY TypeInit, TypeStep, PTL DEF Spec

-----------------------------------------------------------------------------
(* The gateway: which handlers have emitted. *)

\* A request is emitted by the step that ends its handler's work, so a handler
\* with work left has emitted nothing.
EmittedLate == \A r \in Request : Emitted(r) => pc[r] \in {"respond", "done"}

LEMMA EmittedLateStep == TypeOK /\ EmittedLate /\ [Next]_vars => EmittedLate'
<1> SUFFICES ASSUME TypeOK, EmittedLate, [Next]_vars, NEW q \in Request, Emitted(q)'
             PROVE  pc'[q] \in {"respond", "done"}
  BY DEF EmittedLate
<1> USE DEF EmittedLate, Emitted, TypeOK, GatewayTypeOK
<1>1. ASSUME NEW r \in Request, HandlerStep(r) PROVE pc'[q] \in {"respond", "done"}
  BY <1>1 DEF HandlerStep, Handle, HandleFailed, Authenticate, CheckKey, CheckKeyFailed,
     SetKey, SetKeyFailed, StorePending, StorePendingFailed, Respond, StoreFailed,
     StoreFailedFailed, Timeout, Goto
<1>2. ASSUME NEW r \in Request, Publish(r) \/ PublishUnconfirmed(r) \/ PublishLost(r)
      PROVE  pc'[q] \in {"respond", "done"}
  BY <1>2 DEF Publish, PublishUnconfirmed, PublishLost, handlerVars
<1>3. CASE Crash
  BY <1>3 DEF Crash
<1>4. ASSUME NEW n \in Name, Expire(n) PROVE pc'[q] \in {"respond", "done"}
  BY <1>4 DEF Expire, handlerVars
<1>5. ASSUME NEW c \in Copy, Consume(c) PROVE pc'[q] \in {"respond", "done"}
  BY <1>5, ConsumersLeaveGateway DEF handlerVars
<1>6. CASE UNCHANGED vars
  BY <1>6 DEF vars, gatewayVars, handlerVars
<1> QED
  BY <1>1, <1>2, <1>3, <1>4, <1>5, <1>6, StepKinds DEF GatewayStep

LEMMA EmittedLateHolds == Spec => []EmittedLate
<1>1. SystemInit => EmittedLate
  BY DEF SystemInit, Init, EmittedLate, Emitted
<1> QED
  BY <1>1, TypeInvariant, EmittedLateStep, PTL DEF Spec

-----------------------------------------------------------------------------
(* An error is final. *)

NoCrash == "process" \notin env.faults

ErrorIsFinal ==
    \A r \in Request : answer[r] = "error" => ~Emitted(r) /\ pc[r] = "done"

LEMMA ErrorStep ==
    TypeOK /\ EmittedLate /\ NoCrash /\ ErrorIsFinal /\ [Next]_vars => ErrorIsFinal'
<1> SUFFICES ASSUME TypeOK, EmittedLate, NoCrash, ErrorIsFinal, [Next]_vars,
                    NEW q \in Request, answer'[q] = "error"
             PROVE  (~Emitted(q))' /\ pc'[q] = "done"
  BY DEF ErrorIsFinal
<1> USE DEF EmittedLate, ErrorIsFinal, Emitted, TypeOK, GatewayTypeOK
<1>1. ASSUME NEW r \in Request, HandlerStep(r) PROVE (~Emitted(q))' /\ pc'[q] = "done"
  BY <1>1 DEF HandlerStep, Handle, HandleFailed, Authenticate, CheckKey, CheckKeyFailed,
     SetKey, SetKeyFailed, StorePending, StorePendingFailed, Respond, StoreFailed,
     StoreFailedFailed, Timeout, Goto, Tell, Waiting, Running
<1>2. ASSUME NEW r \in Request, Publish(r) \/ PublishUnconfirmed(r) \/ PublishLost(r)
      PROVE  (~Emitted(q))' /\ pc'[q] = "done"
  BY <1>2 DEF Publish, PublishUnconfirmed, PublishLost, handlerVars
<1>3. CASE Crash
  BY <1>3 DEF Crash, Fault, NoCrash
<1>4. ASSUME NEW n \in Name, Expire(n) PROVE (~Emitted(q))' /\ pc'[q] = "done"
  BY <1>4 DEF Expire, handlerVars
<1>5. ASSUME NEW c \in Copy, Consume(c) PROVE (~Emitted(q))' /\ pc'[q] = "done"
  BY <1>5, ConsumersLeaveGateway DEF handlerVars
<1>6. CASE UNCHANGED vars
  BY <1>6 DEF vars, gatewayVars, handlerVars
<1> QED
  BY <1>1, <1>2, <1>3, <1>4, <1>5, <1>6, StepKinds DEF GatewayStep

\* A client that was told "error" may send its request again under another
\* key: unless the gateway died, the first one is not and will not be emitted,
\* whatever Redis, the broker and other requests do.
THEOREM ErrorsAreFinal == Spec => []ErrorMeansUnpublished
<1>1. SystemInit => (NoCrash => ErrorIsFinal)
  BY GatewayConstants DEF SystemInit, Init, ErrorIsFinal, Emitted, Answers
<1>2. [Next]_vars => (NoCrash <=> NoCrash')
  BY EnvFixed DEF NoCrash
<1>3. (NoCrash => ErrorIsFinal) => ErrorMeansUnpublished
  BY DEF NoCrash, ErrorIsFinal, ErrorMeansUnpublished
<1> QED
  BY <1>1, <1>2, <1>3, TypeInvariant, EmittedLateHolds, ErrorStep, PTL DEF Spec

-----------------------------------------------------------------------------
(* The status of a request. *)

\* At most one thing fails, and neither the gateway nor the broker.
OneRedisFault == env.faults \cap {"process", "broker"} = {} /\ env.max <= 1

OwnId(r) == \A q \in Request \ {r} : sub[q].id # sub[r].id

\* A status "pending" is of a request that is emitted, or whose handler is in
\* its catch block and has met the one fault already.
PendingExplained ==
    \A r \in Request :
        OwnId(r) /\ status[sub[r].id] = "pending"
        => Emitted(r) \/ (pc[r] = "failed" /\ faults > 0)

LEMMA PendingStep ==
    TypeOK /\ OneRedisFault /\ PendingExplained /\ [Next]_vars => PendingExplained'
<1> SUFFICES ASSUME TypeOK, OneRedisFault, PendingExplained, [Next]_vars,
                    NEW q \in Request, OwnId(q)', status'[sub'[q].id] = "pending"
             PROVE  Emitted(q)' \/ (pc'[q] = "failed" /\ faults' > 0)
  BY DEF PendingExplained
<1> DEFINE Goal == Emitted(q)' \/ (pc'[q] = "failed" /\ faults' > 0)
<1> SUFFICES Goal
  OBVIOUS
<1>e. UNCHANGED <<env, sub>> /\ OwnId(q) /\ sub \in [Request -> Submission]
  BY EnvFixed, SubmissionType DEF OwnId
<1>m. env.max \in Nat
  BY GatewayConstants DEF TypeOK, GatewayTypeOK
<1> USE DEF PendingExplained, Emitted, TypeOK, GatewayTypeOK
<1>1. ASSUME NEW r \in Request, HandlerStep(r) PROVE Goal
  <2>1. CASE \/ StorePending(r) \/ StorePendingFailed(r)
    BY <1>1, <1>e, <1>m, <2>1 DEF StorePending, StorePendingFailed, StoreStatus, Goto,
       Fault, OwnId, Submission, OneRedisFault
  <2>2. CASE StoreFailed(r) \/ StoreFailedFailed(r)
    BY <1>1, <1>e, <1>m, <2>2 DEF StoreFailed, StoreFailedFailed, StoreStatus, Goto,
       Fault, OwnId, Submission, OneRedisFault
  <2>3. CASE \/ Authenticate(r) \/ CheckKey(r) \/ CheckKeyFailed(r) \/ SetKey(r)
             \/ SetKeyFailed(r) \/ Respond(r) \/ Timeout(r)
    BY <1>1, <1>e, <1>m, <2>3 DEF Authenticate, CheckKey, CheckKeyFailed, SetKey, SetKeyFailed,
       Respond, Timeout, Goto, Fault, redisVars
  <2> QED
    BY <1>1, <2>1, <2>2, <2>3 DEF HandlerStep, Handle, HandleFailed
<1>2. ASSUME NEW r \in Request, Publish(r) PROVE Goal
  BY <1>2, <1>e DEF Publish, handlerVars, redisVars
<1>3. ASSUME NEW r \in Request, PublishUnconfirmed(r) \/ PublishLost(r) PROVE Goal
  BY <1>3, <1>e DEF PublishUnconfirmed, PublishLost, Fault, OneRedisFault
<1>4. CASE Crash
  BY <1>4 DEF Crash, Fault, OneRedisFault
<1>5. ASSUME NEW n \in Name, Expire(n) PROVE Goal
  BY <1>5, <1>e, <1>m DEF Expire, handlerVars, Fault, Submission
<1>6. ASSUME NEW c \in Copy, Consume(c) PROVE Goal
  BY <1>6, <1>e, ConsumersLeaveGateway DEF handlerVars
<1>7. CASE UNCHANGED vars
  BY <1>7, <1>e DEF vars, gatewayVars, handlerVars, redisVars
<1> QED
  BY <1>1, <1>2, <1>3, <1>4, <1>5, <1>6, <1>7, StepKinds DEF GatewayStep

\* While at most Redis fails, and once at most, a request whose handler is done
\* is reported as pending only if its message is on the way.
THEOREM StatusIsTruthful == Spec => []StatusTruthful
<1>1. SystemInit => PendingExplained
  <2> SUFFICES ASSUME SystemInit PROVE PendingExplained
    OBVIOUS
  <2>1. sub \in [Request -> Submission]
    BY TypeInit, SubmissionType
  <2> QED
    BY <2>1 DEF SystemInit, Init, PendingExplained, Submission
<1>2. [Next]_vars => (OneRedisFault <=> OneRedisFault')
  BY EnvFixed DEF OneRedisFault
<1>3. (OneRedisFault => PendingExplained) => StatusTruthful
  BY DEF OneRedisFault, PendingExplained, StatusTruthful, OwnId
<1> QED
  BY <1>1, <1>2, <1>3, TypeInvariant, PendingStep, PTL DEF Spec

-----------------------------------------------------------------------------
(* One emission per key. *)

\* One handler runs at a time, and its client waits for it.
Serial ==
    /\ \A r \in Request : pc[r] \in Running \cup {"new"} => answer[r] = None
    /\ \A r, q \in Request : pc[r] \in Running /\ pc[q] \in Running => r = q

\* The key of an emitted request, or of one about to be, is in Redis.
KeyTaken ==
    \A r \in Request : pc[r] = "pending" \/ Emitted(r) => idem[sub[r].key] # "none"

\* Between the GET that found no key and the emission, no other request of
\* the key is emitted.
KeyFree ==
    \A r, q \in Request :
        pc[r] \in {"setex", "pending"} /\ Emitted(q) => sub[q].key # sub[r].key

OneEmission ==
    \A r, q \in Request : Emitted(r) /\ Emitted(q) /\ sub[r].key = sub[q].key => r = q

EmissionInv == Serial /\ KeyTaken /\ KeyFree /\ OneEmission

\* An empty place is what concurrency 1 leaves.
LEMMA NobodyWaits ==
    ASSUME TypeOK, OneAtATime, Serial, Cardinality(Waiting) < env.concurrency
    PROVE  \A r \in Request : pc[r] \notin Running
<1> SUFFICES ASSUME NEW r \in Request, pc[r] \in Running PROVE FALSE
  OBVIOUS
<1>1. Waiting = {r}
  BY DEF Serial, Waiting
<1>2. Cardinality(Waiting) = 1
  BY <1>1, FS_Singleton
<1> QED
  BY <1>2 DEF OneAtATime

LEMMA SerialStep ==
    TypeOK /\ OneAtATime /\ Serial /\ [Next]_vars => Serial'
<1> SUFFICES ASSUME TypeOK, OneAtATime, Serial, [Next]_vars PROVE Serial'
  OBVIOUS
<1> USE DEF Serial, TypeOK, GatewayTypeOK
<1>1. ASSUME NEW r \in Request, Authenticate(r) PROVE Serial'
  <2>1. \A q \in Request : pc[q] \notin Running
    BY <1>1, NobodyWaits DEF Authenticate
  <2> QED
    BY <1>1, <2>1 DEF Authenticate, Goto, Tell, Running
<1>2. ASSUME NEW r \in Request, Handle(r) \/ HandleFailed(r) PROVE Serial'
  BY <1>2 DEF Handle, HandleFailed, CheckKey, CheckKeyFailed,
     SetKey, SetKeyFailed, StorePending, StorePendingFailed, Respond, StoreFailed,
     StoreFailedFailed, Timeout, Goto, Tell, Running, Fault, OneAtATime
<1>3. ASSUME NEW r \in Request, Publish(r) \/ PublishUnconfirmed(r) \/ PublishLost(r)
      PROVE  Serial'
  BY <1>3 DEF Publish, PublishUnconfirmed, PublishLost, handlerVars
<1>4. CASE Crash
  BY <1>4 DEF Crash, Running, Waiting
<1>5. ASSUME NEW n \in Name, Expire(n) PROVE Serial'
  BY <1>5 DEF Expire, handlerVars
<1>6. ASSUME NEW c \in Copy, Consume(c) PROVE Serial'
  BY <1>6, ConsumersLeaveGateway DEF handlerVars
<1>7. CASE UNCHANGED vars
  BY <1>7 DEF vars, gatewayVars, handlerVars
<1> QED
  BY <1>1, <1>2, <1>3, <1>4, <1>5, <1>6, <1>7, StepKinds DEF GatewayStep, HandlerStep

LEMMA EmissionStep ==
    TypeOK /\ EmittedLate /\ OneAtATime /\ EmissionInv /\ [Next]_vars => EmissionInv'
<1> SUFFICES ASSUME TypeOK, EmittedLate, OneAtATime, EmissionInv, [Next]_vars
             PROVE  EmissionInv'
  OBVIOUS
<1> DEFINE Keys == KeyTaken' /\ KeyFree' /\ OneEmission'
<1> SUFFICES Keys
  BY SerialStep DEF EmissionInv
<1>e. UNCHANGED <<env, sub>> /\ sub \in [Request -> Submission]
  BY EnvFixed, SubmissionType
<1> USE DEF KeyTaken, KeyFree, OneEmission, Emitted
<1>1. ASSUME NEW r \in Request, CheckKey(r) PROVE Keys
  BY <1>1, <1>e DEF CheckKey, Goto, EmissionInv, redisVars, TypeOK, GatewayTypeOK
<1>2. ASSUME NEW r \in Request, SetKey(r) \/ SetKeyFailed(r) PROVE Keys
  BY <1>2, <1>e DEF SetKey, SetKeyFailed, Goto, EmissionInv, TypeOK, GatewayTypeOK,
     Submission
<1>3. ASSUME NEW r \in Request, StorePending(r) PROVE Keys
  <2>1. \A q \in Request \ {r} : pc[q] \notin Running
    BY <1>3 DEF StorePending, EmissionInv, Serial, Running
  <2>2. \A q \in Request : pc'[q] \notin {"setex", "pending"}
    BY <1>3, <2>1 DEF StorePending, Goto, Running, TypeOK, GatewayTypeOK
  <2> QED
    BY <1>3, <1>e, <2>2 DEF StorePending, EmissionInv
<1>4. ASSUME NEW r \in Request,
             \/ Authenticate(r) \/ Respond(r) \/ StoreFailed(r) \/ CheckKeyFailed(r)
             \/ StorePendingFailed(r) \/ StoreFailedFailed(r) \/ Timeout(r)
      PROVE  Keys
  BY <1>4, <1>e DEF Authenticate, Respond, StoreFailed, CheckKeyFailed, StorePendingFailed,
     StoreFailedFailed, Timeout, Goto, EmissionInv, redisVars, TypeOK, GatewayTypeOK
<1>5. ASSUME NEW r \in Request, Publish(r) \/ PublishUnconfirmed(r) \/ PublishLost(r)
      PROVE  Keys
  BY <1>5, <1>e DEF Publish, PublishUnconfirmed, PublishLost, handlerVars, redisVars,
     EmissionInv, TypeOK, GatewayTypeOK
<1>6. CASE Crash
  BY <1>6, <1>e DEF Crash, Running, redisVars, EmissionInv, TypeOK, GatewayTypeOK
<1>7. ASSUME NEW n \in Name, Expire(n) PROVE Keys
  BY <1>7 DEF Expire, Fault, OneAtATime
<1>8. ASSUME NEW c \in Copy, Consume(c) PROVE Keys
  BY <1>8, <1>e, ConsumersLeaveGateway DEF handlerVars, EmissionInv, Submission
<1>9. CASE UNCHANGED vars
  BY <1>9 DEF vars, gatewayVars, handlerVars, redisVars, EmissionInv
<1> QED
  BY <1>1, <1>2, <1>3, <1>4, <1>5, <1>6, <1>7, <1>8, <1>9, StepKinds
     DEF GatewayStep, HandlerStep, Handle, HandleFailed

LEMMA OneAtATimeFixed == [Next]_vars => (OneAtATime <=> OneAtATime')
BY EnvFixed DEF OneAtATime

LEMMA EmissionInvHolds == Spec => [](OneAtATime => EmissionInv)
<1>1. SystemInit => EmissionInv
  BY DEF SystemInit, Init, EmissionInv, Serial, KeyTaken, KeyFree, OneEmission, Emitted,
     Running
<1> QED
  BY <1>1, OneAtATimeFixed, TypeInvariant, EmittedLateHolds, EmissionStep, PTL DEF Spec

\* The gateway looks a key up and writes it in two commands; for clients that
\* wait for their answers, at most one request of a key is emitted, whatever
\* number of requests, crashes and Redis or broker errors there are.
THEOREM AtMostOneEmission == Spec => []OneEmissionPerKey
<1>1. (OneAtATime => EmissionInv) => OneEmissionPerKey
  BY DEF EmissionInv, OneEmission, OneEmissionPerKey
<1> QED
  BY <1>1, EmissionInvHolds, PTL

-----------------------------------------------------------------------------
(* One push notification per key. *)

IsPush(c) == Channel(c) = "push"

\* A copy that exists was published.
CopiesPublished ==
    /\ \A c \in Copy : stage[c] # "none" => published[c[1]] > 0
    /\ \A r \in Request : delivered[r] > 0 => published[r] > 0

LEMMA CopiesStep == TypeOK /\ CopiesPublished /\ [Next]_vars => CopiesPublished'
<1> SUFFICES ASSUME TypeOK, CopiesPublished, [Next]_vars PROVE CopiesPublished'
  OBVIOUS
<1>c. \A c \in Copy : c[1] \in Request
  BY DEF Copy
<1> USE DEF CopiesPublished
<1>1. ASSUME NEW r \in Request, PublishStep(r) \/ PublishUnconfirmedStep(r)
      PROVE  CopiesPublished'
  BY <1>1, <1>c DEF PublishStep, PublishUnconfirmedStep, Publish, PublishUnconfirmed, Enqueue,
     TypeOK, GatewayTypeOK
<1>2. ASSUME NEW c \in Copy, Consume(c) PROVE CopiesPublished'
  BY <1>2, <1>c DEF Consume, RejectUnreadable, DropDuplicate, Take, Mark, Deliver,
       EmailFails, PushFails, Advance, TypeOK
<1>3. CASE UNCHANGED <<published, consumerVars>>
  BY <1>3 DEF consumerVars
<1>4. ASSUME NEW r \in Request, Authenticate(r) \/ Handle(r) \/ HandleFailed(r) \/ PublishLost(r)
      PROVE  UNCHANGED published
  BY <1>4 DEF Handle, HandleFailed, Authenticate, CheckKey, CheckKeyFailed, SetKey,
     SetKeyFailed, StorePending, StorePendingFailed, Respond, StoreFailed,
     StoreFailedFailed, Timeout, PublishLost
<1>5. Crash \/ (\E n \in Name : Expire(n)) => UNCHANGED published
  BY DEF Crash, Expire
<1>6. UNCHANGED vars => UNCHANGED <<published, consumerVars>>
  BY DEF vars, gatewayVars
<1> QED
  BY <1>1, <1>2, <1>3, <1>4, <1>5, <1>6 DEF Next, Idle

LEMMA CopiesPublishedHolds == Spec => []CopiesPublished
<1>1. SystemInit => CopiesPublished
  BY DEF SystemInit, CopiesPublished
<1> QED
  BY <1>1, TypeInvariant, CopiesStep, PTL DEF Spec

\* push-service works on one copy at a time.
OneInWork ==
    \A c, d \in Copy : /\ IsPush(c) /\ stage[c] \in InWork
                       /\ IsPush(d) /\ stage[d] \in InWork
                       => c = d

HasMark(n) == idem[n] \in {"processing", "sent"}

\* The key of a push notification that was delivered, or is about to be, holds
\* a value push-service knows, and it is delivered once only.
PushMarked ==
    /\ \A c \in Copy : IsPush(c) /\ stage[c] = "send" => HasMark(sub[c[1]].key)
    /\ \A c \in Copy : IsPush(c) /\ stage[c] \in InWork => delivered[c[1]] = 0
    /\ \A r \in Request : sub[r].channel = "push" /\ delivered[r] > 0
                          => delivered[r] = 1 /\ HasMark(sub[r].key)

PushInv == OneInWork /\ PushMarked

\* What the gateway does to the names: no mark of push-service is overwritten.
LEMMA GatewayKeepsMarks ==
    ASSUME TypeOK, EmittedLate, CopiesPublished, OneAtATime, EmissionInv, GatewayStep,
           NEW r \in Request, Emitted(r), HasMark(sub[r].key)
    PROVE  HasMark(sub[r].key)'
<1>e. UNCHANGED sub /\ sub \in [Request -> Submission]
  BY SubmissionType DEF GatewayStep, HandlerStep, Handle, HandleFailed, Authenticate, CheckKey,
     CheckKeyFailed, SetKey, SetKeyFailed, StorePending, StorePendingFailed, Respond,
     StoreFailed, StoreFailedFailed, Timeout, Publish, PublishUnconfirmed, PublishLost,
     Crash, Expire
<1>1. ASSUME NEW q \in Request, SetKey(q) \/ SetKeyFailed(q) PROVE HasMark(sub[r].key)'
  <2>1. sub[q].key # sub[r].key
    BY <1>1 DEF SetKey, SetKeyFailed, EmissionInv, KeyFree
  <2> QED
    BY <1>1, <1>e, <2>1 DEF SetKey, SetKeyFailed, HasMark, TypeOK, GatewayTypeOK, Submission
<1>2. ASSUME NEW n \in Name, Expire(n) PROVE HasMark(sub[r].key)'
  BY <1>2 DEF Expire, Fault, OneAtATime
<1>3. CASE UNCHANGED idem
  BY <1>e, <1>3 DEF HasMark
<1> QED
  BY <1>1, <1>2, <1>3 DEF GatewayStep, HandlerStep, Handle, HandleFailed, Authenticate,
     CheckKey, CheckKeyFailed, StorePending, StorePendingFailed, Respond, StoreFailed,
     StoreFailedFailed, Timeout, Publish, PublishUnconfirmed, PublishLost, Crash, redisVars

LEMMA PushStep ==
    /\ TypeOK /\ EmittedLate /\ CopiesPublished /\ OneAtATime /\ NamesApart /\ EmissionInv
    /\ PushInv /\ [Next]_vars
    => PushInv'
<1> SUFFICES ASSUME TypeOK, EmittedLate, CopiesPublished, OneAtATime, NamesApart,
                    EmissionInv, PushInv, [Next]_vars
             PROVE  PushInv'
  OBVIOUS
<1>e. UNCHANGED sub /\ sub \in [Request -> Submission]
  BY EnvFixed, SubmissionType
<1>c. \A c \in Copy : c[1] \in Request
  BY DEF Copy
<1>1. ASSUME GatewayStep, UNCHANGED delivered,
             \A c \in Copy : stage'[c] = stage[c] \/ stage'[c] = "queued"
      PROVE  PushInv'
  <2>1. OneInWork'
    BY <1>1, <1>e DEF PushInv, OneInWork, IsPush, Channel, InWork
  <2>2. ASSUME NEW c \in Copy, IsPush(c)', stage'[c] = "send"
        PROVE  HasMark(sub[c[1]].key)'
    <3>1. IsPush(c) /\ stage[c] = "send" /\ Emitted(c[1])
      BY <1>1, <1>e, <1>c, <2>2 DEF IsPush, Channel, CopiesPublished, Emitted
    <3> QED
      BY <1>1, <1>c, <3>1, GatewayKeepsMarks DEF PushInv, PushMarked
  <2>3. ASSUME NEW r \in Request, (sub[r].channel = "push")', delivered'[r] > 0
        PROVE  delivered'[r] = 1 /\ HasMark(sub[r].key)'
    <3>1. sub[r].channel = "push" /\ delivered[r] > 0 /\ Emitted(r)
      BY <1>1, <1>e, <2>3 DEF CopiesPublished, Emitted
    <3> QED
      BY <1>1, <3>1, GatewayKeepsMarks DEF PushInv, PushMarked
  <2>4. ASSUME NEW c \in Copy, IsPush(c)', stage'[c] \in InWork
        PROVE  delivered'[c[1]] = 0
    BY <1>1, <1>e, <2>4 DEF PushInv, PushMarked, IsPush, Channel, InWork
  <2> QED
    BY <2>1, <2>2, <2>3, <2>4 DEF PushInv, PushMarked
<1>2. ASSUME NEW c \in Copy, Consume(c) PROVE PushInv'
  <2>1. /\ ConsumerName(c) \in Name
        /\ \A x \in Request : sub[x].key \in Name
        /\ ~IsPush(c) => \A x \in Request : sub[x].key # ConsumerName(c)
        /\ IsPush(c) => ConsumerName(c) = sub[c[1]].key /\ Channel(c) # "email"
    BY <1>e, <1>c DEF ConsumerName, Submission, IsPush, Channel, Channels, NamesApart
  <2> USE <1>e, <1>c, <2>1
  <2>2. CASE DropDuplicate(c) \/ RejectUnreadable(c)
    BY <2>2 DEF DropDuplicate, RejectUnreadable, Advance, PushInv, OneInWork, PushMarked, IsPush, Channel,
       InWork, HasMark, TypeOK
  <2>3. CASE Take(c)
    <3>1. OneInWork'
      BY <2>3 DEF Take, MayStart, Advance, PushInv, OneInWork, IsPush, Channel, InWork, TypeOK
    <3>2. IsPush(c) => delivered[c[1]] = 0
      BY <2>3 DEF Take, SeenBefore, PushInv, PushMarked, HasMark, IsPush, Channel, TypeOK
    <3> QED
      BY <2>3, <3>1, <3>2 DEF Take, Advance, PushInv, PushMarked, HasMark, IsPush, Channel,
         InWork, TypeOK
  <2>4. CASE Mark(c)
    <3>1. OneInWork'
      BY <2>4 DEF Mark, Advance, PushInv, OneInWork, IsPush, Channel, InWork, TypeOK
    <3>2. \A x \in Request : HasMark(sub[x].key) \/ (IsPush(c) /\ x = c[1])
                              => HasMark(sub[x].key)'
      BY <2>4 DEF Mark, HasMark, TypeOK, GatewayTypeOK, IsPush
    <3>3. \A d \in Copy : stage'[d] = "send" /\ IsPush(d) => HasMark(sub[d[1]].key)'
      BY <2>4, <3>2 DEF Mark, Advance, PushInv, PushMarked, TypeOK
    <3> QED
      BY <2>4, <3>1, <3>2, <3>3 DEF Mark, Advance, PushInv, PushMarked, IsPush, Channel, InWork,
         TypeOK
  <2>5. CASE Deliver(c)
    <3>1. OneInWork'
      BY <2>5 DEF Deliver, Advance, PushInv, OneInWork, IsPush, Channel, InWork, TypeOK
    <3>2. \A x \in Request : HasMark(sub[x].key) => HasMark(sub[x].key)'
      BY <2>5 DEF Deliver, HasMark, TypeOK, GatewayTypeOK, IsPush
    <3>3. \A d \in Copy : IsPush(d) /\ stage'[d] \in InWork
                          => /\ stage[d] = stage'[d] /\ d # c
                             /\ IsPush(c) => FALSE
      BY <2>5 DEF Deliver, Advance, PushInv, OneInWork, InWork, TypeOK
    <3>4. \A d \in Copy : IsPush(d) /\ stage'[d] \in InWork => delivered'[d[1]] = 0
      BY <2>5, <3>3 DEF Deliver, PushInv, PushMarked, IsPush, Channel, TypeOK
    <3>5. \A d \in Copy : IsPush(d) /\ stage'[d] = "send" => HasMark(sub[d[1]].key)'
      BY <3>2, <3>3 DEF InWork, PushInv, PushMarked
    <3>6. IsPush(c) => delivered[c[1]] = 0 /\ HasMark(sub[c[1]].key)
      BY <2>5 DEF Deliver, Advance, PushInv, PushMarked, InWork
    <3>7. \A r \in Request : sub[r].channel = "push" /\ delivered'[r] > 0
                             => delivered'[r] = 1 /\ HasMark(sub[r].key)'
      BY <2>5, <3>2, <3>6 DEF Deliver, PushInv, PushMarked, IsPush, Channel, TypeOK
    <3> QED
      BY <3>1, <3>4, <3>5, <3>7 DEF PushInv, PushMarked, IsPush, Channel
  <2>6. CASE EmailFails(c)
    <3>1. ~IsPush(c)
      BY <2>6 DEF EmailFails, IsPush
    <3>2. \A d \in Copy : IsPush(d) => stage'[d] = stage[d]
      BY <2>6, <3>1 DEF EmailFails, Advance, TypeOK
    <3> QED
      BY <2>6, <3>2 DEF EmailFails, Advance, PushInv, OneInWork, PushMarked, IsPush, Channel,
         InWork, HasMark
  <2>7. CASE PushFails(c)
    <3>1. /\ IsPush(c) /\ stage[c] = "send" /\ stage'[c] = "settled"
          /\ \A d \in Copy : d # c => stage'[d] = stage[d]
      BY <2>7 DEF PushFails, Advance, IsPush, TypeOK
    <3>2. \A d \in Copy : IsPush(d) => stage'[d] \notin InWork
      BY <3>1 DEF PushInv, OneInWork, InWork
    <3>3. delivered[c[1]] = 0 /\ Emitted(c[1])
      BY <3>1 DEF PushInv, PushMarked, InWork, CopiesPublished, Emitted
    <3>4. ASSUME NEW r \in Request, sub[r].channel = "push", delivered[r] > 0
          PROVE  delivered[r] = 1 /\ HasMark(sub[r].key)'
      <4>1. Emitted(r) /\ r # c[1]
        BY <3>3, <3>4 DEF CopiesPublished, Emitted
      <4>2. sub[r].key # sub[c[1]].key
        BY <3>3, <4>1 DEF EmissionInv, OneEmission
      <4>3. delivered[r] = 1 /\ HasMark(sub[r].key)
        BY <3>4 DEF PushInv, PushMarked
      <4> QED
        BY <2>7, <3>1, <4>2, <4>3 DEF PushFails, HasMark, TypeOK, GatewayTypeOK
    <3> QED
      BY <2>7, <3>2, <3>4 DEF PushFails, PushInv, OneInWork, PushMarked, IsPush, Channel, InWork
  <2> QED
    BY <1>2, <2>2, <2>3, <2>4, <2>5, <2>6, <2>7 DEF Consume
<1>3. CASE UNCHANGED vars
  BY <1>3 DEF vars, gatewayVars, redisVars, consumerVars, PushInv, OneInWork, PushMarked,
     HasMark, IsPush, Channel
<1>4. ASSUME NEW r \in Request, PublishStep(r) \/ PublishUnconfirmedStep(r) PROVE PushInv'
  <2>1. GatewayStep /\ UNCHANGED delivered
        /\ \A c \in Copy : stage'[c] = stage[c] \/ stage'[c] = "queued"
    BY <1>4 DEF PublishStep, PublishUnconfirmedStep, Enqueue, GatewayStep, TypeOK
  <2> QED
    BY <1>1, <2>1
<1>5. GatewayStep /\ UNCHANGED consumerVars => PushInv'
  BY <1>1 DEF consumerVars
<1> QED
  BY <1>2, <1>3, <1>4, <1>5 DEF Next, Idle, GatewayStep, HandlerStep

LEMMA PushInvHolds == Spec => [](OneAtATime /\ NamesApart => PushInv)
<1>1. SystemInit => PushInv
  <2> SUFFICES ASSUME SystemInit PROVE PushInv
    OBVIOUS
  <2> QED
    BY DEF SystemInit, PushInv, OneInWork, PushMarked, InWork
<1>2. [Next]_vars => (NamesApart <=> NamesApart')
  BY EnvFixed DEF NamesApart
<1> QED
  BY <1>1, <1>2, OneAtATimeFixed, TypeInvariant, EmittedLateHolds, CopiesPublishedHolds,
     EmissionInvHolds, PushStep, PTL DEF Spec

\* The gateway overwrites the key push-service keeps its mark in, the broker
\* publishes messages twice, and copies wait in the queue beside each other:
\* for clients that wait for their answers a key still brings at most one
\* push notification.
THEOREM OneNotificationPerKey == Spec => []OnePushPerKey
<1>1. (OneAtATime => EmissionInv) /\ (OneAtATime /\ NamesApart => PushInv)
      /\ CopiesPublished => OnePushPerKey
  <2> SUFFICES ASSUME EmissionInv, PushInv, CopiesPublished, NEW n \in Name
               PROVE  /\ Cardinality(Deliveries(n)) <= 1
                      /\ \A r \in Deliveries(n) : delivered[r] = 1
    BY DEF OnePushPerKey
  <2>1. \A r, q \in Deliveries(n) : r = q
    BY DEF Deliveries, CopiesPublished, EmissionInv, OneEmission, Emitted
  <2>2. Cardinality(Deliveries(n)) <= 1
    <3>1. CASE Deliveries(n) = {}
      BY <3>1, FS_EmptySet
    <3>2. ASSUME NEW r \in Deliveries(n) PROVE Cardinality(Deliveries(n)) <= 1
      <4>1. Deliveries(n) = {r}
        BY <2>1, <3>2
      <4>2. Cardinality(Deliveries(n)) = 1
        BY <4>1, FS_Singleton
      <4> QED
        BY <4>2
    <3> QED
      BY <3>1, <3>2
  <2> QED
    BY <2>2 DEF Deliveries, PushInv, PushMarked
<1> QED
  BY <1>1, EmissionInvHolds, PushInvHolds, CopiesPublishedHolds, PTL
=============================================================================
