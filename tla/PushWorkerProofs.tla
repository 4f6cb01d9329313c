--------------------------- MODULE PushWorkerProofs ---------------------------
(* Safety of PushWorker for every number of processes, messages, keys,     *)
(* delivery tags and faults.                                               *)
EXTENDS PushWorker, FiniteSetTheorems, TLAPS

USE DEF InProcess, HoldsPermit, HoldsTemplate, Running, Unsettled, PC

\* The fault of a step only ever counts one more.
LEMMA FaultType == ASSUME TypeOK, NEW kind, Fault(kind) PROVE faults' \in Nat
BY DEF TypeOK, Fault

\* The payload a task works on.
LEMMA PayloadOfTask ==
    ASSUME TypeOK, NEW d \in Delivery, pc[d] # "unused"
    PROVE  /\ inst[d] \in Instance
           /\ msg[d] \in Msg
           /\ payload[msg[d]] \in PayloadType
           /\ KeyOf(d) \in Key
BY PushConstants DEF TypeOK, KeyOf, PayloadType

\* The steps of process_message keep the types.
LEMMA StepType ==
    ASSUME TypeOK, NEW d \in Delivery, NEW from \in Running, NEW to \in Running,
           Step(d, from, to),
           attempt' \in [Delivery -> Nat],
           idem' \in [Key -> {"none", "1", "processing", "sent", "failed"}],
           accepted' \in [Msg -> Nat],
           audit' \in [Msg -> {"none", "Sent", "Failed"}],
           faults' \in Nat
    PROVE  TypeOK'
BY DEF TypeOK, Step, Goto, brokerVars, lockVars

\* retry_with_backoff tries the step again or gives up.
LEMMA RetryStep ==
    ASSUME TypeOK, NEW d \in Delivery, NEW from, NEW again, NEW givenUp,
           Retry(d, from, again, givenUp)
    PROVE  /\ Step(d, from, again) \/ Step(d, from, givenUp)
           /\ attempt' \in [Delivery -> Nat]
<1>1. CASE attempt[d] >= MaxAttempts
  BY <1>1 DEF Retry, TypeOK
<1>2. CASE ~(attempt[d] >= MaxAttempts)
  BY <1>2 DEF Retry, TypeOK
<1> QED
  BY <1>1, <1>2

\* A write of a key, certain or not, stores a status.
LEMMA KeyType ==
    ASSUME TypeOK, NEW d \in Delivery,
           NEW value \in {"processing", "sent", "failed"}, SetKeyUnsure(d, value)
    PROVE  idem' \in [Key -> {"none", "1", "processing", "sent", "failed"}]
BY DEF TypeOK, SetKeyUnsure, SetKey

\* No step of a process, of Redis, of FCM or of the broker leaves the types.
THEOREM TypeInvariant == Spec => []TypeOK
<1>1. Init => TypeOK
  BY PushConstants DEF Init, TypeOK
<1>2. TypeOK /\ [Next]_vars => TypeOK'
  <2> SUFFICES ASSUME TypeOK, [Next]_vars PROVE TypeOK'
    OBVIOUS
  <2>1. ASSUME NEW i \in Instance, NEW m \in Msg, NEW d \in Delivery, Deliver(i, m, d)
        PROVE  TypeOK'
    BY <2>1 DEF TypeOK, Deliver, Goto, lockVars
  <2>2. ASSUME NEW d \in Delivery, Progress(d) PROVE TypeOK'
    <3>1. CASE AcquirePermit(d)
      BY <3>1, PayloadOfTask DEF TypeOK, AcquirePermit, Goto, brokerVars
    <3>2. CASE Connect(d)
      BY <3>2 DEF TypeOK, Connect, Goto, brokerVars, lockVars
    <3>3. CASE LockTemplate(d)
      BY <3>3, PayloadOfTask DEF TypeOK, LockTemplate, Goto, brokerVars
    <3>4. CASE LockFcm(d)
      BY <3>4, PayloadOfTask DEF TypeOK, LockFcm, Goto, brokerVars
    <3>5. CASE CheckIdempotency(d)
      BY <3>5, StepType DEF TypeOK, CheckIdempotency
    <3>6. CASE MarkAsProcessing(d)
      <4>1. AfterMark(payload[msg[d]]) \in Running
        BY DEF AfterMark
      <4> QED
        BY <3>6, <4>1, StepType DEF TypeOK, MarkAsProcessing, SetKey
    <3>7. CASE FetchTemplate(d)
      BY <3>7, StepType DEF TypeOK, FetchTemplate
    <3>8. CASE BreakerAdmits(d)
      BY <3>8, StepType DEF TypeOK, BreakerAdmits
    <3>9. CASE BreakerRejects(d)
      BY <3>9, StepType DEF TypeOK, BreakerRejects
    <3>10. CASE FcmAccepts(d)
      <4>1. msg[d] \in Msg
        BY <3>10, PayloadOfTask DEF FcmAccepts, Step
      <4>2. accepted' \in [Msg -> Nat]
        BY <3>10, <4>1 DEF TypeOK, FcmAccepts
      <4> QED
        BY <3>10, <4>2, StepType DEF TypeOK, FcmAccepts
    <3>11. CASE FcmRefuses(d)
      <4>1. /\ Step(d, "call", "call") \/ Step(d, "call", "markfailed")
            /\ attempt' \in [Delivery -> Nat]
        BY <3>11, RetryStep DEF FcmRefuses
      <4> QED
        BY <3>11, <4>1, StepType DEF TypeOK, FcmRefuses
    <3>12. CASE SendSucceeded(d)
      BY <3>12, StepType DEF TypeOK, SendSucceeded
    <3>13. CASE MarkAsSent(d)
      BY <3>13, StepType DEF TypeOK, MarkAsSent, SetKey
    <3>14. CASE MarkAsFailed(d)
      BY <3>14, StepType DEF TypeOK, MarkAsFailed, SetKey
    <3>15. CASE LogSent(d)
      BY <3>15, StepType DEF TypeOK, LogSent, Log
    <3>16. CASE LogFailed(d)
      BY <3>16, StepType DEF TypeOK, LogFailed, Log
    <3>17. CASE Acknowledge(d)
      BY <3>17, PayloadOfTask DEF TypeOK, Acknowledge, Finish, DropGuards, Goto
    <3>18. CASE PublishToDlq(d)
      BY <3>18, PayloadOfTask DEF TypeOK, PublishToDlq, Goto, lockVars
    <3>19. CASE Reject(d)
      BY <3>19, PayloadOfTask DEF TypeOK, Reject, Finish, DropGuards, Goto
    <3>20. CASE FetchTemplateFailed(d)
      BY <3>20, StepType DEF TypeOK, FetchTemplateFailed
    <3>21. CASE RenderPanics(d)
      BY <3>21, PayloadOfTask DEF TypeOK, RenderPanics, DropGuards, Goto, brokerVars
    <3> QED
      BY <2>2, <3>1, <3>2, <3>3, <3>4, <3>5, <3>6, <3>7, <3>8, <3>9, <3>10, <3>11,
         <3>12, <3>13, <3>14, <3>15, <3>16, <3>17, <3>18, <3>19, <3>20, <3>21 DEF Progress
  <2>3. ASSUME NEW d \in Delivery, CallFails(d) PROVE TypeOK'
    <3>1. faults' \in Nat
      BY <2>3, FaultType DEF CallFails, ConnectFailed, CheckIdempotencyFailed,
         MarkAsProcessingFailed, ReplyLost, RecordSuccessFailed,
         MarkAsSentFailed, MarkAsFailedFailed
    <3>2. CASE ConnectFailed(d)
      BY <3>1, <3>2, PayloadOfTask DEF TypeOK, ConnectFailed, Finish, DropGuards, Goto
    <3>3. CASE CheckIdempotencyFailed(d)
      BY <3>1, <3>3, StepType DEF TypeOK, CheckIdempotencyFailed
    <3>4. CASE MarkAsProcessingFailed(d)
      BY <3>1, <3>4, StepType, KeyType DEF TypeOK, MarkAsProcessingFailed
    <3>5. CASE ReplyLost(d)
      <4>1. /\ Step(d, "accepted", "call") \/ Step(d, "accepted", "markfailed")
            /\ attempt' \in [Delivery -> Nat]
        BY <3>5, RetryStep DEF ReplyLost
      <4> QED
        BY <3>1, <3>5, <4>1, StepType DEF TypeOK, ReplyLost
    <3>6. CASE RecordSuccessFailed(d)
      BY <3>1, <3>6, StepType DEF TypeOK, RecordSuccessFailed
    <3>7. CASE MarkAsSentFailed(d)
      <4>1. /\ Step(d, "marksent", "marksent") \/ Step(d, "marksent", "deadletter")
            /\ attempt' \in [Delivery -> Nat]
        BY <3>7, RetryStep DEF MarkAsSentFailed
      <4> QED
        BY <3>1, <3>7, <4>1, StepType, KeyType DEF TypeOK, MarkAsSentFailed
    <3>8. CASE MarkAsFailedFailed(d)
      BY <3>1, <3>8, StepType, KeyType DEF TypeOK, MarkAsFailedFailed
    <3> QED
      BY <2>3, <3>2, <3>3, <3>4, <3>5, <3>6, <3>7, <3>8 DEF CallFails
  <2>4. ASSUME NEW k \in Key, Expire(k) PROVE TypeOK'
    BY <2>4, FaultType DEF TypeOK, Expire, brokerVars, lockVars, taskVars
  <2>5. ASSUME NEW i \in Instance, ConnectionLost(i) PROVE TypeOK'
    BY <2>5, FaultType DEF TypeOK, ConnectionLost, RequeueAll, TagsOf, lockVars, taskVars
  <2>6. ASSUME NEW i \in Instance, ConsumerClosed(i) PROVE TypeOK'
    BY <2>6 DEF TypeOK, ConsumerClosed, KillTasks, brokerVars
  <2>7. ASSUME NEW i \in Instance, Crash(i) PROVE TypeOK'
    BY <2>7, FaultType DEF TypeOK, Crash, RequeueAll, TagsOf, KillTasks
  <2>8. ASSUME NEW i \in Instance, Restart(i) PROVE TypeOK'
    BY <2>8 DEF TypeOK, Restart, brokerVars, lockVars, taskVars
  <2>9. CASE UNCHANGED vars
    BY <2>9 DEF TypeOK, vars, brokerVars, lockVars, taskVars
  <2> QED
    BY <2>1, <2>2, <2>3, <2>4, <2>5, <2>6, <2>7, <2>8, <2>9 DEF Next, Idle
<1> QED
  BY <1>1, <1>2, PTL DEF Spec

-----------------------------------------------------------------------------
(* Where a message is. *)

\* The task of d moves on, or panics; the broker sees nothing of it.
TaskGoesOn(d) ==
    /\ pc[d] \in Running
    /\ \E label \in Unsettled : pc' = [pc EXCEPT ![d] = label]
    /\ UNCHANGED <<payload, ready, unacked, acked, dropped, conn, inst, msg>>

\* Only three steps of a task settle its delivery.
LEMMA TaskSteps ==
    ASSUME TypeOK, NEW d \in Delivery, Progress(d) \/ CallFails(d)
    PROVE  TaskGoesOn(d) \/ ConnectFailed(d) \/ Acknowledge(d) \/ Reject(d)
<1>1. ASSUME NEW from \in Running, NEW to \in Running, Step(d, from, to)
      PROVE  TaskGoesOn(d)
  BY <1>1 DEF Step, Goto, TaskGoesOn, brokerVars
<1>2. ASSUME AcquirePermit(d) \/ Connect(d) \/ LockTemplate(d) \/ LockFcm(d)
             \/ PublishToDlq(d)
      PROVE  TaskGoesOn(d)
  BY <1>2 DEF AcquirePermit, Connect, LockTemplate, LockFcm, PublishToDlq, Goto,
              TaskGoesOn, brokerVars
<1>3. ASSUME CheckIdempotency(d) \/ CheckIdempotencyFailed(d) \/ BreakerAdmits(d)
             \/ BreakerRejects(d) \/ FcmAccepts(d) \/ SendSucceeded(d)
             \/ RecordSuccessFailed(d)
      PROVE  TaskGoesOn(d)
  BY <1>1, <1>3 DEF CheckIdempotency, CheckIdempotencyFailed, BreakerAdmits,
              BreakerRejects, FcmAccepts, SendSucceeded, RecordSuccessFailed
<1>4. ASSUME MarkAsSent(d) \/ MarkAsFailed(d) \/ MarkAsFailedFailed(d)
             \/ LogSent(d) \/ LogFailed(d) \/ MarkAsProcessingFailed(d)
      PROVE  TaskGoesOn(d)
  BY <1>1, <1>4 DEF MarkAsSent, MarkAsFailed, MarkAsFailedFailed, LogSent,
              LogFailed, MarkAsProcessingFailed
<1>5. ASSUME MarkAsProcessing(d) PROVE TaskGoesOn(d)
  BY <1>1, <1>5 DEF MarkAsProcessing, AfterMark
<1>6. ASSUME FetchTemplate(d) \/ FetchTemplateFailed(d) PROVE TaskGoesOn(d)
  BY <1>1, <1>6 DEF FetchTemplate, FetchTemplateFailed
<1>8. ASSUME RenderPanics(d) PROVE TaskGoesOn(d)
  BY <1>8 DEF RenderPanics, Goto, TaskGoesOn, brokerVars
<1>7. ASSUME FcmRefuses(d) \/ ReplyLost(d) \/ MarkAsSentFailed(d) PROVE TaskGoesOn(d)
  <2>1. Step(d, "call", "call") \/ Step(d, "call", "markfailed")
        \/ Step(d, "accepted", "call") \/ Step(d, "accepted", "markfailed")
        \/ Step(d, "marksent", "marksent") \/ Step(d, "marksent", "deadletter")
    BY <1>7, RetryStep DEF FcmRefuses, ReplyLost, MarkAsSentFailed
  <2> QED
    BY <1>1, <2>1
<1> QED
  BY <1>2, <1>3, <1>4, <1>5, <1>6, <1>7, <1>8 DEF Progress, CallFails

\* A process that is down has no tasks: they went with it.
NoTasksWhileDown ==
    \A d \in Delivery : pc[d] \in Unsettled => conn[inst[d]] # "down"

PlaceInv == ExactlyOnePlace /\ TagsMatchTasks /\ NoTasksWhileDown

LEMMA PlaceInvStep == TypeOK /\ PlaceInv /\ [Next]_vars => PlaceInv'
<1> SUFFICES ASSUME TypeOK, PlaceInv, [Next]_vars PROVE PlaceInv'
  OBVIOUS
<1> USE DEF PlaceInv
<1>1. ASSUME NEW i \in Instance, NEW m \in Msg, NEW d \in Delivery, Deliver(i, m, d)
      PROVE  PlaceInv'
  <2>1. ExactlyOnePlace'
    <3>1. d \notin unacked
      BY <1>1 DEF Deliver, HasRoom, TagsMatchTasks
    <3>2. \A e \in unacked : msg'[e] = msg[e]
      BY <1>1, <3>1 DEF TypeOK, Deliver
    <3>3. /\ msg'[d] = m /\ m \in ready /\ unacked' = unacked \cup {d}
          /\ ready' = ready \ {m} /\ UNCHANGED <<acked, dropped>>
      BY <1>1 DEF TypeOK, Deliver
    <3> QED
      BY <3>2, <3>3 DEF TypeOK, ExactlyOnePlace
  <2>2. TagsMatchTasks' /\ NoTasksWhileDown'
    BY <1>1 DEF TypeOK, Deliver, HasRoom, Goto, TagsMatchTasks, NoTasksWhileDown
  <2> QED
    BY <2>1, <2>2
<1>2. ASSUME NEW d \in Delivery, TaskGoesOn(d) PROVE PlaceInv'
  BY <1>2 DEF TypeOK, TaskGoesOn, ExactlyOnePlace, TagsMatchTasks, NoTasksWhileDown
<1>3. ASSUME NEW d \in Delivery, ConnectFailed(d) PROVE PlaceInv'
  <2>1. ExactlyOnePlace'
    BY <1>3, PayloadOfTask DEF TypeOK, ConnectFailed, ExactlyOnePlace
  <2>2. TagsMatchTasks' /\ NoTasksWhileDown'
    BY <1>3 DEF TypeOK, ConnectFailed, Finish, DropGuards, Goto, TagsMatchTasks, NoTasksWhileDown
  <2> QED
    BY <2>1, <2>2
<1>4. ASSUME NEW d \in Delivery, Acknowledge(d) PROVE PlaceInv'
  <2>1. ExactlyOnePlace'
    BY <1>4, PayloadOfTask DEF TypeOK, Acknowledge, ExactlyOnePlace
  <2>2. TagsMatchTasks' /\ NoTasksWhileDown'
    BY <1>4 DEF TypeOK, Acknowledge, Finish, DropGuards, Goto, TagsMatchTasks, NoTasksWhileDown
  <2> QED
    BY <2>1, <2>2
<1>5. ASSUME NEW d \in Delivery, Reject(d) PROVE PlaceInv'
  <2>1. ExactlyOnePlace'
    BY <1>5, PayloadOfTask DEF TypeOK, Reject, ExactlyOnePlace
  <2>2. TagsMatchTasks' /\ NoTasksWhileDown'
    BY <1>5 DEF TypeOK, Reject, Finish, DropGuards, Goto, TagsMatchTasks, NoTasksWhileDown
  <2> QED
    BY <2>1, <2>2
<1>6. ASSUME NEW k \in Key, Expire(k) PROVE PlaceInv'
  BY <1>6 DEF Expire, brokerVars, taskVars, ExactlyOnePlace, TagsMatchTasks,
              NoTasksWhileDown
<1>7. ASSUME NEW i \in Instance, ConnectionLost(i) PROVE PlaceInv'
  <2>1. ExactlyOnePlace'
    BY <1>7 DEF TypeOK, ConnectionLost, RequeueAll, TagsOf, taskVars, ExactlyOnePlace
  <2>2. TagsMatchTasks' /\ NoTasksWhileDown'
    BY <1>7 DEF TypeOK, ConnectionLost, RequeueAll, TagsOf, taskVars,
                TagsMatchTasks, NoTasksWhileDown
  <2> QED
    BY <2>1, <2>2
<1>8. ASSUME NEW i \in Instance, ConsumerClosed(i) PROVE PlaceInv'
  BY <1>8 DEF TypeOK, ConsumerClosed, KillTasks, brokerVars,
              ExactlyOnePlace, TagsMatchTasks, NoTasksWhileDown
<1>9. ASSUME NEW i \in Instance, Crash(i) PROVE PlaceInv'
  <2>1. ExactlyOnePlace'
    BY <1>9 DEF TypeOK, Crash, RequeueAll, TagsOf, ExactlyOnePlace
  <2>2. TagsMatchTasks' /\ NoTasksWhileDown'
    BY <1>9 DEF TypeOK, Crash, RequeueAll, KillTasks, TagsOf,
                TagsMatchTasks, NoTasksWhileDown
  <2> QED
    BY <2>1, <2>2
<1>10. ASSUME NEW i \in Instance, Restart(i) PROVE PlaceInv'
  BY <1>10 DEF TypeOK, Restart, brokerVars, taskVars,
               ExactlyOnePlace, TagsMatchTasks, NoTasksWhileDown
<1>11. CASE UNCHANGED vars
  BY <1>11 DEF vars, brokerVars, taskVars, ExactlyOnePlace, TagsMatchTasks,
               NoTasksWhileDown
<1> QED
  BY TaskSteps, <1>1, <1>2, <1>3, <1>4, <1>5, <1>6, <1>7, <1>8, <1>9, <1>10, <1>11
     DEF Next, Idle

\* Every message is in exactly one place, in every run of any number of
\* processes, whatever crashes and disconnects.
THEOREM Placement == Spec => [](ExactlyOnePlace /\ TagsMatchTasks)
<1>1. Init => PlaceInv
  BY DEF Init, PlaceInv, ExactlyOnePlace, TagsMatchTasks, NoTasksWhileDown
<1> QED
  BY <1>1, PlaceInvStep, TypeInvariant, PTL DEF Spec, PlaceInv

-----------------------------------------------------------------------------
(* What "sent" means. *)

\* Program counters a task reaches only after FCM accepted its message.
Claims == {"accepted", "marksent", "auditsent"}

SendEvidence ==
    \A d \in Delivery : pc[d] \in Claims => accepted[msg[d]] > 0

EvidenceInv == SendEvidence /\ SentMeansAccepted /\ AuditedSentMeansAccepted

\* A step that says of no message more than was said before.
NoNewClaim ==
    /\ UNCHANGED <<payload, accepted>>
    /\ \A d \in Delivery : pc'[d] \in Claims => pc[d] \in Claims /\ msg'[d] = msg[d]
    /\ \A k \in Key : idem'[k] = "sent" => idem[k] = "sent"
    /\ \A m \in Msg : audit'[m] = "Sent" => audit[m] = "Sent"

LEMMA NoNewClaimKeeps ==
    ASSUME EvidenceInv, NoNewClaim PROVE EvidenceInv'
BY DEF EvidenceInv, NoNewClaim, SendEvidence, SentMeansAccepted,
       AuditedSentMeansAccepted, Delivered

LEMMA MostStepsClaimNothing ==
    ASSUME TypeOK, NEW d \in Delivery, Progress(d) \/ CallFails(d)
    PROVE  NoNewClaim \/ FcmAccepts(d) \/ MarkAsSent(d) \/ MarkAsSentFailed(d)
           \/ LogSent(d)
<1> USE DEF Claims
<1>1. ASSUME AcquirePermit(d) \/ Connect(d) \/ LockTemplate(d) \/ LockFcm(d)
             \/ PublishToDlq(d)
      PROVE  NoNewClaim
  BY <1>1 DEF TypeOK, AcquirePermit, Connect, LockTemplate, LockFcm, PublishToDlq,
              Goto, NoNewClaim
<1>2. ASSUME ConnectFailed(d) \/ Acknowledge(d) \/ Reject(d) \/ RenderPanics(d)
      PROVE  NoNewClaim
  BY <1>2 DEF TypeOK, ConnectFailed, Acknowledge, Reject, RenderPanics, Finish, DropGuards, Goto, NoNewClaim
<1>3. ASSUME NEW from, NEW to, Step(d, from, to), to \in Claims => from \in Claims,
             UNCHANGED <<idem, accepted, audit>>
      PROVE  NoNewClaim
  BY <1>3 DEF TypeOK, Step, Goto, NoNewClaim
<1>4. ASSUME CheckIdempotency(d) \/ CheckIdempotencyFailed(d) \/ BreakerAdmits(d)
             \/ BreakerRejects(d) \/ SendSucceeded(d) \/ RecordSuccessFailed(d)
      PROVE  NoNewClaim
  BY <1>3, <1>4 DEF CheckIdempotency, CheckIdempotencyFailed, BreakerAdmits,
              BreakerRejects, SendSucceeded, RecordSuccessFailed
<1>5. ASSUME FetchTemplate(d) \/ FetchTemplateFailed(d) PROVE NoNewClaim
  BY <1>3, <1>5 DEF FetchTemplate, FetchTemplateFailed
<1>6. ASSUME FcmRefuses(d) PROVE NoNewClaim
  <2>1. Step(d, "call", "call") \/ Step(d, "call", "markfailed")
    BY <1>6, RetryStep DEF FcmRefuses
  <2> QED
    BY <1>3, <1>6, <2>1 DEF FcmRefuses
<1>7. ASSUME ReplyLost(d) PROVE NoNewClaim
  <2>1. Step(d, "accepted", "call") \/ Step(d, "accepted", "markfailed")
    BY <1>7, RetryStep DEF ReplyLost
  <2> QED
    BY <1>3, <1>7, <2>1 DEF ReplyLost
<1>8. ASSUME MarkAsProcessing(d) \/ MarkAsProcessingFailed(d) PROVE NoNewClaim
  BY <1>8 DEF TypeOK, MarkAsProcessing, MarkAsProcessingFailed, AfterMark,
              SetKeyUnsure, SetKey, Step, Goto, NoNewClaim
<1>9. ASSUME MarkAsFailed(d) \/ MarkAsFailedFailed(d) PROVE NoNewClaim
  BY <1>9 DEF TypeOK, MarkAsFailed, MarkAsFailedFailed, SetKeyUnsure, SetKey,
              Step, Goto, NoNewClaim
<1>10. ASSUME LogFailed(d) PROVE NoNewClaim
  BY <1>10 DEF TypeOK, LogFailed, Log, Step, Goto, NoNewClaim
<1> QED
  BY <1>1, <1>2, <1>4, <1>5, <1>6, <1>7, <1>8, <1>9, <1>10 DEF Progress, CallFails

LEMMA EvidenceInvStep == TypeOK /\ EvidenceInv /\ [Next]_vars => EvidenceInv'
<1> SUFFICES ASSUME TypeOK, EvidenceInv, [Next]_vars PROVE EvidenceInv'
  OBVIOUS
<1>1. ASSUME NEW d \in Delivery, FcmAccepts(d) PROVE EvidenceInv'
  <2>1. msg[d] \in Msg
    BY <1>1, PayloadOfTask DEF FcmAccepts, Step
  <2>2. /\ \A m \in Msg : accepted'[m] >= accepted[m]
        /\ accepted'[msg[d]] > 0
        /\ \A m \in Msg : accepted[m] \in Nat /\ accepted'[m] \in Nat
    BY <1>1, <2>1 DEF TypeOK, FcmAccepts
  <2>3. SendEvidence'
    BY <1>1, <2>1, <2>2 DEF TypeOK, EvidenceInv, SendEvidence, FcmAccepts, Step, Goto,
                            Claims
  <2>4. SentMeansAccepted' /\ AuditedSentMeansAccepted'
    BY <1>1, <2>2 DEF EvidenceInv, SentMeansAccepted, AuditedSentMeansAccepted,
                      Delivered, FcmAccepts, Step
  <2> QED
    BY <2>3, <2>4 DEF EvidenceInv
<1>2. ASSUME NEW d \in Delivery, MarkAsSent(d) \/ MarkAsSentFailed(d)
      PROVE  EvidenceInv'
  <2>1. /\ pc[d] = "marksent"
        /\ \E to \in {"marksent", "auditsent", "deadletter"} : pc' = [pc EXCEPT ![d] = to]
        /\ UNCHANGED <<payload, msg, accepted, audit>>
        /\ SetKeyUnsure(d, "sent")
    BY <1>2, RetryStep DEF MarkAsSent, MarkAsSentFailed, Step, Goto, SetKeyUnsure
  <2>2. Delivered(KeyOf(d))
    BY <2>1, PayloadOfTask DEF EvidenceInv, SendEvidence, Claims, Delivered, KeyOf
  <2>3. SendEvidence'
    BY <2>1 DEF TypeOK, EvidenceInv, SendEvidence, Claims
  <2>4. SentMeansAccepted'
    BY <2>1, <2>2 DEF TypeOK, EvidenceInv, SentMeansAccepted, Delivered,
                      SetKeyUnsure, SetKey
  <2> QED
    BY <2>1, <2>3, <2>4 DEF EvidenceInv, AuditedSentMeansAccepted
<1>3. ASSUME NEW d \in Delivery, LogSent(d) PROVE EvidenceInv'
  BY <1>3, PayloadOfTask DEF TypeOK, LogSent, Log, Step, Goto, EvidenceInv,
     SendEvidence, Claims, SentMeansAccepted, AuditedSentMeansAccepted, Delivered
<1>4. ASSUME NEW i \in Instance, NEW m \in Msg, NEW d \in Delivery, Deliver(i, m, d)
      PROVE  NoNewClaim
  BY <1>4 DEF TypeOK, Deliver, Goto, NoNewClaim, Claims
<1>5. ASSUME NEW k \in Key, Expire(k) PROVE NoNewClaim
  BY <1>5 DEF TypeOK, Expire, taskVars, NoNewClaim
<1>6. ASSUME NEW i \in Instance,
             ConnectionLost(i) \/ ConsumerClosed(i) \/ Crash(i) \/ Restart(i)
      PROVE  NoNewClaim
  BY <1>6 DEF TypeOK, ConnectionLost, ConsumerClosed, Crash, Restart, KillTasks,
              taskVars, NoNewClaim, Claims
<1>7. CASE UNCHANGED vars
  BY <1>7, NoNewClaimKeeps DEF vars, taskVars, NoNewClaim
<1> QED
  BY MostStepsClaimNothing, NoNewClaimKeeps,
     <1>1, <1>2, <1>3, <1>4, <1>5, <1>6, <1>7 DEF Next, Idle

\* The mark "sent" and the audit status Sent are true whatever fails: they
\* are written only for what FCM accepted.
THEOREM SentIsTrue == Spec => []SentClaimsTrue
<1>1. Init => EvidenceInv
  BY DEF Init, EvidenceInv, SendEvidence, SentMeansAccepted,
         AuditedSentMeansAccepted, Claims
<1> QED
  BY <1>1, EvidenceInvStep, TypeInvariant, PTL DEF Spec, EvidenceInv, SentClaimsTrue

-----------------------------------------------------------------------------
(* The semaphore and the mutexes. *)

\* The template client is locked by the task that goes on from there.
TemplateHeld ==
    \A d \in Delivery : pc[d] \in HoldsTemplate => tlock[inst[d]] = d

LockInv == PermitsReturned /\ TemplateHeld

\* A step that neither takes nor gives back a permit or the template client.
SameHoldings(d) ==
    /\ UNCHANGED <<permit, tlock, inst>>
    /\ \E label \in Running :
          /\ pc' = [pc EXCEPT ![d] = label]
          /\ label \in HoldsPermit <=> pc[d] \in HoldsPermit
          /\ label \in HoldsTemplate => pc[d] \in HoldsTemplate

LEMMA MostStepsLockNothing ==
    ASSUME TypeOK, NEW d \in Delivery, Progress(d) \/ CallFails(d)
    PROVE  SameHoldings(d) \/ AcquirePermit(d) \/ LockTemplate(d)
           \/ ConnectFailed(d) \/ Acknowledge(d) \/ Reject(d) \/ RenderPanics(d)
<1>1. ASSUME NEW from \in InProcess, NEW to \in InProcess, Step(d, from, to)
      PROVE  SameHoldings(d)
  BY <1>1 DEF Step, Goto, SameHoldings, lockVars
<1>2. ASSUME Connect(d) \/ LockFcm(d) \/ PublishToDlq(d) PROVE SameHoldings(d)
  BY <1>2 DEF Connect, LockFcm, PublishToDlq, Goto, SameHoldings, lockVars
<1>3. ASSUME CheckIdempotency(d) \/ CheckIdempotencyFailed(d) \/ BreakerAdmits(d)
             \/ BreakerRejects(d) \/ FcmAccepts(d) \/ SendSucceeded(d)
             \/ RecordSuccessFailed(d)
      PROVE  SameHoldings(d)
  BY <1>1, <1>3 DEF CheckIdempotency, CheckIdempotencyFailed, BreakerAdmits,
              BreakerRejects, FcmAccepts, SendSucceeded, RecordSuccessFailed
<1>4. ASSUME MarkAsSent(d) \/ MarkAsFailed(d) \/ MarkAsFailedFailed(d)
             \/ LogSent(d) \/ LogFailed(d) \/ MarkAsProcessingFailed(d)
      PROVE  SameHoldings(d)
  BY <1>1, <1>4 DEF MarkAsSent, MarkAsFailed, MarkAsFailedFailed, LogSent,
              LogFailed, MarkAsProcessingFailed
<1>5. ASSUME MarkAsProcessing(d) PROVE SameHoldings(d)
  BY <1>1, <1>5 DEF MarkAsProcessing, AfterMark
<1>6. ASSUME FetchTemplate(d) \/ FetchTemplateFailed(d) PROVE SameHoldings(d)
  BY <1>1, <1>6 DEF FetchTemplate, FetchTemplateFailed
<1>7. ASSUME FcmRefuses(d) \/ ReplyLost(d) \/ MarkAsSentFailed(d)
      PROVE  SameHoldings(d)
  <2>1. Step(d, "call", "call") \/ Step(d, "call", "markfailed")
        \/ Step(d, "accepted", "call") \/ Step(d, "accepted", "markfailed")
        \/ Step(d, "marksent", "marksent") \/ Step(d, "marksent", "deadletter")
    BY <1>7, RetryStep DEF FcmRefuses, ReplyLost, MarkAsSentFailed
  <2> QED
    BY <1>1, <2>1
<1> QED
  BY <1>2, <1>3, <1>4, <1>5, <1>6, <1>7 DEF Progress, CallFails

LEMMA LockInvStep == TypeOK /\ LockInv /\ [Next]_vars => LockInv'
<1> SUFFICES ASSUME TypeOK, LockInv, [Next]_vars PROVE LockInv'
  OBVIOUS
<1> USE PushConstants DEF LockInv
<1>1. ASSUME NEW i \in Instance, NEW m \in Msg, NEW d \in Delivery, Deliver(i, m, d)
      PROVE  LockInv'
  BY <1>1 DEF TypeOK, Deliver, Goto, lockVars, PermitsReturned, TemplateHeld
<1>2. ASSUME NEW d \in Delivery, SameHoldings(d) PROVE LockInv'
  BY <1>2 DEF TypeOK, SameHoldings, PermitsReturned, TemplateHeld
<1>3. ASSUME NEW d \in Delivery, AcquirePermit(d) PROVE LockInv'
  BY <1>3, PayloadOfTask DEF TypeOK, AcquirePermit, Goto, PermitsReturned, TemplateHeld
<1>4. ASSUME NEW d \in Delivery, LockTemplate(d) PROVE LockInv'
  BY <1>4, PayloadOfTask DEF TypeOK, LockTemplate, Goto, PermitsReturned, TemplateHeld
<1>5. ASSUME NEW d \in Delivery, NEW label \in {"done", "panicked"}, Goto(d, label),
             DropGuards(d), pc[d] \in HoldsPermit, UNCHANGED inst
      PROVE  LockInv'
  <2>1. inst[d] \in Instance
    BY <1>5, PayloadOfTask
  <2>2. PermitsReturned'
    BY <1>5, <2>1 DEF TypeOK, DropGuards, Goto, PermitsReturned
  <2>3. TemplateHeld'
    BY <1>5, <2>1 DEF TypeOK, DropGuards, Goto, TemplateHeld
  <2> QED
    BY <2>2, <2>3
<1>6. ASSUME NEW d \in Delivery,
             ConnectFailed(d) \/ Acknowledge(d) \/ Reject(d) \/ RenderPanics(d)
      PROVE  LockInv'
  BY <1>5, <1>6 DEF ConnectFailed, Acknowledge, Reject, RenderPanics, Finish
<1>7. ASSUME NEW k \in Key, Expire(k) PROVE LockInv'
  BY <1>7 DEF Expire, lockVars, taskVars, PermitsReturned, TemplateHeld
<1>8. ASSUME NEW i \in Instance, ConnectionLost(i) \/ Restart(i) PROVE LockInv'
  BY <1>8 DEF ConnectionLost, Restart, lockVars, taskVars, PermitsReturned, TemplateHeld
<1>9. ASSUME NEW i \in Instance, KillTasks(i), UNCHANGED inst PROVE LockInv'
  <2>1. PermitsReturned'
    BY <1>9 DEF TypeOK, KillTasks, PermitsReturned
  <2>2. TemplateHeld'
    BY <1>9 DEF TypeOK, KillTasks, TemplateHeld
  <2> QED
    BY <2>1, <2>2
<1>10. CASE UNCHANGED vars
  BY <1>10 DEF vars, lockVars, taskVars, PermitsReturned, TemplateHeld
<1> QED
  BY MostStepsLockNothing, <1>1, <1>2, <1>3, <1>4, <1>6, <1>7, <1>8, <1>9, <1>10
     DEF Next, Idle, ConsumerClosed, Crash

LEMMA HeldMeansSerial == ASSUME LockInv PROVE SerialProcessing
BY DEF LockInv, TemplateHeld, SerialProcessing

LEMMA LockInvHolds == Spec => []LockInv
<1>1. Init => LockInv
  BY DEF Init, LockInv, PermitsReturned, TemplateHeld
<1> QED
  BY <1>1, LockInvStep, TypeInvariant, PTL DEF Spec

\* Permits are never lost, and a process runs process_message for one
\* message at a time, for every WorkerConcurrency.
THEOREM SerialAndNoLeak == Spec => [](PermitsReturned /\ SerialProcessing)
<1>1. LockInv => PermitsReturned /\ SerialProcessing
  BY HeldMeansSerial DEF LockInv
<1> QED
  BY <1>1, LockInvHolds, PTL

-----------------------------------------------------------------------------
(* At most one notification for a key. *)

\* A delivered key blocks later messages; a task that may still call FCM, or
\* write "failed", works on an undelivered key; while it sends, the key
\* says "processing".
KeyGuards ==
    /\ \A k \in Key : Delivered(k) => AlreadyHandled(idem[k])
    /\ \A d \in Delivery :
          pc[d] \in {"mark", "fetch", "send", "call", "markfailed"}
          => ~Delivered(KeyOf(d))
    /\ \A d \in Delivery :
          pc[d] \in {"fetch", "send", "call", "accepted", "marksent"}
          => idem[KeyOf(d)] = "processing"

OnceInv == OnePerKey /\ KeyGuards

\* A step that disturbs neither keys nor notifications, and brings no task
\* to a place KeyGuards speaks of.
Harmless ==
    /\ UNCHANGED <<payload, idem, accepted>>
    /\ \A d \in Delivery :
          pc'[d] \in {"mark", "fetch", "send", "call", "accepted", "marksent",
                     "markfailed"}
          => pc'[d] = pc[d] /\ msg'[d] = msg[d]

LEMMA HarmlessKeeps == ASSUME OnceInv, Harmless PROVE OnceInv'
BY DEF OnceInv, Harmless, OnePerKey, KeyGuards, Delivered, KeyOf, AlreadyHandled

LEMMA OnceInvTask ==
    ASSUME OneSoundProcess, TypeOK, LockInv, OnceInv,
           NEW d \in Delivery, Progress(d)
    PROVE  OnceInv'
<1> USE DEF OnceInv
<1>1. ASSUME AcquirePermit(d) \/ Connect(d) \/ LockTemplate(d) \/ LockFcm(d)
             \/ PublishToDlq(d) \/ Acknowledge(d) \/ Reject(d) \/ RenderPanics(d)
      PROVE  Harmless
  BY <1>1 DEF TypeOK, AcquirePermit, Connect, LockTemplate, LockFcm, PublishToDlq,
              Acknowledge, Reject, RenderPanics, Finish, DropGuards, Goto, Harmless
<1>2. ASSUME LogSent(d) \/ LogFailed(d) PROVE Harmless
  BY <1>2 DEF TypeOK, LogSent, LogFailed, Step, Goto, Harmless
<1>3. ASSUME pc[d] \in InProcess
      PROVE  \A e \in Delivery \ {d} : pc[e] \notin InProcess
  BY <1>3, PayloadOfTask, HeldMeansSerial DEF SerialProcessing, OneSoundProcess,
     OneProcess
\* Steps along process_message that leave the key and FCM alone.
<1>4. ASSUME NEW from \in InProcess, NEW to \in InProcess, Step(d, from, to),
             UNCHANGED <<idem, accepted>>,
             to \in {"mark", "fetch", "send", "call", "markfailed"}
             => ~Delivered(KeyOf(d)),
             to \in {"fetch", "send", "call", "accepted", "marksent"}
             => idem[KeyOf(d)] = "processing"
      PROVE  OnceInv'
  <2>1. /\ pc' = [pc EXCEPT ![d] = to]
        /\ UNCHANGED <<payload, msg, idem, accepted>>
    BY <1>4 DEF Step, Goto
  <2>2. \A e \in Delivery : e # d => pc'[e] = pc[e]
    BY <2>1 DEF TypeOK
  <2>3. pc'[d] = to
    BY <2>1 DEF TypeOK
  <2>4. OnePerKey'
    BY <2>1 DEF OnePerKey
  <2>5. KeyGuards'
    BY <1>4, <2>1, <2>2, <2>3 DEF KeyGuards, Delivered, KeyOf, AlreadyHandled
  <2> QED
    BY <2>4, <2>5
<1>5. ASSUME CheckIdempotency(d) PROVE OnceInv'
  <2>1. KeyOf(d) \in Key
    BY <1>5, PayloadOfTask DEF CheckIdempotency, Step
  <2> QED
    BY <1>4, <1>5, <2>1 DEF CheckIdempotency, KeyGuards
<1>6. ASSUME FetchTemplate(d) \/ FetchTemplateFailed(d) PROVE OnceInv'
  BY <1>4, <1>6 DEF FetchTemplate, FetchTemplateFailed, KeyGuards, Step
<1>7. ASSUME BreakerAdmits(d) \/ BreakerRejects(d) \/ SendSucceeded(d) PROVE OnceInv'
  BY <1>4, <1>7 DEF BreakerAdmits, BreakerRejects, SendSucceeded, KeyGuards, Step
<1>8. ASSUME FcmRefuses(d) PROVE OnceInv'
  <2>1. Step(d, "call", "call") \/ Step(d, "call", "markfailed")
    BY <1>8, RetryStep DEF FcmRefuses
  <2> QED
    BY <1>4, <1>8, <2>1 DEF FcmRefuses, KeyGuards, Step
\* FCM accepts: nothing was delivered for the key, now this message is.
<1>9. ASSUME FcmAccepts(d) PROVE OnceInv'
  <2>1. /\ pc[d] = "call" /\ pc' = [pc EXCEPT ![d] = "accepted"]
        /\ UNCHANGED <<payload, msg, idem>>
        /\ accepted' = [accepted EXCEPT ![msg[d]] = @ + 1]
    BY <1>9 DEF FcmAccepts, Step, Goto
  <2>2. msg[d] \in Msg /\ KeyOf(d) \in Key
    BY <2>1, PayloadOfTask
  <2>3. ~Delivered(KeyOf(d)) /\ idem[KeyOf(d)] = "processing"
    BY <2>1 DEF KeyGuards
  <2>4. \A m \in Msg : payload[m].key = KeyOf(d) => accepted[m] = 0
    BY <2>3 DEF Delivered, TypeOK
  <2>5. /\ accepted'[msg[d]] = 1
        /\ \A m \in Msg : m # msg[d] => accepted'[m] = accepted[m]
    BY <2>1, <2>2, <2>4 DEF TypeOK, KeyOf
  <2>6. OnePerKey'
    BY <2>1, <2>4, <2>5 DEF OnePerKey, KeyOf, TypeOK
  <2>7. \A k \in Key : Delivered(k)' => Delivered(k) \/ k = KeyOf(d)
    BY <2>1, <2>5 DEF Delivered, KeyOf
  <2>8. \A e \in Delivery \ {d} : pc'[e] = pc[e] /\ pc[e] \notin InProcess
    BY <1>3, <2>1 DEF TypeOK
  <2>9. KeyGuards'
    BY <2>1, <2>3, <2>7, <2>8 DEF KeyGuards, AlreadyHandled, KeyOf, TypeOK
  <2> QED
    BY <2>6, <2>9
\* The key is written: no other task is at a place KeyGuards speaks of.
<1>10. ASSUME NEW value, SetKey(d, value), UNCHANGED <<payload, msg, accepted>>,
              pc[d] \in InProcess,
              NEW to \in InProcess, pc' = [pc EXCEPT ![d] = to],
              Delivered(KeyOf(d)) => AlreadyHandled(value),
              to \in {"mark", "fetch", "send", "call", "markfailed"}
              => ~Delivered(KeyOf(d)),
              to \in {"fetch", "send", "call", "accepted", "marksent"}
              => value = "processing"
       PROVE  OnceInv'
  <2>1. KeyOf(d) \in Key
    BY <1>10, PayloadOfTask
  <2>2. /\ idem'[KeyOf(d)] = value
        /\ \A k \in Key : k # KeyOf(d) => idem'[k] = idem[k]
    BY <1>10, <2>1 DEF SetKey, TypeOK
  <2>3. /\ pc'[d] = to
        /\ \A e \in Delivery \ {d} : pc'[e] = pc[e] /\ pc[e] \notin InProcess
    BY <1>3, <1>10 DEF TypeOK
  <2>4. OnePerKey'
    BY <1>10 DEF OnePerKey
  <2>5. KeyGuards'
    BY <1>10, <2>1, <2>2, <2>3 DEF KeyGuards, Delivered, KeyOf
  <2> QED
    BY <2>4, <2>5
<1>11. ASSUME MarkAsProcessing(d) PROVE OnceInv'
  <2>1. ~Delivered(KeyOf(d))
    BY <1>11 DEF MarkAsProcessing, Step, KeyGuards
  <2>2. AfterMark(payload[msg[d]]) \in {"deadletter", "markfailed", "fetch"}
    BY DEF AfterMark
  <2> QED
    BY <1>10, <1>11, <2>1, <2>2 DEF MarkAsProcessing, Step, Goto
<1>12. ASSUME MarkAsSent(d) PROVE OnceInv'
  BY <1>10, <1>12 DEF MarkAsSent, Step, Goto, AlreadyHandled
<1>13. ASSUME MarkAsFailed(d) PROVE OnceInv'
  <2>1. ~Delivered(KeyOf(d))
    BY <1>13 DEF MarkAsFailed, Step, KeyGuards
  <2> QED
    BY <1>10, <1>13, <2>1 DEF MarkAsFailed, Step, Goto
<1> QED
  BY HarmlessKeeps, <1>1, <1>2, <1>5, <1>6, <1>7, <1>8, <1>9, <1>11, <1>12, <1>13
     DEF Progress

\* Under OneSoundProcess no call of a task fails and no key expires.
LEMMA NoOtherFaults ==
    ASSUME OneSoundProcess
    PROVE  /\ \A d \in Delivery : ~CallFails(d)
           /\ \A k \in Key : ~Expire(k)
<1>1. ~Fault("redis") /\ ~Fault("fcm") /\ ~Fault("expiry")
  BY DEF OneSoundProcess, Fault
<1> QED
  BY <1>1 DEF CallFails, ConnectFailed, CheckIdempotencyFailed, MarkAsProcessingFailed,
     ReplyLost, RecordSuccessFailed, MarkAsSentFailed, MarkAsFailedFailed, Expire

LEMMA OnceInvStep ==
    TypeOK /\ LockInv /\ OneSoundProcess /\ OnceInv /\ [Next]_vars => OnceInv'
<1> SUFFICES ASSUME TypeOK, LockInv, OneSoundProcess, OnceInv, [Next]_vars
             PROVE  OnceInv'
  OBVIOUS
<1>1. ASSUME NEW i \in Instance, NEW m \in Msg, NEW d \in Delivery, Deliver(i, m, d)
      PROVE  Harmless
  BY <1>1 DEF TypeOK, Deliver, Goto, Harmless
<1>2. ASSUME NEW i \in Instance,
             ConnectionLost(i) \/ ConsumerClosed(i) \/ Crash(i) \/ Restart(i)
      PROVE  Harmless
  BY <1>2 DEF TypeOK, ConnectionLost, ConsumerClosed, Crash, Restart, KillTasks,
              taskVars, Harmless
<1>3. CASE UNCHANGED vars
  BY <1>3 DEF vars, taskVars, Harmless, OnceInv, OnePerKey, KeyGuards,
              Delivered, KeyOf, AlreadyHandled
<1> QED
  BY OnceInvTask, NoOtherFaults, HarmlessKeeps, <1>1, <1>2, <1>3 DEF Next, Idle

\* The environment is fixed at the start.
LEMMA EnvUnchanged == [Next]_vars => env' = env
<1> SUFFICES ASSUME [Next]_vars PROVE env' = env
  OBVIOUS
<1>1. ASSUME NEW d \in Delivery, Progress(d) PROVE env' = env
  BY <1>1 DEF Progress, Step, Retry, AcquirePermit, Connect, LockTemplate, LockFcm,
     CheckIdempotency, MarkAsProcessing, FetchTemplate, FetchTemplateFailed,
     RenderPanics, BreakerAdmits, BreakerRejects,
     FcmAccepts, FcmRefuses, SendSucceeded, MarkAsSent, MarkAsFailed, LogSent,
     LogFailed, Acknowledge, PublishToDlq, Reject
<1>2. ASSUME NEW d \in Delivery, CallFails(d) PROVE env' = env
  BY <1>2 DEF CallFails, Step, Retry, ConnectFailed, CheckIdempotencyFailed,
     MarkAsProcessingFailed, ReplyLost, RecordSuccessFailed, MarkAsSentFailed,
     MarkAsFailedFailed
<1> QED
  BY <1>1, <1>2 DEF Next, vars, Idle, Deliver, Expire, ConnectionLost,
     ConsumerClosed, Crash, Restart

LEMMA EnvFixed == [Next]_vars => (OneSoundProcess <=> OneSoundProcess')
BY EnvUnchanged DEF OneSoundProcess, OneProcess

LEMMA OnceInvHolds == Spec => [](OneSoundProcess => OnceInv)
<1>1. Init => OnceInv
  BY DEF Init, OnceInv, OnePerKey, KeyGuards, Delivered
<1> QED
  BY <1>1, OnceInvStep, EnvFixed, TypeInvariant, LockInvHolds, PTL DEF Spec

\* With one process, any number of crashes, redeliveries and duplicate
\* messages lead to at most one notification for a key.
THEOREM AtMostOnce == Spec => []AtMostOncePerKey
<1>1. (OneSoundProcess => OnceInv) => AtMostOncePerKey
  BY DEF OnceInv, AtMostOncePerKey
<1> QED
  BY <1>1, OnceInvHolds, PTL

\* What a step may not do to a key that says "sent".
LEMMA KeepsSentStep ==
    TypeOK /\ EvidenceInv /\ (OneSoundProcess => OnceInv) /\ [Next]_vars
    => [OneSoundProcess => KeepsSent]_vars
<1> SUFFICES ASSUME TypeOK, EvidenceInv, OneSoundProcess, OnceInv, Next
             PROVE  KeepsSent
  OBVIOUS
<1>1. ASSUME NEW d \in Delivery, MarkAsProcessing(d) \/ MarkAsFailed(d) PROVE KeepsSent
  <2>1. ~Delivered(KeyOf(d))
    BY <1>1 DEF MarkAsProcessing, MarkAsFailed, Step, OnceInv, KeyGuards
  <2>2. idem[KeyOf(d)] # "sent"
    BY <1>1, <2>1, PayloadOfTask DEF MarkAsProcessing, MarkAsFailed, Step,
       EvidenceInv, SentMeansAccepted
  <2> QED
    BY <1>1, <2>2 DEF TypeOK, MarkAsProcessing, MarkAsFailed, SetKey, KeepsSent
<1>2. ASSUME NEW d \in Delivery, MarkAsSent(d) PROVE KeepsSent
  BY <1>2 DEF TypeOK, MarkAsSent, SetKey, KeepsSent
<1>3. CASE UNCHANGED idem
  BY <1>3 DEF KeepsSent
<1>4. ASSUME NEW d \in Delivery, Progress(d),
             ~MarkAsProcessing(d), ~MarkAsFailed(d), ~MarkAsSent(d)
      PROVE  UNCHANGED idem
  BY <1>4 DEF Progress, AcquirePermit, Connect, LockTemplate, LockFcm,
     CheckIdempotency, FetchTemplate, FetchTemplateFailed, RenderPanics,
     BreakerAdmits, BreakerRejects, FcmAccepts,
     FcmRefuses, SendSucceeded, LogSent, LogFailed, Acknowledge, PublishToDlq, Reject
<1>5. ASSUME NEW i \in Instance, NEW m \in Msg, NEW d \in Delivery, Deliver(i, m, d)
      PROVE  UNCHANGED idem
  BY <1>5 DEF Deliver
<1>6. ASSUME NEW i \in Instance,
             ConnectionLost(i) \/ ConsumerClosed(i) \/ Crash(i) \/ Restart(i)
      PROVE  UNCHANGED idem
  BY <1>6 DEF ConnectionLost, ConsumerClosed, Crash, Restart
<1>7. Idle => UNCHANGED idem
  BY DEF Idle, vars
<1> QED
  BY NoOtherFaults, <1>1, <1>2, <1>3, <1>4, <1>5, <1>6, <1>7 DEF Next

\* With one process, a key that says "sent" says so until it expires.
THEOREM SentStays == Spec => SentIsFinal
<1>1. Init => EvidenceInv
  BY DEF Init, EvidenceInv, SendEvidence, SentMeansAccepted,
         AuditedSentMeansAccepted, Claims
<1>2. Spec => []EvidenceInv
  BY <1>1, EvidenceInvStep, TypeInvariant, PTL DEF Spec
<1> QED
  BY <1>2, KeepsSentStep, TypeInvariant, OnceInvHolds, PTL DEF Spec, SentIsFinal

-----------------------------------------------------------------------------
(* Bare messages. *)

\* A task about to reject a bare message over a live channel has published it.
PublishedFirst ==
    \A d \in Delivery :
        pc[d] = "reject" /\ conn[inst[d]] = "up" /\ payload[msg[d]].format = "bare"
        => msg[d] \in dlq

BareInv == BareDroppedIsDeadLettered /\ PublishedFirst

\* A step that drops nothing, and after which no new task is about to reject.
NoNewReject ==
    /\ UNCHANGED <<payload, dropped, dlq>>
    /\ \A d \in Delivery :
          pc'[d] = "reject" /\ conn'[inst'[d]] = "up"
          => /\ pc[d] = "reject" /\ conn[inst[d]] = "up"
             /\ msg'[d] = msg[d]

LEMMA NoNewRejectKeeps == ASSUME BareInv, NoNewReject PROVE BareInv'
BY DEF BareInv, NoNewReject, BareDroppedIsDeadLettered, PublishedFirst

LEMMA FewStepsReject ==
    ASSUME TypeOK, NEW d \in Delivery, Progress(d) \/ CallFails(d)
    PROVE  NoNewReject \/ PublishToDlq(d) \/ Reject(d)
<1>1. ASSUME NEW from, NEW to \in Running \ {"reject"}, Step(d, from, to)
      PROVE  NoNewReject
  BY <1>1 DEF TypeOK, Step, Goto, NoNewReject, brokerVars
<1>2. ASSUME AcquirePermit(d) \/ Connect(d) \/ LockTemplate(d) \/ LockFcm(d)
             \/ ConnectFailed(d) \/ Acknowledge(d) \/ RenderPanics(d)
      PROVE  NoNewReject
  BY <1>2 DEF TypeOK, AcquirePermit, Connect, LockTemplate, LockFcm, ConnectFailed,
              Acknowledge, RenderPanics, Finish, DropGuards, Goto, NoNewReject, brokerVars
<1>3. ASSUME CheckIdempotency(d) \/ CheckIdempotencyFailed(d) \/ BreakerAdmits(d)
             \/ BreakerRejects(d) \/ FcmAccepts(d) \/ SendSucceeded(d)
             \/ RecordSuccessFailed(d)
      PROVE  NoNewReject
  BY <1>1, <1>3 DEF CheckIdempotency, CheckIdempotencyFailed, BreakerAdmits,
              BreakerRejects, FcmAccepts, SendSucceeded, RecordSuccessFailed
<1>4. ASSUME MarkAsSent(d) \/ MarkAsFailed(d) \/ MarkAsFailedFailed(d)
             \/ LogSent(d) \/ LogFailed(d) \/ MarkAsProcessingFailed(d)
      PROVE  NoNewReject
  BY <1>1, <1>4 DEF MarkAsSent, MarkAsFailed, MarkAsFailedFailed, LogSent,
              LogFailed, MarkAsProcessingFailed
<1>5. ASSUME MarkAsProcessing(d) PROVE NoNewReject
  BY <1>1, <1>5 DEF MarkAsProcessing, AfterMark
<1>6. ASSUME FetchTemplate(d) \/ FetchTemplateFailed(d) PROVE NoNewReject
  BY <1>1, <1>6 DEF FetchTemplate, FetchTemplateFailed
<1>7. ASSUME FcmRefuses(d) \/ ReplyLost(d) \/ MarkAsSentFailed(d) PROVE NoNewReject
  <2>1. Step(d, "call", "call") \/ Step(d, "call", "markfailed")
        \/ Step(d, "accepted", "call") \/ Step(d, "accepted", "markfailed")
        \/ Step(d, "marksent", "marksent") \/ Step(d, "marksent", "deadletter")
    BY <1>7, RetryStep DEF FcmRefuses, ReplyLost, MarkAsSentFailed
  <2> QED
    BY <1>1, <2>1
<1> QED
  BY <1>2, <1>3, <1>4, <1>5, <1>6, <1>7 DEF Progress, CallFails

LEMMA BareInvStep == TypeOK /\ PlaceInv /\ BareInv /\ [Next]_vars => BareInv'
<1> SUFFICES ASSUME TypeOK, PlaceInv, BareInv, [Next]_vars PROVE BareInv'
  OBVIOUS
<1>1. ASSUME NEW d \in Delivery, PublishToDlq(d) PROVE BareInv'
  <2>1. BareDroppedIsDeadLettered'
    BY <1>1 DEF PublishToDlq, BareInv, BareDroppedIsDeadLettered
  <2>2. PublishedFirst'
    BY <1>1 DEF TypeOK, PublishToDlq, Goto, BareInv, PublishedFirst
  <2> QED
    BY <2>1, <2>2 DEF BareInv
\* An outstanding tag is on a live channel, so PublishedFirst applies.
<1>2. ASSUME NEW d \in Delivery, Reject(d) PROVE BareInv'
  <2>1. d \in unacked => conn[inst[d]] = "up"
    BY DEF PlaceInv, TagsMatchTasks
  <2>2. BareDroppedIsDeadLettered'
    BY <1>2, <2>1 DEF Reject, BareInv, BareDroppedIsDeadLettered, PublishedFirst
  <2>3. PublishedFirst'
    BY <1>2 DEF TypeOK, Reject, Finish, DropGuards, Goto, BareInv, PublishedFirst
  <2> QED
    BY <2>2, <2>3 DEF BareInv
<1>3. ASSUME NEW i \in Instance, NEW m \in Msg, NEW d \in Delivery, Deliver(i, m, d)
      PROVE  NoNewReject
  BY <1>3 DEF TypeOK, Deliver, Goto, NoNewReject
<1>4. ASSUME NEW k \in Key, Expire(k) PROVE NoNewReject
  BY <1>4 DEF Expire, brokerVars, taskVars, NoNewReject
<1>5. ASSUME NEW i \in Instance, ConnectionLost(i) \/ ConsumerClosed(i) \/ Crash(i)
      PROVE  NoNewReject
  BY <1>5 DEF TypeOK, ConnectionLost, ConsumerClosed, Crash, KillTasks, RequeueAll,
              brokerVars, taskVars, NoNewReject
<1>6. ASSUME NEW i \in Instance, Restart(i) PROVE NoNewReject
  BY <1>6 DEF TypeOK, Restart, brokerVars, taskVars, NoNewReject, PlaceInv,
              NoTasksWhileDown
<1>7. CASE UNCHANGED vars
  BY <1>7, NoNewRejectKeeps DEF vars, brokerVars, taskVars, NoNewReject
<1> QED
  BY FewStepsReject, NoNewRejectKeeps, <1>1, <1>2, <1>3, <1>4, <1>5, <1>6, <1>7
     DEF Next, Idle

\* No bare message leaves push.queue without a copy in failed.queue, however
\* connections and processes fail.
THEOREM BareDeadLettered == Spec => []BareDroppedIsDeadLettered
<1>1. Init => PlaceInv /\ BareInv
  BY DEF Init, PlaceInv, ExactlyOnePlace, TagsMatchTasks, NoTasksWhileDown,
         BareInv, BareDroppedIsDeadLettered, PublishedFirst
<1>2. BareInv => BareDroppedIsDeadLettered
  BY DEF BareInv
<1> QED
  BY <1>1, <1>2, PlaceInvStep, BareInvStep, TypeInvariant, PTL DEF Spec

-----------------------------------------------------------------------------
(* The consumer implements QueueConsumer. *)

\* Where the mapping puts a message, read off the broker's sets.
PlacesAre ==
    /\ \A m \in ready : Places(m) = {"waiting"}
    /\ \A d \in unacked : Places(msg[d]) = {inst[d]}
    /\ \A m \in acked \cup dropped : Places(m) = {"settled"}

LEMMA PlacesFromInv == TypeOK /\ ExactlyOnePlace => PlacesAre
<1> SUFFICES ASSUME TypeOK, ExactlyOnePlace PROVE PlacesAre
  OBVIOUS
<1>1. ASSUME NEW m \in ready PROVE Places(m) = {"waiting"}
  BY <1>1 DEF Places, ExactlyOnePlace
<1>2. ASSUME NEW d \in unacked PROVE Places(msg[d]) = {inst[d]}
  BY <1>2 DEF Places, ExactlyOnePlace
<1>3. ASSUME NEW m \in acked \cup dropped PROVE Places(m) = {"settled"}
  BY <1>3 DEF Places, ExactlyOnePlace
<1> QED
  BY <1>1, <1>2, <1>3 DEF PlacesAre

\* The broker has handed out finitely many messages.
FiniteTags == IsFiniteSet(unacked)

LEMMA FiniteTagsStep == TypeOK /\ FiniteTags /\ [Next]_vars => FiniteTags'
<1> SUFFICES ASSUME TypeOK, FiniteTags, [Next]_vars PROVE FiniteTags'
  OBVIOUS
<1>1. ASSUME NEW i \in Instance, NEW m \in Msg, NEW d \in Delivery, Deliver(i, m, d)
      PROVE  FiniteTags'
  BY <1>1, FS_AddElement DEF Deliver, FiniteTags
<1>2. ASSUME unacked' \subseteq unacked PROVE FiniteTags'
  BY <1>2, FS_Subset DEF FiniteTags
<1>3. ASSUME NEW d \in Delivery, Progress(d) \/ CallFails(d)
      PROVE  unacked' \subseteq unacked
  BY <1>3, TaskSteps DEF TaskGoesOn, ConnectFailed, Acknowledge, Reject
<1>4. ASSUME NEW i \in Instance,
             ConnectionLost(i) \/ ConsumerClosed(i) \/ Crash(i) \/ Restart(i)
      PROVE  unacked' \subseteq unacked
  BY <1>4 DEF ConnectionLost, ConsumerClosed, Crash, Restart, RequeueAll, brokerVars
<1>5. ASSUME NEW k \in Key, Expire(k) PROVE unacked' \subseteq unacked
  BY <1>5 DEF Expire, brokerVars
<1>6. CASE UNCHANGED vars
  BY <1>2, <1>6 DEF vars, brokerVars
<1> QED
  BY <1>1, <1>2, <1>3, <1>4, <1>5, <1>6 DEF Next, Idle

\* A process holds, in the mapping, the messages of its outstanding tags.
LEMMA HeldByTags ==
    ASSUME TypeOK, ExactlyOnePlace, NEW i \in Instance
    PROVE  Queue!Held(i) = {msg[d] : d \in TagsOf(i)}
<1>1. PlacesAre
  BY PlacesFromInv
<1>2. \A d \in unacked : msg[d] \in Msg
  BY DEF TypeOK
<1>3. ASSUME NEW d \in TagsOf(i) PROVE msg[d] \in Queue!Held(i)
  BY <1>1, <1>2, <1>3 DEF PlacesAre, Queue!Held, TagsOf
<1>4. ASSUME NEW m \in Queue!Held(i) PROVE \E d \in TagsOf(i) : msg[d] = m
  <2>1. Places(m) = {i} /\ m \in Msg
    BY <1>4 DEF Queue!Held
  <2>2. m \notin ready /\ m \notin acked \cup dropped
    BY <1>1, <2>1, PushConstants DEF PlacesAre
  <2>3. PICK d \in unacked : msg[d] = m
    BY <2>1, <2>2 DEF ExactlyOnePlace
  <2> QED
    BY <1>1, <2>1, <2>3 DEF PlacesAre, TagsOf
<1> QED
  BY <1>3, <1>4

LEMMA PrefetchRespected ==
    ASSUME TypeOK, ExactlyOnePlace, FiniteTags, NEW i \in Instance,
           Cardinality(TagsOf(i)) < PrefetchCount
    PROVE  Cardinality(Queue!Held(i)) < PrefetchCount
<1> DEFINE f == [d \in TagsOf(i) |-> msg[d]]
<1>1. IsFiniteSet(TagsOf(i))
  BY FS_Subset DEF FiniteTags, TagsOf
<1>2. f \in Surjection(TagsOf(i), Queue!Held(i))
  BY HeldByTags DEF Surjection
<1>3. /\ IsFiniteSet(Queue!Held(i))
      /\ Cardinality(Queue!Held(i)) <= Cardinality(TagsOf(i))
  <2> HIDE DEF f
  <2> QED
    BY <1>1, <1>2, FS_Surjection
<1> QED
  BY <1>1, <1>3, FS_CardinalityType, PushConstants

\* A delivery is a Take: the process has room for the message.
LEMMA DeliverTakes ==
    ASSUME TypeOK, PlaceInv, FiniteTags, PlacesAre, PlacesAre',
           NEW i \in Instance, NEW m \in Msg, NEW d \in Delivery, Deliver(i, m, d)
    PROVE  Queue!Take(i, m)
<1>1. Places(m) = Queue!Waiting
  BY DEF Deliver, PlacesAre, Queue!Waiting
<1>2. Cardinality(Queue!Held(i)) < PrefetchCount
  BY PrefetchRespected DEF Deliver, HasRoom, PlaceInv
<1>3. Places(m)' = {i}
  BY DEF Deliver, PlacesAre, TypeOK
<1>4. ASSUME NEW n \in Msg \ {m} PROVE Places(n)' = Places(n)
  <2>1. d \notin unacked
    BY DEF Deliver, PlaceInv, HasRoom, TagsMatchTasks
  <2>2. {e \in unacked' : msg'[e] = n} = {e \in unacked : msg[e] = n}
    BY <2>1 DEF Deliver, TypeOK
  <2>3. \A e \in {x \in unacked : msg[x] = n} : inst'[e] = inst[e]
    BY <2>1 DEF Deliver, TypeOK
  <2>4. {n} \cap ready' = {n} \cap ready
    BY DEF Deliver
  <2> QED
    BY <2>2, <2>3, <2>4 DEF Deliver, Places
<1>5. Queue!Move(m, {i})
  BY <1>3, <1>4 DEF Queue!Move
<1> QED
  BY <1>1, <1>2, <1>5 DEF Queue!Take, Queue!Cardinality, Cardinality

\* A task that gives up its tag moves its own message only.
LEMMA OthersStay ==
    ASSUME TypeOK, ExactlyOnePlace, NEW d \in unacked,
           unacked' = unacked \ {d}, UNCHANGED <<inst, msg>>,
           ready' \in {ready, ready \cup {msg[d]}},
           acked' \in {acked, acked \cup {msg[d]}},
           dropped' \in {dropped, dropped \cup {msg[d]}},
           NEW n \in Msg \ {msg[d]}
    PROVE  Places(n)' = Places(n)
<1>1. {e \in unacked' : msg'[e] = n} = {e \in unacked : msg[e] = n}
  OBVIOUS
<1>2. {n} \cap ready' = {n} \cap ready
  OBVIOUS
<1>3. {n} \cap (acked' \cup dropped') = {n} \cap (acked \cup dropped)
  OBVIOUS
<1> QED
  BY <1>1, <1>2, <1>3 DEF Places

\* A tag that is void already changes nothing for the broker.
LEMMA VoidTagStutters ==
    ASSUME UNCHANGED <<ready, unacked, acked, dropped, msg, inst>>
    PROVE  UNCHANGED [m \in Msg |-> Places(m)]
BY DEF Places

LEMMA TaskImplements ==
    ASSUME TypeOK, PlaceInv, PlacesAre, PlacesAre',
           NEW d \in Delivery, Progress(d) \/ CallFails(d)
    PROVE  [Queue!Next]_[m \in Msg |-> Places(m)]
<1>1. CASE TaskGoesOn(d)
  BY <1>1, VoidTagStutters DEF TaskGoesOn
<1>2. CASE d \notin unacked /\ (ConnectFailed(d) \/ Acknowledge(d) \/ Reject(d))
  <2>1. unacked \ {d} = unacked
    BY <1>2
  <2> QED
    BY <1>2, <2>1, VoidTagStutters DEF ConnectFailed, Acknowledge, Reject
<1>3. ASSUME d \in unacked
      PROVE  /\ inst[d] \in Instance /\ msg[d] \in Msg
             /\ msg[d] \in Queue!Held(inst[d])
  BY <1>3 DEF TypeOK, PlacesAre, Queue!Held
<1>4. CASE d \in unacked /\ ConnectFailed(d)
  <2> PICK m \in Msg : m = msg[d]
    BY <1>3, <1>4
  <2>1. Places(m)' = Queue!Waiting
    BY <1>4 DEF ConnectFailed, PlacesAre, Queue!Waiting
  <2>2. \A n \in Msg \ {m} : Places(n)' = Places(n)
    BY <1>4, OthersStay DEF ConnectFailed, PlaceInv
  <2>3. Queue!Move(m, Queue!Waiting)
    BY <2>1, <2>2 DEF Queue!Move
  <2>4. Queue!GiveBack(inst[d], m)
    BY <1>3, <1>4, <2>3 DEF Queue!GiveBack
  <2> QED
    BY <1>3, <1>4, <2>4 DEF Queue!Next
<1>5. CASE d \in unacked /\ (Acknowledge(d) \/ Reject(d))
  <2> PICK m \in Msg : m = msg[d]
    BY <1>3, <1>5
  <2>1. Places(m)' = Queue!Settled
    BY <1>5 DEF Acknowledge, Reject, PlacesAre, Queue!Settled
  <2>2. \A n \in Msg \ {m} : Places(n)' = Places(n)
    BY <1>5, OthersStay DEF Acknowledge, Reject, PlaceInv
  <2>3. Queue!Move(m, Queue!Settled)
    BY <2>1, <2>2 DEF Queue!Move
  <2>4. Queue!Settle(inst[d], m)
    BY <1>3, <1>5, <2>3 DEF Queue!Settle
  <2> QED
    BY <1>3, <1>5, <2>4 DEF Queue!Next
<1> QED
  BY <1>1, <1>2, <1>4, <1>5, TaskSteps

\* What a lost channel does to its messages is LoseAll.
LEMMA RequeueLoses ==
    ASSUME TypeOK, ExactlyOnePlace, PlacesAre, PlacesAre',
           NEW i \in Instance, RequeueAll(i), UNCHANGED <<inst, msg>>
    PROVE  Queue!LoseAll(i)
<1>1. Queue!Held(i) = {msg[d] : d \in TagsOf(i)}
  BY HeldByTags
<1>2. ASSUME NEW m \in Queue!Held(i) PROVE Places(m)' = Queue!Waiting
  BY <1>1, <1>2 DEF RequeueAll, PlacesAre, Queue!Waiting
<1>3. ASSUME NEW m \in Msg, m \notin Queue!Held(i) PROVE Places(m)' = Places(m)
  <2>1. \A e \in unacked : msg[e] = m => e \notin TagsOf(i)
    BY <1>1, <1>3
  <2>2. {e \in unacked' : msg'[e] = m} = {e \in unacked : msg[e] = m}
    BY <2>1 DEF RequeueAll
  <2>3. {m} \cap ready' = {m} \cap ready
    BY <1>1, <1>3 DEF RequeueAll
  <2> QED
    BY <2>2, <2>3 DEF RequeueAll, Places
<1> QED
  BY <1>2, <1>3 DEF Queue!LoseAll

LEMMA QueueStep ==
    TypeOK /\ PlaceInv /\ FiniteTags /\ PlacesAre /\ PlacesAre' /\ [Next]_vars
    => [Queue!Next]_[m \in Msg |-> Places(m)]
<1> SUFFICES ASSUME TypeOK, PlaceInv, FiniteTags, PlacesAre, PlacesAre', [Next]_vars
             PROVE  [Queue!Next]_[m \in Msg |-> Places(m)]
  OBVIOUS
<1>1. ASSUME NEW i \in Instance, NEW m \in Msg, NEW d \in Delivery, Deliver(i, m, d)
      PROVE  Queue!Next
  BY <1>1, DeliverTakes DEF Queue!Next
<1>2. ASSUME NEW i \in Instance, ConnectionLost(i) \/ Crash(i) PROVE Queue!Next
  BY <1>2, RequeueLoses DEF ConnectionLost, Crash, taskVars, PlaceInv, Queue!Next
<1>3. ASSUME NEW i \in Instance, ConsumerClosed(i) \/ Restart(i)
      PROVE  UNCHANGED [m \in Msg |-> Places(m)]
  BY <1>3, VoidTagStutters DEF ConsumerClosed, Restart, brokerVars, taskVars
<1>4. ASSUME NEW k \in Key, Expire(k) PROVE UNCHANGED [m \in Msg |-> Places(m)]
  BY <1>4, VoidTagStutters DEF Expire, brokerVars, taskVars
<1>5. CASE UNCHANGED vars
  BY <1>5, VoidTagStutters DEF vars, brokerVars, taskVars
<1> QED
  BY TaskImplements, <1>1, <1>2, <1>3, <1>4, <1>5 DEF Next, Idle

\* Seen from push.queue, any number of push-service processes that crash,
\* lose their channels and fail on any call are consumers of QueueConsumer.
THEOREM PushImplementsQueue == Spec => ImplementsQueue
<1>1. Init => Queue!Init
  <2> SUFFICES ASSUME Init PROVE \A m \in Msg : Places(m) = Queue!Waiting
    BY DEF Queue!Init
  <2> QED
    BY DEF Init, Places, Queue!Waiting
<1>2. Init => PlaceInv /\ FiniteTags
  BY FS_EmptySet DEF Init, PlaceInv, ExactlyOnePlace, TagsMatchTasks, NoTasksWhileDown,
     FiniteTags
<1>3. PlaceInv => ExactlyOnePlace
  BY DEF PlaceInv
<1>4. Spec => [](TypeOK /\ PlaceInv /\ FiniteTags /\ PlacesAre)
  BY <1>2, <1>3, PlaceInvStep, FiniteTagsStep, PlacesFromInv, TypeInvariant, PTL DEF Spec
<1>5. Spec => [][Queue!Next]_[m \in Msg |-> Places(m)]
  BY <1>4, QueueStep, PTL DEF Spec
<1> QED
  BY <1>1, <1>5, PTL DEF Spec, ImplementsQueue, Queue!Spec

-----------------------------------------------------------------------------
(* What an acknowledgement means. *)

Calm == OneProcess /\ env.faults \subseteq {"fcm", "expiry"}

\* The two ways in which a key lets later messages be acknowledged.
Excused(k) ==
    \/ Delivered(k)
    \/ \E n \in Msg : payload[n].key = k /\ LeavesProcessing(payload[n])

\* A task that has marked its key and will write it again.
Busy == {"fetch", "send", "call", "accepted", "marksent", "markfailed"}

AckInv ==
    /\ \A i \in Instance : conn[i] = "up"
    /\ \A m \in acked : Excused(payload[m].key)
    /\ \A d \in Delivery : pc[d] = "ack" => Excused(KeyOf(d))
    /\ \A d \in Delivery : pc[d] = "fetch" => payload[msg[d]].token = "ok"
    /\ \A k \in Key : idem[k] = "processing" =>
          Excused(k) \/ \E d \in Delivery : pc[d] \in Busy /\ KeyOf(d) = k

LEMMA CalmFaults ==
    ASSUME Calm
    PROVE  /\ \A d \in Delivery : CallFails(d) => ReplyLost(d)
           /\ \A i \in Instance : ~ConnectionLost(i) /\ ~Crash(i)
<1>1. ~Fault("redis") /\ ~Fault("broker") /\ ~Fault("process")
  BY DEF Calm, Fault
<1> QED
  BY <1>1 DEF CallFails, ConnectFailed, CheckIdempotencyFailed, MarkAsProcessingFailed,
     RecordSuccessFailed, MarkAsSentFailed, MarkAsFailedFailed, ConnectionLost, Crash

\* The excuse of a key is never taken back.
LEMMA ExcusedStays ==
    ASSUME TypeOK, TypeOK', UNCHANGED payload,
           \A m \in Msg : accepted'[m] >= accepted[m],
           NEW k, Excused(k)
    PROVE  Excused(k)'
<1>1. \A m \in Msg : accepted[m] \in Nat /\ accepted'[m] \in Nat
  BY DEF TypeOK
<1> QED
  BY <1>1 DEF Excused, Delivered

\* One task moves on, or panics, without writing its key.
LEMMA AckInvMove ==
    ASSUME TypeOK, TypeOK', AckInv, NEW d \in Delivery, NEW to \in Unsettled \ {"fetch"},
           pc' = [pc EXCEPT ![d] = to],
           UNCHANGED <<payload, acked, conn, msg, idem>>,
           \A m \in Msg : accepted'[m] >= accepted[m],
           to = "ack" => Excused(KeyOf(d)),
           pc[d] \in Busy => to \in Busy \/ Excused(KeyOf(d))
    PROVE  AckInv'
<1>1. \A k : Excused(k) => Excused(k)'
  BY ExcusedStays
<1>2. /\ pc'[d] = to
      /\ \A e \in Delivery \ {d} : pc'[e] = pc[e]
  BY DEF TypeOK
<1>3. \A e : KeyOf(e)' = KeyOf(e)
  BY DEF KeyOf
<1>4. \A e \in Delivery : pc[e] \in Busy => pc'[e] \in Busy \/ Excused(KeyOf(e))
  BY <1>2
<1>5. (\A i \in Instance : conn[i] = "up")'
  BY DEF AckInv
<1>6. (\A m \in acked : Excused(payload[m].key))'
  BY <1>1 DEF AckInv
<1>7. (\A e \in Delivery : pc[e] = "ack" => Excused(KeyOf(e)))'
  BY <1>1, <1>2, <1>3 DEF AckInv
<1>8. (\A k \in Key : idem[k] = "processing" =>
          Excused(k) \/ \E e \in Delivery : pc[e] \in Busy /\ KeyOf(e) = k)'
  BY <1>1, <1>3, <1>4 DEF AckInv
<1>9. (\A e \in Delivery : pc[e] = "fetch" => payload[msg[e]].token = "ok")'
  BY <1>2 DEF AckInv
<1> QED
  BY <1>5, <1>6, <1>7, <1>8, <1>9 DEF AckInv

\* One task writes its key on the way.
LEMMA AckInvWrite ==
    ASSUME TypeOK, TypeOK', AckInv, NEW d \in Delivery, NEW to \in Running \ {"ack"},
           NEW value, pc[d] \in Running,
           pc' = [pc EXCEPT ![d] = to], SetKey(d, value),
           UNCHANGED <<payload, acked, conn, msg, accepted>>,
           value = "processing" => Excused(KeyOf(d)) \/ to \in Busy,
           to = "fetch" => payload[msg[d]].token = "ok"
    PROVE  AckInv'
<1>1. \A k : Excused(k)' <=> Excused(k)
  BY DEF Excused, Delivered
<1>2. /\ pc'[d] = to
      /\ \A e \in Delivery \ {d} : pc'[e] = pc[e]
  BY DEF TypeOK
<1>3. \A e : KeyOf(e)' = KeyOf(e)
  BY DEF KeyOf
<1>4. KeyOf(d) \in Key
  BY PayloadOfTask
<1>5. /\ idem'[KeyOf(d)] = value
      /\ \A k \in Key \ {KeyOf(d)} : idem'[k] = idem[k]
  BY <1>4 DEF SetKey, TypeOK
<1>6. ASSUME NEW k \in Key, idem'[k] = "processing"
      PROVE  (Excused(k) \/ \E e \in Delivery : pc[e] \in Busy /\ KeyOf(e) = k)'
  <2>1. CASE k = KeyOf(d)
    BY <1>1, <1>2, <1>3, <1>5, <1>6, <2>1
  <2>2. CASE k # KeyOf(d)
    BY <1>1, <1>2, <1>3, <1>5, <1>6, <2>2 DEF AckInv
  <2> QED
    BY <2>1, <2>2
<1>7. (\A i \in Instance : conn[i] = "up")'
  BY DEF AckInv
<1>8. (\A m \in acked : Excused(payload[m].key))'
  BY <1>1 DEF AckInv
<1>9. (\A e \in Delivery : pc[e] = "ack" => Excused(KeyOf(e)))'
  BY <1>1, <1>2, <1>3 DEF AckInv
<1>10. (\A e \in Delivery : pc[e] = "fetch" => payload[msg[e]].token = "ok")'
  BY <1>2 DEF AckInv
<1> QED
  BY <1>6, <1>7, <1>8, <1>9, <1>10 DEF AckInv

LEMMA AckInvTask ==
    ASSUME Calm, TypeOK, TypeOK', LockInv, EvidenceInv, AckInv,
           NEW d \in Delivery, Progress(d) \/ ReplyLost(d)
    PROVE  AckInv'
<1> USE DEF Busy
<1>1. ASSUME UNCHANGED accepted PROVE \A m \in Msg : accepted'[m] >= accepted[m]
  BY <1>1 DEF TypeOK
<1>2. ASSUME AcquirePermit(d) \/ Connect(d) \/ LockTemplate(d) \/ LockFcm(d)
             \/ PublishToDlq(d)
      PROVE  AckInv'
  BY <1>1, <1>2, AckInvMove DEF AcquirePermit, Connect, LockTemplate, LockFcm,
     PublishToDlq, Goto, brokerVars
<1>3. ASSUME NEW from \in Running, NEW to \in Running \ {"fetch"}, Step(d, from, to),
             UNCHANGED <<idem, accepted>>,
             to = "ack" => Excused(KeyOf(d)), from \in Busy => to \in Busy
      PROVE  AckInv'
  BY <1>1, <1>3, AckInvMove DEF Step, Goto, brokerVars
\* "processing" belongs to another task or is excused; no other task of the
\* process is inside process_message.
<1>4. ASSUME CheckIdempotency(d) PROVE AckInv'
  <2>1. KeyOf(d) \in Key /\ inst[d] \in Instance /\ pc[d] = "check"
    BY <1>4, PayloadOfTask DEF CheckIdempotency, Step
  <2>2. ASSUME NEW e \in Delivery, pc[e] \in Busy PROVE FALSE
    BY <2>1, <2>2, PayloadOfTask, HeldMeansSerial
       DEF SerialProcessing, Calm, OneProcess
  <2>3. AlreadyHandled(idem[KeyOf(d)]) => Excused(KeyOf(d))
    BY <2>1, <2>2 DEF AlreadyHandled, AckInv, EvidenceInv, SentMeansAccepted, Excused
  <2> QED
    BY <1>3, <1>4, <2>3 DEF CheckIdempotency
<1>5. ASSUME FetchTemplate(d) \/ FetchTemplateFailed(d) PROVE AckInv'
  BY <1>3, <1>5 DEF FetchTemplate, FetchTemplateFailed
\* The message that panics is the excuse of the key it leaves behind.
<1>14. ASSUME RenderPanics(d) PROVE AckInv'
  <2>1. msg[d] \in Msg /\ pc[d] = "fetch" /\ payload[msg[d]].render = "panic"
    BY <1>14, PayloadOfTask DEF RenderPanics
  <2>2. Excused(KeyOf(d))
    BY <2>1 DEF AckInv, Excused, KeyOf, LeavesProcessing, Panics
  <2> QED
    BY <1>1, <1>14, <2>2, AckInvMove DEF RenderPanics, Goto, brokerVars
<1>6. ASSUME BreakerAdmits(d) \/ BreakerRejects(d) \/ SendSucceeded(d) PROVE AckInv'
  BY <1>3, <1>6 DEF BreakerAdmits, BreakerRejects, SendSucceeded
<1>7. ASSUME FcmRefuses(d) \/ ReplyLost(d) PROVE AckInv'
  <2>1. Step(d, "call", "call") \/ Step(d, "call", "markfailed")
        \/ Step(d, "accepted", "call") \/ Step(d, "accepted", "markfailed")
    BY <1>7, RetryStep DEF FcmRefuses, ReplyLost
  <2> QED
    BY <1>3, <1>7, <2>1 DEF FcmRefuses, ReplyLost
<1>8. ASSUME FcmAccepts(d) PROVE AckInv'
  <2>1. \A m \in Msg : accepted'[m] >= accepted[m]
    BY <1>8 DEF FcmAccepts, TypeOK
  <2> QED
    BY <1>8, <2>1, AckInvMove DEF FcmAccepts, Step, Goto, brokerVars
<1>9. ASSUME MarkAsProcessing(d) PROVE AckInv'
  <2>1. msg[d] \in Msg /\ payload[msg[d]] \in PayloadType
    BY <1>9, PayloadOfTask DEF MarkAsProcessing, Step
  <2>4. AfterMark(payload[msg[d]]) = "fetch" => payload[msg[d]].token = "ok"
    BY <2>1 DEF AfterMark, PayloadType
  <2>2. Excused(KeyOf(d)) \/ AfterMark(payload[msg[d]]) \in Busy
    BY <2>1 DEF AfterMark, Excused, KeyOf, LeavesProcessing
  <2>3. AfterMark(payload[msg[d]]) \in Running \ {"ack"}
    BY DEF AfterMark
  <2> QED
    BY <1>9, <2>2, <2>3, <2>4, AckInvWrite DEF MarkAsProcessing, Step, Goto, brokerVars
<1>10. ASSUME MarkAsSent(d) \/ MarkAsFailed(d) PROVE AckInv'
  BY <1>10, AckInvWrite DEF MarkAsSent, MarkAsFailed, Step, Goto, brokerVars
<1>11. ASSUME LogSent(d) PROVE AckInv'
  <2>1. Excused(KeyOf(d))
    BY <1>11, PayloadOfTask DEF LogSent, Step, EvidenceInv, SendEvidence, Claims,
       Excused, Delivered, KeyOf
  <2> QED
    BY <1>3, <1>11, <2>1 DEF LogSent
<1>12. ASSUME LogFailed(d) PROVE AckInv'
  BY <1>3, <1>12 DEF LogFailed
<1>13. ASSUME Acknowledge(d) \/ Reject(d) PROVE AckInv'
  <2>1. /\ pc[d] \in {"ack", "reject"} /\ pc' = [pc EXCEPT ![d] = "done"]
        /\ UNCHANGED <<payload, conn, msg, idem, accepted>>
        /\ \A m \in acked' \ acked : pc[d] = "ack" /\ m = msg[d]
    BY <1>13 DEF Acknowledge, Reject, Finish, DropGuards, Goto
  <2>2. \A k : Excused(k)' <=> Excused(k)
    BY <2>1 DEF Excused, Delivered
  <2>3. \A e : KeyOf(e)' = KeyOf(e)
    BY <2>1 DEF KeyOf
  <2>4. (\A m \in acked : Excused(payload[m].key))'
    BY <2>1, <2>2 DEF AckInv, KeyOf
  <2>5. (\A e \in Delivery : pc[e] = "ack" => Excused(KeyOf(e)))'
    BY <2>1, <2>2, <2>3 DEF AckInv, TypeOK
  <2>6. (\A k \in Key : idem[k] = "processing" =>
            Excused(k) \/ \E e \in Delivery : pc[e] \in Busy /\ KeyOf(e) = k)'
    BY <2>1, <2>2, <2>3 DEF AckInv, TypeOK
  <2>7. (\A e \in Delivery : pc[e] = "fetch" => payload[msg[e]].token = "ok")'
    BY <2>1 DEF AckInv, TypeOK
  <2> QED
    BY <2>1, <2>4, <2>5, <2>6, <2>7 DEF AckInv
<1> QED
  BY <1>2, <1>4, <1>5, <1>6, <1>7, <1>8, <1>9, <1>10, <1>11, <1>12, <1>13,
     <1>14 DEF Progress

LEMMA AckInvStep ==
    Calm /\ TypeOK /\ TypeOK' /\ LockInv /\ EvidenceInv /\ AckInv /\ [Next]_vars => AckInv'
<1> SUFFICES ASSUME Calm, TypeOK, TypeOK', LockInv, EvidenceInv, AckInv, [Next]_vars
             PROVE  AckInv'
  OBVIOUS
<1>1. ASSUME NEW i \in Instance, NEW m \in Msg, NEW d \in Delivery, Deliver(i, m, d)
      PROVE  AckInv'
  <2>1. /\ pc[d] \notin Unsettled /\ pc' = [pc EXCEPT ![d] = "spawned"]
        /\ UNCHANGED <<payload, acked, conn, idem, accepted>>
        /\ msg' = [msg EXCEPT ![d] = m]
    BY <1>1 DEF Deliver, Goto
  <2>2. \A k : Excused(k)' <=> Excused(k)
    BY <2>1 DEF Excused, Delivered
  <2>3. \A e \in Delivery \ {d} : KeyOf(e)' = KeyOf(e) /\ pc'[e] = pc[e]
    BY <2>1 DEF KeyOf, TypeOK
  <2>4. pc'[d] = "spawned" /\ pc[d] \notin Busy
    BY <2>1 DEF TypeOK, Busy
  <2>5. (\A e \in Delivery : pc[e] = "ack" => Excused(KeyOf(e)))'
    BY <2>2, <2>3, <2>4 DEF AckInv
  <2>6. (\A k \in Key : idem[k] = "processing" =>
            Excused(k) \/ \E e \in Delivery : pc[e] \in Busy /\ KeyOf(e) = k)'
    BY <2>1, <2>2, <2>3, <2>4 DEF AckInv
  <2>7. (\A e \in Delivery : pc[e] = "fetch" => payload[msg[e]].token = "ok")'
    BY <2>1, <2>3, <2>4 DEF AckInv, TypeOK
  <2> QED
    BY <2>1, <2>2, <2>5, <2>6, <2>7 DEF AckInv
<1>2. ASSUME NEW k \in Key, Expire(k) PROVE AckInv'
  <2>1. /\ UNCHANGED <<payload, acked, conn, pc, msg, accepted>>
        /\ \A x \in Key : idem'[x] = "processing" => idem[x] = "processing"
    BY <1>2 DEF Expire, brokerVars, taskVars, TypeOK
  <2> QED
    BY <2>1 DEF AckInv, Excused, Delivered, KeyOf
<1>3. ASSUME NEW i \in Instance, ConsumerClosed(i) \/ Restart(i) PROVE FALSE
  BY <1>3 DEF ConsumerClosed, Restart, AckInv
<1>4. CASE UNCHANGED vars
  BY <1>4 DEF vars, brokerVars, taskVars, AckInv, Excused, Delivered, KeyOf
<1> QED
  BY AckInvTask, CalmFaults, <1>1, <1>2, <1>3, <1>4 DEF Next, Idle

\* With one process, a message is acknowledged only if its key was delivered
\* or was left at "processing" by a message that lacked its push_token or
\* whose rendering panicked.
THEOREM AckIsEarned == Spec => []AckedMeansDelivered
<1>1. Init => AckInv /\ EvidenceInv
  BY DEF Init, AckInv, EvidenceInv, SendEvidence, SentMeansAccepted,
         AuditedSentMeansAccepted, Claims
<1>2. Spec => []EvidenceInv
  BY <1>1, EvidenceInvStep, TypeInvariant, PTL DEF Spec
<1>3. [Next]_vars => (Calm <=> Calm')
  BY EnvUnchanged DEF Calm, OneProcess
<1>4. Spec => [](Calm => AckInv)
  BY <1>1, <1>2, <1>3, AckInvStep, TypeInvariant, LockInvHolds, PTL DEF Spec
<1>5. (Calm => AckInv) => AckedMeansDelivered
  BY DEF AckInv, Calm, Excused, AckedMeansDelivered
<1> QED
  BY <1>4, <1>5, PTL
=============================================================================
