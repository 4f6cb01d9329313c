------------------------- MODULE EmailProcessorProofs -------------------------
(* Safety of EmailProcessor for every number of processes, messages,       *)
(* handlers, prefetch counts and faults, and that it implements            *)
(* QueueConsumer.                                                          *)
EXTENDS EmailProcessor, FiniteSetTheorems, TLAPS

USE DEF Running, Stuck, PC

\* The environment and the messages are fixed at the start.
LEMMA Fixed == [Next]_vars => UNCHANGED <<env, content>>
BY DEF Next, vars, Receive, Progress, CallFails, NoHandler, AckDuplicate, CheckNew,
       MarkProcessed, CountProcessed, Template, SmtpAccepts, SmtpRefuses, SendSucceeded,
       Ack, CountFailed, Nack, CheckFailed, MarkFailed, SmtpReplyLost, HttpHangs, Step, Expire,
       QueueTTL, ConnectionLost, Crash, Idle

LEMMA FaultType == ASSUME TypeOK, NEW kind, Fault(kind) PROVE faults' \in Nat
BY DEF TypeOK, Fault

\* A counter is incremented or, with a fault, left alone.
LEMMA IncrementType ==
    ASSUME TypeOK, NEW name \in {"processed", "delivered", "failed"}, Increment(name)
    PROVE  /\ metric' \in [{"processed", "delivered", "failed"} -> Nat]
           /\ faults' \in Nat
<1>1. CASE Count(name) /\ UNCHANGED faults
  BY <1>1 DEF TypeOK, Count
<1>2. CASE CountLost(name)
  BY <1>2, FaultType DEF TypeOK, CountLost
<1> QED
  BY <1>1, <1>2 DEF Increment

\* The message a handler works on, and its key.
LEMMA HandlerOf ==
    ASSUME TypeOK, NEW d \in Delivery, pc[d] # "free"
    PROVE  inst[d] \in Instance /\ msg[d] \in Msg /\ IdOf(msg[d]) \in Id \cup {None}
BY EmailConstants DEF TypeOK, IdOf, Content

\* An await of the handler ends, and the handler goes on.
LEMMA StepType ==
    ASSUME TypeOK, NEW d \in Delivery, NEW from \in Running, NEW to \in Running,
           Step(d, from, to),
           marked' \subseteq Id \cup {None},
           raced' \subseteq Id \cup {None},
           accepted' \in [Msg -> Nat],
           metric' \in [{"processed", "delivered", "failed"} -> Nat],
           faults' \in Nat
    PROVE  TypeOK'
BY DEF TypeOK, Step, Goto, brokerVars

\* The handler is at an end: its number is free again.
LEMMA ReturnType ==
    ASSUME TypeOK, NEW d \in Delivery, pc[d] # "free", Return(d),
           unacked' = unacked \ {d},
           ready' \subseteq Msg, acked' \subseteq Msg, deadLettered' \subseteq Msg,
           UNCHANGED <<env, content, marked, raced, accepted, metric, faults>>
    PROVE  TypeOK'
BY EmailConstants DEF TypeOK, Return, Goto

\* Numbers that are not outstanding any more can be released.
LEMMA ReleaseType ==
    ASSUME TypeOK, NEW i \in Instance, RequeueAll(i), NEW gone \in SUBSET Delivery,
           Release(gone), \A d \in gone : inst[d] = i, faults' \in Nat,
           UNCHANGED <<env, content, marked, raced, accepted, metric>>
    PROVE  TypeOK'
BY EmailConstants DEF TypeOK, RequeueAll, Release, TagsOf

\* No step of a handler, of Redis, of SMTP or of the broker leaves the types.
THEOREM TypeInvariant == Spec => []TypeOK
<1>1. Init => TypeOK
  BY EmailConstants DEF Init, TypeOK
<1>2. TypeOK /\ [Next]_vars => TypeOK'
  <2> SUFFICES ASSUME TypeOK, [Next]_vars PROVE TypeOK'
    OBVIOUS
  <2>1. ASSUME NEW i \in Instance, NEW m \in Msg, NEW d \in Delivery, Receive(i, m, d)
        PROVE  TypeOK'
    <3>1. Dispatch(m) \in {"rejected", "no_handler", "exists"}
      BY DEF Dispatch
    <3> QED
      BY <2>1, <3>1 DEF TypeOK, Receive, Goto
  <2>2. ASSUME NEW d \in Delivery, Progress(d) PROVE TypeOK'
    <3>1. CASE NoHandler(d)
      BY <3>1, HandlerOf, ReturnType DEF TypeOK, NoHandler
    <3>2. ASSUME AckDuplicate(d) \/ Ack(d) PROVE TypeOK'
      <4>1. CASE d \in unacked
        BY <3>2, <4>1, HandlerOf, ReturnType DEF TypeOK, AckDuplicate, Ack
      <4>2. CASE d \notin unacked
        BY <3>2, <4>2 DEF TypeOK, AckDuplicate, Ack, Goto
      <4> QED
        BY <4>1, <4>2
    <3>3. CASE CheckNew(d)
      BY <3>3, HandlerOf, StepType DEF TypeOK, CheckNew, Step
    <3>4. CASE MarkProcessed(d)
      BY <3>4, HandlerOf, StepType DEF TypeOK, MarkProcessed, Step
    <3>5. CASE CountProcessed(d)
      BY <3>5, IncrementType, StepType DEF TypeOK, CountProcessed
    <3>6. CASE Template(d)
      BY <3>6, StepType DEF TypeOK, Template
    <3>7. CASE SmtpAccepts(d)
      <4>1. accepted' \in [Msg -> Nat]
        BY <3>7, HandlerOf DEF TypeOK, SmtpAccepts, Step
      <4> QED
        BY <3>7, <4>1, StepType DEF TypeOK, SmtpAccepts
    <3>8. CASE SmtpRefuses(d)
      BY <3>8, StepType DEF TypeOK, SmtpRefuses
    <3>9. CASE SendSucceeded(d)
      BY <3>9, IncrementType, StepType DEF TypeOK, SendSucceeded
    <3>10. CASE CountFailed(d)
      BY <3>10, IncrementType, StepType DEF TypeOK, CountFailed
    <3>11. CASE Nack(d)
      BY <3>11, HandlerOf, ReturnType DEF TypeOK, Nack
    <3> QED
      BY <2>2, <3>1, <3>2, <3>3, <3>4, <3>5, <3>6, <3>7, <3>8, <3>9, <3>10, <3>11
         DEF Progress
  <2>3. ASSUME NEW d \in Delivery, CallFails(d) PROVE TypeOK'
    <3>1. faults' \in Nat
      BY <2>3, FaultType DEF CallFails, CheckFailed, MarkFailed, SmtpReplyLost, HttpHangs
    <3>2. CASE CheckFailed(d)
      BY <3>1, <3>2, StepType DEF TypeOK, CheckFailed
    <3>3. CASE MarkFailed(d)
      BY <3>1, <3>3, HandlerOf, StepType DEF TypeOK, MarkFailed, Step
    <3>4. CASE SmtpReplyLost(d)
      BY <3>1, <3>4, StepType DEF TypeOK, SmtpReplyLost
    <3>5. CASE HttpHangs(d)
      BY <3>1, <3>5, EmailConstants DEF TypeOK, HttpHangs, Return, Goto, brokerVars
    <3> QED
      BY <2>3, <3>2, <3>3, <3>4, <3>5 DEF CallFails
  <2>4. ASSUME NEW id \in marked, Expire(id) PROVE TypeOK'
    BY <2>4, FaultType DEF TypeOK, Expire, brokerVars
  <2>5. ASSUME NEW m \in Msg, QueueTTL(m) PROVE TypeOK'
    BY <2>5, FaultType DEF TypeOK, QueueTTL
  <2>6. ASSUME NEW i \in Instance, ConnectionLost(i) \/ Crash(i) PROVE TypeOK'
    BY <2>6, FaultType, ReleaseType DEF ConnectionLost, Crash
  <2>7. CASE UNCHANGED vars
    BY <2>7 DEF TypeOK, vars, brokerVars
  <2> QED
    BY <2>1, <2>2, <2>3, <2>4, <2>5, <2>6, <2>7 DEF Next, Idle
<1> QED
  BY <1>1, <1>2, PTL DEF Spec

-----------------------------------------------------------------------------
(* Where a message is. *)

\* The handler of d moves on, or hangs; the broker sees nothing of it.
HandlerGoesOn(d) ==
    /\ pc[d] \in Running
    /\ \E label \in Running \cup Stuck : pc' = [pc EXCEPT ![d] = label]
    /\ UNCHANGED <<ready, unacked, acked, deadLettered, inst, msg>>

\* The handler of d ends and settles its message, if it still can.
HandlerEnds(d) ==
    /\ pc[d] \in Running
    /\ Return(d)
    /\ unacked' = unacked \ {d}
    /\ \/ /\ d \notin unacked
          /\ UNCHANGED <<ready, acked, deadLettered>>
       \/ /\ d \in unacked
          /\ \/ /\ ready' = ready \cup {msg[d]}
                /\ UNCHANGED <<acked, deadLettered>>
             \/ /\ acked' = acked \cup {msg[d]}
                /\ UNCHANGED <<ready, deadLettered>>
             \/ /\ deadLettered' = deadLettered \cup {msg[d]}
                /\ UNCHANGED <<ready, acked>>

LEMMA HandlerSteps ==
    ASSUME TypeOK, NEW d \in Delivery, Progress(d) \/ CallFails(d)
    PROVE  HandlerGoesOn(d) \/ HandlerEnds(d)
<1>1. ASSUME NEW from \in Running, NEW to \in Running, Step(d, from, to)
      PROVE  HandlerGoesOn(d)
  BY <1>1 DEF Step, Goto, HandlerGoesOn, brokerVars
<1>2. ASSUME CheckNew(d) \/ MarkProcessed(d) \/ CountProcessed(d) \/ SmtpAccepts(d)
             \/ SmtpRefuses(d) \/ SendSucceeded(d) \/ CountFailed(d)
      PROVE  HandlerGoesOn(d)
  BY <1>1, <1>2 DEF CheckNew, MarkProcessed, CountProcessed, SmtpAccepts, SmtpRefuses,
     SendSucceeded, CountFailed
<1>3. ASSUME Template(d) PROVE HandlerGoesOn(d)
  BY <1>1, <1>3 DEF Template
<1>4. ASSUME CheckFailed(d) \/ MarkFailed(d) \/ SmtpReplyLost(d) PROVE HandlerGoesOn(d)
  BY <1>1, <1>4 DEF CheckFailed, MarkFailed, SmtpReplyLost
<1>8. ASSUME HttpHangs(d) PROVE HandlerGoesOn(d) \/ HandlerEnds(d)
  <2>1. CASE d \in unacked
    BY <1>8, <2>1 DEF HttpHangs, Goto, HandlerGoesOn, brokerVars
  <2>2. CASE d \notin unacked
    <3>1. unacked \ {d} = unacked
      BY <2>2
    <3> QED
      BY <1>8, <2>2, <3>1 DEF HttpHangs, HandlerEnds, brokerVars
  <2> QED
    BY <2>1, <2>2
<1>5. ASSUME NoHandler(d) PROVE HandlerEnds(d)
  BY <1>5 DEF NoHandler, HandlerEnds
<1>6. ASSUME AckDuplicate(d) \/ Ack(d) PROVE HandlerGoesOn(d) \/ HandlerEnds(d)
  BY <1>6 DEF AckDuplicate, Ack, Goto, HandlerGoesOn, HandlerEnds
<1>7. ASSUME Nack(d) PROVE HandlerEnds(d)
  <2>1. content[msg[d]].retry \in Nat
    BY <1>7, HandlerOf, EmailConstants DEF Nack, TypeOK, Content
  <2> QED
    BY <1>7, <2>1 DEF Nack, HandlerEnds
<1> QED
  BY <1>2, <1>3, <1>4, <1>5, <1>6, <1>7, <1>8 DEF Progress, CallFails

\* Every message waits, is held under one tag, or is settled.
OnePlace ==
    /\ \A m \in Msg :
          \/ m \in ready \/ m \in acked \/ m \in deadLettered
          \/ \E d \in unacked : msg[d] = m
    /\ ready \cap acked = {} /\ ready \cap deadLettered = {}
    /\ acked \cap deadLettered = {}
    /\ \A d \in unacked : msg[d] \notin ready \cup acked \cup deadLettered
    /\ \A d, e \in unacked : msg[d] = msg[e] => d = e

FiniteTags == IsFiniteSet(unacked)

PlaceInv == OnePlace /\ FiniteTags

LEMMA OnePlaceStep == TypeOK /\ OnePlace /\ [Next]_vars => OnePlace'
<1> SUFFICES ASSUME TypeOK, OnePlace, [Next]_vars PROVE OnePlace'
  OBVIOUS
<1>1. ASSUME NEW i \in Instance, NEW m \in Msg, NEW d \in Delivery, Receive(i, m, d)
      PROVE  OnePlace'
  <2>1. d \notin unacked
    BY <1>1 DEF Receive, TypeOK
  <2>2. \A e \in unacked : msg'[e] = msg[e]
    BY <1>1, <2>1 DEF TypeOK, Receive
  <2>3. /\ msg'[d] = m /\ m \in ready /\ unacked' = unacked \cup {d}
        /\ ready' = ready \ {m} /\ UNCHANGED <<acked, deadLettered>>
    BY <1>1 DEF TypeOK, Receive
  <2> QED
    BY <2>2, <2>3 DEF TypeOK, OnePlace
<1>2. ASSUME NEW d \in Delivery, HandlerGoesOn(d) PROVE OnePlace'
  BY <1>2 DEF HandlerGoesOn, OnePlace
<1>3. ASSUME NEW d \in Delivery, HandlerEnds(d) PROVE OnePlace'
  <2>1. \A e \in unacked' : msg'[e] = msg[e] /\ e # d
    BY <1>3 DEF TypeOK, HandlerEnds, Return
  <2>2. CASE d \notin unacked
    BY <1>3, <2>1, <2>2 DEF HandlerEnds, OnePlace
  <2>3. CASE d \in unacked
    BY <1>3, <2>1, <2>3 DEF TypeOK, HandlerEnds, OnePlace
  <2> QED
    BY <2>2, <2>3
<1>4. ASSUME NEW id \in marked, Expire(id) PROVE OnePlace'
  BY <1>4 DEF Expire, brokerVars, OnePlace
<1>5. ASSUME NEW m \in Msg, QueueTTL(m) PROVE OnePlace'
  BY <1>5 DEF QueueTTL, OnePlace
<1>6. ASSUME NEW i \in Instance, RequeueAll(i), NEW gone \in SUBSET Delivery,
             Release(gone), \A d \in gone : inst[d] = i
      PROVE  OnePlace'
  <2>1. \A e \in unacked' : e \in unacked /\ msg'[e] = msg[e]
    BY <1>6 DEF TypeOK, RequeueAll, Release, TagsOf
  <2>2. \A e \in unacked : e \in unacked' \/ msg[e] \in ready'
    BY <1>6 DEF RequeueAll
  <2>3. \A m \in ready' : m \in ready \/ \E e \in unacked \ unacked' : msg[e] = m
    BY <1>6 DEF RequeueAll, TagsOf
  <2> QED
    BY <1>6, <2>1, <2>2, <2>3 DEF RequeueAll, OnePlace
<1>7. ASSUME NEW i \in Instance, ConnectionLost(i) \/ Crash(i) PROVE OnePlace'
  BY <1>6, <1>7 DEF ConnectionLost, Crash
<1>8. CASE UNCHANGED vars
  BY <1>8 DEF vars, brokerVars, OnePlace
<1> QED
  BY HandlerSteps, <1>1, <1>2, <1>3, <1>4, <1>5, <1>7, <1>8 DEF Next, Idle

LEMMA FiniteTagsStep == TypeOK /\ FiniteTags /\ [Next]_vars => FiniteTags'
<1> SUFFICES ASSUME TypeOK, FiniteTags, [Next]_vars PROVE FiniteTags'
  OBVIOUS
<1>1. ASSUME NEW i \in Instance, NEW m \in Msg, NEW d \in Delivery, Receive(i, m, d)
      PROVE  FiniteTags'
  BY <1>1, FS_AddElement DEF Receive, FiniteTags
<1>2. ASSUME unacked' \subseteq unacked PROVE FiniteTags'
  BY <1>2, FS_Subset DEF FiniteTags
<1>3. ASSUME NEW d \in Delivery, Progress(d) \/ CallFails(d)
      PROVE  unacked' \subseteq unacked
  BY <1>3, HandlerSteps DEF HandlerGoesOn, HandlerEnds
<1>4. ASSUME NEW i \in Instance, ConnectionLost(i) \/ Crash(i)
      PROVE  unacked' \subseteq unacked
  BY <1>4 DEF ConnectionLost, Crash, RequeueAll
<1>5. CASE \/ \E id \in marked : Expire(id)
           \/ \E m \in Msg : QueueTTL(m)
           \/ UNCHANGED vars
  BY <1>2, <1>5 DEF Expire, QueueTTL, vars, brokerVars
<1> QED
  BY <1>1, <1>2, <1>3, <1>4, <1>5 DEF Next, Idle

\* Every message is in exactly one place, whatever the handlers do.
LEMMA PlaceInvHolds == Spec => []PlaceInv
<1>1. Init => PlaceInv
  BY FS_EmptySet DEF Init, PlaceInv, OnePlace, FiniteTags
<1> QED
  BY <1>1, OnePlaceStep, FiniteTagsStep, TypeInvariant, PTL DEF Spec, PlaceInv

-----------------------------------------------------------------------------
(* Handlers and their tags, while channels stay open. *)

ChannelsStay == "broker" \notin env.faults

TagsKept == \A d \in Delivery : pc[d] # "free" => d \in unacked

LEMMA TagsKeptStep == TypeOK /\ ChannelsStay /\ TagsKept /\ [Next]_vars => TagsKept'
<1> SUFFICES ASSUME TypeOK, ChannelsStay, TagsKept, [Next]_vars PROVE TagsKept'
  OBVIOUS
<1>1. ASSUME NEW i \in Instance, NEW m \in Msg, NEW d \in Delivery, Receive(i, m, d)
      PROVE  TagsKept'
  BY <1>1 DEF TypeOK, Receive, Goto, TagsKept
<1>2. ASSUME NEW d \in Delivery, HandlerGoesOn(d) PROVE TagsKept'
  BY <1>2 DEF TypeOK, HandlerGoesOn, TagsKept
<1>3. ASSUME NEW d \in Delivery, HandlerEnds(d) PROVE TagsKept'
  BY <1>3 DEF TypeOK, HandlerEnds, Return, Goto, TagsKept
<1>4. ASSUME NEW i \in Instance, Crash(i) PROVE TagsKept'
  BY <1>4 DEF TypeOK, Crash, RequeueAll, Release, TagsOf, TagsKept
<1>5. ASSUME NEW i \in Instance, ConnectionLost(i) PROVE FALSE
  BY <1>5 DEF ConnectionLost, Fault, ChannelsStay
<1>6. CASE \/ \E id \in marked : Expire(id)
           \/ \E m \in Msg : QueueTTL(m)
           \/ UNCHANGED vars
  BY <1>6 DEF Expire, QueueTTL, vars, brokerVars, TagsKept
<1> QED
  BY HandlerSteps, <1>1, <1>2, <1>3, <1>4, <1>5, <1>6 DEF Next, Idle

LEMMA TagsKeptHolds == Spec => [](ChannelsStay => TagsKept)
<1>1. Init => TagsKept
  BY DEF Init, TagsKept
<1>2. [Next]_vars => (ChannelsStay <=> ChannelsStay')
  BY Fixed DEF ChannelsStay
<1> QED
  BY <1>1, <1>2, TagsKeptStep, TypeInvariant, PTL DEF Spec

-----------------------------------------------------------------------------
(* At most one mail for a request. *)

Sound == env.faults \cap {"redis", "expiry"} = {}

\* A handler that found its request new and has not sent its mail yet.
OnItsWay == {"set", "count", "template", "send"}

\* A mail that went out left its mark, and a handler past SETEX has left it.
\* For a request that did not race, one handler at most is on its way to
\* SMTP, and then no mail went out before.
MarksLeft ==
    /\ \A m \in Msg : accepted[m] > 0 => IdOf(m) \in marked
    /\ \A d \in Delivery :
          pc[d] \in {"count", "template", "send"} => IdOf(msg[d]) \in marked

FirstOf(d) ==
    /\ \A m \in Msg : IdOf(m) = IdOf(msg[d]) => accepted[m] = 0
    /\ \A e \in Delivery :
          pc[e] \in OnItsWay /\ IdOf(msg[e]) = IdOf(msg[d]) => e = d

FirstInLine ==
    \A d \in Delivery : pc[d] \in OnItsWay /\ IdOf(msg[d]) \notin raced => FirstOf(d)

OneMailEach == \A id \in (Id \cup {None}) \ raced : OneMailFor(id)

MarkGuards == MarksLeft /\ FirstInLine /\ OneMailEach

\* A step that sends nothing, forgets nothing, and brings no handler to a
\* place MarkGuards speaks of.
Harmless ==
    /\ UNCHANGED <<content, accepted>>
    /\ marked \subseteq marked' /\ raced \subseteq raced'
    /\ \A d \in Delivery : pc'[d] \in OnItsWay => pc'[d] = pc[d] /\ msg'[d] = msg[d]

LEMMA HarmlessKeeps == ASSUME MarkGuards, Harmless PROVE MarkGuards'
<1>1. \A m : IdOf(m)' = IdOf(m)
  BY DEF Harmless, IdOf
<1>2. MarksLeft'
  BY <1>1 DEF MarkGuards, MarksLeft, Harmless, OnItsWay
<1>3. FirstInLine'
  BY <1>1 DEF MarkGuards, FirstInLine, FirstOf, Harmless
<1>4. OneMailEach'
  BY <1>1 DEF MarkGuards, OneMailEach, OneMailFor, Harmless
<1> QED
  BY <1>2, <1>3, <1>4 DEF MarkGuards

LEMMA SoundFaults == ASSUME Sound PROVE ~Fault("redis") /\ ~Fault("expiry")
BY DEF Sound, Fault

\* A handler on its way goes on, or leaves the way without a mail.
LEMMA MarkGuardsMove ==
    ASSUME TypeOK, MarkGuards, NEW d \in Delivery, NEW from, NEW to, Step(d, from, to),
           UNCHANGED <<accepted, raced>>, marked \subseteq marked',
           to \in OnItsWay => from \in OnItsWay,
           to \in {"count", "template", "send"} => IdOf(msg[d]) \in marked'
    PROVE  MarkGuards'
<1>1. /\ pc[d] = from /\ pc' = [pc EXCEPT ![d] = to]
      /\ UNCHANGED <<content, msg, accepted, raced>>
  BY DEF Step, Goto
<1>2. \A e \in Delivery : pc'[e] = IF e = d THEN to ELSE pc[e]
  BY <1>1 DEF TypeOK
<1>3. \A m : IdOf(m)' = IdOf(m)
  BY <1>1 DEF IdOf
<1>4. MarksLeft'
  BY <1>1, <1>2, <1>3 DEF MarkGuards, MarksLeft
<1>5. FirstInLine'
  BY <1>1, <1>2, <1>3 DEF MarkGuards, FirstInLine, FirstOf
<1>6. OneMailEach'
  BY <1>1, <1>3 DEF MarkGuards, OneMailEach, OneMailFor
<1> QED
  BY <1>4, <1>5, <1>6 DEF MarkGuards

\* EXISTS found no mark: nobody is past SETEX and no mail went out.  Another
\* handler before its SETEX makes this a race.
LEMMA MarkGuardsCheck ==
    ASSUME TypeOK, MarkGuards, NEW d \in Delivery, CheckNew(d)
    PROVE  MarkGuards'
<1>1. /\ pc[d] = "exists" /\ pc' = [pc EXCEPT ![d] = "set"]
      /\ IdOf(msg[d]) \notin marked
      /\ UNCHANGED <<content, msg, accepted, marked>>
      /\ raced \subseteq raced'
  BY DEF CheckNew, Step, Goto
<1>2. \A e \in Delivery : pc'[e] = IF e = d THEN "set" ELSE pc[e]
  BY <1>1 DEF TypeOK
<1>3. \A m : IdOf(m)' = IdOf(m)
  BY <1>1 DEF IdOf
<1>4. \A m \in Msg : IdOf(m) = IdOf(msg[d]) => accepted[m] = 0
  BY <1>1 DEF MarkGuards, MarksLeft, TypeOK
<1>5. ASSUME NEW e \in Delivery, pc[e] \in OnItsWay, IdOf(msg[e]) = IdOf(msg[d])
      PROVE  IdOf(msg[d]) \in raced'
  <2>1. pc[e] = "set"
    BY <1>1, <1>5 DEF MarkGuards, MarksLeft, OnItsWay
  <2> QED
    BY <1>5, <2>1 DEF CheckNew
<1>6. MarksLeft'
  BY <1>1, <1>2, <1>3 DEF MarkGuards, MarksLeft
<1>7. FirstInLine'
  <2> SUFFICES ASSUME NEW x \in Delivery, pc'[x] \in OnItsWay, IdOf(msg[x]) \notin raced'
               PROVE  FirstOf(x)'
    BY <1>1, <1>3 DEF FirstInLine
  <2>1. CASE x = d
    BY <1>1, <1>2, <1>3, <1>4, <1>5, <2>1 DEF FirstOf
  <2>2. CASE x # d
    <3>1. FirstOf(x) /\ IdOf(msg[x]) # IdOf(msg[d])
      BY <1>1, <1>2, <1>5, <2>2 DEF MarkGuards, FirstInLine
    <3> QED
      BY <1>1, <1>2, <1>3, <2>2, <3>1 DEF FirstOf
  <2> QED
    BY <2>1, <2>2
<1>8. OneMailEach'
  BY <1>1, <1>3 DEF MarkGuards, OneMailEach, OneMailFor
<1> QED
  BY <1>6, <1>7, <1>8 DEF MarkGuards

\* The first handler of its request sends the one mail.
LEMMA MarkGuardsSend ==
    ASSUME TypeOK, MarkGuards, NEW d \in Delivery, SmtpAccepts(d)
    PROVE  MarkGuards'
<1>1. /\ pc[d] = "send" /\ pc' = [pc EXCEPT ![d] = "accepted"]
      /\ UNCHANGED <<content, msg, marked, raced>>
      /\ accepted' = [accepted EXCEPT ![msg[d]] = @ + 1]
  BY DEF SmtpAccepts, Step, Goto
<1>2. msg[d] \in Msg /\ IdOf(msg[d]) \in marked
  BY <1>1, HandlerOf DEF MarkGuards, MarksLeft
<1>3. /\ accepted'[msg[d]] = accepted[msg[d]] + 1
      /\ \A m \in Msg : m # msg[d] => accepted'[m] = accepted[m]
      /\ \A m \in Msg : accepted[m] \in Nat
  BY <1>1, <1>2 DEF TypeOK
<1>4. \A m : IdOf(m)' = IdOf(m)
  BY <1>1 DEF IdOf
<1>5. \A e \in Delivery : pc'[e] = IF e = d THEN "accepted" ELSE pc[e]
  BY <1>1 DEF TypeOK
<1>6. IdOf(msg[d]) \notin raced => FirstOf(d)
  BY <1>1 DEF MarkGuards, FirstInLine, OnItsWay
<1>7. MarksLeft'
  <2>1. (\A m \in Msg : accepted[m] > 0 => IdOf(m) \in marked)'
    BY <1>1, <1>2, <1>3, <1>4 DEF MarkGuards, MarksLeft
  <2>2. (\A e \in Delivery :
            pc[e] \in {"count", "template", "send"} => IdOf(msg[e]) \in marked)'
    BY <1>1, <1>4, <1>5 DEF MarkGuards, MarksLeft
  <2> QED
    BY <2>1, <2>2 DEF MarksLeft
<1>8. FirstInLine'
  <2> SUFFICES ASSUME NEW x \in Delivery, pc'[x] \in OnItsWay, IdOf(msg[x]) \notin raced
               PROVE  FirstOf(x)'
    BY <1>1, <1>4 DEF FirstInLine
  <2>1. x # d /\ pc[x] \in OnItsWay /\ FirstOf(x)
    BY <1>1, <1>5 DEF OnItsWay, MarkGuards, FirstInLine
  <2>2. IdOf(msg[x]) # IdOf(msg[d])
    BY <1>1, <2>1 DEF FirstOf, OnItsWay
  <2> QED
    BY <1>1, <1>3, <1>4, <1>5, <2>1, <2>2 DEF FirstOf, OnItsWay
<1>9. OneMailEach'
  <2> SUFFICES ASSUME NEW id \in (Id \cup {None}) \ raced PROVE OneMailFor(id)'
    BY <1>1 DEF OneMailEach
  <2>1. CASE id = IdOf(msg[d])
    <3>1. \A m \in Msg : IdOf(m) = id => accepted[m] = 0
      BY <1>6, <2>1 DEF FirstOf
    <3>2. \A m \in Msg : IdOf(m) = id => accepted'[m] = IF m = msg[d] THEN 1 ELSE 0
      BY <1>2, <1>3, <3>1
    <3> QED
      BY <1>4, <3>2 DEF OneMailFor
  <2>2. CASE id # IdOf(msg[d])
    BY <1>3, <1>4, <2>2 DEF MarkGuards, OneMailEach, OneMailFor
  <2> QED
    BY <2>1, <2>2
<1> QED
  BY <1>7, <1>8, <1>9 DEF MarkGuards

LEMMA MarkGuardsStep == TypeOK /\ Sound /\ MarkGuards /\ [Next]_vars => MarkGuards'
<1> SUFFICES ASSUME TypeOK, Sound, MarkGuards, [Next]_vars PROVE MarkGuards'
  OBVIOUS
<1> USE DEF OnItsWay
<1>1. ASSUME NEW i \in Instance, NEW m \in Msg, NEW d \in Delivery, Receive(i, m, d)
      PROVE  Harmless
  BY <1>1 DEF TypeOK, Receive, Goto, Dispatch, Harmless
<1>2. ASSUME NEW d \in Delivery, NoHandler(d) \/ AckDuplicate(d) \/ Ack(d) \/ Nack(d)
      PROVE  Harmless
  BY <1>2 DEF TypeOK, NoHandler, AckDuplicate, Ack, Nack, Return, Goto, Harmless
<1>3. ASSUME NEW d \in Delivery, HttpHangs(d) PROVE Harmless
  BY <1>3 DEF TypeOK, HttpHangs, Return, Goto, Harmless
<1>4. ASSUME NEW d \in Delivery, MarkProcessed(d) PROVE MarkGuards'
  BY <1>4, MarkGuardsMove DEF MarkProcessed
<1>5. ASSUME NEW d \in Delivery, CountProcessed(d) \/ Template(d) \/ SmtpRefuses(d)
             \/ SendSucceeded(d) \/ CountFailed(d) \/ SmtpReplyLost(d)
      PROVE  MarkGuards'
  BY <1>5, MarkGuardsMove DEF CountProcessed, Template, SmtpRefuses, SendSucceeded,
     CountFailed, SmtpReplyLost, Step, MarkGuards, MarksLeft
<1>7. ASSUME NEW d \in Delivery, CheckFailed(d) \/ MarkFailed(d) PROVE FALSE
  BY <1>7, SoundFaults DEF CheckFailed, MarkFailed
<1>8. ASSUME NEW id \in marked, Expire(id) PROVE FALSE
  BY <1>8, SoundFaults DEF Expire
<1>9. ASSUME NEW m \in Msg, QueueTTL(m) PROVE Harmless
  BY <1>9 DEF QueueTTL, Harmless
<1>10. ASSUME NEW i \in Instance, ConnectionLost(i) \/ Crash(i) PROVE Harmless
  BY <1>10 DEF TypeOK, ConnectionLost, Crash, Release, Harmless
<1>11. CASE UNCHANGED vars
  BY <1>11, HarmlessKeeps DEF vars, Harmless
<1> QED
  BY HarmlessKeeps, MarkGuardsCheck, MarkGuardsSend,
     <1>1, <1>2, <1>3, <1>4, <1>5, <1>7, <1>8, <1>9, <1>10, <1>11
     DEF Next, Idle, Progress, CallFails

\* A request results in at most one mail, for any number of its messages and
\* of processes that crash, lose their channels and get messages again,
\* unless two handlers raced between EXISTS and SETEX.
THEOREM OneMail == Spec => []AtMostOneMail
<1>1. Init => MarkGuards
  BY DEF Init, MarkGuards, MarksLeft, FirstInLine, OneMailEach, OneMailFor, OnItsWay
<1>2. [Next]_vars => (Sound <=> Sound')
  BY Fixed DEF Sound
<1>3. Spec => [](Sound => MarkGuards)
  BY <1>1, <1>2, MarkGuardsStep, TypeInvariant, PTL DEF Spec
<1>4. (Sound => MarkGuards) => AtMostOneMail
  BY DEF Sound, MarkGuards, OneMailEach, AtMostOneMail
<1> QED
  BY <1>3, <1>4, PTL

-----------------------------------------------------------------------------
(* The counters. *)

Counted == env.faults \subseteq {"smtp", "expiry", "ttl"}

\* Handlers that were counted as processed and not yet as anything else.
Pending == {d \in Delivery : pc[d] \in {"template", "send", "accepted", "failed"}}

Balance == metric.processed = metric.delivered + metric.failed + Cardinality(Pending)

LEMMA CountedFaults ==
    ASSUME Counted
    PROVE  /\ ~Fault("redis") /\ ~Fault("broker") /\ ~Fault("process") /\ ~Fault("http")
           /\ ChannelsStay
BY DEF Counted, Fault, ChannelsStay

LEMMA PendingFinite ==
    ASSUME TypeOK, FiniteTags, TagsKept
    PROVE  IsFiniteSet(Pending) /\ Cardinality(Pending) \in Nat
<1>1. Pending \subseteq unacked
  BY DEF Pending, TagsKept
<1> QED
  BY <1>1, FS_Subset, FS_CardinalityType DEF FiniteTags

\* A step that counts nothing keeps the handlers that wait to be counted.
LEMMA BalanceKept ==
    ASSUME Balance, UNCHANGED metric,
           \A d \in Delivery : pc'[d] \in {"template", "send", "accepted", "failed"}
                           <=> pc[d] \in {"template", "send", "accepted", "failed"}
    PROVE  Balance'
<1>1. Pending' = Pending
  BY DEF Pending
<1> QED
  BY <1>1 DEF Balance

\* An increment of the counter with the given name, which succeeds.
LEMMA Incremented ==
    ASSUME TypeOK, Counted, NEW name \in {"processed", "delivered", "failed"},
           Increment(name)
    PROVE  /\ metric'[name] = metric[name] + 1
           /\ \A other \in {"processed", "delivered", "failed"} \ {name} :
                 metric'[other] = metric[other]
BY CountedFaults DEF TypeOK, Increment, Count, CountLost

LEMMA BalanceStep ==
    TypeOK /\ Counted /\ FiniteTags /\ TagsKept /\ Balance /\ [Next]_vars => Balance'
<1> SUFFICES ASSUME TypeOK, Counted, FiniteTags, TagsKept, Balance, [Next]_vars
             PROVE  Balance'
  OBVIOUS
<1> DEFINE Waits == {"template", "send", "accepted", "failed"}
<1>1. ASSUME NEW i \in Instance, NEW m \in Msg, NEW d \in Delivery, Receive(i, m, d)
      PROVE  Balance'
  <2>1. \A e \in Delivery : pc'[e] \in Waits <=> pc[e] \in Waits
    BY <1>1 DEF TypeOK, Receive, Goto, Dispatch
  <2> QED
    BY <1>1, <2>1, BalanceKept DEF Receive
<1>2. ASSUME NEW d \in Delivery, NoHandler(d) \/ AckDuplicate(d) \/ Ack(d) \/ Nack(d)
             \/ CheckNew(d) \/ MarkProcessed(d)
      PROVE  Balance'
  <2>1. \A e \in Delivery : pc'[e] \in Waits <=> pc[e] \in Waits
    BY <1>2 DEF TypeOK, TagsKept, NoHandler, AckDuplicate, Ack, Nack, CheckNew,
       MarkProcessed, Return, Step, Goto
  <2> QED
    BY <1>2, <2>1, BalanceKept DEF NoHandler, AckDuplicate, Ack, Nack, CheckNew,
       MarkProcessed
<1>3. ASSUME NEW d \in Delivery, Template(d) \/ SmtpAccepts(d) \/ SmtpRefuses(d)
             \/ SmtpReplyLost(d)
      PROVE  Balance'
  <2>1. \A e \in Delivery : pc'[e] \in Waits <=> pc[e] \in Waits
    BY <1>3 DEF TypeOK, Template, SmtpAccepts, SmtpRefuses, SmtpReplyLost, Step, Goto
  <2> QED
    BY <1>3, <2>1, BalanceKept DEF Template, SmtpAccepts, SmtpRefuses, SmtpReplyLost
\* The message is counted as processed, and its handler is pending.
<1>4. ASSUME NEW d \in Delivery, CountProcessed(d) PROVE Balance'
  <2>1. d \notin Pending /\ Pending' = Pending \cup {d}
    BY <1>4 DEF TypeOK, CountProcessed, Step, Goto, Pending
  <2>2. Cardinality(Pending') = Cardinality(Pending) + 1
    BY <2>1, PendingFinite, FS_AddElement
  <2>3. /\ metric'.processed = metric.processed + 1
        /\ UNCHANGED <<metric.delivered, metric.failed>>
    BY <1>4, Incremented DEF CountProcessed
  <2> QED
    BY <2>2, <2>3, PendingFinite DEF Balance, TypeOK
\* The handler is counted as delivered or failed, and is not pending.
<1>5. ASSUME NEW d \in Delivery, SendSucceeded(d) \/ CountFailed(d) PROVE Balance'
  <2>1. d \in Pending /\ Pending' = Pending \ {d}
    BY <1>5 DEF TypeOK, SendSucceeded, CountFailed, Step, Goto, Pending
  <2>2. Cardinality(Pending') = Cardinality(Pending) - 1
    BY <2>1, PendingFinite, FS_RemoveElement
  <2>3. /\ UNCHANGED metric.processed
        /\ metric'.delivered + metric'.failed = metric.delivered + metric.failed + 1
    BY <1>5, Incremented DEF SendSucceeded, CountFailed, TypeOK
  <2> QED
    BY <2>2, <2>3, PendingFinite DEF Balance, TypeOK
<1>6. ASSUME NEW d \in Delivery, CheckFailed(d) \/ MarkFailed(d) \/ HttpHangs(d) PROVE FALSE
  BY <1>6, CountedFaults DEF CheckFailed, MarkFailed, HttpHangs
<1>7. ASSUME NEW i \in Instance, ConnectionLost(i) \/ Crash(i) PROVE FALSE
  BY <1>7, CountedFaults DEF ConnectionLost, Crash
<1>8. CASE \/ \E id \in marked : Expire(id)
           \/ \E m \in Msg : QueueTTL(m)
           \/ UNCHANGED vars
  BY <1>8, BalanceKept DEF Expire, QueueTTL, vars
<1> QED
  BY <1>1, <1>2, <1>3, <1>4, <1>5, <1>6, <1>7, <1>8 DEF Next, Idle, Progress, CallFails

\* The three counters of Redis agree with each other at every moment, for
\* any number of processes and handlers.
THEOREM CountersAgree == Spec => []MetricsBalance
<1>1. Init => Balance
  <2> SUFFICES ASSUME Init PROVE Balance
    OBVIOUS
  <2>1. Pending = {}
    BY DEF Init, Pending
  <2> QED
    BY <2>1, FS_EmptySet DEF Init, Balance
<1>2. [Next]_vars => (Counted <=> Counted')
  BY Fixed DEF Counted
<1>3. Counted => ChannelsStay
  BY CountedFaults
<1>4. PlaceInv => FiniteTags
  BY DEF PlaceInv
<1>5. Spec => [](Counted => Balance)
  BY <1>1, <1>2, <1>3, <1>4, BalanceStep, TypeInvariant, PlaceInvHolds, TagsKeptHolds,
     PTL DEF Spec
<1>6. (Counted => Balance) => MetricsBalance
  BY DEF Counted, Balance, Pending, MetricsBalance
<1> QED
  BY <1>5, <1>6, PTL

-----------------------------------------------------------------------------
(* The consumer implements QueueConsumer. *)

\* Where the mapping puts a message, read off the broker's sets.
PlacesAre ==
    /\ \A m \in ready : Places(m) = {"waiting"}
    /\ \A d \in unacked : Places(msg[d]) = {inst[d]}
    /\ \A m \in acked \cup deadLettered : Places(m) = {"settled"}

LEMMA PlacesFromInv == TypeOK /\ OnePlace => PlacesAre
<1> SUFFICES ASSUME TypeOK, OnePlace PROVE PlacesAre
  OBVIOUS
<1>1. ASSUME NEW m \in ready PROVE Places(m) = {"waiting"}
  BY <1>1 DEF Places, OnePlace
<1>2. ASSUME NEW d \in unacked PROVE Places(msg[d]) = {inst[d]}
  BY <1>2 DEF Places, OnePlace
<1>3. ASSUME NEW m \in acked \cup deadLettered PROVE Places(m) = {"settled"}
  BY <1>3 DEF Places, OnePlace
<1> QED
  BY <1>1, <1>2, <1>3 DEF PlacesAre

\* A process holds, in the mapping, the messages of its outstanding tags.
LEMMA HeldByTags ==
    ASSUME TypeOK, OnePlace, NEW i \in Instance
    PROVE  Queue!Held(i) = {msg[d] : d \in TagsOf(i)}
<1>1. PlacesAre
  BY PlacesFromInv
<1>2. \A d \in unacked : msg[d] \in Msg
  BY DEF TypeOK
<1>3. ASSUME NEW d \in TagsOf(i) PROVE msg[d] \in Queue!Held(i)
  BY <1>1, <1>2, <1>3 DEF PlacesAre, Queue!Held, TagsOf
<1>4. ASSUME NEW m \in Queue!Held(i) PROVE \E d \in TagsOf(i) : msg[d] = m
  <2>1. Places(m) = {i} /\ m \in Msg
    BY <1>4 DEF Queue!Held
  <2>2. m \notin ready /\ m \notin acked \cup deadLettered
    BY <1>1, <2>1, EmailConstants DEF PlacesAre
  <2>3. PICK d \in unacked : msg[d] = m
    BY <2>1, <2>2 DEF OnePlace
  <2> QED
    BY <1>1, <2>1, <2>3 DEF PlacesAre, TagsOf
<1> QED
  BY <1>3, <1>4

LEMMA PrefetchRespected ==
    ASSUME TypeOK, OnePlace, FiniteTags, NEW i \in Instance,
           Cardinality(TagsOf(i)) < PrefetchCount
    PROVE  Cardinality(Queue!Held(i)) < PrefetchCount
<1> DEFINE f == [d \in TagsOf(i) |-> msg[d]]
<1>1. IsFiniteSet(TagsOf(i))
  BY FS_Subset DEF FiniteTags, TagsOf
<1>2. f \in Surjection(TagsOf(i), Queue!Held(i))
  BY HeldByTags DEF Surjection
<1>3. /\ IsFiniteSet(Queue!Held(i))
      /\ Cardinality(Queue!Held(i)) <= Cardinality(TagsOf(i))
  <2> HIDE DEF f
  <2> QED
    BY <1>1, <1>2, FS_Surjection
<1> QED
  BY <1>1, <1>3, FS_CardinalityType, EmailConstants

\* A delivery is a Take: the process has room for the message.
LEMMA ReceiveTakes ==
    ASSUME TypeOK, PlaceInv, PlacesAre, PlacesAre',
           NEW i \in Instance, NEW m \in Msg, NEW d \in Delivery, Receive(i, m, d)
    PROVE  Queue!Take(i, m)
<1>1. Places(m) = Queue!Waiting
  BY DEF Receive, PlacesAre, Queue!Waiting
<1>2. Cardinality(Queue!Held(i)) < PrefetchCount
  BY PrefetchRespected DEF Receive, PlaceInv
<1>3. Places(m)' = {i}
  BY DEF Receive, PlacesAre, TypeOK
<1>4. ASSUME NEW n \in Msg \ {m} PROVE Places(n)' = Places(n)
  <2>1. d \notin unacked
    BY DEF Receive, TypeOK
  <2>2. {e \in unacked' : msg'[e] = n} = {e \in unacked : msg[e] = n}
    BY <2>1 DEF Receive, TypeOK
  <2>3. \A e \in {x \in unacked : msg[x] = n} : inst'[e] = inst[e]
    BY <2>1 DEF Receive, TypeOK
  <2>4. {n} \cap ready' = {n} \cap ready
    BY DEF Receive
  <2> QED
    BY <2>2, <2>3, <2>4 DEF Receive, Places
<1>5. Queue!Move(m, {i})
  BY <1>3, <1>4 DEF Queue!Move
<1> QED
  BY <1>1, <1>2, <1>5 DEF Queue!Take, Queue!Cardinality, Cardinality

\* A message whose tags, with their process, and whose memberships are the
\* same after a step is where it was.
LEMMA SamePlace ==
    ASSUME NEW n,
           {e \in unacked' : msg'[e] = n} = {e \in unacked : msg[e] = n},
           \A e \in unacked : msg[e] = n => inst'[e] = inst[e],
           n \in ready' <=> n \in ready,
           n \in acked' \cup deadLettered' <=> n \in acked \cup deadLettered
    PROVE  Places(n)' = Places(n)
<1>1. {n} \cap ready' = {n} \cap ready
  OBVIOUS
<1>2. {n} \cap (acked' \cup deadLettered') = {n} \cap (acked \cup deadLettered)
  OBVIOUS
<1> QED
  BY <1>1, <1>2 DEF Places

\* A step the broker does not see.
LEMMA BrokerStutters ==
    ASSUME UNCHANGED <<ready, unacked, acked, deadLettered>>,
           \A e \in unacked : msg'[e] = msg[e] /\ inst'[e] = inst[e]
    PROVE  UNCHANGED [m \in Msg |-> Places(m)]
<1>1. ASSUME NEW m \in Msg PROVE Places(m)' = Places(m)
  BY SamePlace
<1> QED
  BY <1>1

LEMMA HandlerImplements ==
    ASSUME TypeOK, PlaceInv, PlacesAre, PlacesAre',
           NEW d \in Delivery, HandlerGoesOn(d) \/ HandlerEnds(d)
    PROVE  [Queue!Next]_[m \in Msg |-> Places(m)]
<1>1. CASE HandlerGoesOn(d)
  BY <1>1, BrokerStutters DEF HandlerGoesOn
<1>2. CASE d \notin unacked /\ HandlerEnds(d)
  <2>1. unacked' = unacked /\ \A e \in unacked : msg'[e] = msg[e] /\ inst'[e] = inst[e]
    BY <1>2 DEF HandlerEnds, Return, TypeOK
  <2> QED
    BY <1>2, <2>1, BrokerStutters DEF HandlerEnds
<1>3. CASE d \in unacked /\ HandlerEnds(d)
  <2> PICK m \in Msg : m = msg[d]
    BY <1>3 DEF TypeOK
  <2>1. inst[d] \in Instance /\ m \in Queue!Held(inst[d])
    BY <1>3 DEF TypeOK, PlacesAre, Queue!Held
  <2>2. ASSUME NEW n \in Msg \ {m} PROVE Places(n)' = Places(n)
    <3>1. \A e \in unacked \ {d} : msg'[e] = msg[e] /\ inst'[e] = inst[e]
      BY <1>3 DEF HandlerEnds, Return, TypeOK
    <3>2. {e \in unacked' : msg'[e] = n} = {e \in unacked : msg[e] = n}
      BY <1>3, <3>1 DEF HandlerEnds
    <3> QED
      BY <1>3, <3>1, <3>2, SamePlace DEF HandlerEnds
  <2>3. CASE ready' = ready \cup {m}
    <3>1. Places(m)' = Queue!Waiting
      BY <2>3 DEF PlacesAre, Queue!Waiting
    <3>2. Queue!Move(m, Queue!Waiting)
      BY <2>2, <3>1 DEF Queue!Move
    <3> QED
      BY <2>1, <3>2 DEF Queue!Next, Queue!GiveBack
  <2>4. CASE acked' = acked \cup {m} \/ deadLettered' = deadLettered \cup {m}
    <3>1. Places(m)' = Queue!Settled
      BY <2>4 DEF PlacesAre, Queue!Settled
    <3>2. Queue!Move(m, Queue!Settled)
      BY <2>2, <3>1 DEF Queue!Move
    <3> QED
      BY <2>1, <3>2 DEF Queue!Next, Queue!Settle
  <2> QED
    BY <1>3, <2>3, <2>4 DEF HandlerEnds
<1> QED
  BY <1>1, <1>2, <1>3

\* What a lost channel does to its messages is LoseAll.
LEMMA RequeueLoses ==
    ASSUME TypeOK, OnePlace, PlacesAre, PlacesAre',
           NEW i \in Instance, RequeueAll(i), NEW gone \in SUBSET Delivery,
           Release(gone), \A d \in gone : inst[d] = i
    PROVE  Queue!LoseAll(i)
<1>1. Queue!Held(i) = {msg[d] : d \in TagsOf(i)}
  BY HeldByTags
<1>2. ASSUME NEW m \in Queue!Held(i) PROVE Places(m)' = Queue!Waiting
  BY <1>1, <1>2 DEF RequeueAll, PlacesAre, Queue!Waiting
<1>3. ASSUME NEW m \in Msg, m \notin Queue!Held(i) PROVE Places(m)' = Places(m)
  <2>1. \A e \in unacked : msg[e] = m => e \notin TagsOf(i)
    BY <1>1, <1>3
  <2>2. \A e \in unacked' : e \in unacked /\ msg'[e] = msg[e]
    BY DEF TypeOK, RequeueAll, Release, TagsOf
  <2>3. \A e \in unacked : msg[e] = m
           => e \in unacked' /\ msg'[e] = msg[e] /\ inst'[e] = inst[e]
    BY <2>1 DEF TypeOK, RequeueAll, Release, TagsOf
  <2>4. {e \in unacked' : msg'[e] = m} = {e \in unacked : msg[e] = m}
    BY <2>2, <2>3
  <2>5. m \in ready' <=> m \in ready
    BY <1>1, <1>3 DEF RequeueAll
  <2> QED
    BY <2>3, <2>4, <2>5, SamePlace DEF RequeueAll
<1> QED
  BY <1>2, <1>3 DEF Queue!LoseAll

\* A message that waits too long is settled by the broker.
LEMMA TtlExpires ==
    ASSUME TypeOK, OnePlace, PlacesAre, PlacesAre', NEW m \in Msg, QueueTTL(m)
    PROVE  Queue!Expire(m)
<1>1. Places(m) = Queue!Waiting
  BY DEF QueueTTL, PlacesAre, Queue!Waiting
<1>2. Places(m)' = Queue!Settled
  BY DEF QueueTTL, PlacesAre, Queue!Settled
<1>3. ASSUME NEW n \in Msg \ {m} PROVE Places(n)' = Places(n)
  BY SamePlace DEF QueueTTL
<1>4. Queue!Move(m, Queue!Settled)
  BY <1>2, <1>3 DEF Queue!Move
<1> QED
  BY <1>1, <1>4 DEF Queue!Expire

LEMMA QueueStep ==
    TypeOK /\ PlaceInv /\ PlacesAre /\ PlacesAre' /\ [Next]_vars
    => [Queue!Next]_[m \in Msg |-> Places(m)]
<1> SUFFICES ASSUME TypeOK, PlaceInv, PlacesAre, PlacesAre', [Next]_vars
             PROVE  [Queue!Next]_[m \in Msg |-> Places(m)]
  OBVIOUS
<1>1. ASSUME NEW i \in Instance, NEW m \in Msg, NEW d \in Delivery, Receive(i, m, d)
      PROVE  Queue!Next
  BY <1>1, ReceiveTakes DEF Queue!Next
<1>2. ASSUME NEW i \in Instance, ConnectionLost(i) \/ Crash(i) PROVE Queue!Next
  <2>1. Queue!LoseAll(i)
    BY <1>2, RequeueLoses DEF ConnectionLost, Crash, PlaceInv
  <2> QED
    BY <2>1 DEF Queue!Next
<1>3. ASSUME NEW m \in Msg, QueueTTL(m) PROVE Queue!Next
  BY <1>3, TtlExpires DEF PlaceInv, Queue!Next
<1>4. ASSUME NEW id \in marked, Expire(id) PROVE UNCHANGED [m \in Msg |-> Places(m)]
  BY <1>4, BrokerStutters DEF Expire, brokerVars
<1>5. CASE UNCHANGED vars
  BY <1>5, BrokerStutters DEF vars, brokerVars
<1> QED
  BY HandlerSteps, HandlerImplements, <1>1, <1>2, <1>3, <1>4, <1>5 DEF Next, Idle

\* Seen from email.queue, any number of email-service processes are
\* consumers of QueueConsumer, whatever the messages say and whatever fails.
THEOREM EmailImplementsQueue == Spec => ImplementsQueue
<1>1. Init => Queue!Init
  <2> SUFFICES ASSUME Init PROVE \A m \in Msg : Places(m) = Queue!Waiting
    BY DEF Queue!Init
  <2> QED
    BY DEF Init, Places, Queue!Waiting
<1>2. PlaceInv => OnePlace
  BY DEF PlaceInv
<1>3. Spec => [](TypeOK /\ PlaceInv /\ PlacesAre)
  BY <1>2, PlaceInvHolds, PlacesFromInv, TypeInvariant, PTL
<1>4. Spec => [][Queue!Next]_[m \in Msg |-> Places(m)]
  BY <1>3, QueueStep, PTL DEF Spec
<1> QED
  BY <1>1, <1>4, PTL DEF Spec, ImplementsQueue, Queue!Spec
=============================================================================
