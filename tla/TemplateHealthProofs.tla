------------------------- MODULE TemplateHealthProofs -------------------------
(* Safety of TemplateHealth and TemplatePublisher for every number of      *)
(* concurrent requests, every threshold and every number of faults.        *)
EXTENDS TemplateHealth, FiniteSetTheorems, TLAPS

\* A step of the breaker leaves the link to RabbitMQ alone, and the reverse.
HealthStep == \/ \E q \in Request : GetHealth(q)
              \/ \E c \in Check : CheckStep(c) \/ QueryFails(c) \/ RedisFails(c)
                                  \/ TestKeyGone(c)
              \/ Tick

LEMMA HealthLeavesLink == ASSUME HealthStep PROVE UNCHANGED <<env, linkVars>>
BY DEF HealthStep, GetHealth, CheckStep, IsOpen, QuerySucceeds, RecordSuccess,
       RecordFailure, Write, QueryFails, RedisFails, TestKeyGone, Tick, At

-----------------------------------------------------------------------------
(* The connection to RabbitMQ. *)

LinkType ==
    /\ broker \in {"up", "down"} /\ timers \in Nat
    /\ dial \in {"idle", "connect", "channel", "exchange"}
    /\ {connection, channel} \subseteq {"null", "open", "closed"}

LinkInv == LinkType /\ OneAttempt

LEMMA LinkInvStep == LinkInv /\ [Next]_vars => LinkInv'
<1> SUFFICES ASSUME LinkInv, [Next]_vars PROVE LinkInv'
  OBVIOUS
<1> USE DEF LinkInv, LinkType, OneAttempt
<1>1. CASE LinkStep
  BY <1>1 DEF LinkStep, Connected, ConnectFails, ChannelCreated, ExchangeAsserted,
     TimerFires, ScheduleReconnect
<1>2. CASE ConnectionBreaks
  BY <1>2 DEF ConnectionBreaks, ScheduleReconnect
<1>3. CASE ChannelCloses \/ BrokerReturns
  BY <1>3 DEF ChannelCloses, BrokerReturns
<1>4. CASE HealthStep \/ UNCHANGED vars
  BY <1>4, HealthLeavesLink DEF vars, linkVars
<1> QED
  BY <1>1, <1>2, <1>3, <1>4 DEF Next, HealthStep, LinkProgress, BrokerBack

LEMMA LinkInvHolds == Spec => []LinkInv
<1>1. Init => LinkInv
  BY DEF Init, PublisherInit, LinkInv, LinkType, OneAttempt
<1> QED
  BY <1>1, LinkInvStep, PTL DEF Spec

\* However the events of a broken connection fall together, the publisher
\* never makes two attempts to connect at once.
THEOREM OneConnectAtATime == Spec => []OneAttempt
<1>1. LinkInv => OneAttempt
  BY DEF LinkInv
<1> QED
  BY <1>1, LinkInvHolds, PTL

-----------------------------------------------------------------------------
(* The types of the breaker's keys and of the checks. *)

\* What a key may hold.
Value(k) == IF k = "state" THEN {"CLOSED", "OPEN", "HALF_OPEN"} ELSE Nat

StoreType ==
    /\ store = [r \in Resource |-> store[r]]
    /\ \A r \in Resource : \A k \in {"state", "failures", "successes"} :
          store[r][k].val \in Value(k) \cup {None}

HealthType ==
    /\ env \in Environments /\ faults \in Nat
    /\ pc \in [Check -> PC] /\ count \in [Check -> Nat]
    /\ StoreType

LEMMA CountersAreNumbers ==
    ASSUME StoreType, NEW r \in Resource
    PROVE  /\ Failures(r) \in Nat /\ Successes(r) \in Nat
           /\ State(r) \in {"CLOSED", "OPEN", "HALF_OPEN"}
BY DEF StoreType, Failures, Successes, State, OrElse, Value

LEMMA FaultCounts ==
    ASSUME faults \in Nat, NEW kind, Fault(kind) PROVE faults' = faults + 1
BY DEF Fault

\* The commands of a step write values of the right type.
LEMMA CommandsType ==
    ASSUME HealthType, NEW c \in Check, pc[c] \in Writing,
           NEW k \in (DOMAIN Commands(c)) \cap {"state", "failures", "successes"}
    PROVE  Commands(c)[k].val \in Value(k) \cup {None}
<1> USE DEF Writing, Commands, Entry, Missing, Value
<1>1. CASE pc[c] \in {"half_open", "half_open_again"}
  BY <1>1 DEF HalfOpenCircuit
<1>2. CASE pc[c] = "close"
  BY <1>2 DEF CloseCircuit
<1>3. CASE pc[c] = "open"
  BY <1>3 DEF OpenCircuit
<1>4. CASE pc[c] \in {"write_success", "write_failure", "clear"}
  BY <1>4 DEF HealthType
<1> QED
  BY <1>1, <1>2, <1>3, <1>4

LEMMA ApplyType ==
    ASSUME HealthType, NEW c \in Check, pc[c] \in Writing,
           NEW done \in SUBSET DOMAIN Commands(c), Apply(c[2], Commands(c), done)
    PROVE  StoreType'
<1>1. c[2] \in Resource
  BY DEF Check
<1>2. \A k \in BreakerKey : store'[c[2]][k] =
          IF k \in done THEN Commands(c)[k] ELSE store[c[2]][k]
  BY <1>1 DEF Apply, HealthType, StoreType
<1>3. \A r \in Resource \ {c[2]} : store'[r] = store[r]
  BY <1>1 DEF Apply, HealthType, StoreType
<1>4. store' = [r \in Resource |-> store'[r]]
  BY <1>1 DEF Apply, HealthType, StoreType
<1>5. ASSUME NEW r \in Resource, NEW k \in {"state", "failures", "successes"}
      PROVE  store'[r][k].val \in Value(k) \cup {None}
  BY <1>2, <1>3, CommandsType DEF HealthType, StoreType, BreakerKey
<1> QED
  BY <1>4, <1>5 DEF StoreType

\* Time only lets a value go.
LEMMA TickKeepsValues ==
    ASSUME Tick, NEW r \in Resource, NEW k \in {"state", "failures", "successes"}
    PROVE  store'[r][k].val \in {store[r][k].val, None}
BY DEF Tick, BreakerKey, Entry, Missing

LEMMA HealthTypeStep == HealthType /\ [Next]_vars => HealthType'
<1> SUFFICES ASSUME HealthType, [Next]_vars PROVE HealthType'
  OBVIOUS
<1> USE DEF PC, Writing
<1>1. ASSUME NEW q \in Request, GetHealth(q) PROVE HealthType'
  BY <1>1 DEF GetHealth, HealthType, StoreType
<1>2. ASSUME NEW c \in Check, NEW label \in PC, pc' = [pc EXCEPT ![c] = label]
      PROVE  pc' \in [Check -> PC]
  BY <1>2 DEF HealthType
<1>3. ASSUME NEW c \in Check, IsOpen(c) \/ QuerySucceeds(c) PROVE HealthType'
  BY <1>2, <1>3 DEF IsOpen, QuerySucceeds, At, Goto, End, HealthType, StoreType
<1>4. ASSUME NEW c \in Check, RecordSuccess(c) \/ RecordFailure(c) PROVE HealthType'
  <2>1. c[2] \in Resource
    BY DEF Check
  <2>2. count' \in [Check -> Nat]
    BY <1>4, <2>1, CountersAreNumbers DEF RecordSuccess, RecordFailure, HealthType
  <2>3. pc' \in [Check -> PC]
    BY <1>2, <1>4 DEF RecordSuccess, RecordFailure, Goto, End
  <2> QED
    BY <1>4, <2>2, <2>3 DEF RecordSuccess, RecordFailure, At, HealthType, StoreType
<1>5. ASSUME NEW c \in Check, Write(c) PROVE HealthType'
  <2>1. StoreType'
    BY <1>5, ApplyType DEF Write
  <2>2. pc' \in [Check -> PC]
    BY <1>2, <1>5 DEF Write, Goto, End
  <2> QED
    BY <1>5, <2>1, <2>2 DEF Write, HealthType
<1>6. ASSUME NEW c \in Check, RedisFails(c) PROVE HealthType'
  <2>1. StoreType'
    BY <1>6, ApplyType DEF RedisFails, HealthType, StoreType
  <2>2. pc' \in [Check -> PC]
    BY <1>2, <1>6 DEF RedisFails, Goto, End
  <2>3. faults' \in Nat /\ UNCHANGED env
    BY <1>6, FaultCounts DEF RedisFails, HealthType
  <2>4. count' \in [Check -> Nat]
    BY <1>6 DEF RedisFails, HealthType
  <2> QED
    BY <2>1, <2>2, <2>3, <2>4 DEF HealthType
<1>7. ASSUME NEW c \in Check, QueryFails(c) \/ TestKeyGone(c) PROVE HealthType'
  BY <1>2, <1>7, FaultCounts DEF QueryFails, TestKeyGone, At, Goto, HealthType, StoreType
<1>8. CASE Tick
  <2>1. StoreType'
    BY <1>8, TickKeepsValues DEF Tick, HealthType, StoreType
  <2> QED
    BY <1>8, <2>1 DEF Tick, HealthType
<1>9. CASE LinkProgress \/ BrokerBack \/ UNCHANGED vars
  BY <1>9 DEF LinkProgress, BrokerBack, vars, healthVars, HealthType, StoreType
<1>10. CASE (ConnectionBreaks \/ ChannelCloses) /\ UNCHANGED <<env, healthVars>>
  BY <1>10, FaultCounts DEF ConnectionBreaks, ChannelCloses, healthVars, HealthType,
     StoreType
<1> QED
  BY <1>1, <1>3, <1>4, <1>5, <1>6, <1>7, <1>8, <1>9, <1>10 DEF Next, CheckStep

LEMMA HealthTypeHolds == Spec => []HealthType
<1>1. Init => HealthType
  BY HealthConstants DEF Init, HealthType, StoreType, PC, Missing, Entry, BreakerKey
<1> QED
  BY <1>1, HealthTypeStep, PTL DEF Spec

\* No step of a check, of the link or of the clock leaves the types.
THEOREM TypeInvariant == Spec => []TypeOK
<1>1. HealthType /\ LinkInv => TypeOK
  BY CountersAreNumbers DEF HealthType, LinkInv, LinkType, TypeOK
<1> QED
  BY <1>1, HealthTypeHolds, LinkInvHolds, PTL

-----------------------------------------------------------------------------
(* The breaker of the database counts real failures. *)

DbOnly == env.faults = {"db"}

\* Checks of the database that have failed and not yet read the counter.
Unread == {c \in Check : c[2] = "db" /\ pc[c] = "failure"}

\* The counter in Redis, and each one a check is about to write, leaves room
\* for the failures that will still be counted on top of it.
CountInv ==
    /\ IsFiniteSet(Unread)
    /\ Failures("db") + Cardinality(Unread) <= faults
    /\ \A c \in Check : c[2] = "db" /\ pc[c] = "write_failure"
                        => count[c] + Cardinality(Unread) <= faults
    /\ \A c \in Check : c[2] = "db" /\ pc[c] = "open" => faults >= FailureThreshold
    /\ State("db") = "OPEN" => faults >= FailureThreshold

LEMMA DbFaults ==
    ASSUME DbOnly, NEW kind, Fault(kind) PROVE kind = "db"
BY DEF DbOnly, Fault

\* A step that fails nothing, brings no check to the writing of a failure
\* and raises neither counter nor state.
Quiet ==
    /\ UNCHANGED faults
    /\ Failures("db")' \in {Failures("db"), 0}
    /\ State("db")' = "OPEN" => State("db") = "OPEN"
    /\ \A c \in Check :
          c[2] = "db" /\ pc'[c] \in {"failure", "write_failure", "open"}
          => pc'[c] = pc[c] /\ count'[c] = count[c]

LEMMA QuietKeeps ==
    ASSUME HealthType, HealthType', CountInv, Quiet PROVE CountInv'
<1>1. Unread' \in SUBSET Unread
  BY DEF Unread, Quiet
<1>2. /\ IsFiniteSet(Unread') /\ Cardinality(Unread') <= Cardinality(Unread)
      /\ Cardinality(Unread') \in Nat /\ Cardinality(Unread) \in Nat
  BY <1>1, FS_Subset, FS_CardinalityType DEF CountInv
<1>3. Failures("db") \in Nat /\ faults \in Nat
  BY CountersAreNumbers DEF HealthType, Resource
<1>4. (Failures("db") + Cardinality(Unread) <= faults)'
  BY <1>2, <1>3 DEF CountInv, Quiet
<1>5. ASSUME NEW c \in Check, c[2] = "db", pc'[c] = "write_failure"
      PROVE  (count[c] + Cardinality(Unread) <= faults)'
  <2>1. /\ pc[c] = "write_failure" /\ count'[c] = count[c] /\ count[c] \in Nat
        /\ UNCHANGED faults
    BY <1>5 DEF Quiet, HealthType
  <2>2. count[c] + Cardinality(Unread) <= faults
    BY <1>5, <2>1 DEF CountInv
  <2> QED
    BY <1>2, <1>3, <2>1, <2>2
<1> QED
  BY <1>2, <1>4, <1>5 DEF CountInv, Quiet

\* The values the breaker of the database has after a write.
LEMMA WriteDb ==
    ASSUME HealthType, NEW c \in Check, Write(c)
    PROVE  /\ c[2] # "db" => store'["db"] = store["db"]
           /\ c[2] = "db" => \A k \in BreakerKey : store'["db"][k] =
                 IF k \in DOMAIN Commands(c) THEN Commands(c)[k] ELSE store["db"][k]
BY DEF Write, Apply, HealthType, StoreType, Check, Resource

LEMMA CountInvStep ==
    DbOnly /\ HealthType /\ HealthType' /\ CountInv /\ [Next]_vars => CountInv'
<1> SUFFICES ASSUME DbOnly, HealthType, HealthType', CountInv, [Next]_vars
             PROVE  CountInv'
  OBVIOUS
<1>0. /\ Failures("db") \in Nat /\ faults \in Nat /\ Cardinality(Unread) \in Nat
      /\ \A c \in Check : count[c] \in Nat
  BY CountersAreNumbers, FS_CardinalityType DEF HealthType, Resource, CountInv
<1>1. ASSUME UNCHANGED <<store, faults, count>>,
             \A c \in Check : pc'[c] \in {"failure", "write_failure", "open"}
                              => pc'[c] = pc[c]
      PROVE  Quiet
  BY <1>1 DEF Quiet, Failures, State, OrElse
<1>2. ASSUME NEW q \in Request, GetHealth(q) PROVE Quiet
  BY <1>1, <1>2 DEF GetHealth, HealthType
<1>3. ASSUME NEW c \in Check, IsOpen(c) \/ QuerySucceeds(c) PROVE Quiet
  BY <1>1, <1>3 DEF IsOpen, QuerySucceeds, Goto, End, HealthType
<1>4. ASSUME NEW c \in Check, RecordSuccess(c) PROVE Quiet
  <2>1. \A e \in Check : pc'[e] \in {"failure", "write_failure", "open"}
                         => e # c /\ pc'[e] = pc[e]
    BY <1>4 DEF RecordSuccess, Goto, End, HealthType
  <2>2. \A e \in Check \ {c} : count'[e] = count[e]
    BY <1>4 DEF RecordSuccess, HealthType
  <2> QED
    BY <1>4, <2>1, <2>2 DEF RecordSuccess, Quiet, Failures, State, OrElse
\* The failed check reads the counter: what it will write counts itself.
<1>5. ASSUME NEW c \in Check, RecordFailure(c) PROVE CountInv'
  <2>1. CASE c[2] # "db" \/ pc'[c] # "write_failure"
    <3>1. \A e \in Check : e[2] = "db" /\ pc'[e] \in {"failure", "write_failure", "open"}
                           => e # c /\ pc'[e] = pc[e]
      BY <1>5, <2>1 DEF RecordFailure, Goto, End, HealthType
    <3>2. \A e \in Check \ {c} : count'[e] = count[e]
      BY <1>5 DEF RecordFailure, HealthType
    <3>3. Quiet
      BY <1>5, <3>1, <3>2 DEF RecordFailure, Quiet, Failures, State, OrElse
    <3> QED
      BY <3>3, QuietKeeps
  <2>2. CASE c[2] = "db" /\ pc'[c] = "write_failure"
    <3>1. /\ pc[c] = "failure" /\ pc' = [pc EXCEPT ![c] = "write_failure"]
          /\ count' = [count EXCEPT ![c] = Failures("db") + 1]
          /\ UNCHANGED <<store, faults>>
      BY <1>5, <2>2 DEF RecordFailure, At, Goto, End, HealthType
    <3>2. c \in Unread /\ Unread' = Unread \ {c}
      BY <2>2, <3>1 DEF Unread, HealthType
    <3>3. IsFiniteSet(Unread') /\ Cardinality(Unread') = Cardinality(Unread) - 1
      BY <3>2, FS_RemoveElement DEF CountInv
    <3>4. count'[c] = Failures("db") + 1
      BY <3>1 DEF HealthType
    <3>5. \A e \in Check \ {c} : pc'[e] = pc[e] /\ count'[e] = count[e]
      BY <3>1 DEF HealthType
    <3>6. Failures("db")' = Failures("db") /\ State("db")' = State("db")
      BY <3>1 DEF Failures, State, OrElse
    <3>7. \A e \in Check : e[2] = "db" /\ pc'[e] = "write_failure"
                           => count'[e] + Cardinality(Unread') <= faults
      BY <1>0, <3>3, <3>4, <3>5 DEF CountInv
    <3>8. pc'[c] = "write_failure"
      BY <2>2
    <3> QED
      BY <1>0, <3>1, <3>3, <3>5, <3>6, <3>7, <3>8 DEF CountInv
  <2> QED
    BY <2>1, <2>2
<1>6. ASSUME NEW c \in Check, Write(c) PROVE CountInv'
  <2>1. /\ UNCHANGED faults
        /\ \A e \in Check \ {c} : pc'[e] = pc[e] /\ count'[e] = count[e]
        /\ pc'[c] \notin {"failure", "write_failure"}
        /\ pc'[c] = "open" => pc[c] = "write_failure" /\ count[c] >= FailureThreshold
    BY <1>6 DEF Write, Goto, End, HealthType, Writing
  <2>2. Unread' = Unread
    BY <1>6, <2>1 DEF Unread, Write, Writing
  <2>3. (IsFiniteSet(Unread) /\ Cardinality(Unread) \in Nat)'
    BY <1>0, <2>2 DEF CountInv
  <2>4. (\A e \in Check : e[2] = "db" /\ pc[e] = "write_failure"
                          => count[e] + Cardinality(Unread) <= faults)'
    BY <2>1, <2>2 DEF CountInv
  <2>5. (\A e \in Check : e[2] = "db" /\ pc[e] = "open" => faults >= FailureThreshold)'
    <3>1. c[2] = "db" /\ pc'[c] = "open" => faults >= FailureThreshold
      BY <1>0, <2>1, HealthConstants DEF CountInv
    <3> QED
      BY <2>1, <3>1 DEF CountInv
  <2>6. CASE c[2] # "db"
    BY <1>6, <2>1, <2>2, <2>3, <2>4, <2>5, <2>6, WriteDb DEF CountInv, Failures, State, OrElse
  <2>7. CASE c[2] = "db"
    <3>1. \A k \in BreakerKey : store'["db"][k] =
              IF k \in DOMAIN Commands(c) THEN Commands(c)[k] ELSE store["db"][k]
      BY <1>6, <2>7, WriteDb
    <3>2. \/ Failures("db")' = Failures("db") \/ Failures("db")' = 0
          \/ pc[c] = "write_failure" /\ Failures("db")' = count[c]
      BY <1>6, <3>1 DEF Write, Writing, Commands, HalfOpenCircuit, CloseCircuit,
         OpenCircuit, Entry, Missing, BreakerKey, Failures, OrElse
    <3>3. State("db")' = "OPEN" => State("db") = "OPEN" \/ pc[c] = "open"
      BY <1>6, <3>1 DEF Write, Writing, Commands, HalfOpenCircuit, CloseCircuit,
         OpenCircuit, Entry, Missing, BreakerKey, State, OrElse
    <3>4. (Failures("db") + Cardinality(Unread) <= faults)'
      BY <1>0, <2>1, <2>2, <2>7, <3>2 DEF CountInv
    <3>5. (State("db") = "OPEN" => faults >= FailureThreshold)'
      BY <2>1, <2>7, <3>3 DEF CountInv
    <3> QED
      BY <2>3, <2>4, <2>5, <3>4, <3>5 DEF CountInv
  <2> QED
    BY <2>6, <2>7
\* One more failure, and one more check that will count it.
<1>7. ASSUME NEW c \in Check, QueryFails(c) PROVE CountInv'
  <2>1. /\ c[2] = "db" /\ pc[c] = "query" /\ pc' = [pc EXCEPT ![c] = "failure"]
        /\ faults' = faults + 1 /\ UNCHANGED <<store, count>>
    BY <1>0, <1>7, DbFaults, FaultCounts DEF QueryFails, At, Goto
  <2>2. c \notin Unread /\ Unread' = Unread \cup {c}
    BY <2>1 DEF Unread, HealthType
  <2>3. IsFiniteSet(Unread') /\ Cardinality(Unread') = Cardinality(Unread) + 1
    BY <2>2, FS_AddElement DEF CountInv
  <2>4. \A e \in Check : pc'[e] \in {"write_failure", "open"} => pc'[e] = pc[e]
    BY <2>1 DEF HealthType
  <2>5. Failures("db")' = Failures("db") /\ State("db")' = State("db")
    BY <2>1 DEF Failures, State, OrElse
  <2>6. (\A e \in Check : e[2] = "db" /\ pc[e] = "write_failure"
                          => count[e] + Cardinality(Unread) <= faults)'
    BY <1>0, <2>1, <2>3, <2>4 DEF CountInv
  <2> QED
    BY <1>0, <2>1, <2>3, <2>4, <2>5, <2>6, HealthConstants DEF CountInv
<1>8. ASSUME NEW c \in Check, RedisFails(c) \/ TestKeyGone(c) PROVE FALSE
  BY <1>8, DbFaults DEF RedisFails, TestKeyGone
<1>9. CASE Tick
  <2>1. /\ Failures("db")' \in {Failures("db"), 0}
        /\ State("db")' = "OPEN" => State("db") = "OPEN"
    BY <1>9, TickKeepsValues DEF Failures, State, OrElse, Resource
  <2> QED
    BY <1>9, <2>1, QuietKeeps DEF Tick, Quiet
<1>10. CASE LinkProgress \/ BrokerBack \/ UNCHANGED vars
  BY <1>1, <1>10, QuietKeeps DEF LinkProgress, BrokerBack, vars, healthVars
<1>11. CASE ConnectionBreaks \/ ChannelCloses
  BY <1>11, DbFaults DEF ConnectionBreaks, ChannelCloses
<1> QED
  BY QuietKeeps, <1>2, <1>3, <1>4, <1>5, <1>6, <1>7, <1>8, <1>9, <1>10, <1>11
     DEF Next, CheckStep

\* Any number of concurrent checks may read and write the counter in two
\* commands: none of them makes the breaker open on fewer real failures
\* than its threshold.
THEOREM BreakerCountsRealFailures == Spec => []TripsOnRealFailures
<1>1. Init => CountInv
  <2> SUFFICES ASSUME Init PROVE CountInv
    OBVIOUS
  <2>1. Unread = {}
    BY DEF Init, Unread
  <2> QED
    BY <2>1, FS_EmptySet DEF Init, CountInv, Failures, State, OrElse, Missing, Entry,
       Resource, BreakerKey
<1>2. [Next]_vars => (DbOnly <=> DbOnly')
  BY HealthLeavesLink DEF Next, HealthStep, LinkProgress, BrokerBack, vars, DbOnly
<1>3. Spec => [](DbOnly => CountInv)
  BY <1>1, <1>2, CountInvStep, HealthTypeHolds, PTL DEF Spec
<1>4. HealthType /\ (DbOnly => CountInv) => TripsOnRealFailures
  <2> SUFFICES ASSUME HealthType, CountInv, DbOnly
               PROVE  /\ Failures("db") <= faults
                      /\ State("db") = "OPEN" => faults >= FailureThreshold
    BY DEF TripsOnRealFailures, DbOnly
  <2>1. Failures("db") \in Nat /\ Cardinality(Unread) \in Nat /\ faults \in Nat
    BY CountersAreNumbers, FS_CardinalityType DEF HealthType, Resource, CountInv
  <2> QED
    BY <2>1 DEF CountInv
<1> QED
  BY <1>3, <1>4, HealthTypeHolds, PTL
=============================================================================
