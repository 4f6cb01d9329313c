---------------------------- MODULE TemplateHealth ----------------------------
(***************************************************************************)
(* GET /health of template-service and the circuit breaker behind it       *)
(* (health.controller.ts, circuit-breaker.service.ts). The breaker of a    *)
(* resource is four Redis keys; the health checks are its only callers.    *)
(* The commands of one Promise.all leave the process back to back and are  *)
(* one step; concurrent requests interleave between such steps. A command  *)
(* that fails does not undo the others of its Promise.all.                 *)
(*                                                                         *)
(* Time goes in ticks of 30 seconds: the timeout of the breaker is one     *)
(* tick, the times to live of its keys are two and three.                  *)
(***************************************************************************)
EXTENDS TemplatePublisher, FiniteSets

CONSTANTS
    Request,            \* slots for concurrent requests (bound)
    FailureThreshold, SuccessThreshold, Timeout,
    Ttl,                \* time to live of the counters
    None                \* a missing key, an answer not given yet

Resource == {"db", "redis"}
FaultKinds == Resource \cup {"broker", "channel"}

\* The faults, the requests that are made, and the resources whose checks
\* are followed; the other checks count as healthy.
Environment == [faults : SUBSET FaultKinds, max : Nat,
                requests : SUBSET Request, resources : SUBSET Resource]

ASSUME HealthConstants ==
    /\ FailureThreshold \in Nat \ {0} /\ SuccessThreshold \in Nat \ {0}
    /\ Timeout \in Nat \ {0} /\ Ttl \in Nat \ {0}
    /\ Environments \subseteq Environment

VARIABLES
    store,      \* per resource: the four keys, each a value and its ttl
    pc,         \* per check: its next step
    count,      \* per check: the new counter value it is about to write
    result,     \* per request and component: "healthy", "degraded", "down"
    answer      \* per request: the overall status, or "error"

healthVars == <<store, pc, count, result, answer>>
vars == <<env, faults, linkVars, healthVars>>

Check == Request \X Resource
Component == Resource \cup {"rabbitmq"}
BreakerKey == {"state", "failures", "successes", "open_time"}

\* Awaits inside the try block of a check, and the awaits that write.
InTry  == {"success", "write_success", "close", "clear"}
Writing == {"half_open", "write_success", "close", "clear", "write_failure",
            "open", "half_open_again"}
PC == {"end", "is_open", "query", "success", "failure"} \cup Writing

Entry(val, ttl) == [val |-> val, ttl |-> ttl]
Missing == Entry(None, 0)

Init ==
    /\ env \in Environments /\ faults = 0
    /\ PublisherInit
    /\ store = [r \in Resource |-> [k \in BreakerKey |-> Missing]]
    /\ pc = [c \in Check |-> "end"]
    /\ count = [c \in Check |-> 0]
    /\ result = [q \in Request |-> [p \in Component |-> None]]
    /\ answer = [q \in Request |-> None]

-----------------------------------------------------------------------------
(* CircuitBreakerService *)

\* getStatus
OrElse(entry, default) == IF entry.val = None THEN default ELSE entry.val
State(r)     == OrElse(store[r].state, "CLOSED")
Failures(r)  == OrElse(store[r].failures, 0)
Successes(r) == OrElse(store[r].successes, 0)
\* nextAttempt is there and has passed.
Due(r) == /\ State(r) = "OPEN" /\ store[r].open_time # Missing
          /\ store[r].open_time.val >= Timeout

\* Mutant: the open state has no time to live.
OpenCircuit_ForEver == [state |-> Entry("OPEN", None),
                        open_time |-> Entry(0, Ttl + Timeout),
                        successes |-> Missing]
OpenCircuit == [state |-> Entry("OPEN", Ttl + Timeout),
                open_time |-> Entry(0, Ttl + Timeout),
                successes |-> Missing]
HalfOpenCircuit == [state |-> Entry("HALF_OPEN", Ttl),
                    failures |-> Missing, successes |-> Missing]
CloseCircuit == [state |-> Entry("CLOSED", Ttl), failures |-> Missing,
                 successes |-> Missing, open_time |-> Missing]

\* The commands a check at a writing step sends.
Commands(c) ==
    CASE pc[c] \in {"half_open", "half_open_again"} -> HalfOpenCircuit
      [] pc[c] = "write_success" -> [successes |-> Entry(count[c], Ttl)]
      [] pc[c] = "close"         -> CloseCircuit
      [] pc[c] = "clear"         -> [failures |-> Missing]
      [] pc[c] = "write_failure" -> [failures |-> Entry(count[c], Ttl)]
      [] pc[c] = "open"          -> OpenCircuit

\* The keys in done are written.
Apply(r, commands, done) ==
    store' = [store EXCEPT ![r] =
                 [k \in BreakerKey |-> IF k \in done THEN commands[k] ELSE @[k]]]

-----------------------------------------------------------------------------
(* HealthController *)

\* determineOverallStatus
Overall(parts) == IF "down" \in parts THEN "down"
                  ELSE IF "degraded" \in parts THEN "degraded" ELSE "healthy"

\* A request arrives; checkRabbitMQ answers at once.
GetHealth(q) ==
    /\ q \in env.requests
    /\ \A r \in Resource : pc[<<q, r>>] = "end"
    /\ pc' = [c \in Check |-> IF c[1] = q /\ c[2] \in env.resources
                              THEN "is_open" ELSE pc[c]]
    /\ result' = [result EXCEPT ![q] = [p \in Component |->
                     CASE p \in env.resources -> None
                       [] p = "rabbitmq" -> IF IsConnected THEN "healthy" ELSE "degraded"
                       [] OTHER -> "healthy"]]
    /\ answer' = [answer EXCEPT ![q] = None]
    /\ UNCHANGED <<env, faults, linkVars, store, count>>

Goto(c, label) == /\ pc' = [pc EXCEPT ![c] = label]
                  /\ UNCHANGED <<result, answer>>

\* A check ends, with its status unless it found the test key gone.
\* Promise.all answers with the first error, or when every check has ended.
End(c, status) ==
    LET q == c[1]
        found == IF status = "healthy" /\ result[q][c[2]] = "degraded"
                 THEN "degraded" ELSE status
    IN  /\ pc' = [pc EXCEPT ![c] = "end"]
        /\ result' = [result EXCEPT ![q][c[2]] = found]
        /\ answer' = [answer EXCEPT ![q] =
               IF @ # None THEN @
               ELSE IF status = "error" THEN "error"
               ELSE IF \E r \in Resource : pc'[<<q, r>>] # "end" THEN None
               ELSE Overall({result'[q][p] : p \in Component})]

At(c, label) == pc[c] = label /\ UNCHANGED <<env, linkVars>>

\* getStatus for the report, then isOpen.
IsOpen(c) ==
    /\ At(c, "is_open")
    /\ \/ State(c[2]) # "OPEN" /\ Goto(c, "query")
       \/ State(c[2]) = "OPEN" /\ Due(c[2]) /\ Goto(c, "half_open")
       \/ State(c[2]) = "OPEN" /\ ~Due(c[2]) /\ End(c, "down")
    /\ UNCHANGED <<faults, store, count>>

\* SELECT 1, or SET and GET of the test key, succeeds.
QuerySucceeds(c) ==
    /\ At(c, "query") /\ Goto(c, "success")
    /\ UNCHANGED <<faults, store, count>>

\* It throws.
QueryFails(c) ==
    /\ At(c, "query") /\ Goto(c, "failure") /\ Fault(c[2])
    /\ UNCHANGED <<store, count>>

RecordSuccess(c) ==
    /\ At(c, "success")
    /\ \/ /\ State(c[2]) = "HALF_OPEN" /\ Goto(c, "write_success")
          /\ count' = [count EXCEPT ![c] = Successes(c[2]) + 1]
       \/ State(c[2]) = "CLOSED" /\ Goto(c, "clear") /\ UNCHANGED count
       \/ State(c[2]) = "OPEN" /\ End(c, "healthy") /\ UNCHANGED count
    /\ UNCHANGED <<faults, store>>

\* Mutant: a failure counts twice.
RecordFailure_Double(c) ==
    /\ At(c, "failure")
    /\ State(c[2]) # "OPEN" /\ Goto(c, "write_failure")
    /\ count' = [count EXCEPT ![c] = Failures(c[2]) + 2]
    /\ UNCHANGED <<faults, store>>

RecordFailure(c) ==
    /\ At(c, "failure")
    /\ \/ /\ State(c[2]) # "OPEN" /\ Goto(c, "write_failure")
          /\ count' = [count EXCEPT ![c] = Failures(c[2]) + 1]
       \/ /\ State(c[2]) = "OPEN" /\ UNCHANGED count
          /\ IF Due(c[2]) THEN Goto(c, "half_open_again") ELSE End(c, "down")
    /\ UNCHANGED <<faults, store>>

\* The commands of the step are done and the check goes on.
Write(c) ==
    /\ pc[c] \in Writing /\ UNCHANGED <<env, faults, linkVars>>
    /\ Apply(c[2], Commands(c), DOMAIN Commands(c))
    /\ count' = [count EXCEPT ![c] = 0]
    /\ CASE pc[c] = "half_open" -> Goto(c, "query")
         [] pc[c] = "write_success" -> IF count[c] >= SuccessThreshold
                                       THEN Goto(c, "close") ELSE End(c, "healthy")
         [] pc[c] = "write_failure" -> IF count[c] >= FailureThreshold
                                       THEN Goto(c, "open") ELSE End(c, "down")
         [] pc[c] \in {"close", "clear"} -> End(c, "healthy")
         [] OTHER -> End(c, "down")

\* Redis fails a step: a write may have taken effect in part. The catch
\* block of a check takes the error for a failure of its resource; outside
\* the try block it ends the request.
RedisFails(c) ==
    /\ pc[c] \notin {"end", "query"} /\ Fault("redis")
    /\ IF pc[c] \in Writing
       THEN \E done \in SUBSET DOMAIN Commands(c) : Apply(c[2], Commands(c), done)
       ELSE UNCHANGED store
    /\ count' = [count EXCEPT ![c] = 0]
    /\ IF pc[c] \in InTry THEN Goto(c, "failure") ELSE End(c, "error")
    /\ UNCHANGED <<env, linkVars>>

\* The test key is gone when it is read back. That is recorded as a success.
TestKeyGone(c) ==
    /\ At(c, "query") /\ c[2] = "redis" /\ Fault("redis")
    /\ pc' = [pc EXCEPT ![c] = "success"]
    /\ result' = [result EXCEPT ![c[1]][c[2]] = "degraded"]
    /\ UNCHANGED <<store, count, answer>>

\* 30 seconds pass. Keys whose time is up go; open_time grows old.
Tick ==
    /\ store' = [r \in Resource |-> [k \in BreakerKey |->
                    LET e == store[r][k]
                    IN  IF e.ttl = None THEN e
                        ELSE IF e.ttl <= 1 THEN Missing
                        ELSE Entry(IF k = "open_time" THEN e.val + 1 ELSE e.val,
                                   e.ttl - 1)]]
    /\ UNCHANGED <<env, faults, linkVars, pc, count, result, answer>>

LinkProgress == LinkStep /\ UNCHANGED <<env, faults, healthVars>>
BrokerBack == BrokerReturns /\ UNCHANGED <<env, faults, healthVars>>

CheckStep(c) == \/ IsOpen(c) \/ QuerySucceeds(c) \/ RecordSuccess(c)
                \/ RecordFailure(c) \/ Write(c)

Next ==
    \/ \E q \in Request : GetHealth(q)
    \/ \E c \in Check : CheckStep(c) \/ QueryFails(c) \/ RedisFails(c) \/ TestKeyGone(c)
    \/ LinkProgress \/ BrokerBack
    \/ ConnectionBreaks /\ UNCHANGED <<env, healthVars>>
    \/ ChannelCloses /\ UNCHANGED <<env, healthVars>>
    \/ Tick

Spec == Init /\ [][Next]_vars

\* Docker polls /health (docker-compose.yml:21); Redis and PostgreSQL answer or
\* fail; timers fire and the broker comes back.
FairSpec ==
    /\ Spec /\ WF_vars(Tick) /\ WF_vars(LinkProgress) /\ WF_vars(BrokerBack)
    /\ \A q \in Request : WF_vars(GetHealth(q))
    /\ \A c \in Check : WF_vars(CheckStep(c))

-----------------------------------------------------------------------------
(* Properties. *)

TypeOK ==
    /\ env \in Environments /\ faults \in Nat
    /\ broker \in {"up", "down"} /\ timers \in Nat
    /\ dial \in {"idle", "connect", "channel", "exchange"}
    /\ {connection, channel} \subseteq {"null", "open", "closed"}
    /\ pc \in [Check -> PC] /\ count \in [Check -> Nat]
    /\ \A r \in Resource : State(r) \in {"CLOSED", "OPEN", "HALF_OPEN"}

\* However concurrent checks interleave between reading a counter and
\* writing it, no failure is counted twice: the breaker of the database
\* opens only when the database has failed FailureThreshold times.
TripsOnRealFailures ==
    env.faults = {"db"} =>
        /\ Failures("db") <= faults
        /\ State("db") = "OPEN" => faults >= FailureThreshold

\* Whatever a finite number of faults leaves behind in Redis (an OPEN state
\* without its open_time, counters of an interrupted probe), health checks
\* end up reporting "healthy" and keep doing so.
HealthRecovers == \A q \in Request : <>[](answer[q] \in {None, "healthy"})
=============================================================================
