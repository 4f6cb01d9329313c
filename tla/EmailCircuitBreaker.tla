-------------------------- MODULE EmailCircuitBreaker --------------------------
(***************************************************************************)
(* The SMTP circuit breaker of email-service (circuit-breaker.service.ts). *)
(* Each process keeps the state and the counts in memory and publishes     *)
(* changes of state in one Redis record; execute() takes over OPEN, and    *)
(* nothing else, from that record. Calls of a process interleave at their  *)
(* awaits: the GET, the wrapped function and the SETEX. The commands of a  *)
(* process are executed in the order in which they were sent.              *)
(*                                                                         *)
(* syncStateFromRedis has no effect: it runs in the constructor, before    *)
(* RedisService.onModuleInit has made the client, and get() turns the      *)
(* error into null. A process therefore starts CLOSED.                     *)
(***************************************************************************)
EXTENDS Naturals, Sequences

CONSTANTS
    Process,            \* email-service processes
    Call,               \* slots for calls of execute() that run at once (bound)
    FailureThreshold, SuccessThreshold,
    Timeout,            \* TIMEOUT, in ticks
    RecordTtl,          \* time to live of the record, in ticks
    Environments,       \* deployments and faults to allow for
    None

FaultKinds == {"smtp", "redis", "process"}

\* Which function is wrapped: the one of EmailService.sendEmail, or one that
\* throws when it fails, as the class expects.
Environment == [faults : SUBSET FaultKinds, max : Nat,
                processes : SUBSET Process, fn : {"sendEmail", "throwing"}]

ASSUME EmailBreakerConstants ==
    /\ FailureThreshold \in Nat \ {0} /\ SuccessThreshold \in Nat \ {0}
    /\ Timeout \in Nat \ {0} /\ RecordTtl \in Nat \ {0} /\ RecordTtl > Timeout
    /\ Environments \subseteq Environment

VARIABLES
    env,            \* the environment (never changes)
    faults,         \* faults so far
    record,         \* circuit_breaker:smtp, [state, failed_at], or None
    ttl,            \* ticks until the record expires
    state, failureCount, successCount,  \* fields, per process
    lastFailure,    \* lastFailureTime, per process: its age, or None
    pc, proc,       \* per call: its await ("free" when it has ended), its process
    out,            \* per call: the record it is about to write
    wire,           \* per process: calls whose Redis command is under way, in order
    refused         \* per process: mails refused since it last sent one (history)

fields == <<state, failureCount, successCount, lastFailure>>
calls  == <<pc, proc, out, wire>>
vars == <<env, faults, record, ttl, fields, calls, refused>>

Older(n) == IF n < Timeout THEN n + 1 ELSE n
PC == {"free", "get", "fn", "set_half_open", "set"}

Fault(kind) == /\ kind \in env.faults
               /\ faults < env.max
               /\ faults' = faults + 1

Init ==
    /\ env \in Environments /\ faults = 0
    /\ record = None /\ ttl = 0
    /\ state = [p \in Process |-> "CLOSED"]
    /\ failureCount = [p \in Process |-> 0]
    /\ successCount = [p \in Process |-> 0]
    /\ lastFailure = [p \in Process |-> None]
    /\ pc = [c \in Call |-> "free"]
    /\ proc = [c \in Call |-> None]
    /\ out = [c \in Call |-> None]
    /\ wire = [p \in Process |-> <<>>]
    /\ refused = [p \in Process |-> 0]

\* The call ends, with a result or an error.
Free(c) == /\ pc' = [pc EXCEPT ![c] = "free"]
           /\ proc' = [proc EXCEPT ![c] = None]
           /\ out' = [out EXCEPT ![c] = None]

\* The command of c is the oldest one of its process; the others of the
\* process come after it.
IsNext(c) == wire[proc[c]] # <<>> /\ Head(wire[proc[c]]) = c
Others(c) == Tail(wire[proc[c]])
Queue(c, queue) == wire' = [wire EXCEPT ![proc[c]] = queue]

\* Mutant: the time of the failure is not part of the record.
UpdateRedisState_NoTime(c, label, s, failedAt, queue) ==
    /\ pc' = [pc EXCEPT ![c] = label]
    /\ out' = [out EXCEPT ![c] = [state |-> s, failed_at |-> None]]
    /\ Queue(c, Append(queue, c)) /\ UNCHANGED proc
\* updateRedisState: the SETEX is sent with the fields as they are now.
UpdateRedisState(c, label, s, failedAt, queue) ==
    /\ pc' = [pc EXCEPT ![c] = label]
    /\ out' = [out EXCEPT ![c] = [state |-> s, failed_at |-> failedAt]]
    /\ Queue(c, Append(queue, c)) /\ UNCHANGED proc

\* sendEmail calls execute().
Execute(c, p) ==
    /\ pc[c] = "free" /\ p \in env.processes
    /\ pc' = [pc EXCEPT ![c] = "get"]
    /\ proc' = [proc EXCEPT ![c] = p]
    /\ wire' = [wire EXCEPT ![p] = Append(@, c)]
    /\ UNCHANGED <<env, faults, record, ttl, fields, out, refused>>

\* Date.now() - lastFailureTime >= TIMEOUT
TimedOut(failedAt) == failedAt # None /\ failedAt >= Timeout

\* The answer to the GET: OPEN is taken over. An open breaker rejects the
\* call, or turns half open when the timeout is over.
Enter(c, found) ==
    LET p      == proc[c]
        shared == found # None /\ found.state = "OPEN"
        open   == shared \/ state[p] = "OPEN"
        failed == IF shared THEN found.failed_at ELSE lastFailure[p]
    IN  /\ pc[c] = "get" /\ IsNext(c)
        /\ lastFailure' = [lastFailure EXCEPT ![p] = failed]
        /\ \/ /\ ~open
              /\ pc' = [pc EXCEPT ![c] = "fn"]
              /\ Queue(c, Others(c))
              /\ UNCHANGED <<state, successCount, proc, out>>
           \/ /\ open /\ TimedOut(failed)
              /\ state' = [state EXCEPT ![p] = "HALF_OPEN"]
              /\ successCount' = [successCount EXCEPT ![p] = 0]
              /\ UpdateRedisState(c, "set_half_open", "HALF_OPEN", failed, Others(c))
           \/ /\ open /\ ~TimedOut(failed)
              /\ state' = [state EXCEPT ![p] = "OPEN"]
              /\ Free(c) /\ Queue(c, Others(c))
              /\ UNCHANGED successCount
        /\ UNCHANGED <<env, record, ttl, failureCount, refused>>

Get(c) == Enter(c, record) /\ UNCHANGED faults

\* RedisService.get turns an error into null.
GetFails(c) == Enter(c, None) /\ Fault("redis")

\* onSuccess
FnReturns(c) ==
    LET p == proc[c]
        n == successCount[p] + 1
    IN  /\ pc[c] = "fn"
        /\ failureCount' = [failureCount EXCEPT ![p] = 0]
        /\ IF state[p] = "HALF_OPEN" /\ n >= SuccessThreshold
           THEN /\ state' = [state EXCEPT ![p] = "CLOSED"]
                /\ successCount' = [successCount EXCEPT ![p] = 0]
                /\ UpdateRedisState(c, "set", "CLOSED", lastFailure[p], wire[p])
           ELSE /\ successCount' = IF state[p] = "HALF_OPEN"
                                   THEN [successCount EXCEPT ![p] = n] ELSE successCount
                /\ Free(c) /\ UNCHANGED <<state, wire>>
        /\ UNCHANGED <<env, record, ttl, lastFailure>>

\* The mail is sent.
Sent(c) ==
    /\ FnReturns(c)
    /\ refused' = [refused EXCEPT ![proc[c]] = 0]
    /\ UNCHANGED faults

\* Mutant: the breaker opens one failure too late.
FnThrows_Late(c) ==
    LET p == proc[c]
        n == failureCount[p] + 1
    IN  /\ pc[c] = "fn"
        /\ failureCount' = [failureCount EXCEPT ![p] = n]
        /\ lastFailure' = [lastFailure EXCEPT ![p] = 0]
        /\ successCount' = [successCount EXCEPT ![p] = 0]
        /\ IF n > FailureThreshold
           THEN /\ state' = [state EXCEPT ![p] = "OPEN"]
                /\ UpdateRedisState(c, "set", "OPEN", 0, wire[p])
           ELSE Free(c) /\ UNCHANGED <<state, wire>>
        /\ UNCHANGED <<env, record, ttl>>

\* onFailure
FnThrows(c) ==
    LET p == proc[c]
        n == failureCount[p] + 1
    IN  /\ pc[c] = "fn"
        /\ failureCount' = [failureCount EXCEPT ![p] = n]
        /\ lastFailure' = [lastFailure EXCEPT ![p] = 0]
        /\ successCount' = [successCount EXCEPT ![p] = 0]
        /\ IF n >= FailureThreshold
           THEN /\ state' = [state EXCEPT ![p] = "OPEN"]
                /\ UpdateRedisState(c, "set", "OPEN", 0, wire[p])
           ELSE Free(c) /\ UNCHANGED <<state, wire>>
        /\ UNCHANGED <<env, record, ttl>>

\* A mail cannot be sent. The function sendEmail wraps catches the error and
\* returns {success: false}, which execute() takes for a success.
SendFails(c) ==
    /\ Fault("smtp")
    /\ refused' = [refused EXCEPT ![proc[c]] = @ + 1]
    /\ IF env.fn = "sendEmail" THEN FnReturns(c) ELSE FnThrows(c)

Proceed(c) ==
    /\ Queue(c, Others(c))
    /\ IF pc[c] = "set_half_open"
       THEN /\ pc' = [pc EXCEPT ![c] = "fn"]
            /\ out' = [out EXCEPT ![c] = None]
            /\ UNCHANGED proc
       ELSE Free(c)

\* setCircuitBreakerState
Set(c) ==
    /\ pc[c] \in {"set_half_open", "set"} /\ IsNext(c)
    /\ record' = out[c] /\ ttl' = RecordTtl
    /\ Proceed(c)
    /\ UNCHANGED <<env, faults, fields, refused>>

\* Its errors are caught.
SetFails(c) ==
    /\ pc[c] \in {"set_half_open", "set"} /\ IsNext(c)
    /\ Fault("redis")
    /\ Proceed(c) /\ UNCHANGED <<record, ttl>>
    /\ UNCHANGED <<env, fields, refused>>

\* A process dies and is started again with its initial fields.
Restart(p) ==
    /\ p \in env.processes /\ Fault("process")
    /\ state' = [state EXCEPT ![p] = "CLOSED"]
    /\ failureCount' = [failureCount EXCEPT ![p] = 0]
    /\ successCount' = [successCount EXCEPT ![p] = 0]
    /\ lastFailure' = [lastFailure EXCEPT ![p] = None]
    /\ pc' = [c \in Call |-> IF proc[c] = p THEN "free" ELSE pc[c]]
    /\ out' = [c \in Call |-> IF proc[c] = p THEN None ELSE out[c]]
    /\ wire' = [wire EXCEPT ![p] = <<>>]
    /\ refused' = [refused EXCEPT ![p] = 0]
    /\ proc' = [c \in Call |-> IF proc[c] = p THEN None ELSE proc[c]]
    /\ UNCHANGED <<env, record, ttl>>

Age(r) == IF r = None \/ r.failed_at = None THEN r
          ELSE [r EXCEPT !.failed_at = Older(@)]

\* Time passes; failure times grow old and the record expires.
Tick ==
    /\ ttl' = IF ttl > 0 THEN ttl - 1 ELSE 0
    /\ record' = IF ttl <= 1 THEN None ELSE Age(record)
    /\ lastFailure' = [p \in Process |-> IF lastFailure[p] = None THEN None
                                         ELSE Older(lastFailure[p])]
    /\ out' = [c \in Call |-> Age(out[c])]
    /\ UNCHANGED <<env, faults, state, failureCount, successCount, pc, proc, wire,
                   refused>>

Answer(c) == Get(c) \/ Sent(c) \/ Set(c)

Next ==
    \/ \E c \in Call, p \in Process : Execute(c, p)
    \/ \E c \in Call : Answer(c) \/ SendFails(c) \/ GetFails(c) \/ SetFails(c)
    \/ \E p \in Process : Restart(p)
    \/ Tick

Spec == Init /\ [][Next]_vars

\* Mails keep coming to every process, calls are answered, time passes.
FairSpec ==
    /\ Spec /\ WF_vars(Tick)
    /\ \A c \in Call : WF_vars(Answer(c))
    /\ \A p \in Process : SF_vars(\E c \in Call : Execute(c, p))

-----------------------------------------------------------------------------
(* Properties. *)

TypeOK ==
    /\ env \in Environments /\ faults \in Nat /\ ttl \in 0..RecordTtl
    /\ state \in [Process -> {"CLOSED", "OPEN", "HALF_OPEN"}]
    /\ failureCount \in [Process -> Nat] /\ successCount \in [Process -> Nat]
    /\ lastFailure \in [Process -> 0..Timeout \cup {None}]
    /\ pc \in [Call -> PC] /\ proc \in [Call -> Process \cup {None}]
    /\ refused \in [Process -> Nat]

\* A process whose mails failed that often in a row has left CLOSED.
OpensOnFailures == \A p \in Process : refused[p] >= FailureThreshold => state[p] # "CLOSED"

\* README.MD, "OPEN: Too many failures (5+), stops sending for 60s". It takes a
\* function that throws: then no process is CLOSED after so many failures in a
\* row, though successes of other calls, probes and the record of another
\* process change the state and the counts meanwhile. sendEmail, the only
\* caller, wraps a function that does not throw, and no failure opens it.
OpensWhenThrown == env.fn = "throwing" => OpensOnFailures

\* When failures, lost commands and restarts have come to an end, every
\* process ends up CLOSED, though each takes over only OPEN from the others.
Recovers == <>[](\A p \in env.processes : state[p] = "CLOSED")
=============================================================================
