-------------------------- MODULE PushCircuitBreaker --------------------------
(***************************************************************************)
(* The circuit breaker of push-service (clients/circuit_breaker.rs). Its   *)
(* state lives in Redis and is shared by all processes; every Redis        *)
(* command is a step of its own, so calls of several processes interleave  *)
(* between commands. A process makes one call at a time: the client that   *)
(* owns the breaker is behind a mutex.                                     *)
(*                                                                         *)
(* Time is relative: openedAt is kept as the age of the timestamp, in the  *)
(* frame of a reference clock from which each caller's clock may differ    *)
(* by a skew, and ages stop growing once they cannot change a comparison.    *)
(***************************************************************************)
EXTENDS Integers

CONSTANTS
    Caller,             \* push-service processes
    FailureThreshold, SuccessThreshold, TimeoutSeconds,
    MaxSkew,            \* how far clocks may differ (bound)
    MaxCount,           \* counters saturate here
    Environments,       \* deployments and faults to allow for
    None

\* The processes that are deployed, how far each one's clock is ahead, and
\* whether Redis errors and crashes may end a call anywhere.
Environment == [callers : SUBSET Caller, skew : [Caller -> 0..MaxSkew],
                aborts : BOOLEAN]

ASSUME BreakerConstants ==
    /\ FailureThreshold \in Nat \ {0}
    /\ SuccessThreshold \in Nat \ {0}
    /\ TimeoutSeconds \in Nat \ {0}
    /\ MaxSkew \in Nat
    /\ MaxCount \in Nat
    /\ MaxCount >= FailureThreshold /\ MaxCount >= SuccessThreshold
    /\ Environments \subseteq Environment
    /\ None \notin Int

VARIABLES
    env,        \* the environment (never changes)
    state,      \* circuit:<name>:state; a missing key reads as closed
    failures,   \* circuit:<name>:failures; 0 is a missing key
    failTTL,    \* seconds until the failure counter expires, or None
    successes,  \* circuit:<name>:successes; 0 is a missing key
    openedAt,   \* age of circuit:<name>:opened_at, or None
    pc,         \* per caller: the next Redis command, or the operation
    count,      \* per caller: what its INCR of failures returned, while in use
    failRun,    \* history: operations that failed since the last success
    openFor     \* history: seconds since state was last set to open

redisVars   == <<state, failures, failTTL, successes, openedAt>>
historyVars == <<failRun, openFor>>
vars == <<env, redisVars, pc, count, historyVars>>

PC == {"idle", "check_reset", "set_half_open", "operation",
       "success_state", "incr_successes", "set_closed",
       "del_failures", "del_successes", "del_opened_at", "reset_failures",
       "failure_state", "incr_failures", "expire_failures",
       "set_open", "set_opened_at"}

AgeCap == TimeoutSeconds + MaxSkew
Up(n, cap) == IF n < cap THEN n + 1 ELSE n

Init ==
    /\ env \in Environments
    /\ state = "closed"
    /\ failures = 0 /\ failTTL = None /\ successes = 0 /\ openedAt = None
    /\ pc = [c \in Caller |-> "idle"]
    /\ count = [c \in Caller |-> 0]
    /\ failRun = 0 /\ openFor = 0

At(c, from, to) == pc[c] = from /\ pc' = [pc EXCEPT ![c] = to]

-----------------------------------------------------------------------------
(* call() *)

\* get_state
Call(c) ==
    /\ At(c, "idle", IF state = "open" THEN "check_reset" ELSE "operation")
    /\ UNCHANGED <<env, redisVars, count, historyVars>>

\* Mutant: the comparison is off by one second.
ShouldReset_OneEarly(c) ==
    openedAt # None /\ openedAt + env.skew[c] >= TimeoutSeconds - 1
\* should_attempt_reset. The subtraction is on u64: with a timestamp from
\* the future it wraps to a huge value, which passes the test as well.
ShouldReset(c) ==
    /\ openedAt # None
    /\ LET elapsed == openedAt + env.skew[c]
       IN  elapsed < 0 \/ elapsed >= TimeoutSeconds

CheckReset(c) ==
    /\ At(c, "check_reset", IF ShouldReset(c) THEN "set_half_open" ELSE "idle")
    /\ UNCHANGED <<env, redisVars, count, historyVars>>

SetHalfOpen(c) ==
    /\ At(c, "set_half_open", "operation")
    /\ state' = "half_open"
    /\ UNCHANGED <<env, failures, failTTL, successes, openedAt, count, historyVars>>

\* try_operation: the protected call ends.
OperationSucceeds(c) ==
    /\ At(c, "operation", "success_state")
    /\ failRun' = 0
    /\ UNCHANGED <<env, redisVars, count, openFor>>

OperationFails(c) ==
    /\ At(c, "operation", "failure_state")
    /\ failRun' = Up(failRun, MaxCount)
    /\ UNCHANGED <<env, redisVars, count, openFor>>

-----------------------------------------------------------------------------
(* record_success() *)

\* Mutant: a success in the closed state does not clear the failures.
AfterSuccess_KeepsFailures(s) == IF s = "half_open" THEN "incr_successes" ELSE "idle"

AfterSuccess(s) == CASE s = "half_open" -> "incr_successes"
                     [] s = "closed"    -> "reset_failures"
                     [] OTHER           -> "idle"

SuccessState(c) ==
    /\ At(c, "success_state", AfterSuccess(state))
    /\ UNCHANGED <<env, redisVars, count, historyVars>>

IncrSuccesses(c) ==
    /\ successes' = Up(successes, MaxCount)
    /\ At(c, "incr_successes",
          IF successes' >= SuccessThreshold THEN "set_closed" ELSE "idle")
    /\ UNCHANGED <<env, state, failures, failTTL, openedAt, count, historyVars>>

SetClosed(c) ==
    /\ At(c, "set_closed", "del_failures")
    /\ state' = "closed"
    /\ UNCHANGED <<env, failures, failTTL, successes, openedAt, count, historyVars>>

\* DEL of the failure counter, by reset_counters or reset_failure_count.
DelFailures(c) ==
    /\ \/ At(c, "del_failures", "del_successes")
       \/ At(c, "reset_failures", "idle")
    /\ failures' = 0 /\ failTTL' = None
    /\ UNCHANGED <<env, state, successes, openedAt, count, historyVars>>

DelSuccesses(c) ==
    /\ At(c, "del_successes", "del_opened_at")
    /\ successes' = 0
    /\ UNCHANGED <<env, state, failures, failTTL, openedAt, count, historyVars>>

DelOpenedAt(c) ==
    /\ At(c, "del_opened_at", "idle")
    /\ openedAt' = None
    /\ UNCHANGED <<env, state, failures, failTTL, successes, count, historyVars>>

-----------------------------------------------------------------------------
(* record_failure() *)

FailureState(c) ==
    /\ At(c, "failure_state",
          IF state = "half_open" THEN "set_open" ELSE "incr_failures")
    /\ UNCHANGED <<env, redisVars, count, historyVars>>

\* Mutant: EXPIRE first, which does nothing while the key is missing.
IncrFailures_AfterExpire(c) ==
    /\ failTTL' = IF failures # 0 THEN TimeoutSeconds ELSE failTTL
    /\ failures' = Up(failures, MaxCount)
    /\ At(c, "incr_failures",
          IF failures' >= FailureThreshold THEN "set_open" ELSE "idle")
    /\ UNCHANGED <<env, state, successes, openedAt, count, historyVars>>

IncrFailures(c) ==
    /\ At(c, "incr_failures", "expire_failures")
    /\ failures' = Up(failures, MaxCount)
    /\ count' = [count EXCEPT ![c] = failures']
    /\ UNCHANGED <<env, state, failTTL, successes, openedAt, historyVars>>

\* EXPIRE (nothing happens to a missing key), then the threshold is tested.
ExpireFailures(c) ==
    /\ At(c, "expire_failures",
          IF count[c] >= FailureThreshold THEN "set_open" ELSE "idle")
    /\ failTTL' = IF failures # 0 THEN TimeoutSeconds ELSE failTTL
    /\ count' = [count EXCEPT ![c] = 0]
    /\ UNCHANGED <<env, state, failures, successes, openedAt, historyVars>>

\* Mutant: no timestamp is written when the breaker opens.
SetOpen_NoTimestamp(c) ==
    /\ At(c, "set_open", "idle")
    /\ state' = "open"
    /\ openFor' = 0
    /\ UNCHANGED <<env, failures, failTTL, successes, openedAt, count, failRun>>

SetOpen(c) ==
    /\ At(c, "set_open", "set_opened_at")
    /\ state' = "open"
    /\ openFor' = 0
    /\ UNCHANGED <<env, failures, failTTL, successes, openedAt, count, failRun>>

SetOpenedAt(c) ==
    /\ At(c, "set_opened_at", "idle")
    /\ openedAt' = 0 - env.skew[c]
    /\ UNCHANGED <<env, state, failures, failTTL, successes, count, historyVars>>

-----------------------------------------------------------------------------
(* Environment. *)

\* A Redis error, or the end of the process, cuts a call short.
Abort(c) ==
    /\ env.aborts
    /\ pc[c] # "idle"
    /\ pc' = [pc EXCEPT ![c] = "idle"]
    /\ count' = [count EXCEPT ![c] = 0]
    /\ UNCHANGED <<env, redisVars, historyVars>>

\* One second passes. The failure counter goes when its time to live is up.
Tick ==
    /\ openFor' = Up(openFor, AgeCap)
    /\ openedAt' = IF openedAt = None THEN None ELSE Up(openedAt, AgeCap)
    /\ failTTL' = IF failTTL = None \/ failTTL <= 1 THEN None ELSE failTTL - 1
    /\ failures' = IF failTTL # None /\ failTTL <= 1 THEN 0 ELSE failures
    /\ UNCHANGED <<env, state, successes, pc, count, failRun>>

Command(c) ==
    \/ Call(c) \/ CheckReset(c) \/ SetHalfOpen(c)
    \/ OperationSucceeds(c) \/ OperationFails(c)
    \/ SuccessState(c) \/ IncrSuccesses(c) \/ SetClosed(c)
    \/ DelFailures(c) \/ DelSuccesses(c) \/ DelOpenedAt(c)
    \/ FailureState(c) \/ IncrFailures(c) \/ ExpireFailures(c)
    \/ SetOpen(c) \/ SetOpenedAt(c)

Next == Tick \/ \E c \in env.callers : Command(c) \/ Abort(c)

Spec == Init /\ [][Next]_vars

\* Time passes, and messages keep arriving so that calls keep being made.
FairSpec ==
    Spec /\ WF_vars(Tick) /\ \A c \in Caller : WF_vars(c \in env.callers /\ Command(c))

-----------------------------------------------------------------------------
(* Properties. *)

TypeOK ==
    /\ env \in Environments
    /\ state \in {"closed", "open", "half_open"}
    /\ failures \in 0..MaxCount /\ successes \in 0..MaxCount
    /\ failTTL \in 0..TimeoutSeconds \cup {None}
    /\ openedAt \in (-MaxSkew)..AgeCap \cup {None}
    /\ pc \in [Caller -> PC]
    /\ count \in [Caller -> 0..MaxCount]
    /\ failRun \in 0..MaxCount /\ openFor \in 0..AgeCap

\* One process uses the breaker.
Alone == \A c, d \in env.callers : c = d
\* ... and no call is cut short.
AloneAndWhole == Alone /\ ~env.aborts

\* A failure counter without a time to live belongs to a call that is about
\* to send EXPIRE: however INCR, EXPIRE and DEL of several processes
\* interleave, no old failure counts for ever (if no call is cut short).
FailureCountExpires ==
    ~env.aborts /\ failures > 0 /\ failTTL = None
    => \E c \in Caller : pc[c] = "expire_failures"

\* README.MD:98, CIRCUIT_BREAKER_TIMEOUT_SECONDS is the "Circuit open
\* duration": an open breaker lets no probe through before that. It holds
\* of one process whose calls run to their end, and not of several.
OpenLasts ==
    [][AloneAndWhole /\ state = "open" /\ state' = "half_open"
       => openFor >= TimeoutSeconds]_vars

\* One process: the breaker opens from closed only after FailureThreshold
\* operations in a row failed.
OpensOnConsecutiveFailures ==
    [][AloneAndWhole /\ state = "closed" /\ state' = "open"
       => failRun >= FailureThreshold]_vars

\* One process: an open breaker is probed again in the end.
Recovers == AloneAndWhole /\ state = "open" ~> state = "half_open"

-----------------------------------------------------------------------------
(* What the documentation says, and the code does not do. *)

\* README.MD:98, CIRCUIT_BREAKER_TIMEOUT_SECONDS is the "Circuit open
\* duration": the breaker does not stay open for ever.
OpenEnds == state = "open" ~> state # "open"
=============================================================================
