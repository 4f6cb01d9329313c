---------------------------- MODULE PushBreakerProofs ----------------------------
(***************************************************************************)
(* Safety of PushCircuitBreaker for any number of processes, any clock     *)
(* skew, thresholds and timeout. The failure counter is shared without a   *)
(* lock, so its property is proved of every interleaving; what the breaker *)
(* promises about opening is proved of one process, as the model checker   *)
(* shows that several do break it.                                         *)
(***************************************************************************)
EXTENDS PushCircuitBreaker, TLAPS

LEMMA CallersType ==
    ASSUME TypeOK
    PROVE  env.callers \subseteq Caller /\ env.skew \in [Caller -> 0..MaxSkew]
BY BreakerConstants DEF TypeOK, Environment

LEMMA EnvFixed == ASSUME [Next]_vars PROVE UNCHANGED env
BY DEF Next, Tick, Command, Call, CheckReset, SetHalfOpen, OperationSucceeds, OperationFails,
   SuccessState, IncrSuccesses, SetClosed, DelFailures, DelSuccesses, DelOpenedAt,
   FailureState, IncrFailures, ExpireFailures, SetOpen, SetOpenedAt, Abort, vars

LEMMA UpType ==
    ASSUME NEW cap \in Nat, NEW low \in Int, low <= cap, NEW n \in low..cap
    PROVE  Up(n, cap) \in low..cap /\ n <= Up(n, cap) /\ Up(n, cap) <= n + 1
BY DEF Up

LEMMA TypeInit == Init => TypeOK
BY BreakerConstants DEF Init, TypeOK, PC, AgeCap

LEMMA TypeStep == TypeOK /\ [Next]_vars => TypeOK'
<1> SUFFICES ASSUME TypeOK, [Next]_vars PROVE TypeOK'
  OBVIOUS
<1> USE BreakerConstants DEF TypeOK, historyVars, redisVars
<1>1. ASSUME NEW c \in Caller,
             \/ Call(c) \/ CheckReset(c) \/ SetHalfOpen(c) \/ OperationSucceeds(c)
             \/ SuccessState(c) \/ SetClosed(c) \/ DelFailures(c) \/ DelSuccesses(c)
             \/ DelOpenedAt(c) \/ FailureState(c) \/ Abort(c)
      PROVE  TypeOK'
  BY <1>1 DEF Call, CheckReset, SetHalfOpen, OperationSucceeds, SuccessState, AfterSuccess,
     SetClosed, DelFailures, DelSuccesses, DelOpenedAt, FailureState, Abort, At, PC
<1>2. ASSUME NEW c \in Caller, OperationFails(c) \/ IncrSuccesses(c) \/ IncrFailures(c)
      PROVE  TypeOK'
  BY <1>2 DEF OperationFails, IncrSuccesses, IncrFailures, At, PC, Up
<1>3. ASSUME NEW c \in Caller, ExpireFailures(c) \/ SetOpen(c) PROVE TypeOK'
  BY <1>3 DEF ExpireFailures, SetOpen, At, PC, AgeCap
<1>4. ASSUME NEW c \in Caller, SetOpenedAt(c) PROVE TypeOK'
  BY <1>4, CallersType DEF SetOpenedAt, At, PC, AgeCap
<1>5. CASE Tick
  BY <1>5 DEF Tick, Up, AgeCap
<1>6. CASE UNCHANGED vars
  BY <1>6 DEF vars
<1> QED
  BY <1>1, <1>2, <1>3, <1>4, <1>5, <1>6, CallersType DEF Next, Command

\* However many processes share the keys, the counters and ages stay in their
\* ranges.
THEOREM TypeInvariant == Spec => []TypeOK
BY TypeInit, TypeStep, PTL DEF Spec

-----------------------------------------------------------------------------
(* The failure counter. *)

LEMMA CountExpiresStep ==
    TypeOK /\ FailureCountExpires /\ [Next]_vars => FailureCountExpires'
<1> SUFFICES ASSUME TypeOK, FailureCountExpires, [Next]_vars, ~env.aborts,
                    failures' > 0, failTTL' = None
             PROVE  \E x \in Caller : pc'[x] = "expire_failures"
  BY EnvFixed DEF FailureCountExpires
<1> USE BreakerConstants DEF FailureCountExpires, TypeOK, historyVars, redisVars
<1>1. ASSUME NEW c \in Caller, IncrFailures(c)
      PROVE  \E x \in Caller : pc'[x] = "expire_failures"
  BY <1>1 DEF IncrFailures, At
<1>2. ASSUME NEW c \in Caller, ExpireFailures(c) \/ DelFailures(c) PROVE FALSE
  BY <1>2 DEF ExpireFailures, DelFailures
<1>3. ASSUME NEW c \in Caller,
             \/ Call(c) \/ CheckReset(c) \/ SetHalfOpen(c) \/ OperationSucceeds(c)
             \/ OperationFails(c) \/ SuccessState(c) \/ IncrSuccesses(c) \/ SetClosed(c)
             \/ DelSuccesses(c) \/ DelOpenedAt(c) \/ FailureState(c) \/ SetOpen(c)
             \/ SetOpenedAt(c)
      PROVE  \E x \in Caller : pc'[x] = "expire_failures"
  <2>1. UNCHANGED <<failures, failTTL>>
    BY <1>3 DEF Call, CheckReset, SetHalfOpen, OperationSucceeds, OperationFails,
       SuccessState, IncrSuccesses, SetClosed, DelSuccesses, DelOpenedAt, FailureState,
       SetOpen, SetOpenedAt
  <2>2. pc[c] # "expire_failures" /\ \A x \in Caller \ {c} : pc'[x] = pc[x]
    BY <1>3 DEF Call, CheckReset, SetHalfOpen, OperationSucceeds, OperationFails,
       SuccessState, IncrSuccesses, SetClosed, DelSuccesses, DelOpenedAt, FailureState,
       SetOpen, SetOpenedAt, At
  <2> QED
    BY <2>1, <2>2
<1>4. ASSUME NEW c \in Caller, Abort(c) PROVE FALSE
  BY <1>4 DEF Abort
<1>5. CASE Tick
  BY <1>5 DEF Tick
<1>6. CASE UNCHANGED vars
  BY <1>6 DEF vars
<1> QED
  BY <1>1, <1>2, <1>3, <1>4, <1>5, <1>6, CallersType DEF Next, Command

\* INCR, EXPIRE and DEL of any number of processes interleave as they will: no
\* failure counter is left without a time to live.
THEOREM FailuresExpire == Spec => []FailureCountExpires
<1>1. Init => FailureCountExpires
  BY BreakerConstants DEF Init, FailureCountExpires
<1> QED
  BY <1>1, TypeInvariant, CountExpiresStep, PTL DEF Spec

-----------------------------------------------------------------------------
(* One process. *)

\* What the sole caller knows of the state it read before.
Knows(c) ==
    /\ pc[c] \in {"check_reset", "set_half_open", "set_opened_at"} => state = "open"
    /\ pc[c] \in {"incr_successes", "set_closed"} => state = "half_open"
    /\ pc[c] \in {"reset_failures", "del_failures", "del_successes", "del_opened_at",
                  "incr_failures", "expire_failures"} => state = "closed"
    /\ pc[c] \in {"operation", "success_state", "failure_state", "set_open"}
          => state # "open"

\* The timestamp of an open breaker is its caller's own: it is there unless it
\* is about to be written, and it is not older than the open state, as far as
\* the ages are counted.
Timestamp(c) ==
    /\ openedAt # None => openedAt + env.skew[c] >= 0
    /\ state = "open" /\ pc[c] # "set_opened_at" =>
          /\ openedAt # None
          /\ openFor < TimeoutSeconds => openedAt + env.skew[c] <= openFor
    /\ pc[c] = "set_half_open" => openFor >= TimeoutSeconds

\* In the closed state the counter counts the run of failures, except between
\* a success and the DEL that follows it.
Counts(c) ==
    state = "closed" =>
        /\ pc[c] \notin {"success_state", "reset_failures", "del_failures"}
              => failures <= failRun
        /\ pc[c] \in {"failure_state", "incr_failures"} => Up(failures, MaxCount) <= failRun
        /\ pc[c] = "expire_failures" => count[c] <= failRun
        /\ pc[c] = "set_open" => failRun >= FailureThreshold

SoleInv == \A c \in env.callers : Knows(c) /\ Timestamp(c) /\ Counts(c)

LEMMA SoleCommand ==
    ASSUME TypeOK, NEW c \in Caller, Command(c), UNCHANGED env,
           Knows(c), Timestamp(c), Counts(c)
    PROVE  (Knows(c) /\ Timestamp(c) /\ Counts(c))'
<1>s. env.skew[c] \in Nat
  BY CallersType, BreakerConstants
<1> USE BreakerConstants DEF Knows, Timestamp, Counts, TypeOK, historyVars, redisVars, At
<1>1. CASE Call(c)
  BY <1>1 DEF Call
<1>2. CASE CheckReset(c)
  BY <1>s, <1>2 DEF CheckReset, ShouldReset, AgeCap
<1>3. CASE SetHalfOpen(c) \/ SetClosed(c)
  BY <1>3 DEF SetHalfOpen, SetClosed
<1>4. CASE OperationSucceeds(c) \/ OperationFails(c)
  BY <1>4 DEF OperationSucceeds, OperationFails, Up
<1>5. CASE SuccessState(c) \/ FailureState(c)
  BY <1>5 DEF SuccessState, AfterSuccess, FailureState
<1>6. CASE IncrSuccesses(c) \/ DelFailures(c) \/ DelSuccesses(c) \/ DelOpenedAt(c)
  BY <1>6 DEF IncrSuccesses, DelFailures, DelSuccesses, DelOpenedAt
<1>7. CASE IncrFailures(c)
  BY <1>7 DEF IncrFailures, Up
<1>8. CASE ExpireFailures(c)
  BY <1>8 DEF ExpireFailures
<1>9. CASE SetOpen(c)
  BY <1>9 DEF SetOpen
<1>10. CASE SetOpenedAt(c)
  BY <1>s, <1>10 DEF SetOpenedAt
<1> QED
  BY <1>1, <1>2, <1>3, <1>4, <1>5, <1>6, <1>7, <1>8, <1>9, <1>10 DEF Command

LEMMA SoleTick ==
    ASSUME TypeOK, NEW c \in Caller, Tick, Knows(c), Timestamp(c), Counts(c)
    PROVE  (Knows(c) /\ Timestamp(c) /\ Counts(c))'
<1>s. env.skew[c] \in 0..MaxSkew
  BY CallersType
<1> USE BreakerConstants DEF TypeOK
<1>1. Knows(c)'
  BY DEF Knows, Tick
<1>2. Timestamp(c)'
  BY <1>s DEF Timestamp, Tick, Up, AgeCap
<1>3. Counts(c)'
  BY DEF Counts, Tick, Up
<1> QED
  BY <1>1, <1>2, <1>3

LEMMA SoleStep == TypeOK /\ AloneAndWhole /\ SoleInv /\ [Next]_vars => SoleInv'
<1> SUFFICES ASSUME TypeOK, AloneAndWhole, SoleInv, [Next]_vars PROVE SoleInv'
  OBVIOUS
<1>e. UNCHANGED env /\ env.callers \subseteq Caller
  BY EnvFixed, CallersType
<1>1. ASSUME NEW d \in env.callers, Command(d) PROVE SoleInv'
  <2>1. \A c \in env.callers : c = d
    BY DEF AloneAndWhole, Alone
  <2>2. (Knows(d) /\ Timestamp(d) /\ Counts(d))'
    BY <1>1, <1>e, SoleCommand DEF SoleInv
  <2> QED
    BY <1>e, <2>1, <2>2 DEF SoleInv
<1>2. ASSUME NEW d \in env.callers, Abort(d) PROVE FALSE
  BY <1>2 DEF Abort, AloneAndWhole
<1>3. CASE Tick
  BY <1>3, <1>e, SoleTick DEF SoleInv
<1>4. CASE UNCHANGED vars
  BY <1>4, <1>e DEF vars, redisVars, historyVars, SoleInv, Knows, Timestamp, Counts, Up
<1> QED
  BY <1>1, <1>2, <1>3, <1>4 DEF Next

LEMMA SoleInvHolds == Spec => [](AloneAndWhole => SoleInv)
<1>1. Init => SoleInv
  <2> SUFFICES ASSUME Init, NEW c \in env.callers PROVE Knows(c) /\ Timestamp(c) /\ Counts(c)
    BY DEF SoleInv
  <2>1. c \in Caller
    BY TypeInit, CallersType
  <2> QED
    BY <2>1, BreakerConstants DEF Init, Knows, Timestamp, Counts
<1>2. [Next]_vars => (AloneAndWhole <=> AloneAndWhole')
  BY EnvFixed DEF AloneAndWhole, Alone
<1> QED
  BY <1>1, <1>2, TypeInvariant, SoleStep, PTL DEF Spec

\* README.MD:98: one process whose calls run to their end lets no probe through
\* before the timeout, for every timeout and whatever its clock says.
THEOREM OpenPeriodIsKept == Spec => OpenLasts
<1>1. TypeOK /\ (AloneAndWhole => SoleInv) /\ [Next]_vars
      => [AloneAndWhole /\ state = "open" /\ state' = "half_open"
          => openFor >= TimeoutSeconds]_vars
  <2> SUFFICES ASSUME TypeOK, SoleInv, [Next]_vars, state = "open", state' = "half_open"
               PROVE  openFor >= TimeoutSeconds
    OBVIOUS
  <2>1. PICK c \in env.callers : SetHalfOpen(c)
    BY DEF Next, Tick, Command, Call, CheckReset, OperationSucceeds, OperationFails,
       SuccessState, IncrSuccesses, SetClosed, DelFailures, DelSuccesses, DelOpenedAt,
       FailureState, IncrFailures, ExpireFailures, SetOpen, SetOpenedAt, Abort, vars, redisVars
  <2> QED
    BY <2>1 DEF SetHalfOpen, At, SoleInv, Timestamp
<1> QED
  BY <1>1, TypeInvariant, SoleInvHolds, PTL DEF Spec, OpenLasts

\* One process: a closed breaker opens only after FailureThreshold operations
\* in a row failed, though probes leave counters behind and the counter may
\* expire at any point.
THEOREM OpensRightly == Spec => OpensOnConsecutiveFailures
<1>1. TypeOK /\ (AloneAndWhole => SoleInv) /\ [Next]_vars
      => [AloneAndWhole /\ state = "closed" /\ state' = "open"
          => failRun >= FailureThreshold]_vars
  <2> SUFFICES ASSUME TypeOK, SoleInv, [Next]_vars, state = "closed", state' = "open"
               PROVE  failRun >= FailureThreshold
    OBVIOUS
  <2>1. PICK c \in env.callers : SetOpen(c)
    BY DEF Next, Tick, Command, Call, CheckReset, SetHalfOpen, OperationSucceeds,
       OperationFails, SuccessState, IncrSuccesses, SetClosed, DelFailures, DelSuccesses,
       DelOpenedAt, FailureState, IncrFailures, ExpireFailures, SetOpenedAt, Abort, vars,
       redisVars
  <2> QED
    BY <2>1 DEF SetOpen, At, SoleInv, Counts
<1> QED
  BY <1>1, TypeInvariant, SoleInvHolds, PTL DEF Spec, OpensOnConsecutiveFailures
=============================================================================
