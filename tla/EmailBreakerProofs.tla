--------------------------- MODULE EmailBreakerProofs ---------------------------
(* Safety of EmailCircuitBreaker for any number of processes and concurrent *)
(* calls, any thresholds and any number of faults.                         *)
EXTENDS EmailCircuitBreaker, TLAPS

States == {"CLOSED", "OPEN", "HALF_OPEN"}
Record == [state : States, failed_at : 0..Timeout \cup {None}]

\* The types of TypeOK follow from those of the records in Redis and on the
\* way to it, and from each call under way having a process.
TypeInv ==
    /\ TypeOK
    /\ record \in Record \cup {None}
    /\ out \in [Call -> Record \cup {None}]
    /\ \A c \in Call : pc[c] # "free" => proc[c] \in Process
    /\ \A c \in Call : pc[c] \in {"set_half_open", "set"} => out[c] \in Record

LEMMA EnterType ==
    ASSUME TypeInv, NEW c \in Call, NEW found \in Record \cup {None}, Enter(c, found),
           faults' \in Nat
    PROVE  TypeInv'
<1> DEFINE shared == found # None /\ found.state = "OPEN"
           failed == IF shared THEN found.failed_at ELSE lastFailure[proc[c]]
<1>1. proc[c] \in Process /\ failed \in 0..Timeout \cup {None}
  BY DEF Enter, TypeInv, TypeOK, Record
<1>2. /\ lastFailure' \in [Process -> 0..Timeout \cup {None}]
      /\ state' \in [Process -> States]
      /\ successCount' \in [Process -> Nat]
  BY <1>1 DEF Enter, TypeInv, TypeOK, States
<1>3. /\ pc' \in [Call -> PC] /\ proc' \in [Call -> Process \cup {None}]
      /\ out' \in [Call -> Record \cup {None}]
      /\ \A x \in Call : pc'[x] # "free" => proc'[x] \in Process
      /\ \A x \in Call : pc'[x] \in {"set_half_open", "set"} => out'[x] \in Record
  BY <1>1 DEF Enter, UpdateRedisState, Free, TypeInv, TypeOK, PC, Record, States
<1> QED
  BY <1>2, <1>3 DEF Enter, TypeInv, TypeOK, States

LEMMA FaultType == ASSUME TypeOK, NEW kind, Fault(kind) PROVE faults' \in Nat
BY DEF Fault, TypeOK

LEMMA TypeStep == TypeInv /\ [Next]_vars => TypeInv'
<1> SUFFICES ASSUME TypeInv, [Next]_vars PROVE TypeInv'
  OBVIOUS
<1>t. TypeOK
  BY DEF TypeInv
<1>1. ASSUME NEW c \in Call, NEW p \in Process, Execute(c, p) PROVE TypeInv'
  BY <1>1 DEF Execute, TypeInv, TypeOK, PC, fields
<1>2. ASSUME NEW c \in Call, Get(c) \/ GetFails(c) PROVE TypeInv'
  <2>1. faults' \in Nat
    BY <1>t, <1>2, FaultType DEF Get, GetFails, TypeOK
  <2> QED
    BY <1>2, <2>1, EnterType DEF Get, GetFails, TypeInv
<1>f. ASSUME NEW c \in Call, Sent(c) \/ SendFails(c)
      PROVE  faults' \in Nat /\ refused' \in [Process -> Nat]
  <2>1. proc[c] \in Process
    BY <1>f DEF Sent, SendFails, FnReturns, FnThrows, TypeInv
  <2> QED
    BY <1>f, <1>t, <2>1, FaultType DEF Sent, SendFails, TypeInv, TypeOK
<1>3. ASSUME NEW c \in Call, FnReturns(c), faults' \in Nat, refused' \in [Process -> Nat]
      PROVE  TypeInv'
  <2>1. proc[c] \in Process
    BY <1>3 DEF FnReturns, TypeInv
  <2>2. /\ failureCount' \in [Process -> Nat] /\ successCount' \in [Process -> Nat]
        /\ state' \in [Process -> States]
    BY <1>3, <2>1 DEF FnReturns, TypeInv, TypeOK, States
  <2>3. /\ pc' \in [Call -> PC] /\ proc' \in [Call -> Process \cup {None}]
        /\ out' \in [Call -> Record \cup {None}]
        /\ \A x \in Call : pc'[x] # "free" => proc'[x] \in Process
        /\ \A x \in Call : pc'[x] \in {"set_half_open", "set"} => out'[x] \in Record
    BY <1>3, <2>1 DEF FnReturns, UpdateRedisState, Free, TypeInv, TypeOK, PC, Record, States
  <2> QED
    BY <1>3, <2>2, <2>3 DEF FnReturns, TypeInv, TypeOK, States
<1>4. ASSUME NEW c \in Call, FnThrows(c), faults' \in Nat, refused' \in [Process -> Nat]
      PROVE  TypeInv'
  <2>1. proc[c] \in Process
    BY <1>4 DEF FnThrows, TypeInv
  <2>2. /\ failureCount' \in [Process -> Nat] /\ successCount' \in [Process -> Nat]
        /\ state' \in [Process -> States]
        /\ lastFailure' \in [Process -> 0..Timeout \cup {None}]
    BY <1>4, <2>1, EmailBreakerConstants DEF FnThrows, TypeInv, TypeOK, States
  <2>3. /\ pc' \in [Call -> PC] /\ proc' \in [Call -> Process \cup {None}]
        /\ out' \in [Call -> Record \cup {None}]
        /\ \A x \in Call : pc'[x] # "free" => proc'[x] \in Process
        /\ \A x \in Call : pc'[x] \in {"set_half_open", "set"} => out'[x] \in Record
    BY <1>4, <2>1, EmailBreakerConstants
       DEF FnThrows, UpdateRedisState, Free, TypeInv, TypeOK, PC, Record, States
  <2> QED
    BY <1>4, <2>1, <2>2, <2>3 DEF FnThrows, TypeInv, TypeOK, States
<1>5. ASSUME NEW c \in Call, Set(c) \/ SetFails(c) PROVE TypeInv'
  <2>1. faults' \in Nat
    BY <1>t, <1>5, FaultType DEF Set, SetFails, TypeOK
  <2>2. record' \in Record \cup {None} /\ ttl' \in 0..RecordTtl
    BY <1>5, EmailBreakerConstants DEF Set, SetFails, TypeInv, TypeOK
  <2>3. Proceed(c)
    BY <1>5 DEF Set, SetFails
  <2>4. /\ pc' \in [Call -> PC] /\ proc' \in [Call -> Process \cup {None}]
        /\ out' \in [Call -> Record \cup {None}]
        /\ \A x \in Call : pc'[x] # "free" => proc'[x] \in Process
        /\ \A x \in Call : pc'[x] \in {"set_half_open", "set"} => out'[x] \in Record
    BY <2>3 DEF Proceed, Free, TypeInv, TypeOK, PC
  <2> QED
    BY <1>5, <2>1, <2>2, <2>4 DEF Set, SetFails, fields, TypeInv, TypeOK
<1>6. ASSUME NEW p \in Process, Restart(p) PROVE TypeInv'
  BY <1>6, <1>t, FaultType DEF Restart, TypeInv, TypeOK, PC
<1>7. CASE Tick
  <2>1. \A r \in Record : Age(r) \in Record
    BY EmailBreakerConstants DEF Age, Older, Record
  <2>2. Age(None) = None
    BY DEF Age
  <2>3. ttl' \in 0..RecordTtl /\ lastFailure' \in [Process -> 0..Timeout \cup {None}]
    BY <1>7, EmailBreakerConstants DEF Tick, Older, TypeInv, TypeOK
  <2>4. record' \in Record \cup {None} /\ out' \in [Call -> Record \cup {None}]
    BY <1>7, <2>1, <2>2 DEF Tick, TypeInv
  <2> QED
    BY <1>7, <2>1, <2>3, <2>4 DEF Tick, TypeInv, TypeOK
<1>8. CASE UNCHANGED vars
  BY <1>8 DEF vars, fields, calls, TypeInv, TypeOK
<1> QED
  BY <1>1, <1>2, <1>f, <1>3, <1>4, <1>5, <1>6, <1>7, <1>8 DEF Next, Answer, Sent, SendFails

LEMMA TypeInit == Init => TypeInv
BY EmailBreakerConstants DEF Init, TypeInv, TypeOK, PC

LEMMA TypeInvHolds == Spec => []TypeInv
BY TypeInit, TypeStep, PTL DEF Spec

\* However calls of several processes interleave with the expiry of the record
\* and with lost commands, the fields and the record keep their types: no age
\* passes the timeout and the time to live of the record stays in its range.
THEOREM TypeInvariant == Spec => []TypeOK
<1>1. TypeInv => TypeOK
  BY DEF TypeInv
<1> QED
  BY <1>1, TypeInvHolds, PTL

-----------------------------------------------------------------------------
(* The breaker around a function that throws. *)

Throwing == env.fn = "throwing"

\* The count is that of the refused mails, whoever else was heard of
\* meanwhile, and a breaker that has counted enough of them is not CLOSED: what
\* closes it also empties the count.
CountInv ==
    \A p \in Process :
        /\ refused[p] = failureCount[p]
        /\ failureCount[p] >= FailureThreshold => state[p] # "CLOSED"

LEMMA CountStep == TypeInv /\ Throwing /\ CountInv /\ [Next]_vars => CountInv'
<1> SUFFICES ASSUME TypeInv, Throwing, CountInv, [Next]_vars PROVE CountInv'
  OBVIOUS
<1> USE DEF CountInv, TypeInv, TypeOK
<1>1. ASSUME NEW c \in Call, NEW p \in Process, Execute(c, p) PROVE CountInv'
  BY <1>1 DEF Execute, fields
<1>2. ASSUME NEW c \in Call, NEW found, Enter(c, found) PROVE CountInv'
  BY <1>2 DEF Enter
<1>3. ASSUME NEW c \in Call, Sent(c) PROVE CountInv'
  BY <1>3, EmailBreakerConstants DEF Sent, FnReturns
<1>4. ASSUME NEW c \in Call, SendFails(c) PROVE CountInv'
  <2>1. FnThrows(c) /\ proc[c] \in Process
    BY <1>4 DEF SendFails, Throwing, FnThrows
  <2> QED
    BY <1>4, <2>1, EmailBreakerConstants DEF SendFails, FnThrows
<1>5. ASSUME NEW c \in Call, Set(c) \/ SetFails(c) PROVE CountInv'
  BY <1>5 DEF Set, SetFails, fields
<1>6. ASSUME NEW p \in Process, Restart(p) PROVE CountInv'
  BY <1>6, EmailBreakerConstants DEF Restart
<1>7. CASE Tick \/ UNCHANGED vars
  BY <1>7 DEF Tick, vars, fields
<1> QED
  BY <1>1, <1>2, <1>3, <1>4, <1>5, <1>6, <1>7 DEF Next, Answer, Get, GetFails

LEMMA EnvFixed == ASSUME [Next]_vars PROVE UNCHANGED env
BY DEF Next, Answer, Execute, Get, GetFails, Enter, Sent, FnReturns, SendFails, FnThrows, Set,
   SetFails, Restart, Tick, vars

\* Around a function that throws, the class keeps what the README says of the
\* service: for every number of processes, calls at once, faults and
\* restarts and every threshold, a process whose mails were refused that
\* often in a row is not CLOSED. What the program wraps does not throw.
THEOREM BreakerOpens == Spec => []OpensWhenThrown
<1>1. Init => CountInv
  <2> SUFFICES ASSUME Init, NEW p \in Process
               PROVE  refused[p] = failureCount[p] /\ ~(failureCount[p] >= FailureThreshold)
    BY DEF CountInv
  <2>1. refused[p] = 0 /\ failureCount[p] = 0
    BY DEF Init
  <2> QED
    BY <2>1, EmailBreakerConstants
<1>2. [Next]_vars => (Throwing <=> Throwing')
  BY EnvFixed DEF Throwing
<1>3. (Throwing => CountInv) => OpensWhenThrown
  BY DEF Throwing, CountInv, OpensWhenThrown, OpensOnFailures
<1> QED
  BY <1>1, <1>2, <1>3, TypeInvHolds, CountStep, PTL DEF Spec
=============================================================================
