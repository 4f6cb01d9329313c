------------------------- MODULE MCPushCircuitBreaker -------------------------
(* Instances of PushCircuitBreaker for TLC. *)
EXTENDS PushCircuitBreaker

CONSTANTS c1, c2

SameClock == [c \in Caller |-> 0]
\* The clock of c2 is one second ahead.
SkewedClocks == [c \in Caller |-> IF c = c2 THEN 1 ELSE 0]

Deploy(callers, skew, aborts) ==
    [callers |-> callers, skew |-> skew, aborts |-> aborts]

Together == {Deploy({c1, c2}, SameClock, FALSE)}

\* One process whose calls run to their end or are cut short; two processes
\* with clocks that agree or differ.
Deployments == {Deploy({c1}, SameClock, FALSE), Deploy({c1}, SameClock, TRUE),
                Deploy({c1, c2}, SkewedClocks, FALSE)} \cup Together
=============================================================================
