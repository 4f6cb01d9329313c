------------------------- MODULE MCEmailCircuitBreaker -------------------------
(* Instances of EmailCircuitBreaker for TLC. *)
EXTENDS EmailCircuitBreaker

CONSTANTS p1, p2

Deploy(kinds, n, processes, fn) ==
    [faults |-> kinds, max |-> n, processes |-> processes, fn |-> fn]

\* The service as it is; one process and two with a function that throws.
Environs == {Deploy(FaultKinds, 3, {p1, p2}, "sendEmail"),
             Deploy({"smtp"}, 4, {p1}, "throwing"),
             Deploy({"smtp"}, 3, {p1, p2}, "throwing"),
             Deploy(FaultKinds, 3, {p1, p2}, "throwing")}
=============================================================================
