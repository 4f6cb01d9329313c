----------------------------- MODULE MCPushWorker -----------------------------
(* Instances of PushWorker for TLC. *)
EXTENDS PushWorker, TLC

Envelope(k, token, render) ==
    [key |-> k, format |-> "envelope", token |-> token, render |-> render]

\* Deliverable messages, ones without a token and ones whose rendering
\* panics, all under every key.
SomeLeaveProcessing ==
    UNION {{Envelope(k, "ok", "ok"), Envelope(k, "missing", "ok"),
            Envelope(k, "ok", "panic")} : k \in Key}

\* Every way the content of a payload can decide the course of a task.
EveryCourse ==
    SomeLeaveProcessing \cup
    UNION {{Envelope(k, "invalid", "ok"), Envelope(k, "ok", "error"),
            [key |-> k, format |-> "bare", token |-> "ok", render |-> "ok"],
            [key |-> k, format |-> "garbage", token |-> "ok", render |-> "ok"]}
           : k \in Key}

Allow(kinds, n) == [faults |-> kinds, max |-> n]

\* Any one fault.
AnyFault == {Allow(FaultKinds, 1)}

\* Crashes and lost connections; an unreliable FCM and expiring keys; a
\* failing Redis.
Environs == {Allow({"process", "broker"}, 2), Allow({"fcm", "expiry"}, 2),
             Allow({"process", "redis"}, 1)}

Symmetry == Permutations(Instance) \cup Permutations(Msg)
            \cup Permutations(Delivery)
=============================================================================
