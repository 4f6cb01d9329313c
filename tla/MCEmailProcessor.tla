--------------------------- MODULE MCEmailProcessor ---------------------------
(* Instances of EmailProcessor for TLC. *)
EXTENDS EmailProcessor

CONSTANTS m1, m2, r1, r2

Says(format, id, retry) == [format |-> format, id |-> id, retry |-> retry]
Both(c1, c2) == [m \in Msg |-> IF m = m1 THEN c1 ELSE c2]

\* Two requests; two messages of one request, fresh and out of retries; two
\* without a request_id; one of every other format beside one of these.
SomeMails == {Both(Says("object", r1, 0), Says("object", r2, 3)),
              Both(Says("object", r1, 0), Says("object", r1, 0)),
              Both(Says("object", r1, 0), Says("object", r1, 3)),
              Both(Says("object", None, 0), Says("object", None, 3)),
              Both(Says("object", None, 0), Says("text", None, 0)),
              Both(Says("object", r1, 0), Says("null", None, 0)),
              Both(Says("object", r1, 3), Says("foreign", None, 0))}

OneMail == {[m \in Msg |-> Says("object", r1, 0)]}

Allow(kinds, n) == [faults |-> kinds, max |-> n]

NoFault == {Allow({}, 0)}

\* Any one fault; crashes, lost channels and lost SMTP answers; failures that
\* no handler of a process takes part in.
Environs == {Allow(FaultKinds, 1), Allow({"process", "broker", "smtp"}, 2),
             Allow({"smtp", "expiry", "ttl"}, 2)}
=============================================================================
