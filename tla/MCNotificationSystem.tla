------------------------ MODULE MCNotificationSystem ------------------------
(* Instances of NotificationSystem for TLC. *)
EXTENDS NotificationSystem

CONSTANTS k1, k2, i1, i2

\* email-service does not read the metadata.
Mail(keys, ids) == [key : keys, id : ids, channel : {"email"}, metadata : {"absent"}]
Push(keys, ids, kinds) == [key : keys, id : ids, channel : {"push"}, metadata : kinds]

Environ(submissions, concurrency, kinds, n, declared) ==
    [submissions |-> submissions, concurrency |-> concurrency,
     faults |-> kinds, max |-> n, declared |-> declared]

\* Repeated keys and repeated ids on both channels.
Mixed == Mail({k1, k2}, {i1, i2}) \cup Push({k1, k2}, {i1, i2}, {"token"})
\* One key for everything, with every form of metadata.
SameKey == Mail({k1}, {i1, i2}) \cup Push({k1}, {i1}, {"token", "other", "absent"})

Both == {"gateway", "email-service"}

\* Clients in turn, with two faults; clients at once, with any one fault;
\* clients at once, without faults, whoever may use email.queue.
Environs == {Environ(SameKey, 1, {"process", "broker", "redis"}, 2, Both),
             Environ(Mixed, 2, FaultKinds, 1, Both),
             Environ(SameKey, 2, {"redis", "slow"}, 1, Both),
             Environ(Mixed \cup SameKey, 2, {}, 0, Both),
             Environ(SameKey, 2, {}, 0, {"gateway"}),
             Environ(SameKey, 2, {}, 0, {"email-service"})}

\* A client that uses its request id as its key.
IdAsKey == {Environ(Mail({k1}, {k1}) \cup Push({k1}, {k1}, {"token"}), 1, {}, 0, Both)}
=============================================================================
