--------------------------- MODULE MCTemplateHealth ---------------------------
(* Instances of TemplateHealth for TLC. *)
EXTENDS TemplateHealth

CONSTANTS q1, q2

Allow(kinds, n, requests, resources) ==
    [faults |-> kinds, max |-> n, requests |-> requests, resources |-> resources]

\* Two requests while the database fails or Redis does; one request with
\* both checks; a broken broker link.
Environs == {Allow({"db"}, 3, {q1, q2}, {"db"}),
             Allow({"db", "redis"}, 3, {q1}, {"db"}),
             Allow({"db", "redis"}, 2, {q1}, Resource),
             Allow({"broker"}, 3, {q1}, {"db"}),
             Allow({"broker", "channel"}, 2, {q1}, {"db"})}
=============================================================================
