---------------------------- MODULE MCGatewayAccess ----------------------------
(* Instances of AuthTokens, behind the gateway and without it, for TLC. *)
EXTENDS GatewayAccess

Load(kinds, requests, concurrency, routes, faultKinds, n) ==
    [kinds |-> kinds, requests |-> requests, concurrency |-> concurrency,
     routes |-> routes, faults |-> faultKinds, max |-> n]

\* Sessions one request at a time, with any one fault, and at once; the user's
\* row and cache one request at a time, with updates and removals cut short;
\* tokens that outlive their user or their entry on the blacklist; everything at
\* once; a gateway request after a login or a logout, with a network that
\* fails; logouts while the gateway validates.
Loads == {Load({"login", "refresh", "logout"}, 3, 1, {}, FaultKinds, 1),
          Load({"login", "refresh", "logout"}, 3, 3, {}, {}, 0),
          Load(UserKinds, 3, 1, {}, {"process", "db"}, 1),
          Load({"create", "remove", "login", "logout"}, 3, 1, {}, {"expiry"}, 1),
          Load(Kinds, 2, 2, {}, FaultKinds, 1),
          Load({"login", "logout"}, 1, 1, Routes, {"process", "network"}, 1),
          Load({"logout"}, 2, 2, {"me"}, {"process", "expiry"}, 1)}
=============================================================================
