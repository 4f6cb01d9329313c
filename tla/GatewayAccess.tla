----------------------------- MODULE GatewayAccess -----------------------------
(***************************************************************************)
(* The endpoints of the API gateway that stand before the user-service:    *)
(* AuthController, JwtAuthGuard with AuthService.validateToken, and the    *)
(* proxy of /users. A gateway request makes one or two HTTP calls, each a  *)
(* request of AuthTokens; it waits for the answer or for a timer, and the  *)
(* user-service works on after a timer has fired.                          *)
(*                                                                         *)
(* Refresh and logout have no route in the gateway: clients send them to   *)
(* the user-service. So do other clients with every kind of request.       *)
(***************************************************************************)
EXTENDS AuthTokens

CONSTANT Client     \* gateway requests (bound)

VARIABLES
    gpc,    \* per gateway request: what it does next, at the end its status
    gop,    \* per gateway request: its route, its call and what it knew
    call    \* per gateway request: the user-service request it waits for

gatewayVars == <<gpc, gop, call>>
vars == <<authVars, gatewayVars>>

Waiting  == {"guarding", "forwarding"}
Open     == {"guard", "forward"} \cup Waiting
Statuses == {"200", "400", "401", "408", "502", "refused", "invalid"}

Init ==
    /\ AuthInit
    /\ gpc = [g \in Client |-> "idle"]
    /\ gop = [g \in Client |-> None]
    /\ call = [g \in Client |-> None]

\* Bearers of logouts that are over.
LoggedOut == {op[r].bearer : r \in {s \in Request :
                 pc[s] = "done" /\ op[s].kind = "logout"}}

\* The kinds of user-service request a route leads to.
Target(route) == CASE route = "login"    -> {"login"}
                   [] route = "register" -> {"create"}
                   [] route \in {"validate", "me"} -> {"validate"}
                   [] route = "users"    -> UserKinds

\* @SkipAuth, or no JwtAuthGuard on the route.
Guarded(route) == route \in {"me", "users"}

\* A client calls the gateway. Without a bearer token the guard refuses.
GatewayArrive(g, route, kind) ==
    /\ gpc[g] = "idle" /\ kind \in Target(route)
    /\ \E b \in issued \cup {None, Other}, d \in Dtos(kind), t \in Bodies(kind) :
          /\ ~Guarded(route) => b = None
          /\ gop' = [gop EXCEPT ![g] = [route |-> route, late |-> b \in LoggedOut,
                        o |-> Operation(kind, d, b, IF route = "me" THEN b ELSE t)]]
          /\ gpc' = [gpc EXCEPT ![g] = IF ~Guarded(route) THEN "forward"
                                       ELSE IF b = None THEN "401" ELSE "guard"]
    /\ UNCHANGED <<authVars, call>>

\* What the gateway sends: the guard asks for the token to be validated, the
\* proxy and AuthService send the request itself (with its headers).
NextCall(g) ==
    IF gpc[g] = "guard"
    THEN Operation("validate", [prefs |-> None, name |-> None], None, gop[g].o.bearer)
    ELSE gop[g].o

GatewayCall(g, r) ==
    /\ gpc[g] \in {"guard", "forward"}
    /\ Begin(r, NextCall(g))
    /\ call' = [call EXCEPT ![g] = r]
    /\ gpc' = [gpc EXCEPT ![g] = IF @ = "guard" THEN "guarding" ELSE "forwarding"]
    /\ UNCHANGED gop

\* The gateway request ends with one of the statuses, or goes on.
Conclude(g, labels) ==
    /\ \E l \in labels : gpc' = [gpc EXCEPT ![g] = l]
    /\ call' = [call EXCEPT ![g] = None]
    /\ UNCHANGED gop

\* What becomes of an answer. validate reports a refusal in a 200 answer;
\* login turns every refusal into 401; the proxy passes the status on.
Outcome(g, ok) ==
    IF gpc[g] = "guarding"
    THEN IF ~ok THEN "401" ELSE IF gop[g].route = "me" THEN "200" ELSE "forward"
    ELSE CASE ok -> "200"
           [] ~ok /\ gop[g].route = "validate" -> "invalid"
           [] ~ok /\ gop[g].route = "login" -> "401"
           [] ~ok /\ gop[g].route \notin {"validate", "login"} -> "refused"

\* The user-service answers, or its process dies and the connection breaks.
GatewayReply(g) ==
    /\ gpc[g] \in Waiting /\ pc[call[g]] \in {"done", "refused"}
    /\ Conclude(g, {Outcome(g, pc[call[g]] = "done")})
    /\ UNCHANGED authVars

\* The call cannot be made: the guard says 401, the controllers map the
\* error, the proxy says 502.
GatewayUnreachable(g) ==
    /\ gpc[g] \in {"guard", "forward"} /\ Fault("network")
    /\ Conclude(g, CASE gpc[g] = "guard" \/ gop[g].route = "login" -> {"401"}
                     [] gop[g].route = "register" -> {"400"}
                     [] gop[g].route = "validate" -> {"invalid"}
                     [] OTHER -> {"502"})
    /\ UNCHANGED <<env, pc, op, storeVars, tokenVars>>

\* Mutant: only the interceptor has a timer, which does not cover guards.
GatewayTimeout_NotInGuard(g) ==
    /\ gpc[g] = "forwarding"
    /\ Conclude(g, {"408"})
    /\ UNCHANGED authVars

\* A timer fires: the rxjs or axios timeout of the call, or, in a handler,
\* TimeoutInterceptor. They have the same five seconds, so either may win.
GatewayTimeout(g) ==
    /\ gpc[g] \in Waiting
    /\ Conclude(g, CASE gpc[g] = "guarding" -> {"401"}
                     [] gop[g].route = "login" -> {"401", "408"}
                     [] gop[g].route = "register" -> {"400", "408"}
                     [] gop[g].route = "validate" -> {"invalid", "408"}
                     [] OTHER -> {"408"})
    /\ UNCHANGED authVars

GatewayStep(g) == (\E r \in Request : GatewayCall(g, r)) \/ GatewayTimeout(g)

Idle ==
    /\ Quiet /\ \A g \in Client : gpc[g] \notin Open
    /\ UNCHANGED vars

Next ==
    \/ AuthNext /\ UNCHANGED gatewayVars
    \/ \E g \in Client :
        \/ \E route \in env.routes : \E kind \in Target(route) :
              GatewayArrive(g, route, kind)
        \/ GatewayStep(g) \/ GatewayReply(g) \/ GatewayUnreachable(g)
    \/ Idle

Spec == Init /\ [][Next]_vars

\* The gateway makes its calls and its timers fire. Nothing is assumed of
\* the user-service.
FairSpec == Spec /\ \A g \in Client : WF_vars(GatewayStep(g))

-----------------------------------------------------------------------------
(* Properties. *)

TypeOK ==
    /\ AuthTypeOK
    /\ gpc \in [Client -> {"idle"} \cup Open \cup Statuses]
    /\ \A g \in Client : gpc[g] \in Waiting => pc[call[g]] # "idle"

\* A logout lists its bearer for as long as an access token lives; a refresh
\* token lives longer.
Lasting(t) == t[1] = "access" \/ "expiry" \notin env.faults

\* When a logout is over, its bearer opens no guarded route of the gateway any
\* more, whatever runs in the user-service meanwhile: the gateway remembers no
\* earlier validation. (If Redis answers, and until the entry of a refresh
\* token expires.)
LoggedOutIsRefused ==
    "redis" \notin env.faults =>
    \A g \in Client : gpc[g] \in {"forward", "forwarding", "200"} /\ gop[g].late
                      => ~Lasting(gop[g].o.bearer)

\* Every request to the gateway is answered, even if the user-service never
\* answers any call.
GatewayAnswers == \A g \in Client : gpc[g] \in Open ~> gpc[g] \in Statuses
=============================================================================
