------------------------------ MODULE AuthTokens ------------------------------
(***************************************************************************)
(* AuthService and the JWT guard of the user-service, over the user of     *)
(* UserStore: access and refresh tokens, the stored refresh tokens         *)
(* (refresh_token:<user>:<jti>) and the blacklist (blacklist:<jti>) in     *)
(* Redis. A token is named after the request that made it; session 0       *)
(* exists from the start for a user who does.                              *)
(*                                                                         *)
(* Tokens are signed, so a client can present none that was not issued.    *)
(* They name their user and the time they expire, but not what they are    *)
(* for: a refresh token is good as a bearer too.                           *)
(***************************************************************************)
EXTENDS UserStore

CONSTANT Other    \* a token of another user, who exists

Kinds == UserKinds \cup AuthKinds

\* Endpoints of the gateway that call the user-service (see GatewayAccess).
Routes == {"login", "register", "validate", "me", "users"}

Session == {0} \cup Request
Access(s)  == <<"access", s>>
Refresh(s) == <<"refresh", s>>
Token == {"access", "refresh"} \X Session

\* What is asked for, with the dto's fields, the token in the Authorization
\* header, and the token in the body.
OpType == [kind : Kinds, prefs : Prefs \cup {None}, name : Names \cup {None},
           bearer : Token \cup {None, Other}, token : Token \cup {None, Other}]

ASSUME AuthConstants ==
    /\ Request \subseteq Nat \ {0}
    /\ None \notin Prefs \cup Names \cup {Gone, Reused, Other} \cup Token
    /\ {None, Gone, Reused} \cap Row = {}
    /\ Gone # Reused /\ Other \notin Token
    /\ Environments \subseteq [kinds : SUBSET Kinds, requests : Nat, concurrency : Nat,
                               routes : SUBSET Routes, faults : SUBSET FaultKinds, max : Nat]

VARIABLES
    issued,     \* tokens clients have
    expired,    \* tokens past their expiry
    stored,     \* Redis: refresh_token:<user>:<jti>
    blacklist,  \* Redis: blacklist:<jti>
    brief,      \* entries of the blacklist that expire before their token
    doomed,     \* per logout: stored tokens it has still to delete
    used,       \* how often each refresh token was exchanged (history)
    before,     \* per logout: tokens issued before it began (history)
    ended       \* tokens issued before a logout that is over (history)

tokenVars == <<issued, expired, stored, blacklist, brief, doomed, used, before, ended>>
authVars == <<env, pc, op, faults, storeVars, tokenVars>>

Active == UserAwaits \cup
          {"guard", "guard_user", "password", "get_stored", "check_revoked",
           "check_user", "store", "forget", "revoke", "blacklist_access", "keys",
           "del", "blacklist_other", "validate", "validate_user"}

AuthInit ==
    /\ env \in Environments
    /\ user \in {None} \cup [prefs : Prefs, name : Names]
    /\ cache = None
    /\ pc = [r \in Request |-> "idle"]
    /\ op = [r \in Request |-> None]
    /\ hand = [r \in Request |-> None]
    /\ removed = None
    /\ issued = IF user = None THEN {} ELSE {Access(0), Refresh(0)}
    /\ stored = IF user = None THEN {} ELSE {Refresh(0)}
    /\ expired = {} /\ blacklist = {} /\ brief = {} /\ ended = {}
    /\ doomed = [r \in Request |-> {}]
    /\ before = [r \in Request |-> {}]
    /\ used = [t \in Token |-> 0]
    /\ faults = 0

-----------------------------------------------------------------------------
(* A request arrives. *)

Public == {"create", "login", "validate"}

\* What clients send: tokens they have. Another user's logout is not about
\* this user; for everything else any user's token will do.
Bearers(kind) == CASE kind \in Public   -> {None}
                   [] kind = "logout"   -> issued
                   [] OTHER             -> issued \cup {Other}
Bodies(kind) == IF kind = "refresh" THEN {t \in issued : t[1] = "refresh"}
                ELSE IF kind = "validate" THEN issued ELSE {None}
Dtos(kind) ==
    CASE kind = "create" -> [prefs : Prefs, name : Names]
      [] kind = "update" -> [prefs : Prefs \cup {None}, name : Names \cup {None}]
      [] OTHER -> {[prefs |-> None, name |-> None]}

\* The first await of a handler, behind the guard. jwtService.verify refuses
\* an expired token before anything is awaited.
Entry(o) ==
    CASE o.kind \in UserKinds -> UserEntry(o.kind)
      [] o.kind = "login" -> "password"
      [] o.kind = "refresh" -> IF o.token \in expired THEN "refused" ELSE "get_stored"
      [] o.kind = "validate" -> IF o.token \in expired THEN "refused" ELSE "validate"
      [] o.kind = "logout" -> "blacklist_access"

\* Request r reaches the user-service.
Begin(r, o) ==
    /\ \A s \in Request : pc[s] = "idle" => r <= s
    /\ op' = [op EXCEPT ![r] = o]
    /\ Step(r, "idle", IF o.kind \in Public THEN Entry(o)
                       ELSE IF o.bearer \in expired THEN "refused" ELSE "guard")
    /\ UNCHANGED <<env, faults, storeVars, tokenVars>>

Operation(kind, d, b, t) ==
    [kind |-> kind, prefs |-> d.prefs, name |-> d.name, bearer |-> b, token |-> t]

Arrive(r, kind) ==
    /\ Cardinality({s \in Request : pc[s] # "idle"}) < env.requests
    /\ Cardinality({s \in Request : pc[s] \in Active}) < env.concurrency
    /\ \E d \in Dtos(kind), b \in Bearers(kind), t \in Bodies(kind) :
          Begin(r, Operation(kind, d, b, t))

\* A step of a handler that leaves the user's row and cache alone.
Do(r, from, to) ==
    /\ Step(r, from, to)
    /\ UNCHANGED <<env, op, storeVars, expired>>

\* RedisService swallows the errors of set and del: the handler goes on when
\* nothing was written.
StoredBecomes(s) ==
    \/ stored' = s /\ UNCHANGED faults
    \/ UNCHANGED stored /\ Fault("redis")

\* The entry is for good, or for less time than the token has.
PutOnBlacklist(t, short) ==
    \/ /\ blacklist' = blacklist \cup {t}
       /\ brief' = IF short THEN brief \cup {t} ELSE brief \ {t}
       /\ UNCHANGED faults
    \/ UNCHANGED <<blacklist, brief>> /\ Fault("redis")

\* JwtStrategy.validate. The guard is installed twice and runs twice; the
\* second pass repeats these reads.
Guard(r) ==
    /\ Do(r, "guard", IF op[r].bearer \in blacklist THEN "refused" ELSE "guard_user")
    /\ UNCHANGED <<faults, issued, stored, blacklist, brief, doomed, used, before, ended>>

\* The guard looks for a user with the e-mail in the token, the one of this
\* module or not, and no handler compares that user with the :id it acts on.
\* Only logout is for the user the guard has found.
GuardUser(r) ==
    /\ Do(r, "guard_user",
          CASE op[r].bearer # Other /\ user \in {None, Gone} -> "refused"
            [] op[r].kind = "logout" /\ user = Reused -> "blacklist_other"
            [] OTHER -> Entry(op[r]))
    /\ UNCHANGED <<faults, issued, stored, blacklist, brief, doomed, used, before, ended>>

-----------------------------------------------------------------------------
(* login and refresh *)

\* validatePassword: a user with the e-mail, and the right password. The
\* session of another user is none of this module.
Password(r) ==
    /\ \E right \in BOOLEAN :
          Do(r, "password", CASE right /\ Exists -> "store"
                              [] right /\ user = Reused -> "done"
                              [] OTHER -> "refused")
    /\ UNCHANGED <<faults, issued, stored, blacklist, brief, doomed, used, before, ended>>

GetStored(r) ==
    /\ Do(r, "get_stored", IF op[r].token \in stored THEN "check_revoked" ELSE "refused")
    /\ UNCHANGED <<faults, issued, stored, blacklist, brief, doomed, used, before, ended>>

CheckRevoked(r) ==
    /\ Do(r, "check_revoked", IF op[r].token \in blacklist THEN "refused" ELSE "check_user")
    /\ UNCHANGED <<faults, issued, stored, blacklist, brief, doomed, used, before, ended>>

CheckUser(r) ==
    /\ Do(r, "check_user", IF Exists THEN "store" ELSE "refused")
    /\ UNCHANGED <<faults, issued, stored, blacklist, brief, doomed, used, before, ended>>

\* The client gets the pair of tokens made by its request.
Grant(r) == issued' = issued \cup {Access(r), Refresh(r)}

\* generateTokens stores the new refresh token. That ends a login; a refresh
\* goes on to revoke the old one.
Store(r) ==
    /\ Do(r, "store", IF op[r].kind = "login" THEN "done" ELSE "forget")
    /\ StoredBecomes(stored \cup {Refresh(r)})
    /\ IF op[r].kind = "login" THEN Grant(r) ELSE UNCHANGED issued
    /\ UNCHANGED <<blacklist, brief, doomed, used, before, ended>>

\* Mutant: the old refresh token is left in the store.
Forget_Not(r) ==
    /\ Do(r, "forget", "revoke")
    /\ UNCHANGED <<faults, issued, stored, blacklist, brief, doomed, used, before, ended>>

\* revokeRefreshToken: DEL of the stored token
Forget(r) ==
    /\ Do(r, "forget", "revoke")
    /\ StoredBecomes(stored \ {op[r].token})
    /\ UNCHANGED <<issued, blacklist, brief, doomed, used, before, ended>>

\* and SETEX of its blacklist entry, which outlives the token.
Revoke(r) ==
    /\ Do(r, "revoke", "done")
    /\ PutOnBlacklist(op[r].token, FALSE)
    /\ Grant(r)
    /\ used' = [used EXCEPT ![op[r].token] = @ + 1]
    /\ UNCHANGED <<stored, doomed, before, ended>>

-----------------------------------------------------------------------------
(* logout *)

\* The bearer goes on the blacklist for 15 minutes, the life of an access token.
BlacklistAccess(r) ==
    /\ Do(r, "blacklist_access", "keys")
    /\ PutOnBlacklist(op[r].bearer, op[r].bearer[1] = "refresh")
    /\ before' = [before EXCEPT ![r] = issued]
    /\ UNCHANGED <<issued, stored, doomed, used, ended>>

\* The same for a user who has the e-mail now, whose refresh tokens are then
\* deleted.
BlacklistOther(r) ==
    /\ Do(r, "blacklist_other", "done")
    /\ PutOnBlacklist(op[r].bearer, op[r].bearer[1] = "refresh")
    /\ UNCHANGED <<issued, stored, doomed, used, before, ended>>

\* Logout r is over, or it has tokens left to delete.
Remaining(r, tokens) ==
    /\ doomed' = [doomed EXCEPT ![r] = tokens]
    /\ ended' = IF tokens = {} THEN ended \cup before[r] ELSE ended

\* KEYS refresh_token:<user>:*
Keys(r) ==
    /\ Do(r, "keys", IF stored = {} THEN "done" ELSE "del")
    /\ Remaining(r, stored)
    /\ UNCHANGED <<faults, issued, stored, blacklist, brief, used, before>>

\* Mutant: only the first key found is deleted.
Del_First(r, t) ==
    /\ t \in doomed[r]
    /\ Do(r, "del", "done")
    /\ StoredBecomes(stored \ {t})
    /\ Remaining(r, {})
    /\ UNCHANGED <<issued, blacklist, brief, used, before>>

\* Promise.all: one DEL per key, in any order.
Del(r, t) ==
    /\ t \in doomed[r]
    /\ Do(r, "del", IF doomed[r] = {t} THEN "done" ELSE "del")
    /\ StoredBecomes(stored \ {t})
    /\ Remaining(r, doomed[r] \ {t})
    /\ UNCHANGED <<issued, blacklist, brief, used, before>>

-----------------------------------------------------------------------------
(* validateToken, for the gateway *)

\* Mutant: the blacklist is not consulted.
Validate_Listless(r) ==
    /\ Do(r, "validate", "validate_user")
    /\ UNCHANGED <<faults, issued, stored, blacklist, brief, doomed, used, before, ended>>

Validate(r) ==
    /\ Do(r, "validate", IF op[r].token \in blacklist THEN "refused" ELSE "validate_user")
    /\ UNCHANGED <<faults, issued, stored, blacklist, brief, doomed, used, before, ended>>

ValidateUser(r) ==
    /\ Do(r, "validate_user", IF Exists \/ op[r].token = Other THEN "done" ELSE "refused")
    /\ UNCHANGED <<faults, issued, stored, blacklist, brief, doomed, used, before, ended>>

ServeAuth(r) ==
    \/ Guard(r) \/ GuardUser(r) \/ Password(r) \/ GetStored(r) \/ CheckRevoked(r)
    \/ CheckUser(r) \/ Store(r) \/ Forget(r) \/ Revoke(r) \/ BlacklistAccess(r)
    \/ BlacklistOther(r) \/ Keys(r) \/ (\E t \in doomed[r] : Del(r, t)) \/ Validate(r) \/ ValidateUser(r)

-----------------------------------------------------------------------------
(* Failures. *)

\* exists turns an error into false, and get into null; KEYS goes to the
\* client itself, whose error is thrown.
ReadFailed(r) ==
    /\ \/ Step(r, "guard", "guard_user")
       \/ Step(r, "get_stored", "refused")
       \/ Step(r, "check_revoked", "check_user")
       \/ Step(r, "validate", "validate_user")
       \/ Step(r, "keys", "refused")
    /\ Fault("redis")
    /\ UNCHANGED <<env, op, storeVars, tokenVars>>

\* A query for the user throws.
LookupFailed(r) ==
    /\ pc[r] \in {"guard_user", "password", "check_user", "validate_user"}
    /\ Goto(r, "refused")
    /\ Fault("db")
    /\ UNCHANGED <<env, op, storeVars, tokenVars>>

\* A token reaches the time in its exp claim.
ExpireToken(t) ==
    /\ t \in issued \ expired
    /\ expired' = expired \cup {t}
    /\ Fault("expiry")
    /\ UNCHANGED <<env, pc, op, storeVars, issued, stored, blacklist, brief, doomed, used,
                   before, ended>>

\* The entry of a refresh token that logged out expires before the token does.
ExpireListing(t) ==
    /\ t \in brief
    /\ blacklist' = blacklist \ {t} /\ brief' = brief \ {t}
    /\ Fault("expiry")
    /\ UNCHANGED <<env, pc, op, storeVars, issued, expired, stored, doomed, used, before,
                   ended>>

\* The process dies, and its requests with it.
Crash ==
    /\ \E r \in Request : pc[r] \in Active
    /\ pc' = [r \in Request |-> IF pc[r] \in Active THEN "refused" ELSE pc[r]]
    /\ Fault("process")
    /\ UNCHANGED <<env, op, storeVars, tokenVars>>

-----------------------------------------------------------------------------
\* No request is under way, and none can come any more.
Quiet ==
    /\ \A r \in Request : pc[r] \notin Active
    /\ \/ Cardinality({r \in Request : pc[r] # "idle"}) >= env.requests
       \/ \A kind \in env.kinds : Bearers(kind) = {} \/ Bodies(kind) = {}

AuthNext ==
    \/ \E r \in Request :
        \/ \E kind \in env.kinds : Arrive(r, kind)
        \/ ServeAuth(r) \/ ReadFailed(r) \/ LookupFailed(r)
        \/ /\ ServeUser(r) \/ RedisFailed(r) \/ QueryFailed(r)
           /\ UNCHANGED <<env, op, tokenVars>>
    \/ \E t \in issued : ExpireToken(t) \/ ExpireListing(t)
    \/ ExpireCache /\ UNCHANGED <<env, op, tokenVars>>
    \/ Crash

-----------------------------------------------------------------------------
AuthTypeOK ==
    /\ StoreTypeOK
    /\ env \in Environments
    /\ pc \in [Request -> {"idle", "done", "refused"} \cup Active]
    /\ op \in [Request -> OpType \cup {None}]
    /\ issued \subseteq Token /\ expired \subseteq issued
    /\ brief \subseteq {t \in blacklist : t[1] = "refresh"}
    /\ stored \subseteq Token /\ blacklist \subseteq issued /\ ended \subseteq issued
    /\ doomed \in [Request -> SUBSET Token]
    /\ before \in [Request -> SUBSET issued]
    /\ used \in [Token -> Nat]
    /\ faults \in 0..env.max

\* refresh deletes the token it exchanges and blacklists it too. Either write
\* may be lost without a word, or a crash may come between them: while
\* requests come one at a time and only one thing fails, no refresh token is
\* exchanged twice.
TokenUsedOnce ==
    (env.concurrency <= 1 /\ env.max <= 1) => \A t \in Token : used[t] <= 1

\* When a logout is over, no refresh token that was issued before it began is
\* in the store, whatever logins and refreshes ran beside it, if Redis
\* answers.
LogoutEndsSessions == "redis" \notin env.faults => stored \cap ended = {}
=============================================================================
