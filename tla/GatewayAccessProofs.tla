-------------------------- MODULE GatewayAccessProofs --------------------------
(***************************************************************************)
(* Safety of the user-service and of the gateway before it, for any number *)
(* of requests and gateway requests, tokens, preferences and faults.       *)
(*                                                                         *)
(* A request is checked at one await and acts at a later one. AuthInv says *)
(* what is still known of it there: what kind of request can be at a       *)
(* label, that its tokens were issued, that it holds a row to write.       *)
(***************************************************************************)
EXTENDS GatewayAccess, FiniteSetTheorems, TLAPS

\* What a request may carry.
WellFormed(o) ==
    /\ o \in OpType
    /\ {o.bearer, o.token} \subseteq issued \cup {None, Other}
    /\ o.kind = "create" => o.prefs \in Prefs /\ o.name \in Names
    /\ o.kind \notin Public => o.bearer \in issued \cup {Other}
    /\ o.kind = "logout" => o.bearer \in issued
    /\ o.kind = "refresh" => o.token \in issued
    /\ o.kind = "validate" => o.token \in issued \cup {Other}

\* Which kinds of request are at which label, and what they hold.
Known(r) ==
    /\ pc[r] # "idle" => WellFormed(op[r])
    /\ pc[r] \in {"find_email", "insert"} => op[r].kind = "create"
    /\ pc[r] \in {"find", "invalidate", "save"} => op[r].kind = "update"
    /\ pc[r] \in {"get", "select"} => op[r].kind = "preferences"
    /\ pc[r] \in {"delete", "uncache"} => op[r].kind = "remove"
    /\ pc[r] = "cache" => op[r].kind \in {"create", "update", "preferences"}
    /\ pc[r] \in {"invalidate", "save", "cache"} => hand[r] \in Row
    /\ pc[r] = "password" => op[r].kind = "login"
    /\ pc[r] \in {"get_stored", "check_revoked", "check_user", "forget", "revoke"}
          => op[r].kind = "refresh"
    /\ pc[r] = "store" => op[r].kind \in {"login", "refresh"}
    /\ pc[r] \in {"blacklist_access", "blacklist_other", "keys", "del"}
          => op[r].kind = "logout"
    /\ pc[r] \in {"validate", "validate_user"} => op[r].kind = "validate"
    /\ pc[r] \in {"guard", "guard_user"} => op[r].kind \notin Public

Control == \A r \in Request : Known(r)

AuthInv == AuthTypeOK /\ Control

LEMMA WellFormedGrows ==
    ASSUME issued \subseteq issued', NEW o, WellFormed(o)
    PROVE  WellFormed(o)'
BY DEF WellFormed

LEMMA EnvType ==
    ASSUME AuthInv
    PROVE  env.max \in Nat /\ env.concurrency \in Nat /\ env.kinds \subseteq Kinds
           /\ env.routes \subseteq Routes
BY AuthConstants DEF AuthInv, AuthTypeOK

LEMMA FaultType ==
    ASSUME AuthInv, NEW kind, Fault(kind)
    PROVE  faults' \in 0..env.max /\ faults' > faults
BY EnvType DEF Fault, AuthInv, AuthTypeOK

\* Where a handler begins.
LEMMA EntryType ==
    ASSUME NEW o \in OpType
    PROVE  /\ o.kind = "create" => Entry(o) = "find_email"
           /\ o.kind = "update" => Entry(o) = "find"
           /\ o.kind = "preferences" => Entry(o) = "get"
           /\ o.kind = "remove" => Entry(o) = "delete"
           /\ o.kind = "login" => Entry(o) = "password"
           /\ o.kind = "refresh" => Entry(o) \in {"refused", "get_stored"}
           /\ o.kind = "validate" => Entry(o) \in {"refused", "validate"}
           /\ o.kind = "logout" => Entry(o) = "blacklist_access"
           /\ o.kind \in {"create", "update", "preferences", "remove", "login", "refresh",
                          "validate", "logout"}
BY DEF Entry, UserEntry, UserKinds, AuthKinds, OpType, Kinds

LEMMA BeginInv ==
    ASSUME AuthInv, NEW r \in Request, NEW o, WellFormed(o), Begin(r, o)
    PROVE  AuthInv'
<1>1. o \in OpType
  BY DEF WellFormed
<1>2. pc'[r] \in {"refused", "guard", Entry(o)} /\ (o.kind \in Public => pc'[r] = Entry(o))
      /\ (o.kind \notin Public => pc'[r] \in {"refused", "guard"})
  BY DEF Begin, Step, Goto, AuthInv, AuthTypeOK
<1>3. pc' \in [Request -> {"idle", "done", "refused"} \cup Active]
  BY <1>1, <1>2, EntryType DEF Begin, Step, Goto, AuthInv, AuthTypeOK, Active, UserAwaits
<1>4. AuthTypeOK'
  BY <1>1, <1>3 DEF Begin, storeVars, tokenVars, AuthInv, AuthTypeOK, StoreTypeOK
<1>5. WellFormed(o)'
  BY WellFormedGrows DEF Begin, tokenVars
<1>6. ASSUME NEW q \in Request, q # r
      PROVE  pc'[q] = pc[q] /\ op'[q] = op[q] /\ hand'[q] = hand[q]
             /\ (WellFormed(op[q]) => WellFormed(op[q])')
  BY <1>6, WellFormedGrows DEF Begin, Step, Goto, storeVars, tokenVars, AuthInv, AuthTypeOK
<1>7. op'[r] = o
  BY DEF Begin, AuthInv, AuthTypeOK
<1>8. Control'
  <2> SUFFICES ASSUME NEW q \in Request
               PROVE  Known(q)'
    BY DEF Control
  <2> QED
    BY <1>1, <1>2, <1>5, <1>6, <1>7, EntryType DEF AuthInv, Control, Known, Public
<1> QED
  BY <1>4, <1>8 DEF AuthInv

\* A step of request r leaves the others what they are.
LEMMA OneSteps ==
    ASSUME AuthInv, NEW r \in Request, pc[r] # "idle", NEW to, Goto(r, to), UNCHANGED op,
           issued \subseteq issued', AuthTypeOK',
           \A q \in Request : q # r => hand'[q] = hand[q],
           WellFormed(op[r])' => Known(r)'
    PROVE  AuthInv'
<1>1. ASSUME NEW q \in Request PROVE Known(q)'
  <2>1. pc[q] # "idle" => WellFormed(op[q])'
    BY WellFormedGrows DEF AuthInv, Control, Known
  <2>2. CASE q = r
    BY <2>1, <2>2
  <2>3. CASE q # r
    BY <2>1, <2>3 DEF AuthInv, AuthTypeOK, Control, Known, Goto
  <2> QED
    BY <2>2, <2>3
<1> QED
  BY <1>1 DEF AuthInv, Control

LEMMA UserStepInv ==
    ASSUME AuthInv, NEW r \in Request, ServeUser(r), UNCHANGED <<env, op, tokenVars>>
    PROVE  AuthInv'
<1>1. PICK to \in {"done", "refused", "insert", "cache", "save", "invalidate", "select",
                   "uncache"} : Goto(r, to)
  BY DEF ServeUser, FindEmail, Insert, Find, Invalidate, Save, Get, Select,
     CachePreferences, Delete, Uncache, Step
<1>2. pc[r] # "idle" /\ Known(r) /\ WellFormed(op[r])
  BY DEF ServeUser, FindEmail, Insert, Find, Invalidate, Save, Get, Select,
     CachePreferences, Delete, Uncache, Step, AuthInv, Control, Known
<1>3. pc' \in [Request -> {"idle", "done", "refused"} \cup Active]
  BY <1>1 DEF Goto, AuthInv, AuthTypeOK, Active, UserAwaits
<1>4. \A e : Hold(r, e) => /\ \A q \in Request : q # r => hand'[q] = hand[q]
                           /\ hand'[r] = e
                           /\ e \in Row => hand' \in [Request -> Row \cup {None}]
  BY DEF Hold, AuthInv, AuthTypeOK, StoreTypeOK
<1>o. op[r] \in OpType
  BY <1>2 DEF WellFormed
<1> USE DEF StoreTypeOK, Row, AuthInv, AuthTypeOK, OpType
<1>5. StoreTypeOK' /\ UNCHANGED faults
  <2>1. CASE FindEmail(r)
    BY <2>1 DEF FindEmail, storeVars
  <2>2. CASE Insert(r)
    <3>1. NewRow(r) \in Row
      BY <1>2, <2>2 DEF Insert, Step, Known, WellFormed, NewRow
    <3>2. hand' \in [Request -> Row \cup {None}] /\ UNCHANGED <<cache, removed, faults>>
      BY <1>4, <2>2, <3>1 DEF Insert
    <3>3. user' \in {NewRow(r), Reused, user}
      BY <2>2 DEF Insert
    <3> QED
      BY <3>1, <3>2, <3>3
  <2>3. CASE Find(r)
    <3>1. Exists => Changed(r) \in Row
      BY <1>o DEF Changed, Exists
    <3> QED
      BY <1>4, <2>3, <3>1 DEF Find
  <2>4. CASE Invalidate(r) \/ Uncache(r) \/ Delete(r)
    BY <2>4 DEF Invalidate, Uncache, Delete, Erase, Exists
  <2>5. CASE Save(r) \/ CachePreferences(r)
    BY <1>2, <2>5 DEF Save, CachePreferences, Step, Known
  <2>6. CASE Get(r)
    <3>1. cache # None => [prefs |-> cache, name |-> None] \in Row
      OBVIOUS
    <3> QED
      BY <1>4, <2>6, <3>1 DEF Get
  <2>7. CASE Select(r)
    <3>1. Exists => [prefs |-> user.prefs, name |-> None] \in Row
      BY DEF Exists
    <3> QED
      BY <1>4, <2>7, <3>1 DEF Select
  <2> QED
    BY <2>1, <2>2, <2>3, <2>4, <2>5, <2>6, <2>7 DEF ServeUser
<1>6. AuthTypeOK'
  BY <1>3, <1>5 DEF tokenVars
<1>7. \A q \in Request : q # r => hand'[q] = hand[q]
  BY <1>4 DEF ServeUser, FindEmail, Insert, Find, Invalidate, Save, Get, Select,
     CachePreferences, Delete, Uncache, storeVars
<1>8. WellFormed(op[r])' => Known(r)'
  <2>1. hand'[r] \in Row \cup {None}
    BY <1>5
  <2>2. CASE FindEmail(r) \/ Invalidate(r) \/ Save(r) \/ CachePreferences(r) \/ Delete(r)
             \/ Uncache(r)
    BY <1>2, <2>2 DEF FindEmail, Invalidate, Save, CachePreferences, Delete, Uncache, Step,
       Goto, Known, storeVars
  <2>3. CASE Insert(r)
    <3>1. hand'[r] \in Row
      BY <1>2, <1>4, <2>3 DEF Insert, Step, Known, WellFormed, NewRow
    <3> QED
      BY <1>2, <2>3, <3>1 DEF Insert, Step, Goto, Known
  <2>4. CASE Find(r)
    <3>1. Exists => hand'[r] \in Row
      BY <1>o, <1>4, <2>4 DEF Find, Changed, Exists
    <3> QED
      BY <1>2, <2>4, <3>1 DEF Find, Step, Goto, Known
  <2>5. CASE Get(r)
    BY <1>2, <2>5 DEF Get, Step, Goto, Known
  <2>6. CASE Select(r)
    <3>1. Exists => hand'[r] \in Row
      BY <1>4, <2>6 DEF Select, Exists
    <3> QED
      BY <1>2, <2>6, <3>1 DEF Select, Step, Goto, Known
  <2> QED
    BY <2>2, <2>3, <2>4, <2>5, <2>6 DEF ServeUser
<1> QED
  BY <1>1, <1>2, <1>6, <1>7, <1>8, OneSteps DEF tokenVars

LEMMA UserFailureInv ==
    ASSUME AuthInv, NEW r \in Request, RedisFailed(r) \/ QueryFailed(r),
           UNCHANGED <<env, op, tokenVars>>
    PROVE  AuthInv'
<1>1. PICK to \in {"done", "refused", "save", "select"} : Goto(r, to)
  BY DEF RedisFailed, QueryFailed, Step
<1>2. pc[r] # "idle" /\ Known(r) /\ WellFormed(op[r])
  BY DEF RedisFailed, QueryFailed, Step, AuthInv, Control, Known
<1>3. pc' \in [Request -> {"idle", "done", "refused"} \cup Active]
  BY <1>1 DEF Goto, AuthInv, AuthTypeOK, Active, UserAwaits
<1>4. faults' \in 0..env'.max /\ UNCHANGED hand
  BY FaultType DEF RedisFailed, QueryFailed
<1>5. StoreTypeOK'
  <2>1. pc[r] \in {"save", "cache"} => hand[r] \in Row
    BY <1>2 DEF Known
  <2>2. pc[r] = "insert" => NewRow(r) \in Row
    BY <1>2 DEF Known, WellFormed, NewRow, Row
  <2>3. CASE RedisFailed(r)
    BY <1>4, <2>1, <2>3 DEF RedisFailed, Step, StoreTypeOK, Row, AuthInv, AuthTypeOK
  <2>4. ASSUME QueryFailed(r) PROVE user' \in Row \cup {None, Gone, Reused}
    BY <2>1, <2>2, <2>4 DEF QueryFailed, Erase, StoreTypeOK, AuthInv, AuthTypeOK
  <2>5. ASSUME QueryFailed(r) PROVE removed' \in Prefs \cup {None} /\ cache' = cache
    BY <2>5 DEF QueryFailed, Erase, Exists, StoreTypeOK, Row, AuthInv, AuthTypeOK
  <2> QED
    BY <1>4, <2>3, <2>4, <2>5 DEF StoreTypeOK, AuthInv, AuthTypeOK
<1>6. AuthTypeOK'
  BY <1>3, <1>4, <1>5 DEF tokenVars, AuthInv, AuthTypeOK
<1>7. WellFormed(op[r])' => Known(r)'
  BY <1>2, <1>4 DEF RedisFailed, QueryFailed, Step, Goto, Known, AuthInv, AuthTypeOK
<1> QED
  BY <1>1, <1>2, <1>4, <1>6, <1>7, OneSteps DEF tokenVars

LEMMA AuthStepInv ==
    ASSUME AuthInv, NEW r \in Request, ServeAuth(r)
    PROVE  AuthInv'
<1>d. PICK from \in Active, to \in {"done", "refused"} \cup Active : Do(r, from, to)
  BY EntryType DEF ServeAuth, Guard, GuardUser, Password, GetStored, CheckRevoked, CheckUser,
     Store, Forget, Revoke, BlacklistAccess, BlacklistOther, Keys, Del, Validate, ValidateUser,
     Active, UserAwaits, Do, Step, AuthInv, Control, Known, WellFormed
<1>1. /\ pc[r] = from /\ Goto(r, to) /\ pc'[r] = to
      /\ pc' \in [Request -> {"idle", "done", "refused"} \cup Active]
      /\ UNCHANGED <<env, op, storeVars, expired>>
  BY <1>d DEF Do, Step, Goto, AuthInv, AuthTypeOK
<1>2. pc[r] # "idle" /\ Known(r) /\ WellFormed(op[r])
  BY <1>1 DEF Active, UserAwaits, AuthInv, Control, Known
<1>t. /\ Access(r) \in Token /\ Refresh(r) \in Token
      /\ \A t \in Token : t # None
  BY AuthConstants DEF Access, Refresh, Token, Session
<1>3. issued' \subseteq Token /\ issued \subseteq issued'
  BY <1>t DEF ServeAuth, Guard, GuardUser, Password, GetStored, CheckRevoked, CheckUser,
     Store, Grant, Forget, Revoke, BlacklistAccess, BlacklistOther, Keys, Del, Validate, ValidateUser, AuthInv,
     AuthTypeOK
<1>4. /\ blacklist' \subseteq issued' /\ used' \in [Token -> Nat]
      /\ before' \in [Request -> SUBSET issued']
      /\ brief' \subseteq {t \in blacklist' : t[1] = "refresh"}
  <2>1. CASE Revoke(r)
    <3>1. op[r].token \in issued
      BY <1>2, <2>1 DEF Revoke, Do, Step, Known, WellFormed
    <3> QED
      BY <1>3, <2>1, <3>1 DEF Revoke, PutOnBlacklist, AuthInv, AuthTypeOK
  <2>2. CASE BlacklistAccess(r) \/ BlacklistOther(r)
    <3>1. op[r].bearer \in issued
      BY <1>2, <2>2 DEF BlacklistAccess, BlacklistOther, Do, Step, Known, WellFormed
    <3> QED
      BY <1>3, <2>2, <3>1 DEF BlacklistAccess, BlacklistOther, PutOnBlacklist, AuthInv, AuthTypeOK
  <2>3. CASE UNCHANGED <<blacklist, brief, used, before>>
    BY <1>3, <2>3 DEF AuthInv, AuthTypeOK
  <2> QED
    BY <2>1, <2>2, <2>3 DEF ServeAuth, Guard, GuardUser, Password, GetStored, CheckRevoked,
       CheckUser, Store, Forget, Keys, Del, Validate, ValidateUser
<1>5. stored' \subseteq Token /\ doomed' \in [Request -> SUBSET Token] /\ ended' \subseteq issued'
  <2>1. CASE Store(r) \/ Forget(r)
    BY <1>3, <1>t, <2>1 DEF Store, Forget, StoredBecomes, AuthInv, AuthTypeOK
  <2>2. CASE Keys(r) \/ \E t \in doomed[r] : Del(r, t)
    BY <1>3, <2>2 DEF Keys, Del, StoredBecomes, Remaining, AuthInv, AuthTypeOK
  <2>3. CASE UNCHANGED <<stored, doomed, ended>>
    BY <1>3, <2>3 DEF AuthInv, AuthTypeOK
  <2> QED
    BY <2>1, <2>2, <2>3 DEF ServeAuth, Guard, GuardUser, Password, GetStored, CheckRevoked,
       CheckUser, Revoke, BlacklistAccess, BlacklistOther, Validate, ValidateUser
<1>6. faults' \in 0..env.max
  BY FaultType DEF ServeAuth, Guard, GuardUser, Password, GetStored, CheckRevoked, CheckUser,
     Store, Forget, Revoke, BlacklistAccess, BlacklistOther, Keys, Del, Validate, ValidateUser, StoredBecomes,
     PutOnBlacklist, AuthInv, AuthTypeOK
<1>7. AuthTypeOK'
  BY <1>1, <1>3, <1>4, <1>5, <1>6 DEF AuthInv, AuthTypeOK, StoreTypeOK, storeVars
<1>8. WellFormed(op[r])' => Known(r)'
  <2> SUFFICES ASSUME WellFormed(op[r])' PROVE Known(r)'
    OBVIOUS
  <2>1. op[r] \in OpType /\ op'[r] = op[r] /\ hand'[r] = hand[r]
    BY <1>1, <1>2 DEF WellFormed, storeVars
  <2>2. CASE GuardUser(r)
    <3>1. \/ to = "refused" \/ (to = Entry(op[r]) /\ op[r].kind \notin Public)
          \/ to = "blacklist_other" /\ op[r].kind = "logout"
      BY <1>1, <1>2, <2>2 DEF GuardUser, Do, Step, Goto, Known, AuthInv, AuthTypeOK
    <3> QED
      BY <1>1, <2>1, <3>1, EntryType DEF Known, Public
  <2>3. CASE Guard(r) \/ Password(r) \/ Validate(r) \/ ValidateUser(r)
    BY <1>2, <2>1, <2>3 DEF Guard, Password, Validate, ValidateUser, Do, Step, Goto, Known,
       AuthInv, AuthTypeOK
  <2>4. CASE GetStored(r) \/ CheckRevoked(r) \/ CheckUser(r) \/ Revoke(r)
    BY <1>2, <2>1, <2>4 DEF GetStored, CheckRevoked, CheckUser, Revoke, Do, Step, Goto, Known,
       AuthInv, AuthTypeOK
  <2>5. CASE Store(r) \/ Forget(r)
    BY <1>2, <2>1, <2>5 DEF Store, Forget, Do, Step, Goto, Known, AuthInv, AuthTypeOK
  <2>6. CASE \/ BlacklistAccess(r) \/ BlacklistOther(r) \/ Keys(r)
             \/ \E t \in doomed[r] : Del(r, t)
    BY <1>2, <2>1, <2>6 DEF BlacklistAccess, BlacklistOther, Keys, Del, Do, Step, Goto, Known, AuthInv, AuthTypeOK
  <2> QED
    BY <2>2, <2>3, <2>4, <2>5, <2>6 DEF ServeAuth
<1> QED
  BY <1>1, <1>2, <1>3, <1>7, <1>8, OneSteps DEF storeVars

LEMMA AuthFailureInv ==
    ASSUME AuthInv, NEW r \in Request, ReadFailed(r) \/ LookupFailed(r)
    PROVE  AuthInv'
<1>1. PICK to \in {"refused", "guard_user", "check_user", "validate_user"} : Goto(r, to)
  BY DEF ReadFailed, LookupFailed, Step
<1>2. pc[r] # "idle" /\ Known(r)
  BY DEF ReadFailed, LookupFailed, Step, AuthInv, Control
<1>3. AuthTypeOK'
  BY <1>1, FaultType DEF ReadFailed, LookupFailed, Goto, Active, AuthInv, AuthTypeOK, StoreTypeOK,
     storeVars, tokenVars
<1>4. WellFormed(op[r])' => Known(r)'
  BY <1>2 DEF ReadFailed, LookupFailed, Step, Goto, Known, AuthInv, AuthTypeOK, storeVars
<1> QED
  BY <1>1, <1>2, <1>3, <1>4, OneSteps DEF ReadFailed, LookupFailed, storeVars, tokenVars

\* A step that stops requests, or touches none, keeps what is known of them.
LEMMA QuietSteps ==
    ASSUME AuthInv, AuthTypeOK', UNCHANGED <<op, hand>>, issued \subseteq issued',
           \A q \in Request : pc'[q] = pc[q] \/ (pc'[q] = "refused" /\ pc[q] # "idle")
    PROVE  AuthInv'
<1>1. ASSUME NEW q \in Request PROVE Known(q)'
  <2>1. pc[q] # "idle" => WellFormed(op[q])'
    BY WellFormedGrows DEF AuthInv, Control, Known
  <2> QED
    BY <2>1 DEF AuthInv, Control, Known
<1> QED
  BY <1>1 DEF AuthInv, Control

LEMMA DtoType ==
    ASSUME NEW kind \in Kinds, NEW d \in Dtos(kind)
    PROVE  /\ d.prefs \in Prefs \cup {None} /\ d.name \in Names \cup {None}
           /\ kind = "create" => d.prefs \in Prefs /\ d.name \in Names
BY DEF Dtos

LEMMA ArriveInv ==
    ASSUME AuthInv, NEW r \in Request, NEW kind \in Kinds, Arrive(r, kind)
    PROVE  AuthInv'
<1>1. PICK d \in Dtos(kind), b \in Bearers(kind), t \in Bodies(kind) :
         Begin(r, Operation(kind, d, b, t))
  BY DEF Arrive
<1>2. WellFormed(Operation(kind, d, b, t))
  BY DtoType DEF WellFormed, Operation, OpType, Bearers, Bodies, Public, AuthInv, AuthTypeOK
<1> QED
  BY <1>1, <1>2, BeginInv

LEMMA AuthNextInv == ASSUME AuthInv, AuthNext PROVE AuthInv'
<1>1. ASSUME NEW r \in Request, NEW kind \in env.kinds, Arrive(r, kind) PROVE AuthInv'
  BY <1>1, EnvType, ArriveInv
<1>2. ASSUME NEW t \in issued, ExpireToken(t) \/ ExpireListing(t) PROVE AuthInv'
  <2>1. AuthTypeOK'
    BY <1>2, FaultType DEF ExpireToken, ExpireListing, AuthInv, AuthTypeOK, StoreTypeOK, storeVars
  <2> QED
    BY <1>2, <2>1, QuietSteps DEF ExpireToken, ExpireListing, storeVars
<1>3. CASE ExpireCache /\ UNCHANGED <<env, op, tokenVars>>
  <2>1. AuthTypeOK'
    BY <1>3 DEF ExpireCache, AuthInv, AuthTypeOK, StoreTypeOK, tokenVars
  <2> QED
    BY <1>3, <2>1, QuietSteps DEF ExpireCache, tokenVars
<1>4. CASE Crash
  <2>1. AuthTypeOK'
    BY <1>4, FaultType DEF Crash, AuthInv, AuthTypeOK, StoreTypeOK, storeVars, tokenVars
  <2> QED
    BY <1>4, <2>1, QuietSteps DEF Crash, storeVars, tokenVars, Active, UserAwaits
<1> QED
  BY <1>1, <1>2, <1>3, <1>4, UserStepInv, UserFailureInv, AuthStepInv, AuthFailureInv
     DEF AuthNext

-----------------------------------------------------------------------------
(* The gateway. *)

GatewayOp == [route : Routes, late : BOOLEAN, o : OpType]

\* What a gateway request that is not answered yet will send.
WillSend(g) ==
    /\ gop[g] \in GatewayOp /\ WellFormed(gop[g].o)
    /\ gop[g].o.kind \in UserKinds \cup {"login", "validate"}
    /\ gpc[g] \in {"guard", "guarding"} => gop[g].o.bearer \in issued \cup {Other}

GatewayInv ==
    /\ gpc \in [Client -> {"idle"} \cup Open \cup Statuses]
    /\ gop \in [Client -> GatewayOp \cup {None}]
    /\ call \in [Client -> Request \cup {None}]
    /\ \A g \in Client : gpc[g] \in Open => WillSend(g)
    /\ \A g \in Client : gpc[g] \in Waiting => call[g] \in Request /\ pc[call[g]] # "idle"

\* Nothing the user-service does makes tokens disappear, and no request that
\* is over goes on.
LEMMA AuthProgress ==
    ASSUME AuthInv, AuthNext \/ \E r \in Request, o \in OpType : Begin(r, o)
    PROVE  /\ UNCHANGED env /\ issued \subseteq issued'
           /\ \A r \in Request : pc[r] # "idle" => pc'[r] # "idle"
           /\ \A r \in Request : pc[r] \in {"done", "refused"} => pc'[r] = pc[r]
<1>1. ASSUME NEW r \in Request, ServeAuth(r)
      PROVE  /\ UNCHANGED env /\ issued \subseteq issued'
             /\ \A q \in Request : pc[q] # "idle" => pc'[q] # "idle"
             /\ \A q \in Request : pc[q] \in {"done", "refused"} => pc'[q] = pc[q]
  <2>1. Known(r) /\ (pc[r] # "idle" => op[r] \in OpType)
    BY DEF AuthInv, Control, Known, WellFormed
  <2>2. pc'[r] # "idle"
    <3>1. CASE GuardUser(r)
      BY <2>1, <3>1, EntryType DEF GuardUser, Do, Step, Goto, AuthInv, AuthTypeOK
    <3>2. CASE ~GuardUser(r)
      BY <1>1, <3>2 DEF ServeAuth, Guard, Password, GetStored, CheckRevoked, CheckUser, Store,
         Forget, Revoke, BlacklistAccess, BlacklistOther, Keys, Del, Validate, ValidateUser, Do, Step, Goto,
         AuthInv, AuthTypeOK
    <3> QED
      BY <3>1, <3>2
  <2>3. \A q \in Request : q # r => pc'[q] = pc[q]
    BY <1>1 DEF ServeAuth, Guard, GuardUser, Password, GetStored, CheckRevoked, CheckUser, Store,
       Forget, Revoke, BlacklistAccess, BlacklistOther, Keys, Del, Validate, ValidateUser, Do, Step, Goto,
       AuthInv, AuthTypeOK
  <2>4. pc[r] \notin {"done", "refused"}
    BY <1>1 DEF ServeAuth, Guard, GuardUser, Password, GetStored, CheckRevoked, CheckUser, Store,
       Forget, Revoke, BlacklistAccess, BlacklistOther, Keys, Del, Validate, ValidateUser, Do, Step
  <2>5. UNCHANGED env /\ issued \subseteq issued'
    BY <1>1 DEF ServeAuth, Guard, GuardUser, Password, GetStored, CheckRevoked, CheckUser, Store,
       Grant, Forget, Revoke, BlacklistAccess, BlacklistOther, Keys, Del, Validate, ValidateUser, Do
  <2> QED
    BY <2>2, <2>3, <2>4, <2>5
<1>2. ASSUME NEW r \in Request, NEW o, Begin(r, o)
      PROVE  /\ UNCHANGED env /\ issued \subseteq issued'
             /\ \A q \in Request : pc[q] # "idle" => pc'[q] # "idle"
             /\ \A q \in Request : pc[q] \in {"done", "refused"} => pc'[q] = pc[q]
  BY <1>2 DEF Begin, Step, Goto, tokenVars, AuthInv, AuthTypeOK
<1>3. ASSUME NEW r \in Request, ServeUser(r) \/ RedisFailed(r) \/ QueryFailed(r)
      PROVE  /\ \A q \in Request : pc[q] # "idle" => pc'[q] # "idle"
             /\ \A q \in Request : pc[q] \in {"done", "refused"} => pc'[q] = pc[q]
  BY <1>3 DEF ServeUser, FindEmail, Insert, Find, Invalidate, Save, Get, Select,
     CachePreferences, Delete, Uncache, RedisFailed, QueryFailed, Step, Goto, AuthInv, AuthTypeOK
<1>4. ASSUME NEW r \in Request, ReadFailed(r) \/ LookupFailed(r)
      PROVE  /\ UNCHANGED <<env, issued>>
             /\ \A q \in Request : pc[q] # "idle" => pc'[q] # "idle"
             /\ \A q \in Request : pc[q] \in {"done", "refused"} => pc'[q] = pc[q]
  BY <1>4 DEF ReadFailed, LookupFailed, Step, Goto, tokenVars, AuthInv, AuthTypeOK
<1>5. ASSUME Crash \/ ExpireCache \/ \E t \in issued : ExpireToken(t) \/ ExpireListing(t)
      PROVE  /\ \A q \in Request : pc[q] # "idle" => pc'[q] # "idle"
             /\ \A q \in Request : pc[q] \in {"done", "refused"} => pc'[q] = pc[q]
  BY <1>5 DEF Crash, ExpireCache, ExpireToken, ExpireListing, Active, UserAwaits
<1> QED
  BY <1>1, <1>2, <1>3, <1>4, <1>5 DEF AuthNext, Arrive, Crash, ExpireToken, ExpireListing,
     tokenVars

LEMMA NextCallForm ==
    ASSUME AuthInv, GatewayInv, NEW g \in Client, gpc[g] \in {"guard", "forward"}
    PROVE  WellFormed(NextCall(g)) /\ NextCall(g).kind \notin {"refresh", "logout"}
<1>1. WillSend(g)
  BY DEF GatewayInv, Open
<1> QED
  BY <1>1 DEF WillSend, NextCall, WellFormed, Operation, OpType, Kinds, UserKinds, AuthKinds,
     Public, GatewayOp, AuthInv, AuthTypeOK

\* Gateway requests that do not move keep what they will send.
LEMMA OthersSend ==
    ASSUME AuthInv, GatewayInv, issued \subseteq issued', NEW g \in Client,
           gpc[g] \in Open, gpc'[g] = gpc[g], gop'[g] = gop[g]
    PROVE  WillSend(g)'
BY WellFormedGrows DEF GatewayInv, WillSend

LEMMA ConcludeInv ==
    ASSUME AuthInv, GatewayInv, NEW g \in Client, gpc[g] \in Open,
           NEW labels, labels \subseteq Statuses \cup {"forward"}, Conclude(g, labels),
           issued' = issued, pc' = pc
    PROVE  GatewayInv'
<1>1. PICK l \in Statuses \cup {"forward"} : gpc' = [gpc EXCEPT ![g] = l]
  BY DEF Conclude
<1>2. l = "forward" => WillSend(g)'
  BY <1>1 DEF Conclude, GatewayInv, WillSend, WellFormed
<1>3. \A h \in Client : h # g /\ gpc[h] \in Open => WillSend(h)'
  BY <1>1, OthersSend DEF Conclude, GatewayInv
<1>4. \A h \in Client : gpc'[h] \in Open => WillSend(h)'
  BY <1>1, <1>2, <1>3 DEF GatewayInv, Statuses, Open, Waiting
<1> QED
  BY <1>1, <1>4 DEF Conclude, GatewayInv, Statuses, Open, Waiting

LEMMA OperationForm ==
    ASSUME AuthInv, NEW route \in Routes, NEW kind \in Target(route),
           NEW b \in issued \cup {None, Other}, NEW d \in Dtos(kind), NEW t \in Bodies(kind),
           ~Guarded(route) => b = None
    PROVE  LET o == Operation(kind, d, b, IF route = "me" THEN b ELSE t)
           IN  /\ o \in OpType
               /\ o.bearer = b
               /\ o.kind \in UserKinds \cup {"login", "validate"}
               /\ ~Guarded(route) \/ b # None => WellFormed(o)
<1>1. kind \in Kinds /\ kind \in UserKinds \cup {"login", "validate"}
  BY DEF Target, Routes, Kinds, UserKinds, AuthKinds
<1>2. t \in issued \cup {None} /\ (kind = "validate" => t \in issued)
  BY <1>1 DEF Bodies, UserKinds
<1>3. ~Guarded(route) => kind \in Public
  BY DEF Guarded, Target, Routes, Public
<1>4. route = "me" => Guarded(route)
  BY DEF Guarded
<1>5. issued \subseteq Token
  BY DEF AuthInv, AuthTypeOK
<1>6. /\ d.prefs \in Prefs \cup {None} /\ d.name \in Names \cup {None}
      /\ kind = "create" => d.prefs \in Prefs /\ d.name \in Names
  BY <1>1, DtoType
<1>7. kind \notin {"refresh", "logout"}
  BY <1>1 DEF UserKinds
<1> QED
  BY <1>1, <1>2, <1>3, <1>4, <1>5, <1>6, <1>7 DEF WellFormed, Operation, OpType

LEMMA GatewayStepInv ==
    ASSUME AuthInv, GatewayInv, [Next]_vars
    PROVE  AuthInv' /\ GatewayInv'
<1>1. CASE AuthNext /\ UNCHANGED gatewayVars
  <2>1. AuthInv'
    BY <1>1, AuthNextInv
  <2>2. issued \subseteq issued' /\ \A r \in Request : pc[r] # "idle" => pc'[r] # "idle"
    BY <1>1, AuthProgress
  <2>3. \A g \in Client : gpc'[g] \in Open => WillSend(g)'
    BY <1>1, <2>2, OthersSend DEF gatewayVars
  <2> QED
    BY <1>1, <2>1, <2>2, <2>3 DEF gatewayVars, GatewayInv
<1>2. ASSUME NEW g \in Client, NEW route \in env.routes, NEW kind \in Target(route),
             GatewayArrive(g, route, kind)
      PROVE  AuthInv' /\ GatewayInv'
  <2>0. route \in Routes
    BY EnvType
  <2>1. AuthInv'
    BY <1>2 DEF GatewayArrive, authVars, storeVars, tokenVars, AuthInv, AuthTypeOK, StoreTypeOK,
       Control, Known, WellFormed
  <2>2. PICK b \in issued \cup {None, Other}, d \in Dtos(kind), t \in Bodies(kind) :
          /\ ~Guarded(route) => b = None
          /\ gop' = [gop EXCEPT ![g] = [route |-> route, late |-> b \in LoggedOut,
                        o |-> Operation(kind, d, b, IF route = "me" THEN b ELSE t)]]
          /\ gpc' = [gpc EXCEPT ![g] = IF ~Guarded(route) THEN "forward"
                                       ELSE IF b = None THEN "401" ELSE "guard"]
    BY <1>2 DEF GatewayArrive
  <2> DEFINE o == Operation(kind, d, b, IF route = "me" THEN b ELSE t)
  <2>3. /\ o \in OpType /\ o.bearer = b /\ o.kind \in UserKinds \cup {"login", "validate"}
        /\ ~Guarded(route) \/ b # None => WellFormed(o)
    BY <2>0, <2>2, OperationForm
  <2>4. issued' = issued /\ pc' = pc /\ call' = call
    BY <1>2 DEF GatewayArrive, authVars, tokenVars
  <2>5. gop'[g] = [route |-> route, late |-> b \in LoggedOut, o |-> o]
        /\ gop'[g] \in GatewayOp
    <3> HIDE DEF o
    <3>1. gop'[g] = [route |-> route, late |-> b \in LoggedOut, o |-> o]
      BY <2>2 DEF GatewayInv, o
    <3> QED
      BY <3>1, <2>0, <2>3 DEF GatewayOp
  <2>6. gpc'[g] \in Open => WillSend(g)'
    <3> HIDE DEF o
    <3>1. gpc'[g] \in Open => WellFormed(o)' /\ (gpc'[g] = "guard" => b # None)
      BY <2>2, <2>3, <2>4, WellFormedGrows DEF GatewayInv, Open, Waiting
    <3>2. gpc'[g] # "guarding"
      BY <2>2 DEF GatewayInv
    <3> QED
      BY <2>2, <2>3, <2>4, <2>5, <3>1, <3>2 DEF WillSend
  <2>7. \A h \in Client : h # g /\ gpc'[h] \in Open => WillSend(h)'
    BY <2>2, <2>4, OthersSend DEF GatewayInv
  <2>8. /\ gpc' \in [Client -> {"idle"} \cup Open \cup Statuses]
        /\ gop' \in [Client -> GatewayOp \cup {None}]
        /\ \A h \in Client : gpc'[h] \in Waiting => gpc[h] \in Waiting
    <3>1. gpc' \in [Client -> {"idle"} \cup Open \cup Statuses]
          /\ \A h \in Client : gpc'[h] \in Waiting => gpc[h] \in Waiting
      BY <2>2 DEF GatewayInv, Open, Statuses, Waiting
    <3> QED
      BY <2>2, <2>5, <3>1 DEF GatewayInv
  <2> QED
    BY <2>1, <2>4, <2>6, <2>7, <2>8 DEF GatewayInv
<1>3. ASSUME NEW g \in Client, NEW r \in Request, GatewayCall(g, r)
      PROVE  AuthInv' /\ GatewayInv'
  <2>1. WellFormed(NextCall(g)) /\ Begin(r, NextCall(g))
    BY <1>3, NextCallForm DEF GatewayCall
  <2>2. AuthInv'
    BY <2>1, BeginInv
  <2>3. /\ issued \subseteq issued' /\ \A q \in Request : pc[q] # "idle" => pc'[q] # "idle"
        /\ pc'[r] # "idle"
    <3>1. NextCall(g) \in OpType
      BY <2>1 DEF WellFormed
    <3>2. pc'[r] # "idle"
      BY <2>1, <3>1, EntryType DEF Begin, Step, Goto, AuthInv, AuthTypeOK
    <3> QED
      BY <2>1, <3>1, <3>2, AuthProgress
  <2>4. /\ gpc[g] \in {"guard", "forward"} /\ gop' = gop
        /\ gpc' = [gpc EXCEPT ![g] = IF gpc[g] = "guard" THEN "guarding" ELSE "forwarding"]
        /\ call' = [call EXCEPT ![g] = r]
    BY <1>3 DEF GatewayCall
  <2>5. WillSend(g)'
    BY <2>3, <2>4, WellFormedGrows DEF GatewayInv, WillSend, Open
  <2>6. \A h \in Client : gpc'[h] \in Open => WillSend(h)'
    BY <2>3, <2>4, <2>5, OthersSend DEF GatewayInv
  <2> QED
    BY <2>2, <2>3, <2>4, <2>6 DEF GatewayInv, Open, Waiting
<1>4. ASSUME NEW g \in Client, GatewayTimeout(g) \/ GatewayReply(g) \/ GatewayUnreachable(g)
      PROVE  AuthInv' /\ GatewayInv'
  <2>1. PICK labels : labels \subseteq Statuses \cup {"forward"} /\ Conclude(g, labels)
    BY <1>4 DEF GatewayTimeout, GatewayReply, GatewayUnreachable, Outcome, Statuses
  <2>2. /\ UNCHANGED <<env, pc, op, storeVars, tokenVars>>
        /\ faults' = faults \/ Fault("network")
    BY <1>4 DEF GatewayTimeout, GatewayReply, GatewayUnreachable, authVars
  <2>3. faults' \in 0..env.max
    BY <2>2, FaultType DEF AuthInv, AuthTypeOK
  <2>4. AuthInv'
    BY <2>2, <2>3 DEF storeVars, tokenVars, AuthInv, AuthTypeOK, StoreTypeOK, Control, Known,
       WellFormed
  <2>5. gpc[g] \in Open
    BY <1>4 DEF GatewayTimeout, GatewayReply, GatewayUnreachable, Open
  <2> QED
    BY <2>1, <2>2, <2>4, <2>5, ConcludeInv DEF tokenVars
<1>5. CASE UNCHANGED vars
  BY <1>5 DEF vars, authVars, gatewayVars, storeVars, tokenVars, AuthInv, AuthTypeOK, StoreTypeOK,
     Control, Known, WellFormed, GatewayInv, WillSend
<1> QED
  BY <1>1, <1>2, <1>3, <1>4, <1>5 DEF Next, GatewayStep, Idle

LEMMA InvHolds == Spec => [](AuthInv /\ GatewayInv)
<1>1. Init => AuthInv /\ GatewayInv
  <2> SUFFICES ASSUME Init PROVE AuthInv /\ GatewayInv
    OBVIOUS
  <2>1. StoreTypeOK
    BY DEF Init, AuthInit, StoreTypeOK, Row
  <2>2. Access(0) \in Token /\ Refresh(0) \in Token
    BY DEF Access, Refresh, Token, Session
  <2>3. AuthTypeOK
    BY <2>1, <2>2, AuthConstants DEF Init, AuthInit, AuthTypeOK
  <2>4. Control
    BY DEF Init, AuthInit, Control, Known
  <2> QED
    BY <2>3, <2>4 DEF Init, AuthInv, GatewayInv, Open, Waiting
<1> QED
  BY <1>1, GatewayStepInv, PTL DEF Spec

\* Whatever requests run beside each other and fail, every field keeps its
\* type: only issued tokens are blacklisted, and a gateway request waits only
\* for a request that was made.
THEOREM TypeInvariant == Spec => []TypeOK
<1>1. AuthInv /\ GatewayInv => TypeOK
  BY DEF AuthInv, GatewayInv, TypeOK
<1> QED
  BY <1>1, InvHolds, PTL

-----------------------------------------------------------------------------
(* Steps, grouped by what they do to the tokens. *)

\* The gateway answers or takes a request, or nothing happens.
AuthIdle == UNCHANGED <<env, pc, op, storeVars, tokenVars>> /\ faults' >= faults

\* The user-service takes a request.
Taken == \E r \in Request : \E o \in OpType : Begin(r, o)

\* Requests for the user's row, expiry, failures and crashes.
PlainStep ==
    \/ \E r \in Request : ReadFailed(r) \/ LookupFailed(r)
    \/ /\ \E r \in Request : ServeUser(r) \/ RedisFailed(r) \/ QueryFailed(r)
       /\ UNCHANGED <<env, op, tokenVars>>
    \/ \E t \in issued : ExpireToken(t) \/ ExpireListing(t)
    \/ ExpireCache /\ UNCHANGED <<env, op, tokenVars>>
    \/ Crash

LEMMA StepSources ==
    ASSUME AuthInv, [Next]_vars
    PROVE  \/ (\E r \in Request : ServeAuth(r)) \/ PlainStep \/ AuthIdle
           \/ \E r \in Request : \E kind \in env.kinds : Arrive(r, kind)
           \/ \E g \in Client, r \in Request : GatewayCall(g, r)
<1>1. faults \in Nat
  BY EnvType DEF AuthInv, AuthTypeOK
<1>2. ASSUME NEW g \in Client PROVE GatewayUnreachable(g) => AuthIdle
  BY <1>1 DEF GatewayUnreachable, AuthIdle, Fault
<1>3. UNCHANGED authVars => AuthIdle
  BY <1>1 DEF AuthIdle, authVars
<1>4. UNCHANGED vars => UNCHANGED authVars
  BY DEF vars
<1>5. ASSUME NEW g \in Client
      PROVE  /\ GatewayTimeout(g) \/ GatewayReply(g) => UNCHANGED authVars
             /\ \A route, kind : GatewayArrive(g, route, kind) => UNCHANGED authVars
  BY DEF GatewayTimeout, GatewayReply, GatewayArrive
<1>6. CASE AuthNext
  BY <1>6 DEF AuthNext, PlainStep
<1> QED
  BY <1>2, <1>3, <1>4, <1>5, <1>6 DEF Next, GatewayStep, Idle

LEMMA ArrivalTaken ==
    ASSUME AuthInv, NEW r \in Request, NEW kind \in env.kinds, Arrive(r, kind)
    PROVE  \E o \in OpType : Begin(r, o)
<1>1. PICK d \in Dtos(kind), b \in Bearers(kind), t \in Bodies(kind) :
         Begin(r, Operation(kind, d, b, t))
  BY DEF Arrive
<1>2. Operation(kind, d, b, t) \in OpType
  BY EnvType, DtoType DEF Operation, OpType, Bearers, Bodies, AuthInv, AuthTypeOK
<1> QED
  BY <1>1, <1>2

LEMMA StepKinds ==
    ASSUME AuthInv, GatewayInv, [Next]_vars
    PROVE  \/ \E r \in Request : ServeAuth(r)
           \/ Taken \/ PlainStep \/ AuthIdle
<1>1. ASSUME NEW g \in Client, NEW r \in Request, GatewayCall(g, r) PROVE Taken
  BY <1>1, NextCallForm DEF GatewayCall, Taken, WellFormed
<1> QED
  BY <1>1, StepSources, ArrivalTaken DEF Taken

\* Plain steps and arrivals change no token but those that expire, and take
\* none off the blacklist but those that a logout put there for a short time.
LEMMA PlainSteps ==
    ASSUME AuthInv, PlainStep \/ Taken \/ AuthIdle
    PROVE  /\ UNCHANGED <<env, issued, stored, doomed, used, before, ended>>
           /\ faults' >= faults
           /\ \/ UNCHANGED blacklist
              \/ \E t \in brief : blacklist' = blacklist \ {t} /\ Fault("expiry")
           /\ \A r \in Request : pc'[r] \in {"done", "del", "keys", "store", "forget", "revoke"}
                 /\ pc'[r] # pc[r] => op[r].kind \in UserKinds /\ pc'[r] = "done"
           /\ \A r \in Request : pc[r] # "idle" => op'[r] = op[r]
<1> USE DEF AuthInv, AuthTypeOK
<1>f. faults \in Nat /\ env.max \in Nat
  BY EnvType
<1>1. ASSUME NEW r \in Request, ReadFailed(r) \/ LookupFailed(r)
      PROVE  /\ UNCHANGED <<env, op, tokenVars>> /\ faults' >= faults
             /\ \A q \in Request : pc'[q] # pc[q]
                   => pc'[q] \in {"refused", "guard_user", "check_user", "validate_user"}
  BY <1>1, <1>f DEF ReadFailed, LookupFailed, Step, Goto, Fault
<1>2. ASSUME NEW r \in Request, ServeUser(r) \/ RedisFailed(r) \/ QueryFailed(r)
      PROVE  /\ faults' >= faults /\ Known(r)
             /\ \A q \in Request : pc'[q] # pc[q] => q = r
             /\ pc[r] \in UserAwaits
             /\ pc'[r] \in UserAwaits \cup {"done", "refused"}
  BY <1>2, <1>f DEF ServeUser, FindEmail, Insert, Find, Invalidate, Save, Get, Select,
     CachePreferences, Delete, Uncache, RedisFailed, QueryFailed, Step, Goto, Fault, Control,
     UserAwaits
<1>3. ASSUME NEW r \in Request, ServeUser(r) \/ RedisFailed(r) \/ QueryFailed(r)
      PROVE  op[r].kind \in UserKinds
  BY <1>2, <1>3 DEF Known, UserAwaits, UserKinds
<1>4. ASSUME NEW r \in Request, NEW o \in OpType, Begin(r, o)
      PROVE  /\ UNCHANGED <<env, faults, tokenVars>>
             /\ \A q \in Request : q # r => pc'[q] = pc[q] /\ op'[q] = op[q]
             /\ pc[r] = "idle"
             /\ pc'[r] \notin {"done", "del", "keys", "store", "forget", "revoke"}
  BY <1>4, EntryType DEF Begin, Step, Goto
<1>5. CASE Crash \/ AuthIdle \/ \E t \in issued : ExpireToken(t)
  BY <1>5, <1>f DEF Crash, AuthIdle, ExpireToken, Fault, tokenVars
<1>l. CASE \E t \in issued : ExpireListing(t)
  <2>1. PICK t \in issued : ExpireListing(t)
    BY <1>l
  <2> QED
    BY <2>1, <1>f DEF ExpireListing, Fault
<1>6. CASE ExpireCache /\ UNCHANGED <<env, op, tokenVars>>
  BY <1>6, <1>f DEF ExpireCache, tokenVars
<1>7. CASE \E r \in Request : ReadFailed(r) \/ LookupFailed(r)
  BY <1>1, <1>7 DEF tokenVars
<1>8. CASE /\ \E r \in Request : ServeUser(r) \/ RedisFailed(r) \/ QueryFailed(r)
           /\ UNCHANGED <<env, op, tokenVars>>
  BY <1>2, <1>3, <1>8 DEF tokenVars, UserAwaits
<1>9. CASE Taken
  BY <1>4, <1>9, <1>f DEF Taken, tokenVars
<1> QED
  BY <1>5, <1>l, <1>6, <1>7, <1>8, <1>9 DEF PlainStep

-----------------------------------------------------------------------------
(* Logout. *)

\* A client gets the tokens of a login or refresh when it is done.
FreshTokens == \A r \in Request : Refresh(r) \in issued => pc[r] = "done"

LEMMA FreshStep == AuthInv /\ GatewayInv /\ FreshTokens /\ [Next]_vars => FreshTokens'
<1> SUFFICES ASSUME AuthInv, GatewayInv, FreshTokens, [Next]_vars PROVE FreshTokens'
  OBVIOUS
<1>1. ASSUME NEW r \in Request, ServeAuth(r) PROVE FreshTokens'
  <2>1. \A q \in Request : pc[q] = "done" => pc'[q] = "done"
    BY <1>1, AuthProgress DEF AuthNext
  <2>2. CASE issued' = issued
    BY <2>1, <2>2 DEF FreshTokens
  <2>3. CASE Grant(r) /\ pc'[r] = "done"
    BY <2>1, <2>3 DEF FreshTokens, Grant, Access, Refresh
  <2> QED
    BY <1>1, <2>2, <2>3 DEF ServeAuth, Guard, GuardUser, Password, GetStored, CheckRevoked,
       CheckUser, Store, Forget, Revoke, BlacklistAccess, BlacklistOther, Keys, Del, Validate, ValidateUser, Do,
       Step, Goto, AuthInv, AuthTypeOK
<1>2. CASE Taken \/ PlainStep \/ AuthIdle
  <2>1. \A q \in Request : pc[q] = "done" => pc'[q] = "done"
    BY <1>2, AuthProgress DEF Taken, PlainStep, AuthNext, AuthIdle
  <2> QED
    BY <1>2, <2>1, PlainSteps DEF FreshTokens
<1> QED
  BY <1>1, <1>2, StepKinds

RedisAnswers == "redis" \notin env.faults

\* A logout that has read the keys has still to delete the stored tokens that
\* were issued before it.
LogoutInv ==
    /\ stored \cap ended = {}
    /\ \A r \in Request : pc[r] = "del" => stored \cap before[r] \subseteq doomed[r]

LEMMA LogoutStep ==
    AuthInv /\ GatewayInv /\ FreshTokens /\ RedisAnswers /\ LogoutInv /\ [Next]_vars
    => LogoutInv'
<1> SUFFICES ASSUME AuthInv, GatewayInv, FreshTokens, RedisAnswers, LogoutInv, [Next]_vars
             PROVE  LogoutInv'
  OBVIOUS
<1>1. ASSUME NEW r \in Request, Store(r) PROVE LogoutInv'
  <2>1. Refresh(r) \notin issued
    BY <1>1 DEF Store, Do, Step, FreshTokens
  <2>2. /\ stored' \subseteq stored \cup {Refresh(r)}
        /\ UNCHANGED <<doomed, before, ended>>
        /\ \A q \in Request : pc'[q] = "del" => pc[q] = "del"
    BY <1>1 DEF Store, StoredBecomes, Do, Step, Goto, AuthInv, AuthTypeOK
  <2> QED
    BY <2>1, <2>2 DEF LogoutInv, AuthInv, AuthTypeOK
<1>2. ASSUME NEW r \in Request, Keys(r) PROVE LogoutInv'
  BY <1>2 DEF Keys, Remaining, Do, Step, Goto, LogoutInv, AuthInv, AuthTypeOK
<1>3. ASSUME NEW r \in Request, NEW t \in doomed[r], Del(r, t) PROVE LogoutInv'
  <2>1. stored' = stored \ {t}
    BY <1>3 DEF Del, StoredBecomes, Fault, RedisAnswers
  <2>2. stored \cap before[r] \subseteq doomed[r]
    BY <1>3 DEF Del, Do, Step, LogoutInv
  <2> QED
    BY <1>3, <2>1, <2>2 DEF Del, Remaining, Do, Step, Goto, LogoutInv, AuthInv, AuthTypeOK
<1>4. ASSUME NEW r \in Request, BlacklistAccess(r) PROVE LogoutInv'
  BY <1>4 DEF BlacklistAccess, Do, Step, Goto, LogoutInv, AuthInv, AuthTypeOK
<1>5. ASSUME NEW r \in Request, ServeAuth(r), ~Keys(r), stored' \subseteq stored,
             UNCHANGED <<doomed, before, ended>>
      PROVE  LogoutInv'
  <2>1. \A q \in Request : pc'[q] = "del" => pc[q] = "del"
    <3>1. CASE GuardUser(r)
      <4>1. Known(r) /\ op[r] \in OpType
        BY <3>1 DEF GuardUser, Do, Step, AuthInv, Control, Known, WellFormed
      <4> QED
        BY <3>1, <4>1, EntryType DEF GuardUser, Do, Step, Goto, AuthInv, AuthTypeOK
    <3>2. CASE ~GuardUser(r)
      BY <1>5, <3>2 DEF ServeAuth, Guard, Password, GetStored, CheckRevoked, CheckUser, Store,
         Forget, Revoke, BlacklistAccess, BlacklistOther, Del, Validate, ValidateUser, Do, Step, Goto,
         AuthInv, AuthTypeOK
    <3> QED
      BY <3>1, <3>2
  <2> QED
    BY <1>5, <2>1 DEF LogoutInv
<1>6. ASSUME NEW r \in Request, ServeAuth(r) PROVE LogoutInv'
  BY <1>1, <1>2, <1>3, <1>4, <1>5, <1>6 DEF ServeAuth, Guard, GuardUser, Password, GetStored,
     CheckRevoked, CheckUser, Forget, StoredBecomes, Revoke, BlacklistOther, Validate, ValidateUser
<1>7. CASE Taken \/ PlainStep \/ AuthIdle
  BY <1>7, PlainSteps DEF LogoutInv
<1> QED
  BY <1>6, <1>7, StepKinds

LEMMA EnvFixed == ASSUME AuthInv, GatewayInv, [Next]_vars PROVE UNCHANGED env
BY StepKinds, PlainSteps, AuthProgress DEF AuthNext

LEMMA InitFresh == Init => FreshTokens
<1> SUFFICES ASSUME Init, NEW r \in Request PROVE Refresh(r) \notin issued
  BY DEF FreshTokens
<1>1. r # 0
  BY AuthConstants
<1> QED
  BY <1>1 DEF Init, AuthInit, Access, Refresh

LEMMA FreshTokensHold == Spec => []FreshTokens
BY InitFresh, InvHolds, FreshStep, PTL DEF Spec

\* While Redis answers, a logout that is over leaves no refresh token in the
\* store that was issued before it began, for every number of logins,
\* refreshes and other logouts beside it and wherever requests are cut short.
THEOREM LogoutIsComplete == Spec => []LogoutEndsSessions
<1>1. Init => LogoutInv
  BY DEF Init, AuthInit, LogoutInv
<1>2. AuthInv /\ GatewayInv /\ [Next]_vars => (RedisAnswers <=> RedisAnswers')
  BY EnvFixed DEF RedisAnswers
<1>3. (RedisAnswers => LogoutInv) => LogoutEndsSessions
  BY DEF RedisAnswers, LogoutInv, LogoutEndsSessions
<1> QED
  BY <1>1, <1>2, <1>3, InvHolds, FreshTokensHold, LogoutStep, PTL DEF Spec

-----------------------------------------------------------------------------
(* Logged-out tokens at the gateway. *)

\* The bearer of a logout that got past its first write is blacklisted, if its
\* entry does not expire first.
Listed ==
    \A r \in Request :
        pc[r] \in {"keys", "del", "done"} /\ op[r].kind = "logout" /\ Lasting(op[r].bearer)
        => op[r].bearer \in blacklist

\* A gateway request with a logged-out token has not passed the guard: the
\* token is on the blacklist, and the call that validates it has not got and
\* will not get a good answer.
Refused(g) ==
    gpc[g] \in Open \cup {"200"} /\ gop[g].late /\ Lasting(gop[g].o.bearer) =>
        /\ gpc[g] \in {"guard", "guarding"}
        /\ gop[g].o.bearer \in blacklist
        /\ gpc[g] = "guarding" => /\ pc[call[g]] \in {"validate", "refused"}
                                  /\ op[call[g]].token = gop[g].o.bearer

LateRefused == \A g \in Client : Refused(g)

\* No entry disappears that stands for as long as its token, and none at all
\* once there have been as many faults as there may be.
LEMMA BlacklistGrows ==
    ASSUME AuthInv, GatewayInv, [Next]_vars
    PROVE  /\ \A t \in blacklist : Lasting(t) => t \in blacklist'
           /\ ~(faults < env.max) => blacklist \subseteq blacklist'
<1>1. ASSUME NEW r \in Request, ServeAuth(r) PROVE blacklist \subseteq blacklist'
  BY <1>1 DEF ServeAuth, Guard, GuardUser, Password, GetStored, CheckRevoked, CheckUser, Store,
     Forget, Revoke, BlacklistAccess, BlacklistOther, Keys, Del, Validate, ValidateUser, PutOnBlacklist
<1>2. ASSUME NEW x \in brief, Fault("expiry")
      PROVE  ~Lasting(x) /\ faults < env.max
  BY <1>2 DEF Fault, Lasting, AuthInv, AuthTypeOK
<1> QED
  BY <1>1, <1>2, StepKinds, PlainSteps

LEMMA ListedStep ==
    AuthInv /\ GatewayInv /\ RedisAnswers /\ Listed /\ [Next]_vars => Listed'
<1> SUFFICES ASSUME AuthInv, GatewayInv, RedisAnswers, Listed, [Next]_vars PROVE Listed'
  OBVIOUS
<1>b. /\ \A t \in blacklist : Lasting(t) => t \in blacklist'
      /\ \A t : Lasting(t)' <=> Lasting(t)
  BY BlacklistGrows, EnvFixed DEF Lasting
<1>1. ASSUME NEW r \in Request, ServeAuth(r) PROVE Listed'
  <2>1. /\ op' = op /\ Known(r)
        /\ \A q \in Request : q # r => pc'[q] = pc[q]
    BY <1>1 DEF ServeAuth, Guard, GuardUser, Password, GetStored, CheckRevoked, CheckUser, Store,
       Forget, Revoke, BlacklistAccess, BlacklistOther, Keys, Del, Validate, ValidateUser, Do, Step, Goto,
       AuthInv, AuthTypeOK, Control
  <2>2. pc'[r] \in {"keys", "del", "done"} /\ op[r].kind = "logout" /\ Lasting(op[r].bearer)
        => op[r].bearer \in blacklist'
    <3>1. CASE BlacklistAccess(r) \/ BlacklistOther(r)
      BY <3>1 DEF BlacklistAccess, BlacklistOther, PutOnBlacklist, Fault, RedisAnswers
    <3>2. CASE Keys(r) \/ \E t \in doomed[r] : Del(r, t)
      BY <1>b, <3>2 DEF Keys, Del, Do, Step, Listed
    <3>3. CASE GuardUser(r)
      <4>1. op[r] \in OpType
        BY <3>3 DEF GuardUser, Do, Step, AuthInv, Control, Known, WellFormed
      <4> QED
        BY <3>3, <4>1, EntryType DEF GuardUser, Do, Step, Goto, AuthInv, AuthTypeOK
    <3>4. CASE \/ Guard(r) \/ Password(r) \/ GetStored(r) \/ CheckRevoked(r) \/ CheckUser(r)
               \/ Store(r) \/ Forget(r) \/ Revoke(r) \/ Validate(r) \/ ValidateUser(r)
      BY <2>1, <3>4 DEF Guard, Password, GetStored, CheckRevoked, CheckUser, Store, Forget, Revoke,
         Validate, ValidateUser, Do, Step, Goto, Known, AuthInv, AuthTypeOK
    <3> QED
      BY <1>1, <3>1, <3>2, <3>3, <3>4 DEF ServeAuth
  <2> QED
    BY <1>b, <2>1, <2>2 DEF Listed
<1>2. CASE Taken \/ PlainStep \/ AuthIdle
  <2> SUFFICES ASSUME NEW q \in Request, pc'[q] \in {"keys", "del", "done"},
                      op'[q].kind = "logout", Lasting(op'[q].bearer)
               PROVE  op'[q].bearer \in blacklist'
    BY <1>b DEF Listed
  <2>1. pc[q] # "idle"
    <3>1. ASSUME NEW r \in Request, NEW o \in OpType, Begin(r, o), q = r PROVE FALSE
      BY <3>1, EntryType DEF Begin, Step, Goto, AuthInv, AuthTypeOK
    <3>2. CASE Taken
      BY <3>1, <3>2 DEF Taken, Begin, Step, Goto, AuthInv, AuthTypeOK
    <3>3. CASE PlainStep \/ AuthIdle
      BY <3>3 DEF PlainStep, AuthIdle, ReadFailed, LookupFailed, ServeUser, FindEmail, Insert, Find,
         Invalidate, Save, Get, Select, CachePreferences, Delete, Uncache, RedisFailed,
         QueryFailed, ExpireToken, ExpireListing, ExpireCache, Crash, Step, Goto, AuthInv, AuthTypeOK
    <3> QED
      BY <1>2, <3>2, <3>3
  <2>2. op'[q] = op[q] /\ (pc'[q] # pc[q] => op[q].kind \in UserKinds)
    BY <1>2, <2>1, PlainSteps
  <2> QED
    BY <1>b, <2>2 DEF Listed, UserKinds
<1> QED
  BY <1>1, <1>2, StepKinds

LEMMA ListedHolds == Spec => [](RedisAnswers => Listed)
<1>1. Init => Listed
  BY DEF Init, AuthInit, Listed
<1>2. AuthInv /\ GatewayInv /\ [Next]_vars => (RedisAnswers <=> RedisAnswers')
  BY EnvFixed DEF RedisAnswers
<1> QED
  BY <1>1, <1>2, InvHolds, ListedStep, PTL DEF Spec

\* A validation of a blacklisted token is refused in the end.
LEMMA ValidationRefused ==
    ASSUME AuthInv, GatewayInv, RedisAnswers, [Next]_vars, NEW r \in Request,
           pc[r] \in {"validate", "refused"}, op[r].token \in blacklist
    PROVE  pc'[r] \in {"validate", "refused"} /\ op'[r] = op[r]
<1>1. op'[r] = op[r]
  <2>1. ASSUME NEW q \in Request, ServeAuth(q) PROVE op' = op
    BY <2>1 DEF ServeAuth, Guard, GuardUser, Password, GetStored, CheckRevoked, CheckUser, Store,
       Forget, Revoke, BlacklistAccess, BlacklistOther, Keys, Del, Validate, ValidateUser, Do
  <2> QED
    BY <2>1, StepKinds, PlainSteps
<1>2. pc'[r] \in {"validate", "refused"}
  <2>1. ASSUME NEW q \in Request, ServeAuth(q) PROVE pc'[r] \in {"validate", "refused"}
    BY <2>1 DEF ServeAuth, Guard, GuardUser, Password, GetStored, CheckRevoked, CheckUser, Store,
       Forget, Revoke, BlacklistAccess, BlacklistOther, Keys, Del, Validate, ValidateUser, Do, Step, Goto,
       AuthInv, AuthTypeOK
  <2>2. CASE Taken \/ AuthIdle
    BY <2>2 DEF Taken, Begin, Step, Goto, AuthIdle, AuthInv, AuthTypeOK
  <2>3. CASE PlainStep
    BY <2>3 DEF PlainStep, ReadFailed, LookupFailed, ServeUser, FindEmail, Insert, Find,
       Invalidate, Save, Get, Select, CachePreferences, Delete, Uncache, RedisFailed,
       QueryFailed, ExpireToken, ExpireListing, ExpireCache, Crash, Step, Goto, Fault, RedisAnswers, AuthInv,
       AuthTypeOK
  <2> QED
    BY <2>1, <2>2, <2>3, StepKinds
<1> QED
  BY <1>1, <1>2

LEMMA StaysRefused ==
    ASSUME AuthInv, GatewayInv, RedisAnswers, [Next]_vars, NEW g \in Client, Refused(g),
           gpc'[g] = gpc[g], gop'[g] = gop[g], call'[g] = call[g]
    PROVE  Refused(g)'
<1>1. gpc[g] = "guarding" => call[g] \in Request
  BY DEF GatewayInv, Waiting
<1>2. /\ \A t \in blacklist : Lasting(t) => t \in blacklist'
      /\ \A t : Lasting(t)' <=> Lasting(t)
  BY BlacklistGrows, EnvFixed DEF Lasting
<1> QED
  BY <1>1, <1>2, ValidationRefused DEF Refused

LEMMA LateStep ==
    AuthInv /\ GatewayInv /\ RedisAnswers /\ Listed /\ LateRefused /\ [Next]_vars
    => LateRefused'
<1> SUFFICES ASSUME AuthInv, GatewayInv, RedisAnswers, Listed, LateRefused, [Next]_vars,
                    NEW h \in Client
             PROVE  Refused(h)'
  BY DEF LateRefused
<1>r. Refused(h)
  BY DEF LateRefused
<1>1. CASE UNCHANGED gatewayVars
  BY <1>1, <1>r, StaysRefused DEF gatewayVars
<1>2. ASSUME NEW g \in Client, NEW route \in env.routes, NEW kind \in Target(route),
             GatewayArrive(g, route, kind)
      PROVE  Refused(h)'
  <2>1. CASE h # g
    BY <1>2, <1>r, <2>1, StaysRefused DEF GatewayArrive, GatewayInv
  <2>2. CASE h = g
    <3>1. PICK b \in issued \cup {None, Other}, d \in Dtos(kind), t \in Bodies(kind) :
            /\ ~Guarded(route) => b = None
            /\ gop' = [gop EXCEPT ![g] = [route |-> route, late |-> b \in LoggedOut,
                          o |-> Operation(kind, d, b, IF route = "me" THEN b ELSE t)]]
            /\ gpc' = [gpc EXCEPT ![g] = IF ~Guarded(route) THEN "forward"
                                         ELSE IF b = None THEN "401" ELSE "guard"]
      BY <1>2 DEF GatewayArrive
    <3>2. b \in LoggedOut /\ Lasting(b) => b \in blacklist /\ b # None
      <4> SUFFICES ASSUME NEW q \in Request, pc[q] = "done", op[q].kind = "logout",
                          b = op[q].bearer, Lasting(b)
                   PROVE  b \in blacklist /\ b # None
        BY DEF LoggedOut
      <4>1. b \in blacklist
        BY DEF Listed
      <4> QED
        BY <4>1, AuthConstants DEF AuthInv, AuthTypeOK
    <3>3. gop'[g].late = (b \in LoggedOut) /\ gop'[g].o.bearer = b
      BY <3>1 DEF GatewayInv, Operation
    <3>4. gpc'[g] \in {"forward", "401", "guard"} /\ (b # None => gpc'[g] = "guard")
      BY <3>1 DEF GatewayInv
    <3>5. blacklist' = blacklist /\ (Lasting(b)' <=> Lasting(b))
      BY <1>2, EnvFixed DEF GatewayArrive, authVars, tokenVars, Lasting
    <3> QED
      BY <2>2, <3>2, <3>3, <3>4, <3>5 DEF Refused
  <2> QED
    BY <2>1, <2>2
<1>3. ASSUME NEW g \in Client, NEW r \in Request, GatewayCall(g, r) PROVE Refused(h)'
  <2>1. CASE h # g
    BY <1>3, <1>r, <2>1, StaysRefused DEF GatewayCall, GatewayInv
  <2>2. CASE h = g
    <3>1. /\ gop' = gop /\ call'[g] = r /\ Begin(r, NextCall(g))
          /\ gpc'[g] = IF gpc[g] = "guard" THEN "guarding" ELSE "forwarding"
          /\ gpc[g] \in {"guard", "forward"}
      BY <1>3 DEF GatewayCall, GatewayInv
    <3>2. gpc[g] = "guard" => /\ op'[r].token = gop[g].o.bearer
                              /\ pc'[r] \in {"validate", "refused"}
      <4> SUFFICES ASSUME gpc[g] = "guard"
                   PROVE  op'[r].token = gop[g].o.bearer /\ pc'[r] \in {"validate", "refused"}
        OBVIOUS
      <4>1. NextCall(g) \in OpType /\ NextCall(g).kind = "validate"
            /\ NextCall(g).token = gop[g].o.bearer
        BY NextCallForm DEF WellFormed, NextCall, Operation
      <4> QED
        BY <3>1, <4>1, EntryType DEF Begin, Step, Goto, Public, AuthInv, AuthTypeOK
    <3>3. blacklist' = blacklist /\ \A t : Lasting(t)' <=> Lasting(t)
      BY <3>1, EnvFixed DEF Begin, tokenVars, Lasting
    <3> QED
      BY <1>r, <2>2, <3>1, <3>2, <3>3 DEF Refused, Open
  <2> QED
    BY <2>1, <2>2
<1>4. ASSUME NEW g \in Client, GatewayTimeout(g) \/ GatewayReply(g) \/ GatewayUnreachable(g)
      PROVE  Refused(h)'
  <2>1. CASE h # g
    <3>1. gpc'[h] = gpc[h] /\ gop'[h] = gop[h] /\ call'[h] = call[h]
      BY <1>4, <2>1 DEF GatewayTimeout, GatewayReply, GatewayUnreachable, Conclude, GatewayInv
    <3> QED
      BY <1>r, <3>1, StaysRefused
  <2>l. Lasting(gop[g].o.bearer)' <=> Lasting(gop[g].o.bearer)
    BY <1>4, EnvFixed DEF GatewayTimeout, GatewayReply, GatewayUnreachable, Conclude, Lasting
  <2>2. CASE h = g /\ ~(gop[g].late /\ Lasting(gop[g].o.bearer))
    BY <1>4, <2>l, <2>2 DEF GatewayTimeout, GatewayReply, GatewayUnreachable, Conclude, Refused
  <2>3. CASE h = g /\ gop[g].late /\ Lasting(gop[g].o.bearer)
    <3>1. gpc[g] \in {"guard", "guarding"}
      BY <1>4, <1>r, <2>3 DEF GatewayTimeout, GatewayReply, GatewayUnreachable, Refused, Open
    <3>2. CASE GatewayReply(g)
      <4>1. gpc[g] = "guarding" /\ pc[call[g]] # "done"
        BY <1>r, <2>3, <3>1, <3>2 DEF GatewayReply, Refused, Open, Waiting
      <4>2. gpc'[g] = "401"
        BY <3>2, <4>1 DEF GatewayReply, Conclude, Outcome, GatewayInv
      <4> QED
        BY <2>3, <4>2 DEF Refused, Open, Waiting
    <3>3. CASE GatewayTimeout(g) \/ GatewayUnreachable(g)
      <4>1. gpc'[g] \in {"401", "400", "408", "invalid", "502"}
        BY <3>3 DEF GatewayTimeout, GatewayUnreachable, Conclude, GatewayInv
      <4> QED
        BY <2>3, <4>1 DEF Refused, Open, Waiting
    <3> QED
      BY <1>4, <3>2, <3>3
  <2> QED
    BY <2>1, <2>2, <2>3
<1> QED
  BY <1>1, <1>2, <1>3, <1>4 DEF Next, GatewayStep, Idle, vars

\* Once a logout is over, its bearer opens no guarded route of any gateway
\* request that comes later, whatever runs in the user-service, as long as
\* Redis answers: an access token for good, a refresh token until its entry on
\* the blacklist expires.
THEOREM LogoutClosesGateway == Spec => []LoggedOutIsRefused
<1>1. Init => LateRefused
  BY DEF Init, LateRefused, Refused, Open, Waiting
<1>2. AuthInv /\ GatewayInv /\ [Next]_vars => (RedisAnswers <=> RedisAnswers')
  BY EnvFixed DEF RedisAnswers
<1>3. (RedisAnswers => LateRefused) => LoggedOutIsRefused
  BY DEF RedisAnswers, LateRefused, Refused, LoggedOutIsRefused, Open, Waiting
<1> QED
  BY <1>1, <1>2, <1>3, InvHolds, ListedHolds, LateStep, PTL DEF Spec

-----------------------------------------------------------------------------
(* One request at a time. *)

Begun == {r \in Request : pc[r] # "idle"}
NobodyActive == \A r \in Request : pc[r] \notin Active

\* Steps other than arrivals make no request active.
LEMMA ActiveBefore ==
    ASSUME AuthInv, (\E r \in Request : ServeAuth(r)) \/ PlainStep \/ AuthIdle
    PROVE  \A q \in Request : /\ pc'[q] # "idle" => pc[q] # "idle"
                              /\ pc'[q] \in Active => pc[q] \in Active
                              /\ op'[q] = op[q]
<1> USE DEF AuthInv, AuthTypeOK
<1>1. ASSUME NEW r \in Request, ServeAuth(r)
      PROVE  op' = op /\ pc[r] \in Active /\ \A q \in Request : q # r => pc'[q] = pc[q]
  BY <1>1 DEF ServeAuth, Guard, GuardUser, Password, GetStored, CheckRevoked, CheckUser, Store,
     Forget, Revoke, BlacklistAccess, BlacklistOther, Keys, Del, Validate, ValidateUser, Do, Step, Goto, Active
<1>2. ASSUME NEW r \in Request,
             ReadFailed(r) \/ LookupFailed(r) \/ ServeUser(r) \/ RedisFailed(r) \/ QueryFailed(r)
      PROVE  pc[r] \in Active /\ \A q \in Request : q # r => pc'[q] = pc[q]
  BY <1>2 DEF ReadFailed, LookupFailed, ServeUser, FindEmail, Insert, Find, Invalidate, Save, Get,
     Select, CachePreferences, Delete, Uncache, RedisFailed, QueryFailed, Step, Goto, Active,
     UserAwaits
<1>3. ASSUME \/ Crash \/ AuthIdle \/ ExpireCache
             \/ \E t \in issued : ExpireToken(t) \/ ExpireListing(t)
      PROVE  \A q \in Request : /\ pc'[q] # "idle" => pc[q] # "idle"
                                /\ pc'[q] \in Active => pc[q] \in Active
  BY <1>3 DEF Crash, AuthIdle, ExpireToken, ExpireListing, ExpireCache, Active, UserAwaits
<1>4. PlainStep \/ AuthIdle => op' = op
  BY DEF PlainStep, AuthIdle, ReadFailed, LookupFailed, ExpireToken, ExpireListing, Crash
<1>5. "idle" \notin Active
  BY DEF Active, UserAwaits
<1> QED
  BY <1>1, <1>2, <1>3, <1>4, <1>5 DEF PlainStep

LEMMA FiniteStep ==
    AuthInv /\ GatewayInv /\ IsFiniteSet(Begun) /\ [Next]_vars => IsFiniteSet(Begun)'
<1> SUFFICES ASSUME AuthInv, GatewayInv, IsFiniteSet(Begun), [Next]_vars
             PROVE  IsFiniteSet(Begun')
  OBVIOUS
<1>1. CASE (\E r \in Request : ServeAuth(r)) \/ PlainStep \/ AuthIdle
  <2>1. Begun' \subseteq Begun
    BY <1>1, ActiveBefore DEF Begun
  <2> QED
    BY <2>1, FS_Subset
<1>2. CASE Taken
  <2>1. PICK r \in Request : \A q \in Request : q # r => pc'[q] = pc[q]
    BY <1>2 DEF Taken, Begin, Step, Goto, AuthInv, AuthTypeOK
  <2>2. Begun' \subseteq Begun \cup {r}
    BY <2>1 DEF Begun
  <2>3. IsFiniteSet(Begun \cup {r})
    BY FS_AddElement
  <2> QED
    BY <2>2, <2>3, FS_Subset
<1> QED
  BY <1>1, <1>2, StepKinds

\* Without routes the gateway makes no calls.
RoutesUsed == env.routes = {} => \A g \in Client : gpc[g] = "idle"

LEMMA RoutesStep == AuthInv /\ GatewayInv /\ RoutesUsed /\ [Next]_vars => RoutesUsed'
<1> SUFFICES ASSUME AuthInv, GatewayInv, RoutesUsed, [Next]_vars, env.routes = {}
             PROVE  UNCHANGED gpc
  BY EnvFixed DEF RoutesUsed
<1> QED
  BY DEF RoutesUsed, Next, GatewayStep, GatewayCall, GatewayTimeout, GatewayReply,
     GatewayUnreachable, Idle, gatewayVars, vars, Waiting

ScheduleInv == IsFiniteSet(Begun) /\ RoutesUsed

LEMMA ScheduleHolds == Spec => []ScheduleInv
<1>1. Init => ScheduleInv
  <2> SUFFICES ASSUME Init PROVE ScheduleInv
    OBVIOUS
  <2>1. Begun = {}
    BY DEF Init, AuthInit, Begun
  <2> QED
    BY <2>1, FS_EmptySet DEF Init, ScheduleInv, RoutesUsed
<1> QED
  BY <1>1, InvHolds, FiniteStep, RoutesStep, PTL DEF Spec, ScheduleInv

\* With one place, a client that comes to the user-service finds nobody there;
\* only the gateway makes calls beside others, and never a refresh.
LEMMA Arrivals ==
    ASSUME AuthInv, GatewayInv, ScheduleInv, [Next]_vars, env.concurrency <= 1
    PROVE  \/ (\E r \in Request : ServeAuth(r)) \/ PlainStep \/ AuthIdle
           \/ \E r \in Request : \E o \in OpType :
                 Begin(r, o) /\ (NobodyActive \/ (o.kind # "refresh" /\ env.routes # {}))
<1>1. ASSUME NEW g \in Client, NEW r \in Request, GatewayCall(g, r)
      PROVE  \E o \in OpType : Begin(r, o) /\ o.kind # "refresh" /\ env.routes # {}
  <2>1. NextCall(g) \in OpType /\ NextCall(g).kind # "refresh"
    BY <1>1, NextCallForm DEF GatewayCall, WellFormed
  <2>2. env.routes # {}
    BY <1>1 DEF GatewayCall, ScheduleInv, RoutesUsed
  <2> QED
    BY <1>1, <2>1, <2>2 DEF GatewayCall
<1>2. ASSUME NEW r \in Request, NEW kind \in env.kinds, Arrive(r, kind)
      PROVE  NobodyActive /\ \E o \in OpType : Begin(r, o)
  <2> DEFINE A == {q \in Request : pc[q] \in Active}
  <2>1. IsFiniteSet(A)
    <3>1. A \subseteq Begun
      BY DEF Begun, Active, UserAwaits
    <3> QED
      BY <3>1, FS_Subset DEF ScheduleInv
  <2>2. Cardinality(A) \in Nat /\ Cardinality(A) < env.concurrency /\ env.concurrency \in Nat
    BY <1>2, <2>1, FS_CardinalityType, EnvType DEF Arrive
  <2>3. Cardinality(A) = 0
    BY <2>2
  <2>4. A = {}
    BY <2>1, <2>3, FS_EmptySet
  <2> QED
    BY <1>2, <2>4, ArrivalTaken DEF NobodyActive
<1> QED
  BY <1>1, <1>2, StepSources

IsRefresh(r) == pc[r] \in Active /\ op[r].kind = "refresh"
OneRefresh == \A r, q \in Request : IsRefresh(r) /\ IsRefresh(q) => r = q

LEMMA OneRefreshStep ==
    AuthInv /\ GatewayInv /\ ScheduleInv /\ env.concurrency <= 1 /\ OneRefresh /\ [Next]_vars
    => OneRefresh'
<1> SUFFICES ASSUME AuthInv, GatewayInv, ScheduleInv, env.concurrency <= 1, OneRefresh, [Next]_vars
             PROVE  OneRefresh'
  OBVIOUS
<1>1. CASE (\E r \in Request : ServeAuth(r)) \/ PlainStep \/ AuthIdle
  BY <1>1, ActiveBefore DEF OneRefresh, IsRefresh
<1>2. ASSUME NEW r \in Request, NEW o \in OpType, Begin(r, o), NobodyActive \/ o.kind # "refresh"
      PROVE  OneRefresh'
  BY <1>2 DEF Begin, Step, Goto, NobodyActive, OneRefresh, IsRefresh, AuthInv, AuthTypeOK
<1> QED
  BY <1>1, <1>2, Arrivals

-----------------------------------------------------------------------------
(* A refresh token is exchanged once. *)

OneFault == env.concurrency <= 1 /\ env.max <= 1

Exchanging == {"check_user", "store", "forget", "revoke"}

\* A token that was exchanged is gone from the store, or it is blacklisted
\* there because the one fault has hit the DEL; no request is past the checks
\* with it.
Spent(t) ==
    /\ t \in issued
    /\ t \in stored => t \in blacklist /\ faults > 0
    /\ \A r \in Request : op[r].kind = "refresh" /\ op[r].token = t =>
          /\ pc[r] \notin Exchanging
          /\ pc[r] = "check_revoked" => t \in blacklist /\ faults > 0

UseInv ==
    /\ \A t \in Token : used[t] <= 1 /\ (used[t] > 0 => Spent(t))
    /\ \A r \in Request : pc[r] = "revoke" /\ op[r].token \in stored => faults > 0

\* Tokens that were spent before stay so in a step that adds none of them to
\* the store and lets no request with them past a check.
LEMMA StaysSpent ==
    ASSUME AuthInv, faults' \in Nat, NEW t, Spent(t),
           issued \subseteq issued', faults > 0 => blacklist \subseteq blacklist',
           faults' >= faults,
           t \in stored' => t \in stored,
           \A r \in Request : op'[r].kind = "refresh" /\ op'[r].token = t
               => /\ pc'[r] \notin Exchanging
                  /\ pc'[r] = "check_revoked"
                        => t \in stored \/ (pc[r] = pc'[r] /\ op[r] = op'[r])
    PROVE  Spent(t)'
BY EnvType DEF Spent, AuthInv, AuthTypeOK

LEMMA FaultsGrow ==
    ASSUME AuthInv, GatewayInv, [Next]_vars
    PROVE  faults \in Nat /\ faults' \in Nat /\ faults' >= faults
<1>1. faults \in Nat
  BY EnvType DEF AuthInv, AuthTypeOK
<1>2. ASSUME NEW r \in Request, ServeAuth(r) PROVE faults' >= faults
  <2>1. ASSUME NEW s, StoredBecomes(s) \/ \E short \in BOOLEAN : PutOnBlacklist(s, short)
        PROVE  faults' >= faults
    BY <1>1, <2>1 DEF StoredBecomes, PutOnBlacklist, Fault
  <2>2. ASSUME faults' = faults PROVE faults' >= faults
    BY <1>1, <2>2
  <2>3. CASE Store(r) \/ Forget(r) \/ Revoke(r)
    BY <2>1, <2>3 DEF Store, Forget, Revoke
  <2>4. CASE BlacklistAccess(r) \/ BlacklistOther(r) \/ \E t \in doomed[r] : Del(r, t)
    BY <2>1, <2>4 DEF BlacklistAccess, BlacklistOther, Del
  <2>5. CASE \/ Guard(r) \/ GuardUser(r) \/ Password(r) \/ GetStored(r) \/ CheckRevoked(r)
             \/ CheckUser(r) \/ Keys(r) \/ Validate(r) \/ ValidateUser(r)
    BY <2>2, <2>5 DEF Guard, GuardUser, Password, GetStored, CheckRevoked, CheckUser, Keys,
       Validate, ValidateUser
  <2> QED
    BY <1>2, <2>3, <2>4, <2>5 DEF ServeAuth
<1>3. AuthInv'
  BY GatewayStepInv
<1>4. env'.max \in Nat /\ faults' \in 0..env'.max
  BY <1>3, AuthConstants DEF AuthInv, AuthTypeOK
<1> QED
  BY <1>1, <1>2, <1>4, StepKinds, PlainSteps

\* A step that is not one of a refresh lets no refresh past a check, except
\* the lost EXISTS of the blacklist.
LEMMA PlainChecks ==
    ASSUME AuthInv, PlainStep \/ Taken \/ AuthIdle, NEW r \in Request,
           pc'[r] \in Exchanging \cup {"check_revoked"}
    PROVE  /\ op'[r] = op[r]
           /\ \/ pc'[r] = pc[r]
              \/ pc[r] = "check_revoked" /\ pc'[r] = "check_user" /\ faults < env.max
<1> USE DEF Exchanging, AuthInv, AuthTypeOK
<1>1. ASSUME NEW q \in Request, NEW o \in OpType, Begin(q, o)
      PROVE  op'[r] = op[r] /\ pc'[r] = pc[r]
  BY <1>1, EntryType DEF Begin, Step, Goto
<1>2. CASE Taken
  BY <1>1, <1>2 DEF Taken
<1>3. CASE AuthIdle
  BY <1>3 DEF AuthIdle
<1>4. CASE PlainStep
  <2>1. op' = op
    BY <1>4 DEF PlainStep, ReadFailed, LookupFailed, ExpireToken, ExpireListing, Crash
  <2>2. ASSUME NEW q \in Request, ReadFailed(q) \/ LookupFailed(q)
        PROVE  \/ pc'[r] = pc[r]
               \/ pc[r] = "check_revoked" /\ pc'[r] = "check_user" /\ faults < env.max
    BY <2>2 DEF ReadFailed, LookupFailed, Step, Goto, Fault
  <2>3. ASSUME NEW q \in Request, ServeUser(q) \/ RedisFailed(q) \/ QueryFailed(q)
        PROVE  pc'[r] = pc[r]
    BY <2>3 DEF ServeUser, FindEmail, Insert, Find, Invalidate, Save, Get, Select,
       CachePreferences, Delete, Uncache, RedisFailed, QueryFailed, Step, Goto
  <2>4. CASE Crash \/ ExpireCache \/ \E t \in issued : ExpireToken(t) \/ ExpireListing(t)
    BY <2>1, <2>4 DEF Crash, ExpireCache, ExpireToken, ExpireListing
  <2> QED
    BY <1>4, <2>1, <2>2, <2>3, <2>4 DEF PlainStep
<1> QED
  BY <1>2, <1>3, <1>4

LEMMA UseStep ==
    /\ AuthInv /\ GatewayInv /\ FreshTokens /\ OneFault /\ OneRefresh /\ UseInv
    /\ [Next]_vars
    => UseInv'
<1> SUFFICES ASSUME AuthInv, GatewayInv, FreshTokens, OneFault, OneRefresh, UseInv, [Next]_vars
             PROVE  UseInv'
  OBVIOUS
<1>f. /\ faults \in Nat /\ faults' \in Nat /\ faults' >= faults
      /\ faults > 0 => ~(faults < env.max)
  BY FaultsGrow, EnvType DEF OneFault
<1>b. faults > 0 => blacklist \subseteq blacklist'
  BY <1>f, BlacklistGrows
<1>u. used \in [Token -> Nat] /\ issued \subseteq Token
  BY DEF AuthInv, AuthTypeOK
<1>1. CASE PlainStep \/ Taken \/ AuthIdle
  <2>1. UNCHANGED <<env, issued, stored, used>>
    BY <1>1, PlainSteps
  <2>2. ASSUME NEW t \in Token, used[t] > 0 PROVE Spent(t)'
    <3>1. Spent(t)
      BY <2>2 DEF UseInv
    <3>2. ASSUME NEW r \in Request, op'[r].kind = "refresh", op'[r].token = t
          PROVE  /\ pc'[r] \notin Exchanging
                 /\ pc'[r] = "check_revoked" => pc[r] = pc'[r] /\ op[r] = op'[r]
      <4>1. pc'[r] \in Exchanging \cup {"check_revoked"}
            => /\ op'[r] = op[r]
               /\ \/ pc'[r] = pc[r]
                  \/ pc[r] = "check_revoked" /\ pc'[r] = "check_user" /\ faults < env.max
        BY <1>1, PlainChecks
      <4>2. /\ op[r].kind = "refresh" /\ op[r].token = t => pc[r] \notin Exchanging
            /\ op[r].kind = "refresh" /\ op[r].token = t /\ pc[r] = "check_revoked"
               => ~(faults < env.max)
        BY <1>f, <3>1 DEF Spent
      <4> QED
        BY <3>2, <4>1, <4>2
    <3> QED
      BY <1>b, <1>f, <2>1, <3>1, <3>2, StaysSpent
  <2>3. ASSUME NEW r \in Request, pc'[r] = "revoke" PROVE pc[r] = "revoke" /\ op'[r] = op[r]
    BY <1>1, <2>3, PlainChecks DEF Exchanging
  <2> QED
    BY <1>f, <2>1, <2>2, <2>3 DEF UseInv
<1>2. ASSUME NEW r \in Request, ServeAuth(r) PROVE UseInv'
  <2>a. op' = op /\ pc[r] \in Active /\ \A q \in Request : q # r => pc'[q] = pc[q]
    BY <1>2 DEF ServeAuth, Guard, GuardUser, Password, GetStored, CheckRevoked, CheckUser, Store,
       Forget, Revoke, BlacklistAccess, BlacklistOther, Keys, Del, Validate, ValidateUser, Do,
       Step, Goto, AuthInv, AuthTypeOK, Active
  <2>1. /\ op' = op /\ Known(r) /\ op[r] \in OpType
        /\ \A q \in Request : q # r => pc'[q] = pc[q]
        /\ pc[r] \in Active
    BY <2>a DEF AuthInv, Control, Known, WellFormed, Active, UserAwaits
  <2>i. issued \subseteq issued'
    BY <1>2, AuthProgress DEF AuthNext
  <2>2. ASSUME NEW t \in Token, Spent(t), t \in stored' => t \in stored,
               op[r].kind = "refresh" /\ op[r].token = t
                   => pc'[r] \notin Exchanging /\ (pc'[r] = "check_revoked" => t \in stored)
        PROVE  Spent(t)'
    <3>1. ASSUME NEW q \in Request, op'[q].kind = "refresh", op'[q].token = t
          PROVE  /\ pc'[q] \notin Exchanging
                 /\ pc'[q] = "check_revoked"
                       => t \in stored \/ (pc[q] = pc'[q] /\ op[q] = op'[q])
      BY <2>1, <2>2, <3>1 DEF Spent
    <3> QED
      BY <1>b, <1>f, <2>i, <2>2, <3>1, StaysSpent
  <2>3. CASE Store(r)
    <3>1. Refresh(r) \notin issued
      BY <2>3 DEF Store, Do, Step, FreshTokens
    <3>2. /\ stored' \subseteq stored \cup {Refresh(r)} /\ used' = used
          /\ pc[r] = "store" /\ pc'[r] \in {"done", "forget"}
      BY <2>3 DEF Store, StoredBecomes, Do, Step, Goto, AuthInv, AuthTypeOK
    <3>3. ASSUME NEW t \in Token, Spent(t) PROVE Spent(t)'
      BY <2>2, <3>1, <3>2, <3>3 DEF Spent, Exchanging
    <3>4. ASSUME NEW q \in Request, pc'[q] = "revoke", op'[q].token \in stored' PROVE faults' > 0
      <4>1. pc[q] = "revoke" /\ op[q].token \in issued
        BY <2>1, <3>2, <3>4 DEF AuthInv, Control, Known, WellFormed
      <4> QED
        BY <1>f, <2>1, <3>1, <3>2, <3>4, <4>1 DEF UseInv
    <3> QED
      BY <3>2, <3>3, <3>4 DEF UseInv
  <2>4. CASE Forget(r)
    <3>1. /\ used' = used /\ pc[r] = "forget" /\ pc'[r] = "revoke"
          /\ stored' = stored \ {op[r].token} \/ (stored' = stored /\ faults' > 0)
      BY <1>f, <2>4 DEF Forget, StoredBecomes, Fault, Do, Step, Goto, AuthInv, AuthTypeOK
    <3>2. ASSUME NEW t \in Token, Spent(t) PROVE Spent(t)'
      <4>1. ~(op[r].kind = "refresh" /\ op[r].token = t)
        BY <3>1, <3>2 DEF Spent, Exchanging
      <4> QED
        BY <2>2, <3>1, <3>2, <4>1
    <3>3. ASSUME NEW q \in Request, pc'[q] = "revoke", op'[q].token \in stored' PROVE faults' > 0
      <4>1. CASE q = r
        BY <2>1, <3>1, <3>3, <4>1
      <4>2. CASE q # r
        BY <1>f, <2>1, <3>1, <3>3, <4>2 DEF UseInv
      <4> QED
        BY <4>1, <4>2
    <3> QED
      BY <3>1, <3>2, <3>3 DEF UseInv
  <2>5. CASE Revoke(r)
    <3>t. PICK t : t = op[r].token
      OBVIOUS
    <3>1. /\ pc[r] = "revoke" /\ pc'[r] = "done" /\ stored' = stored
          /\ op[r].kind = "refresh" /\ t \in issued
          /\ used' = [used EXCEPT ![t] = @ + 1]
          /\ t \in blacklist' \/ (faults < env.max /\ faults' > 0)
      BY <1>f, <2>1, <2>5, <3>t DEF Revoke, PutOnBlacklist, Fault, Do, Step, Goto, AuthInv, AuthTypeOK,
         Known, Control, WellFormed
    <3>2. t \in Token /\ used[t] = 0
      <4>1. t \in Token /\ ~Spent(t)
        BY <1>u, <3>t, <3>1 DEF Spent, Exchanging
      <4> QED
        BY <1>u, <4>1 DEF UseInv
    <3>3. Spent(t)'
      <4>1. t \in stored' => t \in blacklist' /\ faults' > 0
        <5>1. t \in stored => faults > 0
          BY <3>t, <3>1 DEF UseInv
        <5>2. faults > 0 => faults' > 0
          BY <1>f
        <5> QED
          BY <1>f, <3>1, <5>1, <5>2
      <4>2. ASSUME NEW q \in Request, op'[q].kind = "refresh"
            PROVE  pc'[q] \notin Exchanging \cup {"check_revoked"}
        BY <2>1, <3>1, <4>2 DEF OneRefresh, IsRefresh, Exchanging, Active
      <4> QED
        BY <2>i, <3>1, <4>1, <4>2 DEF Spent
    <3>4. ASSUME NEW x \in Token, Spent(x) PROVE Spent(x)'
      BY <2>2, <3>1, <3>4 DEF Exchanging
    <3>5. ASSUME NEW q \in Request, pc'[q] = "revoke", op'[q].token \in stored' PROVE faults' > 0
      BY <1>f, <2>1, <3>1, <3>5 DEF UseInv
    <3> QED
      BY <1>u, <3>1, <3>2, <3>3, <3>4, <3>5 DEF UseInv
  <2>6. CASE GetStored(r) \/ CheckRevoked(r) \/ CheckUser(r)
    <3>1. UNCHANGED <<stored, blacklist, used, faults>> /\ pc'[r] # "revoke"
      BY <2>6 DEF GetStored, CheckRevoked, CheckUser, Do, Step, Goto, AuthInv, AuthTypeOK
    <3>2. ASSUME NEW t \in Token, Spent(t) PROVE Spent(t)'
      <4>1. op[r].kind = "refresh" /\ op[r].token = t
            => pc'[r] \notin Exchanging /\ (pc'[r] = "check_revoked" => t \in stored)
        BY <2>6, <3>2 DEF GetStored, CheckRevoked, CheckUser, Do, Step, Goto, AuthInv, AuthTypeOK,
           Spent, Exchanging
      <4> QED
        BY <2>2, <3>1, <3>2, <4>1
    <3> QED
      BY <2>1, <3>1, <3>2 DEF UseInv
  <2>7. CASE \/ Guard(r) \/ GuardUser(r) \/ Password(r) \/ BlacklistAccess(r)
             \/ BlacklistOther(r) \/ Keys(r) \/ (\E t \in doomed[r] : Del(r, t)) \/ Validate(r) \/ ValidateUser(r)
    <3>1. stored' \subseteq stored /\ used' = used
      BY <2>7 DEF Guard, GuardUser, Password, BlacklistAccess, BlacklistOther, Keys, Del, Validate, ValidateUser,
         StoredBecomes
    <3>2. /\ op[r].kind = "refresh" => pc'[r] \notin Exchanging \cup {"check_revoked"}
          /\ pc'[r] # "revoke"
      <4>1. CASE GuardUser(r)
        BY <2>1, <4>1, EntryType DEF GuardUser, Do, Step, Goto, AuthInv, AuthTypeOK, Exchanging,
           Known
      <4>2. CASE ~GuardUser(r)
        BY <2>1, <2>7, <4>2 DEF Guard, Password, BlacklistAccess, BlacklistOther, Keys, Del, Validate,
           ValidateUser, Do, Step, Goto, AuthInv, AuthTypeOK, Exchanging, Known
      <4> QED
        BY <4>1, <4>2
    <3>3. ASSUME NEW t \in Token, Spent(t) PROVE Spent(t)'
      BY <2>2, <3>1, <3>2, <3>3
    <3>4. ASSUME NEW q \in Request, pc'[q] = "revoke", op'[q].token \in stored' PROVE faults' > 0
      BY <1>f, <2>1, <3>1, <3>2, <3>4 DEF UseInv
    <3> QED
      BY <3>1, <3>3, <3>4 DEF UseInv
  <2> QED
    BY <1>2, <2>3, <2>4, <2>5, <2>6, <2>7 DEF ServeAuth
<1> QED
  BY <1>1, <1>2, StepKinds

\* refresh deletes and blacklists the token it exchanges, and either write may
\* be lost without a word or be cut off by a crash: while requests come one
\* at a time and only one thing fails, no refresh token is exchanged twice,
\* however many gateway requests run beside.
THEOREM TokensAreUsedOnce == Spec => []TokenUsedOnce
<1> DEFINE Serial == env.concurrency <= 1
<1>1. Init => OneRefresh /\ UseInv
  BY DEF Init, AuthInit, OneRefresh, IsRefresh, UseInv, Active, UserAwaits
<1>2. AuthInv /\ GatewayInv /\ [Next]_vars => (Serial <=> Serial') /\ (OneFault <=> OneFault')
  BY EnvFixed DEF OneFault
<1>3. (OneFault => UseInv) => TokenUsedOnce
  BY DEF OneFault, UseInv, TokenUsedOnce
<1>4. OneFault => Serial
  BY DEF OneFault
<1>5. AuthInv /\ GatewayInv /\ ScheduleInv /\ Serial /\ OneRefresh /\ [Next]_vars => OneRefresh'
  BY OneRefreshStep
<1> HIDE DEF Serial
<1>6. Spec => [](Serial => OneRefresh)
  BY <1>1, <1>2, <1>5, InvHolds, ScheduleHolds, PTL DEF Spec
<1> QED
  BY <1>1, <1>2, <1>3, <1>4, <1>6, InvHolds, FreshTokensHold, UseStep, PTL DEF Spec

-----------------------------------------------------------------------------
(* getPreferences answers what the row says. *)

OneActive == \A r, q \in Request : pc[r] \in Active /\ pc[q] \in Active => r = q

LEMMA OneActiveStep ==
    /\ AuthInv /\ GatewayInv /\ ScheduleInv /\ OneByOne /\ OneActive /\ [Next]_vars
    => OneActive'
<1> SUFFICES ASSUME AuthInv, GatewayInv, ScheduleInv, OneByOne, OneActive, [Next]_vars
             PROVE  OneActive'
  OBVIOUS
<1>1. CASE (\E r \in Request : ServeAuth(r)) \/ PlainStep \/ AuthIdle
  BY <1>1, ActiveBefore DEF OneActive
<1>2. ASSUME NEW r \in Request, NEW o \in OpType, Begin(r, o), NobodyActive
      PROVE  OneActive'
  BY <1>2 DEF Begin, Step, Goto, NobodyActive, OneActive, AuthInv, AuthTypeOK
<1> QED
  BY <1>1, <1>2, Arrivals DEF OneByOne

\* Labels behind a check that the user exists.
Found == {"invalidate", "save", "cache"}

\* An entry of the cache agrees with the row of a user who exists. A removed
\* user has an entry only until the removal deletes it, or if the removal was
\* cut short, and it says what the row said. Between the two writes of an
\* update there is no entry, unless the preferences stay what they are.
CacheInv ==
    /\ cache # None /\ ~Exists =>
          /\ user # None /\ cache = removed
          /\ CutShort \/ \E q \in Request : pc[q] = "uncache"
    /\ Exists /\ cache # None => cache = user.prefs
    /\ \A r \in Request :
          /\ pc[r] \in Found => Exists
          /\ pc[r] = "cache" => hand[r].prefs = user.prefs
          /\ pc[r] = "save" => cache = None \/ hand[r].prefs = user.prefs

\* A removal that was cut short remains so.
LEMMA CutShortStays ==
    ASSUME AuthInv, CutShort, \A q \in Request : pc[q] = "refused" => pc'[q] = "refused",
           \A q \in Request : pc[q] # "idle" => op'[q] = op[q]
    PROVE  CutShort'
BY DEF CutShort

\* A step of the only active request decides what holds of it afterwards.
LEMMA SoleStep ==
    ASSUME AuthInv, OneActive, NEW r \in Request, pc[r] \in Active, NEW to, Goto(r, to),
           (cache # None /\ ~Exists)' =>
              user' # None /\ cache' = removed' /\ (CutShort' \/ to = "uncache"),
           (Exists /\ cache # None => cache = user.prefs)',
           to \in Found => Exists',
           to = "cache" => hand'[r].prefs = user'.prefs,
           to = "save" => cache' = None \/ hand'[r].prefs = user'.prefs
    PROVE  CacheInv'
<1>1. pc'[r] = to /\ \A q \in Request : q # r => pc'[q] = pc[q] /\ pc[q] \notin Active
  BY DEF Goto, OneActive, AuthInv, AuthTypeOK
<1>2. \A q \in Request : q # r => pc'[q] \notin Found
  BY <1>1 DEF Found, Active, UserAwaits
<1> QED
  BY <1>1, <1>2 DEF CacheInv, Found

LEMMA RowsExist ==
    ASSUME NEW x \in Row
    PROVE  x \notin {None, Gone, Reused} /\ x.prefs \in Prefs /\ x.prefs # None
BY AuthConstants DEF Row

\* What the only active request finds in the cache of a removed user.
LEMMA EntryLeft ==
    ASSUME AuthInv, OneActive, CacheInv, NEW r \in Request, pc[r] \in Active, NEW to, Goto(r, to),
           UNCHANGED op, pc[r] # "uncache", cache # None, ~Exists
    PROVE  user # None /\ cache = removed /\ CutShort /\ CutShort'
<1>1. user # None /\ cache = removed /\ (CutShort \/ \E q \in Request : pc[q] = "uncache")
  BY DEF CacheInv
<1>2. CutShort
  BY <1>1 DEF OneActive, Active, UserAwaits
<1>3. \A q \in Request : pc[q] = "refused" => pc'[q] = "refused"
  BY DEF Goto, AuthInv, AuthTypeOK, Active, UserAwaits
<1> QED
  BY <1>1, <1>2, <1>3, CutShortStays

LEMMA UserCacheStep ==
    ASSUME AuthInv, OneActive, CacheInv, NEW r \in Request, ServeUser(r), UNCHANGED op
    PROVE  CacheInv' /\ (op[r].kind = "preferences" /\ pc'[r] = "done"
                            => IF Exists THEN hand'[r].prefs = user.prefs
                               ELSE CutShort /\ hand'[r].prefs = removed)
<1>1. Known(r)
  BY DEF AuthInv, Control
<1>2. /\ user \in Row \cup {None, Gone, Reused} /\ cache \in Prefs \cup {None}
      /\ hand \in [Request -> Row \cup {None}]
      /\ pc \in [Request -> {"idle", "done", "refused"} \cup Active]
      /\ Exists <=> user \in Row
  BY RowsExist DEF AuthInv, AuthTypeOK, StoreTypeOK, Exists
<1>e. ASSUME NEW to, Goto(r, to), pc[r] \in Active \ {"uncache"}, cache # None, ~Exists
      PROVE  user # None /\ cache = removed /\ CutShort /\ CutShort'
  BY <1>e, EntryLeft
<1>3. CASE FindEmail(r)
  <2>1. /\ pc[r] \in Active \ {"uncache"} /\ op[r].kind = "create"
        /\ user' = user /\ cache' = cache /\ removed' = removed
    BY <1>1, <1>3 DEF FindEmail, Step, Known, Active, UserAwaits, storeVars
  <2>2. PICK to \in {"insert", "refused"} : Goto(r, to)
    BY <1>3 DEF FindEmail, Step
  <2> QED
    BY <1>e, <2>1, <2>2, SoleStep DEF CacheInv, Exists, Found
<1>4. CASE Insert(r)
  <2>1. op[r].kind = "create" /\ pc[r] = "insert" /\ pc[r] \in Active \ {"uncache"}
        /\ NewRow(r) \in Row
    BY <1>1, <1>4 DEF Insert, Step, Known, WellFormed, NewRow, Row, Active, UserAwaits
  <2>2. hand'[r] = NewRow(r) /\ cache' = cache /\ removed' = removed
    BY <1>2, <1>4 DEF Insert, Hold
  <2>3. CASE user = None
    <3>0. ~Exists
      BY <2>3 DEF Exists
    <3>1. Goto(r, "cache") /\ user' = hand'[r]
      BY <1>4, <2>2, <2>3, AuthConstants DEF Insert, Step
    <3>2. cache' = None
      BY <2>1, <2>2, <2>3, <3>0, <3>1, <1>e
    <3> QED
      BY <2>1, <2>2, <3>1, <3>2, RowsExist, SoleStep DEF Exists, Found
  <2>4. CASE user = Gone
    <3>1. Goto(r, "done") /\ user' = Reused
      BY <1>4, <2>4, AuthConstants DEF Insert, Step
    <3>2. Reused # None /\ ~Exists /\ ~Exists'
      BY <2>4, <3>1, AuthConstants DEF Exists
    <3> QED
      BY <1>e, <2>1, <2>2, <3>1, <3>2, SoleStep DEF Found
  <2>5. CASE user \notin {None, Gone}
    <3>1. Goto(r, "refused") /\ user' = user
      BY <1>4, <2>5 DEF Insert, Step
    <3> QED
      BY <1>e, <2>1, <2>2, <2>5, <3>1, SoleStep DEF CacheInv, Exists, Found
  <2> QED
    BY <2>1, <2>3, <2>4, <2>5
<1>5. CASE Find(r)
  <2>1. /\ pc[r] \in Active \ {"uncache"} /\ op[r].kind = "update"
        /\ user' = user /\ cache' = cache /\ removed' = removed
    BY <1>1, <1>5 DEF Find, Step, Known, Active, UserAwaits
  <2>2. CASE ~Exists
    <3>1. Goto(r, "refused")
      BY <1>5, <2>2 DEF Find, Step
    <3> QED
      BY <1>e, <2>1, <2>2, <3>1, SoleStep DEF Exists, Found
  <2>3. CASE Exists
    <3>1. hand'[r].prefs = IF op[r].prefs = None THEN user.prefs ELSE op[r].prefs
      BY <1>2, <1>5, <2>3 DEF Find, Hold, Changed
    <3>2. PICK to \in {"save", "invalidate"} : Goto(r, to) /\ (to = "save" => op[r].prefs = None)
      BY <1>5, <2>3 DEF Find, Step
    <3> QED
      BY <2>1, <2>3, <3>1, <3>2, SoleStep DEF CacheInv, Exists, Found
  <2> QED
    BY <2>1, <2>2, <2>3
<1>6. CASE Invalidate(r)
  BY <1>1, <1>6, SoleStep
     DEF Invalidate, Step, Known, CacheInv, Found, Exists, Active, UserAwaits
<1>7. CASE Save(r)
  <2>0. pc[r] = "save" /\ Exists
    BY <1>7 DEF Save, Step, CacheInv, Found
  <2>1. /\ pc[r] \in Active /\ op[r].kind = "update" /\ hand[r] \in Row
        /\ user' = hand[r] /\ hand' = hand /\ cache' = cache /\ Goto(r, "cache")
    BY <1>1, <1>7, <2>0 DEF Save, Step, Known, Active, UserAwaits, Exists
  <2>2. cache = None \/ cache = hand[r].prefs
    BY <2>0 DEF CacheInv
  <2> QED
    BY <2>1, <2>2, RowsExist, SoleStep DEF Exists, Found
<1>8. CASE Get(r)
  <2>1. /\ pc[r] = "get" /\ pc[r] \in Active \ {"uncache"}
        /\ user' = user /\ cache' = cache /\ removed' = removed
    BY <1>8 DEF Get, Step, Active, UserAwaits
  <2>2. PICK to \in {"select", "done"} :
           Goto(r, to) /\ (to = "done" => cache # None /\ hand'[r].prefs = cache)
    BY <1>2, <1>8 DEF Get, Step, Hold
  <2>3. CacheInv'
    BY <1>e, <2>1, <2>2, SoleStep DEF CacheInv, Exists, Found
  <2>4. pc'[r] = to
    BY <1>2, <2>2 DEF Goto
  <2> QED
    BY <1>e, <2>1, <2>2, <2>3, <2>4 DEF CacheInv
<1>9. CASE Select(r)
  <2>1. /\ pc[r] \in Active \ {"uncache"}
        /\ user' = user /\ cache' = cache /\ removed' = removed
    BY <1>9 DEF Select, Step, Active, UserAwaits
  <2>2. PICK to \in {"cache", "refused"} :
           Goto(r, to) /\ (to = "cache" => Exists /\ hand'[r].prefs = user.prefs)
    BY <1>2, <1>9 DEF Select, Step, Hold
  <2>3. CacheInv'
    BY <1>e, <2>1, <2>2, SoleStep DEF CacheInv, Exists, Found
  <2> QED
    BY <1>2, <2>2, <2>3 DEF Goto
<1>10. CASE CachePreferences(r)
  BY <1>1, <1>2, <1>10, SoleStep
     DEF CachePreferences, Step, Known, CacheInv, Found, Exists, Active, UserAwaits
<1>11. CASE Delete(r)
  <2>1. pc[r] \in Active \ {"uncache"} /\ op[r].kind = "remove" /\ cache' = cache
    BY <1>1, <1>11 DEF Delete, Step, Known, Active, UserAwaits
  <2>2. CASE Exists
    <3>1. Goto(r, "uncache") /\ user' = Gone /\ removed' = user.prefs
      BY <1>11, <2>2 DEF Delete, Erase, Step
    <3> QED
      BY <2>1, <2>2, <3>1, AuthConstants, SoleStep DEF CacheInv, Exists, Found
  <2>3. CASE ~Exists
    <3>1. Goto(r, "refused") /\ user' = user /\ removed' = removed
      BY <1>11, <2>3 DEF Delete, Erase, Step
    <3> QED
      BY <1>e, <2>1, <2>3, <3>1, SoleStep DEF Exists, Found
  <2> QED
    BY <2>1, <2>2, <2>3
<1>12. CASE Uncache(r)
  BY <1>1, <1>12, SoleStep
     DEF Uncache, Step, Known, CacheInv, Found, Exists, Active, UserAwaits
<1> QED
  BY <1>3, <1>4, <1>5, <1>6, <1>7, <1>8, <1>9, <1>10, <1>11, <1>12 DEF ServeUser

\* A query that fails ends its request, whether or not it wrote the row.
LEMMA FailureCacheStep ==
    ASSUME AuthInv, OneActive, CacheInv, NEW r \in Request, QueryFailed(r), UNCHANGED op
    PROVE  CacheInv' /\ pc'[r] = "refused"
<1>1. Known(r) /\ user \in Row \cup {None, Gone, Reused}
  BY DEF AuthInv, Control, AuthTypeOK, StoreTypeOK
<1>2. /\ pc[r] \in {"find_email", "find", "select", "insert", "save", "delete"}
      /\ Goto(r, "refused") /\ cache' = cache
  BY DEF QueryFailed
<1>3. pc[r] \in Active \ {"uncache"} /\ pc'[r] = "refused"
  BY <1>2 DEF Active, UserAwaits, Goto, AuthInv, AuthTypeOK
<1>e. cache # None /\ ~Exists => user # None /\ cache = removed /\ CutShort'
  BY <1>2, <1>3, EntryLeft
<1>4. CASE user' = user /\ removed' = removed
  BY <1>2, <1>3, <1>4, <1>e, SoleStep DEF CacheInv, Exists, Found
<1>5. CASE pc[r] = "insert" /\ removed' = removed
  <2>1. CASE user = None /\ user' = NewRow(r)
    <3>1. user' \in Row
      BY <1>1, <1>5, <2>1 DEF Known, WellFormed, NewRow, Row
    <3>2. cache = None
      BY <1>e, <2>1 DEF Exists
    <3> QED
      BY <1>2, <1>3, <3>1, <3>2, RowsExist, SoleStep DEF Exists, Found
  <2>2. CASE user = Gone /\ user' = Reused
    <3>1. ~Exists /\ ~Exists' /\ Reused # None
      BY <2>2, AuthConstants DEF Exists
    <3> QED
      BY <1>2, <1>3, <1>5, <1>e, <2>2, <3>1, SoleStep DEF Found
  <2> QED
    BY <1>4, <1>5, <2>1, <2>2 DEF QueryFailed
<1>6. CASE pc[r] = "save" /\ user' = hand[r]
  <2>1. hand[r] \in Row
    BY <1>1, <1>6 DEF Known
  <2>2. cache = None \/ cache = hand[r].prefs
    BY <1>6 DEF CacheInv, Found
  <2> QED
    BY <1>2, <1>3, <1>6, <2>1, <2>2, RowsExist, SoleStep DEF Exists, Found
<1>7. CASE pc[r] = "delete" /\ Erase /\ Exists
  <2>1. user' = Gone /\ removed' = user.prefs /\ Gone # None /\ ~Exists'
    BY <1>7, AuthConstants DEF Erase, Exists
  <2>2. cache # None => cache = user.prefs
    BY <1>7 DEF CacheInv
  <2>3. CutShort'
    <3>1. op'[r].kind = "remove"
      BY <1>1, <1>7 DEF Known
    <3> QED
      BY <1>3, <3>1 DEF CutShort
  <2> QED
    BY <1>2, <1>3, <2>1, <2>2, <2>3, SoleStep DEF Found
<1>8. CASE pc[r] = "delete" /\ Erase /\ ~Exists
  BY <1>4, <1>8 DEF Erase
<1> QED
  BY <1>3, <1>4, <1>5, <1>6, <1>7, <1>8 DEF QueryFailed

\* Requests for tokens, and the guard, leave the row and the cache alone.
LEMMA OtherCacheStep ==
    ASSUME AuthInv, CacheInv, NEW r \in Request,
           ServeAuth(r) \/ ReadFailed(r) \/ LookupFailed(r)
    PROVE  CacheInv' /\ (pc'[r] = "done" => op[r].kind # "preferences")
<1> USE DEF AuthInv, AuthTypeOK
<1>1. /\ Known(r) /\ UNCHANGED <<op, storeVars>> /\ \A q \in Request : q # r => pc'[q] = pc[q]
      /\ pc[r] \notin {"refused", "uncache"}
  BY DEF ServeAuth, Guard, GuardUser, Password, GetStored, CheckRevoked, CheckUser, Store,
     Forget, Revoke, BlacklistAccess, BlacklistOther, Keys, Del, Validate, ValidateUser,
     ReadFailed, LookupFailed, Do, Step, Goto, Control
<1>2. pc'[r] \notin Found
  <2>1. CASE GuardUser(r)
    <3>1. op[r] \in OpType
      BY <1>1, <2>1 DEF GuardUser, Do, Step, Known, WellFormed
    <3>2. op[r].kind \notin Public
      BY <1>1, <2>1 DEF GuardUser, Do, Step, Known
    <3>3. Entry(op[r]) \notin Found
      BY <3>1, <3>2, EntryType DEF Public, Found
    <3> QED
      BY <2>1, <3>3 DEF GuardUser, Do, Step, Goto, Found
  <2>2. CASE ~GuardUser(r)
    BY <2>2 DEF ServeAuth, Guard, Password, GetStored, CheckRevoked, CheckUser, Store,
       Forget, Revoke, BlacklistAccess, BlacklistOther, Keys, Del, Validate, ValidateUser,
       ReadFailed, LookupFailed, Do, Step, Goto, Found
  <2> QED
    BY <2>1, <2>2
<1>3. CacheInv'
  <2>1. ASSUME NEW q \in Request
        PROVE  /\ pc'[q] \in Found => Exists
               /\ pc'[q] = "cache" => hand[q].prefs = user.prefs
               /\ pc'[q] = "save" => cache = None \/ hand[q].prefs = user.prefs
    BY <1>1, <1>2 DEF CacheInv, Found
  <2>2. CutShort => CutShort'
    BY <1>1, CutShortStays
  <2>3. \A q \in Request : pc[q] = "uncache" => pc'[q] = "uncache"
    BY <1>1
  <2> QED
    BY <1>1, <2>1, <2>2, <2>3 DEF CacheInv, Exists, storeVars
<1>4. pc'[r] = "done" => op[r].kind # "preferences"
  <2>1. CASE GuardUser(r)
    <3>1. op[r] \in OpType
      BY <1>1, <2>1 DEF GuardUser, Do, Step, Known, WellFormed
    <3>2. Entry(op[r]) # "done"
      BY <3>1, EntryType
    <3> QED
      BY <2>1, <3>2 DEF GuardUser, Do, Step, Goto
  <2>2. CASE ~GuardUser(r)
    BY <1>1, <2>2 DEF ServeAuth, Guard, Password, GetStored, CheckRevoked, CheckUser, Store,
       Forget, Revoke, BlacklistAccess, BlacklistOther, Keys, Del, Validate, ValidateUser,
       ReadFailed, LookupFailed, Do, Step, Goto, Known
  <2> QED
    BY <2>1, <2>2
<1> QED
  BY <1>3, <1>4

LEMMA CacheStep ==
    /\ AuthInv /\ GatewayInv /\ ScheduleInv /\ OneByOne /\ RedisAnswers /\ OneActive /\ CacheInv
    /\ [Next]_vars
    => CacheInv' /\ ServesRow
<1> SUFFICES ASSUME AuthInv, GatewayInv, ScheduleInv, OneByOne, RedisAnswers, OneActive, CacheInv,
                    [Next]_vars
             PROVE  CacheInv' /\ ServesRow
  OBVIOUS
<1>0. pc \in [Request -> {"idle", "done", "refused"} \cup Active]
  BY DEF AuthInv, AuthTypeOK
<1>1. ASSUME NEW r \in Request, ServeAuth(r) \/ ReadFailed(r) \/ LookupFailed(r)
      PROVE  CacheInv' /\ ServesRow
  <2>1. \A q \in Request : q # r => pc'[q] = pc[q]
    BY <1>0, <1>1 DEF ServeAuth, Guard, GuardUser, Password, GetStored, CheckRevoked, CheckUser,
       Store, Forget, Revoke, BlacklistAccess, BlacklistOther, Keys, Del, Validate, ValidateUser,
       ReadFailed, LookupFailed, Do, Step, Goto
  <2> QED
    BY <1>1, <2>1, OtherCacheStep DEF ServesRow
<1>2. ASSUME NEW r \in Request, ServeUser(r), UNCHANGED op PROVE CacheInv' /\ ServesRow
  <2>1. \A q \in Request : q # r => pc'[q] = pc[q]
    BY <1>0, <1>2 DEF ServeUser, FindEmail, Insert, Find, Invalidate, Save, Get, Select,
       CachePreferences, Delete, Uncache, Step, Goto
  <2> QED
    BY <1>2, <2>1, UserCacheStep DEF ServesRow
<1>3. ASSUME NEW r \in Request, QueryFailed(r), UNCHANGED op PROVE CacheInv' /\ ServesRow
  <2>1. \A q \in Request : q # r => pc'[q] = pc[q]
    BY <1>0, <1>3 DEF QueryFailed, Goto
  <2> QED
    BY <1>3, <2>1, FailureCacheStep DEF ServesRow
<1>4. ASSUME NEW r \in Request PROVE ~RedisFailed(r)
  BY DEF RedisFailed, Fault, RedisAnswers
<1>5. CASE AuthIdle \/ \E t \in issued : ExpireToken(t) \/ ExpireListing(t)
  BY <1>5 DEF AuthIdle, ExpireToken, ExpireListing, storeVars, CacheInv, CutShort, Exists,
     ServesRow
<1>6. CASE ExpireCache /\ UNCHANGED op
  BY <1>6 DEF ExpireCache, CacheInv, Exists, ServesRow
<1>7. CASE Crash
  <2>1. /\ UNCHANGED <<op, storeVars>>
        /\ \A q \in Request : pc'[q] = IF pc[q] \in Active THEN "refused" ELSE pc[q]
    BY <1>7 DEF Crash
  <2>2. CutShort => CutShort'
    BY <2>1, CutShortStays
  <2>3. ASSUME NEW q \in Request, pc[q] = "uncache" PROVE CutShort'
    <3>1. Known(q) /\ pc'[q] = "refused" /\ op'[q] = op[q]
      BY <2>1, <2>3 DEF Active, UserAwaits, AuthInv, Control
    <3>2. op[q].kind = "remove"
      BY <2>3, <3>1 DEF Known
    <3> QED
      BY <3>1, <3>2 DEF CutShort
  <2>4. \A q \in Request : pc'[q] \notin Found /\ (pc'[q] = "done" => pc[q] = "done")
    BY <2>1 DEF Found, Active, UserAwaits
  <2> QED
    BY <2>1, <2>2, <2>3, <2>4 DEF storeVars, CacheInv, Exists, Found, ServesRow
<1>8. ASSUME NEW r \in Request, NEW o \in OpType, Begin(r, o) PROVE CacheInv' /\ ServesRow
  <2>1. /\ UNCHANGED storeVars /\ pc[r] = "idle"
        /\ \A q \in Request : q # r => pc'[q] = pc[q] /\ op'[q] = op[q]
        /\ pc'[r] = IF o.kind \in Public THEN Entry(o)
                    ELSE IF o.bearer \in expired THEN "refused" ELSE "guard"
    BY <1>0, <1>8 DEF Begin, Step, Goto, AuthInv, AuthTypeOK
  <2>2. pc'[r] \notin Found \cup {"done"}
    BY <2>1, EntryType DEF Public, Found
  <2>3. CutShort => CutShort'
    BY <2>1, CutShortStays
  <2>4. \A q \in Request : pc[q] = "uncache" => pc'[q] = "uncache"
    BY <2>1
  <2> QED
    BY <2>1, <2>2, <2>3, <2>4 DEF storeVars, CacheInv, Exists, Found, ServesRow
<1> QED
  BY <1>1, <1>2, <1>3, <1>4, <1>5, <1>6, <1>7, <1>8, StepKinds DEF PlainStep, Taken

\* update empties the cache, writes the row and fills the cache in three
\* steps, remove deletes the row before the entry, and a failing database or
\* a crash may end either between two of them, while any user reads: while
\* requests come one at a time and Redis answers, getPreferences answers what
\* the row says, and of a removed user nothing, except what the row said last
\* if the removal was cut short. That for any number of requests, faults and
\* restarts.
THEOREM PreferencesAreServed == Spec => PreferencesServed
<1> DEFINE Orderly == OneByOne /\ RedisAnswers
<1>1. Init => OneActive /\ CacheInv
  BY DEF Init, AuthInit, OneActive, CacheInv, Found, Active, UserAwaits
<1>2. AuthInv /\ GatewayInv /\ [Next]_vars => (Orderly <=> Orderly')
  BY EnvFixed DEF OneByOne, RedisAnswers
<1>3. AuthInv /\ GatewayInv /\ ScheduleInv /\ Orderly /\ OneActive /\ [Next]_vars => OneActive'
  BY OneActiveStep
<1>4. /\ AuthInv /\ GatewayInv /\ ScheduleInv /\ Orderly /\ OneActive /\ CacheInv /\ [Next]_vars
      => CacheInv' /\ ServesRow
  BY CacheStep
<1>5. (Orderly => ServesRow) => (OneByOne /\ "redis" \notin env.faults => ServesRow)
  BY DEF RedisAnswers
<1> HIDE DEF Orderly
<1>6. Spec => [](Orderly => OneActive)
  BY <1>1, <1>2, <1>3, InvHolds, ScheduleHolds, PTL DEF Spec
<1>7. Spec => [](Orderly => CacheInv)
  BY <1>1, <1>2, <1>4, <1>6, InvHolds, ScheduleHolds, PTL DEF Spec
<1>8. [Next]_vars /\ AuthInv /\ GatewayInv /\ ScheduleInv /\ (Orderly => OneActive)
      /\ (Orderly => CacheInv)
      => [OneByOne /\ "redis" \notin env.faults => ServesRow]_<<pc, storeVars>>
  BY <1>4, <1>5
<1> QED
  BY <1>6, <1>7, <1>8, InvHolds, ScheduleHolds, PTL DEF Spec, PreferencesServed
=============================================================================
