------------------------------ MODULE UserStore ------------------------------
(***************************************************************************)
(* UsersService of the user-service: one user's row in PostgreSQL and the  *)
(* cached preferences under user:preferences:<id> in Redis. Requests       *)
(* interleave at every awaited query or command. RedisService swallows the *)
(* errors of GET, SETEX and DEL, so a failed command is one without        *)
(* effect, or one whose effect nobody hears of.                            *)
(*                                                                         *)
(* Requests enter through the guard and the controllers in AuthTokens,     *)
(* which let any user act on any row. Of the other users' rows only one    *)
(* matters here: that of a new user with the e-mail of the removed one.    *)
(***************************************************************************)
EXTENDS Naturals, FiniteSets

CONSTANTS
    Request,       \* requests that arrive, numbered from 1 (bound)
    Prefs,         \* notification preferences
    Names,         \* values of the other columns a client may change
    Environments,  \* the loads and faults to allow for
    Gone,          \* the row of a removed user
    Reused,        \* the same, and a new user has the e-mail
    None           \* nothing: no row yet, no cache entry, a field left out

UserKinds == {"create", "update", "preferences", "remove"}
AuthKinds == {"login", "refresh", "logout", "validate"}
FaultKinds == {"process", "redis", "db", "expiry", "network"}

\* select: ['id', 'preferences'] leaves out the name.
Row == [prefs : Prefs, name : Names \cup {None}]

VARIABLES
    env,     \* the load (never changes)
    user,    \* the row: None before the user is created, Gone or Reused
             \* after removal
    cache,   \* Redis: the cached preferences
    pc,      \* per request: what it awaits next
    op,      \* per request: what it asks for
    hand,    \* per request: the entity in hand, at the end the answer
    removed, \* history: the preferences in the row when it was last removed
    faults   \* faults so far

storeVars == <<user, cache, hand, removed>>

UserAwaits == {"find_email", "insert", "find", "invalidate", "save", "cache",
               "get", "select", "delete", "uncache"}

Exists == user \notin {None, Gone, Reused}

Goto(r, label) == pc' = [pc EXCEPT ![r] = label]
Step(r, from, to) == pc[r] = from /\ Goto(r, to)
Hold(r, e) == hand' = [hand EXCEPT ![r] = e]

Fault(kind) == /\ kind \in env.faults
               /\ faults < env.max
               /\ faults' = faults + 1

\* The first await of each handler.
UserEntry(kind) ==
    CASE kind = "create" -> "find_email"
      [] kind = "update" -> "find"
      [] kind = "preferences" -> "get"
      [] kind = "remove" -> "delete"

-----------------------------------------------------------------------------
(* create. After a removal the e-mail is free for another user, with a row *)
(* and a cache entry of his own.                                           *)

FindEmail(r) ==
    /\ Step(r, "find_email", IF user \in {None, Gone} THEN "insert" ELSE "refused")
    /\ UNCHANGED <<storeVars, faults>>

NewRow(r) == [prefs |-> op[r].prefs, name |-> op[r].name]

\* save: the UNIQUE constraint on e-mail refuses a user created since.
Insert(r) ==
    /\ Step(r, "insert", CASE user = None -> "cache" [] user = Gone -> "done"
                           [] OTHER -> "refused")
    /\ user' = CASE user = None -> NewRow(r) [] user = Gone -> Reused [] OTHER -> user
    /\ Hold(r, NewRow(r))
    /\ UNCHANGED <<cache, removed, faults>>

-----------------------------------------------------------------------------
(* update *)

\* The entity with the fields of the dto assigned.
Changed(r) ==
    [prefs |-> IF op[r].prefs = None THEN user.prefs ELSE op[r].prefs,
     name  |-> IF op[r].name = None THEN user.name ELSE op[r].name]

Find(r) ==
    /\ Step(r, "find", IF ~Exists THEN "refused"
                       ELSE IF op[r].prefs = None THEN "save" ELSE "invalidate")
    /\ IF Exists THEN Hold(r, Changed(r)) ELSE UNCHANGED hand
    /\ UNCHANGED <<user, cache, removed, faults>>

\* Mutant: the cache is not emptied before the row is saved.
Invalidate_Skipped(r) ==
    /\ Step(r, "invalidate", "save")
    /\ UNCHANGED <<storeVars, faults>>

\* invalidatePreferencesCache, before the row is saved.
Invalidate(r) ==
    /\ Step(r, "invalidate", "save")
    /\ cache' = None
    /\ UNCHANGED <<user, hand, removed, faults>>

\* save writes every column that differs from the entity in hand, and inserts
\* the row if it was removed meanwhile and its e-mail is still free.
Save(r) ==
    /\ Step(r, "save", IF user = Reused THEN "refused" ELSE "cache")
    /\ user' = IF user = Reused THEN user ELSE hand[r]
    /\ UNCHANGED <<cache, hand, removed, faults>>

-----------------------------------------------------------------------------
(* getPreferences *)

Get(r) ==
    /\ Step(r, "get", IF cache = None THEN "select" ELSE "done")
    /\ IF cache = None THEN UNCHANGED hand
       ELSE Hold(r, [prefs |-> cache, name |-> None])
    /\ UNCHANGED <<user, cache, removed, faults>>

Select(r) ==
    /\ Step(r, "select", IF Exists THEN "cache" ELSE "refused")
    /\ IF Exists THEN Hold(r, [prefs |-> user.prefs, name |-> None])
       ELSE UNCHANGED hand
    /\ UNCHANGED <<user, cache, removed, faults>>

\* cacheUserPreferences ends create, update and getPreferences.
CachePreferences(r) ==
    /\ Step(r, "cache", "done")
    /\ cache' = hand[r].prefs
    /\ UNCHANGED <<user, hand, removed, faults>>

-----------------------------------------------------------------------------
(* remove *)

\* DELETE of the row, if there is one.
Erase ==
    /\ user' = IF Exists THEN Gone ELSE user
    /\ removed' = IF Exists THEN user.prefs ELSE removed

Delete(r) ==
    /\ Step(r, "delete", IF Exists THEN "uncache" ELSE "refused")
    /\ Erase
    /\ UNCHANGED <<cache, hand, faults>>

\* Mutant: the cache entry of the removed user stays.
Uncache_Not(r) ==
    /\ Step(r, "uncache", "done")
    /\ UNCHANGED <<storeVars, faults>>

Uncache(r) ==
    /\ Step(r, "uncache", "done")
    /\ cache' = None
    /\ UNCHANGED <<user, hand, removed, faults>>

ServeUser(r) ==
    \/ FindEmail(r) \/ Insert(r) \/ Find(r) \/ Invalidate(r) \/ Save(r) \/ Get(r)
    \/ Select(r) \/ CachePreferences(r) \/ Delete(r) \/ Uncache(r)

-----------------------------------------------------------------------------
(* Failures. *)

\* RedisService.get turns an error into a miss, set and del ignore theirs.
RedisFailed(r) ==
    /\ \/ Step(r, "get", "select") /\ UNCHANGED cache
       \/ Step(r, "invalidate", "save") /\ cache' \in {cache, None}
       \/ Step(r, "cache", "done") /\ cache' \in {cache, hand[r].prefs}
       \/ Step(r, "uncache", "done") /\ cache' \in {cache, None}
    /\ Fault("redis")
    /\ UNCHANGED <<user, hand, removed>>

\* A query throws, with or without effect, and the handler ends.
QueryFailed(r) ==
    /\ \/ pc[r] \in {"find_email", "find", "select"} /\ UNCHANGED <<user, removed>>
       \/ /\ pc[r] = "insert" /\ UNCHANGED removed
          /\ user' \in {user, CASE user = None -> NewRow(r) [] user = Gone -> Reused
                               [] OTHER -> user}
       \/ /\ pc[r] = "save" /\ UNCHANGED removed
          /\ user' \in {user, IF user = Reused THEN user ELSE hand[r]}
       \/ pc[r] = "delete" /\ (UNCHANGED <<user, removed>> \/ Erase)
    /\ Goto(r, "refused")
    /\ Fault("db")
    /\ UNCHANGED <<cache, hand>>

\* CACHE_TTL has passed.
ExpireCache ==
    /\ cache # None
    /\ cache' = None
    /\ UNCHANGED <<user, hand, removed, pc, faults>>

-----------------------------------------------------------------------------
StoreTypeOK ==
    /\ user \in Row \cup {None, Gone, Reused}
    /\ cache \in Prefs \cup {None}
    /\ hand \in [Request -> Row \cup {None}]
    /\ removed \in Prefs \cup {None}

\* A removal has failed, perhaps between the row and the cache.
CutShort == \E r \in Request : pc[r] = "refused" /\ op[r].kind = "remove"

\* A getPreferences that ends now answers what the row says, or what it said
\* before a removal that was cut short.
ServesRow ==
    \A r \in Request :
        op[r] # None /\ op[r].kind = "preferences" /\ pc[r] # "done" /\ pc'[r] = "done"
        => IF Exists THEN hand'[r].prefs = user.prefs
           ELSE CutShort /\ hand'[r].prefs = removed

\* Requests come one at a time, and none through the gateway, which does not
\* wait for a call its timer gave up on.
OneByOne == env.concurrency <= 1 /\ env.routes = {}

\* getPreferences looks at the cache alone, and the guard at the bearer alone,
\* whoever the :id belongs to. While requests come one at a time and Redis
\* answers, the answer is what the row says, also after updates that a failing
\* database or a crash cut short. Of a removed user nothing is answered, unless
\* the removal itself was cut short: then it is what the row said last.
PreferencesServed ==
    [][OneByOne /\ "redis" \notin env.faults => ServesRow]_<<pc, storeVars>>
=============================================================================
