----------------------------- MODULE TemplateStore -----------------------------
(***************************************************************************)
(* template-service: the versions of one template (a code and a language)  *)
(* in PostgreSQL, and their copies in the Redis cache under                *)
(* template:<code>:<language>:<version> and ...:latest.  Requests that     *)
(* create, update, read and delete the template are served concurrently,   *)
(* by one process or several: they share nothing but the table and the     *)
(* cache, and interleave at every awaited query or command.                *)
(*                                                                         *)
(* A content is abstracted to the placeholders in it.                      *)
(***************************************************************************)
EXTENDS Naturals, FiniteSets

CONSTANTS
    Request,       \* requests that arrive, numbered as they come (bound)
    Var,           \* names of template variables
    Ops,           \* what a request may ask for
    Environments,  \* the loads to allow for
    None           \* a field that is missing

\* Cache keys are version numbers; 0 stands for the key ...:latest.
Latest == 0

\* kind, the version a read asks for (Latest: none), and the dto's fields.
OpType == [kind : {"create", "update", "find", "delete"}, version : Nat,
           content : {None} \cup SUBSET Var, variables : {None} \cup SUBSET Var]

Row == [id : Request, version : Nat, content : SUBSET Var, variables : SUBSET Var]

\* What arrives, how many requests at all and at once (bounds), and whether
\* a query or command may fail.
Environment == [ops : SUBSET Ops, requests : Nat, concurrency : Nat, fails : BOOLEAN]

ASSUME TemplateConstants ==
    /\ Request \subseteq Nat
    /\ Ops \subseteq OpType
    /\ \A o \in Ops : o.kind = "create" => o.content # None /\ o.variables # None
    /\ Environments \subseteq Environment

VARIABLES
    env,     \* the load (never changes)
    rows,    \* the rows of table templates, each with the request that made it
    cache,   \* Redis: entries with their key and whether they expire
    events,  \* rows announced by template.updated
    pc,      \* per request: what it awaits next
    op,      \* per request: what it asks for
    row,     \* per request: the template in hand, at the end the answer
    doomed   \* per request: cache keys it has still to delete

vars == <<env, rows, cache, events, pc, op, row, doomed>>

Active == {"exists", "read", "insert", "keys", "del", "set_latest",
           "set_version", "publish", "get", "select"}
Ended  == {"done", "failed"}

\* validateVariables: every placeholder is declared.
IsValid(content, variables) == content \subseteq variables

\* The rows ORDER BY version DESC may put first: versions are not unique.
Newest == {t \in rows : \A u \in rows : u.version <= t.version}

Goto(r, label) == pc' = [pc EXCEPT ![r] = label]
Step(r, from, to) == pc[r] = from /\ Goto(r, to)

Init ==
    /\ env \in Environments
    /\ rows = {} /\ cache = {} /\ events = {}
    /\ pc = [r \in Request |-> "idle"]
    /\ op = [r \in Request |-> None]
    /\ row = [r \in Request |-> None]
    /\ doomed = [r \in Request |-> {}]

-----------------------------------------------------------------------------
(* The controller hands a request to TemplatesService; create validates    *)
(* its content before anything is awaited.                                 *)

FirstAwait(o) ==
    CASE o.kind = "create" -> IF IsValid(o.content, o.variables)
                              THEN "exists" ELSE "failed"
      [] o.kind = "find"   -> "get"
      [] OTHER             -> "read"

Start(r, o) ==
    /\ \A s \in Request : pc[s] = "idle" => r <= s
    /\ Cardinality({s \in Request : pc[s] # "idle"}) < env.requests
    /\ Cardinality({s \in Request : pc[s] \in Active}) < env.concurrency
    /\ Step(r, "idle", FirstAwait(o))
    /\ op' = [op EXCEPT ![r] = o]
    /\ UNCHANGED <<env, rows, cache, events, row, doomed>>

-----------------------------------------------------------------------------
(* create and update *)

\* repository.exists
Exists(r) ==
    /\ Step(r, "exists", IF rows = {} THEN "insert" ELSE "failed")
    /\ row' = [row EXCEPT ![r] = [id |-> r, version |-> 1, content |-> op[r].content,
                                  variables |-> op[r].variables]]
    /\ UNCHANGED <<env, rows, cache, events, op, doomed>>

\* Mutant: the new version is numbered after the row count.
NextRow_Counted(r, latest) ==
    [id |-> r, version |-> Cardinality(rows) + 1,
     content |-> IF op[r].content = None THEN latest.content ELSE op[r].content,
     variables |-> IF op[r].variables = None THEN latest.variables
                                             ELSE op[r].variables]

\* The row an update inserts: what the dto leaves out comes from the latest.
NextRow(r, latest) ==
    [id |-> r, version |-> latest.version + 1,
     content |-> IF op[r].content = None THEN latest.content ELSE op[r].content,
     variables |-> IF op[r].variables = None THEN latest.variables
                                             ELSE op[r].variables]

\* Mutant: only the fields of the dto are validated.
AcceptsUpdate_DtoOnly(r, t) ==
    op[r].content = None \/ op[r].variables = None
    \/ IsValid(op[r].content, op[r].variables)

\* The merged content and variables are validated, not the dto alone.
AcceptsUpdate(r, t) == IsValid(t.content, t.variables)

\* repository.findByCodeAndLanguage in update: the latest row, or an error.
ReadLatest(r) ==
    /\ pc[r] = "read" /\ op[r].kind = "update"
    /\ \/ /\ rows = {}
          /\ Goto(r, "failed")
          /\ UNCHANGED row
       \/ \E t \in Newest :
             /\ Goto(r, IF AcceptsUpdate(r, NextRow(r, t))
                        THEN "insert" ELSE "failed")
             /\ row' = [row EXCEPT ![r] = NextRow(r, t)]
    /\ UNCHANGED <<env, rows, cache, events, op, doomed>>

\* Mutant: an update leaves the cache alone.
Insert_NoRefresh(r) ==
    /\ Step(r, "insert", IF op[r].kind = "create" THEN "set_latest" ELSE "publish")
    /\ rows' = rows \cup {row[r]}
    /\ UNCHANGED <<env, cache, events, op, row, doomed>>

\* repository.create: INSERT, whatever other requests inserted meanwhile.
Insert(r) ==
    /\ Step(r, "insert", IF op[r].kind = "create" THEN "set_latest" ELSE "keys")
    /\ rows' = rows \cup {row[r]}
    /\ UNCHANGED <<env, cache, events, op, row, doomed>>

\* publishUpdate: an error is swallowed.
Publish(r) ==
    /\ Step(r, "publish", "done")
    /\ events' \in {events, events \cup {row[r]}}
    /\ UNCHANGED <<env, rows, cache, op, row, doomed>>

-----------------------------------------------------------------------------
(* The cache *)

Entry(key, t) == [key |-> key, row |-> t, expires |-> TRUE]
Without(key) == {e \in cache : e.key # key}
CachedKeys == {e.key : e \in cache}

\* Mutant: the key is the one of the version to come.
VersionKey_Next(t) == t.version + 1

\* The versioned key of a row.
VersionKey(t) == t.version

\* Mutant: SET without EX.
SetLatest_NoTtl(r) ==
    /\ Step(r, "set_latest", "set_version")
    /\ cache' = Without(Latest) \cup {[key |-> Latest, row |-> row[r], expires |-> FALSE]}
    /\ UNCHANGED <<env, rows, events, op, row, doomed>>

\* cacheTemplate, first command: ...:latest, for every row it is given.
SetLatest(r) ==
    /\ Step(r, "set_latest", "set_version")
    /\ cache' = Without(Latest) \cup {Entry(Latest, row[r])}
    /\ UNCHANGED <<env, rows, events, op, row, doomed>>

\* cacheTemplate, second command.
SetVersion(r) ==
    /\ Step(r, "set_version", IF op[r].kind = "find" THEN "done" ELSE "publish")
    /\ cache' = Without(VersionKey(row[r])) \cup {Entry(VersionKey(row[r]), row[r])}
    /\ UNCHANGED <<env, rows, events, op, row, doomed>>

AfterInvalidation(r) == IF op[r].kind = "update" THEN "set_latest" ELSE "done"

\* invalidateCache: KEYS.
Keys(r) ==
    /\ Step(r, "keys", IF cache = {} THEN AfterInvalidation(r) ELSE "del")
    /\ doomed' = [doomed EXCEPT ![r] = CachedKeys]
    /\ UNCHANGED <<env, rows, cache, events, op, row>>

\* invalidateCache: one DEL for each key found, all sent at once.
Del(r, key) ==
    /\ key \in doomed[r]
    /\ Step(r, "del", IF doomed[r] = {key} THEN AfterInvalidation(r) ELSE "del")
    /\ cache' = Without(key)
    /\ doomed' = [doomed EXCEPT ![r] = @ \ {key}]
    /\ UNCHANGED <<env, rows, events, op, row>>

-----------------------------------------------------------------------------
(* findOne and delete *)

\* redisService.get
Get(r) ==
    /\ pc[r] = "get"
    /\ \/ /\ op[r].version \notin CachedKeys
          /\ Goto(r, "select")
          /\ UNCHANGED row
       \/ \E e \in cache :
             /\ e.key = op[r].version
             /\ Goto(r, "done")
             /\ row' = [row EXCEPT ![r] = e.row]
    /\ UNCHANGED <<env, rows, cache, events, op, doomed>>

\* Mutant: the version is not part of the query.
Matching_AnyVersion(version) == Newest

Matching(version) == IF version = Latest THEN Newest
                     ELSE {t \in rows : t.version = version}

\* Mutant: no check for a template that does not exist.
Select_Unchecked(r) ==
    /\ pc[r] = "select"
    /\ Goto(r, "set_latest")
    /\ IF Matching(op[r].version) = {}
       THEN row' = [row EXCEPT ![r] = None]
       ELSE \E t \in Matching(op[r].version) : row' = [row EXCEPT ![r] = t]
    /\ UNCHANGED <<env, rows, cache, events, op, doomed>>

\* repository.findByCodeAndLanguage in findOne.
Select(r) ==
    /\ pc[r] = "select"
    /\ \/ /\ Matching(op[r].version) = {}
          /\ Goto(r, "failed")
          /\ UNCHANGED row
       \/ \E t \in Matching(op[r].version) :
             /\ Goto(r, "set_latest")
             /\ row' = [row EXCEPT ![r] = t]
    /\ UNCHANGED <<env, rows, cache, events, op, doomed>>

\* delete only checks that there is a template, then empties the cache.
ReadDoomed(r) ==
    /\ pc[r] = "read" /\ op[r].kind = "delete"
    /\ Goto(r, IF rows = {} THEN "failed" ELSE "keys")
    /\ UNCHANGED <<env, rows, cache, events, op, row, doomed>>

-----------------------------------------------------------------------------
(* Environment. *)

\* An awaited call fails, or the process dies: the request ends there. A
\* failed publish is not an error of the request.
Fail(r) ==
    /\ env.fails
    /\ pc[r] \in Active \ {"publish"}
    /\ Goto(r, "failed")
    /\ UNCHANGED <<env, rows, cache, events, op, row, doomed>>

\* A cache entry reaches its time to live.
Expire(e) ==
    /\ e \in cache /\ e.expires
    /\ cache' = cache \ {e}
    /\ UNCHANGED <<env, rows, events, pc, op, row, doomed>>

\* The last request is over.
Quiet ==
    /\ \A r \in Request : pc[r] \notin Active
    /\ Cardinality({r \in Request : pc[r] # "idle"}) >= env.requests

Idle == Quiet /\ UNCHANGED vars

Serve(r) ==
    \/ Exists(r) \/ ReadLatest(r) \/ Insert(r) \/ Publish(r)
    \/ SetLatest(r) \/ SetVersion(r) \/ Keys(r) \/ (\E key \in doomed[r] : Del(r, key))
    \/ Get(r) \/ Select(r) \/ ReadDoomed(r)

Next ==
    \/ \E r \in Request, o \in env.ops : Start(r, o)
    \/ \E r \in Request : Serve(r) \/ Fail(r)
    \/ \E e \in cache : Expire(e)
    \/ Idle

Spec == Init /\ [][Next]_vars

\* Node serves every request to its end, and Redis expires what has a time
\* to live.
FairSpec ==
    Spec /\ (\A r \in Request : WF_vars(Serve(r)))
         /\ WF_vars(\E e \in cache : Expire(e))

-----------------------------------------------------------------------------
(* Properties. *)

EntryType == [key : Nat, row : Row, expires : BOOLEAN]

TypeOK ==
    /\ env \in Environments
    /\ rows \subseteq Row /\ events \subseteq Row
    /\ cache \subseteq EntryType
    /\ pc \in [Request -> {"idle"} \cup Active \cup Ended]
    /\ op \in [Request -> {None} \cup Ops]
    /\ row \in [Request -> {None} \cup Row]
    /\ doomed \in [Request -> SUBSET Nat]

\* Versions start at 1 and leave no gap: a client that counts down from the
\* latest version finds every one of them, whichever updates raced or failed.
NoVersionGap ==
    \A t \in rows : t.version = 1 \/ \E u \in rows : t.version = u.version + 1

\* Workers get render-ready templates: in every stored version each
\* placeholder is declared, also when an update changed only one of content
\* and variables.
RenderReady == \A t \in rows : IsValid(t.content, t.variables)

\* The cache never invents: an entry is a row of the table, and under a
\* versioned key a row of that version.
CacheTruthful ==
    \A e \in cache : e.row \in rows /\ (e.key = Latest \/ e.key = e.row.version)

\* A read of a version is answered with that version.
ExactVersionServed ==
    \A r \in Request :
        pc[r] = "done" /\ op[r].kind = "find" /\ op[r].version # Latest
        => row[r].version = op[r].version

\* The cached latest is the newest version, or there is none.
CacheIsFresh == \A e \in cache : e.key = Latest => e.row \in Newest

\* The time to live heals the cache: once the last request is over, a stale
\* latest version goes away in the end.
StalenessEnds == Quiet ~> CacheIsFresh

\* A read without a version gets the newest one, said of a read while no
\* other request is in progress.
ServesLatest ==
    \A r \in Request :
        /\ pc[r] \in Active /\ pc'[r] = "done"
        /\ op[r].kind = "find" /\ op[r].version = Latest
        /\ \A s \in Request \ {r} : pc[s] \notin Active
        => row'[r] \in Newest

\* The refresh of the cache works while requests come one at a time, none
\* fails and none reads an explicit version.
LatestServed ==
    [][env.concurrency <= 1 /\ ~env.fails /\ (\A o \in env.ops : o.version = Latest)
       => ServesLatest]_vars
=============================================================================
