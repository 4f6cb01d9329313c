-------------------------- MODULE TemplateStoreProofs --------------------------
(***************************************************************************)
(* Proofs about TemplateStore, for any number of requests, in progress at  *)
(* once or not, of any kind, with calls failing anywhere.                  *)
(*                                                                         *)
(* None of the safety properties is inductive: an INSERT keeps them only   *)
(* because of the row the request prepared before it, and an answer is     *)
(* right only because of the entry or the row it was taken from. StoreInv  *)
(* adds what each request knows about the row it has in hand.              *)
(***************************************************************************)
EXTENDS TemplateStore, FiniteSetTheorems, TLAPS

\* Where a request of each kind can be, and what it was checked for.
Control ==
    \A r \in Request :
        /\ pc[r] \in Active \cup {"done"} => op[r] \in Ops
        /\ pc[r] = "exists" => /\ op[r].kind = "create"
                               /\ IsValid(op[r].content, op[r].variables)
        /\ pc[r] = "read" => op[r].kind \in {"update", "delete"}
        /\ pc[r] \in {"insert", "publish"} => op[r].kind \in {"create", "update"}
        /\ pc[r] \in {"keys", "del"} => op[r].kind \in {"update", "delete"}
        /\ pc[r] \in {"get", "select"} => op[r].kind = "find"
        /\ pc[r] \in {"set_latest", "set_version"}
              => op[r].kind \in {"create", "update", "find"}
        /\ pc[r] \in {"insert", "set_latest", "set_version", "publish"}
              => row[r] \in Row
        /\ pc[r] \in {"keys", "del"} /\ op[r].kind = "update" => row[r] \in Row

LEMMA NewestAreRows == Newest \subseteq rows
BY DEF Newest

LEMMA NextRowType ==
    ASSUME TypeOK, NEW r \in Request, op[r] \in Ops, NEW t \in rows
    PROVE  NextRow(r, t) \in Row
BY TemplateConstants DEF TypeOK, NextRow, Row, OpType

\* What arrives is one of the operations the proofs speak of.
LEMMA LoadType == ASSUME TypeOK PROVE env.ops \subseteq Ops
BY TemplateConstants DEF TypeOK, Environment

LEMMA ControlInit == Init => TypeOK /\ Control
BY DEF Init, TypeOK, Control, Active, Ended

LEMMA ControlStep == TypeOK /\ Control /\ [Next]_vars => TypeOK' /\ Control'
<1> SUFFICES ASSUME TypeOK, Control, [Next]_vars PROVE TypeOK' /\ Control'
  OBVIOUS
<1> USE DEF Active, Ended
<1>1. ASSUME NEW r \in Request, NEW o \in Ops, Start(r, o) PROVE TypeOK' /\ Control'
  <2>1. FirstAwait(o) \in {"exists", "failed", "get", "read"}
    BY DEF FirstAwait
  <2>2. /\ FirstAwait(o) = "exists" => /\ o.kind = "create"
                                       /\ IsValid(o.content, o.variables)
        /\ FirstAwait(o) = "get" => o.kind = "find"
        /\ FirstAwait(o) = "read" => o.kind \in {"update", "delete"}
    BY TemplateConstants DEF FirstAwait, OpType
  <2>3. TypeOK'
    BY <1>1, <2>1 DEF Start, Step, Goto, TypeOK
  <2>4. Control'
    BY <1>1, <2>1, <2>2 DEF Start, Step, Goto, TypeOK, Control
  <2> QED BY <2>3, <2>4
<1>2. ASSUME NEW r \in Request, Exists(r) PROVE TypeOK' /\ Control'
  <2>1. op[r] \in Ops /\ op[r].kind = "create"
    BY <1>2 DEF Exists, Step, Control
  <2>2. [id |-> r, version |-> 1, content |-> op[r].content,
         variables |-> op[r].variables] \in Row
    BY <2>1, TemplateConstants DEF Row, OpType
  <2>3. TypeOK'
    BY <1>2, <2>2 DEF Exists, Step, Goto, TypeOK
  <2>4. Control'
    BY <1>2, <2>1, <2>2 DEF Exists, Step, Goto, TypeOK, Control
  <2> QED BY <2>3, <2>4
<1>3. ASSUME NEW r \in Request, ReadLatest(r) PROVE TypeOK' /\ Control'
  <2>1. op[r] \in Ops
    BY <1>3 DEF ReadLatest, Control
  <2>2. \A t \in Newest : NextRow(r, t) \in Row
    BY <2>1, NewestAreRows, NextRowType
  <2>3. TypeOK'
    BY <1>3, <2>2 DEF ReadLatest, Goto, TypeOK
  <2>4. Control'
    BY <1>3, <2>1, <2>2 DEF ReadLatest, Goto, TypeOK, Control
  <2> QED BY <2>3, <2>4
<1>4. ASSUME NEW r \in Request, Insert(r) PROVE TypeOK' /\ Control'
  <2>1. row[r] \in Row /\ op[r].kind \in {"create", "update"} /\ op[r] \in Ops
    BY <1>4 DEF Insert, Step, Control
  <2>2. TypeOK'
    BY <1>4, <2>1 DEF Insert, Step, Goto, TypeOK
  <2>3. Control'
    BY <1>4, <2>1 DEF Insert, Step, Goto, TypeOK, Control
  <2> QED BY <2>2, <2>3
<1>5. ASSUME NEW r \in Request, Publish(r) PROVE TypeOK' /\ Control'
  <2>1. row[r] \in Row
    BY <1>5 DEF Publish, Step, Control
  <2>2. TypeOK'
    BY <1>5, <2>1 DEF Publish, Step, Goto, TypeOK
  <2>3. Control'
    BY <1>5 DEF Publish, Step, Goto, TypeOK, Control
  <2> QED BY <2>2, <2>3
<1>6. ASSUME NEW r \in Request, SetLatest(r) PROVE TypeOK' /\ Control'
  <2>1. row[r] \in Row /\ op[r] \in Ops
    BY <1>6 DEF SetLatest, Step, Control
  <2>2. Entry(Latest, row[r]) \in EntryType
    BY <2>1 DEF Entry, EntryType, Latest
  <2>3. TypeOK'
    BY <1>6, <2>2 DEF SetLatest, Step, Goto, TypeOK, Without
  <2>4. Control'
    BY <1>6, <2>1 DEF SetLatest, Step, Goto, TypeOK, Control
  <2> QED BY <2>3, <2>4
<1>7. ASSUME NEW r \in Request, SetVersion(r) PROVE TypeOK' /\ Control'
  <2>1. row[r] \in Row /\ op[r] \in Ops
    BY <1>7 DEF SetVersion, Step, Control
  <2>2. Entry(VersionKey(row[r]), row[r]) \in EntryType
    BY <2>1 DEF Entry, EntryType, VersionKey, Row
  <2>3. TypeOK'
    BY <1>7, <2>2 DEF SetVersion, Step, Goto, TypeOK, Without
  <2>4. Control'
    BY <1>7, <2>1 DEF SetVersion, Step, Goto, TypeOK, Control
  <2> QED BY <2>3, <2>4
<1>8. ASSUME NEW r \in Request, Keys(r) PROVE TypeOK' /\ Control'
  <2>1. CachedKeys \subseteq Nat
    BY DEF CachedKeys, TypeOK, EntryType
  <2>2. TypeOK'
    BY <1>8, <2>1 DEF Keys, Step, Goto, TypeOK, AfterInvalidation
  <2>3. Control'
    BY <1>8 DEF Keys, Step, Goto, TypeOK, Control, AfterInvalidation
  <2> QED BY <2>2, <2>3
<1>9. ASSUME NEW r \in Request, NEW key \in doomed[r], Del(r, key)
      PROVE TypeOK' /\ Control'
  <2>1. TypeOK'
    BY <1>9 DEF Del, Step, Goto, TypeOK, AfterInvalidation, Without
  <2>2. Control'
    BY <1>9 DEF Del, Step, Goto, TypeOK, Control, AfterInvalidation
  <2> QED BY <2>1, <2>2
<1>10. ASSUME NEW r \in Request, Get(r) PROVE TypeOK' /\ Control'
  <2>1. \A e \in cache : e.row \in Row
    BY DEF TypeOK, EntryType
  <2>2. TypeOK'
    BY <1>10, <2>1 DEF Get, Goto, TypeOK
  <2>3. Control'
    BY <1>10, <2>1 DEF Get, Goto, TypeOK, Control
  <2> QED BY <2>2, <2>3
<1>11. ASSUME NEW r \in Request, Select(r) PROVE TypeOK' /\ Control'
  <2>1. Matching(op[r].version) \subseteq Row
    BY NewestAreRows DEF Matching, TypeOK
  <2>2. TypeOK'
    BY <1>11, <2>1 DEF Select, Goto, TypeOK
  <2>3. Control'
    BY <1>11, <2>1 DEF Select, Goto, TypeOK, Control
  <2> QED BY <2>2, <2>3
<1>12. ASSUME NEW r \in Request, ReadDoomed(r) PROVE TypeOK' /\ Control'
  BY <1>12 DEF ReadDoomed, Goto, TypeOK, Control
<1>13. ASSUME NEW r \in Request, Fail(r) PROVE TypeOK' /\ Control'
  BY <1>13 DEF Fail, Goto, TypeOK, Control
<1>14. ASSUME NEW e \in cache, Expire(e) PROVE TypeOK' /\ Control'
  BY <1>14 DEF Expire, TypeOK, Control
<1>15. ASSUME UNCHANGED vars PROVE TypeOK' /\ Control'
  BY <1>15 DEF vars, TypeOK, Control, IsValid
<1> QED
  BY <1>1, <1>2, <1>3, <1>4, <1>5, <1>6, <1>7, <1>8, <1>9, <1>10, <1>11, <1>12,
     <1>13, <1>14, <1>15, LoadType DEF Next, Serve, Idle

\* No request, failure or expiry leaves the types of the table, the cache
\* and the requests.
THEOREM TypeInvariant == Spec => []TypeOK
<1>1. Spec => [](TypeOK /\ Control)
  BY ControlInit, ControlStep, PTL DEF Spec
<1> QED
  BY <1>1, PTL

-----------------------------------------------------------------------------
\* A row about to be inserted continues the history and is render-ready.
Prepared ==
    \A r \in Request :
        pc[r] = "insert" =>
            /\ IsValid(row[r].content, row[r].variables)
            /\ \/ row[r].version = 1
               \/ \E u \in rows : row[r].version = u.version + 1

\* A row about to be cached is in the table.
InHand ==
    \A r \in Request :
        \/ pc[r] \in {"set_latest", "set_version"}
        \/ pc[r] \in {"keys", "del"} /\ op[r].kind = "update"
        => row[r] \in rows

\* A read that asked for a version has that version in hand.
Asked ==
    \A r \in Request :
        /\ pc[r] \in {"set_latest", "set_version", "done"}
        /\ op[r].kind = "find" /\ op[r].version # Latest
        => row[r].version = op[r].version

StoreInv ==
    /\ NoVersionGap /\ RenderReady /\ CacheTruthful
    /\ Prepared /\ InHand /\ Asked

LEMMA StoreInit == Init => StoreInv
BY DEF Init, StoreInv, NoVersionGap, RenderReady, CacheTruthful, Prepared, InHand,
       Asked

\* Only INSERT touches the table.
LEMMA RowsChange ==
    ASSUME [Next]_vars, ~ \E r \in Request : Insert(r) PROVE rows' = rows
BY DEF Next, Serve, Idle, vars, Start, Exists, ReadLatest, Publish, SetLatest,
       SetVersion, Keys, Del, Get, Select, ReadDoomed, Fail, Expire

LEMMA TableStep ==
    TypeOK /\ Control /\ StoreInv /\ [Next]_vars => (NoVersionGap /\ RenderReady)'
<1> SUFFICES ASSUME TypeOK, Control, StoreInv, [Next]_vars
             PROVE  (NoVersionGap /\ RenderReady)'
  OBVIOUS
<1>1. CASE ~ \E r \in Request : Insert(r)
  <2>1. rows' = rows
    BY <1>1, RowsChange
  <2> QED
    BY <2>1 DEF StoreInv, NoVersionGap, RenderReady
<1>2. ASSUME NEW r \in Request, Insert(r) PROVE (NoVersionGap /\ RenderReady)'
  <2>1. rows' = rows \cup {row[r]} /\ pc[r] = "insert"
    BY <1>2 DEF Insert, Step
  <2>2. NoVersionGap'
    BY <2>1 DEF StoreInv, NoVersionGap, Prepared
  <2>3. RenderReady'
    BY <2>1 DEF StoreInv, RenderReady, Prepared
  <2> QED
    BY <2>2, <2>3
<1> QED
  BY <1>1, <1>2

\* The table only grows.
LEMMA RowsGrow == ASSUME [Next]_vars PROVE rows \subseteq rows'
<1>1. CASE ~ \E r \in Request : Insert(r)
  BY <1>1, RowsChange
<1>2. ASSUME NEW r \in Request, Insert(r) PROVE rows \subseteq rows'
  BY <1>2 DEF Insert
<1> QED
  BY <1>1, <1>2

\* The versioned key of a row is its version, and never the key of latest.
LEMMA CacheStep ==
    TypeOK /\ Control /\ StoreInv /\ [Next]_vars => CacheTruthful'
<1> SUFFICES ASSUME TypeOK, Control, StoreInv, [Next]_vars PROVE CacheTruthful'
  OBVIOUS
<1>1. rows \subseteq rows'
  BY RowsGrow
<1>2. CASE cache' \subseteq cache
  BY <1>1, <1>2 DEF StoreInv, CacheTruthful
<1>3. ASSUME NEW r \in Request, SetLatest(r) PROVE CacheTruthful'
  <2>1. row[r] \in rows
    BY <1>3 DEF SetLatest, Step, StoreInv, InHand
  <2> QED
    BY <1>1, <1>3, <2>1 DEF SetLatest, StoreInv, CacheTruthful, Without, Entry
<1>4. ASSUME NEW r \in Request, SetVersion(r) PROVE CacheTruthful'
  <2>1. row[r] \in rows
    BY <1>4 DEF SetVersion, Step, StoreInv, InHand
  <2> QED
    BY <1>1, <1>4, <2>1
       DEF SetVersion, StoreInv, CacheTruthful, Without, Entry, VersionKey
<1>5. \/ cache' \subseteq cache
      \/ \E r \in Request : SetLatest(r) \/ SetVersion(r)
  BY DEF Next, Serve, Idle, vars, Start, Exists, ReadLatest, Insert, Publish, Keys,
         Del, Without, Get, Select, ReadDoomed, Fail, Expire
<1> QED
  BY <1>2, <1>3, <1>4, <1>5

\* What the requests know about the rows in their hands.
Hands == Prepared /\ InHand /\ Asked

LEMMA HandsStep == TypeOK /\ Control /\ StoreInv /\ [Next]_vars => Hands'
<1> SUFFICES ASSUME TypeOK, Control, StoreInv, [Next]_vars PROVE Hands'
  OBVIOUS
<1>0. rows \subseteq rows' /\ Hands
  BY RowsGrow DEF StoreInv, Hands
<1> USE DEF Hands, Prepared, InHand, Asked, Active, Ended
<1>1. ASSUME NEW r \in Request, NEW o \in Ops, Start(r, o) PROVE Hands'
  <2>1. FirstAwait(o) \in {"exists", "failed", "get", "read"}
    BY DEF FirstAwait
  <2> QED
    BY <1>0, <1>1, <2>1 DEF Start, Step, Goto, TypeOK
<1>2. ASSUME NEW r \in Request, Exists(r) PROVE Hands'
  <2>1. IsValid(op[r].content, op[r].variables)
    BY <1>2 DEF Exists, Step, Control
  <2> QED
    BY <1>0, <1>2, <2>1 DEF Exists, Step, Goto, TypeOK
<1>3. ASSUME NEW r \in Request, ReadLatest(r) PROVE Hands'
  <2>1. \A t \in Newest : t \in rows /\ NextRow(r, t).version = t.version + 1
    BY NewestAreRows DEF NextRow
  <2> QED
    BY <1>0, <1>3, <2>1 DEF ReadLatest, AcceptsUpdate, Goto, TypeOK
<1>4. ASSUME NEW r \in Request, Insert(r) PROVE Hands'
  <2>1. op[r].kind \in {"create", "update"}
    BY <1>4 DEF Insert, Step, Control
  <2> QED
    BY <1>0, <1>4, <2>1 DEF Insert, Step, Goto, TypeOK
<1>5. ASSUME NEW r \in Request, Publish(r) PROVE Hands'
  <2>1. op[r].kind \in {"create", "update"}
    BY <1>5 DEF Publish, Step, Control
  <2> QED
    BY <1>0, <1>5, <2>1 DEF Publish, Step, Goto, TypeOK
<1>6. ASSUME NEW r \in Request, SetLatest(r) PROVE Hands'
  BY <1>0, <1>6 DEF SetLatest, Step, Goto, TypeOK
<1>7. ASSUME NEW r \in Request, SetVersion(r) PROVE Hands'
  BY <1>0, <1>7 DEF SetVersion, Step, Goto, TypeOK
<1>8. ASSUME NEW r \in Request, Keys(r) PROVE Hands'
  <2>1. op[r].kind \in {"update", "delete"}
    BY <1>8 DEF Keys, Step, Control
  <2> QED
    BY <1>0, <1>8, <2>1 DEF Keys, Step, Goto, TypeOK, AfterInvalidation
<1>9. ASSUME NEW r \in Request, NEW key \in doomed[r], Del(r, key) PROVE Hands'
  <2>1. op[r].kind \in {"update", "delete"}
    BY <1>9 DEF Del, Step, Control
  <2> QED
    BY <1>0, <1>9, <2>1 DEF Del, Step, Goto, TypeOK, AfterInvalidation
<1>10. ASSUME NEW r \in Request, Get(r) PROVE Hands'
  <2>1. \A e \in cache : e.key = Latest \/ e.key = e.row.version
    BY DEF StoreInv, CacheTruthful
  <2> QED
    BY <1>0, <1>10, <2>1 DEF Get, Goto, TypeOK
<1>11. ASSUME NEW r \in Request, Select(r) PROVE Hands'
  <2>1. \A t \in Matching(op[r].version) :
            t \in rows /\ (op[r].version # Latest => t.version = op[r].version)
    BY NewestAreRows DEF Matching
  <2> QED
    BY <1>0, <1>11, <2>1 DEF Select, Goto, TypeOK
<1>12. ASSUME NEW r \in Request, ReadDoomed(r) PROVE Hands'
  BY <1>0, <1>12 DEF ReadDoomed, Goto, TypeOK
<1>13. ASSUME NEW r \in Request, Fail(r) PROVE Hands'
  BY <1>0, <1>13 DEF Fail, Goto, TypeOK
<1>14. ASSUME UNCHANGED <<rows, pc, op, row>> PROVE Hands'
  BY <1>0, <1>14
<1>15. \A e \in cache : Expire(e) => UNCHANGED <<rows, pc, op, row>>
  BY DEF Expire
<1>16. UNCHANGED vars => UNCHANGED <<rows, pc, op, row>>
  BY DEF vars
<1> QED
  BY <1>1, <1>2, <1>3, <1>4, <1>5, <1>6, <1>7, <1>8, <1>9, <1>10, <1>11, <1>12,
     <1>13, <1>14, <1>15, <1>16, LoadType DEF Next, Serve, Idle

LEMMA StoreInvariant == Spec => [](TypeOK /\ Control /\ StoreInv)
<1>1. TypeOK /\ Control /\ StoreInv /\ [Next]_vars
      => (TypeOK /\ Control /\ StoreInv)'
  BY ControlStep, TableStep, CacheStep, HandsStep DEF StoreInv, Hands
<1> QED
  BY ControlInit, StoreInit, <1>1, PTL DEF Spec

\* However updates race and fail, the versions of a template leave no gap.
THEOREM VersionsHaveNoGap == Spec => []NoVersionGap
<1>1. StoreInv => NoVersionGap
  BY DEF StoreInv
<1> QED
  BY StoreInvariant, <1>1, PTL

\* Every stored version is render-ready, whichever requests made it.
THEOREM HistoryIsRenderReady == Spec => []RenderReady
<1>1. StoreInv => RenderReady
  BY DEF StoreInv
<1> QED
  BY StoreInvariant, <1>1, PTL

\* No entry of the cache lacks a row of the table, however fills,
\* invalidations and failures interleave.
THEOREM CacheIsTruthful == Spec => []CacheTruthful
<1>1. StoreInv => CacheTruthful
  BY DEF StoreInv
<1> QED
  BY StoreInvariant, <1>1, PTL

\* Whatever is cached, a read of a version is answered with a row of that
\* version.
THEOREM VersionedReadsAreExact == Spec => []ExactVersionServed
<1>1. StoreInv => ExactVersionServed
  BY DEF StoreInv, Asked, ExactVersionServed
<1> QED
  BY StoreInvariant, <1>1, PTL

-----------------------------------------------------------------------------
(* One request at a time. *)

Begun == {r \in Request : pc[r] # "idle"}
OneActive == \A r, q \in Request : pc[r] \in Active /\ pc[q] \in Active => r = q

\* Requests have one of the operations that arrive.
Arrived == \A r \in Request : pc[r] # "idle" => op[r] \in env.ops

ScheduleInv == IsFiniteSet(Begun) /\ Arrived

\* Every step but an arrival is one of a request already active.
LEMMA StepForm ==
    ASSUME TypeOK, NEW r \in Request, Serve(r) \/ Fail(r)
    PROVE  /\ pc[r] \in Active /\ UNCHANGED <<env, op>>
           /\ \A q \in Request : q # r => pc'[q] = pc[q]
BY DEF Serve, Exists, ReadLatest, Insert, Publish, SetLatest, SetVersion, Keys, Del, Get,
       Select, ReadDoomed, Fail, Step, Goto, Active, TypeOK

LEMMA ScheduleStep == TypeOK /\ ScheduleInv /\ [Next]_vars => ScheduleInv'
<1> SUFFICES ASSUME TypeOK, ScheduleInv, [Next]_vars
             PROVE  IsFiniteSet(Begun') /\ Arrived'
  BY DEF ScheduleInv
<1>1. ASSUME NEW r \in Request, NEW o \in env.ops, Start(r, o)
      PROVE  IsFiniteSet(Begun') /\ Arrived'
  <2>1. Begun' \subseteq Begun \cup {r}
    BY <1>1 DEF Begun, Start, Step, Goto, TypeOK
  <2>2. IsFiniteSet(Begun \cup {r})
    BY FS_AddElement DEF ScheduleInv
  <2>3. Arrived'
    BY <1>1 DEF ScheduleInv, Arrived, Start, Step, Goto, TypeOK
  <2> QED
    BY <2>1, <2>2, <2>3, FS_Subset
<1>2. ASSUME UNCHANGED <<env, op>>, \A q \in Request : pc'[q] # "idle" => pc[q] # "idle"
      PROVE  IsFiniteSet(Begun') /\ Arrived'
  <2>1. Begun' \subseteq Begun
    BY <1>2 DEF Begun
  <2> QED
    BY <1>2, <2>1, FS_Subset DEF ScheduleInv, Arrived
<1>3. ASSUME NEW r \in Request, Serve(r) \/ Fail(r)
      PROVE  IsFiniteSet(Begun') /\ Arrived'
  <2>1. \A q \in Request : pc'[q] # "idle" => pc[q] # "idle"
    BY <1>3, StepForm DEF Active
  <2> QED
    BY <1>2, <1>3, <2>1, StepForm
<1>4. (\E e \in cache : Expire(e)) \/ UNCHANGED vars => UNCHANGED <<env, op, pc>>
  BY DEF Expire, vars
<1> QED
  BY <1>1, <1>2, <1>3, <1>4 DEF Next, Idle

LEMMA ScheduleHolds == Spec => []ScheduleInv
<1>1. Init => ScheduleInv
  <2> SUFFICES ASSUME Init PROVE ScheduleInv
    OBVIOUS
  <2>1. Begun = {}
    BY DEF Init, Begun
  <2> QED
    BY <2>1, FS_EmptySet DEF Init, ScheduleInv, Arrived
<1> QED
  BY <1>1, StoreInvariant, ScheduleStep, PTL DEF Spec

\* With one place, a request that arrives finds no other in progress.
LEMMA ArrivesAlone ==
    ASSUME TypeOK, ScheduleInv, env.concurrency <= 1, NEW r \in Request, NEW o, Start(r, o)
    PROVE  \A q \in Request : pc[q] \notin Active
<1> DEFINE A == {q \in Request : pc[q] \in Active}
<1>1. IsFiniteSet(A)
  <2>1. A \subseteq Begun
    BY DEF Begun, Active
  <2> QED
    BY <2>1, FS_Subset DEF ScheduleInv
<1>2. env.concurrency \in Nat
  BY TemplateConstants DEF TypeOK, Environment
<1>3. Cardinality(A) \in Nat /\ Cardinality(A) < env.concurrency
  BY <1>1, FS_CardinalityType DEF Start
<1>4. Cardinality(A) = 0
  BY <1>2, <1>3
<1>5. A = {}
  BY <1>1, <1>4, FS_EmptySet
<1> QED
  BY <1>5

LEMMA OneActiveStep ==
    TypeOK /\ ScheduleInv /\ env.concurrency <= 1 /\ OneActive /\ [Next]_vars => OneActive'
<1> SUFFICES ASSUME TypeOK, ScheduleInv, env.concurrency <= 1, OneActive, [Next]_vars
             PROVE  OneActive'
  OBVIOUS
<1>1. ASSUME NEW r \in Request, NEW o \in env.ops, Start(r, o) PROVE OneActive'
  BY <1>1, ArrivesAlone DEF Start, Step, Goto, OneActive, TypeOK
<1>2. ASSUME NEW r \in Request, Serve(r) \/ Fail(r) PROVE OneActive'
  BY <1>2, StepForm DEF OneActive
<1>3. (\E e \in cache : Expire(e)) \/ UNCHANGED vars => UNCHANGED pc
  BY DEF Expire, vars
<1> QED
  BY <1>1, <1>2, <1>3 DEF Next, Idle, OneActive

-----------------------------------------------------------------------------
(* A read without a version gets the newest one. *)

Orderly == /\ env.concurrency <= 1 /\ ~env.fails
           /\ \A o \in env.ops : o.version = Latest

\* An update has inserted its row and not yet removed the old latest.
Renewing(r) ==
    op[r].kind = "update" /\ (pc[r] = "keys" \/ (pc[r] = "del" /\ Latest \in doomed[r]))

\* The row in hand is newer than the table, or it is the newest in it.
HoldsNewest(r) ==
    /\ pc[r] = "insert" => /\ \A u \in rows : u.version <= row[r].version
                           /\ op[r].kind = "create" => rows = {}
    /\ \/ pc[r] \in {"set_latest", "set_version"}
       \/ pc[r] \in {"keys", "del"} /\ op[r].kind = "update"
       => row[r] \in Newest

StaleOnlyInUpdate ==
    (\A r \in Request : ~Renewing(r)) => CacheIsFresh

LatestInv == (\A r \in Request : HoldsNewest(r)) /\ StaleOnlyInUpdate

LEMMA VersionsPositive ==
    ASSUME TypeOK, StoreInv
    PROVE  \A t \in rows : t.version \in Nat /\ t.version # Latest
BY DEF TypeOK, Row, StoreInv, NoVersionGap, Latest

\* A step of the only active request decides what holds of it afterwards.
LEMMA SoleStep ==
    ASSUME TypeOK, OneActive, NEW r \in Request, Serve(r), HoldsNewest(r)',
           ~Renewing(r)' => CacheIsFresh'
    PROVE  LatestInv'
<1>1. \A q \in Request : q # r => pc'[q] \notin Active
  BY StepForm DEF OneActive
<1>2. \A q \in Request : q # r => HoldsNewest(q)'
  BY <1>1 DEF HoldsNewest, Active
<1> QED
  BY <1>2 DEF LatestInv, StaleOnlyInUpdate

\* The step under way is the only one: nobody else renews the cache.
LEMMA FreshNow ==
    ASSUME OneActive, LatestInv, NEW r \in Request, pc[r] \in Active, ~Renewing(r)
    PROVE  CacheIsFresh
BY DEF OneActive, LatestInv, StaleOnlyInUpdate, Renewing, Active

LEMMA LatestStep ==
    /\ TypeOK /\ Control /\ StoreInv /\ ScheduleInv /\ Orderly /\ OneActive /\ LatestInv
    /\ [Next]_vars
    => LatestInv'
<1> SUFFICES ASSUME TypeOK, Control, StoreInv, ScheduleInv, Orderly, OneActive, LatestInv,
                    [Next]_vars
             PROVE  LatestInv'
  OBVIOUS
<1>0. \A r \in Request : HoldsNewest(r)
  BY DEF LatestInv
<1>1. ASSUME NEW r \in Request, NEW o \in env.ops, Start(r, o) PROVE LatestInv'
  <2>1. /\ UNCHANGED <<rows, cache, row, doomed>>
        /\ \A q \in Request : pc[q] \notin Active
        /\ \A q \in Request : q # r => pc'[q] = pc[q] /\ op'[q] = op[q]
    BY <1>1, ArrivesAlone DEF Orderly, Start, Step, Goto, TypeOK
  <2>2. pc'[r] \in {"exists", "failed", "get", "read"}
    BY <1>1 DEF Start, Step, Goto, FirstAwait, TypeOK
  <2>3. CacheIsFresh
    BY <2>1 DEF LatestInv, StaleOnlyInUpdate, Renewing, Active
  <2>4. \A q \in Request : HoldsNewest(q)'
    BY <2>1, <2>2 DEF HoldsNewest, Active
  <2> QED
    BY <2>1, <2>3, <2>4 DEF LatestInv, StaleOnlyInUpdate, CacheIsFresh, Newest
<1>2. ASSUME NEW r \in Request, Exists(r) PROVE LatestInv'
  <2>1. UNCHANGED <<rows, cache>> /\ pc'[r] \in {"insert", "failed"} /\ pc[r] = "exists"
        /\ (pc'[r] = "insert" => rows = {})
    BY <1>2 DEF Exists, Step, Goto, TypeOK
  <2>2. CacheIsFresh
    BY <2>1, FreshNow DEF Active, Renewing
  <2> QED
    BY <1>2, <2>1, <2>2, SoleStep DEF Serve, HoldsNewest, CacheIsFresh, Newest
<1>3. ASSUME NEW r \in Request, ReadLatest(r) PROVE LatestInv'
  <2>1. UNCHANGED <<rows, cache, op>> /\ pc'[r] \in {"insert", "failed"} /\ pc[r] = "read"
        /\ op[r].kind = "update"
        /\ (pc'[r] = "insert" => \E t \in Newest : row'[r] = NextRow(r, t))
    BY <1>3 DEF ReadLatest, Goto, TypeOK
  <2>2. CacheIsFresh
    BY <2>1, FreshNow DEF Active, Renewing
  <2>3. ASSUME NEW t \in Newest, NEW u \in rows PROVE u.version <= NextRow(r, t).version
    <3>1. u.version \in Nat /\ t.version \in Nat /\ u.version <= t.version
      BY VersionsPositive DEF Newest
    <3>2. NextRow(r, t).version = t.version + 1
      BY DEF NextRow
    <3> QED
      BY <3>1, <3>2
  <2> QED
    BY <1>3, <2>1, <2>2, <2>3, SoleStep DEF Serve, HoldsNewest, CacheIsFresh, Newest
<1>4. ASSUME NEW r \in Request, Insert(r) PROVE LatestInv'
  <2>1. /\ rows' = rows \cup {row[r]} /\ UNCHANGED <<cache, row, op>> /\ pc[r] = "insert"
        /\ pc'[r] = IF op[r].kind = "create" THEN "set_latest" ELSE "keys"
    BY <1>4 DEF Insert, Step, Goto, TypeOK
  <2>2. /\ op[r].kind \in {"create", "update"} /\ row[r] \in Row
        /\ \A u \in rows : u.version <= row[r].version
    BY <1>0, <2>1 DEF Control, HoldsNewest
  <2>3. row[r] \in Newest'
    BY <2>1, <2>2 DEF Newest, Row
  <2>4. op[r].kind = "create" => cache = {}
    BY <1>0, <2>1 DEF HoldsNewest, StoreInv, CacheTruthful
  <2> QED
    BY <1>4, <2>1, <2>2, <2>3, <2>4, SoleStep DEF Serve, HoldsNewest, CacheIsFresh, Renewing
<1>5. ASSUME NEW r \in Request, Publish(r) PROVE LatestInv'
  <2>1. UNCHANGED <<rows, cache>> /\ pc'[r] = "done" /\ pc[r] = "publish"
    BY <1>5 DEF Publish, Step, Goto, TypeOK
  <2>2. CacheIsFresh
    BY <2>1, FreshNow DEF Active, Renewing
  <2> QED
    BY <1>5, <2>1, <2>2, SoleStep DEF Serve, HoldsNewest, CacheIsFresh, Newest
<1>6. ASSUME NEW r \in Request, SetLatest(r) PROVE LatestInv'
  <2>1. /\ UNCHANGED <<rows, row, op>> /\ pc'[r] = "set_version" /\ pc[r] = "set_latest"
        /\ cache' = Without(Latest) \cup {Entry(Latest, row[r])}
    BY <1>6 DEF SetLatest, Step, Goto, TypeOK
  <2>2. row[r] \in Newest
    BY <1>0, <2>1 DEF HoldsNewest
  <2>3. CacheIsFresh'
    BY <2>1, <2>2 DEF CacheIsFresh, Newest, Without, Entry
  <2> QED
    BY <1>6, <2>1, <2>2, <2>3, SoleStep DEF Serve, HoldsNewest, Newest
<1>7. ASSUME NEW r \in Request, SetVersion(r) PROVE LatestInv'
  <2>1. /\ UNCHANGED <<rows, row, op>> /\ pc'[r] \in {"done", "publish"} /\ pc[r] = "set_version"
        /\ cache' = Without(VersionKey(row[r])) \cup {Entry(VersionKey(row[r]), row[r])}
    BY <1>7 DEF SetVersion, Step, Goto, TypeOK
  <2>2. VersionKey(row[r]) # Latest
    BY <2>1, VersionsPositive DEF VersionKey, StoreInv, InHand
  <2>3. CacheIsFresh
    BY <2>1, FreshNow DEF Active, Renewing
  <2>4. CacheIsFresh'
    BY <2>1, <2>2, <2>3 DEF CacheIsFresh, Newest, Without, Entry
  <2> QED
    BY <1>7, <2>1, <2>4, SoleStep DEF Serve, HoldsNewest
<1>8. ASSUME NEW r \in Request, Keys(r) PROVE LatestInv'
  <2>1. /\ UNCHANGED <<rows, cache, row, op>> /\ pc[r] = "keys"
        /\ pc'[r] = IF cache = {} THEN AfterInvalidation(r) ELSE "del"
        /\ doomed'[r] = CachedKeys
    BY <1>8 DEF Keys, Step, Goto, TypeOK
  <2>2. op[r].kind = "update" => row[r] \in Newest
    BY <1>0, <2>1 DEF HoldsNewest
  <2>3. HoldsNewest(r)'
    BY <2>1, <2>2 DEF HoldsNewest, AfterInvalidation, Newest
  <2>4. op[r].kind # "update" => CacheIsFresh
    BY <2>1, FreshNow DEF Active, Renewing
  <2>5. ~Renewing(r)' => CacheIsFresh'
    BY <2>1, <2>4 DEF Renewing, CacheIsFresh, CachedKeys, Newest
  <2> QED
    BY <1>8, <2>3, <2>5, SoleStep DEF Serve
<1>9. ASSUME NEW r \in Request, NEW key \in doomed[r], Del(r, key) PROVE LatestInv'
  <2>1. /\ UNCHANGED <<rows, row, op>> /\ pc[r] = "del" /\ cache' = Without(key)
        /\ pc'[r] = IF doomed[r] = {key} THEN AfterInvalidation(r) ELSE "del"
        /\ doomed'[r] = doomed[r] \ {key}
    BY <1>9 DEF Del, Step, Goto, TypeOK
  <2>2. op[r].kind = "update" => row[r] \in Newest
    BY <1>0, <2>1 DEF HoldsNewest
  <2>3. HoldsNewest(r)'
    BY <2>1, <2>2 DEF HoldsNewest, AfterInvalidation, Newest
  <2>4. ~Renewing(r) => CacheIsFresh
    BY <2>1, FreshNow DEF Active
  <2>5. ~Renewing(r)' => CacheIsFresh'
    BY <2>1, <2>4 DEF Renewing, CacheIsFresh, Without, Newest
  <2> QED
    BY <1>9, <2>3, <2>5, SoleStep DEF Serve
<1>10. ASSUME NEW r \in Request, Get(r) PROVE LatestInv'
  <2>1. UNCHANGED <<rows, cache>> /\ pc'[r] \in {"select", "done"} /\ pc[r] = "get"
    BY <1>10 DEF Get, Goto, TypeOK
  <2>2. CacheIsFresh
    BY <2>1, FreshNow DEF Active, Renewing
  <2> QED
    BY <1>10, <2>1, <2>2, SoleStep DEF Serve, HoldsNewest, CacheIsFresh, Newest
<1>11. ASSUME NEW r \in Request, Select(r) PROVE LatestInv'
  <2>1. op[r].version = Latest /\ pc[r] = "select"
    BY <1>11 DEF Select, ScheduleInv, Arrived, Orderly
  <2>2. /\ UNCHANGED <<rows, cache, op>> /\ pc'[r] \in {"failed", "set_latest"}
        /\ pc'[r] = "set_latest" => row'[r] \in Newest
    BY <1>11, <2>1 DEF Select, Goto, TypeOK, Matching
  <2>3. CacheIsFresh
    BY <2>1, FreshNow DEF Active, Renewing
  <2> QED
    BY <1>11, <2>2, <2>3, SoleStep DEF Serve, HoldsNewest, CacheIsFresh, Newest
<1>12. ASSUME NEW r \in Request, ReadDoomed(r) PROVE LatestInv'
  <2>1. /\ UNCHANGED <<rows, cache, op>> /\ pc'[r] \in {"failed", "keys"} /\ pc[r] = "read"
        /\ op[r].kind = "delete"
    BY <1>12 DEF ReadDoomed, Goto, TypeOK
  <2>2. CacheIsFresh
    BY <2>1, FreshNow DEF Active, Renewing
  <2> QED
    BY <1>12, <2>1, <2>2, SoleStep DEF Serve, HoldsNewest, CacheIsFresh, Newest
<1>13. ASSUME NEW r \in Request PROVE ~Fail(r)
  BY DEF Fail, Orderly
<1>14. ASSUME NEW e \in cache, Expire(e) PROVE LatestInv'
  BY <1>14 DEF Expire, LatestInv, StaleOnlyInUpdate, HoldsNewest, Renewing, CacheIsFresh, Newest
<1>15. ASSUME UNCHANGED vars PROVE LatestInv'
  BY <1>15 DEF vars, LatestInv, StaleOnlyInUpdate, HoldsNewest, Renewing, CacheIsFresh, Newest
<1> QED
  BY <1>1, <1>2, <1>3, <1>4, <1>5, <1>6, <1>7, <1>8, <1>9, <1>10, <1>11, <1>12,
     <1>13, <1>14, <1>15 DEF Next, Serve, Idle

\* A read ends with the cached latest, or with the row it has selected.
LEMMA ReadsNewest ==
    ASSUME TypeOK, Control, OneActive, LatestInv, [Next]_vars
    PROVE  ServesLatest
<1> SUFFICES ASSUME NEW r \in Request, pc[r] \in Active, pc'[r] = "done",
                    op[r].kind = "find", op[r].version = Latest
             PROVE  row'[r] \in Newest
  BY DEF ServesLatest
<1>1. ~ \E q \in Request, o \in env.ops : Start(q, o)
  <2> SUFFICES ASSUME NEW q \in Request, NEW o \in env.ops, Start(q, o) PROVE FALSE
    OBVIOUS
  <2>1. pc'[q] \in {"exists", "failed", "get", "read"} /\ \A s \in Request : s # q => pc'[s] = pc[s]
    BY DEF Start, Step, Goto, FirstAwait, TypeOK
  <2> QED
    BY <2>1 DEF Active
<1>2. (\E e \in cache : Expire(e)) \/ UNCHANGED vars => UNCHANGED pc
  BY DEF Expire, vars
<1>3. ASSUME NEW q \in Request, q # r PROVE ~(Serve(q) \/ Fail(q))
  BY <1>3, StepForm DEF OneActive
<1>4. Serve(r) \/ Fail(r)
  BY <1>1, <1>2, <1>3 DEF Next, Idle, Active
<1>5. Get(r) \/ SetVersion(r)
  BY <1>4 DEF Serve, Fail, Exists, ReadLatest, Insert, Publish, SetLatest, Keys, Del, Select,
     ReadDoomed, AfterInvalidation, Step, Goto, TypeOK, Control, Active
<1>6. CASE Get(r)
  <2>1. CacheIsFresh
    BY <1>6, FreshNow DEF Get, Renewing
  <2>2. \E e \in cache : e.key = Latest /\ row'[r] = e.row
    BY <1>6 DEF Get, Goto, TypeOK
  <2> QED
    BY <2>1, <2>2 DEF CacheIsFresh
<1>7. CASE SetVersion(r)
  <2>1. HoldsNewest(r)
    BY DEF LatestInv
  <2> QED
    BY <1>7, <2>1 DEF SetVersion, Step, HoldsNewest
<1> QED
  BY <1>5, <1>6, <1>7

\* An update empties the cache and fills it again after its INSERT, and every
\* read fills it too: while requests come one at a time and none fails or
\* reads an explicit version, a read gets the newest version, for any number
\* of requests.
THEOREM LatestIsServed == Spec => LatestServed
<1>1. Init => OneActive /\ LatestInv
  BY DEF Init, OneActive, LatestInv, HoldsNewest, StaleOnlyInUpdate, CacheIsFresh, Active
<1>2. [Next]_vars => UNCHANGED env
  BY DEF Next, Serve, Idle, vars, Start, Exists, ReadLatest, Insert, Publish, SetLatest,
         SetVersion, Keys, Del, Get, Select, ReadDoomed, Fail, Expire
<1>3. [Next]_vars => (Orderly <=> Orderly')
  BY <1>2 DEF Orderly
<1>4. TypeOK /\ ScheduleInv /\ Orderly /\ OneActive /\ [Next]_vars => OneActive'
  BY OneActiveStep DEF Orderly
<1>5. Spec => [](Orderly => OneActive)
  BY <1>1, <1>3, <1>4, StoreInvariant, ScheduleHolds, PTL DEF Spec
<1>6. Spec => [](Orderly => LatestInv)
  BY <1>1, <1>3, <1>5, LatestStep, StoreInvariant, ScheduleHolds, PTL DEF Spec
<1>7. /\ TypeOK /\ Control /\ (Orderly => OneActive) /\ (Orderly => LatestInv) /\ [Next]_vars
      => [/\ env.concurrency <= 1 /\ ~env.fails
          /\ \A o \in env.ops : o.version = Latest
          => ServesLatest]_vars
  BY ReadsNewest DEF Orderly
<1> QED
  BY <1>5, <1>6, <1>7, StoreInvariant, PTL DEF Spec, LatestServed
=============================================================================
