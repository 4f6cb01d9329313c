--------------------------- MODULE MCTemplateStore ---------------------------
(* Instances of TemplateStore for TLC. *)
EXTENDS TemplateStore

Op(kind, version, content, variables) ==
    [kind |-> kind, version |-> version, content |-> content, variables |-> variables]

Create == Op("create", 0, Var, Var)
Updates == {Op("update", 0, None, Var), Op("update", 0, {}, None)}
ReadLatestOp == Op("find", 0, None, None)
ReadVersions == {Op("find", v, None, None) : v \in 1..2}
Touch == Op("update", 0, None, None)
Delete == Op("delete", 0, None, None)

\* Every way to change a template; every kind of request.
WriteOps == {Create, Op("create", 0, Var, {})}
            \cup {Op("update", 0, c, v) : c, v \in {None, {}, Var}}
AllOps == {Delete, ReadLatestOp} \cup ReadVersions \cup WriteOps
\* One request of each kind.
EachKind == {Create, Delete, ReadLatestOp, Touch} \cup ReadVersions
\* No read of a version.
LatestOps == {Create, Delete, ReadLatestOp} \cup Updates

Load(ops, requests, concurrency, fails) ==
    [ops |-> ops, requests |-> requests, concurrency |-> concurrency, fails |-> fails]

\* Races of failing requests; every content; a long history written at once;
\* one request at a time.
Loads == {Load(EachKind, 3, 3, TRUE), Load(WriteOps, 3, 2, FALSE),
          Load({Create, Touch}, 4, 2, FALSE), Load(LatestOps, 4, 1, FALSE)}
=============================================================================
