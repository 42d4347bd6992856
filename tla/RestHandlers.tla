---------------------------- MODULE RestHandlers ----------------------------
(***************************************************************************)
(* The REST API of the control plane (server/internal/api): the bearer-key *)
(* check in front of every route, and the handlers of the six kinds of     *)
(* entities and of snapshots.  A handler runs in two parts, on either side *)
(* of its call to the store: before it, it may answer at once (an entity   *)
(* that is not there, a body that fails validation) or go on to the write; *)
(* after it, the error of the store becomes a status.  The parts are       *)
(* operators here; RaftStore runs them.                                    *)
(***************************************************************************)
EXTENDS Naturals, Sequences, FiniteSets, Functions

CONSTANTS
  Ids,            \* entity identifiers
  SnapshotIds,    \* identifiers of versioned snapshots
  Values,         \* entity bodies, records by kind
  WeightModulus,  \* 2^32: destination weights are summed in a uint32
  AuthRequired,   \* controlPlane.auth lists at least one API key
  Absent          \* no entity, no active snapshot

Statuses == {"ok", "notfound", "invalid", "unauthorized", "error"}

ASSUME ListenersAssumption ==
  \A v \in Values :
    v.kind = "listener" => v \in [kind : {"listener"}, address : STRING, mode : STRING, ca : BOOLEAN]

\* Contents of a node's database.  What a snapshot holds is SnapshotCapture's
\* subject; here it is there or not.
Databases ==
  [data : [Ids -> Values \cup {Absent}],
   snapshots : SUBSET SnapshotIds,
   active : SnapshotIds \cup {Absent}]

EmptyDatabase ==
  [data |-> [i \in Ids |-> Absent], snapshots |-> {}, active |-> Absent]

----------------------------------------------------------------------------
\* Auth: without configured keys every request passes.
Auth(op) == ~AuthRequired \/ op.bearer = "valid"

validateRouteAction(v) ==
  LET total[i \in 0 .. Len(v.weights)] ==
        IF i = 0 THEN 0 ELSE (total[i - 1] + v.weights[i]) % WeightModulus
  IN /\ Cardinality(v.actions) = 1
     /\ "forward" \in v.actions /\ Len(v.weights) > 1 => total[Len(v.weights)] = 100

\* mode is "" without TLS client authentication.
validateListener(v) ==
  \/ v.mode \in {"", "none"}
  \/ v.mode \in {"optional", "require"} /\ v.ca

\* rules: <<action, CEL source compiles>> of every rule of an inlineAuthz.
validateMiddleware(v) ==
  v.type = "inlineAuthz" =>
    /\ v.configured
    /\ v.rules # << >>
    /\ v.defaultAction \in {"", "allow", "deny"}
    /\ \A i \in DOMAIN v.rules :
         v.rules[i][1] \in {"allow", "deny"} /\ v.rules[i][2]

----------------------------------------------------------------------------
\* Part one of a handler: "write" goes on to the store, anything else is the
\* answer.  A body that does not decode fails as an invalid one does.
Found(d, op, next) == IF d.data[op.id] = Absent THEN "notfound" ELSE next

Checked(valid) == IF valid THEN "write" ELSE "invalid"

CreateRoute(op) == Checked(validateRouteAction(op.value))
CreateGroup(op) == "write"
CreateDestination(op) == "write"
CreateListener(op) == Checked(validateListener(op.value))
CreateMiddleware(op) == Checked(validateMiddleware(op.value))
CreateSecret(op) == "write"

GetRoute(d, op) == Found(d, op, "ok")
GetGroup(d, op) == Found(d, op, "ok")
GetDestination(d, op) == Found(d, op, "ok")
GetListener(d, op) == Found(d, op, "ok")
GetMiddleware(d, op) == Found(d, op, "ok")
GetSecret(d, op) == Found(d, op, "ok")
GetSnapshot(d, op) == IF op.id \in d.snapshots THEN "ok" ELSE "notfound"

\* The existence check reads this node's database; the write comes later.
UpdateRoute(d, op) == Found(d, op, Checked(validateRouteAction(op.value)))
UpdateGroup(d, op) == Found(d, op, "write")
UpdateDestination(d, op) == Found(d, op, "write")
UpdateListener(d, op) == Found(d, op, Checked(validateListener(op.value)))
UpdateMiddleware(d, op) == Found(d, op, Checked(validateMiddleware(op.value)))
\* UpdateSecret does not look: it creates what is not there.
UpdateSecret(d, op) == "write"

Create(op) ==
  CASE op.kind = "route" -> CreateRoute(op)
    [] op.kind = "group" -> CreateGroup(op)
    [] op.kind = "destination" -> CreateDestination(op)
    [] op.kind = "listener" -> CreateListener(op)
    [] op.kind = "middleware" -> CreateMiddleware(op)
    [] op.kind = "secret" -> CreateSecret(op)

Get(d, op) ==
  CASE op.kind = "route" -> GetRoute(d, op)
    [] op.kind = "group" -> GetGroup(d, op)
    [] op.kind = "destination" -> GetDestination(d, op)
    [] op.kind = "listener" -> GetListener(d, op)
    [] op.kind = "middleware" -> GetMiddleware(d, op)
    [] op.kind = "secret" -> GetSecret(d, op)
    [] op.kind = "snapshot" -> GetSnapshot(d, op)

Update(d, op) ==
  CASE op.kind = "route" -> UpdateRoute(d, op)
    [] op.kind = "group" -> UpdateGroup(d, op)
    [] op.kind = "destination" -> UpdateDestination(d, op)
    [] op.kind = "listener" -> UpdateListener(d, op)
    [] op.kind = "middleware" -> UpdateMiddleware(d, op)
    [] op.kind = "secret" -> UpdateSecret(d, op)

\* The routes of the API: which handler a request reaches, and its first part.
\* CreateSnapshot requires a name; capturing is modelled in SnapshotCapture.
Handle(d, op) ==
  CASE ~Auth(op) -> "unauthorized"
    [] Auth(op) /\ op.kind = "snapshot" /\ op.verb = "create" -> Checked(op.named)
    [] Auth(op) /\ op.kind # "snapshot" /\ op.verb = "create" -> Create(op)
    [] Auth(op) /\ op.verb = "get" -> Get(d, op)
    [] Auth(op) /\ op.verb = "update" -> Update(d, op)
    [] Auth(op) /\ op.verb \in {"delete", "activate"} -> "write"

\* A listener without an address is stored with the default one.
Stored(op) ==
  IF op.kind = "listener" /\ op.value.address = ""
  THEN [op.value EXCEPT !.address = "0.0.0.0"]
  ELSE op.value

\* The command a write handler hands to the store.
Command(op) ==
  CASE op.kind = "snapshot" /\ op.verb = "create" -> [type |-> "SaveSnapshot", id |-> op.id]
    [] op.kind = "snapshot" /\ op.verb = "delete" -> [type |-> "DeleteSnapshot", id |-> op.id]
    [] op.kind = "snapshot" /\ op.verb = "activate" -> [type |-> "ActivateSnapshot", id |-> op.id]
    [] op.kind # "snapshot" /\ op.verb = "delete" -> [type |-> "Delete", id |-> op.id]
    [] op.kind # "snapshot" /\ op.verb # "delete" -> [type |-> "Save", id |-> op.id, payload |-> Stored(op)]

\* The commands of store/raftstore, by the type field.
Commands ==
  [type : {"Save"}, id : Ids, payload : Values] \cup
  [type : {"Delete"}, id : Ids] \cup
  [type : {"SaveSnapshot", "DeleteSnapshot", "ActivateSnapshot"}, id : SnapshotIds]

ASSUME AbsentAssumption ==
  Absent \notin Values /\ Absent \notin SnapshotIds /\ Absent \notin Statuses /\ Absent \notin Commands

\* What the routes of the API let through: snapshots are not updated and
\* nothing else is activated; a body decodes into the type of its kind.
IsOperation(op) ==
  /\ op # Absent
  /\ op.kind = "snapshot" =>
       op.verb \in {"create", "get", "delete", "activate"} /\ op.id \in SnapshotIds
  /\ op.kind # "snapshot" =>
       /\ op.kind \in {"route", "group", "destination", "listener", "middleware", "secret"}
       /\ op.verb \in {"create", "get", "update", "delete"} /\ op.id \in Ids
       /\ op.verb \in {"create", "update"} =>
            op.value \in Values /\ op.value.kind = op.kind /\ Stored(op) \in Values

\* Part two: the status for the store's result, "ok", "notfound" (the error
\* wraps ErrNotFound) or "error".  Of the delete handlers only those of
\* secrets and snapshots look at which error it was.
AnyErrorNotFound(result) == IF result = "ok" THEN "ok" ELSE "notfound"

DeleteRoute(result) == AnyErrorNotFound(result)
DeleteGroup(result) == AnyErrorNotFound(result)
DeleteDestination(result) == AnyErrorNotFound(result)
DeleteListener(result) == AnyErrorNotFound(result)
DeleteMiddleware(result) == AnyErrorNotFound(result)
DeleteSecret(result) == result
DeleteSnapshot(result) == result

DeleteStatus(kind, result) ==
  CASE kind = "route" -> DeleteRoute(result)
    [] kind = "group" -> DeleteGroup(result)
    [] kind = "destination" -> DeleteDestination(result)
    [] kind = "listener" -> DeleteListener(result)
    [] kind = "middleware" -> DeleteMiddleware(result)
    [] kind = "secret" -> DeleteSecret(result)
    [] kind = "snapshot" -> DeleteSnapshot(result)

Status(op, result) ==
  CASE op.verb = "delete" -> DeleteStatus(op.kind, result)
    [] op.verb = "activate" -> result
    [] op.verb \in {"create", "update"} -> IF result = "ok" THEN "ok" ELSE "error"
=============================================================================
