----------------------------- MODULE MCRaftStore -----------------------------
(***************************************************************************)
(* RaftStore for TLC.  The operations are chosen so that every kind of     *)
(* check a handler makes is met, and so that the three requests conflict:  *)
(* an update and a delete of what a create puts there, and an activation   *)
(* and a delete of a snapshot a create puts there.                         *)
(***************************************************************************)
EXTENDS RaftStore, TLC

CONSTANTS n1, n2, q1, q2, q3, absent

Route(actions, weights) == [kind |-> "route", actions |-> actions, weights |-> weights]
Listener(address, mode, ca) ==
  [kind |-> "listener", address |-> address, mode |-> mode, ca |-> ca]
Authz(rules) ==
  [kind |-> "middleware", type |-> "inlineAuthz", configured |-> TRUE,
   rules |-> rules, defaultAction |-> "deny"]

Op(kind, verb, id, value) ==
  [kind |-> kind, verb |-> verb, id |-> id, value |-> value,
   bearer |-> "valid", named |-> TRUE]

MCIds == {"e"}
MCSnapshotIds == {"s"}
MCValues ==
  {Route({"forward"}, <<60, 40>>), Route({"redirect"}, << >>),
   Route({}, << >>),
   Listener("0.0.0.0", "require", TRUE), Authz(<< <<"allow", TRUE>> >>),
   [kind |-> "secret"], [kind |-> "group"], [kind |-> "destination"]}

MCOperations ==
  (q1 :> {Op("route", "create", "e", Route({"forward"}, <<60, 40>>)),
          Op("snapshot", "create", "s", Absent),
          Op("secret", "update", "e", [kind |-> "secret"])} @@
   q2 :> {Op("route", "update", "e", Route({"redirect"}, << >>)),
          Op("snapshot", "activate", "s", Absent)} @@
   q3 :> {Op("route", "delete", "e", Absent),
          Op("route", "create", "e", Route({}, << >>)),
          Op("snapshot", "delete", "s", Absent),
          Op("secret", "delete", "e", Absent)})

\* The clients of one behaviour are interested in one kind of entity, and no
\* more than MaxConcurrent of them at a time have a request in progress.
MaxConcurrent == 2

Clients ==
  /\ \A r, s \in Requests :
       req[r].op # Absent /\ req[s].op # Absent => req[r].op.kind = req[s].op.kind
  /\ Cardinality({r \in Requests : req[r].pc \notin {"new", "done"}}) <= MaxConcurrent

MCNext == Next /\ Clients'

\* The nodes are alike: n1 is the first leader.
MCInit == Init /\ leader = n1

MCSpec == MCInit /\ [][MCNext]_vars /\ Fairness
=============================================================================
