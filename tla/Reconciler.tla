----------------------------- MODULE Reconciler ------------------------------
(* The controller's reconciler (clients/controller/internal/reconciler) over *)
(* the entities it owns in Vrata, with the mapper that makes them.            *)
(*                                                                            *)
(* Entities are identified by the names the mapper gives them. A reference    *)
(* stored in an entity is a UUID: it is written here as the name of what it   *)
(* refers to and turns into Gone when that is deleted, since a recreated      *)
(* entity has another UUID.                                                   *)
EXTENDS Naturals, Sequences, FiniteSets, OverlapDetector

CONSTANTS
  Keys,                   \* namespace/name of the route objects; also their group's name
  Dests,                  \* the Services routes may name, as Destination names
  RouteIds, MiddlewareIds,\* <<key, rule, match>> and <<key, rule>>
  Listeners,              \* names of the Gateways' listeners
  Absent, Gone, NoJob

VARIABLES
  store,                  \* the owned entities in Vrata
  refCount,               \* r.refCount.counts; no entry counts 0
  routeDestMap,           \* r.routeDestMap; Absent where it has no entry
  job                     \* the ApplyHTTPRoute or DeleteHTTPRoute call in progress

reconcilerVars == <<store, refCount, routeDestMap, job>>

EmptyStore ==
  [dests |-> {}, mws |-> {}, routes |-> [r \in RouteIds |-> Absent],
   groups |-> [k \in Keys |-> Absent], listeners |-> {}]

RouteRefs == [dests : SUBSET (Dests \cup {Gone}), mws : SUBSET (MiddlewareIds \cup {Gone})]

ReconcilerTypeOK ==
  /\ store.dests \subseteq Dests /\ store.mws \subseteq MiddlewareIds
  /\ store.listeners \subseteq Listeners
  /\ store.routes \in [RouteIds -> RouteRefs \cup {Absent}]
  /\ \A k \in Keys : store.groups[k] = Absent \/ store.groups[k] \subseteq RouteIds \cup {Gone}
  /\ refCount \in [Dests -> Nat]
  /\ routeDestMap \in [RouteIds -> (SUBSET Dests) \cup {Absent}]
  /\ job # NoJob => /\ job.key \in Keys /\ job.phase \in 1..8 /\ job.changes \in Nat
                    /\ DOMAIN job.want.routes \subseteq RouteIds

Stored == {r \in RouteIds : store.routes[r] # Absent}

----------------------------------------------------------------------------
(* The mapper: one route per match of a rule, all of them with the rule's    *)
(* backends (none if it redirects) and its header middleware.                *)
RuleRoutes(k, input, i) == {<<k, i, j>> : j \in DOMAIN MatchesOf(input.rules[i])}

RuleMiddlewares(k, input, i) == IF input.rules[i].headers THEN {<<k, i>>} ELSE {}

MapHTTPRoute(k, input) ==
  LET rules == DOMAIN input.rules
      routes == UNION {RuleRoutes(k, input, i) : i \in rules}
  IN  [destinations |-> UNION {input.rules[i].backends : i \in rules},
       middlewares |-> UNION {RuleMiddlewares(k, input, i) : i \in rules},
       routes |-> [r \in routes |->
         [dests |-> IF input.rules[r[2]].redirect THEN {} ELSE input.rules[r[2]].backends,
          mws |-> RuleMiddlewares(k, input, r[2])]]]

\* Names are compared by the prefix "<group name>/".
Owned(k, names) == {n \in names : n[1] = k}

Dangle(refs, x) == IF x \in refs THEN (refs \ {x}) \cup {Gone} ELSE refs

----------------------------------------------------------------------------
(* RefCount and routeDestMap.                                                *)
Init_refCount(map) ==
  [d \in Dests |-> Cardinality({r \in RouteIds : map[r] # Absent /\ d \in map[r]})]

\* Init: rebuilt from Vrata; a reference whose destination is gone has no name.
InitMap ==
  [r \in RouteIds |-> IF r \in Stored THEN store.routes[r].dests \ {Gone} ELSE Absent]

\* Mutant of Increment: a second reference is not counted.
IncrementOnce(counts, names) == [d \in Dests |-> IF d \in names THEN 1 ELSE counts[d]]

Increment(counts, names) == [d \in Dests |-> IF d \in names THEN counts[d] + 1 ELSE counts[d]]

Decrement(counts, names) ==
  [d \in Dests |-> IF d \in names /\ counts[d] > 0 THEN counts[d] - 1 ELSE counts[d]]

Tracked(r) == IF routeDestMap[r] = Absent THEN {} ELSE routeDestMap[r]

----------------------------------------------------------------------------
(* A call of ApplyHTTPRoute or DeleteHTTPRoute goes through phases, and each *)
(* begins with what the API lists: 1 destinations to create, 2 middlewares   *)
(* to create, 3 routes to write, 4 the group, 5 routes, 6 middlewares and    *)
(* 7 destinations to delete; 8 is its return.                                *)
BeginApply(k, input) ==
  job' = [op |-> "apply", key |-> k, want |-> MapHTTPRoute(k, input), phase |-> 1,
          todo |-> MapHTTPRoute(k, input).destinations \ store.dests,
          check |-> {}, changes |-> 0, failed |-> FALSE]

\* Mutant of BeginDelete: the routes go before the group that names them.
BeginDeleteRoutesFirst(k) ==
  job' = [op |-> "delete", key |-> k,
          want |-> [destinations |-> {}, middlewares |-> {}, routes |-> << >>],
          phase |-> 5, todo |-> Owned(k, Stored), check |-> {}, changes |-> 0, failed |-> FALSE]

BeginDelete(k) ==
  job' = [op |-> "delete", key |-> k,
          want |-> [destinations |-> {}, middlewares |-> {}, routes |-> << >>],
          phase |-> 4, todo |-> IF store.groups[k] = Absent THEN {} ELSE {k},
          check |-> {}, changes |-> 0, failed |-> FALSE]

Work(p) ==
  CASE p = 2 -> job.want.middlewares \ store.mws
    [] p = 3 -> DOMAIN job.want.routes
    [] p = 4 -> {job.key}
    [] p = 5 -> Owned(job.key, Stored) \ DOMAIN job.want.routes
    [] p = 6 -> Owned(job.key, store.mws) \ job.want.middlewares
    [] p = 7 -> {d \in job.check \cap store.dests : refCount[d] = 0}
    [] OTHER -> {}

Running == job # NoJob /\ ~job.failed /\ job.phase < 8

Over == job # NoJob /\ (job.failed \/ job.phase = 8)

\* On to the next phase that has something to do.
Advance ==
  /\ Running /\ job.todo = {}
  /\ \E p \in (job.phase + 1)..8 :
       /\ p = 8 \/ Work(p) # {}
       /\ \A q \in (job.phase + 1)..(p - 1) : Work(q) = {}
       /\ job' = [job EXCEPT !.phase = p, !.todo = Work(p)]
  /\ UNCHANGED <<store, refCount, routeDestMap>>

\* A call that fails without effect ends the job.
CallFails ==
  /\ Running
  /\ job' = [job EXCEPT !.failed = TRUE]
  /\ UNCHANGED <<store, refCount, routeDestMap>>

\* The API changed the store for x; answer says whether the client learns so.
\* The slices of a job are walked in their order; any fixed order will do.
Doing(op, p, x) ==
  Running /\ job.op = op /\ job.phase = p /\ job.todo # {} /\ x = CHOOSE y \in job.todo : TRUE

Answered(x, answer) ==
  job' = [job EXCEPT !.todo = @ \ {x}, !.changes = @ + 1, !.failed = (answer = "lost")]

CreateDestination(d, answer) ==
  /\ Doing("apply", 1, d)
  /\ store' = [store EXCEPT !.dests = @ \cup {d}]
  /\ Answered(d, answer)
  /\ UNCHANGED <<refCount, routeDestMap>>

CreateMiddleware(m, answer) ==
  /\ Doing("apply", 2, m)
  /\ store' = [store EXCEPT !.mws = @ \cup {m}]
  /\ Answered(m, answer)
  /\ UNCHANGED <<refCount, routeDestMap>>

\* Only a created route is counted, for every destination of its object.
WriteRoute(r, answer) ==
  /\ Doing("apply", 3, r)
  /\ store' = [store EXCEPT !.routes[r] = job.want.routes[r]]
  /\ Answered(r, answer)
  /\ IF r \in Stored \/ answer = "lost" THEN UNCHANGED <<refCount, routeDestMap>>
     ELSE /\ routeDestMap' = [routeDestMap EXCEPT ![r] = job.want.destinations]
          /\ refCount' = Increment(refCount, job.want.destinations)

WriteGroup(answer) ==
  /\ Doing("apply", 4, job.key)
  /\ store' = [store EXCEPT !.groups[job.key] = DOMAIN job.want.routes]
  /\ Answered(job.key, answer)
  /\ UNCHANGED <<refCount, routeDestMap>>

----------------------------------------------------------------------------
(* Deletions, as the API does them and as the reconciler books them.         *)
RemoveRoute(r) ==
  store' = [store EXCEPT !.routes[r] = Absent,
                         !.groups = [k \in Keys |-> IF @[k] = Absent THEN Absent ELSE Dangle(@[k], r)]]

RemoveMiddleware(m) ==
  store' = [store EXCEPT
    !.mws = @ \ {m},
    !.routes = [r \in RouteIds |-> IF @[r] = Absent THEN Absent
                                   ELSE [@[r] EXCEPT !.mws = Dangle(@, m)]]]

RemoveDestination(d) ==
  store' = [store EXCEPT
    !.dests = @ \ {d},
    !.routes = [r \in RouteIds |-> IF @[r] = Absent THEN Absent
                                   ELSE [@[r] EXCEPT !.dests = Dangle(@, d)]]]

Uncount(r, answer) ==
  /\ job' = [job EXCEPT !.todo = @ \ {r}, !.changes = @ + 1, !.failed = (answer = "lost"),
                        !.check = @ \cup Tracked(r)]
  /\ IF answer = "lost" THEN UNCHANGED <<refCount, routeDestMap>>
     ELSE /\ refCount' = Decrement(refCount, Tracked(r))
          /\ routeDestMap' = [routeDestMap EXCEPT ![r] = Absent]

DeleteStaleRoute(r, answer) ==
  Doing("apply", 5, r) /\ RemoveRoute(r) /\ Uncount(r, answer)

DeleteStaleMiddleware(m, answer) ==
  /\ Doing("apply", 6, m) /\ RemoveMiddleware(m) /\ Answered(m, answer)
  /\ UNCHANGED <<refCount, routeDestMap>>

DeleteUnreferenced(d, answer) ==
  /\ Doing("apply", 7, d) /\ RemoveDestination(d) /\ Answered(d, answer)
  /\ UNCHANGED <<refCount, routeDestMap>>

\* DeleteHTTPRoute: the group goes first, then what it needs.
DeleteGroup(answer) ==
  /\ Doing("delete", 4, job.key)
  /\ store' = [store EXCEPT !.groups[job.key] = Absent]
  /\ Answered(job.key, answer)
  /\ UNCHANGED <<refCount, routeDestMap>>

DeleteRoute(r, answer) ==
  Doing("delete", 5, r) /\ RemoveRoute(r) /\ Uncount(r, answer)

DeleteMiddleware(m, answer) ==
  /\ Doing("delete", 6, m) /\ RemoveMiddleware(m) /\ Answered(m, answer)
  /\ UNCHANGED <<refCount, routeDestMap>>

DeleteDestination(d, answer) ==
  /\ Doing("delete", 7, d) /\ RemoveDestination(d) /\ Answered(d, answer)
  /\ UNCHANGED <<refCount, routeDestMap>>

\* One call of the job in progress.
ReconcilerCall(answer) ==
  \/ \E d \in Dests : CreateDestination(d, answer) \/ DeleteUnreferenced(d, answer)
                      \/ DeleteDestination(d, answer)
  \/ \E m \in MiddlewareIds : CreateMiddleware(m, answer) \/ DeleteStaleMiddleware(m, answer)
                              \/ DeleteMiddleware(m, answer)
  \/ \E r \in RouteIds : WriteRoute(r, answer) \/ DeleteStaleRoute(r, answer)
                         \/ DeleteRoute(r, answer)
  \/ WriteGroup(answer)
  \/ DeleteGroup(answer)
=============================================================================
