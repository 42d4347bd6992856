----------------------------- MODULE EndpointPool -----------------------------
(***************************************************************************)
(* How the proxy chooses an upstream endpoint and how three goroutines     *)
(* write the one flag that choice depends on, Endpoint.Healthy:            *)
(*                                                                         *)
(*   - requests (forwardHandler): destination, endpoint, breaker, upstream *)
(*     and the result, which the outlier detector may answer by ejecting   *)
(*     the endpoint (RecordResponse);                                      *)
(*   - the health checker's rounds (checkAll) and the outlier detector's   *)
(*     ticks (checkEjections);                                             *)
(*   - a reload (gateway.rebuild), which makes new Endpoint objects and    *)
(*     hands them to the router, the health checker and the detector one   *)
(*     after the other; in an embedded gateway the loop and the informers  *)
(*     of the Kubernetes watcher reload, and nothing keeps them apart.     *)
(*                                                                         *)
(* Every reload starts a generation: healthy[g][e] is the flag of the      *)
(* object of generation g.  A reload keeps the endpoints and their         *)
(* options, as one caused by any other entity does.  Time is abstract: an  *)
(* ejection has expired whenever the tick says so.                         *)
(***************************************************************************)
EXTENDS LoadBalancing

CONSTANTS
  Requests, ClientOf,      \* ClientOf[r]: who sends request r
  Dests,                   \* the route's destinations, a sequence of [id, weight]
  EndpointsOf,             \* EndpointsOf[d]: the endpoints of d, a sequence
  HealthChecked, Outliers, \* the destinations with these options
  Balancing,               \* the algorithms to choose from, [dest, endpoint, policy]
  KeyHash, VnodeHash,      \* crc32, external, of clients and session ids, of nodes
  RingSize, Multiplier, MaglevSize, Offset, Skip,
  UnhealthyThreshold, HealthyThreshold, Threshold5xx, ThresholdGw,
  RequestTimeout,          \* whether the route has a request timeout
  Reloaders,               \* the goroutines that reload
  MaxReloads, MaxRounds    \* bounds: reloads, rounds of health checks

VARIABLES
  balancing,               \* the algorithms of this behaviour
  gen, hcGen, odGen,       \* generation of the router, the checker, the detector
  wired,                   \* the generations whose endpoints have OnResponse
  reload, overlap,         \* reload[g]: [pc, gen]; the latest began beside another
  healthy,                 \* healthy[g][e]: Endpoint.Healthy
  inflight, rr,            \* the balancer of each generation and destination
  counter, round, rounds,  \* healthCounter, the round in progress, rounds begun
  tracker,                 \* tracker[e]: outlierTracker
  pins, jar,               \* the session store, the clients' cookies
  req,                     \* the requests
  crashed,                 \* the process died of a fatal error
  out, premature, skewed   \* history, see below

vars == <<balancing, gen, hcGen, odGen, wired, reload, overlap, healthy, inflight, rr,
          counter, round, rounds, tracker, pins, jar, req, crashed, out, premature, skewed>>
reloading == <<gen, hcGen, odGen, wired, reload, overlap>>
checking == <<counter, round, rounds>>
picking == <<inflight, rr, pins, jar>>

Destinations == {Dests[i].id : i \in DOMAIN Dests}
Endpoints == UNION {Range(EndpointsOf[d]) : d \in Destinations}
DestOf(e) == CHOOSE d \in Destinations : e \in Range(EndpointsOf[d])
Gens == 1 .. MaxReloads + 1
Fresh == [pc |-> "idle", gen |-> 1, dest |-> Nil, ep |-> Nil, counted |-> FALSE,
          dsid |-> Nil, esid |-> Nil, seen |-> {}, locked |-> 0]

Init ==
  /\ balancing \in Balancing
  /\ gen = 1 /\ hcGen = 1 /\ odGen = 1 /\ wired = {1}
  /\ reload = [g \in Reloaders |-> [pc |-> "idle", gen |-> 1]] /\ overlap = FALSE
  /\ healthy = [g \in Gens |-> [e \in Endpoints |-> TRUE]]
  /\ inflight = [g \in Gens |-> [e \in Endpoints |-> 0]]
  /\ rr = [g \in Gens |-> [d \in Destinations |-> 0]]
  /\ counter = [e \in Endpoints |-> [failures |-> 0, successes |-> 0]]
  /\ round = [gen |-> 1, todo |-> {}] /\ rounds = 0
  /\ tracker = [e \in Endpoints |-> [c5xx |-> 0, gateway |-> 0, ejected |-> FALSE]]
  /\ pins = [s \in Requests |-> [dest |-> Nil, ep |-> [d \in Destinations |-> Nil]]]
  /\ jar = [c \in {ClientOf[r] : r \in Requests} |-> [dest |-> Nil, ep |-> Nil]]
  /\ req = [r \in Requests |-> Fresh]
  /\ crashed = FALSE
  /\ out = {} /\ premature = {} /\ skewed = {}

----------------------------------------------------------------------------
\* Level 1: the destinations with a healthy endpoint, then the algorithm.
filterHealthyPools(g) ==
  SelectSeq(Dests, LAMBDA d : \E i \in DOMAIN EndpointsOf[d.id] : healthy[g][EndpointsOf[d.id][i]])

\* The session id of a request: the client's cookie, or a new one.
SessionID(r, cookie) == IF cookie = Nil THEN r ELSE cookie

pickPinnedPool(r, valid) ==
  LET ring == buildDestinationRing(Dests, Multiplier, VnodeHash)
      sid == SessionID(r, jar[ClientOf[r]].dest)
      d == PickValid(ring, KeyHash[sid], {v.id : v \in Range(valid)})
  IN IF d = Nil THEN SelectDestination(valid) ELSE {d}

pickStickyPool(r, valid) ==
  LET pinned == pins[SessionID(r, jar[ClientOf[r]].dest)].dest
  IN IF pinned \in {v.id : v \in Range(valid)} THEN {pinned} ELSE SelectDestination(valid)

pickDestinationPool(r, valid) ==
  CASE Len(Dests) = 1 -> {Dests[1].id}
    [] Len(Dests) > 1 /\ valid = << >> -> {Nil}
    [] Len(Dests) > 1 /\ valid # << >> /\ balancing.dest = "WEIGHTED_CONSISTENT_HASH" ->
         pickPinnedPool(r, valid)
    [] Len(Dests) > 1 /\ valid # << >> /\ balancing.dest = "STICKY" -> pickStickyPool(r, valid)
    [] OTHER -> SelectDestination(valid)

\* The request loads the routing table and picks its destination.
Route(r) ==
  /\ req[r].pc = "idle"
  /\ \E valid \in {filterHealthyPools(gen)} : \E d \in pickDestinationPool(r, valid) :
       LET asked == Len(Dests) > 1 /\ valid # << >>
           sticky == asked /\ balancing.dest = "STICKY"
           session == asked /\ balancing.dest \in {"STICKY", "WEIGHTED_CONSISTENT_HASH"}
           sid == SessionID(r, jar[ClientOf[r]].dest)
       IN /\ req' = [req EXCEPT ![r].pc = IF d \in Destinations THEN "routed" ELSE "done",
                                ![r].gen = gen, ![r].dest = d,
                                ![r].dsid = IF session THEN sid ELSE Nil,
                                ![r].seen = {v.id : v \in Range(valid)}]
          /\ pins' = IF sticky /\ d \in Destinations THEN [pins EXCEPT ![sid].dest = d] ELSE pins
  /\ UNCHANGED <<balancing, reloading, healthy, inflight, rr, checking, tracker, jar,
                 crashed, out, premature, skewed>>

----------------------------------------------------------------------------
\* Level 2: DestinationPool.Pick and PickByHash.
healthyEndpoints(g, d) == SelectSeq(EndpointsOf[d], LAMBDA e : healthy[g][e])

pickStickyEndpoint(r, d, live) ==
  LET pinned == pins[SessionID(r, jar[ClientOf[r]].ep)].ep[d]
  IN IF pinned \in live THEN {pinned} ELSE live

\* What a request is hashed by: with a hash policy a header or the address of
\* its client, or the session id in a cookie; without one, the address.
HashKey(r) ==
  IF balancing.policy = "cookie" THEN SessionID(r, jar[ClientOf[r]].ep) ELSE ClientOf[r]

\* Which of the ways through Pick and PickByHash a request takes: no endpoint,
\* the only one there is, or the algorithm.  Pick asks neither the balancer nor
\* the store if one endpoint is healthy; PickByHash is for a hash policy.
Choice(d, order) ==
  CASE order = << >> -> "none"
    [] order # << >> /\ Len(EndpointsOf[d]) = 1 -> "only"
    [] order # << >> /\ Len(EndpointsOf[d]) > 1 /\ Len(order) = 1
         /\ balancing.policy = "none" -> "only"
    [] OTHER -> balancing.endpoint

Pick(r, d, order) ==
  LET h == KeyHash[HashKey(r)]
      live == Range(order)
  IN CASE Choice(d, order) = "none" -> {Nil}
       [] Choice(d, order) = "only" -> live
       [] Choice(d, order) = "ROUND_ROBIN" -> {RoundRobinPick(order, rr[req[r].gen][d] + 1)}
       [] Choice(d, order) = "LEAST_REQUEST" -> {LeastRequestPick(order, inflight[req[r].gen])}
       [] Choice(d, order) = "RING_HASH" ->
            RingPickByHash(RingBuild(Range(EndpointsOf[d]), RingSize, VnodeHash), h, live)
       [] Choice(d, order) = "MAGLEV" ->
            MaglevPickByHash(MaglevBuild(EndpointsOf[d], MaglevSize, Offset, Skip).table,
                             MaglevSize, h, live)
       [] Choice(d, order) = "STICKY" -> pickStickyEndpoint(r, d, live)
       [] OTHER -> pickRandomEndpoint(live)

\* The cookies that reach the client with the response.
Delivered(r, dsid, esid) ==
  [jar EXCEPT ![ClientOf[r]] = [dest |-> IF dsid = Nil THEN @.dest ELSE dsid,
                                ep |-> IF esid = Nil THEN @.ep ELSE esid]]

\* The endpoint is picked; LeastRequest counts it, round robin moves on, and a
\* sticky pick is stored.
PickEndpoint(r) ==
  /\ req[r].pc = "routed"
  /\ LET d == req[r].dest
         g == req[r].gen
     IN \E order \in {healthyEndpoints(g, d)} : \E e \in Pick(r, d, order) :
          LET how == Choice(d, order)
              sid == SessionID(r, jar[ClientOf[r]].ep)
              esid == IF how = "STICKY" \/ balancing.policy = "cookie" THEN sid ELSE Nil
          IN /\ req' = [req EXCEPT ![r].pc = IF e = Nil THEN "done" ELSE "picked",
                                   ![r].ep = e, ![r].counted = how = "LEAST_REQUEST",
                                   ![r].esid = esid]
             /\ inflight' = IF how = "LEAST_REQUEST" THEN [inflight EXCEPT ![g][e] = @ + 1]
                            ELSE inflight
             /\ rr' = IF how = "ROUND_ROBIN" THEN [rr EXCEPT ![g][d] = @ + 1] ELSE rr
             /\ pins' = IF how = "STICKY" THEN [pins EXCEPT ![sid].ep[d] = e] ELSE pins
             /\ jar' = IF e = Nil THEN Delivered(r, req[r].dsid, esid) ELSE jar
  /\ UNCHANGED <<balancing, reloading, healthy, checking, tracker, crashed, out, premature,
                 skewed>>

----------------------------------------------------------------------------
\* Mutant of Done: only a request that was not counted releases the endpoint.
DoneSwapped(r) ==
  LET g == req[r].gen
      e == req[r].ep
  IN /\ inflight' = IF ~req[r].counted /\ inflight[g][e] > 0
                    THEN [inflight EXCEPT ![g][e] = @ - 1] ELSE inflight
     /\ skewed' = skewed

\* The end of forwardHandler: the deferred Done of LeastRequest, which is also
\* called for an endpoint it never counted and stops at zero.
Done(r) ==
  LET g == req[r].gen
      e == req[r].ep
      release == balancing.endpoint = "LEAST_REQUEST" /\ inflight[g][e] > 0
  IN /\ inflight' = IF release THEN [inflight EXCEPT ![g][e] = @ - 1] ELSE inflight
     /\ skewed' = IF release /\ ~req[r].counted THEN skewed \union {<<g, e>>} ELSE skewed

Deliver(r) == jar' = Delivered(r, req[r].dsid, req[r].esid)

\* CircuitBreaker.Allow says no: the handler returns before it defers Done.
Deny(r) ==
  /\ req[r].pc = "picked"
  /\ req' = [req EXCEPT ![r].pc = "done"]
  /\ Deliver(r)
  /\ skewed' = IF req[r].counted THEN skewed \union {<<req[r].gen, req[r].ep>>} ELSE skewed
  /\ UNCHANGED <<balancing, reloading, healthy, inflight, rr, checking, tracker, pins,
                 crashed, out, premature>>

Forward(r) ==
  /\ req[r].pc = "picked"
  /\ req' = [req EXCEPT ![r].pc = "upstream"]
  /\ UNCHANGED <<balancing, reloading, healthy, picking, checking, tracker, crashed, out,
                 premature, skewed>>

\* Under a request timeout a call that wrote no header is recorded as status 0.
RecordedStatus(answer) ==
  CASE answer = "timeout" /\ RequestTimeout -> 0
    [] answer = "timeout" /\ ~RequestTimeout -> 504
    [] answer = "badgateway" -> 502
    [] answer = "error" -> 500
    [] OTHER -> 200

\* RecordResponse up to its test of t.ejected.
Counted(t, status) ==
  IF status < 500 THEN [t EXCEPT !.c5xx = 0, !.gateway = 0]
  ELSE [t EXCEPT !.c5xx = @ + 1,
                 !.gateway = IF status \in {502, 503, 504} THEN @ + 1 ELSE @]

shouldEject(t) ==
  \/ t.c5xx >= Threshold5xx
  \/ ThresholdGw > 0 /\ t.gateway >= ThresholdGw

Respond(r, answer) ==
  /\ req[r].pc = "upstream"
  /\ LET e == req[r].ep
         recorded == req[r].gen \in wired /\ req[r].dest \in Outliers
         t == Counted(tracker[e], RecordedStatus(answer))
         ejects == recorded /\ shouldEject(t) /\ ~t.ejected
     IN /\ tracker' = IF recorded THEN [tracker EXCEPT ![e] = t] ELSE tracker
        /\ req' = [req EXCEPT ![r].pc = IF ejects THEN "ejecting" ELSE "done"]
        /\ IF ejects THEN UNCHANGED <<inflight, skewed, jar>> ELSE Done(r) /\ Deliver(r)
  /\ UNCHANGED <<balancing, reloading, healthy, rr, checking, pins, crashed, out, premature>>

\* t.ejected.Store(true), outside every lock.
StoreEjected(r) ==
  /\ req[r].pc = "ejecting"
  /\ tracker' = [tracker EXCEPT ![req[r].ep].ejected = TRUE]
  /\ req' = [req EXCEPT ![r].pc = "stored"]
  /\ UNCHANGED <<balancing, reloading, healthy, picking, checking, crashed, out, premature,
                 skewed>>

\* Endpoint.mu of the detector's object for e is held by an ejecting request.
Held(e) == \E r \in Requests : req[r].pc = "locked" /\ req[r].locked = odGen /\ req[r].ep = e

\* ejectedAt and ejectionCount under od.mu, then t.endpoint.mu.Lock() on the
\* object t.endpoint points to.
LockEndpoint(r) ==
  /\ req[r].pc = "stored" /\ ~Held(req[r].ep)
  /\ req' = [req EXCEPT ![r].pc = "locked", ![r].locked = odGen]
  /\ UNCHANGED <<balancing, reloading, healthy, picking, checking, tracker, crashed, out,
                 premature, skewed>>

\* t.endpoint.Healthy = false and t.endpoint.mu.Unlock() read t.endpoint again:
\* if Update changed it meanwhile, an RWMutex is unlocked that is not locked,
\* which ends the process.
WriteUnhealthy(r) ==
  /\ req[r].pc = "locked"
  /\ healthy' = [healthy EXCEPT ![odGen][req[r].ep] = FALSE]
  /\ out' = out \union {req[r].ep}
  /\ crashed' = (req[r].locked # odGen)
  /\ req' = [req EXCEPT ![r].pc = "done"]
  /\ Done(r) /\ Deliver(r)
  /\ UNCHANGED <<balancing, reloading, rr, checking, tracker, pins, premature>>

\* Mutant of Restore: the tracker is cleared, the endpoint stays unhealthy.
RestoreTrackerOnly(e) ==
  /\ tracker[e].ejected /\ ~Held(e)
  /\ tracker' = [tracker EXCEPT ![e] = [c5xx |-> 0, gateway |-> 0, ejected |-> FALSE]]
  /\ UNCHANGED <<balancing, reloading, healthy, picking, checking, req, crashed, out,
                 premature, skewed>>

\* Mutant of Restore: an endpoint comes back only after it has answered well.
RestoreWhenClean(e) ==
  /\ tracker[e].ejected /\ tracker[e].c5xx = 0 /\ ~Held(e)
  /\ tracker' = [tracker EXCEPT ![e] = [c5xx |-> 0, gateway |-> 0, ejected |-> FALSE]]
  /\ healthy' = [healthy EXCEPT ![odGen][e] = TRUE]
  /\ UNCHANGED <<balancing, reloading, picking, checking, req, crashed, out, premature,
                 skewed>>

\* One tracker of a tick of checkEjections whose ejection has expired.  An
\* ejection that was stored but not yet dated has the date of the last one.
Restore(e) ==
  /\ tracker[e].ejected /\ ~Held(e)
  /\ tracker' = [tracker EXCEPT ![e] = [c5xx |-> 0, gateway |-> 0, ejected |-> FALSE]]
  /\ healthy' = [healthy EXCEPT ![odGen][e] = TRUE]
  /\ premature' = IF \E r \in Requests : req[r].pc = "stored" /\ req[r].ep = e
                  THEN premature \union {e} ELSE premature
  /\ UNCHANGED <<balancing, reloading, picking, checking, req, crashed, out, skewed>>

----------------------------------------------------------------------------
\* checkAll takes the pools it knows; which endpoints are due is their interval.
BeginRound ==
  /\ round.todo = {} /\ rounds < MaxRounds
  /\ rounds' = rounds + 1
  /\ \E due \in SUBSET {e \in Endpoints : DestOf(e) \in HealthChecked} :
       due # {} /\ round' = [gen |-> hcGen, todo |-> due]
  /\ UNCHANGED <<balancing, reloading, healthy, picking, counter, tracker, req, crashed, out,
                 premature, skewed>>

\* The answer of one probe, applied to the object the round began with.
Probe(e, passed) ==
  /\ e \in round.todo
  /\ round' = [round EXCEPT !.todo = @ \ {e}]
  /\ LET c == IF passed THEN [failures |-> 0, successes |-> counter[e].successes + 1]
              ELSE [failures |-> counter[e].failures + 1, successes |-> 0]
         was == healthy[round.gen][e]
         up == passed /\ ~was /\ c.successes >= HealthyThreshold
         down == ~passed /\ was /\ c.failures >= UnhealthyThreshold
     IN /\ counter' = [counter EXCEPT ![e] = c]
        /\ healthy' = [healthy EXCEPT ![round.gen][e] = (@ \/ up) /\ ~down]
        /\ out' = IF down THEN out \union {e} ELSE out
  /\ UNCHANGED <<balancing, reloading, picking, rounds, tracker, req, crashed, premature,
                 skewed>>

\* gateway.rebuild: SwapTable, HealthChecker.Update, OutlierDetector.Update,
\* which keeps the tracker and moves its pointer, and then OnResponse; each
\* takes the table that this reload built.
SwapTable(g) ==
  /\ reload[g].pc = "idle" /\ gen <= MaxReloads
  /\ gen' = gen + 1
  /\ reload' = [reload EXCEPT ![g] = [pc |-> "swapped", gen |-> gen + 1]]
  /\ overlap' = (\E h \in Reloaders \ {g} : reload[h].pc # "idle")
  /\ UNCHANGED <<balancing, hcGen, odGen, wired, healthy, picking, checking, tracker, req,
                 crashed, out, premature, skewed>>

HealthCheckerUpdate(g) ==
  /\ reload[g].pc = "swapped"
  /\ hcGen' = reload[g].gen
  /\ reload' = [reload EXCEPT ![g].pc = "checked"]
  /\ UNCHANGED <<balancing, gen, odGen, wired, overlap, healthy, picking, checking, tracker,
                 req, crashed, out, premature, skewed>>

OutlierDetectorUpdate(g) ==
  /\ reload[g].pc = "checked"
  /\ odGen' = reload[g].gen
  /\ reload' = [reload EXCEPT ![g].pc = "detected"]
  /\ UNCHANGED <<balancing, gen, hcGen, wired, overlap, healthy, picking, checking, tracker,
                 req, crashed, out, premature, skewed>>

WireOnResponse(g) ==
  /\ reload[g].pc = "detected"
  /\ wired' = wired \union {reload[g].gen}
  /\ reload' = [reload EXCEPT ![g].pc = "idle"]
  /\ UNCHANGED <<balancing, gen, hcGen, odGen, overlap, healthy, picking, checking, tracker,
                 req, crashed, out, premature, skewed>>

Update(g) == HealthCheckerUpdate(g) \/ OutlierDetectorUpdate(g) \/ WireOnResponse(g)
Answers == {"ok", "error", "badgateway", "timeout"}
RequestStep(r) ==
  \/ Route(r) \/ PickEndpoint(r) \/ Deny(r) \/ Forward(r)
  \/ \E answer \in Answers : Respond(r, answer)
  \/ StoreEjected(r) \/ LockEndpoint(r) \/ WriteUnhealthy(r)

Next ==
  /\ ~crashed
  /\ \/ \E r \in Requests : RequestStep(r)
     \/ \E e \in Endpoints : Restore(e)
     \/ BeginRound
     \/ \E e \in Endpoints, passed \in BOOLEAN : Probe(e, passed)
     \/ \E g \in Reloaders : SwapTable(g) \/ Update(g)

\* A request that has its answer goes on to its end, a reload goes through its
\* calls, the detector's ticker never stops and an ejection expires.  Each of
\* them is a goroutine the scheduler runs; as each has finitely many steps to
\* take, it is enough that some step is taken while there is one.
Progress ==
  /\ ~crashed
  /\ \/ \E g \in Reloaders : Update(g)
     \/ \E r \in Requests : StoreEjected(r) \/ LockEndpoint(r) \/ WriteUnhealthy(r)
     \/ \E e \in Endpoints : Restore(e)

Fairness == WF_vars(Progress)

Spec == Init /\ [][Next]_vars /\ Fairness

----------------------------------------------------------------------------
\* Values stay in their types; a flag of a generation that does not exist yet
\* is still the one NewEndpoint gives it.
TypeOK ==
  /\ gen \in Gens /\ hcGen \in 1 .. gen /\ odGen \in 1 .. gen /\ wired \subseteq 1 .. gen
  /\ reload \in [Reloaders -> [pc : {"idle", "swapped", "checked", "detected"}, gen : 1 .. gen]]
  /\ overlap \in BOOLEAN
  /\ healthy \in [Gens -> [Endpoints -> BOOLEAN]]
  /\ \A g \in Gens : g > gen => \A e \in Endpoints : healthy[g][e]
  /\ inflight \in [Gens -> [Endpoints -> 0 .. Cardinality(Requests)]]
  /\ \A e \in Endpoints : tracker[e].ejected \in BOOLEAN
  /\ \A r \in Requests : req[r].dest \in Destinations \union {Nil, "panic"}
                         /\ req[r].ep \in Endpoints \union {Nil}

\* The in-flight counts of LeastRequest.  An endpoint's count is the number of
\* requests that are between their Pick and their Done on it, for every
\* generation of the balancer, as long as no request was denied by the breaker
\* after it was counted and none was finished that was never counted.
InflightExact ==
  \A g \in Gens, e \in Endpoints : <<g, e>> \notin skewed =>
    inflight[g][e] = Cardinality({r \in Requests : req[r].counted /\ req[r].gen = g
                                     /\ req[r].ep = e /\ req[r].pc # "done"})

\* An endpoint that only the outlier detector can take out (it has no health
\* check) is out only while somebody is going to put it back: the tracker says
\* ejected, or the ejecting request is not done with it.  The exceptions are
\* the endpoints that were restored before their ejection was dated.
OutIsEjected == ~crashed =>
  \A e \in Endpoints :
    (DestOf(e) \notin HealthChecked /\ e \notin premature /\ ~healthy[odGen][e])
      => \/ tracker[e].ejected
         \/ \E r \in Requests : req[r].ep = e /\ req[r].pc \in {"stored", "locked"}

\* Two requests are hashed by the same key, under a hash policy.
HashedAlike(r, s) ==
  \/ balancing.policy = "client" /\ ClientOf[r] = ClientOf[s]
  \/ balancing.policy = "cookie" /\ req[r].esid # Nil /\ req[r].esid = req[s].esid

\* A client stays with its endpoint and its destination, across requests, reloads
\* and ejections.  Under a hash policy two requests with the same key never
\* reach two endpoints of a destination; without one, PickByHash is not called
\* and they may, but only if one of the two was out.  Two requests of a pinned
\* session that go to different destinations did not see the same ones healthy.
\* A sticky session leaves its endpoint only if that endpoint was out, and its
\* destination only through a request that saw it without a healthy endpoint.
ClientsStay ==
  \A r, s \in Requests :
    /\ (req[r].ep # Nil /\ req[s].ep # Nil /\ req[r].dest = req[s].dest) =>
         /\ HashedAlike(r, s) => req[r].ep = req[s].ep
         /\ (balancing.endpoint \in {"RING_HASH", "MAGLEV"} /\ balancing.policy = "none"
               /\ ClientOf[r] = ClientOf[s] /\ req[r].ep # req[s].ep)
              => {req[r].ep, req[s].ep} \intersect out # {}
         /\ (balancing.endpoint = "STICKY" /\ req[s].esid = r /\ req[r].esid = r)
              => (req[r].ep = req[s].ep \/ req[r].ep \in out)
    /\ (req[r].dest # Nil /\ req[s].dest # Nil /\ req[r].dest # req[s].dest) =>
         /\ (balancing.dest = "WEIGHTED_CONSISTENT_HASH" /\ req[r].dsid = req[s].dsid)
              => (req[r].dest \notin req[s].seen \/ req[s].dest \notin req[r].seen)
         /\ (balancing.dest = "STICKY" /\ req[s].dsid = r /\ req[r].dsid = r)
              => \E t \in Requests : req[t].dsid = r /\ req[r].dest \notin req[t].seen

\* After the ejection expires, the endpoint is restored: an endpoint without a
\* health check never stays out of the router's table for ever, unless it
\* was restored before its ejection was dated or the process died.  Nor does it
\* after reloads that overlapped, once one has run by itself: until then the
\* detector may have been given the older of two tables last, and puts back an
\* endpoint that the router does not use.
EventuallyRestored ==
  \A e \in Endpoints : DestOf(e) \notin HealthChecked =>
    []<>(crashed \/ overlap \/ e \in premature \/ healthy[gen][e])

\* A new snapshot is applied "atomically - in-flight requests are never
\* affected" (model/snapshot.go): no reload ends the process under a request.
InFlightUnaffected == ~crashed
=============================================================================
