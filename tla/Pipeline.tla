------------------------------- MODULE Pipeline -------------------------------
(***************************************************************************)
(* Requests on their way through the middlewares of a route to the         *)
(* upstream and back (buildRouteHandler), with the state the middlewares   *)
(* share: the buckets of the rate limiter and their eviction, the keys of  *)
(* the JWT validator and their refresh, the queue of an external processor *)
(* in observe mode and its workers.                                        *)
(*                                                                         *)
(* A middleware runs when the handler around it calls it: chain[pos] is    *)
(* the next.  Sizes of bodies are small numbers; 0 is no body.             *)
(***************************************************************************)
EXTENDS Middlewares, TLC

CONSTANTS
  Confs,        \* the route configurations, by name
  Requests,
  MaxTime,      \* bound on the clock
  MaxKeyChanges,  \* bound on rotations of the issuer's keys
  MaxRefreshes    \* bound on refreshes of the validator's

VARIABLES
  conf,         \* the name of the configuration
  now,          \* the clock
  buckets,      \* tokenBucketLimiter.buckets: client -> bucket
  issuer,       \* the key sets the issuer has published, the last is current
  keys, fetch,  \* jwtValidator.keys; the key set refreshKeys has asked for, 0 if none
  refreshes,
  queue,        \* extProc.asyncQueue
  working, alive,   \* items with a worker; workers that have not returned
  stopped,      \* the stop channel of startAsyncWorkers is closed
  req,
  decisions,    \* ghost: what the limiter decided, in order
  began         \* ghost: the key set that was current when the last refresh to
                \* replace the keys asked for it, 0 if none did

vars == <<conf, now, buckets, issuer, keys, fetch, refreshes, queue, working, alive, stopped, req,
          decisions, began>>
jwks == <<issuer, keys, fetch, refreshes, began>>
observing == <<queue, working, alive, stopped>>
limiting == <<buckets, decisions>>

C == Confs[conf]
Chains == [c \in DOMAIN Confs |-> Chain(Confs[c].route, Confs[c].group, Confs[c].all)]
chain == Chains[conf]
At(r) == chain[req[r].pos]
mw(r) == C.all[At(r)]
NewRequest(m) == [pc |-> "idle", pos |-> 1, q |-> m, body |-> m.body, trail |-> << >>,
            answers |-> << >>, bodies |-> << >>, status |-> 0, length |-> 0,
            buffered |-> FALSE, proc |-> FALSE, replaced |-> FALSE, streamed |-> FALSE,
            flushed |-> FALSE, sent |-> 0, sends |-> 0, mutated |-> FALSE, shown |-> FALSE]

\* JWTMiddlewareWithStop fetches the keys before it serves; the fetch may fail.
Init ==
  /\ conf \in DOMAIN Confs
  /\ now = 0
  /\ buckets = << >>
  /\ issuer = <<C.issuer>>
  /\ began \in {0, 1} /\ keys = IF began = 0 THEN {} ELSE C.issuer
  /\ fetch = 0 /\ refreshes = 0
  /\ queue = << >> /\ working = 0 /\ alive = C.workers /\ stopped = FALSE
  /\ req = [r \in Requests |-> NewRequest(CHOOSE m \in C.messages : TRUE)]
  /\ decisions = << >>

----------------------------------------------------------------------------
\* BufferBody keeps what it read in the context: the body is cut once.
Buffer(q) ==
  IF q.buffered THEN q ELSE [q EXCEPT !.body = BufferBody(@, C.celBodyMaxSize), !.buffered = TRUE]

\* The request once wrapWithConditions has evaluated the middleware's conditions.
override(r) == resolveOverride(At(r), C.route, C.group)
Entered(r) == IF NeedsBody(override(r)) THEN Buffer(req[r]) ELSE req[r]

\* A middleware calls next: the request goes on to the one after it.
Pass(r) == [Entered(r) EXCEPT !.pc = "down", !.pos = @ + 1, !.trail = Append(@, At(r))]

\* A middleware answers itself; the ones around it see that answer.
Reject(r, status) ==
  [Entered(r) EXCEPT !.pc = "back", !.trail = Append(@, At(r)), !.status = status,
                  !.length = IF status = 204 THEN 0 ELSE 1]

Arrive(r, m) ==
  /\ req[r].pc = "idle"
  /\ req' = [req EXCEPT ![r] = [NewRequest(m) EXCEPT !.pc = "down"]]
  /\ UNCHANGED <<conf, now, limiting, jwks, observing>>

\* A middleware that a condition skips is not called.
Turn(r, type) ==
  /\ req[r].pc = "down" /\ req[r].pos <= Len(chain)
  /\ mw(r).type = type
  /\ ~Skips(override(r), req[r].q)

Skip(r) ==
  /\ req[r].pc = "down" /\ req[r].pos <= Len(chain)
  /\ Skips(override(r), req[r].q)
  /\ req' = [req EXCEPT ![r] = [Entered(r) EXCEPT !.pos = @ + 1]]
  /\ UNCHANGED <<conf, now, limiting, jwks, observing>>

RateLimit(r) ==
  /\ Turn(r, "rateLimit")
  /\ LET l == newTokenBucketLimiter(mw(r))
         c == req[r].q.client
         b == IF c \in DOMAIN buckets THEN Refilled(l, buckets[c], now)
              ELSE [tokens |-> l.burst, last |-> now]
         ok == b.tokens >= 1
     IN /\ buckets' = (c :> [b EXCEPT !.tokens = IF ok THEN @ - 1 ELSE @]) @@ buckets
        /\ decisions' = Append(decisions, [client |-> c, at |-> now, ok |-> ok])
        /\ req' = [req EXCEPT ![r] = IF ok THEN Pass(r) ELSE Reject(r, 429)]
  /\ UNCHANGED <<conf, now, jwks, observing>>

evictStale ==
  /\ \E i \in DOMAIN chain :
       /\ C.all[chain[i]].type = "rateLimit"
       /\ LET stale(c) == Stale(newTokenBucketLimiter(C.all[chain[i]]), buckets[c], now)
          IN /\ \E c \in DOMAIN buckets : stale(c)
             /\ buckets' = [c \in {x \in DOMAIN buckets : ~stale(x)} |-> buckets[c]]
  /\ UNCHANGED <<conf, now, decisions, jwks, observing, req>>

JWTStep(r) ==
  /\ Turn(r, "jwt")
  /\ LET status == JWT(mw(r), keys, now, req[r].q)
     IN req' = [req EXCEPT ![r] = IF status = 0 THEN Pass(r) ELSE Reject(r, status)]
  /\ UNCHANGED <<conf, now, limiting, jwks, observing>>

InlineAuthzStep(r) ==
  /\ Turn(r, "inlineAuthz")
  /\ LET read(q) == IF \E i \in DOMAIN mw(r).rules : mw(r).rules[i].expr.ok /\ mw(r).rules[i].expr.body
                    THEN Buffer(q) ELSE q
     IN req' = [req EXCEPT ![r] = IF InlineAuthz(mw(r), req[r].q) = "allow"
                                  THEN read(Pass(r)) ELSE Reject(r, 403)]
  /\ UNCHANGED <<conf, now, limiting, jwks, observing>>

\* The service's verdict, or none in time.
ExtAuthzStep(r, verdict) ==
  /\ Turn(r, "extAuthz")
  /\ req' = [req EXCEPT ![r] = IF ExtAuthz(mw(r), verdict) = "allow" THEN Pass(r) ELSE Reject(r, 403)]
  /\ UNCHANGED <<conf, now, limiting, jwks, observing>>

CORSStep(r) ==
  /\ Turn(r, "cors")
  /\ req' = [req EXCEPT ![r] = IF CORS(mw(r), req[r].q) = "next" THEN Pass(r) ELSE Reject(r, 204)]
  /\ UNCHANGED <<conf, now, limiting, jwks, observing>>

----------------------------------------------------------------------------
\* The issuer publishes another key set.
Rotate ==
  /\ Len(issuer) <= MaxKeyChanges
  /\ \E ks \in C.rotations : ks # Last(issuer) /\ issuer' = Append(issuer, ks)
  /\ UNCHANGED <<conf, now, limiting, keys, fetch, refreshes, began, observing, req>>

\* refreshKeys asks for the keys.
FetchKeys ==
  /\ fetch = 0 /\ refreshes < MaxRefreshes
  /\ fetch' = Len(issuer) /\ refreshes' = refreshes + 1
  /\ UNCHANGED <<conf, now, limiting, issuer, keys, began, observing, req>>

\* No answer, or one that is neither JSON nor PEM: the keys stay.
FetchFails ==
  /\ fetch # 0
  /\ fetch' = 0
  /\ UNCHANGED <<conf, now, limiting, issuer, keys, refreshes, began, observing, req>>

\* Mutant of StoreKeys: the keys are added to the ones there are.
StoreKeysAdds ==
  /\ fetch # 0
  /\ \E parsed \in {issuer[fetch], {}} : keys' = keys \union parsed
  /\ began' = fetch /\ fetch' = 0
  /\ UNCHANGED <<conf, now, limiting, issuer, refreshes, observing, req>>

\* Whatever parses replaces the keys, and the status is not looked at: a JSON
\* body that says what went wrong has no keys, and leaves none.
StoreKeys ==
  /\ fetch # 0
  /\ keys' \in {issuer[fetch], {}}
  /\ began' = fetch /\ fetch' = 0
  /\ UNCHANGED <<conf, now, limiting, issuer, refreshes, observing, req>>

Tick ==
  /\ now < MaxTime
  /\ now' = now + 1
  /\ UNCHANGED <<conf, limiting, jwks, observing, req>>

----------------------------------------------------------------------------
\* The external processor of the chain; a route has at most one.
Processors ==
  [c \in DOMAIN Confs |->
     LET ids == {id \in DOMAIN Confs[c].all : Confs[c].all[id].type = "extProc"}
     IN IF ids = {} THEN << >> ELSE Confs[c].all[CHOOSE id \in ids : TRUE]]
P == Processors[conf]
Phases == [c \in DOMAIN Confs |-> IF Processors[c] = << >> THEN << >> ELSE resolvePhases(Processors[c].phases)]
phases == Phases[conf]
captureBody == phases.responseBody # "none"
Answers == {"continue", "mutate", "replace", "reject", "error"}

\* Mutant of send: a full queue is waited for.
sendWaits(r, wanted, a) ==
  IF ~wanted THEN a = "skipped" /\ UNCHANGED queue
  ELSE IF P.observe THEN a = "queued" /\ Len(queue) < P.queueSize /\ queue' = Append(queue, r)
       ELSE a \in Answers /\ UNCHANGED queue

\* send: one exchange; in observe mode the phase is queued, or dropped if the
\* queue is full, and the request goes on.
send(r, wanted, a) ==
  IF ~wanted THEN a = "skipped" /\ UNCHANGED queue
  ELSE IF P.observe
       THEN a = "queued" /\ queue' = IF Len(queue) < P.queueSize THEN Append(queue, r) ELSE queue
       ELSE a \in Answers /\ UNCHANGED queue

\* onError: with allowOnError the request skips every later phase.
Processed(r, a, body, go) ==
  CASE a = "error" -> IF P.allowOnError THEN [Pass(r) EXCEPT !.body = body] ELSE Reject(r, 500)
    [] a = "reject" /\ ~P.disableReject -> Reject(r, 403)
    [] a = "replace" -> [go EXCEPT !.body = P.replacement, !.replaced = TRUE]
    [] OTHER -> [go EXCEPT !.body = body]

RequestHeaders(r, a) ==
  /\ Turn(r, "extProc") /\ send(r, phases.requestHeaders, a)
  /\ req' = [req EXCEPT ![r] = Processed(r, a, Entered(r).body, [Entered(r) EXCEPT !.pc = "body"])]
  /\ UNCHANGED <<conf, now, limiting, jwks, working, alive, stopped>>

RequestBody(r, a) ==
  /\ req[r].pc = "body" /\ send(r, phases.requestBody # "none", a)
  /\ LET body == readBody(req[r].body, phases.requestBody, P.maxBodyBytes)
     IN req' = [req EXCEPT ![r] = Processed(r, a, body, [Pass(r) EXCEPT !.proc = TRUE])]
  /\ UNCHANGED <<conf, now, limiting, jwks, working, alive, stopped>>

\* The handler's answer meets the hooks of the processor, if the request went
\* through it: without a captured body it is sent on as it is written.  The
\* reverse proxy flushes an answer of unknown length after every write, and it
\* may before the first; Flush is not hooked, and a writer that has no header
\* yet sends one with status 200.
Respond(r) ==
  /\ req[r].pc = "back"
  /\ LET hooked == req[r].proc /\ (captureBody \/ phases.responseHeaders)
         held == hooked /\ (captureBody \/ req[r].length = 0)
     IN \E flushed \in IF ~hooked \/ ~req[r].streamed THEN {FALSE}
                       ELSE IF captureBody /\ req[r].length > 0 THEN {TRUE} ELSE BOOLEAN :
          req' = [req EXCEPT ![r].pc = IF req[r].proc THEN "respHeaders" ELSE "done",
                             ![r].flushed = flushed,
                             ![r].sent = IF flushed THEN 200 ELSE IF held THEN 0 ELSE req[r].status,
                             ![r].sends = IF held THEN 0 ELSE 1]
  /\ UNCHANGED <<conf, now, limiting, jwks, observing>>

ResponseHeaders(r, a) ==
  /\ req[r].pc = "respHeaders" /\ send(r, phases.responseHeaders, a)
  /\ LET mutates == a = "mutate" /\ canMutate(P.sets, P.allowedMutations)
     IN req' = [req EXCEPT ![r].pc = "respBody", ![r].mutated = mutates,
                           ![r].shown = mutates /\ req[r].sent = 0]
  /\ UNCHANGED <<conf, now, limiting, jwks, working, alive, stopped>>

ResponseBody(r, a) ==
  /\ req[r].pc = "respBody" /\ send(r, captureBody /\ req[r].length > 0, a)
  /\ req' = [req EXCEPT ![r].pc = "flush",
                        ![r].length = IF a = "replace" THEN P.replacement ELSE @]
  /\ UNCHANGED <<conf, now, limiting, jwks, working, alive, stopped>>

\* Mutant of Flush: what was streamed is written again.
FlushAgain(r) ==
  /\ req[r].pc = "flush"
  /\ req' = [req EXCEPT ![r].pc = "done", ![r].sends = @ + 1,
                        ![r].sent = IF @ = 0 THEN req[r].status ELSE @]
  /\ UNCHANGED <<conf, now, limiting, jwks, observing>>

\* A second header is superfluous; the body is written if it was captured.
Flush(r) ==
  /\ req[r].pc = "flush"
  /\ req' = [req EXCEPT ![r].pc = "done", ![r].sends = IF @ = 0 THEN 1 ELSE @,
                        ![r].sent = IF @ = 0 THEN req[r].status ELSE @]
  /\ UNCHANGED <<conf, now, limiting, jwks, observing>>

\* The workers of observe mode; select may take an item after the stop.
Take ==
  /\ queue # << >> /\ working < alive
  /\ queue' = Tail(queue) /\ working' = working + 1
  /\ UNCHANGED <<conf, now, limiting, jwks, alive, stopped, req>>

Delivered ==
  /\ working > 0
  /\ working' = working - 1
  /\ UNCHANGED <<conf, now, limiting, jwks, queue, alive, stopped, req>>

StopWorkers ==
  /\ alive > 0 /\ ~stopped
  /\ stopped' = TRUE
  /\ UNCHANGED <<conf, now, limiting, jwks, queue, working, alive, req>>

WorkerReturns ==
  /\ stopped /\ working < alive
  /\ alive' = alive - 1
  /\ UNCHANGED <<conf, now, limiting, jwks, queue, working, stopped, req>>

----------------------------------------------------------------------------
\* directResponseHandler and redirectHandler answer at once.
Direct(r) ==
  /\ req[r].pc = "down" /\ req[r].pos > Len(chain) /\ C.action = "direct"
  /\ req' = [req EXCEPT ![r].pc = "back", ![r].status = 200, ![r].length = 1]
  /\ UNCHANGED <<conf, now, limiting, jwks, observing>>

\* Mutant of Replayed: the first attempt has read the body.
ReplayedOnce(r) == IF req[r].answers = << >> THEN req[r].body ELSE 0

\* RoundTrip buffers the body, and every attempt gets a reader of its own.
Replayed(r) == req[r].body

\* RoundTrip of the retry transport.  perAttemptTimeout cancels the context of an answer whose body is
\* still to be read, so its copy may fail and abort the handler.
Attempt(r, a) ==
  /\ req[r].pc = "down" /\ req[r].pos > Len(chain) /\ C.action = "forward"
  /\ LET n == Len(req[r].answers) + 1
         again == shouldRetry(a.status, C.retry) /\ n <= C.retry.attempts
         status == IF a.status # 0 THEN a.status
                   ELSE IF C.requestTimeout THEN 504 ELSE statusForErrorType(a.kind)
     IN \E pc \in IF again THEN {"down"}
                  ELSE IF C.retry.perAttempt /\ a.length > 0 THEN {"back", "aborted"} ELSE {"back"} :
          req' = [req EXCEPT ![r].answers = Append(@, a.status), ![r].bodies = Append(@, Replayed(r)),
                             ![r].pc = pc, ![r].status = IF again THEN 0 ELSE status,
                             ![r].length = IF again THEN 0 ELSE IF a.status = 0 THEN 1 ELSE a.length,
                             ![r].streamed = ~again /\ a.streamed]
  /\ UNCHANGED <<conf, now, limiting, jwks, observing>>

RequestStep(r) ==
  \/ Skip(r) \/ RateLimit(r) \/ JWTStep(r) \/ InlineAuthzStep(r) \/ CORSStep(r)
  \/ \E verdict \in {"allow", "deny", "error"} : ExtAuthzStep(r, verdict)
  \/ \E a \in Answers \union {"skipped", "queued"} :
       RequestHeaders(r, a) \/ RequestBody(r, a) \/ ResponseHeaders(r, a) \/ ResponseBody(r, a)
  \/ Direct(r)
  \/ \E a \in C.answers : Attempt(r, a)
  \/ Respond(r) \/ Flush(r)

Next ==
  \/ \E r \in Requests : RequestStep(r) \/ \E m \in C.messages : Arrive(r, m)
  \/ evictStale \/ Rotate \/ FetchKeys \/ FetchFails \/ StoreKeys \/ Tick
  \/ Take \/ Delivered \/ StopWorkers \/ WorkerReturns

\* Handlers run on; the workers of observe mode are owed nothing here.
Fairness == WF_vars(\E r \in Requests : RequestStep(r))

Spec == Init /\ [][Next]_vars /\ Fairness

----------------------------------------------------------------------------
TypeOK ==
  /\ conf \in DOMAIN Confs /\ now \in 0 .. MaxTime
  /\ \A c \in DOMAIN buckets : buckets[c].tokens \in Nat /\ buckets[c].last \in 0 .. now
  /\ refreshes \in 0 .. MaxRefreshes
  /\ alive \in 0 .. C.workers /\ working \in 0 .. alive
  /\ Len(queue) <= C.queueSize
  /\ \A r \in Requests :
       /\ req[r].pc \in {"idle", "down", "body", "back", "respHeaders", "respBody", "flush", "done",
                         "aborted"}
       /\ req[r].pos \in 1 .. Len(chain) + 1
       /\ req[r].sends \in Nat

\* What the configuration says of a request: the middlewares of the group and
\* then those only the route has, without the unknown, the disabled, and the
\* ones whose conditions exclude the request; the route's override replaces the
\* group's.
Expected(q) ==
  LET own == SelectSeq(C.route.middlewares, LAMBDA id : id \notin Range(C.group.middlewares))
      overridden(id) == id \in DOMAIN C.route.overrides \union DOMAIN C.group.overrides
      ov(id) == IF id \in DOMAIN C.route.overrides THEN C.route.overrides[id] ELSE C.group.overrides[id]
      said(exprs) == {e \in exprs : e.ok /\ q.tag \in e.tags}
      excluded(id) == /\ overridden(id)
                      /\ \/ ov(id).disabled \/ said(ov(id).skipWhen) # {}
                         \/ (\E e \in ov(id).onlyWhen : e.ok) /\ said(ov(id).onlyWhen) = {}
  IN SelectSeq(C.group.middlewares \o own, LAMBDA id : id \in DOMAIN C.all /\ ~excluded(id))

\* A request meets the middlewares the configuration says, in that order and
\* each once, and all of them before it reaches an upstream.  One that inline
\* rules are about reaches it only if the first rule that compiles and matches
\* allows it, or none does and the default does.
ForwardedAsConfigured ==
  \A r \in Requests :
    LET expected == Expected(req[r].q)
    IN /\ IsPrefix(req[r].trail, expected)
       /\ req[r].answers # << >> =>
            /\ req[r].trail = expected
            /\ \A i \in DOMAIN expected :
                 LET m == C.all[expected[i]]
                     matches(k) == m.rules[k].expr.ok /\ req[r].q.tag \in m.rules[k].expr.tags
                 IN m.type = "inlineAuthz" =>
                      \/ \E k \in DOMAIN m.rules : /\ matches(k) /\ m.rules[k].action = "allow"
                                                    /\ \A j \in 1 .. k - 1 : ~matches(j)
                      \/ m.default = "allow" /\ \A k \in DOMAIN m.rules : ~matches(k)

\* The limiter, with buckets filled lazily and evicted when idle, decides as the
\* bound says that it stands for: a request is let through if and only if, of
\* every period that ends with it, no more than burst + rps * length were.
RateExact ==
  \A i \in DOMAIN decisions :
    LET d == decisions[i]
        l == newTokenBucketLimiter(C.all[CHOOSE id \in DOMAIN C.all : C.all[id].type = "rateLimit"])
        since(t) == Cardinality({j \in 1 .. i - 1 : /\ decisions[j].client = d.client
                                                    /\ decisions[j].ok /\ decisions[j].at >= t})
    IN d.ok <=> \A t \in 0 .. d.at :
                  since(t) + 1 <= l.burst + l.rps * (d.at - t)

\* A token that passes was signed with a key the issuer has had in its key set
\* since the last refresh to replace the validator's keys asked for them:
\* however rotations, refreshes that fail and requests interleave, a key that
\* is withdrawn is refused from the first refresh on that begins after that.
TokensCurrent ==
  [][\A r \in Requests :
       JWTStep(r) /\ req'[r].pc = "down" =>
         \E i \in 1 .. Len(issuer) : i >= began /\ req[r].q.token.key \in issuer[i]]_vars

\* A status is retried if and only if a condition of the policy names it and
\* attempts are left, and there are never more attempts than it says.  Nothing
\* is said of which transport errors are retried: RoundTrip retries them all,
\* where the documentation has a condition for them.  Every attempt carries the
\* same body, and it is the client's unless the processor replaced it or it is
\* longer than a middleware on the way reads.
RetriesFaithful ==
  \A r \in Requests :
    LET as == req[r].answers
        named(i) == \/ as[i] >= 500 /\ (C.retry.on = {} \/ "server-error" \in C.retry.on)
                    \/ as[i] \in 502 .. 504 /\ "gateway-error" \in C.retry.on
                    \/ as[i] \in C.retry.codes /\ "retriable-codes" \in C.retry.on
        shortest == Min({C.celBodyMaxSize, C.maxBodyBytes, req[r].q.body})
    IN /\ \A i \in 1 .. Len(as) - 1 : as[i] = 0 \/ named(i)
       /\ Len(as) <= C.retry.attempts + 1
       /\ req[r].status # 0 /\ as # << >> /\ named(Len(as)) => Len(as) = C.retry.attempts + 1
       /\ \A i \in DOMAIN req[r].bodies :
            /\ req[r].bodies[i] = req[r].bodies[1]
            /\ req[r].replaced \/ req[r].bodies[i] \in shortest .. req[r].q.body

\* The client gets one answer.  Unless it was flushed past the processor's hooks,
\* which sends its header as it is with status 200, it has the status the handler
\* gave it, and a header the processor changed is in it if the body was captured:
\* with responseBody none the header of an answer with a body is gone before
\* the processor is asked about it.
AnsweredOnce ==
  \A r \in {q \in Requests : req[q].pc = "done"} :
    /\ req[r].sends = 1
    /\ ~req[r].flushed =>
         /\ req[r].sent = req[r].status
         /\ req[r].mutated /\ captureBody => req[r].shown

\* Every request is answered or its handler aborts, though the workers of
\* observe mode may stand still and the queue be full.
EveryRequestAnswered ==
  \A r \in Requests : (req[r].pc = "down") ~> (req[r].pc \in {"done", "aborted"})
=============================================================================
