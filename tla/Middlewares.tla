----------------------------- MODULE Middlewares -----------------------------
(***************************************************************************)
(* What the middlewares of a route decide (server/internal/proxy:          *)
(* handler.go, middlewares/, celeval/, retry.go).  A CEL expression is     *)
(* [ok, tags, body]: whether it compiles, the tags of the requests for     *)
(* which it evaluates to true (an evaluation error counts as false), and   *)
(* whether it reads the body.  The tag of a request stands for what the    *)
(* expressions read of it and no middleware changes.                       *)
(*                                                                         *)
(* A request is [client, tag, token, preflight, body]; a token is          *)
(* [key, iss, aud, exp, claims], exp empty if it has no such claim, or     *)
(* NoToken for a missing or malformed one.                                 *)
(***************************************************************************)
EXTENDS Naturals, Sequences, SequencesExt, FiniteSets, FiniteSetsExt

NoToken == [key |-> "none", iss |-> "", aud |-> {}, exp |-> << >>, claims |-> FALSE]
NoOverride == [disabled |-> FALSE, skipWhen |-> {}, onlyWhen |-> {}]

\* celeval.Program.Eval.
Eval(expr, q) == q.tag \in expr.tags
Compiled(exprs) == {e \in exprs : e.ok}

----------------------------------------------------------------------------
\* The group's middlewares, then the route's, each id once.
collectMiddlewareIDs(route, group) ==
  FoldLeft(LAMBDA ids, id : IF Contains(ids, id) THEN ids ELSE Append(ids, id),
           << >>, group.middlewares \o route.middlewares)

\* Mutant of resolveOverride: the group wins over the route.
resolveOverrideOfGroup(id, route, group) ==
  IF id \in DOMAIN group.overrides THEN group.overrides[id]
  ELSE IF id \in DOMAIN route.overrides THEN route.overrides[id] ELSE NoOverride

resolveOverride(id, route, group) ==
  IF id \in DOMAIN route.overrides THEN route.overrides[id]
  ELSE IF id \in DOMAIN group.overrides THEN group.overrides[id] ELSE NoOverride

\* buildRouteHandler: unknown and disabled middlewares are left out.
Chain(route, group, all) ==
  SelectSeq(collectMiddlewareIDs(route, group),
            LAMBDA id : id \in DOMAIN all /\ ~resolveOverride(id, route, group).disabled)

\* wrapWithConditions: an expression that does not compile is dropped.
Skips(ov, q) ==
  LET skip == Compiled(ov.skipWhen)
      only == Compiled(ov.onlyWhen)
  IN (\E e \in skip : Eval(e, q)) \/ (only # {} /\ \A e \in only : ~Eval(e, q))

\* Whether a condition reads the body, which is buffered before they are evaluated.
NeedsBody(ov) == \E e \in Compiled(ov.skipWhen \union ov.onlyWhen) : e.body

----------------------------------------------------------------------------

\* InlineAuthzMiddleware: the first compiled rule that matches, or the default.
InlineAuthz(mw, q) ==
  LET hits == {i \in DOMAIN mw.rules : mw.rules[i].expr.ok /\ Eval(mw.rules[i].expr, q)}
  IN IF hits = {} THEN mw.default ELSE mw.rules[Min(hits)].action

\* CORSMiddleware answers the preflight of an allowed origin itself.
CORS(mw, q) == IF q.preflight /\ q.tag \in mw.origins THEN "answer" ELSE "next"

\* handleAuthzError: without a verdict failureModeAllow decides.
ExtAuthz(mw, verdict) ==
  IF verdict = "allow" \/ (verdict = "error" /\ mw.failureModeAllow) THEN "allow" ELSE "deny"

\* validateClaims: the issuer, one of the audiences if there are any, and an
\* expiry that is there and not past.
validateClaims(mw, t, now) ==
  /\ t.iss = mw.issuer
  /\ mw.audiences = {} \/ mw.audiences \intersect t.aud # {}
  /\ t.exp # << >> /\ now <= t.exp[1]

\* validateSignatureAndClaims and assertClaims: the status that rejects, or 0.
JWT(mw, keys, now, q) ==
  IF q.token = NoToken \/ q.token.key \notin keys \/ ~validateClaims(mw, q.token, now) THEN 401
  ELSE IF mw.assertClaims /\ ~q.token.claims THEN 403 ELSE 0

----------------------------------------------------------------------------
\* newTokenBucketLimiter with its defaults; tokens come at rps for a tick.
newTokenBucketLimiter(mw) ==
  LET rps == IF mw.rps = 0 THEN 10 ELSE mw.rps
  IN [rps |-> rps, burst |-> IF mw.burst = 0 THEN rps ELSE mw.burst]

\* The bucket as Allow finds it: full if it is new, else with what has come since.
Refilled(l, b, now) ==
  [tokens |-> Min({b.tokens + (now - b.last) * l.rps, l.burst}), last |-> now]

\* Mutant of Stale: any bucket that has been idle.
StaleAtOnce(l, b, now) == now > b.last

\* evictStale: idle for more than twice the time in which a bucket fills up.
Stale(l, b, now) == (now - b.last) * l.rps > 2 * l.burst

----------------------------------------------------------------------------

\* shouldRetry, with the conditions in `on'; status 0 is a transport error,
\* which RoundTrip retries whatever the conditions are.
shouldRetry(status, retry) ==
  \/ status = 0
  \/ retry.on = {} /\ status >= 500
  \/ "server-error" \in retry.on /\ status >= 500
  \/ "gateway-error" \in retry.on /\ status \in {502, 503, 504}
  \/ "retriable-codes" \in retry.on /\ status \in retry.codes

\* classifyError and statusForErrorType: a timeout is 504, the rest is 502.
statusForErrorType(kind) == IF kind = "timeout" THEN 504 ELSE 502

\* canMutate, and shouldForward with the forward rules.
canMutate(header, rules) ==
  header \notin rules.deny /\ (rules.allow = {} \/ header \in rules.allow)

\* readBody: bufferedPartial keeps the first maxBodyBytes, for the upstream too.
readBody(body, mode, maxBodyBytes) ==
  IF mode = "bufferedPartial" THEN Min({body, maxBodyBytes}) ELSE body

\* BufferBody: what a CEL expression over the body leaves of it.
BufferBody(body, maxSize) == Min({body, maxSize})

\* resolvePhases: headers are sent unless skipped, bodies are not unless asked for.
resolvePhases(p) ==
  [requestHeaders |-> p.requestHeaders # "skip", responseHeaders |-> p.responseHeaders # "skip",
   requestBody |-> IF p.requestBody = "" THEN "none" ELSE p.requestBody,
   responseBody |-> IF p.responseBody = "" THEN "none" ELSE p.responseBody]
=============================================================================
