------------------------------ MODULE MCPipeline ------------------------------
(***************************************************************************)
(* Five routes: one with a rate limit, one with authentication and rules,  *)
(* two with an authorization service and a processor that may fail, and    *)
(* one with a processor that observes.                                     *)
(***************************************************************************)
EXTENDS Pipeline

Message(client, tag, token, preflight, body) ==
  [client |-> client, tag |-> tag, token |-> token, preflight |-> preflight, body |-> body]
Token(key, claims) ==
  [key |-> key, iss |-> "issuer", aud |-> {"us"}, exp |-> <<1>>, claims |-> claims]
Expr(tags) == [ok |-> TRUE, tags |-> tags, body |-> FALSE]
Broken(tags) == [ok |-> FALSE, tags |-> tags, body |-> FALSE]
OfBody(tags) == [ok |-> TRUE, tags |-> tags, body |-> TRUE]
Answer(status, length) == [status |-> status, length |-> length, kind |-> "none", streamed |-> FALSE]
Streamed(status, length) == [Answer(status, length) EXCEPT !.streamed = TRUE]
Failure(kind) == [Answer(0, 0) EXCEPT !.kind = kind]
Bare(ids) == [middlewares |-> ids, overrides |-> << >>]

Base ==
  [route |-> Bare(<< >>), group |-> Bare(<< >>), all |-> << >>, action |-> "forward",
   issuer |-> {}, rotations |-> {}, messages |-> {Message("c1", "a", NoToken, FALSE, 0)},
   answers |-> {Answer(200, 1)}, requestTimeout |-> FALSE,
   retry |-> [attempts |-> 0, on |-> {}, codes |-> {}, perAttempt |-> FALSE],
   celBodyMaxSize |-> 9, maxBodyBytes |-> 9, workers |-> 0, queueSize |-> 0]

\* Two tokens, refilled by one in a tick: the eviction threshold is four ticks.
Rate ==
  [Base EXCEPT !.route = Bare(<<"limit">>), !.action = "direct",
     !.all = [limit |-> [type |-> "rateLimit", rps |-> 1, burst |-> 2]]]

\* The group's order, a middleware both list, one that is unknown, overrides of
\* both, conditions that do and do not compile, rules that do and do not.
Auth ==
  [Base EXCEPT
     !.group = [middlewares |-> <<"cors", "jwt">>,
                overrides |-> [jwt |-> [NoOverride EXCEPT !.disabled = TRUE],
                               cors |-> [NoOverride EXCEPT !.skipWhen = {Broken({"a"})}]]],
     !.route = [middlewares |-> <<"rules", "jwt", "gone">>,
                overrides |-> [jwt |-> [NoOverride EXCEPT !.skipWhen = {OfBody({"c"})}],
                               rules |-> [NoOverride EXCEPT !.onlyWhen = {Expr({"a", "b"}), Broken({"c"})}]]],
     !.all = [cors |-> [type |-> "cors", origins |-> {"a"}],
              jwt |-> [type |-> "jwt", issuer |-> "issuer", audiences |-> {"us", "them"}, assertClaims |-> TRUE],
              rules |-> [type |-> "inlineAuthz", default |-> "deny",
                         rules |-> <<[expr |-> Broken({"a"}), action |-> "deny"],
                                     [expr |-> OfBody({"a"}), action |-> "allow"],
                                     [expr |-> Expr({"a", "b"}), action |-> "deny"],
                                     [expr |-> Expr({"b"}), action |-> "allow"]>>]],
     !.issuer = {"k1"}, !.rotations = {{"k2"}, {"k1", "k2"}},
     !.messages = {Message("c1", "a", Token("k1", TRUE), FALSE, 3),
                   Message("c1", "a", Token("k2", TRUE), TRUE, 0),
                   Message("c1", "b", Token("k2", TRUE), FALSE, 0),
                   Message("c1", "b", Token("k1", FALSE), FALSE, 0),
                   Message("c1", "a", [Token("k1", TRUE) EXCEPT !.iss = "another"], FALSE, 0),
                   Message("c1", "a", [Token("k1", TRUE) EXCEPT !.aud = {"others"}], FALSE, 0),
                   Message("c1", "a", [Token("k1", TRUE) EXCEPT !.exp = << >>], FALSE, 0),
                   Message("c1", "c", NoToken, FALSE, 3)},
     !.celBodyMaxSize = 2]

\* Every phase, and retries on gateway errors and some codes.
Proc ==
  [Base EXCEPT
     !.route = Bare(<<"authz", "proc">>),
     !.all = [authz |-> [type |-> "extAuthz", failureModeAllow |-> TRUE],
              proc |-> [type |-> "extProc", observe |-> FALSE, queueSize |-> 0,
                        phases |-> [requestHeaders |-> "", responseHeaders |-> "send",
                                    requestBody |-> "bufferedPartial", responseBody |-> ""],
                        allowOnError |-> TRUE, disableReject |-> FALSE, maxBodyBytes |-> 2,
                        replacement |-> 1, sets |-> "x",
                        allowedMutations |-> [allow |-> {"x"}, deny |-> {}]]],
     !.messages = {Message("c1", "a", NoToken, FALSE, 3)},
     !.answers = {Answer(200, 1), Answer(204, 0), Answer(500, 1), Answer(503, 1), Answer(429, 1), Streamed(500, 1),
                  Failure("timeout"), Failure("refused")},
     !.retry = [attempts |-> 1, on |-> {"gateway-error", "retriable-codes"}, codes |-> {429},
                perAttempt |-> TRUE],
     !.maxBodyBytes = 2]

\* As before with the response body, without retries, closed on error, and
\* under a request timeout.
Strict ==
  [Proc EXCEPT
     !.all.proc.allowOnError = FALSE, !.all.proc.disableReject = TRUE,
     !.all.proc.phases.responseBody = "buffered",
     !.all.authz.failureModeAllow = FALSE,
     !.answers = {Answer(200, 1), Answer(204, 0), Streamed(500, 1), Streamed(200, 0), Failure("refused")},
     !.retry.attempts = 0, !.requestTimeout = TRUE]

\* One worker, a queue of one.
Observe ==
  [Base EXCEPT
     !.route = Bare(<<"proc">>),
     !.all = [proc |-> [Proc.all.proc EXCEPT !.observe = TRUE, !.queueSize = 1,
                                             !.phases.responseBody = "streamed"]],
     !.messages = {Message("c1", "a", NoToken, FALSE, 1)},
     !.workers = 1, !.queueSize = 1]

MCConfs == [rate |-> Rate, auth |-> Auth, proc |-> Proc, strict |-> Strict, observe |-> Observe]

\* The clock and the keys move only where a route uses them.  Requests come in
\* order, as many as the route calls for, and overlap where they share a queue.
Quota == [rate |-> 4, auth |-> 1, proc |-> 1, strict |-> 1, observe |-> 2]
InFlight == {r \in Requests : req[r].pc \notin {"idle", "done", "aborted"}}
MCNext ==
  /\ Next
  /\ conf \in {"proc", "strict", "observe"} => now' = now
  /\ conf = "auth" => now' <= 2
  /\ conf # "auth" => UNCHANGED jwks
  /\ \A r \in Requests :
       req[r].pc = "idle" /\ req'[r].pc = "down" =>
         /\ r <= Quota[conf]
         /\ conf = "observe" \/ InFlight = {}
         /\ \A s \in 1 .. r - 1 : req[s].pc # "idle"

MCSpec == Init /\ [][MCNext]_vars /\ Fairness
=============================================================================
