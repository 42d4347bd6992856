----------------------------- MODULE MCDataplane -----------------------------
(***************************************************************************)
(* Four configurations for the proxy: listeners that come, go, change     *)
(* their port, certificate or timeouts, and routes with and without a      *)
(* group, of every kind of path.                                           *)
(***************************************************************************)
EXTENDS Dataplane

Route(id, kind, text, methods, hosts) ==
  [id |-> id, kind |-> kind, text |-> text, methods |-> methods, hosts |-> hosts,
   compiles |-> TRUE]
Group(kind, text, hosts, routes) ==
  [kind |-> kind, text |-> text, hosts |-> hosts, routes |-> routes, compiles |-> TRUE]
Listener(port, tls, timeouts, metrics) ==
  [port |-> port, tls |-> tls, timeouts |-> timeouts, metrics |-> metrics]

\* In a group with a prefix: an exact path on one more hostname, a regular
\* expression with an alternative; on its own: one that takes what is left.
Conf1 ==
  [routes |-> <<Route("a", "path", <<"/", "x">>, {}, {"h2"}),
                Route("b", "regex", << <<"/", "y">>, <<"z">> >>, {}, {}),
                Route("c", "none", << >>, {"GET"}, {})>>,
   groups |-> <<Group("prefix", <<"/", "g">>, {"h1"}, <<"b", "a">>)>>,
   listeners |-> [l1 |-> Listener(80, "none", 1, TRUE), l2 |-> Listener(81, "bad", 1, FALSE)]]

\* A group with a regular expression; a route that does not compile, kept out
\* of the table; one listener restarted, the other's certificate mended.
Conf2 ==
  [routes |-> <<Route("a", "prefix", <<"/", "x">>, {}, {}),
                Route("b", "regex", << <<"/", "y">>, <<"z">> >>, {}, {}),
                [Route("c", "none", << >>, {}, {}) EXCEPT !.compiles = FALSE],
                Route("d", "none", << >>, {}, {})>>,
   groups |-> <<Group("regex", << <<"/", "g">>, <<"/", "k">> >>, {}, <<"a", "c", "b", "d">>)>>,
   listeners |-> [l1 |-> Listener(82, "none", 1, TRUE), l2 |-> Listener(81, "ok", 1, TRUE)]]

\* The first listener keeps the port it has in Conf1 and loses its metrics; the
\* second takes the port that Conf2 gives the first.
Conf3 ==
  [Conf1 EXCEPT !.listeners =
     [l1 |-> Listener(80, "none", 1, FALSE), l2 |-> Listener(82, "none", 1, FALSE)]]

\* The first listener of Conf2 is gone, the timeouts of the second differ.
Conf4 == [Conf2 EXCEPT !.listeners = [l2 |-> Listener(81, "ok", 2, TRUE)]]

MCConfigs == [c1 |-> Conf1, c2 |-> Conf2, c3 |-> Conf3, c4 |-> Conf4]

MCMessages ==
  {[path |-> p, host |-> h, method |-> "GET"] :
     p \in {<<"/", "g", "/", "x">>, <<"/", "g", "/", "y">>, <<"/", "k", "z">>, <<"/", "x", "/", "k">>},
     h \in {"h1", "h2"}}

\* To keep the instance small, the first of two reloaders that are alike reloads
\* first, the signal comes when there has been no request, and neither requests
\* nor reloads begin after it.
MCNext ==
  /\ Next
  /\ gen = 0 => reload'["informer"] = NoReload
  /\ process' # "running" => history' = history /\ \A r \in Requests : req'[r] = Idle

MCSpec == Init /\ [][MCNext]_vars /\ Fairness
=============================================================================
