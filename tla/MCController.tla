---------------------------- MODULE MCController -----------------------------
(* Two route objects and two Services. One object may belong to a batch of    *)
(* two; its specs share and swap destinations, and one of them has a second  *)
(* match and a header filter.                                                 *)
EXTENDS Controller

CONSTANTS k1, k2, d1, d2, d3, n1, n2, n3, l1, b1

Match(type, path) == [type |-> type, path |-> path, method |-> "", headers |-> {}]

Rule(matches, backends, redirect, headers) ==
  [matches |-> matches, backends |-> backends, redirect |-> redirect, headers |-> headers]

Input(rules, batch, size) ==
  [rules |-> rules, hostnames |-> {}, batch |-> batch, size |-> size]

MCKeys == {k1, k2}
MCDests == {d1, d2, d3}
MCRouteIds == MCKeys \X {1} \X {1, 2}
MCMiddlewareIds == MCKeys \X {1}
MCListeners == {l1}

\* k1 is an HTTPRoute, and d1 and d3 are in other namespaces than it: d1's
\* grants the reference, nobody grants that to d3.  k2 is a SuperHTTPRoute, which
\* needs no grant for d2.
MCSupers == {k2}
MCNamespaceOf ==
  [x \in MCKeys \cup MCDests |-> CASE x \in {k2, d1} -> n2 [] x = d3 -> n3 [] OTHER -> n1]
MCGrants ==
  {[namespace |-> n2, from |-> {[kind |-> "HTTPRoute", namespace |-> n1]}, to |-> {"Service"}],
   [namespace |-> n3, from |-> {[kind |-> "HTTPRoute", namespace |-> n1]}, to |-> {"Secret"}]}

\* k1 is a plain route to d1 or to d3, or one of a
\* batch with two matches, a header filter and both destinations; k2 is the
\* other of the batch, to d2.
MCInputsOf ==
  [k \in MCKeys |->
    IF k = k1
    THEN {Input(<<Rule(<< >>, {d}, FALSE, FALSE)>>, NoBatch, 0) : d \in {d1, d3}}
         \cup {Input(<<Rule(<<Match("Exact", <<"a">>), Match("PathPrefix", <<"b">>)>>,
                            {d1, d2}, FALSE, TRUE)>>, b1, 2)}
    ELSE {Input(<<Rule(<<Match("Exact", <<"a">>)>>, {d2}, FALSE, FALSE)>>, b1, 2)}]

\* The controller starts beside a cluster that has the batch and a Gateway.
MCInit == Init /\ gateways = MCListeners /\ \A k \in MCKeys : cluster[k] # Absent /\ cluster[k].batch = b1

MCSpec == MCInit /\ [][Next]_vars /\ Fairness

\* k1 moves from d1 to d2 and back; k2 stays on d2.
MCRetargets ==
  [k \in MCKeys |->
    IF k = k1
    THEN {Input(<<Rule(<<Match("Exact", <<"a">>)>>, {d}, FALSE, FALSE)>>, b1, 1) :
            d \in {d1, d2}}
    ELSE {Input(<<Rule(<<Match("Exact", <<"b">>)>>, {d2}, FALSE, FALSE)>>, NoBatch, 0)}]

MCRetargetSpec == Init /\ gateways = {} /\ [][Next]_vars
=============================================================================
