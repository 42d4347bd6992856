----------------------------- MODULE MCK8sWatcher -----------------------------
(* Two Services, one of which may become an ExternalName, and destinations  *)
(* that come, go and turn discovery off.                                    *)
EXTENDS K8sWatcher

Pods(ready, port) == [type |-> "cluster", ready |-> ready, port |-> port]
Alias(name) == [type |-> "external", ready |-> {name}, port |-> 0]
MCObjects == {Pods({"p1"}, 0), Pods({"p1", "p2"}, 9), Alias("n1")}
Destination(eds, host) == [eds |-> eds, host |-> host, port |-> 8]
MCValues == {Destination(TRUE, s) : s \in Services \union {NoHost}} \union {Destination(FALSE, NoHost)}

\* One destination at the start, and both Services up.
MCInit ==
  /\ Init
  /\ data["routes"] = EmptyCollection
  /\ \A i \in Ids : data["destinations"][i] \in {Absent, Destination(TRUE, "s1")}
  /\ cluster = [s \in Services |-> IF s = "s1" THEN Pods({"p1"}, 0) ELSE Alias("n1")]

\* Services change while they are watched, nothing changes after the stop, and
\* writes to routes are saves of one value: they only fill the channel.
MCNext ==
  /\ Next
  /\ data'["routes"] # data["routes"] => data'["routes"] = [i \in Ids |-> Destination(FALSE, NoHost)]
  /\ run = "stopped" => UNCHANGED <<writes, changes>>
  /\ \A s \in Services : cluster'[s] # cluster[s] => \E x \in DOMAIN watch : watch[x].svc = s /\ Live(x)

MCSpec == MCInit /\ [][MCNext]_vars /\ Fairness
=============================================================================
