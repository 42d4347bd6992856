---------------------------- MODULE MCEndpointPool ----------------------------
(***************************************************************************)
(* Two destinations: d1 with two endpoints and outlier detection, d2 with  *)
(* one endpoint, weight zero and health checks; three requests, two of     *)
(* them of one client; one reload, or two that may overlap.                *)
(***************************************************************************)
EXTENDS EndpointPool

CONSTANTS e1, e2, e3, d1, d2, q1, q2, q3, c1, c2

MCRequests == {q1, q2, q3}
MCClientOf == (q1 :> c1) @@ (q2 :> c2) @@ (q3 :> c1)
MCDests == <<[id |-> d1, weight |-> 2], [id |-> d2, weight |-> 0]>>
MCEndpointsOf == (d1 :> <<e1, e2>>) @@ (d2 :> <<e3>>)
MCBalancing ==
  {[dest |-> "WEIGHTED_RANDOM", endpoint |-> "LEAST_REQUEST", policy |-> "none"],
   [dest |-> "WEIGHTED_CONSISTENT_HASH", endpoint |-> "RING_HASH", policy |-> "cookie"],
   [dest |-> "STICKY", endpoint |-> "STICKY", policy |-> "none"],
   [dest |-> "WEIGHTED_RANDOM", endpoint |-> "MAGLEV", policy |-> "client"],
   [dest |-> "WEIGHTED_RANDOM", endpoint |-> "MAGLEV", policy |-> "none"],
   [dest |-> "WEIGHTED_CONSISTENT_HASH", endpoint |-> "ROUND_ROBIN", policy |-> "none"],
   [dest |-> "WEIGHTED_RANDOM", endpoint |-> "RANDOM", policy |-> "none"]}

\* Hashes that put a key on each destination and on each endpoint.
MCKeyHash == (c1 :> 2) @@ (c2 :> 7) @@ (q1 :> 2) @@ (q2 :> 7) @@ (q3 :> 5)
MCVnodeHash == (e1 :> <<1, 5>>) @@ (e2 :> <<3, 9>>) @@ (d1 :> <<4, 6>>) @@ (d2 :> <<8, 0>>)
MCOffset == (e1 :> 0) @@ (e2 :> 1)
MCSkip == (e1 :> 1) @@ (e2 :> 2)

\* The requests arrive in this order, two at a time where the balancer counts
\* them or the hash must not move, one at a time elsewhere.
Arrivals ==
  /\ Cardinality({r \in Requests : req[r].pc \notin {"idle", "done"}})
       <= (IF balancing.endpoint \in {"LEAST_REQUEST", "RING_HASH"} THEN 2 ELSE 1)
  /\ req[q2].pc # "idle" => req[q1].pc # "idle"
  /\ req[q3].pc # "idle" => req[q2].pc # "idle"

\* Health checks matter where the other destination may be chosen; they meet a
\* reload where the requests come one at a time.  Reloads overlap where neither
\* the health checks nor the balancer have a say.
Disturbances ==
  /\ balancing.endpoint \in {"LEAST_REQUEST", "MAGLEV", "RANDOM"} => rounds = 0
  /\ balancing \in {[dest |-> "STICKY", endpoint |-> "STICKY", policy |-> "none"],
                   [dest |-> "WEIGHTED_RANDOM", endpoint |-> "MAGLEV", policy |-> "none"]} => gen = 1
  /\ IF balancing.endpoint = "RANDOM" THEN req[q3].pc = "idle"
     ELSE gen <= 2 /\ reload["informer"].pc = "idle"

MCNext == Next /\ Arrivals' /\ Disturbances'
MCSpec == Init /\ [][MCNext]_vars /\ Fairness
=============================================================================
