------------------------------ MODULE MCGateway ------------------------------
(* Gateway on a store whose destination bucket, and no other, may hold     *)
(* entities when the process starts.                                       *)
EXTENDS Gateway

\* Dumps that differ from the other contents in one bucket or in several.
LeaderDumps ==
  {[k \in Kinds |-> IF k \in full THEN [i \in Ids |-> v] ELSE EmptyCollection] :
     full \in {{"routes"}, {"listeners", "destinations"}}, v \in Values}

MCInit ==
  /\ Init
  /\ \A k \in Kinds \ {"destinations"} : data[k] = EmptyCollection

MCSpec == MCInit /\ [][Next]_vars /\ Fairness
=============================================================================
