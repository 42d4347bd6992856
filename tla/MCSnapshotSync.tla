--------------------------- MODULE MCSnapshotSync ----------------------------
(* SnapshotSync on a store that is empty when it is first opened.          *)
EXTENDS SnapshotSync

MCInit == Init /\ data = [k \in Kinds |-> EmptyCollection]

MCSpec == MCInit /\ [][Next]_vars
MCFairSpec == MCSpec /\ Fairness
=============================================================================
