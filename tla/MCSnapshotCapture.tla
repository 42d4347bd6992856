-------------------------- MODULE MCSnapshotCapture --------------------------
(* SnapshotCapture with one identifier per kind.  Content "plain" names     *)
(* nothing, content "full" names all that an entity of its kind may name.  *)
EXTENDS SnapshotCapture

All(ks) == ks \X Ids

MCReferences ==
  [k \in Kinds |-> [v \in Values |->
     IF v = "plain" THEN {}
     ELSE CASE k = "routes" -> All({"destinations", "middlewares"})
            [] k = "groups" -> All({"routes", "middlewares"})
            [] k = "middlewares" -> All({"destinations", "secrets"})
            [] OTHER -> {}]]
=============================================================================
