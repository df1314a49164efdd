------------------------ MODULE MCSceneReplication ------------------------
(* Two clients and two nodes: one node each, or both nodes of one client, so *)
(* that one packet constructs or destroys several.                           *)
EXTENDS SceneReplication, TLC

CONSTANTS c1, c2, n1, n2

MCClients == {c1, c2}
MCNodes == {n1, n2}
MCOwner == n1 :> c1 @@ n2 :> c2
MCOwnerBatch == n1 :> c1 @@ n2 :> c1
===========================================================================
