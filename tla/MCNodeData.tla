----------------------------- MODULE MCNodeData -----------------------------
(* Two peers: one that is served when the other joins, leaves or returns. *)
EXTENDS NodeData, TLC

CONSTANTS p1, p2

MCPeers == {p1, p2}
============================================================================
