--------------------------- MODULE MCNodeTables ---------------------------
(* Two peers or one, with the two kinds of type: removed one by one (AVATAR, *)
(* GENERIC), and with all the peer has (FACIAL stands for the others).       *)
EXTENDS NodeTables, TLC

CONSTANTS p1, p2, i1, i2, i3

TwoPeers == {p1, p2}
OnePeer == {p1}
TwoIds == {i1, i2}
ThreeIds == {i1, i2, i3}
MCTypes == {"AVATAR", "GENERIC", "FACIAL"}
TwoTypes == {"GENERIC", "FACIAL"}
MCPerNode == {"AVATAR", "GENERIC"}
Swaps == Permutations(ThreeIds)
SwapsTwo == Permutations(TwoPeers) \cup Permutations(TwoIds)
OnePerNode == {"GENERIC"}
===========================================================================
