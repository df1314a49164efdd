---------------------------- MODULE SharedValue ----------------------------
(***************************************************************************)
(* What the service promises of the data of one node: its owner writes it, *)
(* and the copy of every other client takes on values the owner has        *)
(* written.  A client that asked for ordered packets is also promised that *)
(* a copy never goes back to an older value, except to none at all while   *)
(* the node is being replicated anew.                                      *)
(***************************************************************************)
EXTENDS Naturals

CONSTANT Peers

VARIABLES
    inOrder,   \* the owner asked for ordered packets
    cur,       \* the owner's value; later values are larger
    seen       \* per peer: the value its copy shows, 0 for none yet

Write ==
    /\ cur' \in Nat /\ cur' > cur
    /\ UNCHANGED seen

See(p) ==
    /\ \E v \in 0..cur :
          /\ inOrder => v > seen[p] \/ v = 0
          /\ seen' = [seen EXCEPT ![p] = v]
    /\ UNCHANGED cur

Init ==
    /\ inOrder \in BOOLEAN
    /\ cur = 1
    /\ seen = [p \in Peers |-> 0]

Next ==
    /\ Write \/ \E p \in Peers : See(p)
    /\ UNCHANGED inOrder

Spec == Init /\ [][Next]_<<inOrder, cur, seen>>
===========================================================================
