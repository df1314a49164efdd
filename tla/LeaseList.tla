------------------------------ MODULE LeaseList ------------------------------
(***************************************************************************)
(* What the list service promises: a table of leases.  Posting a row takes *)
(* out a lease or renews it, and only a lease that was not renewed in time *)
(* is dropped.                                                             *)
(***************************************************************************)
EXTENDS Integers

CONSTANTS
    Posters,
    Timeout,
    Oldest     \* bound: ages beyond it are not told apart

VARIABLE leases    \* function from the posters listed to the age of their lease

Renew(k) ==
    leases' = [p \in DOMAIN leases \cup {k} |-> IF p = k THEN 0 ELSE leases[p]]

Drop ==
    \E gone \in SUBSET {p \in DOMAIN leases : leases[p] > Timeout} :
        leases' = [p \in DOMAIN leases \ gone |-> leases[p]]

\* Time passes for all alike.
Age ==
    leases' = [p \in DOMAIN leases |->
                  IF leases[p] < Oldest THEN leases[p] + 1 ELSE Oldest]

Init == leases = << >>

Next == (\E k \in Posters : Renew(k)) \/ Drop \/ Age

Spec == Init /\ [][Next]_leases
==============================================================================
