----------------------------- MODULE MCFailover -----------------------------
(* Instances of Failover for TLC. *)
EXTENDS Failover, TLC

CONSTANTS e1, e2, e3, r1, r2

\* e1 is first in the chain and dearest; e3 has no known price.
MCPriority == [e \in Entries |-> (e1 :> 1 @@ e2 :> 2 @@ e3 :> 3)[e]]
MCPrice    == [e \in Entries |-> (e1 :> 6 @@ e2 :> 2 @@ e3 :> 0)[e]]

Symmetry == Permutations(Requests)
=============================================================================
