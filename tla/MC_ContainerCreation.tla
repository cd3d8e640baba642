------------------------ MODULE MC_ContainerCreation ------------------------
(* Small clusters: all requests ask for one name, or all for one port, or  *)
(* three compete for a node with one slot and one with room for two.       *)
EXTENDS ContainerCreation, TLC

CONSTANTS n1, a

OneName == [r \in Requests |-> a]
OnePort == [r \in Requests |-> 80]
Neither == [r \in Requests |-> None]
Three == [r \in Requests |-> 3]
Eight == [n \in Nodes |-> 8]
OneOrNine == [n \in Nodes |-> IF n = n1 THEN 1 ELSE 9]
Nine == [n \in Nodes |-> 9]

Symmetry == Permutations(Containers) \cup Permutations(Requests)
=============================================================================
