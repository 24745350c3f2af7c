------------------------------ MODULE MCMeshBans ------------------------------
(* Instances of MeshBans for TLC. *)
EXTENDS MeshBans

CONSTANTS n1, n2, n3, i1

OneNamesake == [n \in Nodes |-> IF n = n2 THEN n1 ELSE n]  \* a copied node_name
OneWhite    == [n \in Nodes |-> IF n = n1 THEN {i1} ELSE {}]
=============================================================================
