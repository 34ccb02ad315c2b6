--------------------------- MODULE MCReplicaServer ---------------------------
(***************************************************************************)
(* ReplicaServer for TLC: model values for ids and connections.            *)
(***************************************************************************)
EXTENDS ReplicaServer, TLC

CONSTANTS C1, C2, X, K1, K2

ConnectionSymmetry == Permutations({K1, K2})
=============================================================================
