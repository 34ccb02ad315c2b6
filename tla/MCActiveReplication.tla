------------------------ MODULE MCActiveReplication ------------------------
(***************************************************************************)
(* ActiveReplication for TLC: model values for clients and replicas.       *)
(***************************************************************************)
EXTENDS ActiveReplication, TLC

CONSTANTS C1, C2, S1, S2, S3

ReplicaSymmetry == Permutations({S1, S2})
=============================================================================
