---------------------------- MODULE MCMembership ----------------------------
(***************************************************************************)
(* Instances of Membership for TLC.                                        *)
(***************************************************************************)
EXTENDS Membership, TLC

MCLfdServers == [l \in Lfds |-> <<"replica of", l>>]

ConnectionSymmetry == Permutations(Slots)
=============================================================================
