---------------------------- MODULE MCControlPlane ----------------------------
(***************************************************************************)
(* ControlPlane for TLC: two interchangeable approval requests.            *)
(***************************************************************************)
EXTENDS ControlPlane, TLC

CONSTANTS r1, r2

RequestSymmetry == Permutations(Requests)
=============================================================================
