----------------------------- MODULE MCWorkspace -----------------------------
(***************************************************************************)
(* Workspace for TLC.                                                      *)
(***************************************************************************)
EXTENDS Workspace, TLC

CheckSymmetry == Permutations(Checks)
=============================================================================
