---------------------------- MODULE MCWorkspace ----------------------------
(***************************************************************************)
(* Workspace with its symmetries.                                          *)
(***************************************************************************)
EXTENDS Workspace, TLC

Symmetry == Permutations(Threads) \cup Permutations(Pods)
=============================================================================
