--------------------------- MODULE MCAskRequests ---------------------------
(***************************************************************************)
(* AskRequests with its symmetries.                                        *)
(***************************************************************************)
EXTENDS AskRequests, TLC

Symmetry == Permutations(Threads) \cup Permutations(Pods)
=============================================================================
