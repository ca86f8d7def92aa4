---------------------------- MODULE MCDualIndex ----------------------------
(***************************************************************************)
(* DualIndex with one indexing thread in each of two pods.                 *)
(***************************************************************************)
EXTENDS DualIndex, TLC

CONSTANTS t1, t2, a, b, s1, s2

OneThreadEach == t1 :> a @@ t2 :> b

Symmetry == Permutations(Sources)
=============================================================================
