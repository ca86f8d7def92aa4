---------------------------- MODULE MCIndexBuild ----------------------------
(***************************************************************************)
(* IndexBuild with small sets of pods and documents.                       *)
(***************************************************************************)
EXTENDS IndexBuild

CONSTANTS a, b, d1, u1
=============================================================================
