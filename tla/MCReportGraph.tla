--------------------------- MODULE MCReportGraph ---------------------------
(***************************************************************************)
(* ReportGraph with two section titles and two sources.  The .cfg files    *)
(* set the cap and the recursion limit: the repository's defaults, or a    *)
(* larger cap with half the limit.                                         *)
(***************************************************************************)
EXTENDS ReportGraph, TLC

CONSTANTS t1, t2, s1, s2

Symmetry == Permutations(Titles) \cup Permutations(Sources)
=============================================================================
