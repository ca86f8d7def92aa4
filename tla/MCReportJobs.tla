---------------------------- MODULE MCReportJobs ----------------------------
(***************************************************************************)
(* ReportJobs on small instances: one partition, and titles that collide   *)
(* or not.                                                                 *)
(***************************************************************************)
EXTENDS ReportJobs, TLC

CONSTANTS j1, j2, w1, w2, p1, t1

OnePartition == [j \in Jobs |-> p1]

\* Every job asks for the same report title.
SameTitle == [j \in Jobs |-> t1]

\* Every job asks for a title of its own.
OwnTitle == [j \in Jobs |-> j]

Symmetry == Permutations(Jobs) \cup Permutations(Workers)
=============================================================================
