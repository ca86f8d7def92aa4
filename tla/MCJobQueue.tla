----------------------------- MODULE MCJobQueue -----------------------------
(***************************************************************************)
(* JobQueue on a small instance: three jobs over two partitions.           *)
(***************************************************************************)
EXTENDS JobQueue

CONSTANTS j1, j2, j3, p1, p2, w1, w2

\* The last job on its own partition: a worker's batch spans two partitions.
TwoPartitions == [j \in Jobs |-> IF j = j3 THEN p2 ELSE p1]
=============================================================================
