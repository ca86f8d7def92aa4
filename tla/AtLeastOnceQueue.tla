-------------------------- MODULE AtLeastOnceQueue --------------------------
(***************************************************************************)
(* What the report-job queue promises to the code that uses it: a job that *)
(* was submitted is owed to somebody until a worker has handled it, and it *)
(* may be handled any number of times.  Nothing here knows about topics,   *)
(* offsets or workers; JobQueue.tla implements this specification.         *)
(***************************************************************************)
CONSTANT Jobs

VARIABLES
    submitted,  \* jobs accepted by the queue
    done,       \* jobs a worker has handled at least once
    owed        \* jobs the queue still has to hand to a worker

absVars == <<submitted, done, owed>>

AbsTypeOK ==
    /\ submitted \subseteq Jobs
    /\ done \subseteq submitted
    /\ owed \subseteq submitted

AbsInit ==
    /\ submitted = {}
    /\ done = {}
    /\ owed = {}

Submit(j) ==
    /\ j \notin submitted
    /\ submitted' = submitted \cup {j}
    /\ owed' = owed \cup {j}
    /\ UNCHANGED done

\* A worker reports the end of j's handler; for a redelivered job this is a
\* stuttering step.
Handle(j) ==
    /\ j \in submitted
    /\ done' = done \cup {j}
    /\ UNCHANGED <<submitted, owed>>

\* The queue forgets, or takes back, jobs; either way only jobs that were
\* handled before.
Settle ==
    /\ owed' \subseteq submitted
    /\ owed \ owed' \subseteq done
    /\ owed' \ owed \subseteq done
    /\ UNCHANGED <<submitted, done>>

AbsNext ==
    \/ \E j \in Jobs : Submit(j) \/ Handle(j)
    \/ Settle

AbsSafety == AbsInit /\ [][AbsNext]_absVars

\* Every owed job is handled in the end.
AbsSpec == AbsSafety /\ \A j \in Jobs : WF_absVars(Handle(j))

\* The promise in one state predicate: no accepted job is both forgotten and
\* unhandled.
NothingForgotten == submitted \subseteq done \cup owed
=============================================================================
