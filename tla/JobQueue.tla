------------------------------ MODULE JobQueue ------------------------------
(***************************************************************************)
(* The Kafka topic "rag.jobs" (RAG/services/job_queue.py) and the consume  *)
(* loop of RAG/worker.py: poll a batch, handle its messages one by one,    *)
(* commit the partition's offset by hand.  Delivery is at least once.      *)
(*                                                                         *)
(* The broker's part (group assignment, fetch positions, who may commit)   *)
(* is external code, modelled from how worker.py uses it: a commit is      *)
(* accepted only from the partition's present owner, and a partition that  *)
(* changes hands, or returns to the same worker in a new generation, is    *)
(* read again from its committed offset.                                   *)
(*                                                                         *)
(* Offsets: `committed[p]` and `position[p]` are counts, so message i of   *)
(* log[p] is committed iff i <= committed[p].                              *)
(***************************************************************************)
EXTENDS Integers, Sequences, FiniteSets, FiniteSetsExt

CONSTANTS
    Jobs,           \* job ids
    Workers,        \* worker pods
    Partitions,     \* partitions of the topic
    None,           \* no worker, or no partition
    PartitionOf,    \* the partition a job id's key hashes to
    MaxRecords,     \* getmany(max_records=10)
    MaxCrashes,     \* bound: worker crashes and shutdowns together
    MaxRebalances   \* bound: partitions moved away from a live worker

ASSUME PartitionsAssumption ==
    /\ None \notin Workers /\ None \notin Partitions
    /\ PartitionOf \in [Jobs -> Partitions]

ASSUME BoundsAssumption ==
    /\ MaxRecords \in Nat \ {0}
    /\ MaxCrashes \in Nat
    /\ MaxRebalances \in Nat

VARIABLES
    log,        \* log[p]: the messages (job ids) appended to partition p
    committed,  \* committed[p]: the group's committed offset
    owner,      \* owner[p]: the group member partition p is assigned to
    position,   \* position[p]: the owner's next offset to fetch
    batch,      \* batch[w][p]: the part of w's last poll not yet handled
    current,    \* current[w]: the partition w is working through
    busy,       \* busy[w]: w is inside _process_message
    alive,      \* alive[w]: the worker process runs
    crashes,    \* crashes and shutdowns so far
    rebalances, \* spontaneous reassignments so far
    handled     \* history: the <<p, i>> whose handler has returned

topicVars  == <<log, committed, owner, position>>
workerVars == <<batch, current, busy, alive>>
faultVars  == <<crashes, rebalances>>
queueVars  == <<topicVars, workerVars, faultVars, handled>>

Slice == [from : Nat, upto : Nat]
NoSlice == [from |-> 0, upto |-> 0]

QTypeOK ==
    /\ log \in [Partitions -> Seq(Jobs)]
    /\ committed \in [Partitions -> Nat]
    /\ owner \in [Partitions -> Workers \cup {None}]
    /\ position \in [Partitions -> Nat]
    /\ batch \in [Workers -> [Partitions -> Slice]]
    /\ current \in [Workers -> Partitions \cup {None}]
    /\ busy \in [Workers -> BOOLEAN]
    /\ alive \in [Workers -> BOOLEAN]
    /\ crashes \in Nat
    /\ rebalances \in Nat
    /\ handled \subseteq Partitions \X Nat

QInit ==
    /\ log = [p \in Partitions |-> <<>>]
    /\ committed = [p \in Partitions |-> 0]
    /\ owner = [p \in Partitions |-> None]
    /\ position = [p \in Partitions |-> 0]
    /\ batch = [w \in Workers |-> [p \in Partitions |-> NoSlice]]
    /\ current = [w \in Workers |-> None]
    /\ busy = [w \in Workers |-> FALSE]
    /\ alive = [w \in Workers |-> TRUE]
    /\ crashes = 0
    /\ rebalances = 0
    /\ handled = {}

-----------------------------------------------------------------------------

Logged(j) == \E i \in DOMAIN log[PartitionOf[j]] : log[PartitionOf[j]][i] = j

\* Slices of w's batch with messages left to handle.
Pending(w) == {p \in Partitions : batch[w][p].from < batch[w][p].upto}

\* w is at the top of the consume loop.
Polling(w) == alive[w] /\ current[w] = None /\ Pending(w) = {}

\* The message w is handling, as a position in the log.
AtHand(w) == <<current[w], batch[w][current[w]].from + 1>>

-----------------------------------------------------------------------------

\* producer.send_and_wait: the envelope reaches the job's partition.
SendAndWait(j) ==
    /\ ~Logged(j)
    /\ log' = [log EXCEPT ![PartitionOf[j]] = Append(@, j)]
    /\ UNCHANGED <<committed, owner, position, workerVars, faultVars, handled>>

\* How many messages of partition p a poll by w may return.
Available(w, p) == IF owner[p] = w THEN Len(log[p]) - position[p] ELSE 0

\* consumer.getmany: at most MaxRecords messages over all owned partitions.
Poll(w) ==
    /\ Polling(w)
    /\ \E n \in [Partitions -> 0..MaxRecords] :
        /\ \A p \in Partitions : n[p] <= Available(w, p)
        /\ MapThenSumSet(LAMBDA p : n[p], Partitions) \in 1..MaxRecords
        /\ position' = [p \in Partitions |-> position[p] + n[p]]
        /\ batch' = [batch EXCEPT ![w] = [p \in Partitions |->
                        IF n[p] = 0 THEN NoSlice
                        ELSE [from |-> position[p], upto |-> position[p] + n[p]]]]
    /\ UNCHANGED <<log, committed, owner, current, busy, alive, faultVars,
                   handled>>

\* The next message of the partition being worked through, or of the next
\* partition of the batch, enters _process_message.
Begin(w, p) ==
    /\ alive[w] /\ ~busy[w]
    /\ p \in Pending(w)
    /\ current[w] \in {None, p}
    /\ current' = [current EXCEPT ![w] = p]
    /\ busy' = [busy EXCEPT ![w] = TRUE]
    /\ UNCHANGED <<topicVars, batch, alive, faultVars, handled>>

\* _process_message returns; it swallows every exception of the handler.
End(w) ==
    /\ busy[w]
    /\ handled' = handled \cup {AtHand(w)}
    /\ batch' = [batch EXCEPT ![w][current[w]].from = @ + 1]
    /\ busy' = [busy EXCEPT ![w] = FALSE]
    /\ UNCHANGED <<topicVars, current, alive, faultVars>>

\* The process ends: everything in memory is gone and, when its session ends,
\* so are its assignments.
Gone(w) ==
    /\ alive' = [alive EXCEPT ![w] = FALSE]
    /\ batch' = [batch EXCEPT ![w] = [p \in Partitions |-> NoSlice]]
    /\ current' = [current EXCEPT ![w] = None]
    /\ busy' = [busy EXCEPT ![w] = FALSE]
    /\ owner' = [p \in Partitions |-> IF owner[p] = w THEN None ELSE owner[p]]

\* Faulty variant: the partition is committed while its messages are handled.
SliceBegun(w) == alive[w] /\ ~busy[w] /\ current[w] # None

\* The inner loop of run() is through with the partition's messages.
SliceHandled(w) ==
    /\ alive[w] /\ ~busy[w]
    /\ current[w] # None
    /\ current[w] \notin Pending(w)

\* Faulty variants: the offset of the last message itself, without the + 1, and
\* the start of the poll, taking it for a full one.
LastOffset(w) == batch[w][current[w]].upto - 1
FullPollStart(w) == batch[w][current[w]].upto - MaxRecords

\* messages[-1].offset + 1.
NextOffset(w) == batch[w][current[w]].upto

\* consumer.commit({tp: messages[-1].offset + 1}) after the partition's last
\* message of the batch.
Commit(w) ==
    /\ SliceHandled(w)
    /\ owner[current[w]] = w
    /\ committed' = [committed EXCEPT ![current[w]] = NextOffset(w)]
    /\ batch' = [batch EXCEPT ![w][current[w]] = NoSlice]
    /\ current' = [current EXCEPT ![w] = None]
    /\ UNCHANGED <<log, owner, position, busy, alive, faultVars, handled>>

\* The broker rejects the commit of a worker that lost the partition.  The
\* commit is outside the loop's try, so run() raises and the process ends.
CommitRejected(w) ==
    /\ SliceHandled(w)
    /\ owner[current[w]] # w
    /\ Gone(w)
    /\ UNCHANGED <<log, committed, position, faultVars, handled>>

\* The pod is killed at any point of the loop.
Crash(w) ==
    /\ alive[w]
    /\ crashes < MaxCrashes
    /\ crashes' = crashes + 1
    /\ Gone(w)
    /\ UNCHANGED <<log, committed, position, rebalances, handled>>

\* SIGTERM sets stop_event, which only the top of the loop looks at.
Shutdown(w) ==
    /\ Polling(w)
    /\ crashes < MaxCrashes
    /\ crashes' = crashes + 1
    /\ Gone(w)
    /\ UNCHANGED <<log, committed, position, rebalances, handled>>

Restart(w) ==
    /\ ~alive[w]
    /\ alive' = [alive EXCEPT ![w] = TRUE]
    /\ UNCHANGED <<topicVars, batch, current, busy, faultVars, handled>>

\* Faulty variant: with auto-commit what was fetched counts as committed.
AutoCommitted(p) == position[p]

\* Where a new owner of p reads on: enable_auto_commit=False, and without a
\* committed offset auto_offset_reset="earliest".
ResumeAt(p) == committed[p]

\* The group hands p to w.
GiveTo(p, w) ==
    /\ alive[w]
    /\ owner' = [owner EXCEPT ![p] = w]
    /\ position' = [position EXCEPT ![p] = ResumeAt(p)]
    /\ UNCHANGED <<log, committed, workerVars, crashes, handled>>

\* A partition nobody owns is assigned.
Assign(p, w) ==
    /\ owner[p] = None
    /\ GiveTo(p, w)
    /\ UNCHANGED rebalances

\* A partition is taken from a live worker, for instance one whose handler
\* runs longer than the poll interval; the worker learns of it at its commit.
Rebalance(p, w) ==
    /\ owner[p] # None
    /\ rebalances < MaxRebalances
    /\ rebalances' = rebalances + 1
    /\ GiveTo(p, w)

-----------------------------------------------------------------------------

QNext ==
    \/ \E j \in Jobs : SendAndWait(j)
    \/ \E w \in Workers :
        \/ Poll(w)
        \/ \E p \in Partitions : Begin(w, p)
        \/ End(w)
        \/ Commit(w)
        \/ CommitRejected(w)
        \/ Crash(w)
        \/ Shutdown(w)
        \/ Restart(w)
        \/ \E p \in Partitions : Assign(p, w) \/ Rebalance(p, w)

QSpec == QInit /\ [][QNext]_queueVars

\* A worker that is not killed keeps stepping, Kubernetes restarts one that
\* died, and the group coordinator assigns every orphan partition.  Nothing is
\* fair about submissions, crashes, shutdowns and rebalances.
QFairness ==
    /\ \A w \in Workers :
        /\ WF_queueVars(Poll(w))
        /\ WF_queueVars(\E p \in Partitions : Begin(w, p))
        /\ WF_queueVars(End(w))
        /\ WF_queueVars(Commit(w) \/ CommitRejected(w))
        /\ WF_queueVars(Restart(w))
    /\ \A p \in Partitions : WF_queueVars(\E w \in Workers : Assign(p, w))

QFairSpec == QSpec /\ QFairness

-----------------------------------------------------------------------------

\* At least once: an offset is committed only over messages whose handler has
\* returned, whatever crashes, rebalances and late commits came before
\* (enable_auto_commit=False and the commit after the inner loop of run()).
CommittedOnlyHandled ==
    \A p \in Partitions : \A i \in 1..committed[p] : <<p, i>> \in handled

\* A worker never enters a message before every earlier message of its
\* partition has been handled by somebody: jobs of a partition are not skipped
\* even by a worker that lost and regained it.
HandledInOrder ==
    \A w \in Workers : busy[w] =>
        \A i \in 1..(AtHand(w)[2] - 1) : <<current[w], i>> \in handled

\* When partitions only change hands because a worker died, the group catches up
\* and stays caught up once the crashes stop: no message is redelivered for ever.
\* (After a rebalance away from a live worker this is false: the late commit of
\* that worker, once it owns the partition again, moves the offset back.)
GroupCatchesUp ==
    [](rebalances = 0) =>
        <>[](\A p \in Partitions : committed[p] = Len(log[p]))

-----------------------------------------------------------------------------
\* The queue implements the at-least-once promise.

Message(p, i) == log[p][i]

Abs == INSTANCE AtLeastOnceQueue WITH
    submitted <- {j \in Jobs : Logged(j)},
    done      <- {j \in Jobs : \E p \in Partitions : \E i \in DOMAIN log[p] :
                                   log[p][i] = j /\ <<p, i>> \in handled},
    owed      <- {j \in Jobs : \E p \in Partitions : \E i \in DOMAIN log[p] :
                                   log[p][i] = j /\ i > committed[p]}

ImplementsAtLeastOnce == Abs!AbsSpec
=============================================================================
