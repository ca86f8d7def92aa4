--------------------------- MODULE JobQueue_proofs ---------------------------
(***************************************************************************)
(* Proofs about JobQueue for every number of jobs, workers, partitions,    *)
(* crashes and rebalances: type correctness, the at-least-once invariant,  *)
(* in-order handling, the step simulation of AtLeastOnceQueue and what     *)
(* that promise is good for, and what holds as long as no live worker      *)
(* loses a partition.                                                      *)
(***************************************************************************)
EXTENDS JobQueue, TLAPS

-----------------------------------------------------------------------------
\* The inductive invariant

\* Offsets stay inside the log.
OffsetsInLog ==
    /\ \A p \in Partitions : /\ committed[p] <= Len(log[p])
                             /\ position[p] <= Len(log[p])
    /\ \A w \in Workers, p \in Partitions :
        /\ batch[w][p].from <= batch[w][p].upto
        /\ batch[w][p].upto <= Len(log[p])

\* A busy worker is inside a slice with messages left.
BusyInSlice ==
    \A w \in Workers : busy[w] =>
        /\ current[w] \in Partitions
        /\ batch[w][current[w]].from < batch[w][current[w]].upto

\* Everything before the rest of a worker's slice has been handled.
SlicesFollowHandled ==
    \A w \in Workers, p \in Partitions :
        \A i \in 1..batch[w][p].from : <<p, i>> \in handled

\* What the owner has fetched it has handled or still holds in its batch.
FetchedIsHandledOrHeld ==
    \A w \in Workers, p \in Partitions : owner[p] = w =>
        \A i \in 1..position[p] :
            \/ <<p, i>> \in handled
            \/ batch[w][p].from < i /\ i <= batch[w][p].upto

QInv ==
    /\ QTypeOK
    /\ OffsetsInLog
    /\ BusyInSlice
    /\ SlicesFollowHandled
    /\ FetchedIsHandledOrHeld
    /\ CommittedOnlyHandled

-----------------------------------------------------------------------------
LEMMA InitQInv == QInit => QInv
BY PartitionsAssumption
   DEF QInit, QInv, QTypeOK, OffsetsInLog, BusyInSlice, SlicesFollowHandled,
       FetchedIsHandledOrHeld, CommittedOnlyHandled, Slice, NoSlice

\* A job is appended: every log only grows.
LEMMA SendStep ==
    ASSUME QInv, NEW j \in Jobs, SendAndWait(j)
    PROVE  QInv'
<1> USE PartitionsAssumption DEF QInv, topicVars, workerVars, faultVars
<1>1. PartitionOf[j] \in Partitions
  OBVIOUS
<1>2. /\ log' \in [Partitions -> Seq(Jobs)]
      /\ \A p \in Partitions : /\ Len(log[p]) \in Nat
                               /\ Len(log'[p]) \in Nat
                               /\ Len(log'[p]) >= Len(log[p])
  BY <1>1 DEF SendAndWait, QTypeOK
<1>3. QTypeOK'
  BY <1>2 DEF SendAndWait, QTypeOK
<1>4. OffsetsInLog'
  <2>1. \A p \in Partitions : committed[p] \in Nat /\ position[p] \in Nat
    BY DEF QTypeOK
  <2>2. \A w \in Workers, p \in Partitions : batch[w][p].upto \in Nat
    BY DEF QTypeOK, Slice
  <2>3. UNCHANGED <<committed, position, batch>>
    BY DEF SendAndWait
  <2>4. QED
    BY <1>2, <2>1, <2>2, <2>3 DEF OffsetsInLog
<1>5. BusyInSlice' /\ SlicesFollowHandled' /\ FetchedIsHandledOrHeld'
      /\ CommittedOnlyHandled'
  BY DEF SendAndWait, BusyInSlice, SlicesFollowHandled,
         FetchedIsHandledOrHeld, CommittedOnlyHandled
<1>6. QED
  BY <1>3, <1>4, <1>5

\* A poll takes over exactly what it moves the position past.
LEMMA PollStep ==
    ASSUME QInv, NEW w \in Workers, Poll(w)
    PROVE  QInv'
<1> USE DEF QInv, topicVars, workerVars, faultVars
<1>1. PICK n \in [Partitions -> 0..MaxRecords] :
        /\ \A p \in Partitions : n[p] <= Available(w, p)
        /\ position' = [p \in Partitions |-> position[p] + n[p]]
        /\ batch' = [batch EXCEPT ![w] = [p \in Partitions |->
                        IF n[p] = 0 THEN NoSlice
                        ELSE [from |-> position[p], upto |-> position[p] + n[p]]]]
  BY DEF Poll
<1>2. \A p \in Partitions : n[p] \in Nat
  BY <1>1, BoundsAssumption
<1>3. \A p \in Partitions : batch[w][p].from = batch[w][p].upto
  BY DEF Poll, Polling, Pending, OffsetsInLog, QTypeOK, Slice
<1>4. \A p \in Partitions : owner[p] # w => n[p] = 0
  BY <1>1, <1>2 DEF Available
<1>5. \A p \in Partitions :
        /\ position[p] \in Nat /\ Len(log[p]) \in Nat
        /\ owner[p] = w => position[p] + n[p] <= Len(log[p])
  <2>1. \A p \in Partitions : position[p] \in Nat /\ Len(log[p]) \in Nat
    BY DEF QTypeOK
  <2>2. \A p \in Partitions : owner[p] = w => n[p] <= Len(log[p]) - position[p]
    BY <1>1 DEF Available
  <2>3. QED
    BY <1>2, <2>1, <2>2
<1>6. QTypeOK'
  <2>1. position' \in [Partitions -> Nat]
    BY <1>1, <1>2, <1>5
  <2>2. [p \in Partitions |-> IF n[p] = 0 THEN NoSlice
           ELSE [from |-> position[p], upto |-> position[p] + n[p]]]
          \in [Partitions -> Slice]
    BY <1>2, <1>5 DEF Slice, NoSlice
  <2>3. batch' \in [Workers -> [Partitions -> Slice]]
    BY <1>1, <2>2 DEF QTypeOK
  <2>4. QED
    BY <2>1, <2>3 DEF Poll, QTypeOK
<1>7. \A v \in Workers, p \in Partitions :
        batch'[v][p] = IF v = w
                       THEN IF n[p] = 0 THEN NoSlice
                            ELSE [from |-> position[p], upto |-> position[p] + n[p]]
                       ELSE batch[v][p]
  BY <1>1 DEF QTypeOK
<1>8. \A p \in Partitions : position'[p] = position[p] + n[p]
  BY <1>1
<1>9. OffsetsInLog'
  <2>1. UNCHANGED <<log, committed>>
    BY DEF Poll
  <2>2. \A p \in Partitions : position'[p] <= Len(log[p])
    BY <1>2, <1>4, <1>5, <1>8 DEF OffsetsInLog
  <2>3. \A v \in Workers, p \in Partitions :
          /\ batch'[v][p].from <= batch'[v][p].upto
          /\ batch'[v][p].upto <= Len(log[p])
    <3> SUFFICES ASSUME NEW v \in Workers, NEW p \in Partitions
                 PROVE  /\ batch'[v][p].from <= batch'[v][p].upto
                        /\ batch'[v][p].upto <= Len(log[p])
      OBVIOUS
    <3>1. CASE v # w
      BY <1>7, <3>1 DEF OffsetsInLog
    <3>2. CASE v = w /\ n[p] = 0
      <4>1. batch'[v][p] = [from |-> 0, upto |-> 0]
        BY <1>7, <3>2 DEF NoSlice
      <4>2. QED
        BY <1>5, <4>1
    <3>3. CASE v = w /\ n[p] # 0
      <4>1. batch'[v][p] = [from |-> position[p], upto |-> position[p] + n[p]]
        BY <1>7, <3>3
      <4>2. owner[p] = w
        BY <1>4, <3>3
      <4>3. QED
        BY <1>2, <1>5, <4>1, <4>2
    <3>4. QED
      BY <3>1, <3>2, <3>3
  <2>4. QED
    BY <2>1, <2>2, <2>3 DEF OffsetsInLog
<1>10. BusyInSlice'
  <2>1. current[w] = None /\ ~busy[w]
    BY PartitionsAssumption DEF Poll, Polling, BusyInSlice, QTypeOK
  <2>2. QED
    BY <1>7, <2>1 DEF Poll, BusyInSlice
<1>11. \A p \in Partitions : owner[p] = w =>
          \A i \in 1..position[p] : <<p, i>> \in handled
  <2> SUFFICES ASSUME NEW p \in Partitions, owner[p] = w, NEW i \in 1..position[p]
               PROVE  <<p, i>> \in handled
    OBVIOUS
  <2>1. \/ <<p, i>> \in handled
        \/ batch[w][p].from < i /\ i <= batch[w][p].upto
    BY DEF FetchedIsHandledOrHeld
  <2>2. batch[w][p].from \in Nat /\ batch[w][p].from = batch[w][p].upto
    BY <1>3 DEF QTypeOK, Slice
  <2>3. i \in Int
    OBVIOUS
  <2>4. QED
    BY <2>1, <2>2, <2>3
<1>12. SlicesFollowHandled'
  <2> SUFFICES ASSUME NEW v \in Workers, NEW p \in Partitions,
                      NEW i \in 1..batch'[v][p].from
               PROVE  <<p, i>> \in handled
    BY DEF Poll, SlicesFollowHandled
  <2>1. CASE v # w
    BY <1>7, <2>1 DEF SlicesFollowHandled
  <2>2. CASE v = w /\ n[p] = 0
    <3>1. batch'[v][p] = [from |-> 0, upto |-> 0]
      BY <1>7, <2>2 DEF NoSlice
    <3>2. 1..batch'[v][p].from = {}
      BY <3>1
    <3>3. QED
      BY <3>2
  <2>3. CASE v = w /\ n[p] # 0
    <3>1. batch'[v][p] = [from |-> position[p], upto |-> position[p] + n[p]]
      BY <1>7, <2>3
    <3>2. owner[p] = w
      BY <1>4, <2>3
    <3>3. i \in 1..position[p]
      BY <3>1
    <3>4. QED
      BY <1>11, <3>2, <3>3
  <2>4. QED
    BY <2>1, <2>2, <2>3
<1>13. FetchedIsHandledOrHeld'
  <2> SUFFICES ASSUME NEW v \in Workers, NEW p \in Partitions, owner[p] = v,
                      NEW i \in 1..position'[p]
               PROVE  \/ <<p, i>> \in handled
                      \/ batch'[v][p].from < i /\ i <= batch'[v][p].upto
    BY DEF Poll, FetchedIsHandledOrHeld
  <2>1. i \in Int /\ position[p] \in Nat /\ n[p] \in Nat
        /\ position'[p] = position[p] + n[p]
    BY <1>2, <1>5, <1>8
  <2>2. CASE v # w
    <3>1. n[p] = 0 /\ batch'[v][p] = batch[v][p]
      BY <1>4, <1>7, <2>2
    <3>2. position'[p] = position[p]
      BY <2>1, <3>1
    <3>3. QED
      BY <3>1, <3>2 DEF FetchedIsHandledOrHeld
  <2>3. CASE v = w /\ i <= position[p]
    <3>1. i \in 1..position[p]
      BY <2>1, <2>3
    <3>2. QED
      BY <1>11, <2>3, <3>1
  <2>4. CASE v = w /\ i > position[p]
    <3>1. i <= position[p] + n[p] /\ n[p] # 0
      BY <2>1, <2>4
    <3>2. batch'[v][p] = [from |-> position[p], upto |-> position[p] + n[p]]
      BY <1>7, <2>4, <3>1
    <3>3. batch'[v][p].from = position[p] /\ batch'[v][p].upto = position[p] + n[p]
      BY <3>2
    <3>4. QED
      BY <2>4, <3>1, <3>3
  <2>5. QED
    BY <2>1, <2>2, <2>3, <2>4
<1>14. CommittedOnlyHandled'
  BY DEF Poll, CommittedOnlyHandled
<1>15. QED
  BY <1>6, <1>9, <1>10, <1>12, <1>13, <1>14

\* Entering a message changes nothing the invariant counts.
LEMMA BeginStep ==
    ASSUME QInv, NEW w \in Workers, NEW p \in Partitions, Begin(w, p)
    PROVE  QInv'
<1> USE DEF QInv, topicVars, workerVars, faultVars
<1>1. QTypeOK'
  BY DEF Begin, QTypeOK
<1>2. BusyInSlice'
  BY DEF Begin, BusyInSlice, Pending, QTypeOK
<1>3. QED
  BY <1>1, <1>2 DEF Begin, OffsetsInLog, SlicesFollowHandled,
                    FetchedIsHandledOrHeld, CommittedOnlyHandled

\* The message that leaves the slice is the one that becomes handled.
LEMMA EndStep ==
    ASSUME QInv, NEW w \in Workers, End(w)
    PROVE  QInv'
<1> USE DEF QInv, topicVars, workerVars, faultVars
<1> DEFINE c == current[w]
<1>1. c \in Partitions /\ batch[w][c].from < batch[w][c].upto
  BY DEF End, BusyInSlice
<1>2. \A v \in Workers, p \in Partitions :
        /\ batch'[v][p].upto = batch[v][p].upto
        /\ batch'[v][p].from = IF v = w /\ p = c THEN batch[v][p].from + 1
                                                 ELSE batch[v][p].from
  BY <1>1 DEF End, QTypeOK, Slice
<1>3. handled' = handled \cup {<<c, batch[w][c].from + 1>>}
  BY DEF End, AtHand
<1>4. QTypeOK'
  <2>1. batch[w][c] \in Slice
    BY <1>1 DEF QTypeOK
  <2>2. [batch[w][c] EXCEPT !.from = @ + 1] \in Slice
    BY <2>1 DEF Slice
  <2>3. batch' = [batch EXCEPT ![w] = [batch[w] EXCEPT ![c] =
                     [batch[w][c] EXCEPT !.from = @ + 1]]]
    BY DEF End
  <2>4. batch' \in [Workers -> [Partitions -> Slice]]
    BY <2>2, <2>3 DEF QTypeOK
  <2>5. handled' \subseteq Partitions \X Nat
    BY <1>1, <1>3, <2>1 DEF QTypeOK, Slice
  <2>6. QED
    BY <2>4, <2>5 DEF End, QTypeOK
<1>5. OffsetsInLog'
  <2>1. UNCHANGED <<log, committed, position>>
    BY DEF End
  <2>2. \A v \in Workers, p \in Partitions :
          batch[v][p].from \in Nat /\ batch[v][p].upto \in Nat
    BY DEF QTypeOK, Slice
  <2>3. \A v \in Workers, p \in Partitions : batch'[v][p].from <= batch'[v][p].upto
    BY <1>1, <1>2, <2>2 DEF OffsetsInLog
  <2>4. QED
    BY <1>2, <2>1, <2>3 DEF OffsetsInLog
<1>6. BusyInSlice'
  BY <1>2 DEF End, BusyInSlice, QTypeOK
<1>7. SlicesFollowHandled'
  <2> SUFFICES ASSUME NEW v \in Workers, NEW p \in Partitions,
                      NEW i \in 1..batch'[v][p].from
               PROVE  <<p, i>> \in handled'
    BY DEF SlicesFollowHandled
  <2>1. batch[v][p].from \in Nat /\ i \in Nat
    BY DEF QTypeOK, Slice
  <2>2. CASE i \in 1..batch[v][p].from
    BY <1>3, <2>2 DEF SlicesFollowHandled
  <2>3. CASE i \notin 1..batch[v][p].from
    <3>1. v = w /\ p = c /\ i = batch[w][c].from + 1
      BY <1>2, <2>1, <2>3
    <3>2. QED
      BY <1>3, <3>1
  <2>4. QED
    BY <2>2, <2>3
<1>8. FetchedIsHandledOrHeld'
  <2> SUFFICES ASSUME NEW v \in Workers, NEW p \in Partitions, owner[p] = v,
                      NEW i \in 1..position[p]
               PROVE  \/ <<p, i>> \in handled'
                      \/ batch'[v][p].from < i /\ i <= batch'[v][p].upto
    BY DEF End, FetchedIsHandledOrHeld
  <2>1. /\ batch[v][p].from \in Nat /\ i \in Nat
        /\ \/ <<p, i>> \in handled
           \/ batch[v][p].from < i /\ i <= batch[v][p].upto
    BY DEF FetchedIsHandledOrHeld, QTypeOK, Slice
  <2>2. CASE v = w /\ p = c /\ i = batch[v][p].from + 1
    BY <1>3, <2>2
  <2>3. CASE ~(v = w /\ p = c /\ i = batch[v][p].from + 1)
    BY <1>2, <1>3, <2>1, <2>3
  <2>4. QED
    BY <2>2, <2>3
<1>9. CommittedOnlyHandled'
  BY <1>3 DEF End, CommittedOnlyHandled
<1>10. QED
  BY <1>4, <1>5, <1>6, <1>7, <1>8, <1>9

\* Committing covers a slice that is handled to its end.
LEMMA CommitStep ==
    ASSUME QInv, NEW w \in Workers, Commit(w)
    PROVE  QInv'
<1> USE DEF QInv, topicVars, workerVars, faultVars
<1> DEFINE c == current[w]
<1>1. c \in Partitions /\ owner[c] = w
  BY DEF Commit, SliceHandled, QTypeOK
<1>2. \A p \in Partitions : batch[w][p] \in Slice
  BY DEF QTypeOK
<1>3. batch[w][c].from = batch[w][c].upto
  BY <1>1, <1>2 DEF Commit, SliceHandled, Pending, OffsetsInLog, Slice
<1>4. batch' = [batch EXCEPT ![w] = [batch[w] EXCEPT ![c] = NoSlice]]
  BY DEF Commit
<1>5. \A v \in Workers, p \in Partitions :
        batch'[v][p] = IF v = w /\ p = c THEN NoSlice ELSE batch[v][p]
  BY <1>4 DEF QTypeOK
<1>6. committed' = [committed EXCEPT ![c] = batch[w][c].upto]
  BY DEF Commit, NextOffset
<1>7. QTypeOK'
  <2>1. batch' \in [Workers -> [Partitions -> Slice]]
    BY <1>4 DEF QTypeOK, Slice, NoSlice
  <2>2. committed' \in [Partitions -> Nat]
    BY <1>1, <1>2, <1>6 DEF QTypeOK, Slice
  <2>3. QED
    BY <2>1, <2>2 DEF Commit, QTypeOK
<1>8. OffsetsInLog'
  <2>1. \A p \in Partitions : Len(log[p]) \in Nat
    BY DEF QTypeOK
  <2>2. \A p \in Partitions : committed'[p] <= Len(log[p])
    BY <1>1, <1>6 DEF OffsetsInLog, QTypeOK
  <2>3. \A v \in Workers, p \in Partitions :
          /\ batch'[v][p].from <= batch'[v][p].upto
          /\ batch'[v][p].upto <= Len(log[p])
    <3> SUFFICES ASSUME NEW v \in Workers, NEW p \in Partitions
                 PROVE  /\ batch'[v][p].from <= batch'[v][p].upto
                        /\ batch'[v][p].upto <= Len(log[p])
      OBVIOUS
    <3>1. CASE v = w /\ p = c
      <4>1. batch'[v][p] = [from |-> 0, upto |-> 0]
        BY <1>5, <3>1 DEF NoSlice
      <4>2. QED
        BY <2>1, <4>1
    <3>2. CASE ~(v = w /\ p = c)
      BY <1>5, <3>2 DEF OffsetsInLog
    <3>3. QED
      BY <3>1, <3>2
  <2>4. QED
    BY <2>2, <2>3 DEF Commit, OffsetsInLog
<1>9. BusyInSlice'
  BY <1>5 DEF Commit, SliceHandled, BusyInSlice, QTypeOK
<1>10. SlicesFollowHandled'
  <2> SUFFICES ASSUME NEW v \in Workers, NEW p \in Partitions,
                      NEW i \in 1..batch'[v][p].from
               PROVE  <<p, i>> \in handled
    BY DEF Commit, SlicesFollowHandled
  <2>1. ~(v = w /\ p = c)
    BY <1>5 DEF NoSlice
  <2>2. QED
    BY <1>5, <2>1 DEF SlicesFollowHandled
<1>11. FetchedIsHandledOrHeld'
  <2> SUFFICES ASSUME NEW v \in Workers, NEW p \in Partitions, owner[p] = v,
                      NEW i \in 1..position[p]
               PROVE  \/ <<p, i>> \in handled
                      \/ batch'[v][p].from < i /\ i <= batch'[v][p].upto
    BY DEF Commit, FetchedIsHandledOrHeld
  <2>1. CASE v = w /\ p = c
    BY <1>2, <1>3, <2>1 DEF FetchedIsHandledOrHeld, QTypeOK, Slice
  <2>2. CASE ~(v = w /\ p = c)
    BY <1>5, <2>2 DEF FetchedIsHandledOrHeld
  <2>3. QED
    BY <2>1, <2>2
<1>12. CommittedOnlyHandled'
  <2> SUFFICES ASSUME NEW p \in Partitions, NEW i \in 1..committed'[p]
               PROVE  <<p, i>> \in handled
    BY DEF Commit, CommittedOnlyHandled
  <2>1. CASE p = c
    BY <1>1, <1>3, <1>6, <2>1 DEF SlicesFollowHandled, QTypeOK
  <2>2. CASE p # c
    BY <1>6, <2>2 DEF CommittedOnlyHandled, QTypeOK
  <2>3. QED
    BY <2>1, <2>2
<1>13. QED
  BY <1>7, <1>8, <1>9, <1>10, <1>11, <1>12

\* A worker that ends owns nothing and holds nothing.
LEMMA GoneStep ==
    ASSUME QInv, NEW w \in Workers, Gone(w), crashes' \in Nat,
           UNCHANGED <<log, committed, position, rebalances, handled>>
    PROVE  QInv'
<1> USE DEF QInv
<1>1. QTypeOK'
  BY DEF Gone, QTypeOK, Slice, NoSlice
<1>2. \A v \in Workers, p \in Partitions :
        /\ batch'[v][p] = IF v = w THEN [from |-> 0, upto |-> 0] ELSE batch[v][p]
        /\ owner'[p] = IF owner[p] = w THEN None ELSE owner[p]
        /\ Len(log[p]) \in Nat
  BY DEF Gone, QTypeOK, NoSlice
<1>3. OffsetsInLog'
  <2>1. \A v \in Workers, p \in Partitions :
          /\ batch'[v][p].from <= batch'[v][p].upto
          /\ batch'[v][p].upto <= Len(log[p])
    BY <1>2 DEF OffsetsInLog
  <2>2. QED
    BY <2>1 DEF OffsetsInLog
<1>4. BusyInSlice'
  <2>1. \A v \in Workers : /\ busy'[v] = IF v = w THEN FALSE ELSE busy[v]
                           /\ current'[v] = IF v = w THEN None ELSE current[v]
    BY DEF Gone, QTypeOK
  <2> SUFFICES ASSUME NEW v \in Workers, busy'[v]
               PROVE  /\ current'[v] \in Partitions
                      /\ batch'[v][current'[v]].from < batch'[v][current'[v]].upto
    BY DEF BusyInSlice
  <2>2. v # w /\ busy[v] /\ current'[v] = current[v]
    BY <2>1
  <2>3. current[v] \in Partitions /\ batch[v][current[v]].from < batch[v][current[v]].upto
    BY <2>2 DEF BusyInSlice
  <2>4. batch'[v][current[v]] = batch[v][current[v]]
    BY <1>2, <2>2, <2>3
  <2>5. QED
    BY <2>2, <2>3, <2>4
<1>5. SlicesFollowHandled'
  <2> SUFFICES ASSUME NEW v \in Workers, NEW p \in Partitions,
                      NEW i \in 1..batch'[v][p].from
               PROVE  <<p, i>> \in handled
    BY DEF SlicesFollowHandled
  <2>1. CASE v # w
    BY <1>2, <2>1 DEF SlicesFollowHandled
  <2>2. CASE v = w
    <3>1. batch'[v][p] = [from |-> 0, upto |-> 0]
      BY <1>2, <2>2
    <3>2. 1..batch'[v][p].from = {}
      BY <3>1
    <3>3. QED
      BY <3>2
  <2>3. QED
    BY <2>1, <2>2
<1>6. FetchedIsHandledOrHeld'
  BY <1>2, PartitionsAssumption DEF FetchedIsHandledOrHeld
<1>7. CommittedOnlyHandled'
  BY DEF CommittedOnlyHandled
<1>8. QED
  BY <1>1, <1>3, <1>4, <1>5, <1>6, <1>7

\* A new owner reads on from the committed offset, which is handled.
LEMMA GiveStep ==
    ASSUME QInv, NEW w \in Workers, NEW p \in Partitions, GiveTo(p, w),
           rebalances' \in Nat
    PROVE  QInv'
<1> USE DEF QInv, workerVars
<1>1. QTypeOK'
  BY DEF GiveTo, ResumeAt, QTypeOK
<1>2. \A q \in Partitions :
        /\ owner'[q] = IF q = p THEN w ELSE owner[q]
        /\ position'[q] = IF q = p THEN committed[q] ELSE position[q]
  BY DEF GiveTo, ResumeAt, QTypeOK
<1>3. OffsetsInLog'
  BY <1>2 DEF GiveTo, OffsetsInLog
<1>4. FetchedIsHandledOrHeld'
  BY <1>2 DEF GiveTo, FetchedIsHandledOrHeld, CommittedOnlyHandled
<1>5. QED
  BY <1>1, <1>3, <1>4 DEF GiveTo, BusyInSlice, SlicesFollowHandled,
                          CommittedOnlyHandled

LEMMA RestartStep ==
    ASSUME QInv, NEW w \in Workers, Restart(w)
    PROVE  QInv'
BY DEF Restart, QInv, QTypeOK, OffsetsInLog, BusyInSlice, SlicesFollowHandled,
       FetchedIsHandledOrHeld, CommittedOnlyHandled, topicVars, faultVars

-----------------------------------------------------------------------------
LEMMA NextQInv == QInv /\ [QNext]_queueVars => QInv'
<1> SUFFICES ASSUME QInv, [QNext]_queueVars
             PROVE  QInv'
  OBVIOUS
<1>1. CASE \E j \in Jobs : SendAndWait(j)
  BY <1>1, SendStep
<1>2. ASSUME NEW w \in Workers, Poll(w) PROVE QInv'
  BY <1>2, PollStep
<1>3. ASSUME NEW w \in Workers, NEW p \in Partitions, Begin(w, p) PROVE QInv'
  BY <1>3, BeginStep
<1>4. ASSUME NEW w \in Workers, End(w) PROVE QInv'
  BY <1>4, EndStep
<1>5. ASSUME NEW w \in Workers, Commit(w) PROVE QInv'
  BY <1>5, CommitStep
<1>6. ASSUME NEW w \in Workers, CommitRejected(w) \/ Crash(w) \/ Shutdown(w)
      PROVE  QInv'
  <2>1. crashes' \in Nat
    BY <1>6 DEF CommitRejected, Crash, Shutdown, QInv, QTypeOK, faultVars
  <2>2. UNCHANGED <<log, committed, position, rebalances, handled>> /\ Gone(w)
    BY <1>6 DEF CommitRejected, Crash, Shutdown, faultVars
  <2>3. QED
    BY <2>1, <2>2, GoneStep
<1>7. ASSUME NEW w \in Workers, Restart(w) PROVE QInv'
  BY <1>7, RestartStep
<1>8. ASSUME NEW w \in Workers, NEW p \in Partitions,
             Assign(p, w) \/ Rebalance(p, w)
      PROVE  QInv'
  <2>1. GiveTo(p, w) /\ rebalances' \in Nat
    BY <1>8 DEF Assign, Rebalance, QInv, QTypeOK
  <2>2. QED
    BY <2>1, GiveStep
<1>9. CASE UNCHANGED queueVars
  BY <1>9 DEF QInv, QTypeOK, OffsetsInLog, BusyInSlice, SlicesFollowHandled,
              FetchedIsHandledOrHeld, CommittedOnlyHandled, queueVars,
              topicVars, workerVars, faultVars
<1>10. QED
  BY <1>1, <1>2, <1>3, <1>4, <1>5, <1>6, <1>7, <1>8, <1>9 DEF QNext

\* The inductive invariant holds in every reachable state.
THEOREM QueueInvariant == QSpec => []QInv
BY InitQInv, NextQInv, PTL DEF QSpec

\* Every variable of the queue keeps its type.
THEOREM QueueTypeCorrect == QSpec => []QTypeOK
<1>1. QInv => QTypeOK
  BY DEF QInv
<1>2. QED
  BY <1>1, QueueInvariant, PTL

\* At least once, for any number of workers, partitions, crashes and
\* rebalances: worker.run never commits an offset over an unhandled message.
THEOREM AtLeastOnce == QSpec => []CommittedOnlyHandled
<1>1. QInv => CommittedOnlyHandled
  BY DEF QInv
<1>2. QED
  BY <1>1, QueueInvariant, PTL

\* No worker enters a message of a partition before all earlier ones have been
\* handled by somebody.
THEOREM InOrder == QSpec => []HandledInOrder
<1>1. QInv => HandledInOrder
  <2> SUFFICES ASSUME QInv, NEW w \in Workers, busy[w],
                      NEW i \in 1..(AtHand(w)[2] - 1)
               PROVE  <<current[w], i>> \in handled
    BY DEF HandledInOrder
  <2>1. current[w] \in Partitions
    BY DEF QInv, BusyInSlice
  <2>2. batch[w][current[w]].from \in Nat
    BY <2>1 DEF QInv, QTypeOK, Slice
  <2>3. i \in 1..batch[w][current[w]].from
    BY <2>2 DEF AtHand
  <2>4. QED
    BY <2>1, <2>3 DEF QInv, SlicesFollowHandled
<1>2. QED
  BY <1>1, QueueInvariant, PTL

-----------------------------------------------------------------------------
\* The queue implements AtLeastOnceQueue

\* A message lies in the partition its key hashes to.
MessagesPlaced ==
    \A p \in Partitions : \A i \in DOMAIN log[p] : PartitionOf[log[p][i]] = p

\* Only messages of the log have been handled.
HandledAreLogged ==
    \A p \in Partitions, i \in Nat : <<p, i>> \in handled => i \in DOMAIN log[p]

RInv == QInv /\ MessagesPlaced /\ HandledAreLogged

\* The refinement mapping of Abs, by name.
Submitted == {j \in Jobs : Logged(j)}
Done == {j \in Jobs : \E p \in Partitions : \E i \in DOMAIN log[p] :
                          log[p][i] = j /\ <<p, i>> \in handled}
Owed == {j \in Jobs : \E p \in Partitions : \E i \in DOMAIN log[p] :
                          log[p][i] = j /\ i > committed[p]}

LEMMA InitRInv == QInit => RInv
<1> SUFFICES ASSUME QInit
             PROVE  RInv
  OBVIOUS
<1>1. QInv
  BY InitQInv
<1>2. MessagesPlaced
  BY DEF QInit, MessagesPlaced
<1>3. HandledAreLogged
  BY DEF QInit, HandledAreLogged
<1>4. QED
  BY <1>1, <1>2, <1>3 DEF RInv

\* What an append does to the log it goes to, and to no other.
LEMMA LogAfterSend ==
    ASSUME QTypeOK, NEW j \in Jobs, SendAndWait(j)
    PROVE  /\ PartitionOf[j] \in Partitions
           /\ \A p \in Partitions :
                /\ Len(log[p]) \in Nat
                /\ DOMAIN log[p] = 1..Len(log[p])
                /\ DOMAIN log'[p] = IF p = PartitionOf[j] THEN 1..(Len(log[p]) + 1)
                                                          ELSE 1..Len(log[p])
                /\ \A i \in 1..Len(log[p]) : log'[p][i] = log[p][i]
           /\ log'[PartitionOf[j]][Len(log[PartitionOf[j]]) + 1] = j
<1>1. PartitionOf[j] \in Partitions
  BY PartitionsAssumption
<1>2. log' = [log EXCEPT ![PartitionOf[j]] = Append(log[PartitionOf[j]], j)]
  BY DEF SendAndWait
<1>3. \A p \in Partitions : log[p] \in Seq(Jobs)
  BY DEF QTypeOK
<1>4. \A p \in Partitions :
        log'[p] = IF p = PartitionOf[j] THEN Append(log[p], j) ELSE log[p]
  BY <1>1, <1>2 DEF QTypeOK
<1>5. ASSUME NEW p \in Partitions
      PROVE  /\ Len(log[p]) \in Nat
             /\ DOMAIN log[p] = 1..Len(log[p])
             /\ DOMAIN log'[p] = IF p = PartitionOf[j] THEN 1..(Len(log[p]) + 1)
                                                       ELSE 1..Len(log[p])
             /\ \A i \in 1..Len(log[p]) : log'[p][i] = log[p][i]
  <2>1. log[p] \in Seq(Jobs)
    BY <1>3
  <2>2. CASE p = PartitionOf[j]
    <3>1. log'[p] = Append(log[p], j)
      BY <1>4, <2>2
    <3>2. QED
      BY <2>1, <2>2, <3>1
  <2>3. CASE p # PartitionOf[j]
    <3>1. log'[p] = log[p]
      BY <1>4, <2>3
    <3>2. QED
      BY <2>1, <2>3, <3>1
  <2>4. QED
    BY <2>2, <2>3
<1>6. log'[PartitionOf[j]][Len(log[PartitionOf[j]]) + 1] = j
  <2>1. log[PartitionOf[j]] \in Seq(Jobs)
    BY <1>1, <1>3
  <2>2. log'[PartitionOf[j]] = Append(log[PartitionOf[j]], j)
    BY <1>1, <1>4
  <2>3. QED
    BY <2>1, <2>2
<1>7. QED
  BY <1>1, <1>5, <1>6

\* The message a worker is handling is in the log of its partition.
LEMMA AtHandIsLogged ==
    ASSUME QInv, NEW w \in Workers, End(w)
    PROVE  /\ current[w] \in Partitions
           /\ batch[w][current[w]].from + 1 \in DOMAIN log[current[w]]
<1> DEFINE c == current[w]
<1>1. c \in Partitions /\ batch[w][c].from < batch[w][c].upto
  BY DEF End, QInv, BusyInSlice
<1>2. batch[w][c] \in Slice /\ log[c] \in Seq(Jobs)
  BY <1>1 DEF QInv, QTypeOK
<1>3. batch[w][c].upto <= Len(log[c])
  BY <1>1 DEF QInv, OffsetsInLog
<1>4. batch[w][c].from \in Nat /\ batch[w][c].upto \in Nat /\ Len(log[c]) \in Nat
      /\ DOMAIN log[c] = 1..Len(log[c])
  BY <1>2 DEF Slice
<1>5. batch[w][c].from + 1 \in 1..Len(log[c])
  BY <1>1, <1>3, <1>4
<1>6. QED
  BY <1>1, <1>4, <1>5

\* Steps other than submissions, ends of handlers and commits leave the three
\* variables of the mapping alone.
LEMMA OtherSteps ==
    ASSUME [QNext]_queueVars,
           ~ \E j \in Jobs : SendAndWait(j),
           ~ \E w \in Workers : End(w) \/ Commit(w)
    PROVE  UNCHANGED <<log, committed, handled>>
BY DEF QNext, Poll, Begin, CommitRejected, Crash, Shutdown, Restart, Assign,
       Rebalance, GiveTo, queueVars, topicVars, workerVars, faultVars

LEMMA NextRInv == RInv /\ [QNext]_queueVars => RInv'
<1> SUFFICES ASSUME RInv, [QNext]_queueVars
             PROVE  RInv'
  OBVIOUS
<1>1. QInv'
  BY NextQInv DEF RInv
<1>2. ASSUME NEW j \in Jobs, SendAndWait(j)
      PROVE  MessagesPlaced' /\ HandledAreLogged'
  <2>1. QTypeOK /\ handled' = handled
    BY <1>2 DEF RInv, QInv, SendAndWait
  <2>2. MessagesPlaced'
    <3> SUFFICES ASSUME NEW p \in Partitions, NEW i \in DOMAIN log'[p]
                 PROVE  PartitionOf[log'[p][i]] = p
      BY DEF MessagesPlaced
    <3>1. CASE i \in 1..Len(log[p])
      BY <1>2, <2>1, <3>1, LogAfterSend DEF RInv, MessagesPlaced
    <3>2. CASE i \notin 1..Len(log[p])
      <4>1. p = PartitionOf[j] /\ i = Len(log[p]) + 1
        BY <1>2, <2>1, <3>2, LogAfterSend
      <4>2. log'[p][i] = j
        BY <1>2, <2>1, <4>1, LogAfterSend
      <4>3. QED
        BY <4>1, <4>2
    <3>3. QED
      BY <3>1, <3>2
  <2>3. HandledAreLogged'
    BY <1>2, <2>1, LogAfterSend DEF RInv, HandledAreLogged
  <2>4. QED
    BY <2>2, <2>3
<1>3. ASSUME NEW w \in Workers, End(w)
      PROVE  MessagesPlaced' /\ HandledAreLogged'
  <2>1. log' = log /\ handled' = handled \cup {<<current[w], batch[w][current[w]].from + 1>>}
    BY <1>3 DEF End, AtHand, topicVars
  <2>2. batch[w][current[w]].from + 1 \in DOMAIN log[current[w]]
    BY <1>3, AtHandIsLogged DEF RInv
  <2>3. QED
    BY <2>1, <2>2 DEF RInv, MessagesPlaced, HandledAreLogged
<1>4. ASSUME UNCHANGED <<log, handled>>
      PROVE  MessagesPlaced' /\ HandledAreLogged'
  BY <1>4 DEF RInv, MessagesPlaced, HandledAreLogged
<1>5. MessagesPlaced' /\ HandledAreLogged'
  <2>1. CASE \E w \in Workers : Commit(w)
    BY <1>4, <2>1 DEF Commit
  <2>2. CASE ~ (\/ \E j \in Jobs : SendAndWait(j)
               \/ \E w \in Workers : End(w) \/ Commit(w))
    BY <1>4, <2>2, OtherSteps
  <2>3. QED
    BY <1>2, <1>3, <2>1, <2>2
<1>6. QED
  BY <1>1, <1>5 DEF RInv

\* A message at some position is logged under its own key.
LEMMA MessageIsSubmitted ==
    ASSUME RInv, NEW p \in Partitions, NEW i \in DOMAIN log[p]
    PROVE  log[p][i] \in Submitted
<1>1. log[p] \in Seq(Jobs)
  BY DEF RInv, QInv, QTypeOK
<1>2. log[p][i] \in Jobs
  BY <1>1
<1>3. PartitionOf[log[p][i]] = p
  BY DEF RInv, MessagesPlaced
<1>4. QED
  BY <1>2, <1>3 DEF Submitted, Logged

LEMMA SendSubmits ==
    ASSUME RInv, NEW j \in Jobs, SendAndWait(j)
    PROVE  /\ j \notin Submitted
           /\ Submitted' = Submitted \cup {j}
           /\ Owed' = Owed \cup {j}
           /\ Done' = Done
<1> DEFINE q == PartitionOf[j]
<1>1. QTypeOK /\ committed' = committed /\ handled' = handled
  BY DEF RInv, QInv, SendAndWait
<1>2. j \notin Submitted
  BY DEF SendAndWait, Submitted
<1>3. Submitted' = Submitted \cup {j}
  <2>1. ASSUME NEW k \in Jobs
        PROVE  Logged(k)' <=> Logged(k) \/ k = j
    <3>1. PartitionOf[k] \in Partitions
      BY PartitionsAssumption
    <3>2. CASE k = j
      <4>1. /\ Len(log[q]) + 1 \in DOMAIN log'[q]
            /\ log'[q][Len(log[q]) + 1] = j
        BY <1>1, LogAfterSend
      <4>2. QED
        BY <3>2, <4>1 DEF Logged
    <3>3. CASE k # j
      <4>1. ASSUME Logged(k)
            PROVE  Logged(k)'
        BY <1>1, <3>1, <4>1, LogAfterSend DEF Logged
      <4>2. ASSUME Logged(k)'
            PROVE  Logged(k)
        <5> DEFINE r == PartitionOf[k]
        <5>1. PICK i \in DOMAIN log'[r] : log'[r][i] = k
          BY <4>2 DEF Logged
        <5>2. i \in 1..Len(log[r])
          BY <1>1, <3>1, <3>3, <5>1, LogAfterSend
        <5>3. i \in DOMAIN log[r] /\ log[r][i] = k
          BY <1>1, <3>1, <5>1, <5>2, LogAfterSend
        <5>4. QED
          BY <5>3 DEF Logged
      <4>3. QED
        BY <3>3, <4>1, <4>2
    <3>4. QED
      BY <3>2, <3>3
  <2>2. QED
    BY <2>1 DEF Submitted
<1>4. Owed' = Owed \cup {j}
  <2>1. /\ q \in Partitions
        /\ Len(log[q]) + 1 \in DOMAIN log'[q]
        /\ log'[q][Len(log[q]) + 1] = j
        /\ Len(log[q]) + 1 > committed[q]
    <3>1. q \in Partitions /\ Len(log[q]) \in Nat
      BY <1>1, LogAfterSend
    <3>2. committed[q] \in Nat /\ committed[q] <= Len(log[q])
      BY <3>1 DEF RInv, QInv, OffsetsInLog, QTypeOK
    <3>3. /\ Len(log[q]) + 1 \in DOMAIN log'[q]
          /\ log'[q][Len(log[q]) + 1] = j
      BY <1>1, LogAfterSend
    <3>4. QED
      BY <3>1, <3>2, <3>3
  <2>2. j \in Owed'
    BY <1>1, <2>1 DEF Owed
  <2>3. ASSUME NEW k \in Owed
        PROVE  k \in Owed'
    <3>0. PICK p \in Partitions : \E i \in DOMAIN log[p] : log[p][i] = k /\ i > committed[p]
      BY DEF Owed
    <3>1. PICK i \in DOMAIN log[p] : log[p][i] = k /\ i > committed[p]
      BY <3>0
    <3>2. i \in DOMAIN log'[p] /\ log'[p][i] = k
      BY <1>1, <3>1, LogAfterSend
    <3>3. QED
      BY <1>1, <3>1, <3>2 DEF Owed
  <2>4. ASSUME NEW k \in Owed'
        PROVE  k \in Owed \cup {j}
    <3>0. PICK p \in Partitions : \E i \in DOMAIN log'[p] : log'[p][i] = k /\ i > committed[p]
      BY <1>1 DEF Owed
    <3>1. PICK i \in DOMAIN log'[p] : log'[p][i] = k /\ i > committed[p]
      BY <3>0
    <3>2. CASE i \in 1..Len(log[p])
      <4>1. i \in DOMAIN log[p] /\ log[p][i] = k
        BY <1>1, <3>1, <3>2, LogAfterSend
      <4>2. QED
        BY <3>1, <4>1 DEF Owed
    <3>3. CASE i \notin 1..Len(log[p])
      BY <1>1, <3>1, <3>3, LogAfterSend
    <3>4. QED
      BY <3>2, <3>3
  <2>5. QED
    BY <2>2, <2>3, <2>4
<1>5. Done' = Done
  <2>1. ASSUME NEW k \in Done
        PROVE  k \in Done'
    <3>0. PICK p \in Partitions : \E i \in DOMAIN log[p] : log[p][i] = k /\ <<p, i>> \in handled
      BY DEF Done
    <3>1. PICK i \in DOMAIN log[p] : log[p][i] = k /\ <<p, i>> \in handled
      BY <3>0
    <3>2. i \in DOMAIN log'[p] /\ log'[p][i] = k
      BY <1>1, <3>1, LogAfterSend
    <3>3. QED
      BY <1>1, <3>1, <3>2 DEF Done
  <2>2. ASSUME NEW k \in Done'
        PROVE  k \in Done
    <3>0. PICK p \in Partitions : \E i \in DOMAIN log'[p] : log'[p][i] = k /\ <<p, i>> \in handled
      BY <1>1 DEF Done
    <3>1. PICK i \in DOMAIN log'[p] : log'[p][i] = k /\ <<p, i>> \in handled
      BY <3>0
    <3>2. i \in Nat
      BY <1>1, LogAfterSend
    <3>3. i \in DOMAIN log[p]
      BY <3>1, <3>2 DEF RInv, HandledAreLogged
    <3>4. log[p][i] = k
      BY <1>1, <3>1, <3>3, LogAfterSend
    <3>5. QED
      BY <3>1, <3>3, <3>4 DEF Done
  <2>3. QED
    BY <2>1, <2>2
<1>6. QED
  BY <1>2, <1>3, <1>4, <1>5

LEMMA EndHandles ==
    ASSUME RInv, NEW w \in Workers, End(w)
    PROVE  \E k \in Jobs : /\ k \in Submitted
                           /\ Done' = Done \cup {k}
                           /\ Submitted' = Submitted
                           /\ Owed' = Owed
<1> DEFINE c == current[w]
           i == batch[w][c].from + 1
<1>1. log' = log /\ committed' = committed /\ handled' = handled \cup {<<c, i>>}
  BY DEF End, AtHand, topicVars
<1>2. c \in Partitions /\ i \in DOMAIN log[c]
  BY AtHandIsLogged DEF RInv
<1>3. log[c][i] \in Submitted
  BY <1>2, MessageIsSubmitted
<1>4. Submitted' = Submitted /\ Owed' = Owed
  BY <1>1 DEF Submitted, Owed, Logged
<1>5. Done' = Done \cup {log[c][i]}
  BY <1>1, <1>2, <1>3 DEF Done, Submitted
<1>6. QED
  BY <1>3, <1>4, <1>5 DEF Submitted

LEMMA CommitSettles ==
    ASSUME RInv, RInv', NEW w \in Workers, Commit(w)
    PROVE  /\ Owed' \subseteq Submitted
           /\ Owed \ Owed' \subseteq Done
           /\ Owed' \ Owed \subseteq Done
           /\ Submitted' = Submitted
           /\ Done' = Done
<1>1. log' = log /\ handled' = handled
  BY DEF Commit
<1>2. Submitted' = Submitted /\ Done' = Done
  BY <1>1 DEF Submitted, Done, Logged
<1>3. ASSUME NEW p \in Partitions, NEW i \in DOMAIN log[p],
             ~(i > committed[p]) \/ ~(i > committed'[p])
      PROVE  log[p][i] \in Done
  <2>1. /\ log[p] \in Seq(Jobs)
        /\ committed[p] \in Nat /\ committed'[p] \in Nat
    BY DEF RInv, QInv, QTypeOK
  <2>2. i \in 1..committed[p] \/ i \in 1..committed'[p]
    BY <1>3, <2>1
  <2>3. <<p, i>> \in handled
    <3>1. CASE i \in 1..committed[p]
      BY <3>1 DEF RInv, QInv, CommittedOnlyHandled
    <3>2. CASE i \in 1..committed'[p]
      <4>1. CommittedOnlyHandled'
        BY DEF RInv, QInv
      <4>2. <<p, i>> \in handled'
        BY <3>2, <4>1 DEF CommittedOnlyHandled
      <4>3. QED
        BY <1>1, <4>2
    <3>3. QED
      BY <2>2, <3>1, <3>2
  <2>4. log[p][i] \in Jobs
    BY <2>1
  <2>5. QED
    BY <2>3, <2>4 DEF Done
<1>4. Owed' \subseteq Submitted
  BY <1>1, MessageIsSubmitted DEF Owed
<1>5. Owed \ Owed' \subseteq Done
  BY <1>1, <1>3 DEF Owed
<1>6. Owed' \ Owed \subseteq Done
  BY <1>1, <1>3 DEF Owed
<1>7. QED
  BY <1>2, <1>4, <1>5, <1>6

\* The queue promises what AtLeastOnceQueue says (ImplementsAtLeastOnce without
\* its fairness): an append is a Submit, the end of a handler a Handle, a commit
\* a Settle, and every other step, redelivery included, changes nothing that a
\* user of the queue can tell.
THEOREM QueueRefines == QSpec => Abs!AbsSafety
<1>1. QInit => Abs!AbsInit
  <2> SUFFICES ASSUME QInit
               PROVE  Abs!AbsInit
    OBVIOUS
  <2>1. \A p \in Partitions : DOMAIN log[p] = {}
    BY DEF QInit
  <2>2. Submitted = {}
    <3>1. ASSUME NEW j \in Jobs
          PROVE  ~Logged(j)
      <4>1. PartitionOf[j] \in Partitions
        BY PartitionsAssumption
      <4>2. QED
        BY <2>1, <4>1 DEF Logged
    <3>2. QED
      BY <3>1 DEF Submitted
  <2>3. Done = {} /\ Owed = {}
    BY <2>1 DEF Done, Owed
  <2>4. QED
    BY <2>2, <2>3 DEF Abs!AbsInit, Submitted, Done, Owed
<1>2. RInv /\ RInv' /\ [QNext]_queueVars => [Abs!AbsNext]_Abs!absVars
  <2> SUFFICES ASSUME RInv, RInv', [QNext]_queueVars
               PROVE  [Abs!AbsNext]_Abs!absVars
    OBVIOUS
  <2>1. ASSUME NEW j \in Jobs, SendAndWait(j)
        PROVE  Abs!AbsNext
    <3>1. Abs!Submit(j)
      BY <2>1, SendSubmits DEF Abs!Submit, Submitted, Owed, Done
    <3>2. QED
      BY <3>1 DEF Abs!AbsNext
  <2>2. ASSUME NEW w \in Workers, End(w)
        PROVE  Abs!AbsNext
    <3>1. PICK k \in Jobs : /\ k \in Submitted
                            /\ Done' = Done \cup {k}
                            /\ Submitted' = Submitted
                            /\ Owed' = Owed
      BY <2>2, EndHandles
    <3>2. Abs!Handle(k)
      BY <3>1 DEF Abs!Handle, Submitted, Owed, Done
    <3>3. QED
      BY <3>2 DEF Abs!AbsNext
  <2>3. ASSUME NEW w \in Workers, Commit(w)
        PROVE  Abs!AbsNext
    <3>1. Abs!Settle
      BY <2>3, CommitSettles DEF Abs!Settle, Submitted, Owed, Done
    <3>2. QED
      BY <3>1 DEF Abs!AbsNext
  <2>4. CASE ~ (\/ \E j \in Jobs : SendAndWait(j)
               \/ \E w \in Workers : End(w) \/ Commit(w))
    <3>1. UNCHANGED <<log, committed, handled>>
      BY <2>4, OtherSteps
    <3>2. UNCHANGED Abs!absVars
      BY <3>1 DEF Abs!absVars, Logged
    <3>3. QED
      BY <3>2
  <2>5. QED
    BY <2>1, <2>2, <2>3, <2>4
<1>3. QSpec => []RInv
  BY InitRInv, NextRInv, PTL DEF QSpec
<1>4. QED
  BY <1>1, <1>2, <1>3, PTL DEF QSpec, Abs!AbsSafety

-----------------------------------------------------------------------------
\* What the promise is good for

\* Whoever relies on AtLeastOnceQueue alone may conclude that no job it accepted
\* is ever both forgotten and unhandled.
THEOREM PromiseForgetsNothing == Abs!AbsSafety => []Abs!NothingForgotten
<1>1. Abs!AbsInit => Abs!NothingForgotten
  BY DEF Abs!AbsInit, Abs!NothingForgotten
<1>2. Abs!NothingForgotten /\ [Abs!AbsNext]_Abs!absVars => Abs!NothingForgotten'
  <2> SUFFICES ASSUME Abs!NothingForgotten, [Abs!AbsNext]_Abs!absVars
               PROVE  Abs!NothingForgotten'
    OBVIOUS
  <2>1. ASSUME NEW j \in Jobs, Abs!Submit(j)
        PROVE  Submitted' = Submitted \cup {j} /\ Owed' = Owed \cup {j} /\ Done' = Done
    BY <2>1 DEF Abs!Submit, Submitted, Owed, Done
  <2>2. ASSUME NEW j \in Jobs, Abs!Handle(j)
        PROVE  Submitted' = Submitted /\ Owed' = Owed /\ Done' = Done \cup {j}
    BY <2>2 DEF Abs!Handle, Submitted, Owed, Done
  <2>3. ASSUME Abs!Settle
        PROVE  Submitted' = Submitted /\ Owed \ Owed' \subseteq Done /\ Done' = Done
    BY <2>3 DEF Abs!Settle, Submitted, Owed, Done
  <2>4. ASSUME UNCHANGED Abs!absVars
        PROVE  Submitted' = Submitted /\ Owed' = Owed /\ Done' = Done
    BY <2>4 DEF Abs!absVars, Submitted, Owed, Done
  <2>5. Submitted \subseteq Done \cup Owed
    BY DEF Abs!NothingForgotten, Submitted, Owed, Done
  <2>6. Submitted' \subseteq Done' \cup Owed'
    BY <2>1, <2>2, <2>3, <2>4, <2>5 DEF Abs!AbsNext
  <2>7. QED
    BY <2>6 DEF Abs!NothingForgotten, Submitted, Owed, Done
<1>3. QED
  BY <1>1, <1>2, PTL DEF Abs!AbsSafety

\* The queue keeps what it promises: through crashes, rebalances and late commits a
\* job whose append succeeded was handled, or lies past its committed offset.
COROLLARY NoJobForgotten == QSpec => []Abs!NothingForgotten
BY QueueRefines, PromiseForgetsNothing, PTL

-----------------------------------------------------------------------------
\* What a worker holds while no live worker loses a partition

\* A worker holds a slice of p: its owner, from its committed offset on.
HoldAt(w, p) ==
    /\ batch[w][p].upto # 0 => /\ owner[p] = w
                               /\ committed[p] <= batch[w][p].from
                               /\ batch[w][p].upto = position[p]
    /\ owner[p] = w /\ batch[w][p].upto = 0 => position[p] = committed[p]
    /\ batch[w][p].upto # 0 /\ batch[w][p].from = batch[w][p].upto => current[w] = p
    /\ current[w] = p => batch[w][p].upto # 0

HoldFacts == \A w \in Workers, p \in Partitions : HoldAt(w, p)

Hold == rebalances = 0 => HoldFacts

\* No job is in the topic twice: send_and_wait is called once per job id.
LoggedOnce ==
    \A p \in Partitions : \A i, k \in DOMAIN log[p] : log[p][i] = log[p][k] => i = k

\* The message of a busy worker is in the log.
LEMMA BusyAtHand ==
    ASSUME QInv, NEW w \in Workers, busy[w]
    PROVE  /\ current[w] \in Partitions
           /\ batch[w][current[w]].from + 1 \in DOMAIN log[current[w]]
           /\ log[current[w]][batch[w][current[w]].from + 1] \in Jobs
<1> DEFINE c == current[w]
<1>1. c \in Partitions /\ batch[w][c].from < batch[w][c].upto
  BY DEF QInv, BusyInSlice
<1>2. batch[w][c] \in Slice /\ log[c] \in Seq(Jobs)
  BY <1>1 DEF QInv, QTypeOK
<1>3. batch[w][c].upto <= Len(log[c])
  BY <1>1 DEF QInv, OffsetsInLog
<1>4. batch[w][c].from \in Nat /\ batch[w][c].upto \in Nat /\ Len(log[c]) \in Nat
      /\ DOMAIN log[c] = 1..Len(log[c])
  BY <1>2 DEF Slice
<1>5. batch[w][c].from + 1 \in 1..Len(log[c])
  BY <1>1, <1>3, <1>4
<1>6. QED
  BY <1>1, <1>2, <1>4, <1>5

LEMMA HoldTypes ==
    ASSUME QInv, NEW w \in Workers, NEW p \in Partitions
    PROVE  /\ batch[w][p].from \in Nat /\ batch[w][p].upto \in Nat
           /\ batch[w][p].from <= batch[w][p].upto
           /\ committed[p] \in Nat /\ position[p] \in Nat
BY DEF QInv, QTypeOK, Slice, OffsetsInLog

LEMMA PollHold ==
    ASSUME QInv, HoldFacts, NEW w \in Workers, Poll(w)
    PROVE  HoldFacts'
<1>1. PICK n \in [Partitions -> 0..MaxRecords] :
        /\ \A p \in Partitions : n[p] <= Available(w, p)
        /\ position' = [p \in Partitions |-> position[p] + n[p]]
        /\ batch' = [batch EXCEPT ![w] = [p \in Partitions |->
                        IF n[p] = 0 THEN NoSlice
                        ELSE [from |-> position[p], upto |-> position[p] + n[p]]]]
  BY DEF Poll
<1>2. \A p \in Partitions : n[p] \in Nat /\ (owner[p] # w => n[p] = 0)
  BY <1>1, BoundsAssumption DEF Available
<1>3. UNCHANGED <<owner, committed, current>> /\ current[w] = None
  BY DEF Poll, Polling
<1>4. \A p \in Partitions : batch[w][p].upto = 0
  <2>1. ASSUME NEW p \in Partitions
        PROVE  batch[w][p].upto = 0
    <3>1. batch[w][p].from = batch[w][p].upto
      <4>1. ~(batch[w][p].from < batch[w][p].upto)
        BY DEF Poll, Polling, Pending
      <4>2. QED
        BY <4>1, HoldTypes
    <3>2. current[w] # p
      BY <1>3, PartitionsAssumption
    <3>3. QED
      BY <3>1, <3>2 DEF HoldFacts, HoldAt
  <2>2. QED
    BY <2>1
<1>5. ASSUME NEW v \in Workers, NEW p \in Partitions
      PROVE  HoldAt(v, p)'
  <2>1. position'[p] = position[p] + n[p] /\ position[p] \in Nat /\ committed[p] \in Nat
        /\ n[p] \in Nat
    BY <1>1, <1>2 DEF QInv, QTypeOK
  <2>2. CASE v # w
    <3>1. batch'[v][p] = batch[v][p]
      BY <1>1, <2>2 DEF QInv, QTypeOK
    <3>2. owner[p] = v => position'[p] = position[p]
      BY <1>2, <2>1, <2>2
    <3>3. QED
      BY <1>3, <3>1, <3>2 DEF HoldFacts, HoldAt
  <2>3. CASE v = w /\ n[p] = 0
    <3>1. batch'[v][p] = [from |-> 0, upto |-> 0]
      BY <1>1, <2>3 DEF QInv, QTypeOK, NoSlice
    <3>2. batch'[v][p].upto = 0 /\ position'[p] = position[p]
      BY <2>1, <2>3, <3>1
    <3>3. current'[v] # p
      BY <1>3, <2>3, PartitionsAssumption
    <3>4. QED
      BY <1>3, <1>4, <2>3, <3>2, <3>3 DEF HoldFacts, HoldAt
  <2>4. CASE v = w /\ n[p] # 0
    <3>1. batch'[v][p] = [from |-> position[p], upto |-> position[p] + n[p]]
      BY <1>1, <2>4 DEF QInv, QTypeOK
    <3>2. batch'[v][p].from = position[p] /\ batch'[v][p].upto = position[p] + n[p]
      BY <3>1
    <3>3. owner[p] = w /\ position[p] = committed[p] /\ current'[v] # p
      BY <1>2, <1>3, <1>4, <2>4, PartitionsAssumption DEF HoldFacts, HoldAt
    <3>4. QED
      BY <1>3, <2>1, <2>4, <3>2, <3>3 DEF HoldAt
  <2>5. QED
    BY <2>2, <2>3, <2>4
<1>6. QED
  BY <1>5 DEF HoldFacts

LEMMA GoneHold ==
    ASSUME QInv, HoldFacts, NEW w \in Workers, Gone(w), UNCHANGED <<committed, position>>
    PROVE  HoldFacts'
<1>1. ASSUME NEW v \in Workers, NEW p \in Partitions
      PROVE  HoldAt(v, p)'
  <2>1. CASE v = w
    <3>1. batch'[v][p] = [from |-> 0, upto |-> 0]
      BY <2>1 DEF Gone, QInv, QTypeOK, NoSlice
    <3>2. batch'[v][p].upto = 0
      BY <3>1
    <3>3. owner'[p] # v /\ current'[v] # p
      BY <2>1, PartitionsAssumption DEF Gone, QInv, QTypeOK
    <3>4. QED
      BY <3>2, <3>3 DEF HoldAt
  <2>2. CASE v # w
    <3>1. batch'[v][p] = batch[v][p] /\ current'[v] = current[v]
      BY <2>2 DEF Gone, QInv, QTypeOK
    <3>2. owner'[p] = v <=> owner[p] = v
      BY <2>2, PartitionsAssumption DEF Gone, QInv, QTypeOK
    <3>3. QED
      BY <3>1, <3>2 DEF HoldFacts, HoldAt
  <2>3. QED
    BY <2>1, <2>2
<1>2. QED
  BY <1>1 DEF HoldFacts

LEMMA EndHold ==
    ASSUME QInv, HoldFacts, NEW w \in Workers, End(w)
    PROVE  HoldFacts'
<1> DEFINE c == current[w]
<1>1. c \in Partitions /\ batch[w][c].from < batch[w][c].upto
  BY DEF End, QInv, BusyInSlice
<1>2. \A v \in Workers, p \in Partitions :
        /\ batch'[v][p].upto = batch[v][p].upto
        /\ batch'[v][p].from = IF v = w /\ p = c THEN batch[v][p].from + 1
                                                 ELSE batch[v][p].from
  BY <1>1 DEF End, QInv, QTypeOK, Slice
<1>3. UNCHANGED <<owner, committed, position, current>>
  BY DEF End, topicVars
<1>4. ASSUME NEW v \in Workers, NEW p \in Partitions
      PROVE  HoldAt(v, p)'
  BY <1>1, <1>2, <1>3, HoldTypes DEF HoldFacts, HoldAt
<1>5. QED
  BY <1>4 DEF HoldFacts

LEMMA CommitHold ==
    ASSUME QInv, HoldFacts, NEW w \in Workers, Commit(w)
    PROVE  HoldFacts'
<1> DEFINE c == current[w]
<1>1. c \in Partitions /\ owner[c] = w
  BY DEF Commit, SliceHandled, QInv, QTypeOK
<1>2. \A v \in Workers, p \in Partitions :
        batch'[v][p] = IF v = w /\ p = c THEN [from |-> 0, upto |-> 0] ELSE batch[v][p]
  BY DEF Commit, QInv, QTypeOK, NoSlice
<1>3. committed' = [committed EXCEPT ![c] = batch[w][c].upto]
      /\ UNCHANGED <<owner, position>>
  BY DEF Commit, NextOffset
<1>4. batch[w][c].upto = position[c]
  BY <1>1 DEF HoldFacts, HoldAt
<1>5. \A v \in Workers : current'[v] = IF v = w THEN None ELSE current[v]
  BY DEF Commit, QInv, QTypeOK
<1>6. \A p \in Partitions : committed'[p] = IF p = c THEN position[p] ELSE committed[p]
  BY <1>1, <1>3, <1>4 DEF QInv, QTypeOK
<1>7. batch[w][c].from = batch[w][c].upto
  BY <1>1, HoldTypes DEF Commit, SliceHandled, Pending
<1>8. ASSUME NEW v \in Workers, NEW p \in Partitions
      PROVE  HoldAt(v, p)'
  <2>1. CASE v = w /\ p = c
    <3>1. batch'[v][p].upto = 0 /\ current'[v] # p
      BY <1>2, <1>5, <2>1, PartitionsAssumption
    <3>2. QED
      BY <1>3, <1>6, <2>1, <3>1 DEF HoldAt
  <2>2. CASE p = c /\ v # w
    BY <1>1, <1>2, <1>3, <1>5, <2>2 DEF HoldFacts, HoldAt
  <2>3. CASE p # c
    <3>1. batch'[v][p] = batch[v][p] /\ committed'[p] = committed[p]
      BY <1>2, <1>6, <2>3
    <3>2. current'[v] = p <=> current[v] = p
      BY <1>5, <2>3, PartitionsAssumption
    <3>3. QED
      BY <1>3, <3>1, <3>2 DEF HoldFacts, HoldAt
  <2>4. QED
    BY <2>1, <2>2, <2>3
<1>9. QED
  BY <1>8 DEF HoldFacts

LEMMA BeginHold ==
    ASSUME QInv, HoldFacts, NEW w \in Workers, NEW p \in Partitions, Begin(w, p)
    PROVE  HoldFacts'
<1>1. /\ UNCHANGED <<owner, committed, position, batch>>
      /\ \A v \in Workers : current'[v] = IF v = w THEN p ELSE current[v]
      /\ current[w] \in {None, p}
      /\ batch[w][p].from < batch[w][p].upto
  BY DEF Begin, Pending, topicVars, QInv, QTypeOK
<1>2. ASSUME NEW v \in Workers, NEW q \in Partitions
      PROVE  HoldAt(v, q)'
  <2>1. batch[w][p].upto # 0
    BY <1>1, HoldTypes
  <2>2. QED
    BY <1>1, <2>1, PartitionsAssumption DEF HoldFacts, HoldAt
<1>3. QED
  BY <1>2 DEF HoldFacts

LEMMA AssignHold ==
    ASSUME QInv, HoldFacts, NEW w \in Workers, NEW p \in Partitions, Assign(p, w)
    PROVE  HoldFacts'
<1>1. /\ owner[p] = None
      /\ UNCHANGED <<committed, batch, current>>
      /\ \A q \in Partitions : /\ owner'[q] = IF q = p THEN w ELSE owner[q]
                               /\ position'[q] = IF q = p THEN committed[p] ELSE position[q]
  BY DEF Assign, GiveTo, ResumeAt, workerVars, QInv, QTypeOK
<1>2. ASSUME NEW v \in Workers, NEW q \in Partitions
      PROVE  HoldAt(v, q)'
  BY <1>1, PartitionsAssumption DEF HoldFacts, HoldAt
<1>3. QED
  BY <1>2 DEF HoldFacts

LEMMA FrameHold ==
    ASSUME HoldFacts, UNCHANGED <<owner, committed, position, batch, current>>
    PROVE  HoldFacts'
BY DEF HoldFacts, HoldAt

LEMMA NextHold == QInv /\ Hold /\ [QNext]_queueVars => Hold'
<1> SUFFICES ASSUME QInv, Hold, [QNext]_queueVars, rebalances' = 0
             PROVE  HoldFacts'
  BY DEF Hold
<1>1. rebalances = 0 /\ ~(\E w \in Workers, p \in Partitions : Rebalance(p, w))
  <2>1. rebalances \in Nat
    BY DEF QInv, QTypeOK
  <2>2. ASSUME NEW w \in Workers, NEW p \in Partitions, Rebalance(p, w)
        PROVE  FALSE
    BY <2>1, <2>2 DEF Rebalance
  <2>3. rebalances' = rebalances
    BY <2>2 DEF QNext, SendAndWait, Poll, Begin, End, Commit, CommitRejected, Crash,
       Shutdown, Restart, Assign, queueVars, faultVars
  <2>4. QED
    BY <2>2, <2>3
<1>2. HoldFacts
  BY <1>1 DEF Hold
<1>3. ASSUME NEW w \in Workers, CommitRejected(w) \/ Crash(w) \/ Shutdown(w)
      PROVE  HoldFacts'
  BY <1>2, <1>3, GoneHold DEF CommitRejected, Crash, Shutdown
<1>4. ASSUME NEW w \in Workers, Restart(w)
      PROVE  HoldFacts'
  BY <1>2, <1>4, FrameHold DEF Restart, topicVars
<1>5. ASSUME NEW j \in Jobs, SendAndWait(j)
      PROVE  HoldFacts'
  BY <1>2, <1>5, FrameHold DEF SendAndWait, workerVars
<1>6. CASE UNCHANGED queueVars
  BY <1>2, <1>6, FrameHold DEF queueVars, topicVars, workerVars
<1>7. QED
  BY <1>1, <1>2, <1>3, <1>4, <1>5, <1>6, PollHold, BeginHold, EndHold, CommitHold,
     AssignHold DEF QNext

LEMMA NextLoggedOnce == QInv /\ LoggedOnce /\ [QNext]_queueVars => LoggedOnce'
<1> SUFFICES ASSUME QInv, LoggedOnce, [QNext]_queueVars
             PROVE  LoggedOnce'
  OBVIOUS
<1>1. ASSUME NEW j \in Jobs, SendAndWait(j)
      PROVE  LoggedOnce'
  <2> SUFFICES ASSUME NEW p \in Partitions,
                      NEW i \in DOMAIN log'[p], NEW k \in DOMAIN log'[p],
                      log'[p][i] = log'[p][k]
               PROVE  i = k
    BY DEF LoggedOnce
  <2>1. QTypeOK
    BY DEF QInv
  <2>2. ASSUME NEW a \in DOMAIN log'[p], a \in 1..Len(log[p])
        PROVE  log'[p][a] = log[p][a] /\ (p = PartitionOf[j] => log[p][a] # j)
    <3>1. log'[p][a] = log[p][a] /\ DOMAIN log[p] = 1..Len(log[p])
      BY <1>1, <2>1, <2>2, LogAfterSend
    <3>2. QED
      BY <1>1, <2>2, <3>1 DEF SendAndWait, Logged
  <2>3. ASSUME NEW a \in DOMAIN log'[p], a \notin 1..Len(log[p])
        PROVE  p = PartitionOf[j] /\ a = Len(log[p]) + 1 /\ log'[p][a] = j
    <3>1. p = PartitionOf[j] /\ a = Len(log[p]) + 1
      BY <1>1, <2>1, <2>3, LogAfterSend
    <3>2. QED
      BY <1>1, <2>1, <3>1, LogAfterSend
  <2>4. DOMAIN log[p] = 1..Len(log[p])
    BY <1>1, <2>1, LogAfterSend
  <2>5. QED
    BY <2>2, <2>3, <2>4 DEF LoggedOnce
<1>2. CASE log' = log
  BY <1>2 DEF LoggedOnce
<1>3. QED
  BY <1>1, <1>2 DEF QNext, Poll, Begin, End, Commit, CommitRejected, Crash, Shutdown,
     Restart, Assign, Rebalance, GiveTo, queueVars, topicVars

LEMMA HoldInvariant == QSpec => [](Hold /\ LoggedOnce)
<1>1. QInit => Hold /\ LoggedOnce
  <2> SUFFICES ASSUME QInit
               PROVE  Hold /\ LoggedOnce
    OBVIOUS
  <2>1. LoggedOnce
    BY DEF QInit, LoggedOnce
  <2>2. ASSUME NEW w \in Workers, NEW p \in Partitions
        PROVE  HoldAt(w, p)
    BY PartitionsAssumption DEF QInit, HoldAt, NoSlice
  <2>3. QED
    BY <2>1, <2>2 DEF Hold, HoldFacts
<1>2. RInv /\ Hold /\ LoggedOnce /\ [QNext]_queueVars => (Hold /\ LoggedOnce)'
  BY NextHold, NextLoggedOnce DEF RInv
<1>3. QSpec => []RInv
  BY InitRInv, NextRInv, PTL DEF QSpec
<1>4. QED
  BY <1>1, <1>2, <1>3, PTL DEF QSpec

\* While partitions change hands only because a worker died, whoever works on a
\* partition owns it, and hands its handler no message that is committed already.
Exclusive ==
    rebalances = 0 =>
        \A w \in Workers :
            /\ current[w] # None => owner[current[w]] = w
            /\ busy[w] => AtHand(w)[2] > committed[current[w]]

\* Then a partition has one worker at a time, no commit is rejected, so that run()
\* never raises, and what is redelivered is only what its worker did not commit.
THEOREM NothingCommittedIsRerun == QSpec => []Exclusive
<1>1. RInv /\ (Hold /\ LoggedOnce) => Exclusive
  <2> SUFFICES ASSUME RInv, Hold, rebalances = 0, NEW w \in Workers
               PROVE  /\ current[w] # None => owner[current[w]] = w
                      /\ busy[w] => AtHand(w)[2] > committed[current[w]]
    BY DEF Exclusive
  <2>1. QInv /\ HoldFacts
    BY DEF RInv, Hold
  <2>2. ASSUME current[w] # None
        PROVE  /\ owner[current[w]] = w
               /\ committed[current[w]] <= batch[w][current[w]].from
    <3>1. current[w] \in Partitions
      BY <2>1, <2>2 DEF QInv, QTypeOK
    <3>2. QED
      BY <2>1, <3>1 DEF HoldFacts, HoldAt
  <2>3. ASSUME busy[w]
        PROVE  AtHand(w)[2] > committed[current[w]]
    <3>1. current[w] \in Partitions
      BY <2>1, <2>3, BusyAtHand
    <3>2. current[w] # None
      BY <3>1, PartitionsAssumption
    <3>3. AtHand(w)[2] = batch[w][current[w]].from + 1
      BY DEF AtHand
    <3>4. QED
      BY <2>1, <2>2, <3>1, <3>2, <3>3, HoldTypes
  <2>4. QED
    BY <2>2, <2>3
<1>2. QSpec => []RInv
  BY InitRInv, NextRInv, PTL DEF QSpec
<1>3. QED
  BY <1>1, <1>2, HoldInvariant, PTL

\* Committed offsets only move forward as long as no live worker loses a partition:
\* what GroupCatchesUp rests on.  After such a loss a late commit may move one back.
NeverMovesBack ==
    rebalances' = 0 => \A p \in Partitions : committed'[p] >= committed[p]

THEOREM OffsetsNeverMoveBack == QSpec => [][NeverMovesBack]_queueVars
<1>1. RInv /\ (Hold /\ LoggedOnce) /\ [QNext]_queueVars => NeverMovesBack
  <2> SUFFICES ASSUME RInv, Hold, [QNext]_queueVars, rebalances' = 0,
                      NEW p \in Partitions
               PROVE  committed'[p] >= committed[p]
    BY DEF NeverMovesBack
  <2>1. QInv /\ committed[p] \in Nat
    BY DEF RInv, QInv, QTypeOK
  <2>2. CASE committed' = committed
    BY <2>1, <2>2
  <2>3. ASSUME NEW w \in Workers, Commit(w)
        PROVE  committed'[p] >= committed[p]
    <3>1. rebalances = 0
      BY <2>3 DEF Commit, faultVars
    <3>2. current[w] \in Partitions
      BY <2>1, <2>3 DEF Commit, SliceHandled, QInv, QTypeOK
    <3>3. committed[current[w]] <= batch[w][current[w]].from
      BY <3>1, <3>2 DEF Hold, HoldFacts, HoldAt
    <3>4. committed[current[w]] <= batch[w][current[w]].upto
      BY <2>1, <3>2, <3>3, HoldTypes
    <3>5. committed' = [committed EXCEPT ![current[w]] = batch[w][current[w]].upto]
      BY <2>3 DEF Commit, NextOffset
    <3>6. QED
      BY <2>1, <3>2, <3>4, <3>5 DEF QInv, QTypeOK
  <2>4. QED
    BY <2>2, <2>3 DEF QNext, SendAndWait, Poll, Begin, End, CommitRejected, Crash,
       Shutdown, Restart, Assign, Rebalance, GiveTo, queueVars, topicVars
<1>2. QSpec => []RInv
  BY InitRInv, NextRInv, PTL DEF QSpec
<1>3. QED
  BY <1>1, <1>2, HoldInvariant, PTL DEF QSpec
=============================================================================
