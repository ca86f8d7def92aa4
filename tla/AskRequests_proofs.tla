------------------------- MODULE AskRequests_proofs -------------------------
(***************************************************************************)
(* Proofs about AskRequests for any number of pods, requests and faults,   *)
(* every limit and window, and histories of any length: type correctness,  *)
(* the bound on what the rate limit lets through, and what a session       *)
(* remembers.                                                              *)
(***************************************************************************)
EXTENDS AskRequests, FiniteSetTheorems, SequenceTheorems, TLAPS

-----------------------------------------------------------------------------
\* The history a session keeps

\* What Histories stands for.
LEMMA HistoryType ==
    \A h : h \in Histories <=> h \in Seq(Questions) /\ Len(h) <= Turns
<1> USE RequestAssumption DEF Histories
<1>1. ASSUME NEW h \in Histories
      PROVE  h \in Seq(Questions) /\ Len(h) <= Turns
  <2>1. PICK n \in 0 .. Turns : h \in [1 .. n -> Questions]
    OBVIOUS
  <2>2. n \in Nat
    OBVIOUS
  <2>3. h \in Seq(Questions) /\ Len(h) = n
    BY <2>1, <2>2, LenProperties, IsASeq
  <2> QED
    BY <2>2, <2>3
<1>2. ASSUME NEW h \in Seq(Questions), Len(h) <= Turns
      PROVE  h \in Histories
  <2>1. Len(h) \in 0 .. Turns /\ h \in [1 .. Len(h) -> Questions]
    BY <1>2, LenProperties
  <2> QED
    BY <2>1
<1> QED
  BY <1>1, <1>2

\* build_next_state ends the history with the new turn, preceded by what the
\* history ended with, and keeps it within the limit.
LEMMA NextHistoryEnd ==
    ASSUME NEW h \in Histories, NEW x \in Questions
    PROVE  LET H == NextHistory(h, x)
           IN /\ H \in Histories
              /\ Len(H) = IF Len(h) < Turns THEN Len(h) + 1 ELSE Turns
              /\ H[Len(H)] = x
              /\ \A i \in 1 .. Len(H) - 1 : H[Len(H) - i] = h[Len(h) + 1 - i]
<1> DEFINE all == Append(h, x)
           H == NextHistory(h, x)
           n == Len(h)
<1> USE RequestAssumption
<1>1. h \in Seq(Questions) /\ n \in Nat /\ n <= Turns /\ Turns \in Nat \ {0}
  BY HistoryType
<1>2. /\ all \in Seq(Questions) /\ Len(all) = n + 1
      /\ all[n + 1] = x
      /\ \A i \in 1 .. n : all[i] = h[i]
  BY <1>1, AppendProperties
<1>3. CASE n < Turns
  <2>1. H = all
    BY <1>1, <1>2, <1>3 DEF NextHistory
  <2>2. all \in Histories
    <3>1. Len(all) <= Turns
      BY <1>1, <1>2, <1>3
    <3> HIDE DEF all
    <3> QED
      BY <1>2, <3>1, HistoryType
  <2>3. \A i \in 1 .. n : all[(n + 1) - i] = h[n + 1 - i]
    BY <1>1, <1>2
  <2> QED
    BY <1>1, <1>2, <1>3, <2>1, <2>2, <2>3
<1>4. CASE ~(n < Turns)
  <2>1. n = Turns /\ H = SubSeq(all, 2, n + 1)
    BY <1>1, <1>2, <1>4 DEF NextHistory
  <2>2. /\ H \in Seq(Questions) /\ Len(H) = n
        /\ \A i \in 1 .. n : H[i] = all[i + 1]
    <3>1. /\ SubSeq(all, 2, n + 1) \in Seq(Questions)
          /\ Len(SubSeq(all, 2, n + 1)) = n
          /\ \A i \in 1 .. n : SubSeq(all, 2, n + 1)[i] = all[2 + i - 1]
      <4>1. \A i \in 2 .. n + 1 : all[i] \in Questions
        BY <1>1, <1>2, ElementOfSeq
      <4> HIDE DEF all
      <4> QED
        BY <4>1, <1>1, <1>2, SubSeqProperties
    <3> HIDE DEF all, H
    <3>2. \A i \in 1 .. n : 2 + i - 1 = i + 1
      BY <1>1
    <3> QED
      BY <2>1, <3>1, <3>2
  <2>3. H \in Histories
    BY <2>1, <2>2, HistoryType
  <2>4. H[n] = x
    BY <1>1, <1>2, <2>1, <2>2
  <2>5. \A i \in 1 .. n - 1 : H[n - i] = h[n + 1 - i]
    <3> HIDE DEF all, H
    <3> SUFFICES ASSUME NEW i \in 1 .. n - 1
                 PROVE  H[n - i] = h[n + 1 - i]
      OBVIOUS
    <3>1. n - i \in 1 .. n /\ (n - i) + 1 = n + 1 - i /\ n + 1 - i \in 1 .. n
      BY <1>1
    <3> QED
      BY <1>2, <2>2, <3>1
  <2> QED
    BY <1>1, <1>4, <2>1, <2>2, <2>3, <2>4, <2>5
<1> QED
  BY <1>3, <1>4

LEMMA EmptyHistory == <<>> \in Histories /\ <<>> \in Seq(Questions)
<1>1. 0 \in 0 .. Turns
  BY RequestAssumption
<1>2. <<>> \in [1 .. 0 -> Questions]
  OBVIOUS
<1> QED
  BY <1>1, <1>2 DEF Histories

\* History h ends with the latest turns of conversation c, as many as fit.
Overlap(c) == IF Len(c) < Turns THEN Len(c) ELSE Turns
Remembers(h, c) ==
    /\ Overlap(c) <= Len(h)
    /\ \A i \in 0 .. Overlap(c) - 1 : h[Len(h) - i] = c[Len(c) - i]

LEMMA NothingToRemember == \A h \in Histories : Remembers(h, <<>>)
BY RequestAssumption, HistoryType, EmptySeq DEF Remembers, Overlap

\* A saved turn continues what the history remembered.
LEMMA NextRemembers ==
    ASSUME NEW h \in Histories, NEW c \in Seq(Questions), NEW x \in Questions,
           Remembers(h, c)
    PROVE  Remembers(NextHistory(h, x), Append(c, x))
<1> DEFINE H == NextHistory(h, x)
           C == Append(c, x)
<1> USE RequestAssumption
<1>1. h \in Seq(Questions) /\ Len(h) \in Nat /\ Len(h) <= Turns
      /\ Turns \in Nat \ {0} /\ Len(c) \in Nat
  BY HistoryType
<1>2. /\ Len(C) = Len(c) + 1 /\ C[Len(c) + 1] = x
      /\ \A i \in 1 .. Len(c) : C[i] = c[i]
  BY AppendProperties
<1>3. /\ Len(H) = IF Len(h) < Turns THEN Len(h) + 1 ELSE Turns
      /\ H[Len(H)] = x
      /\ \A i \in 1 .. Len(H) - 1 : H[Len(H) - i] = h[Len(h) + 1 - i]
  BY NextHistoryEnd
<1> HIDE DEF H, C
<1>4. /\ Overlap(c) \in Nat /\ Overlap(c) <= Len(h) /\ Overlap(c) <= Len(c)
      /\ Overlap(C) \in Nat /\ Overlap(C) <= Overlap(c) + 1
      /\ Overlap(C) <= Turns
  BY <1>1, <1>2 DEF Overlap, Remembers
<1>5. Overlap(C) <= Len(H)
  BY <1>1, <1>3, <1>4
<1>6. ASSUME NEW i \in 0 .. Overlap(C) - 1
      PROVE  H[Len(H) - i] = C[Len(C) - i]
  <2>1. CASE i = 0
    BY <2>1, <1>1, <1>2, <1>3
  <2>2. CASE i # 0
    <3>1. i \in 1 .. Len(H) - 1 /\ i - 1 \in 0 .. Overlap(c) - 1
      BY <2>2, <1>1, <1>3, <1>4, <1>5
    <3>2. H[Len(H) - i] = h[Len(h) - (i - 1)]
      <4>1. Len(h) + 1 - i = Len(h) - (i - 1)
        BY <1>1
      <4> QED
        BY <1>3, <3>1, <4>1
    <3>3. h[Len(h) - (i - 1)] = c[Len(c) - (i - 1)]
      BY <3>1 DEF Remembers
    <3>4. Len(C) - i = Len(c) - (i - 1) /\ Len(C) - i \in 1 .. Len(c)
      <4>1. Len(C) = Len(c) + 1 /\ Len(c) \in Nat
        BY <1>1, <1>2
      <4>2. i \in Nat /\ 1 <= i /\ i <= Len(c)
        <5> DEFINE o == Overlap(C)
                   u == Overlap(c)
        <5>1. o \in Nat /\ u \in Nat /\ o <= u + 1 /\ u <= Len(c) /\ i \in 0 .. o - 1
          BY <1>4
        <5>2. i # 0
          BY <2>2
        <5> HIDE DEF o, u
        <5> QED
          BY <5>1, <5>2, <4>1
      <4> QED
        BY <4>1, <4>2
    <3> QED
      BY <1>2, <3>2, <3>3, <3>4
  <2> QED
    BY <2>1, <2>2
<1> QED
  BY <1>5, <1>6 DEF Remembers, H, C

\* A turn with nothing before it is remembered by itself.
LEMMA FirstRemembers ==
    ASSUME NEW h \in Histories, NEW x \in Questions
    PROVE  Remembers(NextHistory(h, x), <<x>>)
<1>1. Remembers(NextHistory(h, x), Append(<<>>, x))
  <2>1. <<>> \in Seq(Questions)
    OBVIOUS
  <2> QED
    BY <2>1, NothingToRemember, NextRemembers
<1>2. Append(<<>>, x) = <<x>>
  OBVIOUS
<1> QED
  BY <1>1, <1>2

-----------------------------------------------------------------------------
\* The inductive invariants

\* As long as nothing failed every decision is Redis'.
NothingFailedYet ==
    faults = 0 =>
        /\ up
        /\ \A s \in Services, p \in Pods : conn[s][p].retry = 0
        /\ \A a \in admitted : a.by = Redis

\* What a place let through within the window it still counts, so that there is
\* no more of it than the limit allows.
AdmittedCounted ==
    \A a \in Recent(admitted) : [id |-> a.id, at |-> a.at] \in window[a.by]

\* A request is let through once.
AdmittedOnce ==
    /\ \A a \in admitted : a.id <= asked
    /\ \A a, b \in admitted : a.id = b.id => a = b

Counts == IsFiniteSet(admitted) /\ \A l \in Places : IsFiniteSet(window[l])

AdmittedBy(l) == {a \in Recent(admitted) : a.by = l}
PlaceBound == \A l \in Places : Cardinality(AdmittedBy(l)) <= Limit

LimitInv == NothingFailedYet /\ AdmittedCounted /\ AdmittedOnce /\ Counts /\ PlaceBound

\* The session of a place goes with its conversation, and so does the history a
\* request took from there.
SessionInv ==
    /\ \A l \in Places : Remembers(session[l], chain[l])
    /\ \A t \in Threads : req[t] # None => Remembers(req[t].previous, req[t].base)

-----------------------------------------------------------------------------
\* Type correctness

TypeInv == TypeOK /\ DOMAIN req = Threads

LEMMA InitTypeInv == Init => TypeInv
<1> SUFFICES ASSUME Init
             PROVE  TypeInv
  OBVIOUS
<1> USE RequestAssumption DEF Init
<1>1. <<>> \in Histories /\ <<>> \in Seq(Questions)
  BY EmptyHistory
<1>2. Unconnected \in [client : BOOLEAN, retry : 0 .. MaxTime + Gate]
  BY DEF Unconnected
<1> QED
  BY <1>1, <1>2 DEF TypeInv, TypeOK

\* A client that is looked for stays of its type.
LEMMA ConnectType ==
    ASSUME TypeOK, NEW s \in Services, NEW p \in Pods, Connect(s, p)
    PROVE  conn' \in [Services -> [Pods -> [client : BOOLEAN,
                                            retry : 0 .. MaxTime + Gate]]]
<1> DEFINE C == [client : BOOLEAN, retry : 0 .. MaxTime + Gate]
<1> USE RequestAssumption DEF TypeOK
<1>1. conn[s][p] \in C /\ conn[s] \in [Pods -> C] /\ conn \in [Services -> [Pods -> C]]
  OBVIOUS
<1>2. now + Gate \in 0 .. MaxTime + Gate
  OBVIOUS
<1>3. [conn[s][p] EXCEPT !.client = TRUE] \in C
      /\ [conn[s][p] EXCEPT !.retry = now + Gate] \in C
  BY <1>1, <1>2
<1>4. PICK d \in C : conn' = [conn EXCEPT ![s][p] = d]
  BY <1>1, <1>3 DEF Connect
<1> QED
  BY <1>1, <1>4

\* Recent and Counted stay within the entries.
LEMMA CountedType ==
    ASSUME TypeOK, NEW l \in Places, NEW e \in Entry
    PROVE  Counted(l, e) \in SUBSET Entry
<1>1. window[l] \subseteq Entry
  BY DEF TypeOK
<1> QED
  BY <1>1 DEF Counted, Recent

LEMMA NextTypeInv == TypeInv /\ [Next]_vars => TypeInv'
<1> SUFFICES ASSUME TypeOK, DOMAIN req = Threads, [Next]_vars
             PROVE  TypeOK' /\ DOMAIN req' = Threads
  BY DEF TypeInv
<1> USE RequestAssumption
<1>1. <<>> \in Histories /\ <<>> \in Seq(Questions)
  BY EmptyHistory
<1>2. {"guard", "store"} = Services /\ Redis \in Places /\ Pods \subseteq Places
  BY DEF Services, Places
<1>3. ASSUME NEW t \in Threads, NEW p \in Pods, NEW flagged \in BOOLEAN,
             Ask(t, p, flagged)
      PROVE  TypeOK'
  <2> DEFINE id == asked + 1
             entry == [id |-> id, at |-> now]
  <2>1. id \in Questions /\ entry \in Entry /\ asked' \in 0 .. MaxRequests
        /\ now \in 0 .. MaxTime
    BY <1>3 DEF Ask, TypeOK, Entry, Questions
  <2>2. PICK l \in {Redis, p} :
            /\ NoFault \/ Fault
            /\ window' = [m \in Places |->
                   IF m = l \/ (m = Redis /\ HasClient("guard", p) /\ up)
                   THEN Counted(m, entry) ELSE window[m]]
            /\ IF UnderLimit(l)
               THEN /\ admitted' = admitted \cup {[id |-> id, at |-> now, by |-> l]}
                    /\ req' = IF flagged THEN req ELSE
                              [req EXCEPT ![t] =
                                  [pod |-> p, id |-> id, at |-> "load", place |-> p,
                                   previous |-> <<>>, base |-> <<>>]]
               ELSE UNCHANGED <<admitted, req>>
    BY <1>3 DEF Ask
  <2>3. l \in Places
    BY <1>2
  <2>4. window' \in [Places -> SUBSET Entry]
    <3> HIDE DEF entry
    <3>1. \A m \in Places : Counted(m, entry) \in SUBSET Entry
      BY <2>1, CountedType
    <3>2. \A m \in Places : window[m] \in SUBSET Entry
      BY DEF TypeOK
    <3> QED
      BY <2>2, <3>1, <3>2
  <2>5. admitted' \subseteq [id : Questions, at : 0 .. MaxTime, by : Places]
    BY <2>1, <2>2, <2>3 DEF TypeOK
  <2>6. \A u \in Threads : req'[u] = None \/ req'[u] \in Request
    <3>1. [pod |-> p, id |-> id, at |-> "load", place |-> p,
           previous |-> <<>>, base |-> <<>>] \in Request
      BY <1>1, <1>2, <2>1 DEF Request
    <3>2. \/ req' = req
          \/ req' = [req EXCEPT ![t] =
                 [pod |-> p, id |-> id, at |-> "load", place |-> p,
                  previous |-> <<>>, base |-> <<>>]]
      BY <2>2
    <3> QED
      BY <3>1, <3>2 DEF TypeOK
  <2>7. faults' \in 0 .. MaxFaults
    BY <2>2 DEF NoFault, Fault, TypeOK
  <2>8. conn' \in [Services -> [Pods -> [client : BOOLEAN,
                                         retry : 0 .. MaxTime + Gate]]]
    BY <1>2, <1>3, ConnectType DEF Ask
  <2> QED
    BY <1>3, <2>1, <2>4, <2>5, <2>6, <2>7, <2>8 DEF Ask, TypeOK
<1>4. ASSUME NEW t \in Threads, Load(t)
      PROVE  TypeOK'
  <2>1. req[t] \in Request
    BY <1>4 DEF Load, Requesting, TypeOK
  <2>2. StorePlace(req[t].pod) \in Places /\ req[t].pod \in Pods
    BY <1>2, <2>1 DEF Request, StorePlace
  <2>3. conn' \in [Services -> [Pods -> [client : BOOLEAN,
                                         retry : 0 .. MaxTime + Gate]]]
    BY <1>2, <1>4, <2>2, ConnectType DEF Load
  <2>4. \A l \in Places : session[l] \in Histories /\ chain[l] \in Seq(Questions)
    BY DEF TypeOK
  <2>5. \A u \in Threads : req'[u] = None \/ req'[u] \in Request
    <3> DEFINE l == StorePlace(req[t].pod)
               r == [req[t] EXCEPT !.at = "graph", !.place = l,
                                   !.previous = session[l], !.base = chain[l]]
    <3>1. r \in Request
      BY <2>1, <2>2, <2>4 DEF Request
    <3>2. req' = [req EXCEPT ![t] = r] \/ req' = [req EXCEPT ![t] = None]
      BY <1>4 DEF Load, End
    <3> HIDE DEF r, l
    <3> QED
      BY <3>1, <3>2 DEF TypeOK
  <2>6. faults' \in 0 .. MaxFaults
    BY <1>4 DEF Load, NoFault, Fault, TypeOK
  <2> QED
    BY <1>4, <2>3, <2>5, <2>6 DEF Load, TypeOK
<1>5. ASSUME NEW t \in Threads, Save(t)
      PROVE  TypeOK'
  <2>1. req[t] \in Request
    BY <1>5 DEF Save, Requesting, TypeOK
  <2>2. /\ StorePlace(req[t].pod) \in Places /\ req[t].pod \in Pods
        /\ req[t].previous \in Histories /\ req[t].base \in Seq(Questions)
        /\ req[t].id \in Questions
    BY <1>2, <2>1 DEF Request, StorePlace
  <2>3. conn' \in [Services -> [Pods -> [client : BOOLEAN,
                                         retry : 0 .. MaxTime + Gate]]]
    BY <1>2, <1>5, <2>2, ConnectType DEF Save
  <2>4. session' \in [Places -> Histories]
    <3>1. NextHistory(req[t].previous, req[t].id) \in Histories
      BY <2>2, NextHistoryEnd
    <3> QED
      BY <1>5, <2>2, <3>1 DEF Save, TypeOK
  <2>5. chain' \in [Places -> Seq(Questions)]
    <3> DEFINE l == StorePlace(req[t].pod)
    <3>1. Append(chain[l], req[t].id) \in Seq(Questions) /\ <<req[t].id>> \in Seq(Questions)
      <4>1. chain[l] \in Seq(Questions)
        BY <2>2 DEF TypeOK
      <4> HIDE DEF l
      <4> QED
        BY <4>1, <2>2
    <3>2. \/ UNCHANGED chain
          \/ chain' = [chain EXCEPT ![l] = Append(chain[l], req[t].id)]
          \/ chain' = [chain EXCEPT ![l] = <<req[t].id>>]
      <4>1. \/ UNCHANGED chain
            \/ chain' = [chain EXCEPT ![l] =
                   IF req[t].place = l /\ req[t].base = chain[l]
                   THEN Append(chain[l], req[t].id) ELSE <<req[t].id>>]
        BY <1>5 DEF Save
      <4> HIDE DEF l
      <4> QED
        BY <4>1
    <3> HIDE DEF l
    <3> QED
      BY <3>1, <3>2 DEF TypeOK
  <2>6. \A u \in Threads : req'[u] = None \/ req'[u] \in Request
    BY <1>5 DEF Save, End, TypeOK
  <2>7. faults' \in 0 .. MaxFaults
    BY <1>5 DEF Save, NoFault, Fault, TypeOK
  <2> QED
    BY <1>5, <2>3, <2>4, <2>5, <2>6, <2>7 DEF Save, TypeOK
<1>6. ASSUME NEW t \in Threads, EndUnanswered(t)
      PROVE  TypeOK'
  BY <1>6 DEF EndUnanswered, End, TypeOK
<1>7. ASSUME NEW p \in Pods, Crash(p)
      PROVE  TypeOK'
  <2> DEFINE C == [client : BOOLEAN, retry : 0 .. MaxTime + Gate]
  <2>1. Unconnected \in C
    BY DEF Unconnected, TypeOK
  <2>2. conn' \in [Services -> [Pods -> C]]
    <3>1. \A s \in Services : conn[s] \in [Pods -> C]
      BY DEF TypeOK
    <3>2. conn' = [s \in Services |-> [conn[s] EXCEPT ![p] = Unconnected]]
      BY <1>7 DEF Crash
    <3> HIDE DEF C
    <3> QED
      BY <2>1, <3>1, <3>2
  <2>3. window' \in [Places -> SUBSET Entry] /\ session' \in [Places -> Histories]
        /\ chain' \in [Places -> Seq(Questions)]
    BY <1>1, <1>7 DEF Crash, TypeOK
  <2>4. \A u \in Threads : req'[u] = None \/ req'[u] \in Request
    BY <1>7 DEF Crash, TypeOK
  <2>5. faults' \in 0 .. MaxFaults
    BY <1>7 DEF Crash, Fault, TypeOK
  <2>6. admitted' \subseteq [id : Questions, at : 0 .. MaxTime, by : Places]
    BY <1>7 DEF Crash, TypeOK
  <2> QED
    BY <1>7, <2>2, <2>3, <2>4, <2>5, <2>6 DEF Crash, TypeOK
<1>8. ASSUME Tick \/ RedisFails \/ RedisReturns
      PROVE  TypeOK'
  <2>1. CASE Tick
    BY <2>1 DEF Tick, TypeOK
  <2>2. CASE RedisFails
    <3>1. faults' \in 0 .. MaxFaults
      BY <2>2 DEF RedisFails, Fault, TypeOK
    <3>2. up' \in BOOLEAN
      BY <2>2 DEF RedisFails
    <3> QED
      BY <2>2, <3>1, <3>2 DEF RedisFails, TypeOK
  <2>3. CASE RedisReturns
    BY <2>3 DEF RedisReturns, TypeOK
  <2> QED
    BY <1>8, <2>1, <2>2, <2>3
<1>9. ASSUME ExpireSession
      PROVE  TypeOK'
  BY <1>1, <1>9 DEF ExpireSession, TypeOK
<1>10. ASSUME UNCHANGED vars
       PROVE  TypeOK'
  BY <1>10 DEF vars, TypeOK
<1>11. DOMAIN req' = Threads
  BY DEF Next, vars, Ask, Load, Save, EndUnanswered, End, Crash, Tick, RedisFails,
         RedisReturns, ExpireSession
<1> QED
  BY <1>3, <1>4, <1>5, <1>6, <1>7, <1>8, <1>9, <1>10, <1>11 DEF Next

\* Type correctness, for every number of pods, requests and faults.
THEOREM RequestsTypeCorrect == Spec => []TypeOK
<1>1. TypeInv => TypeOK
  BY DEF TypeInv
<1> QED
  BY <1>1, InitTypeInv, NextTypeInv, PTL DEF Spec

-----------------------------------------------------------------------------
\* The session

LEMMA InitSessionInv == Init => SessionInv
BY EmptyHistory, NothingToRemember DEF Init, SessionInv

LEMMA NextSessionInv == TypeInv /\ SessionInv /\ [Next]_vars => SessionInv'
<1> SUFFICES ASSUME TypeInv, SessionInv, [Next]_vars
             PROVE  SessionInv'
  OBVIOUS
<1> USE DEF TypeInv
<1>0. /\ Remembers(<<>>, <<>>)
      /\ \A l \in Places : session[l] \in Histories /\ chain[l] \in Seq(Questions)
      /\ Redis \in Places /\ Pods \subseteq Places
  BY EmptyHistory, NothingToRemember DEF TypeOK, Places
<1>1. ASSUME NEW t \in Threads, NEW p \in Pods, NEW flagged \in BOOLEAN,
             Ask(t, p, flagged)
      PROVE  SessionInv'
  <2>1. \A u \in Threads : req'[u] # req[u] => req'[u].previous = <<>> /\ req'[u].base = <<>>
    BY <1>1 DEF Ask
  <2> QED
    BY <1>0, <1>1, <2>1 DEF Ask, SessionInv
<1>2. ASSUME NEW t \in Threads, Load(t)
      PROVE  SessionInv'
  <2> DEFINE l == StorePlace(req[t].pod)
  <2>1. l \in Places
    BY <1>0, <1>2 DEF Load, Requesting, TypeOK, Request, StorePlace
  <2>2. req[t] \in Request
    BY <1>2 DEF Load, Requesting, TypeOK
  <2>3. \A u \in Threads : \/ req'[u] = None \/ req'[u] = req[u]
                           \/ req'[u].previous = session[l] /\ req'[u].base = chain[l]
    BY <1>2, <2>2 DEF Load, End, Request
  <2> HIDE DEF l
  <2> QED
    BY <1>0, <1>2, <2>1, <2>3 DEF Load, SessionInv
<1>3. ASSUME NEW t \in Threads, Save(t)
      PROVE  SessionInv'
  <2> DEFINE l == StorePlace(req[t].pod)
             h == NextHistory(req[t].previous, req[t].id)
             continues == req[t].place = l /\ req[t].base = chain[l]
  <2>1. req[t] \in Request /\ req[t] # None
    BY <1>3 DEF Save, Requesting, TypeOK
  <2>2. l \in Places /\ req[t].previous \in Histories /\ req[t].id \in Questions
        /\ req[t].base \in Seq(Questions)
    BY <1>0, <2>1 DEF Request, StorePlace
  <2>3. Remembers(h, <<req[t].id>>)
    BY <2>2, FirstRemembers
  <2>4. continues => Remembers(h, Append(chain[l], req[t].id))
    BY <2>1, <2>2, NextRemembers DEF SessionInv
  <2>5. \/ UNCHANGED <<session, chain>>
        \/ /\ session' = [session EXCEPT ![l] = h]
           /\ chain' = [chain EXCEPT ![l] =
                  IF continues THEN Append(chain[l], req[t].id) ELSE <<req[t].id>>]
    BY <1>3 DEF Save
  <2>6. \A u \in Threads : req'[u] = None \/ req'[u] = req[u]
    BY <1>3 DEF Save, End
  <2>7. DOMAIN session = Places /\ DOMAIN chain = Places
    BY DEF TypeOK
  <2> HIDE DEF l, h, continues
  <2>8. \A m \in Places : Remembers(session'[m], chain'[m])
    BY <2>2, <2>3, <2>4, <2>5, <2>7 DEF SessionInv
  <2> QED
    BY <2>6, <2>8 DEF SessionInv
<1>4. ASSUME NEW t \in Threads, EndUnanswered(t)
      PROVE  SessionInv'
  BY <1>4 DEF EndUnanswered, End, SessionInv
<1>5. ASSUME NEW p \in Pods, Crash(p)
      PROVE  SessionInv'
  BY <1>0, <1>5 DEF Crash, SessionInv, TypeOK
<1>6. ASSUME ExpireSession
      PROVE  SessionInv'
  BY <1>0, <1>6 DEF ExpireSession, SessionInv, TypeOK
<1>7. ASSUME Tick \/ RedisFails \/ RedisReturns \/ UNCHANGED vars
      PROVE  SessionInv'
  BY <1>7 DEF Tick, RedisFails, RedisReturns, vars, SessionInv
<1> QED
  BY <1>1, <1>2, <1>3, <1>4, <1>5, <1>6, <1>7 DEF Next

\* What Remembers says turn by turn is what the property says of the ends.
LEMMA RemembersIsSuffix ==
    ASSUME NEW h \in Histories, NEW c \in Seq(Questions), Remembers(h, c)
    PROVE  LET n == Len(c)
               m == Len(h)
               k == IF n < Turns THEN n ELSE Turns
           IN m >= k /\ SubSeq(h, m - k + 1, m) = SubSeq(c, n - k + 1, n)
<1> DEFINE n == Len(c)
           m == Len(h)
           k == Overlap(c)
<1> USE RequestAssumption
<1>1. /\ h \in Seq(Questions) /\ m \in Nat /\ n \in Nat /\ Turns \in Nat
      /\ k \in Nat /\ k <= n /\ k <= m
      /\ \A i \in 0 .. k - 1 : h[m - i] = c[n - i]
  <2>1. h \in Seq(Questions) /\ m \in Nat /\ n \in Nat /\ Turns \in Nat
    BY HistoryType
  <2>2. k = IF n < Turns THEN n ELSE Turns
    BY DEF Overlap
  <2>3. k <= m /\ \A i \in 0 .. k - 1 : h[m - i] = c[n - i]
    BY DEF Remembers
  <2> HIDE DEF k, m, n
  <2> QED
    BY <2>1, <2>2, <2>3
<1> DEFINE H == SubSeq(h, m - k + 1, m)
           C == SubSeq(c, n - k + 1, n)
<1>2. /\ H \in Seq(Questions) /\ Len(H) = k
      /\ \A i \in 1 .. k : H[i] = h[m - k + 1 + i - 1]
  <2>1. \A i \in m - k + 1 .. m : h[i] \in Questions
    BY <1>1, ElementOfSeq
  <2>2. m - k + 1 \in 1 .. m + 1 /\ m \in m - k .. m /\ m - (m - k + 1) + 1 = k
    BY <1>1
  <2> HIDE DEF m, k
  <2> QED
    BY <1>1, <2>1, <2>2, SubSeqProperties DEF m
<1>3. /\ C \in Seq(Questions) /\ Len(C) = k
      /\ \A i \in 1 .. k : C[i] = c[n - k + 1 + i - 1]
  <2>1. \A i \in n - k + 1 .. n : c[i] \in Questions
    BY <1>1, ElementOfSeq
  <2>2. n - k + 1 \in 1 .. n + 1 /\ n \in n - k .. n /\ n - (n - k + 1) + 1 = k
    BY <1>1
  <2> HIDE DEF n, k
  <2> QED
    BY <1>1, <2>1, <2>2, SubSeqProperties DEF n
<1> HIDE DEF H, C, k, m, n
<1>4. \A i \in 1 .. k : H[i] = C[i]
  <2> SUFFICES ASSUME NEW i \in 1 .. k
               PROVE  H[i] = C[i]
    OBVIOUS
  <2>1. /\ m - k + 1 + i - 1 = m - (k - i) /\ n - k + 1 + i - 1 = n - (k - i)
        /\ k - i \in 0 .. k - 1
    BY <1>1
  <2> QED
    BY <1>1, <1>2, <1>3, <2>1
<1>5. H = C
  BY <1>1, <1>2, <1>3, <1>4, SeqEqual
<1> QED
  BY <1>1, <1>5 DEF H, C, k, m, n, Overlap

\* Whatever overlaps, fails or expires, a session holds the latest questions of
\* the conversation held one at a time in its place, up to the limit of turns.
THEOREM ConversationKept == Spec => []ConversationRemembered
<1>1. TypeInv /\ SessionInv => ConversationRemembered
  <2> SUFFICES ASSUME TypeInv, SessionInv, NEW l \in Places
               PROVE  LET n == Len(chain[l])
                          m == Len(session[l])
                          k == IF n < Turns THEN n ELSE Turns
                      IN /\ m >= k
                         /\ SubSeq(session[l], m - k + 1, m) =
                                SubSeq(chain[l], n - k + 1, n)
    BY DEF ConversationRemembered
  <2>1. session[l] \in Histories /\ chain[l] \in Seq(Questions)
        /\ Remembers(session[l], chain[l])
    BY DEF TypeInv, TypeOK, SessionInv
  <2> QED
    BY <2>1, RemembersIsSuffix
<1> QED
  BY <1>1, InitTypeInv, NextTypeInv, InitSessionInv, NextSessionInv, PTL DEF Spec

-----------------------------------------------------------------------------
\* The rate limit

LEMMA InitLimitInv == Init => LimitInv
<1> SUFFICES ASSUME Init
             PROVE  LimitInv
  OBVIOUS
<1> USE RequestAssumption, FS_EmptySet
<1>1. NothingFailedYet
  BY DEF Init, NothingFailedYet, Unconnected
<1>2. AdmittedCounted /\ AdmittedOnce /\ Counts
  BY DEF Init, AdmittedCounted, AdmittedOnce, Counts, Recent
<1>3. PlaceBound
  <2>1. \A l \in Places : AdmittedBy(l) = {}
    BY DEF Init, AdmittedBy, Recent
  <2>2. Cardinality({}) = 0
    OBVIOUS
  <2> QED
    BY <2>1, <2>2 DEF PlaceBound
<1> QED
  BY <1>1, <1>2, <1>3 DEF LimitInv

\* Steps that let nothing through and count nothing: what is admitted and what
\* the places count may shrink, but not apart from each other.
LEMMA QuietLimit ==
    ASSUME TypeInv, LimitInv, UNCHANGED <<window, admitted, asked>>,
           now' \in Int, now' >= now
    PROVE  AdmittedCounted' /\ AdmittedOnce' /\ Counts' /\ PlaceBound'
<1> USE RequestAssumption
<1>1. now \in Int /\ Window \in Int
      /\ \A a \in admitted : a.at \in Int
  BY DEF TypeInv, TypeOK
<1>2. Recent(admitted)' \subseteq Recent(admitted)
  BY <1>1 DEF Recent
<1>3. AdmittedCounted'
  BY <1>2 DEF LimitInv, AdmittedCounted
<1>4. AdmittedOnce' /\ Counts'
  BY DEF LimitInv, AdmittedOnce, Counts
<1>5. PlaceBound'
  <2> SUFFICES ASSUME NEW l \in Places
               PROVE  Cardinality(AdmittedBy(l)') <= Limit
    BY DEF PlaceBound
  <2>1. AdmittedBy(l)' \subseteq AdmittedBy(l) /\ AdmittedBy(l) \subseteq admitted
    BY <1>2 DEF AdmittedBy, Recent
  <2>2. IsFiniteSet(AdmittedBy(l))
    BY <2>1, FS_Subset DEF LimitInv, Counts
  <2>3. /\ Cardinality(AdmittedBy(l)') <= Cardinality(AdmittedBy(l))
        /\ IsFiniteSet(AdmittedBy(l)')
    BY <2>1, <2>2, FS_Subset
  <2>4. Cardinality(AdmittedBy(l)) \in Nat /\ Cardinality(AdmittedBy(l)') \in Nat
    BY <2>2, <2>3, FS_CardinalityType
  <2>5. Cardinality(AdmittedBy(l)) <= Limit
    BY DEF LimitInv, PlaceBound
  <2> QED
    BY <2>3, <2>4, <2>5
<1> QED
  BY <1>3, <1>4, <1>5

\* A place never counts fewer requests than it let through within the window.
LEMMA AdmittedAreCounted ==
    ASSUME TypeInv, LimitInv, NEW l \in Places
    PROVE  /\ IsFiniteSet(AdmittedBy(l)) /\ IsFiniteSet(Recent(window[l]))
           /\ Cardinality(AdmittedBy(l)) \in Nat
           /\ Cardinality(Recent(window[l])) \in Nat
           /\ Cardinality(AdmittedBy(l)) <= Cardinality(Recent(window[l]))
<1> DEFINE f == [a \in AdmittedBy(l) |-> [id |-> a.id, at |-> a.at]]
<1>1. IsFiniteSet(AdmittedBy(l))
  <2>1. AdmittedBy(l) \subseteq admitted
    BY DEF AdmittedBy, Recent
  <2> QED
    BY <2>1, FS_Subset DEF LimitInv, Counts
<1>2. IsFiniteSet(Recent(window[l]))
  <2>1. Recent(window[l]) \subseteq window[l]
    BY DEF Recent
  <2> QED
    BY <2>1, FS_Subset DEF LimitInv, Counts
<1>3. \A a \in AdmittedBy(l) : [id |-> a.id, at |-> a.at] \in Recent(window[l])
  <2> SUFFICES ASSUME NEW a \in AdmittedBy(l)
               PROVE  [id |-> a.id, at |-> a.at] \in Recent(window[l])
    OBVIOUS
  <2>1. a \in Recent(admitted) /\ a.by = l /\ a.at > now - Window
    BY DEF AdmittedBy, Recent
  <2>2. [id |-> a.id, at |-> a.at] \in window[l]
    BY <2>1 DEF LimitInv, AdmittedCounted
  <2> QED
    BY <2>1, <2>2 DEF Recent
<1>4. \A a, b \in AdmittedBy(l) :
          [id |-> a.id, at |-> a.at] = [id |-> b.id, at |-> b.at] => a = b
  BY DEF LimitInv, AdmittedOnce, AdmittedBy, Recent
<1>5. f \in Injection(AdmittedBy(l), Recent(window[l]))
  <2>1. f \in [AdmittedBy(l) -> Recent(window[l])]
    BY <1>3
  <2>2. \A a, b \in AdmittedBy(l) : f[a] = f[b] => a = b
    BY <1>4
  <2> HIDE DEF f
  <2> QED
    BY <2>1, <2>2 DEF Injection, IsInjective
<1>6. Cardinality(AdmittedBy(l)) <= Cardinality(Recent(window[l]))
  <2> HIDE DEF f
  <2> QED
    BY <1>2, <1>5, FS_Injection
<1> QED
  BY <1>1, <1>2, <1>6, FS_CardinalityType

\* A client that is looked for while nothing has failed is found.
LEMMA ConnectFinds ==
    ASSUME TypeInv, LimitInv, NEW s \in Services, NEW p \in Pods, Connect(s, p),
           faults = 0
    PROVE  \A r \in Services, q \in Pods : conn'[r][q].retry = 0
<1> USE RequestAssumption
<1>1. up /\ now \in Nat /\ \A r \in Services, q \in Pods : conn[r][q].retry = 0
  BY DEF LimitInv, NothingFailedYet, TypeInv, TypeOK
<1>2. HasClient(s, p)
  BY <1>1 DEF HasClient
<1>3. conn' = [conn EXCEPT ![s][p] = [@ EXCEPT !.client = TRUE]]
  BY <1>2 DEF Connect
<1>4. conn[s][p] \in [client : BOOLEAN, retry : 0 .. MaxTime + Gate]
  BY DEF TypeInv, TypeOK
<1>5. [conn[s][p] EXCEPT !.client = TRUE].retry = 0
  BY <1>1, <1>4
<1> QED
  BY <1>1, <1>3, <1>5 DEF TypeInv, TypeOK

\* A request is counted where it is decided, and what is let through was below
\* the limit there.
LEMMA AskLimit ==
    ASSUME TypeInv, LimitInv, NEW t \in Threads, NEW p \in Pods,
           NEW flagged \in BOOLEAN, Ask(t, p, flagged)
    PROVE  LimitInv'
<1> DEFINE id == asked + 1
           entry == [id |-> id, at |-> now]
           redis == HasClient("guard", p) /\ up
<1> USE RequestAssumption
<1>1. PICK l \in {Redis, p} :
          /\ \/ (l = Redis) = redis /\ NoFault
             \/ redis /\ l = p /\ Fault
          /\ window' = [m \in Places |->
                 IF m = l \/ (m = Redis /\ redis) THEN Counted(m, entry)
                                                  ELSE window[m]]
          /\ IF UnderLimit(l)
             THEN admitted' = admitted \cup {[id |-> id, at |-> now, by |-> l]}
             ELSE UNCHANGED admitted
  BY DEF Ask
<1>2. /\ asked' = asked + 1 /\ now' = now /\ up' = up
      /\ Connect("guard", p) /\ asked \in Nat /\ now \in Nat /\ Window \in Nat
      /\ l \in Places /\ Redis \in Places /\ Pods \subseteq Places /\ l \in {Redis} \cup Pods
  BY <1>1 DEF Ask, TypeInv, TypeOK, Places
<1> DEFINE new == [id |-> id, at |-> now, by |-> l]
<1>3. /\ \A m \in Places : Recent(window[m]) \subseteq window'[m]
      /\ UnderLimit(l) => entry \in window'[l]
      /\ \A m \in Places : IsFiniteSet(window'[m])
  <2>1. \A m \in Places : /\ Recent(window[m]) \subseteq window[m]
                          /\ Recent(window[m]) \subseteq Counted(m, entry)
    BY DEF Recent, Counted
  <2>2. UnderLimit(l) => entry \in Counted(l, entry)
    BY DEF Counted
  <2>3. \A m \in Places : IsFiniteSet(Counted(m, entry))
    <3> SUFFICES ASSUME NEW m \in Places
                 PROVE  IsFiniteSet(Counted(m, entry))
      OBVIOUS
    <3> HIDE DEF entry
    <3>1. IsFiniteSet(Recent(window[m]))
      BY AdmittedAreCounted
    <3>2. Counted(m, entry) = Recent(window[m]) \cup {entry}
          \/ Counted(m, entry) = Recent(window[m])
      BY DEF Counted
    <3> QED
      BY <3>1, <3>2, FS_AddElement
  <2>4. \A m \in Places : IsFiniteSet(window[m])
    BY DEF LimitInv, Counts
  <2> HIDE DEF entry, redis
  <2> QED
    BY <1>1, <1>2, <2>1, <2>2, <2>3, <2>4
<1>6. Counts'
  <2>1. IsFiniteSet(admitted)
    BY DEF LimitInv, Counts
  <2>2. admitted' = admitted \/ admitted' = admitted \cup {new}
    BY <1>1
  <2> HIDE DEF new
  <2>3. IsFiniteSet(admitted')
    BY <2>1, <2>2, FS_AddElement
  <2> QED
    BY <1>3, <2>3 DEF Counts
<1>7. AdmittedOnce'
  <2>1. \A a \in admitted : a.id \in Int /\ a.id <= asked
    BY DEF LimitInv, AdmittedOnce, TypeInv, TypeOK, Questions
  <2>2. admitted' = admitted \/ admitted' = admitted \cup {new}
    BY <1>1
  <2>3. new.id = asked + 1
    OBVIOUS
  <2> HIDE DEF new
  <2>4. \A a \in admitted' : a.id <= asked'
    BY <1>2, <2>1, <2>2, <2>3
  <2>5. \A a, b \in admitted : a.id = b.id => a = b
    BY DEF LimitInv, AdmittedOnce
  <2>6. \A a \in admitted : a.id # new.id
    BY <1>2, <2>1, <2>3
  <2>7. \A a, b \in admitted' : a.id = b.id => a = b
    BY <2>2, <2>5, <2>6
  <2> QED
    BY <2>4, <2>7 DEF AdmittedOnce
<1>8. AdmittedCounted'
  <2> SUFFICES ASSUME NEW a \in admitted', a.at > now - Window
               PROVE  [id |-> a.id, at |-> a.at] \in window'[a.by]
    BY <1>2 DEF AdmittedCounted, Recent
  <2>1. CASE a \in admitted
    <3>1. a.by \in Places
      BY <2>1 DEF TypeInv, TypeOK
    <3>2. [id |-> a.id, at |-> a.at] \in window[a.by]
      BY <2>1 DEF LimitInv, AdmittedCounted, Recent
    <3>3. [id |-> a.id, at |-> a.at] \in Recent(window[a.by])
      BY <3>2 DEF Recent
    <3> QED
      BY <1>3, <3>1, <3>3
  <2>2. CASE a \notin admitted
    <3>1. UnderLimit(l) /\ a = new
      BY <1>1, <2>2
    <3> QED
      BY <1>3, <3>1
  <2> QED
    BY <2>1, <2>2
<1>9. PlaceBound'
  <2> SUFFICES ASSUME NEW m \in Places
               PROVE  Cardinality(AdmittedBy(m)') <= Limit
    BY DEF PlaceBound
  <2>1. /\ IsFiniteSet(AdmittedBy(m)) /\ Cardinality(AdmittedBy(m)) \in Nat
        /\ Cardinality(Recent(window[m])) \in Nat
        /\ Cardinality(AdmittedBy(m)) <= Cardinality(Recent(window[m]))
        /\ Cardinality(AdmittedBy(m)) <= Limit
    BY AdmittedAreCounted DEF LimitInv, PlaceBound
  <2>2. CASE m = l /\ UnderLimit(l)
    <3>1. AdmittedBy(m)' \subseteq AdmittedBy(m) \cup {new}
      BY <1>1, <1>2, <2>2 DEF AdmittedBy, Recent
    <3>2. Cardinality(AdmittedBy(m)) + 1 <= Limit
      BY <2>1, <2>2 DEF UnderLimit
    <3> HIDE DEF new
    <3>3. /\ IsFiniteSet(AdmittedBy(m) \cup {new})
          /\ \/ Cardinality(AdmittedBy(m) \cup {new}) = Cardinality(AdmittedBy(m))
             \/ Cardinality(AdmittedBy(m) \cup {new}) = Cardinality(AdmittedBy(m)) + 1
      BY <2>1, FS_AddElement
    <3>4. /\ IsFiniteSet(AdmittedBy(m)')
          /\ Cardinality(AdmittedBy(m)') <= Cardinality(AdmittedBy(m) \cup {new})
      BY <3>1, <3>3, FS_Subset
    <3>5. Cardinality(AdmittedBy(m)') \in Nat
      BY <3>4, FS_CardinalityType
    <3> QED
      BY <2>1, <3>2, <3>3, <3>4, <3>5
  <2>3. CASE ~(m = l /\ UnderLimit(l))
    <3>1. AdmittedBy(m)' = AdmittedBy(m)
      <4>1. \/ admitted' = admitted
            \/ admitted' = admitted \cup {new} /\ l # m
        BY <1>1, <2>3
      <4>2. new.by = l
        OBVIOUS
      <4> HIDE DEF new
      <4> QED
        BY <1>2, <4>1, <4>2 DEF AdmittedBy, Recent
    <3> QED
      BY <2>1, <3>1
  <2> QED
    BY <2>2, <2>3
<1>10. NothingFailedYet'
  <2> SUFFICES ASSUME faults' = 0
               PROVE  /\ up'
                      /\ \A s \in Services, q \in Pods : conn'[s][q].retry = 0
                      /\ \A a \in admitted' : a.by = Redis
    BY DEF NothingFailedYet
  <2>1. ~Fault /\ faults = 0
    BY <1>1 DEF Fault, NoFault, TypeInv, TypeOK
  <2>2. /\ up /\ \A s \in Services, q \in Pods : conn[s][q].retry = 0
        /\ \A a \in admitted : a.by = Redis
    BY <2>1 DEF LimitInv, NothingFailedYet
  <2>3. "guard" \in Services /\ redis
    BY <1>2, <2>2 DEF HasClient, Services
  <2>4. l = Redis
    BY <1>1, <2>1, <2>3
  <2>5. \A s \in Services, q \in Pods : conn'[s][q].retry = 0
    BY <1>2, <2>1, <2>3, ConnectFinds
  <2> QED
    BY <1>1, <1>2, <2>2, <2>4, <2>5
<1> QED
  BY <1>6, <1>7, <1>8, <1>9, <1>10 DEF LimitInv

LEMMA NextLimitInv == TypeInv /\ LimitInv /\ [Next]_vars => LimitInv'
<1> SUFFICES ASSUME TypeInv, LimitInv, [Next]_vars
             PROVE  LimitInv'
  OBVIOUS
<1> USE RequestAssumption
<1>1. now \in Int /\ faults \in Nat /\ "store" \in Services
  BY DEF TypeInv, TypeOK, Services
<1>2. ASSUME NEW t \in Threads, NEW p \in Pods, NEW flagged \in BOOLEAN,
             Ask(t, p, flagged)
      PROVE  LimitInv'
  BY <1>2, AskLimit
<1>3. ASSUME NEW t \in Threads, Load(t) \/ Save(t)
      PROVE  LimitInv'
  <2>1. req[t].pod \in Pods
    BY <1>3 DEF Load, Save, Requesting, TypeInv, TypeOK, Request
  <2>2. /\ UNCHANGED <<now, up, window, asked, admitted>>
        /\ Connect("store", req[t].pod) /\ (NoFault \/ Fault)
    BY <1>3 DEF Load, Save
  <2>3. NothingFailedYet'
    <3> SUFFICES ASSUME faults' = 0
                 PROVE  /\ up'
                        /\ \A s \in Services, q \in Pods : conn'[s][q].retry = 0
                        /\ \A a \in admitted' : a.by = Redis
      BY DEF NothingFailedYet
    <3>1. faults = 0
      BY <1>1, <2>2 DEF NoFault, Fault
    <3>2. \A s \in Services, q \in Pods : conn'[s][q].retry = 0
      BY <1>1, <2>1, <2>2, <3>1, ConnectFinds
    <3> QED
      BY <2>2, <3>1, <3>2 DEF LimitInv, NothingFailedYet
  <2> QED
    BY <1>1, <2>2, <2>3, QuietLimit DEF LimitInv
<1>4. ASSUME NEW t \in Threads, EndUnanswered(t)
      PROVE  LimitInv'
  <2>1. UNCHANGED <<now, up, conn, window, asked, faults, admitted>>
    BY <1>4 DEF EndUnanswered
  <2>2. NothingFailedYet'
    BY <2>1 DEF LimitInv, NothingFailedYet
  <2> QED
    BY <1>1, <2>1, <2>2, QuietLimit DEF LimitInv
<1>5. ASSUME Tick \/ ExpireSession \/ UNCHANGED vars
      PROVE  LimitInv'
  <2>1. /\ UNCHANGED <<up, conn, window, asked, faults, admitted>>
        /\ now' \in Int /\ now' >= now
    BY <1>1, <1>5 DEF Tick, ExpireSession, vars
  <2>2. NothingFailedYet'
    BY <2>1 DEF LimitInv, NothingFailedYet
  <2> QED
    BY <2>1, <2>2, QuietLimit DEF LimitInv
<1>6. ASSUME RedisFails \/ RedisReturns
      PROVE  LimitInv'
  <2>1. /\ UNCHANGED <<now, conn, window, asked, admitted>>
        /\ RedisFails => Fault
        /\ RedisReturns => ~up /\ faults' = faults
    BY <1>6 DEF RedisFails, RedisReturns
  <2>2. faults' # 0
    BY <1>1, <1>6, <2>1 DEF Fault, LimitInv, NothingFailedYet
  <2> QED
    BY <1>1, <2>1, <2>2, QuietLimit DEF LimitInv, NothingFailedYet
<1>7. ASSUME NEW p \in Pods, Crash(p)
      PROVE  LimitInv'
  <2>1. /\ window' = [window EXCEPT ![p] = {}] /\ now' = now /\ asked' = asked
        /\ admitted' = {a \in admitted : a.by # p}
        /\ faults' = faults + 1
    BY <1>7 DEF Crash, Fault
  <2>2. NothingFailedYet' /\ AdmittedOnce'
    BY <1>1, <2>1 DEF LimitInv, NothingFailedYet, AdmittedOnce
  <2>3. p \in Places /\ DOMAIN window = Places /\ \A a \in admitted : a.by \in Places
    BY DEF Places, TypeInv, TypeOK
  <2>4. AdmittedCounted'
    BY <2>1, <2>3 DEF LimitInv, AdmittedCounted, Recent
  <2>5. Counts'
    <3>1. IsFiniteSet(admitted')
      BY <2>1, FS_Subset DEF LimitInv, Counts
    <3> QED
      BY <2>1, <2>3, <3>1, FS_EmptySet DEF LimitInv, Counts
  <2>6. PlaceBound'
    <3> SUFFICES ASSUME NEW l \in Places
                 PROVE  Cardinality(AdmittedBy(l)') <= Limit
      BY DEF PlaceBound
    <3>1. AdmittedBy(l)' \subseteq AdmittedBy(l)
      BY <2>1 DEF AdmittedBy, Recent
    <3>2. /\ IsFiniteSet(AdmittedBy(l)) /\ Cardinality(AdmittedBy(l)) \in Nat
          /\ Cardinality(AdmittedBy(l)) <= Limit
      BY AdmittedAreCounted DEF LimitInv, PlaceBound
    <3>3. /\ IsFiniteSet(AdmittedBy(l)')
          /\ Cardinality(AdmittedBy(l)') <= Cardinality(AdmittedBy(l))
      BY <3>1, <3>2, FS_Subset
    <3>4. Cardinality(AdmittedBy(l)') \in Nat
      BY <3>3, FS_CardinalityType
    <3> QED
      BY <3>2, <3>3, <3>4
  <2> QED
    BY <2>2, <2>4, <2>5, <2>6 DEF LimitInv
<1> QED
  BY <1>2, <1>3, <1>4, <1>5, <1>6, <1>7 DEF Next

\* The rate limit lets through at most RATE_LIMIT_MAX requests in any window as
\* long as nothing failed, and at most that many by Redis and by each pod's
\* memory whatever fails, for any number of pods and any limit and window.
THEOREM RateLimited == Spec => []AdmittedBounded
<1>1. TypeInv /\ LimitInv => AdmittedBounded
  <2> SUFFICES ASSUME TypeInv, LimitInv
               PROVE  AdmittedBounded
    OBVIOUS
  <2>1. \A l \in Places : Cardinality({a \in Recent(admitted) : a.by = l}) <= Limit
    BY DEF LimitInv, PlaceBound, AdmittedBy
  <2>2. ASSUME faults = 0
        PROVE  Cardinality(Recent(admitted)) <= Limit
    <3>1. Recent(admitted) = {a \in Recent(admitted) : a.by = Redis}
      BY <2>2 DEF LimitInv, NothingFailedYet, Recent
    <3>2. Redis \in Places
      BY DEF Places
    <3> QED
      BY <2>1, <3>1, <3>2
  <2> QED
    BY <2>1, <2>2 DEF AdmittedBounded
<1> QED
  BY <1>1, InitTypeInv, NextTypeInv, InitLimitInv, NextLimitInv, PTL DEF Spec
=============================================================================
