---------------------------- MODULE AskRequests ----------------------------
(***************************************************************************)
(* What surrounds the graph in POST /ask (RAG/app.py): the rate limit      *)
(* (services/guardrails.py) and the session that carries the conversation  *)
(* from one question to the next (services/session_store.py), each on a    *)
(* Redis client of its own (services/_redis.py) with the memory of the pod *)
(* to fall back on.  AskGraph is the graph itself.                         *)
(*                                                                         *)
(* One user with one session; the user's requests may overlap and may be   *)
(* served by any pod.  A question is a number, so is the time.             *)
(***************************************************************************)
EXTENDS Integers, Sequences, FiniteSets

CONSTANTS
    Pods,
    Threads,      \* requests under way at the same time
    Redis,        \* the store that is no pod's memory
    None,         \* no request
    Limit,        \* RATE_LIMIT_MAX
    Window,       \* RATE_LIMIT_WINDOW
    Gate,         \* _RETRY_INTERVAL
    Turns,        \* _HISTORY_MAX_TURNS
    MaxRequests, MaxTime, MaxFaults \* bounds on questions, time and faults

ASSUME RequestAssumption ==
    /\ Redis \notin Pods
    /\ {Limit, Window, Gate, Turns} \subseteq Nat \ {0}
    /\ {MaxRequests, MaxTime, MaxFaults} \subseteq Nat

Places == Pods \cup {Redis}
Services == {"guard", "store"}
Questions == 1 .. MaxRequests
Histories == UNION {[1 .. n -> Questions] : n \in 0 .. Turns}

VARIABLES
    now,
    up,        \* Redis answers
    conn,      \* conn[s][p]: the client of service s in pod p, its retry gate
    window,    \* window[l]: the user's requests as place l counts them
    session,   \* session[l]: the history place l keeps
    req,       \* req[t]: the request of thread t
    asked, faults,
    admitted,  \* history: the requests let through
    chain      \* history: see ConversationRemembered

vars == <<now, up, conn, window, session, req, asked, faults, admitted, chain>>

Entry == [id: Questions, at: 0 .. MaxTime]
Request == [pod: Pods, id: Questions, at: {"load", "graph"}, place: Places,
            previous: Histories, base: Seq(Questions)]

TypeOK ==
    /\ now \in 0 .. MaxTime /\ up \in BOOLEAN
    /\ conn \in [Services -> [Pods -> [client: BOOLEAN,
                                        retry: 0 .. MaxTime + Gate]]]
    /\ window \in [Places -> SUBSET Entry]
    /\ session \in [Places -> Histories]
    /\ \A t \in Threads : req[t] = None \/ req[t] \in Request
    /\ asked \in 0 .. MaxRequests /\ faults \in 0 .. MaxFaults
    /\ admitted \subseteq [id: Questions, at: 0 .. MaxTime, by: Places]
    /\ chain \in [Places -> Seq(Questions)]

Unconnected == [client |-> FALSE, retry |-> 0]
Init ==
    /\ now = 0 /\ up = TRUE
    /\ conn = [s \in Services |-> [p \in Pods |-> Unconnected]]
    /\ window = [l \in Places |-> {}]
    /\ session = [l \in Places |-> <<>>]
    /\ req = [t \in Threads |-> None]
    /\ asked = 0 /\ faults = 0
    /\ admitted = {}
    /\ chain = [l \in Places |-> <<>>]

-----------------------------------------------------------------------------
\* Redis clients

Fault == faults < MaxFaults /\ faults' = faults + 1
NoFault == UNCHANGED faults

\* load_client and _get_redis: a client that answered a ping once is kept for
\* good; after a ping that failed none is tried before the gate opens.
HasClient(s, p) == conn[s][p].client \/ (up /\ conn[s][p].retry <= now)
Connect(s, p) ==
    conn' = [conn EXCEPT ![s][p] =
        IF HasClient(s, p) THEN [@ EXCEPT !.client = TRUE]
        ELSE IF now < @.retry THEN @
        ELSE [@ EXCEPT !.retry = now + Gate]]

-----------------------------------------------------------------------------
\* The rate limit

\* zremrangebyscore, and the fallback's filter: what the window still holds.
Recent(entries) == {e \in entries : e.at > now - Window}

\* Faulty variant: one too many.
UnderLimitPlus(l) == Cardinality(Recent(window[l])) <= Limit
UnderLimit(l) == Cardinality(Recent(window[l])) < Limit

\* Redis counts every request, the pod's memory those it lets through.
Counted(l, e) ==
    Recent(window[l]) \cup (IF l = Redis \/ UnderLimit(l) THEN {e} ELSE {})

\* check_all, in one step of the event loop.  A question that is too long or
\* empty is answered before it is counted and leaves no trace; one that matches
\* a pattern is refused afterwards.  Redis decides, or the pod when there is no
\* client or the pipeline raises, which it may do after it was executed.
Ask(t, p, flagged) ==
    LET id == asked + 1
        entry == [id |-> id, at |-> now]
        redis == HasClient("guard", p) /\ up
    IN /\ req[t] = None
       /\ asked < MaxRequests
       /\ asked' = id
       /\ Connect("guard", p)
       /\ \E l \in {Redis, p} :
             /\ \/ (l = Redis) = redis /\ NoFault
                \/ redis /\ l = p /\ Fault
             /\ window' = [m \in Places |->
                    IF m = l \/ (m = Redis /\ redis) THEN Counted(m, entry)
                                                     ELSE window[m]]
             /\ IF UnderLimit(l)
                THEN /\ admitted' = admitted \cup {[id |-> id, at |-> now, by |-> l]}
                     /\ req' = IF flagged THEN req ELSE
                               [req EXCEPT ![t] =
                                   [pod |-> p, id |-> id, at |-> "load", place |-> p,
                                    previous |-> <<>>, base |-> <<>>]]
                ELSE UNCHANGED <<admitted, req>>
       /\ UNCHANGED <<now, up, session, chain>>

-----------------------------------------------------------------------------
\* The session

Requesting(t, at) == req[t] # None /\ req[t].at = at
End(t) == req' = [req EXCEPT ![t] = None]
StorePlace(p) == IF HasClient("store", p) THEN Redis ELSE p
Answers(l) == l # Redis \/ up

\* session_store.load; if it raises, the request fails.
Load(t) ==
    LET l == StorePlace(req[t].pod) IN
    /\ Requesting(t, "load")
    /\ Connect("store", req[t].pod)
    /\ \/ /\ Answers(l)
          /\ req' = [req EXCEPT ![t] = [@ EXCEPT !.at = "graph", !.place = l,
                                   !.previous = session[l], !.base = chain[l]]]
          /\ NoFault
       \/ ~Answers(l) /\ End(t) /\ NoFault
       \/ l = Redis /\ up /\ Fault /\ End(t)
    /\ UNCHANGED <<now, up, window, session, asked, admitted, chain>>

\* build_next_state keeps the last _HISTORY_MAX_TURNS turns; the first two
\* definitions are faulty variants: one keeps all, one the first of them.
AllTurns(history, turn) == Append(history, turn)

FirstTurns(history, turn) ==
    IF Len(history) < Turns THEN Append(history, turn) ELSE history

NextHistory(history, turn) ==
    LET all == Append(history, turn)
    IN IF Len(all) <= Turns THEN all
       ELSE SubSeq(all, Len(all) - Turns + 1, Len(all))

\* The message event has been sent; session_store.save, which may raise before
\* or after Redis has stored the session.  The done or the error event follows.
Save(t) ==
    LET r == req[t]
        l == StorePlace(r.pod)
    IN /\ Requesting(t, "graph")
       /\ Connect("store", r.pod)
       /\ \/ /\ Answers(l)
             /\ session' = [session EXCEPT ![l] = NextHistory(r.previous, r.id)]
             /\ chain' = [chain EXCEPT ![l] =
                    IF r.place = l /\ r.base = @ THEN Append(@, r.id) ELSE <<r.id>>]
             /\ NoFault
          \/ ~Answers(l) /\ NoFault /\ UNCHANGED <<session, chain>>
          \/ l = Redis /\ up /\ Fault /\ UNCHANGED <<session, chain>>
       /\ End(t)
       /\ UNCHANGED <<now, up, window, asked, admitted>>

\* The run ends without an answer to remember: a request for approval, an
\* exception, the easter egg, or the client is gone.
EndUnanswered(t) ==
    /\ Requesting(t, "graph")
    /\ End(t)
    /\ UNCHANGED <<now, up, conn, window, session, asked, faults, admitted, chain>>

-----------------------------------------------------------------------------
\* The environment

Tick ==
    /\ now < MaxTime
    /\ now' = now + 1
    /\ UNCHANGED <<up, conn, window, session, req, asked, faults, admitted, chain>>

\* setex: the session's hour in Redis is over.
ExpireSession ==
    /\ session' = [session EXCEPT ![Redis] = <<>>]
    /\ chain' = [chain EXCEPT ![Redis] = <<>>]
    /\ UNCHANGED <<now, up, conn, window, req, asked, faults, admitted>>

RedisFails ==
    /\ up /\ Fault
    /\ up' = FALSE
    /\ UNCHANGED <<now, conn, window, session, req, asked, admitted, chain>>

RedisReturns ==
    /\ ~up
    /\ up' = TRUE
    /\ UNCHANGED <<now, conn, window, session, req, asked, faults, admitted, chain>>

\* A pod dies and comes back without clients, counts, sessions and requests.
Crash(p) ==
    /\ Fault
    /\ conn' = [s \in Services |-> [conn[s] EXCEPT ![p] = Unconnected]]
    /\ window' = [window EXCEPT ![p] = {}]
    /\ session' = [session EXCEPT ![p] = <<>>]
    /\ req' = [t \in Threads |->
                  IF req[t] # None /\ req[t].pod = p THEN None ELSE req[t]]
    /\ admitted' = {a \in admitted : a.by # p}
    /\ chain' = [chain EXCEPT ![p] = <<>>]
    /\ UNCHANGED <<now, up, asked>>

Next ==
    \/ \E t \in Threads, p \in Pods, flagged \in BOOLEAN : Ask(t, p, flagged)
    \/ \E t \in Threads : Load(t) \/ Save(t) \/ EndUnanswered(t)
    \/ \E p \in Pods : Crash(p)
    \/ Tick \/ ExpireSession \/ RedisFails \/ RedisReturns

Spec == Init /\ [][Next]_vars

-----------------------------------------------------------------------------
(***************************************************************************)
(* Properties                                                              *)
(***************************************************************************)

\* check_rate_limit lets through at most RATE_LIMIT_MAX requests in any window
\* as long as nothing failed; and when Redis comes and goes, at most that many
\* by Redis and by each pod's memory since the pod started.
AdmittedBounded ==
    LET recent == Recent(admitted)
    IN /\ faults = 0 => Cardinality(recent) <= Limit
       /\ \A l \in Places : Cardinality({a \in recent : a.by = l}) <= Limit

\* chain[l] is the latest questions of a conversation held one at a time in
\* place l: each was asked when the one before had been saved there.  A session
\* remembers such a conversation to the last turn, up to its limit, whatever
\* went before it: overlapping requests, turns kept in another pod's memory,
\* and a session that Redis forgot.
ConversationRemembered ==
    \A l \in Places :
        LET n == Len(chain[l])
            m == Len(session[l])
            k == IF n < Turns THEN n ELSE Turns
        IN m >= k /\ SubSeq(session[l], m - k + 1, m) = SubSeq(chain[l], n - k + 1, n)
=============================================================================
