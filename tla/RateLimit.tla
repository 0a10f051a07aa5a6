----------------------------- MODULE RateLimit -------------------------------
(***************************************************************************)
(* The limiter in front of the endpoints (apps/api/app/core/rate_limit.py):*)
(* a counter in Redis for each caller and each window of time, incremented *)
(* before the request is handled.                                          *)
(*                                                                         *)
(* A replica of the API reads its clock when a request arrives and talks   *)
(* to Redis a little later; in between others do, and time passes.  Redis  *)
(* drops a counter when its time to live is over, and may be unreachable.  *)
(* The phrases and headers that tell a caller what is left are left out.   *)
(***************************************************************************)
EXTENDS Naturals, FiniteSets

CONSTANTS Callers,          \* records [account, key, address], see Identity
          Replicas,         \* each has at most one request before Redis
          Requests,         \* Limit.requests
          Window,           \* Limit.window_seconds
          MaxTime,          \* bound of the model's clock
          MaxArrivals,      \* bound on the requests of a behaviour
          MaxDelay,         \* between reading the clock and reaching Redis
          None              \* a credential that is missing or not valid

\* A request is with Redis, or given up, within half a window: five seconds to
\* connect and five for the answer (core/redis.py, whose client is taken not to
\* try again), where the shortest window is a minute.
LimitAssumption ==
    /\ Requests \in Nat \ {0} /\ Window \in Nat \ {0}
    /\ MaxTime \in Nat /\ MaxArrivals \in Nat
    /\ MaxDelay \in Nat /\ 2 * MaxDelay <= Window + 2

VARIABLES now,
          arrivals,         \* requests so far, for the bound on them
          counter,          \* counter[k]: the count and its expiry, by key
          arriving,         \* arriving[p]: the request replica p has not counted yet
          admitted,         \* for the properties: admitted[c][t], counted within the quota
                            \* of the requests of c's party that arrived at t
          prompt            \* for the properties: those of them that were counted at once,
                            \* within the second that a counter outlives its window

vars == <<now, arrivals, counter, arriving, admitted, prompt>>

-----------------------------------------------------------------------------

\* client_identity: the account a valid token names, or else the API key, or
\* else the network the address belongs to; an IPv6 caller is its /64
\* (rate_limit_scope).
Identity(c) ==
    IF c.account # None THEN <<"user", c.account>>
    ELSE IF c.key # None THEN <<"key", c.key>>
    ELSE <<"ip", c.address.network>>

Identities == {Identity(c) : c \in Callers}

WindowStart(t) == t - (t % Window)

Keys == Identities \X {WindowStart(t) : t \in 0 .. MaxTime}

MinN(i, j) == IF i < j THEN i ELSE j

Nobody == [caller |-> None, at |-> 0]

NoCounter == [count |-> 0, expires |-> 0]

\* Counts this far above the quota are not told apart.
Saturated(n) == MinN(n, Requests + 1)

\* "window + 1": the counter outlives its window.
TimeToLive == Window + 1

AtMostOneMore(n) == n <= Requests + 1

WithinLimit(n) == n <= Requests

-----------------------------------------------------------------------------
\* check, up to the key: the window is the one the request arrived in.
Arrive(p, c) ==
    /\ arriving[p] = Nobody
    /\ arrivals < MaxArrivals
    /\ arrivals' = arrivals + 1
    /\ arriving' = [arriving EXCEPT ![p] = [caller |-> c, at |-> now]]
    /\ UNCHANGED <<now, counter, admitted, prompt>>

\* Whom a quota is meant for: one account wherever it calls from, one key,
\* or one anonymous network.
SameParty(c, d) ==
    \/ c.account # None /\ c.account = d.account
    \/ {c.account, d.account} = {None} /\ c.key # None /\ c.key = d.key
    \/ {c.account, d.account, c.key, d.key} = {None} /\ c.address.network = d.address.network

OneMore(tally, c, t) ==
    [d \in Callers |->
        IF SameParty(c, d) THEN [tally[d] EXCEPT ![t] = @ + 1] ELSE tally[d]]

Admit(c, t) ==
    /\ admitted' = OneMore(admitted, c, t)
    /\ prompt' = IF now <= t + 1 THEN OneMore(prompt, c, t) ELSE prompt

\* The pipeline of INCR and EXPIRE.
Increment(p) ==
    LET c == arriving[p].caller
        k == <<Identity(c), WindowStart(arriving[p].at)>>
        n == counter[k].count + 1
    IN
    /\ counter' = [counter EXCEPT ![k] = [count |-> Saturated(n), expires |-> now + TimeToLive]]
    /\ IF WithinLimit(n) THEN Admit(c, arriving[p].at) ELSE UNCHANGED <<admitted, prompt>>

Leave(p) ==
    /\ arriving[p] # Nobody
    /\ arriving' = [arriving EXCEPT ![p] = Nobody]
    /\ UNCHANGED <<now, arrivals>>

\* The pipeline and the decision: who is not admitted is refused.
Consume(p) == Leave(p) /\ Increment(p)

\* Redis drops the counters whose time is over.
Tick ==
    /\ now < MaxTime
    /\ \A p \in Replicas : arriving[p] # Nobody => now < arriving[p].at + MaxDelay
    /\ now' = now + 1
    /\ counter' = [k \in Keys |-> IF counter[k].expires <= now' THEN NoCounter ELSE counter[k]]
    /\ UNCHANGED <<arrivals, arriving, admitted, prompt>>

\* Redis is unreachable, or its answer is lost: the request passes, whether or
\* not it was counted and whatever the count.
PassDegraded(p) ==
    /\ Leave(p)
    /\ Increment(p) \/ UNCHANGED <<counter, admitted, prompt>>

Init ==
    /\ now = 0 /\ arrivals = 0
    /\ counter = [k \in Keys |-> NoCounter]
    /\ arriving = [p \in Replicas |-> Nobody]
    /\ admitted = [c \in Callers |-> [t \in 0 .. MaxTime |-> 0]]
    /\ prompt = admitted

Next ==
    \/ \E p \in Replicas :
          Consume(p) \/ PassDegraded(p) \/ \E c \in Callers : Arrive(p, c)
    \/ Tick

Spec == Init /\ [][Next]_vars

-----------------------------------------------------------------------------
TypeOK ==
    /\ now \in 0 .. MaxTime /\ arrivals \in Nat
    /\ counter \in [Keys -> [count : Nat, expires : Nat]]
    /\ arriving \in [Replicas -> [caller : Callers, at : 0 .. MaxTime] \cup {Nobody}]
    /\ admitted \in [Callers -> [0 .. MaxTime -> Nat]]
    /\ prompt \in [Callers -> [0 .. MaxTime -> Nat]]

\* How many of a tally arrived at these times.
Arrived(tally, times) == Cardinality(UNION {{t} \X (1 .. tally[t]) : t \in times})

Stretch(first) == first .. MinN(first + Window - 1, MaxTime)

\* "Briefly allowing up to twice the limit across two adjacent windows": of the
\* requests of a party that arrived within any stretch as long as a window, no
\* more than that are counted at once and let through by the count, whatever
\* addresses they come from, replicas they reach and delays others have.  Those
\* that take longer can find the counter of their window gone; with them it is
\* three times the limit, as long as no delay is more than half a window.
LimitNearlyHolds ==
    \A c \in Callers, first \in 0 .. MaxTime :
        /\ Arrived(prompt[c], Stretch(first)) <= 2 * Requests
        /\ Arrived(admitted[c], Stretch(first)) <= 3 * Requests

\* Nobody is refused for what strangers did: who is refused has had the whole
\* quota of that window let through (client_identity).
RefusesForOwnUse ==
    \A p \in Replicas :
        arriving[p] # Nobody /\ arriving'[p] = Nobody /\ counter' # counter
        /\ admitted' = admitted =>
            Arrived(admitted[arriving[p].caller], Stretch(WindowStart(arriving[p].at)))
                >= Requests
=============================================================================
