----------------------------- MODULE ChainProbe -----------------------------
(***************************************************************************)
(* The readiness check's question to the blockchain node (health/service   *)
(* .py, chain/client.py).  Anyone may ask, each question to the node is    *)
(* billed, and the answer is therefore kept for a while: a caller who      *)
(* finds it stale waits for a lock, looks again, and asks the node only if *)
(* it is stale still.  A question is two calls, the id of the chain and    *)
(* its head, each tried a few times; the node may go away, come back or    *)
(* serve another chain at any moment in between.  Time passes while a call *)
(* is under way, never between two steps without an await.                 *)
(***************************************************************************)
EXTENDS Naturals, Sequences

CONSTANTS Callers,
          Window,      \* how long an answer is kept
          MaxAttempts, \* tries of a call
          MaxTime      \* bound on the clock

Nobody == "nobody"

ProbeAssumption ==
    /\ Window \in Nat \ {0} /\ MaxAttempts \in Nat \ {0} /\ MaxTime \in Nat
    /\ Nobody \notin Callers

VARIABLES now,
          node,   \* what the endpoint does at the moment
          cache,  \* the answer kept, if any, and when it was measured
          lock,   \* the caller who holds the lock, or nobody
          caller, \* per caller: where the request stands
          rounds  \* when the node was asked, in order

vars == <<now, node, cache, lock, caller, rounds>>

Nothing == [status |-> "none"]
Away == [pc |-> "away"]
Queued == [pc |-> "queued"]

\* The right chain, another one, a fault worth a retry, and a flat refusal.
Behaviours == {"ours", "another", "flaky", "refusing"}

Answer(status) == [status |-> status, at |-> now]

\* _cached_chain
Fresh == cache # Nothing /\ now - cache.at < Window

Asking(method) == [pc |-> "asking", method |-> method, attempt |-> 1, chain |-> "none"]

Init ==
    /\ now = 0
    /\ node \in Behaviours
    /\ cache = Nothing
    /\ lock = Nobody
    /\ caller = [c \in Callers |-> Away]
    /\ rounds = <<>>

-----------------------------------------------------------------------------
\* check_chain as far as its first await.  A fresh answer is given at once,
\* and changes nothing.
Ask(c) ==
    /\ caller[c] = Away
    /\ ~Fresh
    /\ caller' = [caller EXCEPT ![c] = Queued]
    /\ UNCHANGED <<now, node, cache, lock, rounds>>

\* What the one who gets the lock does about an answer come meanwhile.
NotLookedAgain == FALSE
ServedMeanwhile == Fresh

\* check_chain, the lock acquired: it looks again, and asks the node.
Enter(c) ==
    /\ caller[c] = Queued /\ lock = Nobody
    /\ IF ServedMeanwhile
       THEN /\ caller' = [caller EXCEPT ![c] = Away]
            /\ UNCHANGED <<lock, rounds>>
       ELSE /\ caller' = [caller EXCEPT ![c] = Asking("chain_id")]
            /\ lock' = c
            /\ rounds' = Append(rounds, now)
    /\ UNCHANGED <<now, node, cache>>

\* _probe_chain's verdict, kept whatever it is, and the lock released.
Conclude(c, status) ==
    /\ cache' = Answer(status)
    /\ caller' = [caller EXCEPT ![c] = Away]
    /\ lock' = Nobody

\* health_check: the endpoint must have named the chain that is expected.
Verdict(chain) == IF chain = "ours" THEN "ok" ELSE "down"

\* The call is answered: the chain id is compared once the head is known.
Answered(c) ==
    /\ node \in {"ours", "another"}
    /\ IF caller[c].method = "chain_id"
       THEN /\ caller' = [caller EXCEPT ![c] = [Asking("head") EXCEPT !.chain = node]]
            /\ UNCHANGED <<cache, lock>>
       ELSE Conclude(c, Verdict(caller[c].chain))

\* _call: a dropped connection, a 429, a 5xx or an error worth a retry.
Failed(c) ==
    /\ node = "flaky"
    /\ IF caller[c].attempt < MaxAttempts
       THEN /\ caller' = [caller EXCEPT ![c].attempt = @ + 1]
            /\ UNCHANGED <<cache, lock>>
       ELSE Conclude(c, "down")

\* _call: a 4xx or an error that no retry mends.
Rejected(c) == node = "refusing" /\ Conclude(c, "down")

Respond(c) ==
    /\ caller[c].pc = "asking"
    /\ Answered(c) \/ Failed(c) \/ Rejected(c)
    /\ UNCHANGED <<now, node, rounds>>

\* Another endpoint behind the same name, an outage, a recovery.
Turn(to) ==
    /\ to # node
    /\ node' = to
    /\ UNCHANGED <<now, cache, lock, caller, rounds>>

Tick ==
    /\ now < MaxTime
    /\ now' = now + 1
    /\ UNCHANGED <<node, cache, lock, caller, rounds>>

Next ==
    \/ \E c \in Callers : Ask(c) \/ Enter(c) \/ Respond(c)
    \/ \E to \in Behaviours : Turn(to)
    \/ Tick

Spec == Init /\ [][Next]_vars

-----------------------------------------------------------------------------
Statuses == {"ok", "down"}
Kept == [status : Statuses, at : 0 .. MaxTime] \cup {Nothing}

\* Who holds the lock asks the node, and nobody else does (health/service.py,
\* _chain_cache_lock).
TypeOK ==
    /\ now \in 0 .. MaxTime
    /\ node \in Behaviours
    /\ cache \in Kept
    /\ \A c \in Callers : caller[c].pc = "asking" <=> lock = c

\* However many ask, and whatever the node does, it is asked once per window:
\* the next time comes a full window after the time before, failures included
\* (health/service.py, CHAIN_CACHE_SECONDS and check_chain).
OneRoundPerWindow ==
    \A i, j \in DOMAIN rounds : i < j => rounds[j] - rounds[i] >= Window
=============================================================================
