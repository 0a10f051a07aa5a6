---------------------------- MODULE WebhookOutbox ----------------------------
(***************************************************************************)
(* The webhooks of one organization (apps/api/app/modules/webhooks) and    *)
(* the worker that sends them (deliver-webhooks in cli.py).                *)
(*                                                                         *)
(* Requests and the indexer write delivery rows in their own transactions; *)
(* the worker, a single process that is restarted when it ends, claims a   *)
(* batch of due rows and attempts them one by one: it loads the endpoint,  *)
(* posts, and commits what came of it.  It can die between any two of      *)
(* these, and endpoints are revoked meanwhile.  Signatures, bodies, the    *)
(* events' names and the timings shown to the owner are left out.          *)
(***************************************************************************)
EXTENDS Naturals, Sequences, FiniteSets

CONSTANTS Requests,
          MaxEndpoints,     \* MAX_ENDPOINTS_PER_ORG
          MaxAttempts,      \* WEBHOOK_MAX_ATTEMPTS
          BatchSize,        \* --batch
          MaxCreated,       \* bound: endpoints ever created
          MaxDeliveries,    \* bound: deliveries ever queued
          MaxCrashes        \* bound: how often the worker dies

\* Rows are numbered in the order in which they are written.
Endpoints == 1 .. MaxCreated

Deliveries == 1 .. MaxDeliveries

WebhooksAssumption ==
    /\ MaxCreated \in Nat
    /\ MaxDeliveries \in Nat
    /\ MaxEndpoints \in Nat \ {0}
    /\ MaxAttempts \in Nat \ {0}
    /\ BatchSize \in Nat \ {0}
    /\ MaxCrashes \in Nat

VARIABLES endpoint,         \* endpoint[e]: "absent", "active" or "revoked"
          delivery,         \* delivery[d]: the row of webhook_deliveries
          due,              \* the due rows by next_attempt_at, oldest first
          txn,              \* what each open request will write
          worker,           \* what the worker is doing
          batch,            \* the rows it claimed and has not finished
          received,         \* history: copies of d that reached its endpoint
          acked,            \* history: those it answered with a 2xx
          late,             \* history: copies that reached e once revoked
          crashes           \* history: how often the worker died

rowVars == <<endpoint, delivery, due>>
workerVars == <<worker, batch>>
historyVars == <<received, acked, late, crashes>>
vars == <<endpoint, delivery, due, txn, worker, batch, received, acked, late, crashes>>

-----------------------------------------------------------------------------
NoRow == [status |-> "none"]

Open == {"pending", "failed"}

Closed == {"succeeded", "exhausted", "suppressed"}

Delivery == [status : Open \cup Closed, endpoint : Endpoints, attempts : 0 .. MaxAttempts]

Created == Cardinality({e \in Endpoints : endpoint[e] # "absent"})

Written == Cardinality({d \in Deliveries : delivery[d] # NoRow})

Active == {e \in Endpoints : endpoint[e] = "active"}

Idle == [op |-> "idle"]

Begin(r, write) ==
    /\ txn[r] = Idle
    /\ txn' = [txn EXCEPT ![r] = write]
    /\ UNCHANGED <<rowVars, workerVars, historyVars>>

Finish(r) == txn' = [txn EXCEPT ![r] = Idle]

\* create_endpoint.
Create(r) ==
    /\ Cardinality(Active) < MaxEndpoints
    /\ Begin(r, [op |-> "create"])

CommitCreate(r) ==
    /\ txn[r].op = "create"
    /\ Created < MaxCreated
    /\ endpoint' = [endpoint EXCEPT ![Created + 1] = "active"]
    /\ Finish(r)
    /\ UNCHANGED <<delivery, due, workerVars, historyVars>>

\* revoke_endpoint, which reads and commits one row.
Revoke(e) ==
    /\ endpoint[e] = "active"
    /\ endpoint' = [endpoint EXCEPT ![e] = "revoked"]
    /\ UNCHANGED <<delivery, due, txn, workerVars, historyVars>>

\* dispatch, in the transaction of whatever raised the event: a row for every
\* active endpoint that subscribes to it.
Dispatch(r, subscribed) ==
    /\ Active \cap subscribed # {}
    /\ Begin(r, [op |-> "dispatch", targets |-> Active \cap subscribed])

\* The transaction commits: the rows are due at once.  Rows written together
\* have the same time, and so any order.
CommitDispatch(r, targets) ==
    LET n == Written
        new == n + 1 .. n + Len(targets) IN
    /\ txn[r].op = "dispatch"
    /\ {targets[i] : i \in DOMAIN targets} = txn[r].targets
    /\ Len(targets) = Cardinality(txn[r].targets)
    /\ new \subseteq Deliveries
    /\ delivery' = [d \in Deliveries |->
            IF d \in new
            THEN [status |-> "pending", endpoint |-> targets[d - n], attempts |-> 0]
            ELSE delivery[d]]
    /\ due' = due \o [i \in DOMAIN targets |-> n + i]
    /\ Finish(r)
    /\ UNCHANGED <<endpoint, workerVars, historyVars>>

\* The request fails, and the event with it.
Rollback(r) ==
    /\ txn[r] # Idle
    /\ Finish(r)
    /\ UNCHANGED <<rowVars, workerVars, historyVars>>

-----------------------------------------------------------------------------
Down == [at |-> "down"]

\* Between two passes, or between two rows of a batch.
Ready(enabled) == [at |-> "ready", enabled |-> enabled]

\* The container starts the worker again, perhaps with other settings.
Start ==
    /\ worker = Down
    /\ \E enabled \in BOOLEAN : worker' = Ready(enabled)
    /\ UNCHANGED <<rowVars, txn, batch, historyVars>>

\* claim_due.
Claim ==
    /\ worker.at = "ready"
    /\ batch = <<>>
    /\ due # <<>>
    /\ batch' = SubSeq(due, 1, IF Len(due) < BatchSize THEN Len(due) ELSE BatchSize)
    /\ UNCHANGED <<rowVars, txn, worker, historyVars>>

RevocationUnchecked(d) == FALSE

\* The endpoint is loaded for every row of the batch.
Revoked(d) == endpoint[delivery[d].endpoint] # "active"

\* The row at place i is no longer due.
Without(i) == SubSeq(due, 1, i - 1) \o SubSeq(due, i + 1, Len(due))

NotDue(d) == \E i \in DOMAIN due : due[i] = d /\ due' = Without(i)

\* The row is closed without a request: its endpoint is gone, sending is
\* switched off, or the destination is not allowed (any more).
Suppress ==
    /\ worker.at = "ready"
    /\ batch # <<>>
    /\ LET d == Head(batch) IN
       /\ delivery' = [delivery EXCEPT ![d].status = "suppressed", ![d].attempts = @ + 1]
       /\ NotDue(d)
    /\ batch' = Tail(batch)
    /\ UNCHANGED <<endpoint, txn, worker, historyVars>>

\* All checks pass: the request goes out.
Attempt ==
    /\ worker.at = "ready"
    /\ worker.enabled
    /\ batch # <<>>
    /\ ~Revoked(Head(batch))
    /\ worker' = [worker EXCEPT !.at = "posting"]
    /\ UNCHANGED <<rowVars, txn, batch, historyVars>>

\* The request fails before it arrives, or the endpoint receives it and
\* answers: with a 2xx, which is all that counts, or otherwise, or too late.
Post ==
    /\ worker.at = "posting"
    /\ \E arrives, ok \in BOOLEAN :
       LET d == Head(batch)
           e == delivery[d].endpoint IN
       /\ ok => arrives
       /\ worker' = [at |-> "answered", enabled |-> worker.enabled, ok |-> ok]
       /\ received' = IF arrives THEN [received EXCEPT ![d] = @ + 1] ELSE received
       /\ acked' = IF ok THEN [acked EXCEPT ![d] = @ + 1] ELSE acked
       /\ late' = IF arrives /\ endpoint[e] = "revoked" THEN [late EXCEPT ![e] = @ + 1] ELSE late
    /\ UNCHANGED <<rowVars, txn, batch, crashes>>

NeverGivesUp(attempts) == FALSE

GivesUp(attempts) == attempts >= MaxAttempts

AnyAnswerWillDo(ok, attempts) == "succeeded"

Outcome(ok, attempts) ==
    IF ok THEN "succeeded" ELSE IF GivesUp(attempts) THEN "exhausted" ELSE "failed"

\* The attempt and its outcome are committed; a failed row is due again only
\* after the backoff.
Record ==
    /\ worker.at = "answered"
    /\ LET d == Head(batch)
           attempts == delivery[d].attempts + 1 IN
       /\ delivery' = [delivery EXCEPT
               ![d].attempts = attempts, ![d].status = Outcome(worker.ok, attempts)]
       /\ NotDue(d)
    /\ worker' = Ready(worker.enabled)
    /\ batch' = Tail(batch)
    /\ UNCHANGED <<endpoint, txn, historyVars>>

\* The process dies; what it had not committed is gone.
Crash ==
    /\ worker # Down
    /\ crashes < MaxCrashes
    /\ worker' = Down
    /\ batch' = <<>>
    /\ crashes' = crashes + 1
    /\ UNCHANGED <<rowVars, txn, received, acked, late>>

OnlyPendingClaimed(d) == FALSE

\* claim_due looks for failed rows as well as pending ones.
TriedAgain(d) == delivery[d].status = "failed"

\* _backoff passes.
BecomeDue(d) ==
    /\ TriedAgain(d)
    /\ \A i \in DOMAIN due : due[i] # d
    /\ due' = Append(due, d)
    /\ UNCHANGED <<endpoint, delivery, txn, workerVars, historyVars>>

-----------------------------------------------------------------------------
Init ==
    /\ endpoint = [e \in Endpoints |-> "absent"]
    /\ delivery = [d \in Deliveries |-> NoRow]
    /\ due = <<>>
    /\ txn = [r \in Requests |-> Idle]
    /\ worker = Down
    /\ batch = <<>>
    /\ received = [d \in Deliveries |-> 0]
    /\ acked = [d \in Deliveries |-> 0]
    /\ late = [e \in Endpoints |-> 0]
    /\ crashes = 0

Request(r) ==
    \/ Create(r)
    \/ CommitCreate(r)
    \/ \E subscribed \in SUBSET Endpoints : Dispatch(r, subscribed)
    \/ \E n \in Endpoints : \E targets \in [1 .. n -> Endpoints] : CommitDispatch(r, targets)
    \/ Rollback(r)

\* What the worker does of itself: the pass, and its restart.
Work == Start \/ Claim \/ Suppress \/ Attempt \/ Post \/ Record

Wait == \E d \in Deliveries : BecomeDue(d)

Next ==
    \/ \E r \in Requests : Request(r)
    \/ \E e \in Endpoints : Revoke(e)
    \/ Work
    \/ Crash
    \/ Wait

\* The worker is restarted whenever it ends and its requests time out, so it
\* always moves on; time passes, so a backoff ends.
Fairness == WF_vars(Work) /\ WF_vars(Wait)

Spec == Init /\ [][Next]_vars /\ Fairness

-----------------------------------------------------------------------------
TypeOK ==
    /\ endpoint \in [Endpoints -> {"absent", "active", "revoked"}]
    /\ delivery \in [Deliveries -> Delivery \cup {NoRow}]
    /\ due \in Seq(Deliveries)
    /\ batch \in Seq(Deliveries)
    /\ worker.at \in {"down", "ready", "posting", "answered"}
    /\ \A r \in Requests : txn[r].op \in {"idle", "create", "dispatch"}

\* However many events are queued when an endpoint is revoked, and however
\* they are batched, retried and interrupted, at most one request reaches it
\* afterwards: the one that was under way (deliver_one).
AtMostOneInFlight == \A e \in Endpoints : late[e] <= 1

\* Whatever fails or dies, a delivery that was queued is closed in the end
\* (claim_due, deliver_one).
EveryDeliveryCloses ==
    \A d \in Deliveries :
        delivery[d].status \in Open ~> delivery[d].status \in Closed

Phase(row) ==
    CASE row.status = "none" -> "none"
      [] row.status \in Open -> "queued"
      [] row.status = "succeeded" -> "delivered"
      [] row.status \in {"exhausted", "suppressed"} -> "dropped"

\* The outbox delivers at least once, and no more often than its attempts and
\* the worker's deaths account for (claim_due's docstring).
Abstract == INSTANCE Outbox
            WITH Items <- Deliveries,
                 phase <- [d \in Deliveries |-> Phase(delivery[d])],
                 copies <- received, acks <- acked, interruptions <- crashes

ImplementsOutbox == Abstract!Spec
=============================================================================
