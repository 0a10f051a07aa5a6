----------------------------- MODULE EmailOutbox -----------------------------
(***************************************************************************)
(* The e-mail outbox (apps/api/app/modules/notifications), its worker      *)
(* (deliver-emails in cli.py) and the list of addresses that bounced or    *)
(* complained (notifications/resend_webhook.py).                           *)
(*                                                                         *)
(* A notification is queued in the transaction of what it is about, if the *)
(* gates let it pass; the worker claims due rows, checks the suppression   *)
(* list again, posts to the provider and commits the outcome, which the    *)
(* table may refuse.  What a message says is left out, and whether its     *)
(* recipient has an address, has proven it and wants the message is a      *)
(* choice made when it is queued.                                          *)
(***************************************************************************)
EXTENDS Naturals, Sequences, FiniteSets

CONSTANTS Addresses, Requests,
          MaxAttempts,      \* MAX_EMAIL_ATTEMPTS
          BatchSize,        \* --batch
          MaxDeliveries,    \* bound: messages ever written
          MaxCrashes,       \* bound: how often the worker is killed
          MaxRefusals       \* bound: how often the table ends it

\* Rows are numbered in the order in which they are written.
Deliveries == 1 .. MaxDeliveries

EmailsAssumption ==
    /\ MaxDeliveries \in Nat
    /\ MaxAttempts \in Nat \ {0}
    /\ BatchSize \in Nat \ {0}
    /\ MaxCrashes \in Nat
    /\ MaxRefusals \in Nat

VARIABLES delivery,         \* delivery[d]: the row of notification_deliveries
          due,              \* the due rows by next_retry_at, oldest first
          suppressed,       \* the addresses in email_suppressions
          txn,              \* what each open request will write
          worker,           \* what the worker is doing
          batch,            \* the rows it claimed and has not finished
          received,         \* history: messages of d the provider passed on
          acked,            \* history: those it told the worker of
          late,             \* history: messages to a since it was suppressed
          crashes,          \* history: how often the worker was killed
          refusals          \* history: how often the table ended it

rowVars == <<delivery, due, suppressed>>
workerVars == <<worker, batch>>
historyVars == <<received, acked, late, crashes, refusals>>
vars == <<delivery, due, suppressed, txn, worker, batch,
          received, acked, late, crashes, refusals>>

-----------------------------------------------------------------------------
NoRow == [status |-> "none"]

\* scheduled: next_retry_at is set; failedAt: failed_at is.
Delivery ==
    [status : {"pending", "sent", "failed", "suppressed"}, to : Addresses,
     attempts : 0 .. MaxAttempts, scheduled : BOOLEAN, failedAt : BOOLEAN]

\* failed_at_matches_status.
Checks(row) == (row.status = "failed") <=> row.failedAt

Written == Cardinality({d \in Deliveries : delivery[d] # NoRow})

Queued(d) == delivery[d].status \in {"pending", "failed"} /\ delivery[d].scheduled

Idle == [op |-> "idle"]

\* _deliver, for the e-mail channel: a row that any gate stops is written as
\* suppressed, one that passes them all is due at once.
Notify(r, a, passes) ==
    /\ txn[r] = Idle
    /\ txn' = [txn EXCEPT ![r] =
            [op |-> "notify", to |-> a, passes |-> passes /\ a \notin suppressed]]
    /\ UNCHANGED <<rowVars, workerVars, historyVars>>

\* The transaction of what the message is about commits.
CommitNotify(r) ==
    /\ txn[r].op = "notify"
    /\ Written < MaxDeliveries
    /\ LET passes == txn[r].passes
           d == Written + 1 IN
       /\ delivery' = [delivery EXCEPT ![d] =
               [status |-> IF passes THEN "pending" ELSE "suppressed", to |-> txn[r].to,
                attempts |-> 0, scheduled |-> passes, failedAt |-> FALSE]]
       /\ due' = IF passes THEN Append(due, d) ELSE due
    /\ txn' = [txn EXCEPT ![r] = Idle]
    /\ UNCHANGED <<suppressed, workerVars, historyVars>>

Rollback(r) ==
    /\ txn[r] # Idle
    /\ txn' = [txn EXCEPT ![r] = Idle]
    /\ UNCHANGED <<rowVars, workerVars, historyVars>>

\* The provider reports a hard bounce or a complaint (handle, suppress_email).
Report(a) ==
    /\ a \notin suppressed
    /\ suppressed' = suppressed \cup {a}
    /\ UNCHANGED <<delivery, due, txn, workerVars, historyVars>>

\* unsuppress_email, by an operator.
Unsuppress(a) ==
    /\ a \in suppressed
    /\ suppressed' = suppressed \ {a}
    /\ late' = [late EXCEPT ![a] = 0]
    /\ UNCHANGED <<delivery, due, txn, workerVars, received, acked, crashes, refusals>>

-----------------------------------------------------------------------------
Down == [at |-> "down"]

Ready(available) == [at |-> "ready", available |-> available]

\* The container starts the worker again, perhaps with other settings.
Start ==
    /\ worker = Down
    /\ \E available \in BOOLEAN : worker' = Ready(available)
    /\ UNCHANGED <<rowVars, txn, batch, historyVars>>

Oldest(n) == SubSeq(due, 1, IF Len(due) < n THEN Len(due) ELSE n)

\* claim_due_emails: the claim itself writes nothing.
Claim ==
    /\ worker.at = "ready"
    /\ batch = <<>>
    /\ due # <<>>
    /\ batch' = Oldest(BatchSize)
    /\ UNCHANGED <<rowVars, txn, worker, historyVars>>

\* The row at place i is no longer due.
Without(i) == SubSeq(due, 1, i - 1) \o SubSeq(due, i + 1, Len(due))

\* The worker writes the row of the delivery it is at and commits.  A row the
\* table refuses raises: the transaction is lost and the process ends.
Write(row) ==
    LET d == Head(batch) IN
    \/ /\ Checks(row)
       /\ delivery' = [delivery EXCEPT ![d] = row]
       /\ \E i \in DOMAIN due : due[i] = d /\ due' = Without(i)
       /\ worker' = Ready(worker.available)
       /\ batch' = Tail(batch)
       /\ UNCHANGED refusals
    \/ /\ ~Checks(row)
       /\ refusals < MaxRefusals
       /\ UNCHANGED <<delivery, due>>
       /\ worker' = Down
       /\ batch' = <<>>
       /\ refusals' = refusals + 1

MayMail(d) == delivery[d].to \notin suppressed

\* send_one finds sending switched off or the address suppressed since.
Suppress ==
    /\ worker.at = "ready"
    /\ batch # <<>>
    /\ LET d == Head(batch) IN
       /\ ~worker.available \/ ~MayMail(d)
       /\ Write([delivery[d] EXCEPT !.status = "suppressed", !.scheduled = FALSE])
    /\ UNCHANGED <<suppressed, txn, received, acked, late, crashes>>

Attempt ==
    /\ worker.at = "ready"
    /\ batch # <<>>
    /\ worker.available /\ MayMail(Head(batch))
    /\ worker' = [worker EXCEPT !.at = "posting"]
    /\ UNCHANGED <<rowVars, txn, batch, historyVars>>

\* The provider takes the message ("accepted"), finds the request wrong
\* ("rejected"), is out of order or cannot be reached ("later"), or takes it
\* and does not get its answer across in time ("later" too).
Post ==
    /\ worker.at = "posting"
    /\ \E answer \in {"accepted", "rejected", "later"}, taken \in BOOLEAN :
       LET d == Head(batch)
           a == delivery[d].to IN
       /\ answer = "accepted" => taken
       /\ answer = "rejected" => ~taken
       /\ worker' = [at |-> "answered", available |-> worker.available, answer |-> answer]
       /\ received' = IF taken THEN [received EXCEPT ![d] = @ + 1] ELSE received
       /\ acked' = IF answer = "accepted" THEN [acked EXCEPT ![d] = @ + 1] ELSE acked
       /\ late' = IF taken /\ a \in suppressed THEN [late EXCEPT ![a] = @ + 1] ELSE late
    /\ UNCHANGED <<rowVars, txn, batch, crashes, refusals>>

\* _schedule_retry.
TriesAgain(attempts) == attempts < MaxAttempts

\* _send_email, from the answer on; failed_at is set and never cleared.
Outcome(row, answer) ==
    LET counted == [row EXCEPT !.attempts = @ + 1]
        failed == [counted EXCEPT !.status = "failed", !.failedAt = TRUE] IN
    CASE answer = "accepted" -> [counted EXCEPT !.status = "sent", !.scheduled = FALSE]
      [] answer = "rejected" -> [failed EXCEPT !.scheduled = FALSE]
      [] answer = "later" -> [failed EXCEPT !.scheduled = TriesAgain(failed.attempts)]

Record ==
    /\ worker.at = "answered"
    /\ Write(Outcome(delivery[Head(batch)], worker.answer))
    /\ UNCHANGED <<suppressed, txn, received, acked, late, crashes>>

\* The process is killed; what it had not committed is gone.
Crash ==
    /\ worker # Down
    /\ crashes < MaxCrashes
    /\ worker' = Down
    /\ batch' = <<>>
    /\ crashes' = crashes + 1
    /\ UNCHANGED <<rowVars, txn, received, acked, late, refusals>>

\* RETRY_BACKOFF_SECONDS pass.
BecomeDue(d) ==
    /\ delivery[d].status = "failed" /\ delivery[d].scheduled
    /\ \A i \in DOMAIN due : due[i] # d
    /\ due' = Append(due, d)
    /\ UNCHANGED <<delivery, suppressed, txn, workerVars, historyVars>>

-----------------------------------------------------------------------------
Init ==
    /\ delivery = [d \in Deliveries |-> NoRow]
    /\ due = <<>>
    /\ suppressed = {}
    /\ txn = [r \in Requests |-> Idle]
    /\ worker = Down
    /\ batch = <<>>
    /\ received = [d \in Deliveries |-> 0]
    /\ acked = [d \in Deliveries |-> 0]
    /\ late = [a \in Addresses |-> 0]
    /\ crashes = 0
    /\ refusals = 0

Request(r) ==
    \/ \E a \in Addresses, passes \in BOOLEAN : Notify(r, a, passes)
    \/ CommitNotify(r)
    \/ Rollback(r)

\* What the worker does of itself: the pass, and its restart.
Work == Start \/ Claim \/ Suppress \/ Attempt \/ Post \/ Record

Wait == \E d \in Deliveries : BecomeDue(d)

Next ==
    \/ \E r \in Requests : Request(r)
    \/ \E a \in Addresses : Report(a) \/ Unsuppress(a)
    \/ Work
    \/ Crash
    \/ Wait

\* The worker is restarted whenever it ends and its requests time out, so it
\* always moves on; time passes, so a backoff ends.
Fairness == WF_vars(Work) /\ WF_vars(Wait)

Spec == Init /\ [][Next]_vars /\ Fairness

-----------------------------------------------------------------------------
TypeOK ==
    /\ delivery \in [Deliveries -> Delivery \cup {NoRow}]
    /\ \A d \in Deliveries : delivery[d] # NoRow => Checks(delivery[d])
    /\ due \in Seq(Deliveries)
    /\ batch \in Seq(Deliveries)
    /\ suppressed \subseteq Addresses
    /\ worker.at \in {"down", "ready", "posting", "answered"}

\* However many messages to an address are queued, retried or repeated when it
\* is suppressed, at most one more goes out: the one under way (send_one).
SuppressedLeftAlone == \A a \in Addresses : late[a] <= 1

\* A message is attempted five times and then given up; only a worker killed
\* before it could write the outcome sends once more (send_one).
GivenUpInTheEnd ==
    \A d \in Deliveries : received[d] <= MaxAttempts + crashes

\* A message whose attempt failed cannot be recorded as sent by a later one
\* (the CHECK on failed_at): only what never failed is sure to close.
NothingFailed == \A d \in Deliveries : delivery[d].status # "failed"

Phase(d) ==
    CASE delivery[d].status = "none" -> "none"
      [] Queued(d) -> "queued"
      [] delivery[d].status = "sent" -> "delivered"
      [] OTHER -> "dropped"

\* The outbox delivers at least once, and no more often than its attempts and
\* what cuts the worker short account for (claim_due_emails' docstring).
Abstract == INSTANCE Outbox
            WITH Items <- Deliveries,
                 phase <- [d \in Deliveries |-> Phase(d)],
                 copies <- received, acks <- acked, interruptions <- crashes + refusals

ImplementsOutbox == Abstract!Spec
=============================================================================
