------------------------------ MODULE MCWorkers ------------------------------
(***************************************************************************)
(* The two outboxes and their workers, checked in one run: a behaviour is  *)
(* a behaviour of one of them, chosen at the start, and the other's        *)
(* variables have no value of their kind in it.                            *)
(***************************************************************************)
EXTENDS Naturals, Sequences, FiniteSets

CONSTANTS Requests, Addresses,
          MaxEndpoints, MaxAttempts, BatchSize,
          MaxCreated, MaxDeliveries, MaxCrashes, MaxRefusals

Deliveries == 1 .. MaxDeliveries

VARIABLES part,
          endpoint, hook, hookDue, hookTxn, hookWorker, hookBatch,
          hookReceived, hookAcked, hookLate, hookCrashes,
          mail, mailDue, suppressed, mailTxn, mailWorker, mailBatch,
          mailReceived, mailAcked, mailLate, mailCrashes, refusals

hookVars == <<endpoint, hook, hookDue, hookTxn, hookWorker, hookBatch,
              hookReceived, hookAcked, hookLate, hookCrashes>>
mailVars == <<mail, mailDue, suppressed, mailTxn, mailWorker, mailBatch,
              mailReceived, mailAcked, mailLate, mailCrashes, refusals>>

vars == <<part, hookVars, mailVars>>

Hook == INSTANCE WebhookOutbox
        WITH delivery <- hook, due <- hookDue, txn <- hookTxn, worker <- hookWorker,
             batch <- hookBatch, received <- hookReceived, acked <- hookAcked,
             late <- hookLate, crashes <- hookCrashes

Mail == INSTANCE EmailOutbox
        WITH delivery <- mail, due <- mailDue, txn <- mailTxn, worker <- mailWorker,
             batch <- mailBatch, received <- mailReceived, acked <- mailAcked,
             late <- mailLate, crashes <- mailCrashes

ASSUME WorkersAssumption == Hook!WebhooksAssumption /\ Mail!EmailsAssumption

NoHook ==
    /\ endpoint = 0 /\ hook = 0 /\ hookDue = 0 /\ hookTxn = 0 /\ hookWorker = 0
    /\ hookBatch = 0 /\ hookReceived = 0 /\ hookAcked = 0 /\ hookLate = 0
    /\ hookCrashes = 0

NoMail ==
    /\ mail = 0 /\ mailDue = 0 /\ suppressed = 0 /\ mailTxn = 0 /\ mailWorker = 0
    /\ mailBatch = 0 /\ mailReceived = 0 /\ mailAcked = 0 /\ mailLate = 0
    /\ mailCrashes = 0 /\ refusals = 0

Init ==
    \/ part = "webhooks" /\ Hook!Init /\ NoMail
    \/ part = "e-mails" /\ Mail!Init /\ NoHook

Webhooks(A) == part = "webhooks" /\ A /\ UNCHANGED <<part, mailVars>>

EMails(A) == part = "e-mails" /\ A /\ UNCHANGED <<part, hookVars>>

Next == Webhooks(Hook!Next) \/ EMails(Mail!Next)

\* The fairness of each component, while it is the one that runs.
Fairness ==
    /\ WF_vars(Webhooks(Hook!Work) \/ EMails(Mail!Work))
    /\ WF_vars(Webhooks(Hook!Wait) \/ EMails(Mail!Wait))

Spec == Init /\ [][Next]_vars /\ Fairness

-----------------------------------------------------------------------------
(* The properties are those of the components, by the same names.          *)

\* The rows of both outboxes are well formed.
TypeOK == IF part = "webhooks" THEN Hook!TypeOK ELSE Mail!TypeOK

\* A revoked endpoint or a suppressed address gets the request under way at
\* most (webhooks/service.py, notifications/service.py).
WithdrawnLeftAlone ==
    /\ part = "webhooks" => Hook!AtMostOneInFlight
    /\ part = "e-mails" => Mail!SuppressedLeftAlone

\* An e-mail is given up after its attempts (notifications/service.py).
GivenUpInTheEnd == part = "e-mails" => Mail!GivenUpInTheEnd

\* Every queued webhook is closed in the end, and every queued e-mail unless an
\* attempt fails (claim_due, deliver, claim_due_emails).
EveryDeliveryCloses ==
    \A d \in Deliveries :
        /\ (part = "webhooks" /\ hook[d].status \in Hook!Open)
               ~> (part = "webhooks" /\ hook[d].status \in Hook!Closed)
        /\ [](part = "e-mails" /\ Mail!NothingFailed) =>
               (part = "e-mails" /\ Mail!Queued(d)) ~> (part = "e-mails" /\ ~Mail!Queued(d))

\* Both outboxes implement the abstract one (claim_due, claim_due_emails).
Abstract ==
    INSTANCE Outbox
    WITH Items <- Deliveries,
         phase <- [d \in Deliveries |->
                      IF part = "webhooks" THEN Hook!Phase(hook[d]) ELSE Mail!Phase(d)],
         copies <- IF part = "webhooks" THEN hookReceived ELSE mailReceived,
         acks <- IF part = "webhooks" THEN hookAcked ELSE mailAcked,
         interruptions <- IF part = "webhooks" THEN hookCrashes ELSE mailCrashes + refusals

ImplementsOutbox == Abstract!Spec
=============================================================================
