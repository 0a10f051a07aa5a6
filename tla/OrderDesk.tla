----------------------------- MODULE OrderDesk ------------------------------
(***************************************************************************)
(* Orders as the API writes them (apps/api/app/modules/orders/service.py)  *)
(* while the indexer writes the same rows (apps/api/app/chain/indexer.py). *)
(*                                                                         *)
(* A request is one database transaction: it loads an order and its        *)
(* escrow, decides on what it loaded, sends an UPDATE of the columns it    *)
(* changed, and is committed when the handler returns (get_db).  Several   *)
(* run at once, under PostgreSQL's READ COMMITTED: a load sees what is     *)
(* committed, an UPDATE waits for the transaction that holds the row and   *)
(* is then applied to what that left, where the CHECK constraints judge    *)
(* the result.  No load takes a lock.  The indexer is one more             *)
(* transaction, which loads and flushes once for every event.              *)
(*                                                                         *)
(* How events reach the indexer is the subject of EscrowIndexer.  Here     *)
(* they are confirmed and come in order; the last one, when it is a        *)
(* dispute, may come again (a rescan), as it leaves no transaction row.    *)
(*                                                                         *)
(* Who may call is left out, and so are the entries that statements and    *)
(* dispute intents append to the timeline: nothing reads them.             *)
(***************************************************************************)
EXTENDS Naturals, EscrowEvents, EscrowRows, SequencesExt

CONSTANTS Orders,           \* the ids orders get
          Amount,           \* what each escrow holds
          FeeBps,           \* the fee frozen in each escrow
          Shares,           \* provider shares an arbiter may decide or settle
          Requests,         \* API requests that run at the same time
          Worker            \* the indexer's loop

Processes == Requests \cup {Worker}

DeskAssumption ==
    /\ Amount \in Nat \ {0}
    /\ FeeBps \in 0 .. MaxFeeBps
    /\ Shares \subseteq 0 .. Amount
    /\ Worker \notin Requests

VARIABLES chain,            \* chain[o]: the confirmed events of o's escrow
          db,               \* the committed rows, by key
          txn,              \* the open transaction of each process
          premature         \* orders repaired to figures of an unconfirmed event

vars == <<chain, db, txn, premature>>

-----------------------------------------------------------------------------
(* Rows and transactions.                                                  *)

OrderKey(o) == <<"orders", o>>
EscrowKey(o) == <<"escrows", o>>
IngestedKey(o) == <<"chain_transactions", o>>
ServiceKey == <<"services", "ordered">>

Keys == {ServiceKey} \cup UNION {{OrderKey(o), EscrowKey(o), IngestedKey(o)} : o \in Orders}

OrderStatuses ==
    {"absent", "pending", "expired", "funded", "in_progress", "delivered",
     "completed", "refunded", "disputed"}

NoOrder ==
    [status |-> "absent", funded_at |-> FALSE, delivered_at |-> FALSE, completed_at |-> FALSE]

\* The CHECK constraints of the orders table.
OrderChecks(row) ==
    /\ (row.status = "completed") <=> row.completed_at
    /\ row.delivered_at => row.funded_at
    /\ row.completed_at => row.funded_at

Checks(rows) ==
    \A k \in DOMAIN rows :
        /\ k[1] = "orders" => OrderChecks(rows[k])
        /\ k[1] = "escrows" => RowChecks(rows[k])

\* Some rows or columns laid over others, and a single one.
Over(new, old) ==
    [c \in DOMAIN new \cup DOMAIN old |-> IF c \in DOMAIN new THEN new[c] ELSE old[c]]
Just(k, row) == [x \in {k} |-> row]

\* No transaction: nothing to flush, nothing written.
Closed == [phase |-> "closed", dirty |-> <<>>, wrote |-> <<>>]

\* What p sees of a row: its own writes, and else what is committed.
Visible(p, k) == IF k \in DOMAIN txn[p].wrote THEN txn[p].wrote[k] ELSE db[k]

WholeRow(loaded, new) == new

\* The columns the ORM sends: those that differ from what was loaded.
Changed(loaded, new) ==
    LET columns == {c \in DOMAIN new : new[c] # loaded[c]} IN [c \in columns |-> new[c]]

\* p has loaded rows and set columns of them; new maps keys to rows.
Loaded(p, new) ==
    txn' = [txn EXCEPT
            ![p].phase = "loaded",
            ![p].dirty = [k \in DOMAIN new |-> Changed(Visible(p, k), new[k])]]

Load(p, new) == Loaded(p, new) /\ UNCHANGED <<chain, db, premature>>

\* The rows p's transaction has written once its changes are flushed.
Flushed(p) ==
    LET dirty == txn[p].dirty
        updated == {k \in DOMAIN dirty : DOMAIN dirty[k] # {}}
    IN Over([k \in updated |-> Over(dirty[k], Visible(p, k))], txn[p].wrote)

\* No other transaction holds a row that p wants to write.
LocksFree(p) ==
    \A q \in Processes \ {p} : DOMAIN Flushed(p) \cap DOMAIN txn[q].wrote = {}

Flush(p) ==
    /\ txn[p].phase = "loaded"
    /\ LocksFree(p)
    /\ Checks(Flushed(p))
    /\ txn' = [txn EXCEPT ![p] = [phase |-> "flushed", dirty |-> <<>>, wrote |-> Flushed(p)]]
    /\ UNCHANGED <<chain, db, premature>>

\* The table refuses the row: the request fails, the indexer's pass ends.
Refuse(p) ==
    /\ txn[p].phase = "loaded"
    /\ LocksFree(p)
    /\ ~Checks(Flushed(p))
    /\ txn' = [txn EXCEPT ![p] = Closed]
    /\ UNCHANGED <<chain, db, premature>>

Commit(p) ==
    /\ txn[p].phase = "flushed"
    /\ db' = Over(txn[p].wrote, db)
    /\ txn' = [txn EXCEPT ![p] = Closed]
    /\ UNCHANGED <<chain, premature>>

\* A later step of the handler fails, or the process dies.
Rollback(p) ==
    /\ txn[p].phase # "closed"
    /\ txn' = [txn EXCEPT ![p] = Closed]
    /\ UNCHANGED <<chain, db, premature>>

-----------------------------------------------------------------------------
(* The operations of the API.                                              *)

\* create_order: the id is fresh; the counter is the one loaded, plus one.
CreateOrder(r, o) ==
    /\ txn[r].phase = "closed"
    /\ db[OrderKey(o)] = NoOrder
    /\ \A q \in Processes : OrderKey(o) \notin DOMAIN txn[q].dirty \cup DOMAIN txn[q].wrote
    /\ Load(r, Over(Just(OrderKey(o), [NoOrder EXCEPT !.status = "pending"]),
                    Just(ServiceKey, [db[ServiceKey] EXCEPT !.order_count = @ + 1])))

StartableOnceOrdered(order) == order.status \in {"pending", "funded"}

Startable(order) == order.status = "funded"

StartWork(r, o) ==
    LET order == db[OrderKey(o)] IN
    /\ txn[r].phase = "closed"
    /\ Startable(order)
    /\ Load(r, Just(OrderKey(o), [order EXCEPT !.status = "in_progress"]))

MarkDelivered(r, o) ==
    LET order == db[OrderKey(o)] IN
    /\ txn[r].phase = "closed"
    /\ order.status \in {"funded", "in_progress"}
    /\ Load(r, Just(OrderKey(o), [order EXCEPT !.status = "delivered", !.delivered_at = TRUE]))

\* record_dispute_decision: recorded, not executed.
RecordDecision(r, o, share) ==
    LET order == db[OrderKey(o)]
        escrow == db[EscrowKey(o)]
    IN
    /\ txn[r].phase = "closed"
    /\ order.status = "disputed"
    /\ ~escrow.dispute_resolved_at
    /\ share <= escrow.amount
    /\ Load(r, Just(EscrowKey(o),
            [escrow EXCEPT !.dispute_provider_amount = {share},
                           !.dispute_resolution =
                               SettlementResolution(share, escrow.amount - share),
                           !.dispute_resolved_at = TRUE]))

-----------------------------------------------------------------------------
(* The contract, a repair from it, and the indexer.                        *)

\* The events the contract may emit next for an order that exists.
Upcoming(o) ==
    {event \in EventsOf(o, Amount, FeeBps, Shares) :
        /\ db[OrderKey(o)] # NoOrder
        /\ Follows(event.name) = IF chain[o] = <<>> THEN "none" ELSE Last(chain[o]).name}

\* What a sequence of events makes of an escrow row, each applied once.
Projected(events) ==
    LET row[i \in 0 .. Len(events)] ==
            IF i = 0 THEN NoRow ELSE ApplyToEscrow(row[i - 1], events[i])
    IN row[Len(events)]

Figures == {"amount", "released_amount", "refunded_amount"}

\* repair_order_from_chain copies the figures of the latest block, whose event
\* may not be confirmed yet; the indexer's own columns stay as they are.
RepairOrder(r, o) ==
    LET row == db[EscrowKey(o)] IN
    /\ txn[r].phase = "closed"
    /\ row.status # "absent"
    /\ \E ahead \in {<<>>} \cup {<<event>> : event \in Upcoming(o)} :
          LET onChain == Projected(chain[o] \o ahead) IN
          /\ ~InSync(row, onChain.amount, onChain.released_amount, onChain.refunded_amount)
          /\ Loaded(r, Just(EscrowKey(o),
                [c \in DOMAIN row |-> IF c \in Figures THEN onChain[c] ELSE row[c]]))
          /\ premature' = IF ahead = <<>> THEN premature ELSE premature \cup {o}
    /\ UNCHANGED <<chain, db>>

\* The contract's next event is confirmed.
Emit(o) ==
    \E event \in Upcoming(o) :
        /\ chain' = [chain EXCEPT ![o] = Append(@, event)]
        /\ UNCHANGED <<db, txn, premature>>

\* The part of _apply_to_escrow that moves the order.
ApplyToOrder(order, event) ==
    [order EXCEPT !.status = OrderStatusFor(event.name),
                  !.funded_at = @ \/ event.name = "EscrowCreated",
                  !.completed_at = @ \/ OrderStatusFor(event.name) = "completed"]

\* _apply_event; ingested counts the events of o applied so far.
Apply(o, event, ingested) ==
    LET order == Just(OrderKey(o), ApplyToOrder(Visible(Worker, OrderKey(o)), event))
        escrow == Just(EscrowKey(o), ApplyToEscrow(Visible(Worker, EscrowKey(o)), event))
    IN Load(Worker, Over(order, Over(escrow, Just(IngestedKey(o), [events |-> ingested]))))

\* The pass reaches the next event of o: it continues, or has just begun.
ApplyNext(o) ==
    LET n == Visible(Worker, IngestedKey(o)).events + 1 IN
    /\ txn[Worker].phase # "loaded"
    /\ n <= Len(chain[o])
    /\ Apply(o, chain[o][n], n)

\* The pass rescans the last event it applied, which was a dispute.
ApplyAgain(o) ==
    LET n == Visible(Worker, IngestedKey(o)).events IN
    /\ txn[Worker].phase # "loaded"
    /\ n > 0
    /\ ~HasTxType(chain[o][n].name)
    /\ Apply(o, chain[o][n], n)

\* expire_unfunded_orders, in the worker's own process after a scan; the
\* deadline may have passed at any time.  Requests write no pending order.
ExpireUnfunded(o) ==
    /\ txn[Worker].phase = "closed"
    /\ db[OrderKey(o)].status = "pending"
    /\ db' = [db EXCEPT ![OrderKey(o)].status = "expired"]
    /\ UNCHANGED <<chain, txn, premature>>

-----------------------------------------------------------------------------
Init ==
    /\ chain = [o \in Orders |-> <<>>]
    /\ db = [k \in Keys |->
                CASE k[1] = "services"           -> [order_count |-> 0]
                  [] k[1] = "orders"             -> NoOrder
                  [] k[1] = "escrows"            -> NoRow
                  [] k[1] = "chain_transactions" -> [events |-> 0]]
    /\ txn = [p \in Processes |-> Closed]
    /\ premature = {}

Request(r, o) ==
    \/ CreateOrder(r, o)
    \/ StartWork(r, o)
    \/ MarkDelivered(r, o)
    \/ \E share \in Shares : RecordDecision(r, o, share)
    \/ RepairOrder(r, o)

Index(o) == ApplyNext(o) \/ ApplyAgain(o) \/ ExpireUnfunded(o)

EndTransaction(p) == Flush(p) \/ Refuse(p) \/ Commit(p) \/ Rollback(p)

Next ==
    \/ \E r \in Requests, o \in Orders : Request(r, o)
    \/ \E o \in Orders : Emit(o) \/ Index(o)
    \/ \E p \in Processes : EndTransaction(p)

Spec == Init /\ [][Next]_vars

-----------------------------------------------------------------------------
(* Properties.                                                             *)

\* Rows hold what their columns can hold.
TypeOK ==
    /\ \A o \in Orders :
          /\ db[OrderKey(o)] \in [status : OrderStatuses, funded_at : BOOLEAN,
                                  delivered_at : BOOLEAN, completed_at : BOOLEAN]
          /\ db[EscrowKey(o)] \in EscrowRow
          /\ db[IngestedKey(o)].events \in 0 .. Len(chain[o])
    /\ db[ServiceKey].order_count \in Nat
    /\ \A p \in Processes : txn[p].phase \in {"closed", "loaded", "flushed"}
    /\ premature \subseteq Orders

\* An order is completed exactly when its escrow has been released or settled,
\* in every committed state: a request that loaded the order before the
\* payment was recorded cannot undo it (completed_at_matches_status).
CompletedWhenPaid ==
    \A o \in Orders :
        db[OrderKey(o)].status = "completed" <=> db[EscrowKey(o)].status = "released"

\* "Off-chain records never assert something the chain has not confirmed"
\* (orders/models.py): whatever overlaps, an order is in a state that its
\* escrow has reached.
NeverAheadOfChain ==
    \A o \in Orders :
        LET status == db[OrderKey(o)].status
            escrow == db[EscrowKey(o)].status
        IN
        /\ status \in {"absent", "pending", "expired"} <=> escrow = "absent"
        /\ status \in {"refunded", "disputed"} => escrow = status

\* What the first n events of o make of its escrow row.
Projection(o, n) == Projected(SubSeq(chain[o], 1, n))

DecisionColumns == {"dispute_provider_amount", "dispute_resolution", "dispute_resolved_at"}

\* The columns that mirror the chain say what the events applied so far say,
\* although decisions and repairs write the same row from what they loaded
\* earlier (record_dispute_decision, repair_order_from_chain, _apply_to_escrow).
\* A repair may bring the figures forward to what the chain has confirmed.
EscrowRowFollowsChain ==
    \A o \in Orders :
        LET row == db[EscrowKey(o)]
            projected == Projection(o, db[IngestedKey(o)].events)
            confirmed == Projected(chain[o])
        IN
        /\ \A c \in DOMAIN NoRow \ (DecisionColumns \cup Figures) : row[c] = projected[c]
        /\ o \notin premature =>
              \/ \A c \in Figures : row[c] = projected[c]
              \/ \A c \in Figures : row[c] = confirmed[c]

\* A decision once recorded is there to compare the settlement with: the
\* indexer, which loaded the row before, does not erase it
\* (record_dispute_decision).
DecisionsStay ==
    \A o \in Orders :
        db[EscrowKey(o)].dispute_provider_amount # {}
            => db'[EscrowKey(o)].dispute_provider_amount # {}

\* No request, whenever it overlaps, leaves a row to which the tables refuse
\* the indexer the next event: requests cannot stop the indexing.  Only a repair
\* from a block that the chain then drops can.
WorkerNeverRefused ==
    txn[Worker].phase = "loaded" /\ premature = {} => Checks(Flushed(Worker))

\* What the status of an order is after its escrow was closed this way.
Verdict(o) == OrderStatusFor(Last(chain[o]).name)

\* reconcile_order's notes: "A status divergence stays reported and
\* unrepaired".  When all of o's events are applied and its escrow is closed,
\* an order with another status than the chain gave it is not "in sync".
StatusDivergenceReported ==
    \A o \in Orders :
        LET n == Len(chain[o])
            onChain == Projection(o, n)
        IN
        /\ db[IngestedKey(o)].events = n
        /\ onChain.status \in {"released", "refunded"}
        /\ db[OrderKey(o)].status # Verdict(o)
        => ~InSync(db[EscrowKey(o)], onChain.amount, onChain.released_amount,
                   onChain.refunded_amount)
=============================================================================
