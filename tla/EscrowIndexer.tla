--------------------------- MODULE EscrowIndexer ----------------------------
(***************************************************************************)
(* The escrow indexer, apps/api/app/chain/indexer.py, and the loop that    *)
(* runs it and the expiry sweep, _index_chain in apps/api/app/cli.py.      *)
(*                                                                         *)
(* A pass of the loop reads the head of the chain, then, in one database   *)
(* transaction, applies the logs of one chunk of blocks after another and  *)
(* saves the cursor; after the commit it expires unfunded orders.  Between *)
(* any two of these steps the chain grows or reorganises, and at any of    *)
(* them the process can die or an RPC call fail, which loses the           *)
(* transaction: the supervisor restarts the loop.                          *)
(*                                                                         *)
(* Block 0 is the block the contract was deployed in.  A block's number    *)
(* serves as the time the funding deadline is measured in.  A              *)
(* transaction's hash stands for the calls it makes.                       *)
(*                                                                         *)
(* Bounds: MaxHeight, MaxForks, MaxCrashes; audit counts stop at two.      *)
(***************************************************************************)
EXTENDS Integers, EscrowEvents, EscrowRows, SequencesExt

CONSTANTS Orders,           \* orders the database knows
          Strangers,        \* escrows on the chain with no order
          Amount,           \* what each escrow holds
          FeeBps,           \* the fee frozen in each escrow
          Shares,           \* provider shares an arbiter may award
          Confirmations,    \* CHAIN_CONFIRMATIONS
          ReorgDepth,       \* REORG_DEPTH, how far a stored cursor is rewound
          ChunkSize,        \* SCAN_CHUNK_SIZE
          FundingDeadline,  \* funding_deadline of every order, in blocks
          ExpiryGrace,      \* EXPIRY_GRACE, in blocks
          Reorgable,        \* blocks the chain may still replace
          SettleDelay,      \* blocks between a dispute and its settlement
          BatchedCalls,     \* whether a transaction may make two calls
          Stall,            \* blocks mined during one pass of the loop
          MaxHeight, MaxForks, MaxCrashes

Escrows == Orders \cup Strangers

IndexerAssumption ==
    /\ Orders \cap Strangers = {}
    /\ {Amount, ChunkSize, Confirmations} \subseteq Nat \ {0}
    /\ Shares \subseteq 0 .. Amount
    /\ FeeBps \in 0 .. MaxFeeBps
    /\ {ReorgDepth, FundingDeadline, ExpiryGrace, Reorgable, SettleDelay, Stall} \subseteq Nat
    /\ BatchedCalls \in BOOLEAN
    /\ {MaxHeight, MaxForks, MaxCrashes} \subseteq Nat

VARIABLES head,             \* the number of the newest block
          history,          \* the logs of all blocks, oldest first
          peak,             \* the highest block number seen so far
          forks,            \* reorganisations so far
          db,               \* what is committed
          session,          \* the same tables as the open transaction sees them
          pass,             \* where the worker's loop stands
          crashes

vars == <<head, history, peak, forks, db, session, pass, crashes>>

NoCursor == -1

Idle == [phase |-> "idle", next |-> 0, target |-> 0, reached |-> 0, started |-> 0]

OrderStatuses == {"pending", "expired", "funded", "completed", "refunded", "disputed"}

-----------------------------------------------------------------------------
(* The chain: the events of the escrow contract, in legal order.           *)

\* How many logs are in blocks up to n.
Upto(n) == Cardinality({i \in DOMAIN history : history[i].number <= n})

\* get_logs: the logs of blocks a .. b.
Logs(a, b) == SubSeq(history, Upto(a - 1) + 1, Upto(b))

\* All events of an escrow without an order are skipped alike: one stands for all.
Events ==
    (UNION {EventsOf(o, Amount, FeeBps, Shares) : o \in Orders})
    \cup {EscrowCreated(s, Amount) : s \in Strangers}

\* The contract can emit this event after these logs, in a block at height n.
Legal(event, logs, n) ==
    LET past == {i \in DOMAIN logs : logs[i].event.escrowId = event.escrowId}
        latest == logs[Max(past)]
    IN /\ Follows(event.name) = IF past = {} THEN "none" ELSE latest.event.name
       /\ event.name = "EscrowSettled" => n >= latest.number + SettleDelay

\* A block's hash is its number and the fork it was mined on.
Log(event, tx, n) == [event |-> event, tx |-> tx, number |-> n, block |-> <<n, forks>>]

Mine(logs) ==
    /\ head < MaxHeight
    /\ pass.phase # "idle" => peak < pass.started + Stall
    /\ head' = head + 1
    /\ history' = history \o logs
    /\ peak' = IF head' > peak THEN head' ELSE peak
    /\ UNCHANGED <<forks, db, session, pass, crashes>>

MineEmpty == Mine(<<>>)

MineCall ==
    LET n == head + 1 IN
    \E event \in Events :
        /\ Legal(event, history, n)
        /\ Mine(<<Log(event, <<event>>, n)>>)

\* Two calls in one block, by one transaction (a multicall) or by two.
MineTwoCalls ==
    LET n == head + 1 IN
    \E first \in Events :
        /\ Legal(first, history, n)
        /\ \E second \in Events :
              /\ Legal(second, Append(history, Log(first, <<first>>, n)), n)
              /\ \/ Mine(<<Log(first, <<first>>, n), Log(second, <<second>>, n)>>)
                 \/ /\ BatchedCalls
                    /\ Mine(<<Log(first, <<first, second>>, n),
                              Log(second, <<first, second>>, n)>>)

\* The newest blocks are dropped; others take their place.
Reorg ==
    /\ forks < MaxForks
    /\ \E n \in 0 .. head - 1 :
          /\ n >= peak - Reorgable
          /\ head' = n
          /\ history' = Logs(1, n)
    /\ forks' = forks + 1
    /\ UNCHANGED <<peak, db, session, pass, crashes>>

-----------------------------------------------------------------------------
(* Applying an event.                                                      *)

\* The CHECK constraints on both tables.
Checks(d) ==
    \A o \in Orders :
        /\ RowChecks(d.rows[o])
        /\ (d.orders[o].status = "completed") <=> d.orders[o].completed_at

\* _record_transaction
RecordTransaction(txs, log) ==
    IF HasTxType(log.event.name)
    THEN [tx \in DOMAIN txs \cup {log.tx} |-> IF tx = log.tx THEN log.block ELSE txs[tx]]
    ELSE txs

\* The part of _apply_to_escrow that moves the order.
ApplyToOrder(order, name) ==
    [status       |-> OrderStatusFor(name),
     completed_at |-> order.completed_at \/ OrderStatusFor(name) = "completed"]

\* Counting to "more than once" is enough for an audit trail.
Noted(count) == IF count < 2 THEN count + 1 ELSE 2

NeverSeen(d, log) == FALSE

\* The transaction is already recorded.
Seen(d, log) == log.tx \in DOMAIN d.txs

\* _apply_event: orphan, re-mined, duplicate, or new.
ApplyEvent(d, log) ==
    LET e == log.event.escrowId
        name == log.event.name
        early == d.rows[e].status = "absent" /\ name # "EscrowCreated"
    IN
    CASE e \notin Orders -> d
      [] e \in Orders /\ Seen(d, log) -> [d EXCEPT !.txs[log.tx] = log.block]
      [] e \in Orders /\ ~Seen(d, log) ->
            [d EXCEPT !.txs = RecordTransaction(@, log),
                      !.rows[e] = ApplyToEscrow(@, log.event),
                      !.orders[e] = IF early THEN @ ELSE ApplyToOrder(@, name),
                      !.trail[e][name] = Noted(@)]

\* Every event is flushed: the first the tables refuse ends the transaction.
ApplyLogs(d, logs) ==
    LET after[i \in 0 .. Len(logs)] ==
            IF i = 0 THEN d
            ELSE LET before == after[i - 1] IN
                 IF Checks(before) THEN ApplyEvent(before, logs[i]) ELSE before
    IN after[Len(logs)]

-----------------------------------------------------------------------------
(* One pass of the loop.                                                   *)

NearFrontier(n) == IF n + 2 > Confirmations THEN n - Confirmations + 2 ELSE 0

\* safe_head: anything newer is not settled.
SafeHead(n) == IF n + 1 > Confirmations THEN n - Confirmations + 1 ELSE 0

RewindPastGenesis(cursor) == IF cursor = NoCursor THEN 0 ELSE cursor - ReorgDepth

\* resume_point: a stored cursor is rewound before being trusted.
ResumePoint(cursor) ==
    IF cursor = NoCursor \/ cursor <= ReorgDepth THEN 0 ELSE cursor - ReorgDepth

\* _save_cursor only ever moves forward.
SaveCursor(cursor, block) ==
    IF cursor = NoCursor \/ block > cursor THEN block ELSE cursor

\* run_once reads the cursor, and scan the head.  A scan with nothing to do
\* reports the block it would have started from.
StartScan ==
    LET from == ResumePoint(db.cursor)
        target == SafeHead(head)
    IN
    /\ pass.phase = "idle"
    /\ pass' = [phase |-> "scanning", next |-> from, target |-> target,
                reached |-> IF target < from THEN from ELSE target, started |-> peak]
    /\ UNCHANGED <<head, history, peak, forks, db, session, crashes>>

\* The last block of the chunk that starts at from.
ChunkEnd(from, to) == IF from + ChunkSize - 1 < to THEN from + ChunkSize - 1 ELSE to

\* The next chunk is fetched and applied; what the tables refuse kills the pass.
ScanChunk ==
    /\ pass.phase = "scanning"
    /\ pass.next <= pass.target
    /\ \E after \in {ApplyLogs(session, Logs(pass.next, ChunkEnd(pass.next, pass.target)))} :
          \/ /\ Checks(after)
             /\ session' = after
             /\ pass' = [pass EXCEPT !.next = @ + ChunkSize]
          \/ /\ ~Checks(after)
             /\ session' = db
             /\ pass' = Idle
    /\ UNCHANGED <<head, history, peak, forks, db, crashes>>

\* The position is saved with the records, in one commit.
CommitScan ==
    /\ pass.phase = "scanning"
    /\ pass.next > pass.target
    /\ session' = [session EXCEPT !.cursor = SaveCursor(@, pass.reached)]
    /\ db' = session'
    /\ pass' = [pass EXCEPT !.phase = "sweeping"]
    /\ UNCHANGED <<head, history, peak, forks, crashes>>

OverdueOnly(order) == peak > FundingDeadline + ExpiryGrace
UnpaidAtDeadline(order) == order.status = "pending" /\ peak > FundingDeadline

\* What expire_unfunded_orders selects.
Stale(order) == order.status = "pending" /\ peak > FundingDeadline + ExpiryGrace

\* expire_unfunded_orders, only ever after a scan that succeeded.
ExpireUnfunded ==
    /\ pass.phase = "sweeping"
    /\ db' = [db EXCEPT !.orders =
                [o \in Orders |-> IF Stale(@[o]) THEN [@[o] EXCEPT !.status = "expired"]
                                  ELSE @[o]]]
    /\ session' = db'
    /\ pass' = Idle
    /\ UNCHANGED <<head, history, peak, forks, crashes>>

\* The process dies, an RPC call fails, or the recomputation of a reputation
\* swallows an error of the database that has aborted the transaction; what is
\* not committed is lost.
Crash ==
    /\ crashes < MaxCrashes
    /\ pass.phase # "idle"
    /\ crashes' = crashes + 1
    /\ session' = db
    /\ pass' = Idle
    /\ UNCHANGED <<head, history, peak, forks, db>>

-----------------------------------------------------------------------------
EmptyTables ==
    [orders |-> [o \in Orders |-> [status |-> "pending", completed_at |-> FALSE]],
     rows   |-> [o \in Orders |-> NoRow],
     txs    |-> <<>>,
     trail  |-> [o \in Orders |-> [name \in EventNames |-> 0]],
     cursor |-> NoCursor]

Init ==
    /\ head = 0
    /\ history = <<>>
    /\ peak = 0
    /\ forks = 0
    /\ db = EmptyTables
    /\ session = EmptyTables
    /\ pass = Idle
    /\ crashes = 0

Worker == StartScan \/ ScanChunk \/ CommitScan \/ ExpireUnfunded

Next == MineEmpty \/ MineCall \/ MineTwoCalls \/ Reorg \/ Worker \/ Crash

\* The loop has no exit of its own and its container is restarted, so the
\* worker keeps taking steps; nothing is assumed of the chain.
Spec == Init /\ [][Next]_vars /\ WF_vars(Worker)

-----------------------------------------------------------------------------
(* Properties.                                                             *)

\* Tables, cursor and loop hold values they could hold.
TypeOK ==
    /\ \A d \in {db, session} :
          /\ d.orders \in [Orders -> [status : OrderStatuses, completed_at : BOOLEAN]]
          /\ d.rows \in [Orders -> EscrowRow]
          /\ d.trail \in [Orders -> [EventNames -> 0 .. 2]]
          /\ d.cursor \in {NoCursor} \cup 0 .. MaxHeight
    /\ pass.phase \in {"idle", "scanning", "sweeping"}
    /\ {pass.next, pass.target, pass.reached, pass.started} \subseteq 0 .. MaxHeight + ChunkSize
    /\ peak \in head .. MaxHeight

Scanned == IF db.cursor = NoCursor THEN 0 ELSE db.cursor

\* What the events of blocks 1 .. n make of an escrow's row, each applied once.
Projection(o, n) ==
    LET row[i \in 0 .. Upto(n)] ==
            IF i = 0 THEN NoRow
            ELSE IF history[i].event.escrowId = o
                 THEN ApplyToEscrow(row[i - 1], history[i].event) ELSE row[i - 1]
    IN row[Upto(n)]

\* The committed escrow rows are exactly what the confirmed chain up to the
\* cursor says, at every moment: although every pass scans again blocks that
\* earlier passes applied, may die half way through a range, and reads the
\* logs of each chunk later than it read the head (scan, resume_point,
\* run_once).
RowsFollowChain == \A o \in Orders : db.rows[o] = Projection(o, Scanned)

\* How often an event of this name has happened to o in blocks 1 .. n.
Occurrences(o, name, n) ==
    Cardinality({i \in 1 .. Upto(n) :
                    history[i].event.escrowId = o /\ history[i].event.name = name})

\* Every settlement event up to the cursor is in the order's audit trail,
\* once: the events with a transaction row are deduplicated (_apply_event).
AppliedOnce ==
    \A o \in Orders, name \in EventNames :
        HasTxType(name) => db.trail[o][name] = Occurrences(o, name, Scanned)

\* An order says what its escrow says: whatever the sweep does in between,
\* the two tables agree in every committed state (_apply_to_escrow).
OrderMatchesEscrow ==
    \A o \in Orders :
        LET status == db.orders[o].status IN
        CASE db.rows[o].status = "absent" -> status \in {"pending", "expired"}
          [] db.rows[o].status = "released" -> status = "completed"
          [] OTHER -> status = db.rows[o].status

\* An order paid by its funding deadline is never expired: the sweep waits
\* out the confirmations and runs only when the chain has just been read
\* (expire_unfunded_orders, _index_chain).
PaidInTimeNotExpired ==
    \A o \in Orders :
        db.orders[o].status = "expired" =>
            \A i \in 1 .. Upto(FundingDeadline) : history[i].event.escrowId # o

CaughtUp == db.cursor >= SafeHead(peak - Reorgable)

\* The indexer always catches up with the blocks buried deep enough never to
\* be replaced: no scan is refused for ever (run_once, _index_chain).  The
\* bound MaxHeight makes the chain pause, so it can.
IndexingContinues == []<>CaughtUp
=============================================================================
