------------------------ MODULE SubscriptionIndexer -------------------------
(***************************************************************************)
(* The subscription indexer, chain/subscription_indexer.py, its loop       *)
(* _index_subscriptions in cli.py and the rows of subscriptions/models.py. *)
(* A pass reads the cursor and the head, applies one chunk of blocks after *)
(* another in one transaction and commits it with the cursor.  The chain   *)
(* moves on between any two steps; a crash loses the transaction.          *)
(*                                                                         *)
(* Block 0 is the block the contract was deployed in, and a block's number *)
(* is its timestamp.  Bounds: MaxHeight, MaxForks, MaxCrashes.             *)
(***************************************************************************)
EXTENDS Integers, SequencesExt

CONSTANTS Subscribers,    \* pairs of a subscriber and a plan
          Period,         \* what one payment covers, in blocks
          Confirmations,  \* CHAIN_CONFIRMATIONS
          ReorgDepth,     \* REORG_DEPTH
          ChunkSize,      \* SCAN_CHUNK_SIZE
          Reorgable,      \* blocks the chain may still replace
          MaxHeight, MaxForks, MaxCrashes

SubscriptionIndexerAssumption ==
    /\ {Period, Confirmations, ChunkSize} \subseteq Nat \ {0}
    /\ {ReorgDepth, Reorgable, MaxHeight, MaxForks, MaxCrashes} \subseteq Nat

VARIABLES head,     \* the number of the newest block
          history,  \* the contract's logs, oldest first
          peak,     \* the highest block seen so far
          forks,    \* reorganisations so far
          db,       \* what is committed
          session,  \* the same tables as the open transaction sees them
          pass,     \* where the worker's loop stands
          crashes

vars == <<head, history, peak, forks, db, session, pass, crashes>>

NoCursor == -1
Idle == [phase |-> "idle", next |-> 0, target |-> 0, reached |-> 0]
NoRow == [end |-> 0, cancelled |-> FALSE]

-----------------------------------------------------------------------------
(* The chain.                                                              *)

\* How many logs are in blocks up to n, and those of blocks a .. b.
Upto(n) == Cardinality({i \in DOMAIN history : history[i].number <= n})
Logs(a, b) == SubSeq(history, Upto(a - 1) + 1, Upto(b))

Pays(log) == log.name = "Subscribed"

\* What an event makes of a subscription.
Mirrored(row, log) ==
    IF Pays(log) THEN [end |-> log.end, cancelled |-> FALSE]
                 ELSE [row EXCEPT !.cancelled = TRUE]

\* The payments of s among the logs, and what the contract holds after them.
Paid(s, logs) == {i \in DOMAIN logs : logs[i].who = s /\ Pays(logs[i])}

Coverage(s, logs) ==
    LET paid == Paid(s, logs) IN
    IF paid = {} THEN NoRow
    ELSE [end |-> logs[Max(paid)].end,
          cancelled |-> \E i \in DOMAIN logs : i > Max(paid) /\ logs[i].who = s]

\* The events one more call of s can emit.  A transaction dropped with its
\* block and mined again is the same transaction: a payment is known by its turn.
Calls(s, logs, n) ==
    LET past == Coverage(s, logs)
        turn == Cardinality(Paid(s, logs))
        block == <<n, forks>>
    IN {[name |-> "Subscribed", who |-> s, tx |-> <<s, turn + 1>>, number |-> n,
         block |-> block, end |-> (IF past.end > n THEN past.end ELSE n) + Period]}
       \cup IF past.end # 0 /\ ~past.cancelled
            THEN {[name |-> "SubscriptionCancelled", who |-> s, tx |-> <<s, 0>>,
                   number |-> n, block |-> block, end |-> past.end]}
            ELSE {}

Mine(logs) ==
    /\ head < MaxHeight
    /\ head' = head + 1
    /\ history' = history \o logs
    /\ peak' = IF head' > peak THEN head' ELSE peak
    /\ UNCHANGED <<forks, db, session, pass, crashes>>

MineEmpty == Mine(<<>>)

MineCall ==
    \E s \in Subscribers : \E log \in Calls(s, history, head + 1) : Mine(<<log>>)

MineTwoCalls ==
    \E s, u \in Subscribers : \E first \in Calls(s, history, head + 1) :
        \E second \in Calls(u, Append(history, first), head + 1) : Mine(<<first, second>>)

Reorg ==
    /\ forks < MaxForks
    /\ \E n \in 0 .. head - 1 :
          /\ n >= peak - Reorgable
          /\ head' = n
          /\ history' = Logs(1, n)
    /\ forks' = forks + 1
    /\ UNCHANGED <<peak, db, session, pass, crashes>>

-----------------------------------------------------------------------------
(* Applying an event.                                                      *)

Recorded(d, log) == log.tx \in DOMAIN d.payments

\* A payment applied before changes no row, but for the block it is in.
ApplySubscribed(d, log) ==
    [d EXCEPT !.payments = [tx \in DOMAIN @ \cup {log.tx} |->
                               IF tx = log.tx THEN log.block ELSE @[tx]],
              !.rows[log.who] = IF Recorded(d, log) THEN @ ELSE Mirrored(@, log)]

\* A cancellation is applied whenever it is read, if there is a row.
ApplyCancelled(d, log) ==
    IF d.rows[log.who] = NoRow THEN d ELSE [d EXCEPT !.rows[log.who] = Mirrored(@, log)]

ApplyEvent(d, log) == IF Pays(log) THEN ApplySubscribed(d, log) ELSE ApplyCancelled(d, log)

ApplyLogs(d, logs) ==
    LET after[i \in 0 .. Len(logs)] ==
            IF i = 0 THEN d ELSE ApplyEvent(after[i - 1], logs[i])
    IN after[Len(logs)]

-----------------------------------------------------------------------------
(* One pass of the loop.                                                   *)

SafeHead(n) == IF n + 1 > Confirmations THEN n - Confirmations + 1 ELSE 0

ResumePoint(cursor) ==
    IF cursor = NoCursor \/ cursor <= ReorgDepth THEN 0 ELSE cursor - ReorgDepth

\* A scan with nothing to do reports the block it would have started from.
StartScan ==
    LET from == ResumePoint(db.cursor) IN
    /\ pass.phase = "idle"
    /\ pass' = [phase |-> "scanning", next |-> from, target |-> SafeHead(head),
                reached |-> Max({from, SafeHead(head)})]
    /\ UNCHANGED <<head, history, peak, forks, db, session, crashes>>

ChunkEnd(from, to) == IF from + ChunkSize - 1 < to THEN from + ChunkSize - 1 ELSE to

ScanChunk ==
    /\ pass.phase = "scanning"
    /\ pass.next <= pass.target
    /\ session' = ApplyLogs(session, Logs(pass.next, ChunkEnd(pass.next, pass.target)))
    /\ pass' = [pass EXCEPT !.next = @ + ChunkSize]
    /\ UNCHANGED <<head, history, peak, forks, db, crashes>>

\* The cursor only moves forward, in the commit that stores the rows.
CommitScan ==
    /\ pass.phase = "scanning"
    /\ pass.next > pass.target
    /\ session' = [session EXCEPT !.cursor = Max({@, pass.reached})]
    /\ db' = session'
    /\ pass' = Idle
    /\ UNCHANGED <<head, history, peak, forks, crashes>>

\* The process dies, the node is down or serves another chain.
Crash ==
    /\ crashes < MaxCrashes
    /\ pass.phase # "idle"
    /\ crashes' = crashes + 1
    /\ session' = db
    /\ pass' = Idle
    /\ UNCHANGED <<head, history, peak, forks, db>>

-----------------------------------------------------------------------------
EmptyTables ==
    [rows |-> [s \in Subscribers |-> NoRow], payments |-> <<>>, cursor |-> NoCursor]

Init ==
    /\ head = 0 /\ history = <<>> /\ peak = 0 /\ forks = 0
    /\ db = EmptyTables /\ session = EmptyTables
    /\ pass = Idle /\ crashes = 0

Worker == StartScan \/ ScanChunk \/ CommitScan

Next == MineEmpty \/ MineCall \/ MineTwoCalls \/ Reorg \/ Worker \/ Crash

\* The loop is restarted when it ends; nothing is assumed of the chain.
Spec == Init /\ [][Next]_vars /\ WF_vars(Worker)

-----------------------------------------------------------------------------
Scanned == IF db.cursor = NoCursor THEN 0 ELSE db.cursor

\* Once the confirmations outlast the reorganisations, the end of the coverage
\* in the database is the contract's at the cursor, whatever is scanned again,
\* interrupted half way, or fetched after the chain moved on.
CoverageFollowsChain ==
    \A s \in Subscribers : db.rows[s].end = Coverage(s, Logs(1, Scanned)).end

\* The receipt trail is the payments up to the cursor, no more and no fewer.
TrailFollowsChain ==
    DOMAIN db.payments = {log.tx : log \in {l \in ToSet(Logs(1, Scanned)) : Pays(l)}}

\* Every payment that is confirmed is on record: true again and again, where
\* none stays out for ever.
UpToDate ==
    \A log \in ToSet(Logs(1, SafeHead(head))) : Pays(log) => log.tx \in DOMAIN db.payments

\* "Renewal off" in the database is what the contract says: a scan repeated
\* over blocks that were applied before changes nothing.
RenewalFollowsChain ==
    \A s \in Subscribers : db.rows[s] = Coverage(s, Logs(1, Scanned))

=============================================================================
