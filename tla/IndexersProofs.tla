--------------------------- MODULE IndexersProofs ---------------------------
(***************************************************************************)
(* The properties MCIndexers states of the mirrors the two indexers keep,  *)
(* for any orders, subscribers, depths, chunks, forks and crashes.         *)
(*                                                                         *)
(* The rows are a fold of the logs, and the argument is about which logs:  *)
(* the first so many of the history, cut off at a block.  Of the chain the *)
(* invariant says which logs can come in which order (Emitted) and that no *)
(* fork reaches a settled block; of the worker, that what is committed     *)
(* mirrors the logs up to the cursor and what its transaction sees those   *)
(* up to where the pass has come (Mirrors), and that both are settled.     *)
(* A pass goes over blocks again: what was applied before is recognised,   *)
(* or leaves the row as it is, and what is new is applied in order.        *)
(*                                                                         *)
(* What a recursive definition computes is not known to the provers: its   *)
(* solution is shown to exist up to every length, and what holds of each   *)
(* stage by the least length at which it could fail (IntervalInduction).   *)
(***************************************************************************)
EXTENDS MCIndexers, DataFacts

-----------------------------------------------------------------------------
(* The components' library operators are the library's.                    *)

LEMMA SameCardinality ==
    ASSUME NEW S
    PROVE  Steady!Cardinality(S) = Cardinality(S) /\ Subs!Cardinality(S) = Cardinality(S)
BY DEF Steady!Cardinality, Subs!Cardinality, Cardinality

LEMMA SameMax ==
    ASSUME NEW S
    PROVE  Steady!Max(S) = Max(S) /\ Subs!Max(S) = Max(S)
BY DEF Steady!Max, Subs!Max, Max

LEMMA SameToSet ==
    ASSUME NEW s
    PROVE  Subs!ToSet(s) = ToSet(s)
BY DEF Subs!ToSet, ToSet

LEMMA Constants ==
    Steady!IndexerAssumption /\ BpsDenominator \in Nat \ {0} /\ MaxFeeBps \in 0 .. BpsDenominator
BY IndexersAssumption

LEMMA SteadyDepths ==
    /\ Reorgable < Confirmations /\ ReorgDepth < SettleDelay
    /\ Confirmations + Reorgable + Stall <= ExpiryGrace + 2
BY SteadyChainAssumption

LEMMA SubscriptionConstants == Subs!SubscriptionIndexerAssumption
BY IndexersAssumption

LEMMA ConfirmedStays == Reorgable < Confirmations
BY SteadyChainAssumption

LEMMA LogsUpto ==
    ASSUME NEW n
    PROVE  Steady!Upto(n) = Cut(history, n) /\ Subs!Upto(n) = Cut(history, n)
BY SameCardinality DEF Steady!Upto, Subs!Upto, Cut

\* The fee on a value, at a rate within the cap, is at most the value.
LEMMA FeeBounded ==
    ASSUME NEW value \in Nat
    PROVE  Steady!FeeOf(value, FeeBps) \in 0 .. value
<1>1. BpsDenominator \in Nat \ {0} /\ FeeBps \in Nat /\ FeeBps <= BpsDenominator
  BY Constants DEF Steady!IndexerAssumption
<1>2. value * FeeBps \in Nat /\ value * FeeBps <= value * BpsDenominator
  BY <1>1
<1>3. \A x, d \in Nat, v \in Nat : d # 0 /\ x <= v * d => x \div d \in 0 .. v
  OBVIOUS
<1>4. QED
  BY <1>1, <1>2, <1>3 DEF Steady!FeeOf

\* The figures an event carries are amounts.
Figures(event) ==
    /\ event.name \in Steady!EventNames /\ event.escrowId \in Steady!Escrows
    /\ event.name \in {"EscrowCreated", "EscrowRefunded"} => event.amount \in Nat
    /\ event.name \in {"EscrowReleased", "EscrowSettled"} =>
          event.providerAmount \in Nat /\ event.feeAmount \in Nat
    /\ event.name = "EscrowSettled" => event.buyerAmount \in Nat

LEMMA EventFigures ==
    ASSUME NEW event \in Steady!Events
    PROVE  Figures(event)
<1>1. Amount \in Nat /\ Shares \subseteq 0 .. Amount
  BY Constants DEF Steady!IndexerAssumption
<1>2. Steady!FeeOf(Amount, FeeBps) \in 0 .. Amount
  BY <1>1, FeeBounded
<1>3. CASE event \in {Steady!EscrowCreated(s, Amount) : s \in Strangers}
  BY <1>1, <1>3 DEF Steady!EscrowCreated, Figures, Steady!EventNames, Steady!Escrows
<1>4. CASE event \in UNION {Steady!EventsOf(o, Amount, FeeBps, Shares) : o \in Orders}
  <2>1. PICK o \in Orders : event \in Steady!EventsOf(o, Amount, FeeBps, Shares)
    BY <1>4
  <2>2. CASE event = Steady!EscrowCreated(o, Amount)
    BY <1>1, <2>2 DEF Steady!EscrowCreated, Figures, Steady!EventNames, Steady!Escrows
  <2>3. CASE event = Steady!EscrowReleased(o, Amount, FeeBps)
    BY <1>1, <1>2, <2>3 DEF Steady!EscrowReleased, Figures, Steady!EventNames, Steady!Escrows
  <2>4. CASE event = Steady!EscrowRefunded(o, Amount)
    BY <1>1, <2>4 DEF Steady!EscrowRefunded, Figures, Steady!EventNames, Steady!Escrows
  <2>5. CASE event = Steady!EscrowDisputed(o)
    BY <2>5 DEF Steady!EscrowDisputed, Figures, Steady!EventNames, Steady!Escrows
  <2>6. CASE event \in {Steady!EscrowSettled(o, Amount, share, FeeBps) : share \in Shares}
    <3>1. PICK share \in Shares : event = Steady!EscrowSettled(o, Amount, share, FeeBps)
      BY <2>6
    <3>2. share \in 0 .. Amount /\ Steady!FeeOf(share, FeeBps) \in 0 .. share
      BY <1>1, FeeBounded
    <3>3. QED
      BY <1>1, <3>1, <3>2 DEF Steady!EscrowSettled, Figures, Steady!EventNames, Steady!Escrows
  <2>7. QED
    BY <2>1, <2>2, <2>3, <2>4, <2>5, <2>6 DEF Steady!EventsOf
<1>5. DEFINE ordered == UNION {Steady!EventsOf(o, Amount, FeeBps, Shares) : o \in Orders}
             unknown == {Steady!EscrowCreated(s, Amount) : s \in Strangers}
<1>6. event \in ordered \/ event \in unknown
  BY DEF Steady!Events
<1>7. event \in ordered => Figures(event)
  BY <1>4
<1>8. event \in unknown => Figures(event)
  BY <1>3
<1> HIDE DEF ordered, unknown
<1>9. QED
  BY <1>6, <1>7, <1>8

\* An event that comes before its escrow's creation leaves no trace.
Early(row, name) == row.status = "absent" /\ name # "EscrowCreated"

\* The status a row has after an event.
StatusAfter(row, name) ==
    IF Early(row, name) THEN "absent"
    ELSE IF Steady!OrderStatusFor(name) = "completed" THEN "released"
    ELSE Steady!OrderStatusFor(name)

\* Applying an event to a row makes a row, in the state the event stands for.
LEMMA RowApplied ==
    ASSUME NEW row \in Steady!EscrowRow, NEW event, Figures(event)
    PROVE  /\ Steady!ApplyToEscrow(row, event) \in Steady!EscrowRow
           /\ Steady!ApplyToEscrow(row, event).status = StatusAfter(row, event.name)
<1>1. event.name \in Steady!EventNames
  BY DEF Figures
<1>2. CASE event.name = "EscrowCreated"
  <2>1. Steady!ApplyToEscrow(row, event) = Steady!ApplyCreated(row, event)
    BY <1>2 DEF Steady!ApplyToEscrow
  <2>2. event.amount \in Nat
    BY <1>2 DEF Figures
  <2>3. /\ Steady!ApplyCreated(row, event) \in Steady!EscrowRow
        /\ Steady!ApplyCreated(row, event).status = "funded"
    BY <2>2 DEF Steady!ApplyCreated, Steady!NoRow, Steady!EscrowRow
  <2>4. StatusAfter(row, event.name) = "funded"
    BY <1>2 DEF StatusAfter, Early, Steady!OrderStatusFor
  <2>5. QED
    BY <2>1, <2>3, <2>4
<1>3. CASE Early(row, event.name)
  <2>1. Steady!ApplyToEscrow(row, event) = row
    BY <1>1, <1>3 DEF Steady!ApplyToEscrow, Early, Steady!EventNames
  <2>2. QED
    BY <2>1, <1>3 DEF StatusAfter, Early
<1>4. CASE event.name = "EscrowReleased" /\ row.status # "absent"
  <2>1. Steady!ApplyToEscrow(row, event) = Steady!ApplyReleased(row, event)
    BY <1>4 DEF Steady!ApplyToEscrow
  <2>2. event.providerAmount \in Nat /\ event.feeAmount \in Nat
    BY <1>4 DEF Figures
  <2>3. DEFINE sum == event.providerAmount + event.feeAmount
               gross == IF sum = 0 THEN row.amount ELSE sum
  <2>4. gross \in Nat
    BY <2>2 DEF Steady!EscrowRow
  <2> HIDE DEF gross
  <2>5. Steady!ApplyReleased(row, event) =
            [row EXCEPT !.status = "released", !.amount = gross,
                        !.released_amount = gross, !.fee_amount = event.feeAmount,
                        !.released_at = TRUE]
    BY DEF Steady!ApplyReleased, gross
  <2>6. /\ Steady!ApplyReleased(row, event) \in Steady!EscrowRow
        /\ Steady!ApplyReleased(row, event).status = "released"
    BY <2>2, <2>4, <2>5 DEF Steady!EscrowRow
  <2>7. StatusAfter(row, event.name) = "released"
    BY <1>4 DEF StatusAfter, Early, Steady!OrderStatusFor
  <2>8. QED
    BY <2>1, <2>6, <2>7
<1>5. CASE event.name = "EscrowRefunded" /\ row.status # "absent"
  <2>1. Steady!ApplyToEscrow(row, event) = Steady!ApplyRefunded(row, event)
    BY <1>5 DEF Steady!ApplyToEscrow
  <2>2. event.amount \in Nat
    BY <1>5 DEF Figures
  <2>3. DEFINE refunded == IF event.amount = 0 THEN row.amount ELSE event.amount
  <2>4. refunded \in Nat
    BY <2>2 DEF Steady!EscrowRow
  <2> HIDE DEF refunded
  <2>5. Steady!ApplyRefunded(row, event) =
            [row EXCEPT !.status = "refunded", !.amount = refunded,
                        !.refunded_amount = refunded, !.refunded_at = TRUE]
    BY DEF Steady!ApplyRefunded, refunded
  <2>6. /\ Steady!ApplyRefunded(row, event) \in Steady!EscrowRow
        /\ Steady!ApplyRefunded(row, event).status = "refunded"
    BY <2>4, <2>5 DEF Steady!EscrowRow
  <2>7. StatusAfter(row, event.name) = "refunded"
    BY <1>5 DEF StatusAfter, Early, Steady!OrderStatusFor
  <2>8. QED
    BY <2>1, <2>6, <2>7
<1>6. CASE event.name = "EscrowDisputed" /\ row.status # "absent"
  <2>1. Steady!ApplyToEscrow(row, event) = Steady!ApplyDisputed(row)
    BY <1>6 DEF Steady!ApplyToEscrow
  <2>2. /\ Steady!ApplyDisputed(row) \in Steady!EscrowRow
        /\ Steady!ApplyDisputed(row).status = "disputed"
    BY DEF Steady!ApplyDisputed, Steady!EscrowRow
  <2>3. StatusAfter(row, event.name) = "disputed"
    BY <1>6 DEF StatusAfter, Early, Steady!OrderStatusFor
  <2>4. QED
    BY <2>1, <2>2, <2>3
<1>7. CASE event.name = "EscrowSettled" /\ row.status # "absent"
  <2>1. Steady!ApplyToEscrow(row, event) = Steady!ApplySettled(row, event)
    BY <1>7 DEF Steady!ApplyToEscrow
  <2>2. /\ event.providerAmount \in Nat /\ event.feeAmount \in Nat
        /\ event.buyerAmount \in Nat
    BY <1>7 DEF Figures
  <2>3. DEFINE gross == Steady!SettledGross(event)
               kind == Steady!SettlementResolution(gross, event.buyerAmount)
  <2>4. gross \in Nat
    BY <2>2 DEF Steady!SettledGross
  <2>5. kind \in {"released_to_provider", "refunded_to_buyer", "split"}
    BY <2>2, <2>4 DEF Steady!SettlementResolution
  <2>6. Steady!ApplySettled(row, event) =
            [row EXCEPT !.status = "released", !.released_amount = gross,
                        !.refunded_amount = event.buyerAmount,
                        !.fee_amount = event.feeAmount,
                        !.released_at = TRUE, !.dispute_resolved_at = TRUE,
                        !.dispute_resolution = kind]
    BY DEF Steady!ApplySettled
  <2> HIDE DEF gross, kind
  <2>7. /\ Steady!ApplySettled(row, event) \in Steady!EscrowRow
        /\ Steady!ApplySettled(row, event).status = "released"
    BY <2>2, <2>4, <2>5, <2>6 DEF Steady!EscrowRow
  <2>8. StatusAfter(row, event.name) = "released"
    BY <1>7 DEF StatusAfter, Early, Steady!OrderStatusFor
  <2>9. QED
    BY <2>1, <2>7, <2>8
<1>8. QED
  BY <1>1, <1>2, <1>3, <1>4, <1>5, <1>6, <1>7 DEF Early, Steady!EventNames

-----------------------------------------------------------------------------
(* The tables.                                                             *)

Order == [status : Steady!OrderStatuses, completed_at : BOOLEAN]

Tables(d) ==
    /\ DOMAIN d = {"orders", "rows", "txs", "trail", "cursor"}
    /\ d.orders \in [Orders -> Order]
    /\ d.rows \in [Orders -> Steady!EscrowRow]
    /\ d.trail \in [Orders -> [Steady!EventNames -> 0 .. 2]]

\* An order is in the state of its escrow.
Agreed(rowStatus, orderStatus) ==
    CASE rowStatus = "absent" -> orderStatus \in {"pending", "expired"}
      [] rowStatus = "released" -> orderStatus = "completed"
      [] OTHER -> orderStatus = rowStatus

AllAgreed(d) == \A o \in Orders : Agreed(d.rows[o].status, d.orders[o].status)

LEMMA OrderApplied ==
    ASSUME NEW order \in Order, NEW name \in Steady!EventNames
    PROVE  /\ Steady!ApplyToOrder(order, name) \in Order
           /\ Steady!ApplyToOrder(order, name).status = Steady!OrderStatusFor(name)
<1>1. Steady!OrderStatusFor(name) \in Steady!OrderStatuses
  BY DEF Steady!OrderStatusFor, Steady!OrderStatuses, Steady!EventNames
<1>2. (order.completed_at \/ Steady!OrderStatusFor(name) = "completed") \in BOOLEAN
  OBVIOUS
<1>3. Steady!ApplyToOrder(order, name).status = Steady!OrderStatusFor(name)
  BY DEF Steady!ApplyToOrder
<1>4. Steady!ApplyToOrder(order, name) \in Order
  BY <1>1, <1>2 DEF Steady!ApplyToOrder, Order
<1>5. QED
  BY <1>3, <1>4

\* What one event changes: a is d with the log applied.
EventEffect(d, log, a) ==
    LET e == log.event.escrowId
        name == log.event.name
    IN /\ Tables(a) /\ a.cursor = d.cursor
       /\ AllAgreed(d) => AllAgreed(a)
       /\ \A o \in Orders : a.orders[o].status = "expired" => d.orders[o].status = "expired"
       /\ DOMAIN a.txs = IF e \in Orders /\ Steady!HasTxType(name)
                         THEN DOMAIN d.txs \cup {log.tx} ELSE DOMAIN d.txs
       /\ \A o \in Orders :
             a.rows[o] = IF o = e /\ ~Steady!Seen(d, log)
                         THEN Steady!ApplyToEscrow(d.rows[o], log.event) ELSE d.rows[o]
       /\ \A o \in Orders, n \in Steady!EventNames :
             a.trail[o][n] = IF o = e /\ n = name /\ ~Steady!Seen(d, log)
                             THEN Steady!Noted(d.trail[o][n]) ELSE d.trail[o][n]

LEMMA EventTables ==
    ASSUME NEW d, Tables(d), NEW log, Figures(log.event)
    PROVE  EventEffect(d, log, Steady!ApplyEvent(d, log))
<1>1. DEFINE a == Steady!ApplyEvent(d, log)
             e == log.event.escrowId
             name == log.event.name
<1>2. name \in Steady!EventNames
  BY DEF Figures
<1>3. CASE e \notin Orders
  <2>1. a = d
    BY <1>3 DEF Steady!ApplyEvent
  <2>2. QED
    BY <2>1, <1>3 DEF EventEffect
<1>4. CASE e \in Orders /\ Steady!Seen(d, log)
  <2>1. a = [d EXCEPT !.txs[log.tx] = log.block]
    BY <1>4 DEF Steady!ApplyEvent
  <2>2. log.tx \in DOMAIN d.txs
    BY <1>4 DEF Steady!Seen
  <2> HIDE DEF a
  <2>3. /\ DOMAIN a = {"orders", "rows", "txs", "trail", "cursor"}
        /\ a.orders = d.orders /\ a.rows = d.rows /\ a.trail = d.trail
        /\ a.cursor = d.cursor /\ DOMAIN a.txs = DOMAIN d.txs
    BY <2>1 DEF Tables
  <2>4. QED
    BY <2>2, <2>3, <1>4 DEF EventEffect, Tables, AllAgreed, a
<1>5. CASE e \in Orders /\ ~Steady!Seen(d, log)
  <2>1. DEFINE row == Steady!ApplyToEscrow(d.rows[e], log.event)
               ord == IF Early(d.rows[e], name) THEN d.orders[e]
                      ELSE Steady!ApplyToOrder(d.orders[e], name)
  <2>2. a = [d EXCEPT !.txs = Steady!RecordTransaction(d.txs, log),
                      !.rows[e] = row, !.orders[e] = ord,
                      !.trail[e][name] = Steady!Noted(d.trail[e][name])]
    BY <1>5 DEF Steady!ApplyEvent, Early
  <2>3. /\ d.rows[e] \in Steady!EscrowRow /\ d.orders[e] \in Order
        /\ d.trail[e] \in [Steady!EventNames -> 0 .. 2] /\ d.trail[e][name] \in 0 .. 2
    BY <1>2, <1>5 DEF Tables
  <2>4. row \in Steady!EscrowRow /\ row.status = StatusAfter(d.rows[e], name)
    BY <2>3, RowApplied
  <2>5. /\ ord \in Order
        /\ ord.status = IF Early(d.rows[e], name) THEN d.orders[e].status
                        ELSE Steady!OrderStatusFor(name)
    BY <1>2, <2>3, OrderApplied
  <2>6. Steady!Noted(d.trail[e][name]) \in 0 .. 2
    BY <2>3 DEF Steady!Noted
  <2> HIDE DEF a, row, ord
  <2>7. /\ DOMAIN a = {"orders", "rows", "txs", "trail", "cursor"}
        /\ a.cursor = d.cursor /\ a.txs = Steady!RecordTransaction(d.txs, log)
        /\ a.rows = [d.rows EXCEPT ![e] = row]
        /\ a.orders = [d.orders EXCEPT ![e] = ord]
        /\ a.trail = [d.trail EXCEPT ![e][name] = Steady!Noted(d.trail[e][name])]
    BY <2>2 DEF Tables
  <2>8. a.rows \in [Orders -> Steady!EscrowRow] /\ a.orders \in [Orders -> Order]
    <3>1. d.rows \in [Orders -> Steady!EscrowRow] /\ d.orders \in [Orders -> Order]
      BY DEF Tables
    <3>2. a.rows \in [Orders -> Steady!EscrowRow]
      BY <3>1, <2>4, <2>7
    <3>3. a.orders \in [Orders -> Order]
      BY <3>1, <2>5, <2>7
    <3>4. QED
      BY <3>2, <3>3
  <2>9. a.trail \in [Orders -> [Steady!EventNames -> 0 .. 2]]
    <3>1. [d.trail[e] EXCEPT ![name] = Steady!Noted(d.trail[e][name])]
            \in [Steady!EventNames -> 0 .. 2]
      BY <2>3, <2>6
    <3>2. a.trail = [d.trail EXCEPT ![e] =
                       [d.trail[e] EXCEPT ![name] = Steady!Noted(d.trail[e][name])]]
      BY <1>5, <2>7 DEF Tables
    <3>3. d.trail \in [Orders -> [Steady!EventNames -> 0 .. 2]]
      BY DEF Tables
    <3>4. QED
      BY <3>1, <3>2, <3>3
  <2>10. Tables(a)
    BY <2>7, <2>8, <2>9 DEF Tables
  <2>11. \A o \in Orders : /\ a.rows[o] = IF o = e THEN row ELSE d.rows[o]
                           /\ a.orders[o] = IF o = e THEN ord ELSE d.orders[o]
    BY <2>7 DEF Tables
  <2>12. \A o \in Orders, n \in Steady!EventNames :
            a.trail[o][n] = IF o = e /\ n = name THEN Steady!Noted(d.trail[o][n]) ELSE d.trail[o][n]
    BY <1>2, <1>5, <2>7 DEF Tables
  <2>13. DOMAIN a.txs = IF Steady!HasTxType(name) THEN DOMAIN d.txs \cup {log.tx} ELSE DOMAIN d.txs
    BY <2>7 DEF Steady!RecordTransaction
  <2>14. AllAgreed(d) => AllAgreed(a)
    <3>1. SUFFICES ASSUME AllAgreed(d), NEW o \in Orders
                   PROVE  Agreed(a.rows[o].status, a.orders[o].status)
      BY DEF AllAgreed
    <3>2. CASE o # e
      BY <3>1, <3>2, <2>11 DEF AllAgreed
    <3>3. CASE o = e /\ Early(d.rows[e], name)
      <4>1. a.rows[o].status = "absent" /\ a.orders[o].status = d.orders[o].status
        BY <3>3, <2>4, <2>5, <2>11 DEF StatusAfter
      <4>2. d.rows[o].status = "absent"
        BY <3>3 DEF Early
      <4>3. QED
        BY <3>1, <4>1, <4>2 DEF AllAgreed
    <3>4. CASE o = e /\ ~Early(d.rows[e], name)
      <4>1. /\ a.rows[o].status = IF Steady!OrderStatusFor(name) = "completed" THEN "released"
                                  ELSE Steady!OrderStatusFor(name)
            /\ a.orders[o].status = Steady!OrderStatusFor(name)
        BY <3>4, <2>4, <2>5, <2>11 DEF StatusAfter
      <4>2. Steady!OrderStatusFor(name) \in {"funded", "completed", "refunded", "disputed"}
        BY <1>2 DEF Steady!OrderStatusFor, Steady!EventNames
      <4>3. QED
        BY <4>1, <4>2 DEF Agreed
    <3>5. QED
      BY <3>2, <3>3, <3>4
  <2>15. \A o \in Orders : a.orders[o].status = "expired" => d.orders[o].status = "expired"
    <3>1. Steady!OrderStatusFor(name) # "expired"
      BY <1>2 DEF Steady!OrderStatusFor, Steady!EventNames
    <3>2. QED
      BY <3>1, <2>5, <2>11
  <2>16. QED
    BY <1>5, <2>7, <2>10, <2>11, <2>12, <2>13, <2>14, <2>15 DEF EventEffect, a, row
<1>6. QED
  BY <1>3, <1>4, <1>5

-----------------------------------------------------------------------------
(* The escrow contract's logs, one call to a transaction.                  *)

\* What a block may hold.
EscrowLog ==
    [event : Steady!Events, tx : {<<event>> : event \in Steady!Events},
     number : Nat \ {0}, block : Nat \X Nat]

\* Which events of an escrow come before which.
Precedes(a, b) ==
    \/ a = "EscrowCreated" /\ b # "EscrowCreated"
    \/ a = "EscrowDisputed" /\ b = "EscrowSettled"

\* Two logs of one escrow, in this order.
Pair(h, i, j) == i < j /\ h[i].event.escrowId = h[j].event.escrowId

\* Logs of blocks up to n, in order, as the contract can emit them.
Emitted(h, n) ==
    /\ h \in Seq(EscrowLog)
    /\ \A i \in DOMAIN h : h[i].number <= n
    /\ \A i \in DOMAIN h : h[i].tx = <<h[i].event>>
    /\ \A i, j \in DOMAIN h : i <= j => h[i].number <= h[j].number
    /\ \A i, j \in DOMAIN h :
          Pair(h, i, j) => /\ Precedes(h[i].event.name, h[j].event.name)
                           /\ h[i].event.name = "EscrowDisputed" =>
                                 h[j].number >= h[i].number + SettleDelay
    /\ \A j \in DOMAIN h :
          h[j].event.name # "EscrowCreated" =>
             \E i \in DOMAIN h : Pair(h, i, j) /\ h[i].event.name = "EscrowCreated"

\* What the contract emits comes in the order of the blocks.
LEMMA EmittedNumbered ==
    ASSUME NEW h, NEW n, Emitted(h, n)
    PROVE  /\ Numbered(h)
           /\ \A i \in DOMAIN h : h[i] \in EscrowLog /\ Figures(h[i].event)
<1>1. h \in Seq(EscrowLog) /\ DOMAIN h = 1 .. Len(h) /\ Len(h) \in Nat
  BY LenProperties DEF Emitted
<1>2. \A i \in DOMAIN h : h[i] \in EscrowLog
  BY <1>1, ElementOfSeq
<1>3. \A i \in DOMAIN h : h[i].event \in Steady!Events /\ h[i].number \in Nat \ {0}
  BY <1>2 DEF EscrowLog
<1>4. \A i \in DOMAIN h : Figures(h[i].event)
  BY <1>3, EventFigures
<1>5. Numbered(h)
  BY <1>1, <1>3 DEF Emitted, Numbered
<1>6. QED
  BY <1>2, <1>4, <1>5

\* An event of an escrow happens once, and its transaction tells which it is.
LEMMA EventsDiffer ==
    ASSUME NEW h, NEW n, Emitted(h, n), NEW i \in DOMAIN h, NEW j \in DOMAIN h,
           h[i].event.escrowId = h[j].event.escrowId, h[i].event.name = h[j].event.name
    PROVE  i = j
<1>1. DOMAIN h = 1 .. Len(h) /\ Len(h) \in Nat
  BY EmittedNumbered DEF Numbered
<1>2. CASE i < j
  BY <1>2 DEF Emitted, Pair, Precedes
<1>3. CASE j < i
  BY <1>3 DEF Emitted, Pair, Precedes
<1>4. QED
  BY <1>1, <1>2, <1>3

\* Two logs of one transaction are of one event: the same log.
LEMMA TransactionsDiffer ==
    ASSUME NEW h, NEW n, Emitted(h, n), NEW i \in DOMAIN h, NEW j \in DOMAIN h,
           h[i].tx = h[j].tx
    PROVE  i = j
<1>1. <<h[i].event>> = <<h[j].event>>
  BY DEF Emitted
<1>2. h[i].event = h[j].event
  BY <1>1
<1>3. QED
  BY <1>2, EventsDiffer

\* A call's event comes last, and is legal there.
LEMMA CallExtends ==
    ASSUME NEW h, NEW n \in Nat \ {0}, Emitted(h, n), forks \in Nat,
           NEW event \in Steady!Events, Steady!Legal(event, h, n)
    PROVE  LET g == Append(h, Steady!Log(event, <<event>>, n)) IN
           Emitted(g, n) /\ Extends(h, g, n)
<1>1. h \in Seq(EscrowLog) /\ DOMAIN h = 1 .. Len(h) /\ Len(h) \in Nat
  BY EmittedNumbered DEF Numbered, Emitted
<1>2. DEFINE log == Steady!Log(event, <<event>>, n)
             g == Append(h, log)
             past == {i \in DOMAIN h : h[i].event.escrowId = event.escrowId}
<1>3. log \in EscrowLog /\ log.number = n /\ log.event = event /\ log.tx = <<event>>
  BY DEF Steady!Log, EscrowLog
<1>4. event.name \in Steady!EventNames
  BY EventFigures DEF Figures
<1>5. \A i \in DOMAIN h : h[i].event.name \in Steady!EventNames
  BY EmittedNumbered DEF Figures
<1>6. /\ Steady!Follows(event.name) = IF past = {} THEN "none" ELSE h[Max(past)].event.name
      /\ event.name = "EscrowSettled" => n >= h[Max(past)].number + SettleDelay
  BY SameMax DEF Steady!Legal
<1> HIDE DEF log
<1>7. /\ g \in Seq(EscrowLog) /\ Len(g) = Len(h) + 1
      /\ DOMAIN g = 1 .. Len(h) + 1
      /\ \A i \in 1 .. Len(h) : g[i] = h[i]
      /\ g[Len(h) + 1] = log
  BY <1>1, <1>3, AppendProperties
<1> HIDE DEF g
<1>8. past # {} => Max(past) \in past /\ \A i \in past : i <= Max(past)
  <2>1. past \in SUBSET (1 .. Len(h))
    BY <1>1
  <2> HIDE DEF past
  <2>2. QED
    BY <1>1, <2>1, MaxOfIndices
<1>9. \A i \in past :
         /\ Precedes(h[i].event.name, event.name)
         /\ h[i].event.name = "EscrowDisputed" => n >= h[i].number + SettleDelay
  <2>1. SUFFICES ASSUME NEW i \in past
                 PROVE  /\ Precedes(h[i].event.name, event.name)
                        /\ h[i].event.name = "EscrowDisputed" => n >= h[i].number + SettleDelay
    OBVIOUS
  <2>2. DEFINE m == Max(past)
  <2>3. m \in past /\ i <= m
    BY <1>8
  <2>4. m \in DOMAIN h /\ h[m].event.escrowId = event.escrowId
        /\ Steady!Follows(event.name) = h[m].event.name
        /\ (event.name = "EscrowSettled" => n >= h[m].number + SettleDelay)
    BY <2>3, <1>6
  <2>5. i \in DOMAIN h /\ h[i].event.escrowId = event.escrowId
    OBVIOUS
  <2> HIDE DEF m, past
  <2>6. i # m => Pair(h, i, m)
    BY <2>3, <2>4, <2>5, <1>1 DEF Pair
  <2>7. i # m => Precedes(h[i].event.name, h[m].event.name)
    BY <2>4, <2>5, <2>6 DEF Emitted
  <2>8. CASE event.name \in {"EscrowReleased", "EscrowRefunded", "EscrowDisputed"}
    <3>1. h[m].event.name = "EscrowCreated"
      BY <2>4, <2>8 DEF Steady!Follows
    <3>2. i = m
      BY <2>7, <3>1 DEF Precedes
    <3>3. QED
      BY <2>8, <3>1, <3>2 DEF Precedes
  <2>9. CASE event.name = "EscrowSettled"
    <3>1. h[m].event.name = "EscrowDisputed"
      BY <2>4, <2>9 DEF Steady!Follows
    <3>2. i # m => h[i].event.name = "EscrowCreated"
      BY <2>7, <3>1 DEF Precedes
    <3>3. CASE i = m
      BY <2>4, <2>9, <3>1, <3>3 DEF Precedes
    <3>4. CASE i # m
      BY <2>9, <3>2, <3>4 DEF Precedes
    <3>5. QED
      BY <3>3, <3>4
  <2>10. CASE event.name = "EscrowCreated"
    <3>1. h[m].event.name = "none"
      BY <2>4, <2>10 DEF Steady!Follows
    <3>2. QED
      BY <3>1, <2>4, <1>5 DEF Steady!EventNames
  <2>11. QED
    BY <1>4, <2>8, <2>9, <2>10 DEF Steady!EventNames
<1>10. event.name # "EscrowCreated" =>
          \E i \in past : h[i].event.name = "EscrowCreated"
  <2>1. SUFFICES ASSUME event.name # "EscrowCreated"
                 PROVE  \E i \in past : h[i].event.name = "EscrowCreated"
    OBVIOUS
  <2>2. Steady!Follows(event.name) # "none"
    BY <1>4, <2>1 DEF Steady!Follows, Steady!EventNames
  <2>3. past # {}
    BY <2>2, <1>6
  <2>4. PICK m \in past : TRUE
    BY <2>3
  <2>5. m \in DOMAIN h /\ h[m].event.escrowId = event.escrowId
    OBVIOUS
  <2>6. CASE h[m].event.name = "EscrowCreated"
    BY <2>6
  <2>7. CASE h[m].event.name # "EscrowCreated"
    <3>1. PICK i \in DOMAIN h : Pair(h, i, m) /\ h[i].event.name = "EscrowCreated"
      BY <2>5, <2>7 DEF Emitted
    <3>2. i \in past
      BY <2>5, <3>1 DEF Pair
    <3>3. QED
      BY <3>1, <3>2
  <2>8. QED
    BY <2>6, <2>7
<1>11. \A i \in past : i \in DOMAIN h /\ h[i].event.escrowId = event.escrowId
  OBVIOUS
<1>12. \A i \in DOMAIN h : h[i].event.escrowId = event.escrowId => i \in past
  OBVIOUS
<1> HIDE DEF past
<1>13. \A i \in DOMAIN g : g[i].number <= n /\ g[i].tx = <<g[i].event>>
  BY <1>7, <1>3, <1>1 DEF Emitted
<1>14. \A i, j \in DOMAIN g : i <= j => g[i].number <= g[j].number
  <2>1. SUFFICES ASSUME NEW i \in DOMAIN g, NEW j \in DOMAIN g, i <= j
                 PROVE  g[i].number <= g[j].number
    OBVIOUS
  <2>2. CASE j = Len(h) + 1
    BY <2>2, <1>13, <1>7, <1>3
  <2>3. CASE j # Len(h) + 1
    BY <2>1, <2>3, <1>7, <1>1 DEF Emitted
  <2>4. QED
    BY <2>2, <2>3
<1>15. ASSUME NEW i \in DOMAIN g, NEW j \in DOMAIN g, Pair(g, i, j)
       PROVE  /\ Precedes(g[i].event.name, g[j].event.name)
              /\ g[i].event.name = "EscrowDisputed" => g[j].number >= g[i].number + SettleDelay
  <2>1. i \in DOMAIN h /\ g[i] = h[i]
    BY <1>15, <1>1, <1>7 DEF Pair
  <2>2. CASE j = Len(h) + 1
    <3>1. g[j] = log /\ i \in past
      BY <1>15, <2>1, <2>2, <1>3, <1>7, <1>12 DEF Pair
    <3>2. QED
      BY <3>1, <2>1, <1>3, <1>9
  <2>3. CASE j # Len(h) + 1
    <3>1. j \in DOMAIN h /\ g[j] = h[j]
      BY <2>3, <1>1, <1>7
    <3>2. Pair(h, i, j)
      BY <1>15, <2>1, <3>1 DEF Pair
    <3>3. QED
      BY <2>1, <3>1, <3>2 DEF Emitted
  <2>4. QED
    BY <2>2, <2>3
<1>16. ASSUME NEW j \in DOMAIN g, g[j].event.name # "EscrowCreated"
       PROVE  \E i \in DOMAIN g : Pair(g, i, j) /\ g[i].event.name = "EscrowCreated"
  <2>1. CASE j = Len(h) + 1
    <3>1. g[j].event = event
      BY <2>1, <1>3, <1>7
    <3>2. PICK i \in past : h[i].event.name = "EscrowCreated"
      BY <1>10, <1>16, <3>1
    <3>3. i \in DOMAIN g /\ g[i] = h[i] /\ i < j
      BY <1>1, <1>7, <1>11, <2>1
    <3>4. h[i].event.escrowId = event.escrowId
      BY <1>11
    <3>5. QED
      BY <3>1, <3>2, <3>3, <3>4 DEF Pair
  <2>2. CASE j # Len(h) + 1
    <3>1. j \in DOMAIN h /\ g[j] = h[j]
      BY <2>2, <1>1, <1>7
    <3>2. PICK i \in DOMAIN h : Pair(h, i, j) /\ h[i].event.name = "EscrowCreated"
      BY <3>1, <1>16 DEF Emitted
    <3>3. i \in DOMAIN g /\ g[i] = h[i]
      BY <1>1, <1>7
    <3>4. QED
      BY <3>1, <3>2, <3>3 DEF Pair
  <2>3. QED
    BY <2>1, <2>2
<1>17. Emitted(g, n)
  BY <1>7, <1>13, <1>14, <1>15, <1>16 DEF Emitted
<1>18. Extends(h, g, n)
  <2>1. Numbered(g)
    BY <1>17, EmittedNumbered
  <2>2. Agree(h, g, Len(h))
    BY <1>1, <1>7 DEF Agree
  <2>3. \A i \in DOMAIN g : i > Len(h) => g[i].number = n
    BY <1>1, <1>3, <1>7
  <2>4. QED
    BY <2>1, <2>2, <2>3 DEF Extends
<1>19. QED
  BY <1>17, <1>18 DEF g, log

\* What a prefix leaves is emitted.
LEMMA PrefixEmitted ==
    ASSUME NEW h, NEW n \in Nat, Emitted(h, n), NEW m \in Nat
    PROVE  LET g == SubSeq(h, 1, Cut(h, m)) IN
           Emitted(g, m) /\ Len(g) = Cut(h, m) /\ Agree(h, g, Cut(h, m))
<1>1. h \in Seq(EscrowLog) /\ DOMAIN h = 1 .. Len(h) /\ Len(h) \in Nat
  BY EmittedNumbered DEF Numbered, Emitted
<1>2. /\ Cut(h, m) \in 0 .. Len(h)
      /\ \A i \in DOMAIN h : h[i].number <= m <=> i <= Cut(h, m)
  BY EmittedNumbered, CutSplits
<1>3. DEFINE k == Cut(h, m)
             g == SubSeq(h, 1, k)
<1> HIDE DEF k
<1>4. k \in 0 .. Len(h) /\ \A i \in DOMAIN h : h[i].number <= m <=> i <= k
  BY <1>2 DEF k
<1>5. g \in Seq(EscrowLog) /\ Len(g) = k /\ \A i \in 1 .. k : g[i] = h[i]
  <2>1. CASE k = 0
    BY <1>1, <2>1
  <2>2. CASE k # 0
    BY <1>1, <1>4, <2>2
  <2>3. QED
    BY <2>1, <2>2
<1> HIDE DEF g
<1>6. DOMAIN g = 1 .. k /\ k <= Len(h) /\ k \in Nat
  BY <1>1, <1>4, <1>5, LenProperties
<1>7. \A i \in DOMAIN g : i \in DOMAIN h /\ g[i] = h[i]
  BY <1>1, <1>5, <1>6
<1>8. Emitted(g, m)
  <2>1. \A i \in DOMAIN g : g[i].number <= m
    BY <1>4, <1>6, <1>7
  <2>2. /\ \A i \in DOMAIN g : g[i].tx = <<g[i].event>>
        /\ \A i, j \in DOMAIN g : i <= j => g[i].number <= g[j].number
    BY <1>7 DEF Emitted
  <2>3. \A i, j \in DOMAIN g :
           Pair(g, i, j) => /\ Precedes(g[i].event.name, g[j].event.name)
                            /\ g[i].event.name = "EscrowDisputed" =>
                                  g[j].number >= g[i].number + SettleDelay
    BY <1>7 DEF Emitted, Pair
  <2>4. ASSUME NEW j \in DOMAIN g, g[j].event.name # "EscrowCreated"
        PROVE  \E i \in DOMAIN g : Pair(g, i, j) /\ g[i].event.name = "EscrowCreated"
    <3>1. PICK i \in DOMAIN h : Pair(h, i, j) /\ h[i].event.name = "EscrowCreated"
      BY <1>7, <2>4 DEF Emitted
    <3>2. i \in DOMAIN g
      BY <1>1, <1>6, <3>1 DEF Pair
    <3>3. QED
      BY <1>7, <3>1, <3>2 DEF Pair
  <2>5. QED
    BY <1>5, <2>1, <2>2, <2>3, <2>4 DEF Emitted
<1>9. Agree(h, g, k)
  BY <1>1, <1>5, <1>6 DEF Agree
<1>10. QED
  BY <1>5, <1>8, <1>9 DEF g, k

-----------------------------------------------------------------------------
(* The chain keeps what is settled.                                        *)

\* The blocks that no fork replaces any more.
Settled == IF peak > Reorgable THEN peak - Reorgable ELSE 0

\* The chain is legal, and has not lost a settled block.
ChainInv ==
    /\ head \in Nat /\ peak \in Nat /\ forks \in Nat
    /\ head <= peak /\ peak <= head + Reorgable
    /\ Emitted(history, head)

ChainStep == Steady!MineEmpty \/ Steady!MineCall \/ Steady!MineTwoCalls \/ Steady!Reorg

\* Time passes without a log.
LEMMA EmittedLater ==
    ASSUME NEW h, NEW n \in Int, Emitted(h, n)
    PROVE  Emitted(h, n + 1)
<1>1. \A i \in DOMAIN h : h[i].number \in Nat
  BY EmittedNumbered DEF Numbered
<1>2. QED
  BY <1>1 DEF Emitted

\* A block is mined: the logs before it stay.
LEMMA MineExtends ==
    ASSUME ChainInv, Steady!MineEmpty \/ Steady!MineCall \/ Steady!MineTwoCalls
    PROVE  Extends(history, history', head + 1) /\ Emitted(history', head + 1)
<1>1. Emitted(history, head + 1) /\ head + 1 \in Nat \ {0} /\ forks \in Nat
  BY EmittedLater DEF ChainInv
<1>2. /\ history \in Seq(EscrowLog) /\ DOMAIN history = 1 .. Len(history)
      /\ Len(history) \in Nat
  BY <1>1, EmittedNumbered DEF Numbered, Emitted
<1>3. CASE Steady!MineEmpty
  <2>1. history' = history
    BY <1>2, <1>3 DEF Steady!MineEmpty, Steady!Mine
  <2>2. Extends(history, history, head + 1)
    BY <1>1, <1>2, EmittedNumbered DEF Extends, Agree
  <2>3. QED
    BY <1>1, <2>1, <2>2
<1>4. CASE Steady!MineCall
  <2>1. PICK event \in Steady!Events :
           /\ Steady!Legal(event, history, head + 1)
           /\ history' = history \o <<Steady!Log(event, <<event>>, head + 1)>>
    BY <1>4 DEF Steady!MineCall, Steady!Mine
  <2>2. DEFINE log == Steady!Log(event, <<event>>, head + 1)
  <2>3. Extends(history, Append(history, log), head + 1) /\ Emitted(Append(history, log), head + 1)
    BY <1>1, <2>1, CallExtends
  <2> HIDE DEF log
  <2>4. history \o <<log>> = Append(history, log)
    BY <1>2
  <2>5. QED
    BY <2>1, <2>3, <2>4 DEF log
<1>5. CASE Steady!MineTwoCalls
  <2>0. PICK first \in Steady!Events :
           /\ Steady!Legal(first, history, head + 1)
           /\ \E second \in Steady!Events :
                 /\ Steady!Legal(second,
                       Append(history, Steady!Log(first, <<first>>, head + 1)), head + 1)
                 /\ history' = history \o <<Steady!Log(first, <<first>>, head + 1),
                                            Steady!Log(second, <<second>>, head + 1)>>
    BY <1>5, SteadyDepths DEF Steady!MineTwoCalls, Steady!Mine
  <2>1. PICK second \in Steady!Events :
           /\ Steady!Legal(second,
                 Append(history, Steady!Log(first, <<first>>, head + 1)), head + 1)
           /\ history' = history \o <<Steady!Log(first, <<first>>, head + 1),
                                      Steady!Log(second, <<second>>, head + 1)>>
    BY <2>0
  <2>2. DEFINE one == Steady!Log(first, <<first>>, head + 1)
               two == Steady!Log(second, <<second>>, head + 1)
  <2>3. Extends(history, Append(history, one), head + 1) /\ Emitted(Append(history, one), head + 1)
    BY <1>1, <2>0, CallExtends
  <2>4. /\ Extends(Append(history, one), Append(Append(history, one), two), head + 1)
        /\ Emitted(Append(Append(history, one), two), head + 1)
    BY <1>1, <2>1, <2>3, CallExtends
  <2>5. history' = history \o <<one, two>>
    BY <2>1
  <2> HIDE DEF one, two
  <2>6. history \o <<one, two>> = Append(Append(history, one), two)
    BY <1>2
  <2>7. Extends(history, Append(Append(history, one), two), head + 1)
    BY <1>2, <2>3, <2>4, ExtendsTwice
  <2>8. QED
    BY <2>4, <2>5, <2>6, <2>7
<1>6. QED
  BY <1>3, <1>4, <1>5

\* get_logs from the first block gives the beginning of the history.
LEMMA FirstLogs ==
    ASSUME Numbered(history), NEW n
    PROVE  Steady!Logs(1, n) = SubSeq(history, 1, Cut(history, n))
<1>1. /\ Cut(history, 0) \in 0 .. Len(history)
      /\ \A i \in DOMAIN history : history[i].number <= 0 <=> i <= Cut(history, 0)
  BY CutSplits
<1>2. Cut(history, 0) = 0
  BY <1>1 DEF Numbered
<1>3. Steady!Upto(1 - 1) = 0
  <2>1. 1 - 1 = 0
    OBVIOUS
  <2>2. Steady!Upto(0) = 0
    BY <1>2, LogsUpto
  <2>3. QED
    BY <2>1, <2>2
<1>4. Steady!Upto(1 - 1) + 1 = 1
  BY <1>3
<1>5. Steady!Upto(n) = Cut(history, n)
  BY LogsUpto
<1>6. QED
  BY <1>4, <1>5 DEF Steady!Logs

\* Whatever the chain does, settled blocks keep their logs.
LEMMA ChainAdvances ==
    ASSUME ChainInv, ChainStep
    PROVE  /\ ChainInv'
           /\ Settled <= Settled'
           /\ \A m \in 0 .. Settled : Kept(history, history', m)
<1>1. Reorgable \in Nat /\ Settled \in Nat /\ Settled <= head
  BY Constants DEF Steady!IndexerAssumption, ChainInv, Settled
<1>2. CASE Steady!MineEmpty \/ Steady!MineCall \/ Steady!MineTwoCalls
  <2>1. /\ head' = head + 1 /\ peak' = (IF head' > peak THEN head' ELSE peak)
        /\ forks' = forks
    BY <1>2 DEF Steady!MineEmpty, Steady!MineCall, Steady!MineTwoCalls, Steady!Mine
  <2>2. Extends(history, history', head + 1) /\ Emitted(history', head + 1)
    BY <1>2, MineExtends
  <2>3. ChainInv'
    BY <1>1, <2>1, <2>2 DEF ChainInv
  <2>4. Settled <= Settled'
    BY <1>1, <2>1 DEF ChainInv, Settled
  <2>5. \A m \in 0 .. Settled : Kept(history, history', m)
    <3>1. SUFFICES ASSUME NEW m \in 0 .. Settled PROVE Kept(history, history', m)
      OBVIOUS
    <3>2. m \in Nat /\ m < head + 1 /\ head + 1 \in Nat
      BY <1>1 DEF ChainInv
    <3>3. QED
      BY <2>2, <3>2, ExtendsKeeps, EmittedNumbered DEF ChainInv
  <2>6. QED
    BY <2>3, <2>4, <2>5
<1>3. CASE Steady!Reorg
  <2>1. PICK n \in 0 .. head - 1 : /\ n >= peak - Reorgable /\ head' = n
                                   /\ history' = Steady!Logs(1, n)
    BY <1>3 DEF Steady!Reorg
  <2>2. forks' = forks + 1 /\ peak' = peak /\ n \in Nat
    BY <1>3, <2>1 DEF Steady!Reorg, ChainInv
  <2>3. Numbered(history)
    BY EmittedNumbered DEF ChainInv
  <2>4. history' = SubSeq(history, 1, Cut(history, n))
    <3>1. Steady!Logs(1, n) = SubSeq(history, 1, Cut(history, n))
      BY <2>3, FirstLogs
    <3>2. QED
      BY <3>1, <2>1
  <2>5. Emitted(history', n) /\ Len(history') = Cut(history, n)
        /\ Agree(history, history', Cut(history, n))
    BY <2>2, <2>4, PrefixEmitted DEF ChainInv
  <2>6. ChainInv'
    BY <1>1, <2>1, <2>2, <2>5 DEF ChainInv
  <2>7. Settled' = Settled
    BY <2>2 DEF Settled
  <2>8. \A m \in 0 .. Settled : Kept(history, history', m)
    <3>1. SUFFICES ASSUME NEW m \in 0 .. Settled PROVE Kept(history, history', m)
      OBVIOUS
    <3>2. m \in Int /\ m <= n /\ n \in Int
      BY <1>1, <2>1, <2>2 DEF Settled, ChainInv
    <3>3. Numbered(history')
      BY <2>5, EmittedNumbered
    <3>4. QED
      BY <2>3, <2>5, <3>2, <3>3, PrefixKeeps
  <2>9. Settled \in Nat
    BY <1>1
  <2>10. QED
    BY <2>6, <2>7, <2>8, <2>9
<1>4. QED
  BY <1>2, <1>3 DEF ChainStep

-----------------------------------------------------------------------------
(* What the first logs of a history make of a row.                         *)

\* The row of order o after the first k logs.
RowAt(o, h, k) ==
    LET row[i \in 0 .. k] ==
            IF i = 0 THEN Steady!NoRow
            ELSE IF h[i].event.escrowId = o
                 THEN Steady!ApplyToEscrow(row[i - 1], h[i].event) ELSE row[i - 1]
    IN row[k]

RowBody(f, o, h, k) ==
    [i \in 0 .. k |-> IF i = 0 THEN Steady!NoRow
                      ELSE IF h[i].event.escrowId = o
                           THEN Steady!ApplyToEscrow(f[i - 1], h[i].event) ELSE f[i - 1]]

\* The recursion of a projection has a solution.
LEMMA RowSolvable ==
    ASSUME NEW o, NEW h, NEW n \in Nat
    PROVE  \E f : f = RowBody(f, o, h, n)
<1>1. DEFINE Solvable == {k \in 0 .. n : \E f : f = RowBody(f, o, h, k)}
<1>2. 0 \in Solvable
  <2>1. [i \in 0 .. 0 |-> Steady!NoRow] = RowBody([i \in 0 .. 0 |-> Steady!NoRow], o, h, 0)
    BY DEF RowBody
  <2>2. QED
    BY <2>1
<1>3. \A k \in 1 .. n : k - 1 \in Solvable => k \in Solvable
  <2>1. SUFFICES ASSUME NEW k \in 1 .. n, k - 1 \in Solvable
                 PROVE  k \in Solvable
    OBVIOUS
  <2>2. PICK f : f = RowBody(f, o, h, k - 1)
    BY <2>1
  <2>3. DEFINE last == IF h[k].event.escrowId = o
                       THEN Steady!ApplyToEscrow(f[k - 1], h[k].event) ELSE f[k - 1]
               g == [i \in 0 .. k |-> IF i = k THEN last ELSE f[i]]
  <2>4. \A i \in 0 .. k : g[i] = IF i = 0 THEN Steady!NoRow
                                 ELSE IF h[i].event.escrowId = o
                                      THEN Steady!ApplyToEscrow(g[i - 1], h[i].event) ELSE g[i - 1]
    <3>1. SUFFICES ASSUME NEW i \in 0 .. k
                   PROVE  g[i] = IF i = 0 THEN Steady!NoRow
                                 ELSE IF h[i].event.escrowId = o
                                      THEN Steady!ApplyToEscrow(g[i - 1], h[i].event) ELSE g[i - 1]
      OBVIOUS
    <3>2. \A j \in 0 .. k - 1 : f[j] = IF j = 0 THEN Steady!NoRow
                                 ELSE IF h[j].event.escrowId = o
                                      THEN Steady!ApplyToEscrow(f[j - 1], h[j].event) ELSE f[j - 1]
      BY <2>2 DEF RowBody
    <3>3. CASE i = k
      BY <3>3, <2>1
    <3>4. CASE i # k
      BY <3>4, <3>2, <2>1
    <3>5. QED
      BY <3>3, <3>4
  <2>5. g = RowBody(g, o, h, k)
    <3> HIDE DEF last
    <3>1. QED
      BY <2>4 DEF RowBody
  <2>6. QED
    BY <2>1, <2>5
<1>4. n \in Solvable
  <2>1. \A i \in 0 .. n : i \in Solvable
    <3> HIDE DEF Solvable
    <3>1. QED
      BY <1>2, <1>3, IntervalInduction
  <2>2. QED
    BY <2>1
<1>5. QED
  BY <1>4

\* The rows after each of the logs.
Grows(f, o, h, k) ==
    /\ f[0] = Steady!NoRow
    /\ \A i \in 1 .. k : f[i] = IF h[i].event.escrowId = o
                                THEN Steady!ApplyToEscrow(f[i - 1], h[i].event) ELSE f[i - 1]

\* A row is the last of the rows after each log.
LEMMA RowUnfolds ==
    ASSUME NEW o, NEW h, NEW k \in Nat
    PROVE  \E f : Grows(f, o, h, k) /\ RowAt(o, h, k) = f[k]
<1>1. DEFINE f == CHOOSE f : f = RowBody(f, o, h, k)
<1>2. f = RowBody(f, o, h, k)
  BY RowSolvable
<1>3. RowAt(o, h, k) = f[k]
  BY DEF RowAt, RowBody
<1> HIDE DEF f
<1>4. Grows(f, o, h, k)
  BY <1>2 DEF RowBody, Grows
<1>5. QED
  BY <1>3, <1>4

\* Histories that agree make the same rows.
LEMMA RowsGrowAlike ==
    ASSUME NEW o, NEW h, NEW g, NEW k \in Nat, NEW n \in Nat, k <= n,
           \A i \in 1 .. k : h[i] = g[i],
           NEW e, NEW f, Grows(e, o, h, k), Grows(f, o, g, n)
    PROVE  e[k] = f[k]
<1>1. DEFINE Same == {i \in 0 .. k : e[i] = f[i]}
<1>2. 0 \in Same
  BY DEF Grows
<1>3. \A i \in 1 .. k : i - 1 \in Same => i \in Same
  BY DEF Grows
<1>4. \A i \in 0 .. k : i \in Same
  <2> HIDE DEF Same
  <2>1. QED
    BY <1>2, <1>3, IntervalInduction
<1>5. QED
  BY <1>4

\* Before the first log there is no row.
LEMMA RowAtStart ==
    ASSUME NEW o, NEW h
    PROVE  RowAt(o, h, 0) = Steady!NoRow
<1>1. PICK f : Grows(f, o, h, 0) /\ RowAt(o, h, 0) = f[0]
  BY RowUnfolds
<1>2. QED
  BY <1>1 DEF Grows

\* One log more.
LEMMA RowAtNext ==
    ASSUME NEW o, NEW h, NEW k \in Nat
    PROVE  RowAt(o, h, k + 1) = IF h[k + 1].event.escrowId = o
                                THEN Steady!ApplyToEscrow(RowAt(o, h, k), h[k + 1].event)
                                ELSE RowAt(o, h, k)
<1>1. PICK e : Grows(e, o, h, k) /\ RowAt(o, h, k) = e[k]
  BY RowUnfolds
<1>2. PICK f : Grows(f, o, h, k + 1) /\ RowAt(o, h, k + 1) = f[k + 1]
  <2>1. k + 1 \in Nat
    OBVIOUS
  <2>2. QED
    BY <2>1, RowUnfolds
<1>3. e[k] = f[k]
  <2>1. k + 1 \in Nat /\ k <= k + 1
    OBVIOUS
  <2>2. QED
    BY <1>1, <1>2, <2>1, RowsGrowAlike
<1>4. f[k + 1] = IF h[k + 1].event.escrowId = o
                 THEN Steady!ApplyToEscrow(f[(k + 1) - 1], h[k + 1].event) ELSE f[(k + 1) - 1]
  BY <1>2 DEF Grows
<1>5. (k + 1) - 1 = k
  OBVIOUS
<1>6. QED
  BY <1>1, <1>2, <1>3, <1>4, <1>5

\* The logs that a fork leaves make the same row.
LEMMA RowAtAgrees ==
    ASSUME NEW o, NEW h, NEW g, NEW k \in Nat, \A i \in 1 .. k : h[i] = g[i]
    PROVE  RowAt(o, h, k) = RowAt(o, g, k)
<1>1. PICK e : Grows(e, o, h, k) /\ RowAt(o, h, k) = e[k]
  BY RowUnfolds
<1>2. PICK f : Grows(f, o, g, k) /\ RowAt(o, g, k) = f[k]
  BY RowUnfolds
<1>3. e[k] = f[k]
  <2>1. k <= k
    OBVIOUS
  <2>2. QED
    BY <1>1, <1>2, <2>1, RowsGrowAlike
<1>4. QED
  BY <1>1, <1>2, <1>3

\* A row is absent as long as nothing has happened to its escrow.
LEMMA RowAtShape ==
    ASSUME NEW h, NEW n, Emitted(h, n), NEW o, NEW k \in 0 .. Len(h)
    PROVE  /\ RowAt(o, h, k) \in Steady!EscrowRow
           /\ RowAt(o, h, k).status = "absent" <=>
                \A i \in 1 .. k : h[i].event.escrowId # o
<1>1. DOMAIN h = 1 .. Len(h) /\ Len(h) \in Nat
  BY EmittedNumbered DEF Numbered
<1>2. DEFINE Good == {j \in 0 .. Len(h) :
                        /\ RowAt(o, h, j) \in Steady!EscrowRow
                        /\ RowAt(o, h, j).status = "absent" <=>
                              \A i \in 1 .. j : h[i].event.escrowId # o}
<1>3. 0 \in Good
  <2>1. Steady!NoRow \in Steady!EscrowRow /\ Steady!NoRow.status = "absent"
    BY DEF Steady!NoRow, Steady!EscrowRow
  <2>2. QED
    BY <1>1, <2>1, RowAtStart
<1>4. ASSUME NEW j \in 1 .. Len(h), j - 1 \in Good PROVE j \in Good
  <2>1. j - 1 \in Nat /\ (j - 1) + 1 = j /\ j \in DOMAIN h
    BY <1>1
  <2>2. RowAt(o, h, (j - 1) + 1) = IF h[(j - 1) + 1].event.escrowId = o
                                   THEN Steady!ApplyToEscrow(RowAt(o, h, j - 1),
                                                              h[(j - 1) + 1].event)
                                   ELSE RowAt(o, h, j - 1)
    BY <2>1, RowAtNext
  <2>3. RowAt(o, h, j) = IF h[j].event.escrowId = o
                         THEN Steady!ApplyToEscrow(RowAt(o, h, j - 1), h[j].event)
                         ELSE RowAt(o, h, j - 1)
    BY <2>1, <2>2
  <2>4. /\ RowAt(o, h, j - 1) \in Steady!EscrowRow
        /\ RowAt(o, h, j - 1).status = "absent" <=>
             \A i \in 1 .. j - 1 : h[i].event.escrowId # o
    BY <1>4
  <2>5. CASE h[j].event.escrowId # o
    <3>1. (\A i \in 1 .. j : h[i].event.escrowId # o)
            <=> \A i \in 1 .. j - 1 : h[i].event.escrowId # o
      BY <2>5
    <3>2. QED
      BY <1>4, <2>3, <2>4, <2>5, <3>1
  <2>6. CASE h[j].event.escrowId = o
    <3>1. Figures(h[j].event)
      BY <2>1, EmittedNumbered
    <3>2. /\ RowAt(o, h, j) \in Steady!EscrowRow
          /\ RowAt(o, h, j).status = StatusAfter(RowAt(o, h, j - 1), h[j].event.name)
      BY <2>3, <2>4, <2>6, <3>1, RowApplied
    <3>3. ~Early(RowAt(o, h, j - 1), h[j].event.name)
      <4>1. SUFFICES ASSUME h[j].event.name # "EscrowCreated"
                     PROVE  RowAt(o, h, j - 1).status # "absent"
        BY DEF Early
      <4>2. PICK i \in DOMAIN h : Pair(h, i, j)
        BY <2>1, <4>1 DEF Emitted
      <4>3. i \in 1 .. j - 1 /\ h[i].event.escrowId = o
        BY <1>1, <2>6, <4>2 DEF Pair
      <4>4. QED
        BY <2>4, <4>3
    <3>4. h[j].event.name \in Steady!EventNames
      BY <3>1 DEF Figures
    <3>5. RowAt(o, h, j).status # "absent"
      BY <3>2, <3>3, <3>4 DEF StatusAfter, Steady!OrderStatusFor, Steady!EventNames
    <3>6. ~(\A i \in 1 .. j : h[i].event.escrowId # o)
      BY <2>6
    <3>7. QED
      BY <1>4, <3>2, <3>5, <3>6
  <2>7. QED
    BY <2>5, <2>6
<1>5. \A j \in 0 .. Len(h) : j \in Good
  <2> HIDE DEF Good
  <2>1. QED
    BY <1>1, <1>3, <1>4, IntervalInduction
<1>6. QED
  BY <1>5

\* Logs of other escrows leave the row alone.
LEMMA RowAtKept ==
    ASSUME NEW o, NEW h, NEW j \in Nat, NEW k \in Nat, j <= k,
           \A i \in j + 1 .. k : h[i].event.escrowId # o
    PROVE  RowAt(o, h, k) = RowAt(o, h, j)
<1>1. DEFINE Same == {i \in 0 .. k : i >= j => RowAt(o, h, i) = RowAt(o, h, j)}
<1>2. 0 \in Same
  OBVIOUS
<1>3. ASSUME NEW i \in 1 .. k, i - 1 \in Same PROVE i \in Same
  <2>1. i - 1 \in Nat /\ (i - 1) + 1 = i
    OBVIOUS
  <2>2. RowAt(o, h, (i - 1) + 1) = IF h[(i - 1) + 1].event.escrowId = o
                                   THEN Steady!ApplyToEscrow(RowAt(o, h, i - 1),
                                                              h[(i - 1) + 1].event)
                                   ELSE RowAt(o, h, i - 1)
    BY <2>1, RowAtNext
  <2>3. CASE i > j
    <3>1. i \in j + 1 .. k /\ i - 1 >= j
      BY <2>3
    <3>2. RowAt(o, h, i) = RowAt(o, h, i - 1)
      BY <2>1, <2>2, <3>1
    <3>3. QED
      BY <1>3, <3>1, <3>2
  <2>4. CASE i <= j
    BY <2>4
  <2>5. QED
    BY <2>3, <2>4
<1>4. \A i \in 0 .. k : i \in Same
  <2> HIDE DEF Same
  <2>1. QED
    BY <1>2, <1>3, IntervalInduction
<1>5. QED
  BY <1>4

-----------------------------------------------------------------------------
(* Tables that hold what the first logs say.                               *)

\* The transactions that settlement events of known orders leave on record.
TxsUpto(h, k) ==
    {h[i].tx : i \in {j \in 1 .. k : /\ h[j].event.escrowId \in Orders
                                     /\ Steady!HasTxType(h[j].event.name)}}

\* An event of this name is among the first k logs.
Happened(h, k, o, name) ==
    \E i \in 1 .. k : h[i].event.escrowId = o /\ h[i].event.name = name

\* The tables hold what the first k logs say.
Mirrors(d, h, k) ==
    /\ Tables(d) /\ AllAgreed(d)
    /\ DOMAIN d.txs = TxsUpto(h, k)
    /\ \A o \in Orders : d.rows[o] = RowAt(o, h, k)
    /\ \A o \in Orders, name \in Steady!EventNames :
          Steady!HasTxType(name) => d.trail[o][name] = IF Happened(h, k, o, name) THEN 1 ELSE 0

\* What is known of an order that has expired stays so.
NoneExpired(a, d) ==
    \A o \in Orders : a.orders[o].status = "expired" => d.orders[o].status = "expired"

\* A dispute's row is not moved by the dispute's event.
LEMMA DisputeStands ==
    ASSUME NEW h, NEW n, Emitted(h, n), NEW k \in 0 .. Len(h), NEW i \in 1 .. k,
           h[i].event.name = "EscrowDisputed",
           \A j \in 1 .. k : h[j].event.escrowId = h[i].event.escrowId
                               => h[j].event.name # "EscrowSettled"
    PROVE  Steady!ApplyToEscrow(RowAt(h[i].event.escrowId, h, k), h[i].event)
             = RowAt(h[i].event.escrowId, h, k)
<1>1. DOMAIN h = 1 .. Len(h) /\ Len(h) \in Nat /\ i \in DOMAIN h
  BY EmittedNumbered DEF Numbered
<1>2. DEFINE o == h[i].event.escrowId
             before == RowAt(o, h, i - 1)
<1>3. i - 1 \in Nat /\ i - 1 \in 0 .. Len(h) /\ (i - 1) + 1 = i /\ i \in Nat /\ k \in Nat /\ i <= k
  BY <1>1
<1>4. RowAt(o, h, (i - 1) + 1) = IF h[(i - 1) + 1].event.escrowId = o
                                 THEN Steady!ApplyToEscrow(RowAt(o, h, i - 1),
                                                              h[(i - 1) + 1].event)
                                 ELSE RowAt(o, h, i - 1)
  BY <1>3, RowAtNext
<1>5. RowAt(o, h, i) = Steady!ApplyToEscrow(before, h[i].event)
  BY <1>3, <1>4
<1>6. before \in Steady!EscrowRow /\ before.status # "absent"
  <2>1. PICK j \in DOMAIN h : Pair(h, j, i)
    BY <1>1 DEF Emitted
  <2>2. j \in 1 .. i - 1 /\ h[j].event.escrowId = o
    BY <1>1, <2>1 DEF Pair
  <2>3. QED
    BY <1>3, <2>2, RowAtShape
<1>7. ASSUME NEW j \in i + 1 .. k PROVE h[j].event.escrowId # o
  <2>1. SUFFICES ASSUME h[j].event.escrowId = o PROVE FALSE
    OBVIOUS
  <2>2. j \in DOMAIN h /\ j \in 1 .. k /\ Pair(h, i, j)
    BY <1>1, <1>3, <2>1 DEF Pair
  <2>3. Precedes("EscrowDisputed", h[j].event.name)
    BY <1>1, <2>2 DEF Emitted
  <2>4. h[j].event.name = "EscrowSettled"
    BY <2>3 DEF Precedes
  <2>5. QED
    BY <2>1, <2>2, <2>4
<1> HIDE DEF before
<1>8. RowAt(o, h, k) = RowAt(o, h, i)
  BY <1>3, <1>7, RowAtKept
<1>9. Steady!ApplyToEscrow(before, h[i].event) = Steady!ApplyDisputed(before)
  BY <1>6 DEF Steady!ApplyToEscrow
<1>10. Steady!ApplyDisputed(before).status = "disputed"
       /\ Steady!ApplyDisputed(Steady!ApplyDisputed(before)) = Steady!ApplyDisputed(before)
  BY <1>6 DEF Steady!ApplyDisputed, Steady!EscrowRow
<1>11. Steady!ApplyToEscrow(Steady!ApplyDisputed(before), h[i].event)
         = Steady!ApplyDisputed(Steady!ApplyDisputed(before))
  BY <1>10 DEF Steady!ApplyToEscrow
<1>12. QED
  BY <1>5, <1>8, <1>9, <1>10, <1>11

\* Applied again, an event changes nothing that matters.
LEMMA EventAgain ==
    ASSUME NEW h, NEW n, Emitted(h, n), NEW k \in 0 .. Len(h), NEW i \in 1 .. k,
           h[i].event.name = "EscrowDisputed" =>
              \A j \in 1 .. k : h[j].event.escrowId = h[i].event.escrowId
                                  => h[j].event.name # "EscrowSettled",
           NEW d, Mirrors(d, h, k)
    PROVE  LET a == Steady!ApplyEvent(d, h[i]) IN
           Mirrors(a, h, k) /\ a.cursor = d.cursor /\ NoneExpired(a, d)
<1>1. DOMAIN h = 1 .. Len(h) /\ Len(h) \in Nat /\ i \in DOMAIN h
  BY EmittedNumbered DEF Numbered
<1>2. Figures(h[i].event)
  BY <1>1, EmittedNumbered
<1>3. DEFINE a == Steady!ApplyEvent(d, h[i])
             e == h[i].event.escrowId
             name == h[i].event.name
<1>4. Tables(d)
  BY DEF Mirrors
<1>0. EventEffect(d, h[i], a)
  BY <1>2, <1>4, EventTables
<1>5. /\ Tables(a) /\ a.cursor = d.cursor
      /\ AllAgreed(d) => AllAgreed(a)
      /\ \A o \in Orders : a.orders[o].status = "expired" => d.orders[o].status = "expired"
      /\ DOMAIN a.txs = IF e \in Orders /\ Steady!HasTxType(name)
                        THEN DOMAIN d.txs \cup {h[i].tx} ELSE DOMAIN d.txs
      /\ \A o \in Orders :
            a.rows[o] = IF o = e /\ ~Steady!Seen(d, h[i])
                        THEN Steady!ApplyToEscrow(d.rows[o], h[i].event) ELSE d.rows[o]
      /\ \A o \in Orders, m \in Steady!EventNames :
            a.trail[o][m] = IF o = e /\ m = name /\ ~Steady!Seen(d, h[i])
                            THEN Steady!Noted(d.trail[o][m]) ELSE d.trail[o][m]
  BY <1>0 DEF EventEffect
<1> HIDE DEF a
<1>6. e \in Orders /\ Steady!HasTxType(name) => Steady!Seen(d, h[i])
  BY DEF Mirrors, TxsUpto, Steady!Seen
<1>7. DOMAIN a.txs = TxsUpto(h, k)
  BY <1>5, <1>6 DEF Mirrors, Steady!Seen
<1>8. \A o \in Orders : a.rows[o] = RowAt(o, h, k)
  <2>1. SUFFICES ASSUME NEW o \in Orders PROVE a.rows[o] = RowAt(o, h, k)
    OBVIOUS
  <2>2. d.rows[o] = RowAt(o, h, k)
    BY DEF Mirrors
  <2>3. CASE o = e /\ ~Steady!HasTxType(name)
    <3>1. name = "EscrowDisputed"
      BY <2>3 DEF Steady!HasTxType
    <3>2. Steady!ApplyToEscrow(RowAt(e, h, k), h[i].event) = RowAt(e, h, k)
      BY <3>1, DisputeStands
    <3>3. QED
      BY <1>5, <2>2, <2>3, <3>2
  <2>4. CASE ~(o = e /\ ~Steady!HasTxType(name))
    BY <1>5, <1>6, <2>2, <2>4
  <2>5. QED
    BY <2>3, <2>4
<1>9. \A o \in Orders, m \in Steady!EventNames :
         Steady!HasTxType(m) => a.trail[o][m] = IF Happened(h, k, o, m) THEN 1 ELSE 0
  <2>1. SUFFICES ASSUME NEW o \in Orders, NEW m \in Steady!EventNames, Steady!HasTxType(m)
                 PROVE  a.trail[o][m] = IF Happened(h, k, o, m) THEN 1 ELSE 0
    OBVIOUS
  <2>2. d.trail[o][m] = IF Happened(h, k, o, m) THEN 1 ELSE 0
    BY <2>1 DEF Mirrors
  <2>3. a.trail[o][m] = d.trail[o][m]
    BY <1>5, <1>6, <2>1
  <2>4. QED
    BY <2>2, <2>3
<1>10. Mirrors(a, h, k)
  BY <1>5, <1>7, <1>8, <1>9 DEF Mirrors
<1>11. QED
  BY <1>5, <1>10 DEF a, NoneExpired

\* The next event is applied as the contract meant it.
LEMMA EventNext ==
    ASSUME NEW h, NEW n, Emitted(h, n), NEW k \in Nat, k < Len(h),
           NEW d, Mirrors(d, h, k)
    PROVE  LET a == Steady!ApplyEvent(d, h[k + 1]) IN
           Mirrors(a, h, k + 1) /\ a.cursor = d.cursor /\ NoneExpired(a, d)
<1>1. DOMAIN h = 1 .. Len(h) /\ Len(h) \in Nat /\ k + 1 \in DOMAIN h
  BY EmittedNumbered DEF Numbered
<1>2. DEFINE log == h[k + 1]
             a == Steady!ApplyEvent(d, log)
             e == log.event.escrowId
             name == log.event.name
<1>3. Figures(log.event)
  BY <1>1, EmittedNumbered
<1>4. Tables(d)
  BY DEF Mirrors
<1>0. EventEffect(d, log, a)
  BY <1>3, <1>4, EventTables
<1>5. /\ Tables(a) /\ a.cursor = d.cursor
      /\ AllAgreed(d) => AllAgreed(a)
      /\ \A o \in Orders : a.orders[o].status = "expired" => d.orders[o].status = "expired"
      /\ DOMAIN a.txs = IF e \in Orders /\ Steady!HasTxType(name)
                        THEN DOMAIN d.txs \cup {log.tx} ELSE DOMAIN d.txs
      /\ \A o \in Orders :
            a.rows[o] = IF o = e /\ ~Steady!Seen(d, log)
                        THEN Steady!ApplyToEscrow(d.rows[o], log.event) ELSE d.rows[o]
      /\ \A o \in Orders, m \in Steady!EventNames :
            a.trail[o][m] = IF o = e /\ m = name /\ ~Steady!Seen(d, log)
                            THEN Steady!Noted(d.trail[o][m]) ELSE d.trail[o][m]
  BY <1>0 DEF EventEffect
<1>6. ~Steady!Seen(d, log)
  <2>1. SUFFICES ASSUME NEW j \in 1 .. k, h[j].tx = log.tx
                 PROVE  FALSE
    BY DEF Mirrors, TxsUpto, Steady!Seen
  <2>2. j \in DOMAIN h /\ j # k + 1
    BY <1>1
  <2>3. QED
    BY <1>1, <2>1, <2>2, TransactionsDiffer
<1> HIDE DEF a, log
<1>7. DOMAIN a.txs = TxsUpto(h, k + 1)
  <2>1. TxsUpto(h, k + 1) = IF e \in Orders /\ Steady!HasTxType(name)
                            THEN TxsUpto(h, k) \cup {log.tx} ELSE TxsUpto(h, k)
    BY <1>1 DEF TxsUpto, log
  <2>2. QED
    BY <1>5, <2>1 DEF Mirrors
<1>8. \A o \in Orders : a.rows[o] = RowAt(o, h, k + 1)
  <2>1. SUFFICES ASSUME NEW o \in Orders PROVE a.rows[o] = RowAt(o, h, k + 1)
    OBVIOUS
  <2>2. d.rows[o] = RowAt(o, h, k)
    BY DEF Mirrors
  <2>3. RowAt(o, h, k + 1) = IF e = o THEN Steady!ApplyToEscrow(RowAt(o, h, k), log.event)
                             ELSE RowAt(o, h, k)
    BY RowAtNext DEF log
  <2>4. QED
    BY <1>5, <1>6, <2>2, <2>3
<1>9. \A o \in Orders, m \in Steady!EventNames :
         Steady!HasTxType(m) => a.trail[o][m] = IF Happened(h, k + 1, o, m) THEN 1 ELSE 0
  <2>1. SUFFICES ASSUME NEW o \in Orders, NEW m \in Steady!EventNames, Steady!HasTxType(m)
                 PROVE  a.trail[o][m] = IF Happened(h, k + 1, o, m) THEN 1 ELSE 0
    OBVIOUS
  <2>2. d.trail[o][m] = IF Happened(h, k, o, m) THEN 1 ELSE 0
    BY <2>1 DEF Mirrors
  <2>3. Happened(h, k + 1, o, m) <=> (e = o /\ name = m) \/ Happened(h, k, o, m)
    <3>1. \A i \in 1 .. k + 1 : i = k + 1 \/ i \in 1 .. k
      OBVIOUS
    <3>2. \A i \in 1 .. k : i \in 1 .. k + 1
      OBVIOUS
    <3>3. k + 1 \in 1 .. k + 1
      OBVIOUS
    <3>4. QED
      BY <3>1, <3>2, <3>3 DEF Happened, log
  <2>4. CASE e = o /\ name = m
    <3>1. ~Happened(h, k, o, m)
      <4>1. SUFFICES ASSUME NEW i \in 1 .. k, h[i].event.escrowId = e, h[i].event.name = name
                     PROVE  FALSE
        BY <2>4 DEF Happened
      <4>2. i \in DOMAIN h /\ i # k + 1
        BY <1>1
      <4>3. QED
        BY <1>1, <4>1, <4>2, EventsDiffer DEF log
    <3>2. a.trail[o][m] = Steady!Noted(0)
      BY <1>5, <1>6, <2>2, <2>4, <3>1
    <3>3. QED
      BY <2>3, <2>4, <3>2 DEF Steady!Noted
  <2>5. CASE ~(e = o /\ name = m)
    BY <1>5, <2>2, <2>3, <2>5
  <2>6. QED
    BY <2>4, <2>5
<1>10. Mirrors(a, h, k + 1)
  BY <1>5, <1>7, <1>8, <1>9 DEF Mirrors
<1>11. QED
  BY <1>5, <1>10 DEF a, log, NoneExpired

-----------------------------------------------------------------------------
(* Applying a chunk.                                                       *)

\* One event is applied, unless the tables have refused one before.
Applied(d, log) == IF Steady!Checks(d) THEN Steady!ApplyEvent(d, log) ELSE d

ApplyBody(f, d, logs, n) ==
    [i \in 0 .. n |-> IF i = 0 THEN d ELSE Applied(f[i - 1], logs[i])]

\* The recursion that applies a chunk has a solution.
LEMMA ApplySolvable ==
    ASSUME NEW d, NEW logs, NEW n \in Nat
    PROVE  \E f : f = ApplyBody(f, d, logs, n)
<1>1. DEFINE Solvable == {k \in 0 .. n : \E f : f = ApplyBody(f, d, logs, k)}
<1>2. 0 \in Solvable
  <2>1. [i \in 0 .. 0 |-> d] = ApplyBody([i \in 0 .. 0 |-> d], d, logs, 0)
    BY DEF ApplyBody
  <2>2. QED
    BY <2>1
<1>3. \A k \in 1 .. n : k - 1 \in Solvable => k \in Solvable
  <2>1. SUFFICES ASSUME NEW k \in 1 .. n, k - 1 \in Solvable
                 PROVE  k \in Solvable
    OBVIOUS
  <2>2. PICK f : f = ApplyBody(f, d, logs, k - 1)
    BY <2>1
  <2>3. DEFINE g == [i \in 0 .. k |-> IF i = k THEN Applied(f[k - 1], logs[k]) ELSE f[i]]
  <2>4. \A i \in 0 .. k : g[i] = IF i = 0 THEN d ELSE Applied(g[i - 1], logs[i])
    <3>1. SUFFICES ASSUME NEW i \in 0 .. k
                   PROVE  g[i] = IF i = 0 THEN d ELSE Applied(g[i - 1], logs[i])
      OBVIOUS
    <3>2. \A j \in 0 .. k - 1 : f[j] = IF j = 0 THEN d ELSE Applied(f[j - 1], logs[j])
      BY <2>2 DEF ApplyBody
    <3>3. CASE i = k
      BY <3>3, <2>1
    <3>4. CASE i # k
      BY <3>4, <3>2, <2>1
    <3>5. QED
      BY <3>3, <3>4
  <2>5. g = ApplyBody(g, d, logs, k)
    BY <2>4 DEF ApplyBody
  <2>6. QED
    BY <2>1, <2>5
<1>4. n \in Solvable
  <2>1. \A i \in 0 .. n : i \in Solvable
    <3> HIDE DEF Solvable
    <3>1. QED
      BY <1>2, <1>3, IntervalInduction
  <2>2. QED
    BY <2>1
<1>5. QED
  BY <1>4

\* The tables after each of the logs.
Stages(f, d, logs) ==
    /\ f[0] = d
    /\ \A i \in 1 .. Len(logs) : f[i] = Applied(f[i - 1], logs[i])
    /\ Steady!ApplyLogs(d, logs) = f[Len(logs)]

\* What a chunk leaves is the last of the stages.
LEMMA ApplyUnfolds ==
    ASSUME NEW d, NEW logs, Len(logs) \in Nat
    PROVE  \E f : Stages(f, d, logs)
<1>1. DEFINE f == CHOOSE f : f = ApplyBody(f, d, logs, Len(logs))
<1>2. f = ApplyBody(f, d, logs, Len(logs))
  BY ApplySolvable
<1>3. Steady!ApplyLogs(d, logs) = f[Len(logs)]
  BY DEF Steady!ApplyLogs, ApplyBody, Applied
<1> HIDE DEF f
<1>4. /\ f[0] = d
      /\ \A i \in 1 .. Len(logs) : f[i] = Applied(f[i - 1], logs[i])
  BY <1>2 DEF ApplyBody
<1>5. QED
  BY <1>3, <1>4 DEF Stages

\* No dispute in p + 1 .. k has its settlement in 1 .. k.
Unsettled(h, p, k) ==
    \A i \in p + 1 .. k, j \in 1 .. k :
        h[i].event.name = "EscrowDisputed" /\ h[j].event.escrowId = h[i].event.escrowId
           => h[j].event.name # "EscrowSettled"

\* Logs p + 1 .. q, of which the tables know the first ones already.
LEMMA ChunkApplied ==
    ASSUME NEW h, NEW n, Emitted(h, n), NEW d, NEW k \in 0 .. Len(h), Mirrors(d, h, k),
           NEW p \in 0 .. k, NEW q \in p .. Len(h), Unsettled(h, p, k),
           NEW logs, Len(logs) = q - p, \A i \in 1 .. q - p : logs[i] = h[p + i],
           Steady!Checks(Steady!ApplyLogs(d, logs))
    PROVE  LET a == Steady!ApplyLogs(d, logs) IN
           /\ Mirrors(a, h, IF q > k THEN q ELSE k)
           /\ a.cursor = d.cursor /\ NoneExpired(a, d)
<1>1. Len(h) \in Nat /\ q - p \in Nat
  BY EmittedNumbered DEF Numbered
<1>0. PICK f : Stages(f, d, logs)
  <2>1. Len(logs) \in Nat
    BY <1>1
  <2>2. QED
    BY <2>1, ApplyUnfolds
<1>2. /\ f[0] = d
      /\ \A i \in 1 .. q - p : f[i] = Applied(f[i - 1], logs[i])
      /\ Steady!ApplyLogs(d, logs) = f[q - p]
  BY <1>0 DEF Stages
<1>3. DEFINE Good == {i \in 0 .. q - p :
                        Steady!Checks(f[i]) =>
                          /\ Mirrors(f[i], h, IF p + i > k THEN p + i ELSE k)
                          /\ f[i].cursor = d.cursor /\ NoneExpired(f[i], d)}
<1>4. 0 \in Good
  BY <1>1, <1>2 DEF NoneExpired
<1>5. \A i \in 1 .. q - p : i - 1 \in Good => i \in Good
  <2>1. SUFFICES ASSUME NEW i \in 1 .. q - p, i - 1 \in Good, Steady!Checks(f[i]) PROVE i \in Good
    OBVIOUS
  <2>2. Steady!Checks(f[i - 1])
    BY <1>2, <2>1 DEF Applied
  <2>3. /\ Mirrors(f[i - 1], h, IF p + (i - 1) > k THEN p + (i - 1) ELSE k)
        /\ f[i - 1].cursor = d.cursor /\ NoneExpired(f[i - 1], d)
    BY <2>1, <2>2
  <2>4. f[i] = Steady!ApplyEvent(f[i - 1], h[p + i])
    BY <2>1, <2>2, <1>2 DEF Applied
  <2>5. CASE p + i <= k
    <3>1. Mirrors(f[i - 1], h, k) /\ p + i \in 1 .. k /\ p + i \in p + 1 .. k
      BY <2>3, <2>5, <1>1
    <3>2. h[p + i].event.name = "EscrowDisputed" =>
             \A j \in 1 .. k : h[j].event.escrowId = h[p + i].event.escrowId
                                 => h[j].event.name # "EscrowSettled"
      BY <3>1 DEF Unsettled
    <3>3. DEFINE c == p + i
    <3>4. /\ c \in 1 .. k
          /\ h[c].event.name = "EscrowDisputed" =>
               \A j \in 1 .. k : h[j].event.escrowId = h[c].event.escrowId
                                 => h[j].event.name # "EscrowSettled"
      BY <3>1, <3>2
    <3> HIDE DEF c
    <3>5. /\ Mirrors(Steady!ApplyEvent(f[i - 1], h[c]), h, k)
          /\ Steady!ApplyEvent(f[i - 1], h[c]).cursor = f[i - 1].cursor
          /\ NoneExpired(Steady!ApplyEvent(f[i - 1], h[c]), f[i - 1])
      BY <3>1, <3>4, EventAgain
    <3>6. Mirrors(f[i], h, k) /\ f[i].cursor = d.cursor /\ NoneExpired(f[i], d)
      BY <3>5, <2>3, <2>4 DEF NoneExpired, c
    <3>7. QED
      BY <3>6, <2>1, <2>5, <1>1
  <2>6. CASE p + i > k
    <3>1. p + i - 1 \in Nat /\ p + i - 1 < Len(h) /\ (p + i - 1) + 1 = p + i
      BY <1>1, <2>6
    <3>2. Mirrors(f[i - 1], h, p + i - 1)
      <4>1. (IF p + (i - 1) > k THEN p + (i - 1) ELSE k) = p + i - 1
        BY <1>1, <2>6
      <4>2. QED
        BY <4>1, <2>3
    <3>3. /\ Mirrors(Steady!ApplyEvent(f[i - 1], h[(p + i - 1) + 1]), h, (p + i - 1) + 1)
          /\ Steady!ApplyEvent(f[i - 1], h[(p + i - 1) + 1]).cursor = f[i - 1].cursor
          /\ NoneExpired(Steady!ApplyEvent(f[i - 1], h[(p + i - 1) + 1]), f[i - 1])
      BY <3>1, <3>2, EventNext
    <3>4. Mirrors(f[i], h, p + i) /\ f[i].cursor = d.cursor /\ NoneExpired(f[i], d)
      BY <3>1, <3>3, <2>3, <2>4 DEF NoneExpired
    <3>5. QED
      BY <3>4, <2>1, <2>6, <1>1
  <2>7. QED
    BY <2>5, <2>6, <1>1
<1>6. q - p \in Good
  <2>1. \A i \in 0 .. q - p : i \in Good
    <3> HIDE DEF Good
    <3>1. QED
      BY <1>1, <1>4, <1>5, IntervalInduction
  <2>2. QED
    BY <1>1, <2>1
<1>7. p + (q - p) = q
  BY <1>1
<1>8. QED
  BY <1>2, <1>6, <1>7

\* Tables mirror every history that agrees on the logs they know.
LEMMA MirrorsAgree ==
    ASSUME NEW h, NEW g, NEW k \in Nat, Agree(h, g, k), NEW d, Mirrors(d, h, k)
    PROVE  Mirrors(d, g, k)
<1>1. \A i \in 1 .. k : h[i] = g[i]
  BY DEF Agree
<1>2. TxsUpto(g, k) = TxsUpto(h, k)
  BY <1>1 DEF TxsUpto
<1>3. \A o \in Orders : RowAt(o, h, k) = RowAt(o, g, k)
  BY <1>1, RowAtAgrees
<1>4. \A o \in Orders, name \in Steady!EventNames :
         Happened(h, k, o, name) <=> Happened(g, k, o, name)
  BY <1>1 DEF Happened
<1>5. QED
  BY <1>2, <1>3, <1>4 DEF Mirrors

-----------------------------------------------------------------------------
(* The invariant of the worker.                                            *)

Behind == IF pass.next <= pass.target THEN pass.next - 1 ELSE pass.target

\* What the open transaction covers: what was committed, and what this pass
\* has gone through.
Reach == IF Behind > Steady!Scanned THEN Behind ELSE Steady!Scanned

\* An order that has expired was not paid by its deadline, for good.
Unpaid(d) ==
    \A o \in Orders :
        d.orders[o].status = "expired" =>
            /\ FundingDeadline <= Settled
            /\ \A i \in 1 .. Cut(history, FundingDeadline) : history[i].event.escrowId # o

\* A pass has seen the chain as it was a few blocks ago.
Recent ==
    /\ DOMAIN pass = {"phase", "next", "target", "reached", "started"}
    /\ pass.next \in Nat /\ pass.target \in Nat /\ pass.started \in Nat
    /\ pass.started <= peak /\ peak <= pass.started + Stall
    /\ pass.target + Confirmations + Reorgable >= pass.started + 1

\* A pass begins where the cursor is rewound to, and ends in settled blocks.
PassOK ==
    /\ Steady!ResumePoint(db.cursor) <= pass.next
    /\ pass.target <= Settled
    /\ pass.reached = IF pass.target < Steady!ResumePoint(db.cursor)
                      THEN Steady!ResumePoint(db.cursor) ELSE pass.target

\* Where the worker stands, and what each copy of the tables mirrors.
WorkerInv ==
    /\ db.cursor \in Nat \cup {Steady!NoCursor}
    /\ Steady!Scanned <= Settled
    /\ Mirrors(db, history, Cut(history, Steady!Scanned)) /\ Unpaid(db)
    /\ pass.phase # "idle" => Recent
    /\ \/ pass.phase = "idle" /\ session = db
       \/ /\ pass.phase = "scanning" /\ PassOK
          /\ session.cursor = db.cursor
          /\ Mirrors(session, history, Cut(history, Reach)) /\ Unpaid(session)
       \/ /\ pass.phase = "sweeping" /\ session = db
          /\ pass.target <= Steady!Scanned

SteadyInv == ChainInv /\ WorkerInv

LEMMA IndexerNaturals ==
    /\ {Confirmations, ChunkSize} \subseteq Nat \ {0}
    /\ {ReorgDepth, Reorgable, Stall, FundingDeadline, ExpiryGrace, SettleDelay} \subseteq Nat
BY Constants DEF Steady!IndexerAssumption

\* Cursor, start of a pass and reach are in order.
LEMMA Ranges ==
    ASSUME SteadyInv
    PROVE  /\ Numbered(history) /\ Len(history) \in Nat
           /\ Settled \in Nat /\ Settled <= head /\ Steady!Scanned \in 0 .. Settled
           /\ Steady!ResumePoint(db.cursor) \in 0 .. Steady!Scanned
           /\ Recent /\ PassOK => Behind \in Int /\ Reach \in 0 .. Settled
<1>2. Numbered(history) /\ Len(history) \in Nat
  BY EmittedNumbered DEF SteadyInv, ChainInv, Numbered
<1>3. Settled \in Nat /\ Settled <= head
  BY IndexerNaturals DEF SteadyInv, ChainInv, Settled
<1>4. Steady!Scanned \in 0 .. Settled /\ Steady!ResumePoint(db.cursor) \in 0 .. Steady!Scanned
  BY IndexerNaturals, <1>3 DEF SteadyInv, WorkerInv, Steady!Scanned, Steady!ResumePoint,
                              Steady!NoCursor
<1>5. Recent /\ PassOK => Behind \in Int /\ Reach \in 0 .. Settled
  BY <1>3, <1>4 DEF Recent, PassOK, Behind, Reach
<1>6. QED
  BY <1>2, <1>3, <1>4, <1>5

LEMMA EscrowsInit ==
    ASSUME Steady!Init
    PROVE  SteadyInv
<1>1. /\ head = 0 /\ history = <<>> /\ peak = 0 /\ forks = 0 /\ db = Steady!EmptyTables
      /\ session = Steady!EmptyTables /\ pass = Steady!Idle
  BY DEF Steady!Init
<1>2. Emitted(<<>>, 0)
  BY DEF Emitted
<1>3. ChainInv
  BY <1>1, <1>2, IndexerNaturals DEF ChainInv
<1>4. db.cursor = Steady!NoCursor /\ pass.phase = "idle" /\ session = db
  BY <1>1 DEF Steady!EmptyTables, Steady!Idle
<1>5. Steady!Scanned = 0 /\ Steady!Scanned <= Settled
  BY <1>1, <1>4, IndexerNaturals DEF Steady!Scanned, Settled
<1>6. Cut(history, Steady!Scanned) = 0
  <2>1. Cut(history, 0) \in 0 .. Len(history)
    BY <1>3, EmittedNumbered, CutSplits DEF ChainInv
  <2>2. QED
    BY <2>1, <1>1, <1>5
<1>7. Mirrors(Steady!EmptyTables, history, 0)
  <2>1. Steady!NoRow \in Steady!EscrowRow /\ Steady!NoRow.status = "absent"
    BY DEF Steady!NoRow, Steady!EscrowRow
  <2>2. Tables(Steady!EmptyTables)
    <3>1. Steady!EmptyTables.orders \in [Orders -> Order]
      BY DEF Steady!EmptyTables, Order, Steady!OrderStatuses
    <3>2. Steady!EmptyTables.rows \in [Orders -> Steady!EscrowRow]
      BY <2>1 DEF Steady!EmptyTables
    <3>3. Steady!EmptyTables.trail \in [Orders -> [Steady!EventNames -> 0 .. 2]]
      BY DEF Steady!EmptyTables
    <3>4. DOMAIN Steady!EmptyTables = {"orders", "rows", "txs", "trail", "cursor"}
      BY DEF Steady!EmptyTables
    <3>5. QED
      BY <3>1, <3>2, <3>3, <3>4 DEF Tables
  <2>3. AllAgreed(Steady!EmptyTables)
    BY <2>1 DEF AllAgreed, Agreed, Steady!EmptyTables
  <2>4. DOMAIN Steady!EmptyTables.txs = {} /\ TxsUpto(history, 0) = {}
    BY DEF Steady!EmptyTables, TxsUpto
  <2>5. \A o \in Orders : Steady!EmptyTables.rows[o] = RowAt(o, history, 0)
    BY RowAtStart DEF Steady!EmptyTables
  <2>6. \A o \in Orders, name \in Steady!EventNames :
           Steady!EmptyTables.trail[o][name] = 0 /\ ~Happened(history, 0, o, name)
    BY DEF Steady!EmptyTables, Happened
  <2>7. QED
    BY <2>2, <2>3, <2>4, <2>5, <2>6 DEF Mirrors
<1>8. Unpaid(db)
  BY <1>1 DEF Unpaid, Steady!EmptyTables
<1>9. QED
  BY <1>1, <1>3, <1>4, <1>5, <1>6, <1>7, <1>8 DEF SteadyInv, WorkerInv, Steady!NoCursor

\* The chain moves: the worker's blocks are settled.
LEMMA ChainStepKeepsInv ==
    ASSUME SteadyInv, ChainStep
    PROVE  SteadyInv'
<1>1. /\ ChainInv' /\ Settled <= Settled'
      /\ \A m \in 0 .. Settled : Kept(history, history', m)
  BY ChainAdvances DEF SteadyInv
<1>2. db' = db /\ session' = session /\ pass' = pass
  BY DEF ChainStep, Steady!MineEmpty, Steady!MineCall, Steady!MineTwoCalls, Steady!Mine,
         Steady!Reorg
<1>3. \A m \in 0 .. Settled : \A d :
         Mirrors(d, history, Cut(history, m)) => Mirrors(d, history', Cut(history', m))
  <2>1. SUFFICES ASSUME NEW m \in 0 .. Settled, NEW d, Mirrors(d, history, Cut(history, m))
                 PROVE  Mirrors(d, history', Cut(history', m))
    OBVIOUS
  <2>2. Cut(history', m) = Cut(history, m) /\ Agree(history, history', Cut(history, m))
    BY <1>1 DEF Kept
  <2>3. Cut(history, m) \in Nat
    BY <2>1, Ranges, CutSplits
  <2>4. QED
    BY <2>1, <2>2, <2>3, MirrorsAgree
<1>4. /\ Steady!Scanned' = Steady!Scanned /\ Reach' = Reach
      /\ Steady!ResumePoint(db'.cursor) = Steady!ResumePoint(db.cursor)
  BY <1>2 DEF Steady!Scanned, Reach, Behind
<1>5. /\ Steady!Scanned \in 0 .. Settled /\ Settled \in Nat
      /\ Recent /\ PassOK => Reach \in 0 .. Settled
  BY Ranges
<1>6. Settled' \in Nat
  BY <1>1, IndexerNaturals DEF Settled, ChainInv
<1>7. Mirrors(db', history', Cut(history', Steady!Scanned'))
  BY <1>2, <1>3, <1>4, <1>5 DEF SteadyInv, WorkerInv
<1>8. PassOK => PassOK' \/ ~Recent
  BY <1>1, <1>2, <1>4, <1>5, <1>6 DEF PassOK, Recent
<1>9. (Recent /\ PassOK /\ Mirrors(session, history, Cut(history, Reach)))
      => Mirrors(session', history', Cut(history', Reach'))
  BY <1>2, <1>3, <1>4, <1>5
<1>10. Steady!Scanned' <= Settled'
  BY <1>1, <1>4, <1>5, <1>6
<1>11. ASSUME NEW d, Unpaid(d)
       PROVE  \A o \in Orders :
                 d.orders[o].status = "expired" =>
                    /\ FundingDeadline <= Settled'
                    /\ \A i \in 1 .. Cut(history', FundingDeadline) :
                                    history'[i].event.escrowId # o
  <2>1. SUFFICES ASSUME NEW o \in Orders, d.orders[o].status = "expired"
                 PROVE  /\ FundingDeadline <= Settled'
                        /\ \A i \in 1 .. Cut(history', FundingDeadline) :
                                    history'[i].event.escrowId # o
    OBVIOUS
  <2>2. /\ FundingDeadline <= Settled
        /\ \A i \in 1 .. Cut(history, FundingDeadline) : history[i].event.escrowId # o
    BY <1>11, <2>1 DEF Unpaid
  <2>3. FundingDeadline \in Nat /\ FundingDeadline \in 0 .. Settled
    BY <2>2, <1>5, IndexerNaturals
  <2>4. /\ Cut(history', FundingDeadline) = Cut(history, FundingDeadline)
        /\ Agree(history, history', Cut(history, FundingDeadline))
    BY <1>1, <2>3 DEF Kept
  <2>5. QED
    BY <1>1, <1>5, <1>6, <2>2, <2>3, <2>4 DEF Agree
<1>12. (Unpaid(db) => Unpaid(db)') /\ (Unpaid(session) => Unpaid(session)')
  BY <1>2, <1>11 DEF Unpaid
<1>13. pass.phase # "idle" /\ Recent => Recent'
  <2>1. SUFFICES ASSUME pass.phase # "idle", Recent PROVE Recent'
    OBVIOUS
  <2>2. CASE Steady!Reorg
    BY <2>1, <2>2, <1>2 DEF Steady!Reorg, Recent
  <2>3. CASE Steady!MineEmpty \/ Steady!MineCall \/ Steady!MineTwoCalls
    <3>1. peak < pass.started + Stall /\ head' = head + 1
          /\ peak' = IF head' > peak THEN head' ELSE peak
      BY <2>1, <2>3 DEF Steady!MineEmpty, Steady!MineCall, Steady!MineTwoCalls, Steady!Mine
    <3>2. head \in Nat /\ peak \in Nat /\ head <= peak
      BY DEF SteadyInv, ChainInv
    <3>3. QED
      BY <2>1, <3>1, <3>2, <1>2, IndexerNaturals DEF Recent
  <2>4. QED
    BY <2>2, <2>3 DEF ChainStep
<1>14. QED
  BY <1>1, <1>2, <1>4, <1>7, <1>8, <1>9, <1>10, <1>12, <1>13 DEF SteadyInv, WorkerInv

\* A pass begins.
LEMMA StartKeepsInv ==
    ASSUME SteadyInv, Steady!StartScan
    PROVE  SteadyInv'
<1>1. DEFINE from == Steady!ResumePoint(db.cursor)
<1>2. /\ pass.phase = "idle" /\ session = db
      /\ pass' = [phase |-> "scanning", next |-> from, target |-> Steady!SafeHead(head),
                  reached |-> IF Steady!SafeHead(head) < from THEN from ELSE Steady!SafeHead(head),
                  started |-> peak]
      /\ UNCHANGED <<head, history, peak, forks, db, session>>
  BY DEF Steady!StartScan, SteadyInv, WorkerInv
<1>3. from \in 0 .. Steady!Scanned /\ Steady!Scanned \in 0 .. Settled /\ Settled \in Nat
  BY Ranges
<1> HIDE DEF from
<1>4. /\ Steady!SafeHead(head) \in Nat /\ Steady!SafeHead(head) <= Settled
      /\ Steady!SafeHead(head) + Confirmations + Reorgable >= peak + 1
  <2>1. /\ head \in Nat /\ peak \in Nat /\ head <= peak /\ peak <= head + Reorgable
        /\ Confirmations \in Nat /\ Reorgable \in Nat /\ Reorgable < Confirmations
    BY IndexerNaturals, SteadyDepths DEF SteadyInv, ChainInv
  <2>2. QED
    BY <2>1 DEF Steady!SafeHead, Settled
<1>5. Settled' = Settled /\ Steady!Scanned' = Steady!Scanned
  BY <1>2 DEF Settled, Steady!Scanned
<1>6. Recent'
  <2>1. /\ DOMAIN pass' = {"phase", "next", "target", "reached", "started"}
        /\ pass'.next = from /\ pass'.target = Steady!SafeHead(head) /\ pass'.started = peak
    BY <1>2
  <2>2. peak \in Nat /\ Stall \in Nat
    BY IndexerNaturals DEF SteadyInv, ChainInv
  <2>3. QED
    BY <1>2, <1>3, <1>4, <2>1, <2>2 DEF Recent
<1>7. PassOK'
  BY <1>2, <1>3, <1>4, <1>5 DEF PassOK, from
<1>8. Reach' = Steady!Scanned
  BY <1>2, <1>3, <1>4, <1>5 DEF Reach, Behind
<1>9. ChainInv'
  BY <1>2 DEF SteadyInv, ChainInv
<1>10. WorkerInv'
  <2>1. Unpaid(db)' /\ Unpaid(session)'
    BY <1>2, <1>5 DEF SteadyInv, WorkerInv, Unpaid
  <2>2. /\ Mirrors(db', history', Cut(history', Steady!Scanned'))
        /\ Mirrors(session', history', Cut(history', Reach'))
    BY <1>2, <1>5, <1>8 DEF SteadyInv, WorkerInv
  <2>3. pass'.phase = "scanning" /\ session'.cursor = db'.cursor
        /\ db'.cursor \in Nat \cup {Steady!NoCursor} /\ Steady!Scanned' <= Settled'
    BY <1>2, <1>5 DEF SteadyInv, WorkerInv
  <2>4. QED
    BY <1>6, <1>7, <2>1, <2>2, <2>3 DEF WorkerInv
<1>11. QED
  BY <1>9, <1>10 DEF SteadyInv

\* A dispute that is scanned again has not been settled in the blocks scanned.
LEMMA RewoundIsUnsettled ==
    ASSUME SteadyInv, Recent, PassOK
    PROVE  Unsettled(history, Cut(history, pass.next - 1), Cut(history, Reach))
<1>1. /\ Numbered(history) /\ Steady!Scanned \in 0 .. Settled /\ Settled \in Nat
      /\ Reach \in 0 .. Settled /\ Behind \in Int
  BY Ranges
<1>2. pass.next \in Nat /\ Steady!ResumePoint(db.cursor) <= pass.next /\ pass.target \in Nat
  BY DEF PassOK, Recent
<1>3. SUFFICES ASSUME NEW i \in Cut(history, pass.next - 1) + 1 .. Cut(history, Reach),
                      NEW j \in 1 .. Cut(history, Reach),
                      history[i].event.name = "EscrowDisputed",
                      history[j].event.escrowId = history[i].event.escrowId,
                      history[j].event.name = "EscrowSettled"
               PROVE  FALSE
  BY DEF Unsettled
<1>4. /\ Cut(history, pass.next - 1) \in 0 .. Len(history)
      /\ \A x \in DOMAIN history :
            history[x].number <= pass.next - 1 <=> x <= Cut(history, pass.next - 1)
  <2>1. pass.next - 1 \in Int
    BY <1>2
  <2>2. QED
    BY <1>1, <2>1, CutSplits
<1>5. /\ Cut(history, Reach) \in 0 .. Len(history)
      /\ \A x \in DOMAIN history : history[x].number <= Reach <=> x <= Cut(history, Reach)
  <2>1. Reach \in Int
    BY <1>1
  <2>2. QED
    BY <1>1, <2>1, CutSplits
<1>6. /\ i \in DOMAIN history /\ j \in DOMAIN history /\ i \in Nat /\ j \in Nat
      /\ history[i].number \in Nat /\ history[j].number \in Nat
  BY <1>1, <1>3, <1>4, <1>5 DEF Numbered
<1>7. history[i].number >= pass.next /\ history[i].number <= Reach /\ history[j].number <= Reach
  BY <1>2, <1>3, <1>4, <1>5, <1>6
<1>8. Reach = Steady!Scanned /\ Steady!Scanned = db.cursor
  <2>1. Behind <= pass.next - 1
    BY <1>2 DEF Behind
  <2>2. Reach = Steady!Scanned
    BY <1>1, <1>2, <1>6, <1>7, <2>1 DEF Reach
  <2>3. Steady!Scanned >= 1
    <3>1. history[i].number # 0
      BY <1>1, <1>6 DEF Numbered
    <3>2. QED
      BY <1>1, <1>6, <1>7, <2>2, <3>1
  <2>4. QED
    BY <2>2, <2>3 DEF Steady!Scanned
<1>9. history[i].number + ReorgDepth >= Steady!Scanned
  BY <1>1, <1>2, <1>6, <1>7, <1>8, IndexerNaturals DEF Steady!ResumePoint, Steady!NoCursor
<1>10. i # j
  BY <1>3
<1>11. Emitted(history, head)
  BY DEF SteadyInv, ChainInv
<1>12. i < j
  <2>1. SUFFICES ASSUME j < i PROVE FALSE
    BY <1>6, <1>10
  <2>2. Precedes("EscrowSettled", "EscrowDisputed")
    BY <1>3, <1>6, <1>11, <2>1 DEF Emitted, Pair
  <2>3. QED
    BY <2>2 DEF Precedes
<1>13. history[j].number >= history[i].number + SettleDelay
  BY <1>3, <1>6, <1>11, <1>12 DEF Emitted, Pair
<1>14. QED
  BY <1>1, <1>6, <1>7, <1>8, <1>9, <1>13, SteadyDepths, IndexerNaturals

\* The process dies: the open transaction is lost.
LEMMA CrashKeepsInv ==
    ASSUME SteadyInv, session' = db, pass' = Steady!Idle,
           UNCHANGED <<head, history, peak, forks, db>>
    PROVE  SteadyInv'
<1>1. pass'.phase = "idle" /\ session' = db'
  BY DEF Steady!Idle
<1>2. Steady!Scanned' = Steady!Scanned /\ Settled' = Settled
  BY DEF Steady!Scanned, Settled
<1>3. ChainInv'
  BY DEF SteadyInv, ChainInv
<1>4. Unpaid(db)'
  BY <1>2 DEF SteadyInv, WorkerInv, Unpaid
<1>5. Mirrors(db', history', Cut(history', Steady!Scanned'))
  BY <1>2 DEF SteadyInv, WorkerInv
<1>6. db'.cursor \in Nat \cup {Steady!NoCursor} /\ Steady!Scanned' <= Settled'
  BY <1>2 DEF SteadyInv, WorkerInv
<1>7. QED
  BY <1>1, <1>3, <1>4, <1>5, <1>6 DEF SteadyInv, WorkerInv

\* A chunk is applied: its first logs may be known, the others come next.
LEMMA ScanKeepsInv ==
    ASSUME SteadyInv, Steady!ScanChunk
    PROVE  SteadyInv'
<1>1. DEFINE last == Steady!ChunkEnd(pass.next, pass.target)
             logs == Steady!Logs(pass.next, last)
             after == Steady!ApplyLogs(session, logs)
<1>2. /\ pass.phase = "scanning" /\ pass.next <= pass.target
      /\ UNCHANGED <<head, history, peak, forks, db>>
      /\ \/ /\ Steady!Checks(after) /\ session' = after
            /\ pass' = [pass EXCEPT !.next = @ + ChunkSize]
         \/ session' = db /\ pass' = Steady!Idle
  BY DEF Steady!ScanChunk
<1>0. SUFFICES ASSUME Steady!Checks(after), session' = after,
                      pass' = [pass EXCEPT !.next = @ + ChunkSize]
               PROVE  SteadyInv'
  BY <1>2, CrashKeepsInv
<1>3. /\ PassOK /\ Recent /\ session.cursor = db.cursor
      /\ Mirrors(session, history, Cut(history, Reach)) /\ Unpaid(session)
  BY <1>2 DEF SteadyInv, WorkerInv
<1>4. /\ Numbered(history) /\ Steady!Scanned \in 0 .. Settled /\ Settled \in Nat
      /\ Reach \in 0 .. Settled /\ ChunkSize \in Nat \ {0}
  BY <1>3, Ranges, IndexerNaturals
<1>5. /\ pass.next \in Nat /\ pass.target \in Nat /\ pass.target <= Settled
      /\ DOMAIN pass = {"phase", "next", "target", "reached", "started"}
  BY <1>3 DEF PassOK, Recent
<1>6. /\ last \in Nat /\ pass.next <= last /\ last <= pass.target
      /\ last = IF pass.next + ChunkSize <= pass.target THEN pass.next + ChunkSize - 1
                ELSE pass.target
  BY <1>2, <1>4, <1>5 DEF Steady!ChunkEnd
<1>7. Behind = pass.next - 1 /\ pass.next - 1 <= Reach /\ pass.next - 1 \in Int
  BY <1>2, <1>4, <1>5 DEF Reach, Behind
<1> HIDE DEF last, logs, after
<1>8. Reach \in Int /\ last \in Int /\ pass.next - 1 <= last
  BY <1>4, <1>5, <1>6
<1>9. /\ Cut(history, Reach) \in 0 .. Len(history)
      /\ Cut(history, pass.next - 1) \in 0 .. Len(history)
      /\ Cut(history, last) \in 0 .. Len(history)
  <2>1. Cut(history, Reach) \in 0 .. Len(history)
    BY <1>4, <1>8, CutSplits
  <2>2. Cut(history, pass.next - 1) \in 0 .. Len(history)
    BY <1>4, <1>7, CutSplits
  <2>3. Cut(history, last) \in 0 .. Len(history)
    BY <1>4, <1>8, CutSplits
  <2>4. QED
    BY <2>1, <2>2, <2>3
<1>10. Cut(history, pass.next - 1) <= Cut(history, Reach)
  BY <1>4, <1>7, <1>8, CutMonotone
<1>11. Cut(history, pass.next - 1) <= Cut(history, last)
  BY <1>4, <1>7, <1>8, CutMonotone
<1> DEFINE k == Cut(history, Reach)
           p == Cut(history, pass.next - 1)
           q == Cut(history, last)
<1>12. Len(history) \in Nat /\ history \in Seq(EscrowLog)
  BY <1>4 DEF Numbered, SteadyInv, ChainInv, Emitted
<1>13. logs = SubSeq(history, p + 1, q)
  BY LogsUpto DEF logs, Steady!Logs
<1>14. Unsettled(history, p, k)
  BY <1>3, RewoundIsUnsettled
<1>26. k \in 0 .. Len(history) /\ q \in 0 .. Len(history) /\ p \in 0 .. Len(history)
  BY <1>9
<1>27. p <= k /\ p <= q
  BY <1>10, <1>11
<1> HIDE DEF k, p, q
<1>28. Len(logs) = q - p /\ \A i \in 1 .. q - p : logs[i] = history[p + i]
  <2>1. CASE p = q
    BY <1>26, <1>12, <1>13, <2>1
  <2>2. CASE p # q
    BY <1>26, <1>27, <1>12, <1>13, <2>2
  <2>3. QED
    BY <2>1, <2>2
<1>15. /\ Mirrors(after, history, IF q > k THEN q ELSE k)
       /\ after.cursor = session.cursor /\ NoneExpired(after, session)
  <2>1. Emitted(history, head)
    BY DEF SteadyInv, ChainInv
  <2>2. p \in 0 .. k /\ q \in p .. Len(history)
    BY <1>26, <1>27, <1>12
  <2>3. Mirrors(session, history, k)
    BY <1>3 DEF k
  <2>4. Steady!Checks(Steady!ApplyLogs(session, logs))
    BY <1>0 DEF after
  <2>5. QED
    BY <1>14, <1>26, <1>28, <2>1, <2>2, <2>3, <2>4, ChunkApplied DEF after
<1>16. /\ pass'.next = pass.next + ChunkSize /\ pass'.target = pass.target
       /\ pass'.reached = pass.reached /\ pass'.phase = pass.phase
       /\ pass'.started = pass.started
       /\ DOMAIN pass' = {"phase", "next", "target", "reached", "started"}
  BY <1>0, <1>5
<1>17. Steady!Scanned' = Steady!Scanned /\ Settled' = Settled
  BY <1>2 DEF Steady!Scanned, Settled
<1>18. PassOK' /\ Recent'
  <2>1. Recent'
    BY <1>2, <1>3, <1>4, <1>16 DEF Recent
  <2>2. PassOK'
    <3>1. Steady!ResumePoint(db.cursor) \in Nat
      BY Ranges
    <3>2. QED
      BY <1>2, <1>3, <1>4, <1>5, <1>16, <1>17, <3>1 DEF PassOK
  <2>3. QED
    BY <2>1, <2>2
<1>19. Behind' = last
  BY <1>4, <1>5, <1>6, <1>16 DEF Behind
<1>20. Reach' = IF last > Reach THEN last ELSE Reach
  <2>1. Reach' = IF last > Steady!Scanned THEN last ELSE Steady!Scanned
    BY <1>17, <1>19 DEF Reach
  <2>2. Reach = IF pass.next - 1 > Steady!Scanned THEN pass.next - 1 ELSE Steady!Scanned
    BY <1>7 DEF Reach
  <2>3. QED
    BY <1>4, <1>7, <1>8, <2>1, <2>2
<1>21. Cut(history, Reach') = IF q > k THEN q ELSE k
  <2>1. CASE last > Reach
    <3>1. k <= q
      BY <1>4, <1>6, <2>1, CutMonotone DEF k, q
    <3>2. QED
      BY <3>1, <1>20, <2>1, <1>26, <1>12 DEF k, q
  <2>2. CASE ~(last > Reach)
    <3>1. q <= k
      BY <1>4, <1>6, <2>2, CutMonotone DEF k, q
    <3>2. QED
      BY <3>1, <1>20, <2>2, <1>26, <1>12 DEF k, q
  <2>3. QED
    BY <2>1, <2>2
<1>22. Mirrors(session', history', Cut(history', Reach'))
  BY <1>0, <1>2, <1>15, <1>21
<1>23. ChainInv'
  BY <1>2 DEF SteadyInv, ChainInv
<1>24. WorkerInv'
  <2>1. /\ db'.cursor \in Nat \cup {Steady!NoCursor} /\ Steady!Scanned' <= Settled'
        /\ Mirrors(db', history', Cut(history', Steady!Scanned'))
    BY <1>2, <1>17 DEF SteadyInv, WorkerInv
  <2>2. pass'.phase = "scanning" /\ session'.cursor = db'.cursor
    BY <1>0, <1>2, <1>3, <1>15, <1>16
  <2>3. Unpaid(db)'
    BY <1>2, <1>17 DEF SteadyInv, WorkerInv, Unpaid
  <2>4. Unpaid(session)'
    BY <1>0, <1>2, <1>3, <1>15, <1>17 DEF Unpaid, NoneExpired
  <2>5. QED
    BY <2>1, <2>2, <2>3, <2>4, <1>18, <1>22 DEF WorkerInv
<1>25. QED
  BY <1>23, <1>24 DEF SteadyInv

\* Only the cursor of the tables differs.
LEMMA CursorMoved ==
    ASSUME NEW h, NEW k, NEW d, Mirrors(d, h, k), NEW c
    PROVE  LET a == [d EXCEPT !.cursor = c] IN
           Mirrors(a, h, k) /\ a.cursor = c /\ a.orders = d.orders
<1>1. DEFINE a == [d EXCEPT !.cursor = c]
<1>2. /\ DOMAIN a = DOMAIN d /\ a.cursor = c /\ a.orders = d.orders /\ a.rows = d.rows
      /\ a.txs = d.txs /\ a.trail = d.trail
  BY DEF Mirrors, Tables
<1> HIDE DEF a
<1>3. Tables(a) /\ AllAgreed(a)
  BY <1>2 DEF Mirrors, Tables, AllAgreed
<1>4. QED
  BY <1>2, <1>3 DEF Mirrors, a

\* The pass is committed, and the cursor moved.
LEMMA CommitKeepsInv ==
    ASSUME SteadyInv, Steady!CommitScan
    PROVE  SteadyInv'
<1>1. /\ pass.phase = "scanning" /\ pass.next > pass.target
      /\ session' = [session EXCEPT !.cursor = Steady!SaveCursor(session.cursor, pass.reached)]
      /\ db' = session' /\ pass' = [pass EXCEPT !.phase = "sweeping"]
      /\ UNCHANGED <<head, history, peak, forks>>
  BY DEF Steady!CommitScan
<1>2. /\ PassOK /\ Recent /\ session.cursor = db.cursor
      /\ Mirrors(session, history, Cut(history, Reach)) /\ Unpaid(session)
  BY <1>1 DEF SteadyInv, WorkerInv
<1>3. /\ Steady!Scanned \in 0 .. Settled /\ Settled \in Nat
      /\ Steady!ResumePoint(db.cursor) \in 0 .. Steady!Scanned
  BY <1>2, Ranges
<1>4. db.cursor \in Nat \cup {-1}
  BY DEF SteadyInv, WorkerInv, Steady!NoCursor
<1>5. /\ pass.target \in Nat /\ pass.next \in Nat /\ pass.target <= Settled
      /\ pass.reached = IF pass.target < Steady!ResumePoint(db.cursor)
                        THEN Steady!ResumePoint(db.cursor) ELSE pass.target
      /\ DOMAIN pass = {"phase", "next", "target", "reached", "started"}
  BY <1>2 DEF PassOK, Recent
<1>6. pass.reached \in Nat
  BY <1>3, <1>5
<1>7. Steady!SaveCursor(session.cursor, pass.reached)
      = IF db.cursor > pass.reached THEN db.cursor ELSE pass.reached
  BY <1>2, <1>4, <1>6 DEF Steady!SaveCursor, Steady!NoCursor
<1>8. /\ db'.cursor = IF db.cursor > pass.reached THEN db.cursor ELSE pass.reached
      /\ Mirrors(db', history, Cut(history, Reach)) /\ db'.orders = session.orders
  BY <1>1, <1>2, <1>7, CursorMoved
<1>9. Reach = IF pass.target > Steady!Scanned THEN pass.target ELSE Steady!Scanned
  BY <1>1, <1>3, <1>5 DEF Reach, Behind
<1>10. Steady!Scanned' = Reach
  BY <1>3, <1>4, <1>5, <1>6, <1>8, <1>9 DEF Steady!Scanned, Steady!NoCursor
<1>11. Settled' = Settled /\ Reach \in 0 .. Settled
  BY <1>1, <1>2, Ranges DEF Settled
<1>12. Mirrors(db', history', Cut(history', Steady!Scanned'))
  BY <1>1, <1>8, <1>10
<1>13. ChainInv'
  BY <1>1 DEF SteadyInv, ChainInv
<1>14. pass'.phase = "sweeping" /\ session' = db' /\ pass'.target = pass.target
       /\ pass'.next = pass.next /\ pass'.started = pass.started /\ DOMAIN pass' = DOMAIN pass
  BY <1>1, <1>5
<1>15. db'.cursor \in Nat \cup {Steady!NoCursor}
  BY <1>4, <1>6, <1>8
<1>16. Steady!Scanned' <= Settled' /\ pass'.target <= Steady!Scanned'
  BY <1>3, <1>5, <1>9, <1>10, <1>11, <1>14
<1>17. Recent'
  BY <1>1, <1>2, <1>14 DEF Recent
<1>18. Unpaid(db)'
  BY <1>1, <1>2, <1>8, <1>11 DEF Unpaid
<1>19. WorkerInv'
  BY <1>12, <1>14, <1>15, <1>16, <1>17, <1>18 DEF WorkerInv
<1>20. QED
  BY <1>13, <1>19 DEF SteadyInv

\* The sweep runs after a scan: all that was paid in time has been seen.
LEMMA SweepKeepsInv ==
    ASSUME SteadyInv, Steady!ExpireUnfunded
    PROVE  SteadyInv'
<1>1. /\ pass.phase = "sweeping" /\ session' = db' /\ pass' = Steady!Idle
      /\ db' = [db EXCEPT !.orders =
                  [o \in Orders |-> IF Steady!Stale(db.orders[o])
                                    THEN [db.orders[o] EXCEPT !.status = "expired"]
                                    ELSE db.orders[o]]]
      /\ UNCHANGED <<head, history, peak, forks>>
  BY DEF Steady!ExpireUnfunded
<1>2. /\ Recent /\ pass.target <= Steady!Scanned /\ db.cursor \in Nat \cup {Steady!NoCursor}
      /\ Steady!Scanned <= Settled
      /\ Mirrors(db, history, Cut(history, Steady!Scanned)) /\ Unpaid(db)
  BY <1>1 DEF SteadyInv, WorkerInv
<1>3. /\ Numbered(history) /\ Len(history) \in Nat
      /\ Steady!Scanned \in 0 .. Settled /\ Settled \in Nat
  BY Ranges
<1>4. Tables(db) /\ AllAgreed(db)
  BY <1>2 DEF Mirrors
<1>5. /\ DOMAIN db' = {"orders", "rows", "txs", "trail", "cursor"}
      /\ db'.rows = db.rows /\ db'.txs = db.txs /\ db'.trail = db.trail
      /\ db'.cursor = db.cursor
      /\ db'.orders = [o \in Orders |-> IF Steady!Stale(db.orders[o])
                                        THEN [db.orders[o] EXCEPT !.status = "expired"]
                                        ELSE db.orders[o]]
  BY <1>1, <1>4 DEF Tables
<1>6. \A o \in Orders : [db.orders[o] EXCEPT !.status = "expired"] \in Order
                        /\ [db.orders[o] EXCEPT !.status = "expired"].status = "expired"
  BY <1>4 DEF Tables, Order, Steady!OrderStatuses
<1>7. db'.orders \in [Orders -> Order]
  BY <1>4, <1>5, <1>6 DEF Tables
<1>8. \A o \in Orders :
         db'.orders[o].status = IF Steady!Stale(db.orders[o]) THEN "expired"
                                ELSE db.orders[o].status
  BY <1>5, <1>6
<1>9. ASSUME NEW o \in Orders, Steady!Stale(db.orders[o])
      PROVE  db.rows[o].status = "absent"
  <2>1. db.orders[o].status = "pending" /\ Agreed(db.rows[o].status, db.orders[o].status)
    BY <1>4, <1>9 DEF Steady!Stale, AllAgreed
  <2>2. db.rows[o].status \in {"absent", "funded", "released", "refunded", "disputed"}
    BY <1>4 DEF Tables, Steady!EscrowRow
  <2>3. QED
    BY <2>1, <2>2 DEF Agreed
<1>10. Tables(db')
  BY <1>4, <1>5, <1>7 DEF Tables
<1>11. AllAgreed(db')
  <2>1. SUFFICES ASSUME NEW o \in Orders
                 PROVE  Agreed(db'.rows[o].status, db'.orders[o].status)
    BY DEF AllAgreed
  <2>2. CASE Steady!Stale(db.orders[o])
    BY <1>5, <1>8, <1>9, <2>2 DEF Agreed
  <2>3. CASE ~Steady!Stale(db.orders[o])
    BY <1>4, <1>5, <1>8, <2>3 DEF AllAgreed
  <2>4. QED
    BY <2>2, <2>3
<1>12. Steady!Scanned' = Steady!Scanned /\ Settled' = Settled
  BY <1>1, <1>5 DEF Steady!Scanned, Settled
<1>13. Mirrors(db', history', Cut(history', Steady!Scanned'))
  BY <1>1, <1>2, <1>5, <1>10, <1>11, <1>12 DEF Mirrors
<1>14. Unpaid(db)'
  <2>1. SUFFICES ASSUME NEW o \in Orders, db'.orders[o].status = "expired"
                 PROVE  /\ FundingDeadline <= Settled
                        /\ \A i \in 1 .. Cut(history, FundingDeadline) :
                              history[i].event.escrowId # o
    BY <1>1, <1>12 DEF Unpaid
  <2>2. CASE ~Steady!Stale(db.orders[o])
    BY <1>2, <1>8, <2>1, <2>2 DEF Unpaid
  <2>3. CASE Steady!Stale(db.orders[o])
    <3>1. FundingDeadline <= Steady!Scanned
      <4>1. peak > FundingDeadline + ExpiryGrace
        BY <2>3 DEF Steady!Stale
      <4>2. /\ peak <= pass.started + Stall /\ pass.target <= Steady!Scanned
            /\ pass.target + Confirmations + Reorgable >= pass.started + 1
            /\ pass.started \in Nat /\ pass.target \in Nat /\ peak \in Nat /\ Steady!Scanned \in Nat
        BY <1>2, <1>3 DEF Recent, SteadyInv, ChainInv
      <4>3. /\ FundingDeadline \in Nat /\ ExpiryGrace \in Nat /\ Stall \in Nat
            /\ Confirmations \in Nat /\ Reorgable \in Nat
            /\ Confirmations + Reorgable + Stall <= ExpiryGrace + 2
        BY IndexerNaturals, SteadyDepths
      <4>4. QED
        BY <4>1, <4>2, <4>3
    <3>2. RowAt(o, history, Cut(history, Steady!Scanned)).status = "absent"
      BY <1>2, <1>9, <2>3 DEF Mirrors
    <3>3. Steady!Scanned \in Int /\ FundingDeadline \in Int
      BY <1>3, IndexerNaturals
    <3>4. Cut(history, Steady!Scanned) \in 0 .. Len(history)
      BY <1>3, <3>3, CutSplits
    <3>5. \A i \in 1 .. Cut(history, Steady!Scanned) : history[i].event.escrowId # o
      BY <3>2, <3>4, RowAtShape DEF SteadyInv, ChainInv
    <3>6. Cut(history, FundingDeadline) <= Cut(history, Steady!Scanned)
      BY <1>3, <3>1, <3>3, CutMonotone
    <3>7. Cut(history, FundingDeadline) \in 0 .. Len(history)
      BY <1>3, <3>3, CutSplits
    <3>8. QED
      BY <1>3, <3>1, <3>4, <3>5, <3>6, <3>7, IndexerNaturals
  <2>4. QED
    BY <2>2, <2>3
<1>15. pass'.phase = "idle"
  BY <1>1 DEF Steady!Idle
<1>16. ChainInv'
  BY <1>1 DEF SteadyInv, ChainInv
<1>17. WorkerInv'
  BY <1>1, <1>2, <1>5, <1>12, <1>13, <1>14, <1>15 DEF WorkerInv
<1>18. QED
  BY <1>16, <1>17 DEF SteadyInv

LEMMA SteadyStep ==
    ASSUME SteadyInv, Steady!Next
    PROVE  SteadyInv'
<1>1. CASE ChainStep
  BY <1>1, ChainStepKeepsInv
<1>2. CASE Steady!StartScan
  BY <1>2, StartKeepsInv
<1>3. CASE Steady!ScanChunk
  BY <1>3, ScanKeepsInv
<1>4. CASE Steady!CommitScan
  BY <1>4, CommitKeepsInv
<1>5. CASE Steady!ExpireUnfunded
  BY <1>5, SweepKeepsInv
<1>6. CASE Steady!Crash
  BY <1>6, CrashKeepsInv DEF Steady!Crash
<1>7. QED
  BY <1>1, <1>2, <1>3, <1>4, <1>5, <1>6 DEF Steady!Next, Steady!Worker, ChainStep

\* What the invariant promises of the escrow mirror.
LEMMA SteadySafe ==
    ASSUME SteadyInv
    PROVE  Steady!RowsFollowChain /\ Steady!AppliedOnce /\ Steady!PaidInTimeNotExpired
<1>1. DEFINE k == Cut(history, Steady!Scanned)
<1>2. Numbered(history) /\ Steady!Scanned \in Int
  BY Ranges
<1>3. k \in 0 .. Len(history) /\ DOMAIN history = 1 .. Len(history) /\ Len(history) \in Nat
  BY <1>2, CutSplits DEF Numbered
<1>4. Steady!Upto(Steady!Scanned) = k
  BY LogsUpto
<1>5. Mirrors(db, history, k) /\ Emitted(history, head) /\ Unpaid(db)
  BY DEF SteadyInv, WorkerInv, ChainInv
<1> HIDE DEF k
<1>6. Steady!RowsFollowChain
  <2>1. \A o \in Orders : Steady!Projection(o, Steady!Scanned) = RowAt(o, history, k)
    BY <1>4 DEF Steady!Projection, RowAt
  <2>2. QED
    BY <1>5, <2>1 DEF Steady!RowsFollowChain, Mirrors
<1>7. Steady!AppliedOnce
  <2>1. SUFFICES ASSUME NEW o \in Orders, NEW name \in Steady!EventNames, Steady!HasTxType(name)
                 PROVE  db.trail[o][name] = Steady!Occurrences(o, name, Steady!Scanned)
    BY DEF Steady!AppliedOnce
  <2>2. DEFINE S == {i \in 1 .. k : history[i].event.escrowId = o /\ history[i].event.name = name}
  <2>3. Steady!Occurrences(o, name, Steady!Scanned) = Cardinality(S)
    BY <1>4, SameCardinality DEF Steady!Occurrences
  <2>4. db.trail[o][name] = IF Happened(history, k, o, name) THEN 1 ELSE 0
    BY <1>5, <2>1 DEF Mirrors
  <2>5. CASE Happened(history, k, o, name)
    <3>1. PICK i \in S : TRUE
      BY <2>5 DEF Happened
    <3>2. ASSUME NEW j \in S PROVE j = i
      <4>1. i \in DOMAIN history /\ j \in DOMAIN history
        BY <1>3
      <4>2. QED
        BY <1>5, <4>1, EventsDiffer
    <3>3. S = {i}
      BY <3>1, <3>2
    <3>4. Cardinality({i}) = 1
      BY FS_Singleton
    <3>5. QED
      BY <2>3, <2>4, <2>5, <3>3, <3>4
  <2>6. CASE ~Happened(history, k, o, name)
    <3>1. S = {}
      BY <2>6 DEF Happened
    <3>2. Cardinality({}) = 0
      BY FS_EmptySet
    <3>3. QED
      BY <2>3, <2>4, <2>6, <3>1, <3>2
  <2>7. QED
    BY <2>5, <2>6
<1>8. Steady!PaidInTimeNotExpired
  <2>1. Steady!Upto(FundingDeadline) = Cut(history, FundingDeadline)
    BY LogsUpto
  <2>2. QED
    BY <1>5, <2>1 DEF Steady!PaidInTimeNotExpired, Unpaid
<1>9. QED
  BY <1>6, <1>7, <1>8

-----------------------------------------------------------------------------
(* The subscription contract's logs.                                       *)

\* What a block may hold.
SubscriptionLog ==
    [name : {"Subscribed", "SubscriptionCancelled"}, who : Subscribers,
     tx : Subscribers \X Nat, number : Nat \ {0}, block : Nat \X Nat, end : Nat]

\* The payments of s among the first k logs.
PaidTo(s, h, k) == {i \in 1 .. k : h[i].who = s /\ Subs!Pays(h[i])}

\* Logs of blocks up to n, in order; a payment's transaction is its turn.
SubsEmitted(h, n) ==
    /\ h \in Seq(SubscriptionLog)
    /\ \A i \in DOMAIN h : h[i].number <= n
    /\ \A i, j \in DOMAIN h : i <= j => h[i].number <= h[j].number
    /\ \A i \in DOMAIN h :
          Subs!Pays(h[i]) => h[i].tx = <<h[i].who, Cardinality(PaidTo(h[i].who, h, i))>>

\* The logs come in the order of the blocks.
LEMMA SubsEmittedNumbered ==
    ASSUME NEW h, NEW n, SubsEmitted(h, n)
    PROVE  /\ Numbered(h)
           /\ \A i \in DOMAIN h : h[i] \in SubscriptionLog
<1>1. h \in Seq(SubscriptionLog) /\ DOMAIN h = 1 .. Len(h) /\ Len(h) \in Nat
  BY LenProperties DEF SubsEmitted
<1>2. \A i \in DOMAIN h : h[i] \in SubscriptionLog
  BY <1>1, ElementOfSeq
<1>3. QED
  BY <1>1, <1>2 DEF SubsEmitted, Numbered, SubscriptionLog

\* Two payments have different transactions.
LEMMA TurnsDiffer ==
    ASSUME NEW h, NEW n, SubsEmitted(h, n), NEW i \in DOMAIN h, NEW j \in DOMAIN h,
           Subs!Pays(h[i]), Subs!Pays(h[j]), h[i].tx = h[j].tx
    PROVE  i = j
<1>1. DOMAIN h = 1 .. Len(h) /\ Len(h) \in Nat
  BY SubsEmittedNumbered DEF Numbered
<1>2. ASSUME NEW a \in DOMAIN h, NEW b \in DOMAIN h, a < b,
             Subs!Pays(h[a]), Subs!Pays(h[b]), h[a].tx = h[b].tx
      PROVE  FALSE
  <2>1. h[a].tx = <<h[a].who, Cardinality(PaidTo(h[a].who, h, a))>>
    BY <1>2 DEF SubsEmitted
  <2>2. h[b].tx = <<h[b].who, Cardinality(PaidTo(h[b].who, h, b))>>
    BY <1>2 DEF SubsEmitted
  <2>3. h[a].who = h[b].who
    <3>1. h[a].tx[1] = h[a].who /\ h[b].tx[1] = h[b].who
      BY <2>1, <2>2
    <3>2. QED
      BY <3>1, <1>2
  <2>4. Cardinality(PaidTo(h[b].who, h, a)) = Cardinality(PaidTo(h[b].who, h, b))
    <3>1. /\ h[a].tx[2] = Cardinality(PaidTo(h[a].who, h, a))
          /\ h[b].tx[2] = Cardinality(PaidTo(h[b].who, h, b))
      BY <2>1, <2>2
    <3>2. QED
      BY <3>1, <1>2, <2>3
  <2>5. PaidTo(h[b].who, h, a) \subseteq PaidTo(h[b].who, h, b)
    BY <1>1, <1>2 DEF PaidTo
  <2>6. IsFiniteSet(PaidTo(h[b].who, h, b))
    <3>1. IsFiniteSet(1 .. b)
      BY <1>1, FS_Interval
    <3>2. QED
      BY <3>1, FS_Subset DEF PaidTo
  <2>7. PaidTo(h[b].who, h, a) = PaidTo(h[b].who, h, b)
    BY <2>4, <2>5, <2>6, FS_Subset
  <2>8. b \in PaidTo(h[b].who, h, b) /\ b \notin PaidTo(h[b].who, h, a)
    BY <1>1, <1>2 DEF PaidTo
  <2>9. QED
    BY <2>7, <2>8
<1>3. CASE i < j
  BY <1>2, <1>3
<1>4. CASE j < i
  BY <1>2, <1>4
<1>5. QED
  BY <1>1, <1>3, <1>4

\* The end of the coverage after the first k logs.
EndAt(s, h, k) ==
    IF PaidTo(s, h, k) = {} THEN 0 ELSE h[Max(PaidTo(s, h, k))].end

\* Coverage ends where the last payment says.
LEMMA CoverageOfPrefix ==
    ASSUME NEW h, NEW n, SubsEmitted(h, n), NEW k \in 0 .. Len(h), NEW s
    PROVE  /\ Subs!Coverage(s, SubSeq(h, 1, k)).end \in Nat
           /\ Subs!Coverage(s, SubSeq(h, 1, k)).end = EndAt(s, h, k)
<1>1. h \in Seq(SubscriptionLog) /\ DOMAIN h = 1 .. Len(h) /\ Len(h) \in Nat
  BY SubsEmittedNumbered DEF Numbered, SubsEmitted
<1>2. DEFINE g == SubSeq(h, 1, k)
<1>3. DOMAIN g = 1 .. k /\ \A i \in 1 .. k : g[i] = h[i]
  <2>1. g \in Seq(SubscriptionLog) /\ Len(g) = k /\ \A i \in 1 .. k : g[i] = h[i]
    <3>1. CASE k = 0
      BY <1>1, <3>1
    <3>2. CASE k # 0
      BY <1>1, <3>2
    <3>3. QED
      BY <3>1, <3>2
  <2>2. QED
    BY <2>1, LenProperties
<1>4. Subs!Paid(s, g) = PaidTo(s, h, k)
  BY <1>3 DEF Subs!Paid, PaidTo
<1> HIDE DEF g
<1>5. CASE PaidTo(s, h, k) = {}
  BY <1>4, <1>5 DEF Subs!Coverage, EndAt, Subs!NoRow, g
<1>6. CASE PaidTo(s, h, k) # {}
  <2>1. PaidTo(s, h, k) \in SUBSET (1 .. k) /\ k \in Nat
    BY <1>1 DEF PaidTo
  <2>2. Max(PaidTo(s, h, k)) \in 1 .. k
    BY <2>1, <1>6, MaxOfIndices
  <2>3. g[Max(PaidTo(s, h, k))] = h[Max(PaidTo(s, h, k))]
    BY <2>2, <1>3
  <2>4. h[Max(PaidTo(s, h, k))].end \in Nat
    <3>1. h[Max(PaidTo(s, h, k))] \in SubscriptionLog
      BY <2>2, <1>1, SubsEmittedNumbered
    <3>2. QED
      BY <3>1 DEF SubscriptionLog
  <2>5. Subs!Coverage(s, g).end = h[Max(PaidTo(s, h, k))].end
    BY <1>4, <1>6, <2>3, SameMax DEF Subs!Coverage
  <2>6. QED
    BY <2>4, <2>5, <1>6 DEF EndAt, g
<1>7. QED
  BY <1>5, <1>6

\* A call's event comes last, and is the next turn of its subscriber.
LEMMA CallIsEmitted ==
    ASSUME NEW h, NEW n \in Nat \ {0}, SubsEmitted(h, n), forks \in Nat,
           NEW s \in Subscribers, NEW log \in Subs!Calls(s, h, n)
    PROVE  SubsEmitted(Append(h, log), n) /\ Agree(h, Append(h, log), Len(h))
<1>1. h \in Seq(SubscriptionLog) /\ DOMAIN h = 1 .. Len(h) /\ Len(h) \in Nat
  BY SubsEmittedNumbered DEF Numbered, SubsEmitted
<1>2. Subs!Coverage(s, h).end \in Nat
  <2>1. SubSeq(h, 1, Len(h)) = h
    BY <1>1, SubSeqFull
  <2>2. Subs!Coverage(s, SubSeq(h, 1, Len(h))).end \in Nat
    BY <1>1, CoverageOfPrefix
  <2>3. QED
    BY <2>1, <2>2
<1>3. IsFiniteSet(Subs!Paid(s, h)) /\ Cardinality(Subs!Paid(s, h)) \in Nat
  <2>1. IsFiniteSet(1 .. Len(h))
    BY <1>1, FS_Interval
  <2>2. IsFiniteSet(Subs!Paid(s, h))
    BY <2>1, <1>1, FS_Subset DEF Subs!Paid
  <2>3. QED
    BY <2>2, FS_CardinalityType
<1>4. log \in SubscriptionLog /\ log.number = n /\ log.who = s
  <2>1. Period \in Nat
    BY SubscriptionConstants DEF Subs!SubscriptionIndexerAssumption
  <2>2. QED
    BY <1>2, <1>3, <2>1, SameCardinality DEF Subs!Calls, SubscriptionLog
<1>5. Subs!Pays(log) => log.tx = <<s, Cardinality(Subs!Paid(s, h)) + 1>>
  BY SameCardinality DEF Subs!Calls, Subs!Pays
<1>6. DEFINE g == Append(h, log)
<1>7. /\ g \in Seq(SubscriptionLog) /\ Len(g) = Len(h) + 1
      /\ DOMAIN g = 1 .. Len(h) + 1
      /\ \A i \in 1 .. Len(h) : g[i] = h[i]
      /\ g[Len(h) + 1] = log
  BY <1>1, <1>4, AppendProperties
<1> HIDE DEF g
<1>8. \A i \in DOMAIN g : g[i].number <= n
  BY <1>7, <1>4, <1>1 DEF SubsEmitted
<1>9. \A i, j \in DOMAIN g : i <= j => g[i].number <= g[j].number
  <2>1. SUFFICES ASSUME NEW i \in DOMAIN g, NEW j \in DOMAIN g, i <= j
                 PROVE  g[i].number <= g[j].number
    OBVIOUS
  <2>2. CASE j = Len(h) + 1
    BY <2>2, <1>8, <1>7, <1>4
  <2>3. CASE j # Len(h) + 1
    BY <2>1, <2>3, <1>7, <1>1 DEF SubsEmitted
  <2>4. QED
    BY <2>2, <2>3
<1>10. \A i \in DOMAIN g :
          Subs!Pays(g[i]) => g[i].tx = <<g[i].who, Cardinality(PaidTo(g[i].who, g, i))>>
  <2>1. SUFFICES ASSUME NEW i \in DOMAIN g, Subs!Pays(g[i])
                 PROVE  g[i].tx = <<g[i].who, Cardinality(PaidTo(g[i].who, g, i))>>
    OBVIOUS
  <2>2. CASE i # Len(h) + 1
    <3>1. i \in DOMAIN h /\ g[i] = h[i] /\ \A j \in 1 .. i : g[j] = h[j]
      BY <1>1, <1>7, <2>2
    <3>2. PaidTo(g[i].who, g, i) = PaidTo(h[i].who, h, i)
      BY <3>1 DEF PaidTo
    <3>3. QED
      BY <3>1, <3>2, <2>1 DEF SubsEmitted
  <2>3. CASE i = Len(h) + 1
    <3>1. g[i] = log
      BY <2>3, <1>7
    <3>2. PaidTo(s, g, i) = Subs!Paid(s, h) \cup {Len(h) + 1}
      BY <1>1, <1>4, <1>7, <2>1, <2>3, <3>1 DEF PaidTo, Subs!Paid
    <3>3. Len(h) + 1 \notin Subs!Paid(s, h)
      BY <1>1 DEF Subs!Paid
    <3>4. Cardinality(PaidTo(s, g, i)) = Cardinality(Subs!Paid(s, h)) + 1
      BY <3>2, <3>3, <1>3, FS_AddElement
    <3>5. QED
      BY <3>1, <3>4, <1>4, <1>5, <2>1
  <2>4. QED
    BY <2>2, <2>3
<1>11. SubsEmitted(g, n)
  BY <1>7, <1>8, <1>9, <1>10 DEF SubsEmitted
<1>12. Agree(h, g, Len(h))
  BY <1>1, <1>7 DEF Agree
<1>13. QED
  BY <1>11, <1>12 DEF g

\* What a prefix leaves is emitted.
LEMMA SubsPrefixEmitted ==
    ASSUME NEW h, NEW n \in Nat, SubsEmitted(h, n), NEW m \in Nat
    PROVE  LET g == SubSeq(h, 1, Cut(h, m)) IN
           SubsEmitted(g, m) /\ Len(g) = Cut(h, m) /\ Agree(h, g, Cut(h, m))
<1>1. h \in Seq(SubscriptionLog) /\ DOMAIN h = 1 .. Len(h) /\ Len(h) \in Nat
  BY SubsEmittedNumbered DEF Numbered, SubsEmitted
<1>2. /\ Cut(h, m) \in 0 .. Len(h)
      /\ \A i \in DOMAIN h : h[i].number <= m <=> i <= Cut(h, m)
  BY SubsEmittedNumbered, CutSplits
<1>3. DEFINE k == Cut(h, m)
             g == SubSeq(h, 1, k)
<1> HIDE DEF k
<1>4. k \in 0 .. Len(h) /\ \A i \in DOMAIN h : h[i].number <= m <=> i <= k
  BY <1>2 DEF k
<1>5. g \in Seq(SubscriptionLog) /\ Len(g) = k /\ \A i \in 1 .. k : g[i] = h[i]
  <2>1. CASE k = 0
    BY <1>1, <2>1
  <2>2. CASE k # 0
    BY <1>1, <1>4, <2>2
  <2>3. QED
    BY <2>1, <2>2
<1> HIDE DEF g
<1>6. DOMAIN g = 1 .. k /\ k <= Len(h) /\ k \in Nat
  BY <1>1, <1>4, <1>5, LenProperties
<1>7. \A i \in DOMAIN g :
         i \in DOMAIN h /\ g[i] = h[i] /\ PaidTo(h[i].who, h, i) = PaidTo(g[i].who, g, i)
  BY <1>1, <1>5, <1>6 DEF PaidTo
<1>8. SubsEmitted(g, m)
  <2>1. \A i \in DOMAIN g : g[i].number <= m
    BY <1>4, <1>6, <1>7
  <2>2. \A i, j \in DOMAIN g : i <= j => g[i].number <= g[j].number
    BY <1>7 DEF SubsEmitted
  <2>3. \A i \in DOMAIN g :
           Subs!Pays(g[i]) => g[i].tx = <<g[i].who, Cardinality(PaidTo(g[i].who, g, i))>>
    BY <1>7 DEF SubsEmitted
  <2>4. QED
    BY <1>5, <2>1, <2>2, <2>3 DEF SubsEmitted
<1>9. Agree(h, g, k)
  BY <1>1, <1>5, <1>6 DEF Agree
<1>10. QED
  BY <1>5, <1>8, <1>9 DEF g, k

-----------------------------------------------------------------------------
(* Applying events to the tables.                                          *)

SubsRow == [end : Nat, cancelled : BOOLEAN]

SubsTables(d) ==
    /\ DOMAIN d = {"rows", "payments", "cursor"}
    /\ d.rows \in [Subscribers -> SubsRow]

\* The transactions of the payments among the first k logs.
PaymentsUpto(h, k) == {h[i].tx : i \in {j \in 1 .. k : Subs!Pays(h[j])}}

\* The tables hold what the first k logs say.
SubsMirrors(d, h, k) ==
    /\ SubsTables(d)
    /\ DOMAIN d.payments = PaymentsUpto(h, k)
    /\ \A s \in Subscribers : d.rows[s].end = EndAt(s, h, k)

\* What one event makes of the tables.
LEMMA EventShape ==
    ASSUME NEW d, SubsTables(d), NEW log \in SubscriptionLog
    PROVE  LET e == Subs!ApplyEvent(d, log) IN
           /\ SubsTables(e) /\ e.cursor = d.cursor
           /\ DOMAIN e.payments = IF Subs!Pays(log) THEN DOMAIN d.payments \cup {log.tx}
                                  ELSE DOMAIN d.payments
           /\ \A s \in Subscribers :
                 e.rows[s].end = IF Subs!Pays(log) /\ s = log.who /\ log.tx \notin DOMAIN d.payments
                                 THEN log.end ELSE d.rows[s].end
<1>1. /\ log.who \in Subscribers /\ log.end \in Nat /\ d.rows[log.who] \in SubsRow
      /\ d.rows \in [Subscribers -> SubsRow]
  BY DEF SubscriptionLog, SubsTables
<1>2. CASE Subs!Pays(log)
  <2>1. Subs!ApplyEvent(d, log) = Subs!ApplySubscribed(d, log)
    BY <1>2 DEF Subs!ApplyEvent
  <2>2. Subs!Mirrored(d.rows[log.who], log) = [end |-> log.end, cancelled |-> FALSE]
    BY <1>2 DEF Subs!Mirrored
  <2>3. [end |-> log.end, cancelled |-> FALSE] \in SubsRow
    BY <1>1 DEF SubsRow
  <2>4. DEFINE e == Subs!ApplySubscribed(d, log)
  <2>5. /\ DOMAIN e = {"rows", "payments", "cursor"} /\ e.cursor = d.cursor
        /\ DOMAIN e.payments = DOMAIN d.payments \cup {log.tx}
        /\ e.rows = [d.rows EXCEPT ![log.who] =
                        IF log.tx \in DOMAIN d.payments THEN d.rows[log.who]
                        ELSE Subs!Mirrored(d.rows[log.who], log)]
    BY DEF Subs!ApplySubscribed, Subs!Recorded, SubsTables
  <2> HIDE DEF e
  <2>6. e.rows \in [Subscribers -> SubsRow]
    BY <2>2, <2>3, <2>5, <1>1
  <2>7. \A s \in Subscribers :
           e.rows[s].end = IF s = log.who /\ log.tx \notin DOMAIN d.payments
                           THEN log.end ELSE d.rows[s].end
    BY <2>2, <2>5, <1>1
  <2>8. QED
    BY <2>1, <2>5, <2>6, <2>7, <1>2 DEF e, SubsTables
<1>3. CASE ~Subs!Pays(log)
  <2>1. Subs!ApplyEvent(d, log) = Subs!ApplyCancelled(d, log)
    BY <1>3 DEF Subs!ApplyEvent
  <2>2. Subs!Mirrored(d.rows[log.who], log) = [d.rows[log.who] EXCEPT !.cancelled = TRUE]
    BY <1>3 DEF Subs!Mirrored
  <2>3. /\ [d.rows[log.who] EXCEPT !.cancelled = TRUE] \in SubsRow
        /\ [d.rows[log.who] EXCEPT !.cancelled = TRUE].end = d.rows[log.who].end
    BY <1>1 DEF SubsRow
  <2>4. CASE d.rows[log.who] = Subs!NoRow
    <3>1. Subs!ApplyEvent(d, log) = d
      BY <2>1, <2>4 DEF Subs!ApplyCancelled
    <3>2. QED
      BY <3>1, <1>3
  <2>5. CASE d.rows[log.who] # Subs!NoRow
    <3>1. DEFINE e == [d EXCEPT !.rows[log.who] = Subs!Mirrored(@, log)]
    <3>2. Subs!ApplyEvent(d, log) = e
      BY <2>1, <2>5 DEF Subs!ApplyCancelled
    <3>3. /\ DOMAIN e = {"rows", "payments", "cursor"} /\ e.cursor = d.cursor
          /\ e.payments = d.payments
          /\ e.rows = [d.rows EXCEPT ![log.who] = Subs!Mirrored(d.rows[log.who], log)]
      BY DEF SubsTables
    <3> HIDE DEF e
    <3>4. e.rows \in [Subscribers -> SubsRow]
      BY <2>2, <2>3, <3>3, <1>1
    <3>5. \A s \in Subscribers : e.rows[s].end = d.rows[s].end
      BY <2>2, <2>3, <3>3, <1>1
    <3>6. QED
      BY <3>2, <3>3, <3>4, <3>5, <1>3 DEF SubsTables
  <2>6. QED
    BY <2>4, <2>5
<1>4. QED
  BY <1>2, <1>3

\* Applied again, an event changes nothing that matters.
LEMMA SubsEventAgain ==
    ASSUME NEW h, NEW n, SubsEmitted(h, n), NEW k \in 0 .. Len(h), NEW i \in 1 .. k,
           NEW d, SubsMirrors(d, h, k)
    PROVE  SubsMirrors(Subs!ApplyEvent(d, h[i]), h, k) /\ Subs!ApplyEvent(d, h[i]).cursor = d.cursor
<1>1. Len(h) \in Nat /\ i \in DOMAIN h
  BY SubsEmittedNumbered DEF Numbered
<1>2. h[i] \in SubscriptionLog
  BY <1>1, SubsEmittedNumbered
<1>3. Subs!Pays(h[i]) => h[i].tx \in PaymentsUpto(h, k)
  BY DEF PaymentsUpto
<1>4. DEFINE e == Subs!ApplyEvent(d, h[i])
<1>5. /\ SubsTables(e) /\ e.cursor = d.cursor
      /\ DOMAIN e.payments = IF Subs!Pays(h[i]) THEN DOMAIN d.payments \cup {h[i].tx}
                             ELSE DOMAIN d.payments
      /\ \A s \in Subscribers :
            e.rows[s].end = IF Subs!Pays(h[i]) /\ s = h[i].who /\ h[i].tx \notin DOMAIN d.payments
                            THEN h[i].end ELSE d.rows[s].end
  BY <1>2, EventShape DEF SubsMirrors
<1> HIDE DEF e
<1>6. SubsMirrors(e, h, k)
  BY <1>3, <1>5 DEF SubsMirrors
<1>7. QED
  BY <1>5, <1>6 DEF e

\* The next event is applied as the contract meant it.
LEMMA SubsEventNext ==
    ASSUME NEW h, NEW n, SubsEmitted(h, n), NEW k \in Nat, k < Len(h),
           NEW d, SubsMirrors(d, h, k)
    PROVE  SubsMirrors(Subs!ApplyEvent(d, h[k + 1]), h, k + 1)
           /\ Subs!ApplyEvent(d, h[k + 1]).cursor = d.cursor
<1>1. Len(h) \in Nat /\ DOMAIN h = 1 .. Len(h) /\ k + 1 \in DOMAIN h
  BY SubsEmittedNumbered DEF Numbered
<1>2. h[k + 1] \in SubscriptionLog
  BY <1>1, SubsEmittedNumbered
<1>3. DEFINE log == h[k + 1]
             e == Subs!ApplyEvent(d, log)
<1>4. Subs!Pays(log) => log.tx \notin PaymentsUpto(h, k)
  <2>1. SUFFICES ASSUME Subs!Pays(log), NEW j \in 1 .. k, Subs!Pays(h[j]), h[j].tx = log.tx
                 PROVE  FALSE
    BY DEF PaymentsUpto
  <2>2. j \in DOMAIN h /\ j # k + 1
    BY <1>1
  <2>3. QED
    BY <1>1, <2>1, <2>2, TurnsDiffer
<1>5. PaymentsUpto(h, k + 1) = IF Subs!Pays(log) THEN PaymentsUpto(h, k) \cup {log.tx}
                               ELSE PaymentsUpto(h, k)
  BY <1>1 DEF PaymentsUpto
<1>6. \A s \in Subscribers :
         EndAt(s, h, k + 1) = IF Subs!Pays(log) /\ s = log.who THEN log.end ELSE EndAt(s, h, k)
  <2>1. SUFFICES ASSUME NEW s \in Subscribers
                 PROVE  EndAt(s, h, k + 1) = IF Subs!Pays(log) /\ s = log.who THEN log.end
                                             ELSE EndAt(s, h, k)
    OBVIOUS
  <2>2. PaidTo(s, h, k + 1) = IF Subs!Pays(log) /\ s = log.who THEN PaidTo(s, h, k) \cup {k + 1}
                              ELSE PaidTo(s, h, k)
    BY <1>1 DEF PaidTo
  <2>3. CASE Subs!Pays(log) /\ s = log.who
    <3>1. /\ PaidTo(s, h, k + 1) # {} /\ k + 1 \in PaidTo(s, h, k + 1)
          /\ PaidTo(s, h, k + 1) \in SUBSET (1 .. k + 1)
      BY <2>2, <2>3 DEF PaidTo
    <3>2. /\ Max(PaidTo(s, h, k + 1)) \in PaidTo(s, h, k + 1)
          /\ \A i \in PaidTo(s, h, k + 1) : i <= Max(PaidTo(s, h, k + 1))
      <4>1. k + 1 \in Nat
        OBVIOUS
      <4>2. QED
        BY <3>1, <4>1, MaxOfIndices
    <3>3. Max(PaidTo(s, h, k + 1)) = k + 1
      BY <3>1, <3>2
    <3>4. QED
      BY <3>1, <3>3, <2>3 DEF EndAt
  <2>4. CASE ~(Subs!Pays(log) /\ s = log.who)
    BY <2>2, <2>4 DEF EndAt
  <2>5. QED
    BY <2>3, <2>4
<1>7. /\ SubsTables(e) /\ e.cursor = d.cursor
      /\ DOMAIN e.payments = IF Subs!Pays(log) THEN DOMAIN d.payments \cup {log.tx}
                             ELSE DOMAIN d.payments
      /\ \A s \in Subscribers :
            e.rows[s].end = IF Subs!Pays(log) /\ s = log.who /\ log.tx \notin DOMAIN d.payments
                            THEN log.end ELSE d.rows[s].end
  BY <1>2, EventShape DEF SubsMirrors
<1> HIDE DEF e, log
<1>8. SubsMirrors(e, h, k + 1)
  BY <1>4, <1>5, <1>6, <1>7 DEF SubsMirrors
<1>9. QED
  BY <1>7, <1>8 DEF e, log

SubsApplyBody(f, d, logs, n) ==
    [i \in 0 .. n |-> IF i = 0 THEN d ELSE Subs!ApplyEvent(f[i - 1], logs[i])]

\* The recursion that applies a chunk has a solution.
LEMMA SubsApplySolvable ==
    ASSUME NEW d, NEW logs, NEW n \in Nat
    PROVE  \E f : f = SubsApplyBody(f, d, logs, n)
<1>1. DEFINE Solvable == {k \in 0 .. n : \E f : f = SubsApplyBody(f, d, logs, k)}
<1>2. 0 \in Solvable
  <2>1. [i \in 0 .. 0 |-> d] = SubsApplyBody([i \in 0 .. 0 |-> d], d, logs, 0)
    BY DEF SubsApplyBody
  <2>2. QED
    BY <2>1
<1>3. \A k \in 1 .. n : k - 1 \in Solvable => k \in Solvable
  <2>1. SUFFICES ASSUME NEW k \in 1 .. n, k - 1 \in Solvable
                 PROVE  k \in Solvable
    OBVIOUS
  <2>2. PICK f : f = SubsApplyBody(f, d, logs, k - 1)
    BY <2>1
  <2>3. DEFINE g == [i \in 0 .. k |-> IF i = k THEN Subs!ApplyEvent(f[k - 1], logs[k]) ELSE f[i]]
  <2>4. \A i \in 0 .. k : g[i] = IF i = 0 THEN d ELSE Subs!ApplyEvent(g[i - 1], logs[i])
    <3>1. SUFFICES ASSUME NEW i \in 0 .. k
                   PROVE  g[i] = IF i = 0 THEN d ELSE Subs!ApplyEvent(g[i - 1], logs[i])
      OBVIOUS
    <3>2. \A j \in 0 .. k - 1 : f[j] = IF j = 0 THEN d ELSE Subs!ApplyEvent(f[j - 1], logs[j])
      BY <2>2 DEF SubsApplyBody
    <3>3. CASE i = k
      BY <3>3, <2>1
    <3>4. CASE i # k
      BY <3>4, <3>2, <2>1
    <3>5. QED
      BY <3>3, <3>4
  <2>5. g = SubsApplyBody(g, d, logs, k)
    BY <2>4 DEF SubsApplyBody
  <2>6. QED
    BY <2>1, <2>5
<1>4. n \in Solvable
  <2>1. \A i \in 0 .. n : i \in Solvable
    <3> HIDE DEF Solvable
    <3>1. QED
      BY <1>2, <1>3, IntervalInduction
  <2>2. QED
    BY <2>1
<1>5. QED
  BY <1>4

\* The tables after each of the logs.
SubsStages(f, d, logs) ==
    /\ f[0] = d
    /\ \A i \in 1 .. Len(logs) : f[i] = Subs!ApplyEvent(f[i - 1], logs[i])
    /\ Subs!ApplyLogs(d, logs) = f[Len(logs)]

\* What a chunk leaves is the last of the stages.
LEMMA SubsApplyUnfolds ==
    ASSUME NEW d, NEW logs, Len(logs) \in Nat
    PROVE  \E f : SubsStages(f, d, logs)
<1>1. DEFINE f == CHOOSE f : f = SubsApplyBody(f, d, logs, Len(logs))
<1>2. f = SubsApplyBody(f, d, logs, Len(logs))
  BY SubsApplySolvable
<1>3. Subs!ApplyLogs(d, logs) = f[Len(logs)]
  BY DEF Subs!ApplyLogs, SubsApplyBody
<1> HIDE DEF f
<1>4. /\ f[0] = d
      /\ \A i \in 1 .. Len(logs) : f[i] = Subs!ApplyEvent(f[i - 1], logs[i])
  BY <1>2 DEF SubsApplyBody
<1>5. QED
  BY <1>3, <1>4 DEF SubsStages

\* Logs p + 1 .. q, of which the tables know the first ones already.
LEMMA SubsChunkApplied ==
    ASSUME NEW h, NEW n, SubsEmitted(h, n), NEW d, NEW k \in 0 .. Len(h), SubsMirrors(d, h, k),
           NEW p \in 0 .. k, NEW q \in p .. Len(h),
           NEW logs, Len(logs) = q - p, \A i \in 1 .. q - p : logs[i] = h[p + i]
    PROVE  /\ SubsMirrors(Subs!ApplyLogs(d, logs), h, IF q > k THEN q ELSE k)
           /\ Subs!ApplyLogs(d, logs).cursor = d.cursor
<1>1. Len(h) \in Nat /\ q - p \in Nat
  BY SubsEmittedNumbered DEF Numbered
<1>0. PICK f : SubsStages(f, d, logs)
  <2>1. Len(logs) \in Nat
    BY <1>1
  <2>2. QED
    BY <2>1, SubsApplyUnfolds
<1>2. /\ f[0] = d
      /\ \A i \in 1 .. q - p : f[i] = Subs!ApplyEvent(f[i - 1], logs[i])
      /\ Subs!ApplyLogs(d, logs) = f[q - p]
  BY <1>0 DEF SubsStages
<1>3. DEFINE Good == {i \in 0 .. q - p :
                        /\ SubsMirrors(f[i], h, IF p + i > k THEN p + i ELSE k)
                        /\ f[i].cursor = d.cursor}
<1>4. 0 \in Good
  BY <1>1, <1>2
<1>5. \A i \in 1 .. q - p : i - 1 \in Good => i \in Good
  <2>1. SUFFICES ASSUME NEW i \in 1 .. q - p, i - 1 \in Good PROVE i \in Good
    OBVIOUS
  <2>2. /\ SubsMirrors(f[i - 1], h, IF p + (i - 1) > k THEN p + (i - 1) ELSE k)
        /\ f[i - 1].cursor = d.cursor
    BY <2>1
  <2>3. f[i] = Subs!ApplyEvent(f[i - 1], h[p + i])
    BY <2>1, <1>2
  <2>4. CASE p + i <= k
    <3>1. SubsMirrors(f[i - 1], h, k) /\ p + i \in 1 .. k
      BY <2>2, <2>4, <1>1
    <3>2. \A j \in 1 .. k : /\ SubsMirrors(Subs!ApplyEvent(f[i - 1], h[j]), h, k)
                            /\ Subs!ApplyEvent(f[i - 1], h[j]).cursor = f[i - 1].cursor
      BY <3>1, SubsEventAgain
    <3>3. SubsMirrors(f[i], h, k) /\ f[i].cursor = d.cursor
      BY <3>1, <3>2, <2>2, <2>3
    <3>4. QED
      BY <3>3, <2>1, <2>4, <1>1
  <2>5. CASE p + i > k
    <3>1. p + i - 1 \in Nat /\ p + i - 1 < Len(h) /\ (p + i - 1) + 1 = p + i
      BY <1>1, <2>5
    <3>2. SubsMirrors(f[i - 1], h, p + i - 1)
      <4>1. (IF p + (i - 1) > k THEN p + (i - 1) ELSE k) = p + i - 1
        BY <1>1, <2>5
      <4>2. QED
        BY <4>1, <2>2
    <3>3. SubsMirrors(f[i], h, p + i) /\ f[i].cursor = d.cursor
      BY <3>1, <3>2, <2>2, <2>3, SubsEventNext
    <3>4. QED
      BY <3>3, <2>1, <2>5, <1>1
  <2>6. QED
    BY <2>4, <2>5, <1>1
<1>6. q - p \in Good
  <2>1. \A i \in 0 .. q - p : i \in Good
    <3> HIDE DEF Good
    <3>1. q - p \in Nat
      BY <1>1
    <3>2. QED
      BY <3>1, <1>4, <1>5, IntervalInduction
  <2>2. QED
    BY <2>1, <1>1
<1>7. p + (q - p) = q
  BY <1>1
<1>8. QED
  BY <1>2, <1>6, <1>7

\* Tables mirror every history that agrees on the logs they know.
LEMMA SubsMirrorsAgree ==
    ASSUME NEW h, NEW g, NEW k \in Nat, Agree(h, g, k), NEW d, SubsMirrors(d, h, k)
    PROVE  SubsMirrors(d, g, k)
<1>1. \A i \in 1 .. k : h[i] = g[i]
  BY DEF Agree
<1>2. PaymentsUpto(g, k) = PaymentsUpto(h, k)
  BY <1>1 DEF PaymentsUpto
<1>3. ASSUME NEW s
      PROVE  EndAt(s, g, k) = EndAt(s, h, k)
  <2>1. PaidTo(s, g, k) = PaidTo(s, h, k)
    BY <1>1 DEF PaidTo
  <2>2. CASE PaidTo(s, h, k) = {}
    BY <2>1, <2>2 DEF EndAt
  <2>3. CASE PaidTo(s, h, k) # {}
    <3>1. PaidTo(s, h, k) \in SUBSET (1 .. k)
      BY DEF PaidTo
    <3>2. Max(PaidTo(s, h, k)) \in 1 .. k
      BY <3>1, <2>3, MaxOfIndices
    <3>3. QED
      BY <3>2, <2>1, <2>3, <1>1 DEF EndAt
  <2>4. QED
    BY <2>2, <2>3
<1>4. QED
  BY <1>2, <1>3 DEF SubsMirrors

-----------------------------------------------------------------------------
(* The chain keeps what is settled.                                        *)

\* The chain is legal, and has not lost a settled block.
SubsChainInv ==
    /\ head \in Nat /\ peak \in Nat /\ forks \in Nat
    /\ head <= peak /\ peak <= head + Reorgable
    /\ SubsEmitted(history, head)

LEMMA SubsCallExtends ==
    ASSUME NEW h, NEW n \in Nat \ {0}, SubsEmitted(h, n), forks \in Nat,
           NEW s \in Subscribers, NEW log \in Subs!Calls(s, h, n)
    PROVE  Extends(h, Append(h, log), n) /\ SubsEmitted(Append(h, log), n)
<1>1. h \in Seq(SubscriptionLog) /\ DOMAIN h = 1 .. Len(h) /\ Len(h) \in Nat
  BY SubsEmittedNumbered DEF Numbered, SubsEmitted
<1>2. SubsEmitted(Append(h, log), n) /\ Agree(h, Append(h, log), Len(h))
  BY CallIsEmitted
<1>3. log.number = n
  BY DEF Subs!Calls
<1>4. /\ DOMAIN Append(h, log) = 1 .. Len(h) + 1
      /\ Append(h, log)[Len(h) + 1] = log
  BY <1>1
<1>5. Numbered(Append(h, log))
  BY <1>2, SubsEmittedNumbered
<1>6. QED
  BY <1>1, <1>2, <1>3, <1>4, <1>5 DEF Extends

SubsChainStep == Subs!MineEmpty \/ Subs!MineCall \/ Subs!MineTwoCalls \/ Subs!Reorg

LEMMA SubsEmittedLater ==
    ASSUME NEW h, NEW n \in Int, SubsEmitted(h, n)
    PROVE  SubsEmitted(h, n + 1)
<1>1. \A i \in DOMAIN h : h[i].number \in Nat
  BY SubsEmittedNumbered DEF Numbered
<1>2. QED
  BY <1>1 DEF SubsEmitted

\* A block is mined: the logs before it stay.
LEMMA SubsMineExtends ==
    ASSUME SubsChainInv, Subs!MineEmpty \/ Subs!MineCall \/ Subs!MineTwoCalls
    PROVE  Extends(history, history', head + 1) /\ SubsEmitted(history', head + 1)
<1>1. SubsEmitted(history, head + 1) /\ head + 1 \in Nat \ {0}
  BY SubsEmittedLater DEF SubsChainInv
<1>2. /\ history \in Seq(SubscriptionLog) /\ DOMAIN history = 1 .. Len(history)
      /\ Len(history) \in Nat
  BY <1>1, SubsEmittedNumbered DEF Numbered, SubsEmitted
<1>3. CASE Subs!MineEmpty
  <2>1. history' = history
    BY <1>2, <1>3 DEF Subs!MineEmpty, Subs!Mine
  <2>2. Extends(history, history, head + 1)
    BY <1>1, <1>2, SubsEmittedNumbered DEF Extends, Agree
  <2>3. QED
    BY <1>1, <2>1, <2>2
<1>4. CASE Subs!MineCall
  <2>0. PICK s \in Subscribers :
           \E log \in Subs!Calls(s, history, head + 1) : history' = history \o <<log>>
    BY <1>4 DEF Subs!MineCall, Subs!Mine
  <2>1. PICK log \in Subs!Calls(s, history, head + 1) : history' = history \o <<log>>
    BY <2>0
  <2>2. /\ Extends(history, Append(history, log), head + 1)
        /\ SubsEmitted(Append(history, log), head + 1)
    BY <1>1, SubsCallExtends DEF SubsChainInv
  <2>3. history \o <<log>> = Append(history, log)
    BY <1>2
  <2>4. QED
    BY <2>1, <2>2, <2>3
<1>5. CASE Subs!MineTwoCalls
  <2>0. PICK s \in Subscribers, u \in Subscribers :
           \E first \in Subs!Calls(s, history, head + 1) :
              \E second \in Subs!Calls(u, Append(history, first), head + 1) :
                 history' = history \o <<first, second>>
    BY <1>5 DEF Subs!MineTwoCalls, Subs!Mine
  <2>1. PICK first \in Subs!Calls(s, history, head + 1) :
           \E second \in Subs!Calls(u, Append(history, first), head + 1) :
              history' = history \o <<first, second>>
    BY <2>0
  <2>9. PICK second \in Subs!Calls(u, Append(history, first), head + 1) :
           history' = history \o <<first, second>>
    BY <2>1
  <2>2. Extends(history, Append(history, first), head + 1)
    BY <1>1, SubsCallExtends DEF SubsChainInv
  <2>3. SubsEmitted(Append(history, first), head + 1)
    BY <1>1, SubsCallExtends DEF SubsChainInv
  <2>4. /\ Extends(Append(history, first), Append(Append(history, first), second), head + 1)
        /\ SubsEmitted(Append(Append(history, first), second), head + 1)
    BY <1>1, <2>3, SubsCallExtends DEF SubsChainInv
  <2>5. history \o <<first, second>> = Append(Append(history, first), second)
    BY <1>2
  <2>6. Extends(history, Append(Append(history, first), second), head + 1)
    BY <1>2, <2>2, <2>4, ExtendsTwice
  <2>7. QED
    BY <2>9, <2>4, <2>5, <2>6
<1>6. QED
  BY <1>3, <1>4, <1>5

\* get_logs from the first block gives the beginning of the history.
LEMMA SubsFirstLogs ==
    ASSUME Numbered(history), NEW n
    PROVE  Subs!Logs(1, n) = SubSeq(history, 1, Cut(history, n))
<1>1. /\ Cut(history, 0) \in 0 .. Len(history)
      /\ \A i \in DOMAIN history : history[i].number <= 0 <=> i <= Cut(history, 0)
  BY CutSplits
<1>2. Cut(history, 0) = 0
  BY <1>1 DEF Numbered
<1>3. Subs!Upto(1 - 1) = 0
  <2>1. 1 - 1 = 0
    OBVIOUS
  <2>2. Subs!Upto(0) = 0
    BY <1>2, LogsUpto
  <2>3. QED
    BY <2>1, <2>2
<1>4. Subs!Upto(1 - 1) + 1 = 1
  BY <1>3
<1>5. Subs!Upto(n) = Cut(history, n)
  BY LogsUpto
<1>6. QED
  BY <1>4, <1>5 DEF Subs!Logs

\* Whatever the chain does, settled blocks keep their logs.
LEMMA SubsChainAdvances ==
    ASSUME SubsChainInv, SubsChainStep
    PROVE  /\ SubsChainInv'
           /\ Settled <= Settled'
           /\ \A m \in 0 .. Settled : Kept(history, history', m)
<1>1. Reorgable \in Nat /\ Settled \in Nat /\ Settled <= head
  BY SubscriptionConstants DEF Subs!SubscriptionIndexerAssumption, SubsChainInv, Settled
<1>2. CASE Subs!MineEmpty \/ Subs!MineCall \/ Subs!MineTwoCalls
  <2>1. /\ head' = head + 1 /\ peak' = (IF head' > peak THEN head' ELSE peak)
        /\ forks' = forks
    BY <1>2 DEF Subs!MineEmpty, Subs!MineCall, Subs!MineTwoCalls, Subs!Mine
  <2>2. Extends(history, history', head + 1) /\ SubsEmitted(history', head + 1)
    BY <1>2, SubsMineExtends
  <2>3. SubsChainInv'
    BY <1>1, <2>1, <2>2 DEF SubsChainInv
  <2>4. Settled <= Settled'
    BY <1>1, <2>1 DEF SubsChainInv, Settled
  <2>5. \A m \in 0 .. Settled : Kept(history, history', m)
    <3>1. SUFFICES ASSUME NEW m \in 0 .. Settled PROVE Kept(history, history', m)
      OBVIOUS
    <3>2. m \in Nat /\ m < head + 1 /\ head + 1 \in Nat
      BY <1>1 DEF SubsChainInv
    <3>3. QED
      BY <2>2, <3>2, ExtendsKeeps, SubsEmittedNumbered DEF SubsChainInv
  <2>6. QED
    BY <2>3, <2>4, <2>5
<1>3. CASE Subs!Reorg
  <2>1. PICK n \in 0 .. head - 1 : /\ n >= peak - Reorgable /\ head' = n
                                   /\ history' = Subs!Logs(1, n)
    BY <1>3 DEF Subs!Reorg
  <2>2. forks' = forks + 1 /\ peak' = peak /\ n \in Nat
    BY <1>3, <2>1 DEF Subs!Reorg, SubsChainInv
  <2>3. Numbered(history)
    BY SubsEmittedNumbered DEF SubsChainInv
  <2>4. history' = SubSeq(history, 1, Cut(history, n))
    <3>1. Subs!Logs(1, n) = SubSeq(history, 1, Cut(history, n))
      BY <2>3, SubsFirstLogs
    <3>2. QED
      BY <3>1, <2>1
  <2>5. SubsEmitted(history', n) /\ Len(history') = Cut(history, n)
        /\ Agree(history, history', Cut(history, n))
    BY <2>2, <2>4, SubsPrefixEmitted DEF SubsChainInv
  <2>6. SubsChainInv'
    BY <1>1, <2>1, <2>2, <2>5 DEF SubsChainInv
  <2>7. Settled' = Settled
    BY <2>2 DEF Settled
  <2>8. \A m \in 0 .. Settled : Kept(history, history', m)
    <3>1. SUFFICES ASSUME NEW m \in 0 .. Settled PROVE Kept(history, history', m)
      OBVIOUS
    <3>2. m \in Int /\ m <= n /\ n \in Int
      BY <1>1, <2>1, <2>2 DEF Settled, SubsChainInv
    <3>3. Numbered(history')
      BY <2>5, SubsEmittedNumbered
    <3>4. QED
      BY <2>3, <2>5, <3>2, <3>3, PrefixKeeps
  <2>9. Settled \in Nat
    BY <1>1
  <2>10. QED
    BY <2>6, <2>7, <2>8, <2>9
<1>4. QED
  BY <1>2, <1>3 DEF SubsChainStep

-----------------------------------------------------------------------------
(* The invariant of the worker.                                            *)

\* What the open transaction covers: what was committed, and what this pass
\* has gone through.
SubsReach == IF Behind > Subs!Scanned THEN Behind ELSE Subs!Scanned

\* A pass begins where the cursor is rewound to, and ends in settled blocks.
SubsPassOK ==
    /\ DOMAIN pass = {"phase", "next", "target", "reached"}
    /\ pass.next \in Nat /\ pass.target \in Nat
    /\ Subs!ResumePoint(db.cursor) <= pass.next
    /\ pass.target <= Settled
    /\ pass.reached = IF Subs!ResumePoint(db.cursor) > pass.target
                      THEN Subs!ResumePoint(db.cursor) ELSE pass.target

\* Where the worker stands, and what each copy of the tables mirrors.
SubsWorkerInv ==
    /\ db.cursor \in Nat \cup {Subs!NoCursor}
    /\ Subs!Scanned <= Settled
    /\ SubsMirrors(db, history, Cut(history, Subs!Scanned))
    /\ \/ pass.phase = "idle" /\ session = db
       \/ /\ pass.phase = "scanning" /\ SubsPassOK
          /\ session.cursor = db.cursor
          /\ SubsMirrors(session, history, Cut(history, SubsReach))

SubsInv == SubsChainInv /\ SubsWorkerInv

LEMMA SubsRanges ==
    ASSUME SubsInv
    PROVE  /\ Numbered(history) /\ Len(history) \in Nat
           /\ Settled \in Nat /\ Settled <= head /\ Subs!Scanned \in 0 .. Settled
           /\ Subs!ResumePoint(db.cursor) \in 0 .. Subs!Scanned
           /\ {Confirmations, ChunkSize} \subseteq Nat \ {0}
           /\ {ReorgDepth, Reorgable} \subseteq Nat
           /\ SubsPassOK => Behind \in Int /\ SubsReach \in 0 .. Settled
<1>1. /\ {Confirmations, ChunkSize} \subseteq Nat \ {0}
      /\ {ReorgDepth, Reorgable} \subseteq Nat
  BY SubscriptionConstants DEF Subs!SubscriptionIndexerAssumption
<1>2. Numbered(history) /\ Len(history) \in Nat
  BY SubsEmittedNumbered DEF SubsInv, SubsChainInv, Numbered
<1>3. Settled \in Nat /\ Settled <= head
  BY <1>1 DEF SubsInv, SubsChainInv, Settled
<1>4. Subs!Scanned \in 0 .. Settled /\ Subs!ResumePoint(db.cursor) \in 0 .. Subs!Scanned
  BY <1>1, <1>3 DEF SubsInv, SubsWorkerInv, Subs!Scanned, Subs!ResumePoint, Subs!NoCursor
<1>5. SubsPassOK => Behind \in Int /\ SubsReach \in 0 .. Settled
  BY <1>3, <1>4 DEF SubsPassOK, Behind, SubsReach
<1>6. QED
  BY <1>1, <1>2, <1>3, <1>4, <1>5

LEMMA SubsInit ==
    ASSUME Subs!Init
    PROVE  SubsInv
<1>1. /\ head = 0 /\ history = <<>> /\ peak = 0 /\ forks = 0 /\ db = Subs!EmptyTables
      /\ session = Subs!EmptyTables /\ pass = Subs!Idle
  BY DEF Subs!Init
<1>2. SubsEmitted(<<>>, 0)
  BY DEF SubsEmitted
<1>3. SubsChainInv
  <2>1. Reorgable \in Nat
    BY SubscriptionConstants DEF Subs!SubscriptionIndexerAssumption
  <2>2. QED
    BY <1>1, <1>2, <2>1 DEF SubsChainInv
<1>4. db.cursor = Subs!NoCursor /\ pass.phase = "idle" /\ session = db
  BY <1>1 DEF Subs!EmptyTables, Subs!Idle
<1>5. Subs!Scanned = 0 /\ Subs!Scanned <= Settled
  <2>1. Reorgable \in Nat
    BY SubscriptionConstants DEF Subs!SubscriptionIndexerAssumption
  <2>2. QED
    BY <1>1, <1>4, <2>1 DEF Subs!Scanned, Settled
<1>6. Cut(history, Subs!Scanned) = 0
  <2>1. Cut(history, 0) \in 0 .. Len(history)
    BY <1>3, SubsEmittedNumbered, CutSplits DEF SubsChainInv
  <2>2. QED
    BY <2>1, <1>1, <1>5
<1>7. SubsMirrors(Subs!EmptyTables, history, 0)
  <2>1. SubsTables(Subs!EmptyTables)
    BY DEF SubsTables, Subs!EmptyTables, SubsRow, Subs!NoRow
  <2>2. DOMAIN Subs!EmptyTables.payments = {} /\ PaymentsUpto(history, 0) = {}
    BY DEF Subs!EmptyTables, PaymentsUpto
  <2>3. \A s \in Subscribers : Subs!EmptyTables.rows[s].end = 0 /\ EndAt(s, history, 0) = 0
    BY DEF Subs!EmptyTables, EndAt, PaidTo, Subs!NoRow
  <2>4. QED
    BY <2>1, <2>2, <2>3 DEF SubsMirrors
<1>8. QED
  BY <1>1, <1>3, <1>4, <1>5, <1>6, <1>7 DEF SubsInv, SubsWorkerInv, Subs!NoCursor

\* The chain moves: the worker's blocks are settled.
LEMMA SubsChainStepKeepsInv ==
    ASSUME SubsInv, SubsChainStep
    PROVE  SubsInv'
<1>1. /\ SubsChainInv' /\ Settled <= Settled'
      /\ \A m \in 0 .. Settled : Kept(history, history', m)
  BY SubsChainAdvances DEF SubsInv
<1>2. db' = db /\ session' = session /\ pass' = pass
  BY DEF SubsChainStep, Subs!MineEmpty, Subs!MineCall, Subs!MineTwoCalls, Subs!Mine, Subs!Reorg
<1>3. \A m \in 0 .. Settled : \A d :
         SubsMirrors(d, history, Cut(history, m)) => SubsMirrors(d, history', Cut(history', m))
  <2>1. SUFFICES ASSUME NEW m \in 0 .. Settled, NEW d, SubsMirrors(d, history, Cut(history, m))
                 PROVE  SubsMirrors(d, history', Cut(history', m))
    OBVIOUS
  <2>2. Cut(history', m) = Cut(history, m) /\ Agree(history, history', Cut(history, m))
    BY <1>1 DEF Kept
  <2>3. Cut(history, m) \in Nat
    BY <2>1, SubsRanges, CutSplits
  <2>4. QED
    BY <2>1, <2>2, <2>3, SubsMirrorsAgree
<1>4. /\ Subs!Scanned' = Subs!Scanned /\ SubsReach' = SubsReach
      /\ Subs!ResumePoint(db'.cursor) = Subs!ResumePoint(db.cursor)
  BY <1>2 DEF Subs!Scanned, SubsReach, Behind
<1>5. Subs!Scanned \in 0 .. Settled /\ (SubsPassOK => SubsReach \in 0 .. Settled) /\ Settled \in Nat
  BY SubsRanges
<1>6. Settled' \in Nat
  BY <1>1, SubscriptionConstants DEF Settled, SubsChainInv, Subs!SubscriptionIndexerAssumption
<1>7. SubsMirrors(db', history', Cut(history', Subs!Scanned'))
  BY <1>2, <1>3, <1>4, <1>5 DEF SubsInv, SubsWorkerInv
<1>8. SubsPassOK => SubsPassOK'
  BY <1>1, <1>2, <1>4, <1>5, <1>6 DEF SubsPassOK
<1>9. (SubsPassOK /\ SubsMirrors(session, history, Cut(history, SubsReach)))
      => SubsMirrors(session', history', Cut(history', SubsReach'))
  BY <1>2, <1>3, <1>4, <1>5
<1>10. Subs!Scanned' <= Settled'
  BY <1>1, <1>4, <1>5, <1>6
<1>11. QED
  BY <1>1, <1>2, <1>7, <1>8, <1>9, <1>10 DEF SubsInv, SubsWorkerInv

\* A pass begins.
LEMMA SubsStartKeepsInv ==
    ASSUME SubsInv, Subs!StartScan
    PROVE  SubsInv'
<1>1. DEFINE from == Subs!ResumePoint(db.cursor)
<1>2. /\ pass.phase = "idle" /\ session = db
      /\ pass' = [phase |-> "scanning", next |-> from, target |-> Subs!SafeHead(head),
                  reached |-> Max({from, Subs!SafeHead(head)})]
      /\ UNCHANGED <<head, history, peak, forks, db, session>>
  BY SameMax DEF Subs!StartScan, SubsInv, SubsWorkerInv
<1>3. from \in 0 .. Subs!Scanned /\ Subs!Scanned \in 0 .. Settled /\ Settled \in Nat
  BY SubsRanges
<1> HIDE DEF from
<1>4. Subs!SafeHead(head) \in Nat /\ Subs!SafeHead(head) <= Settled
  BY SubsRanges, ConfirmedStays DEF SubsInv, SubsChainInv, Subs!SafeHead, Settled
<1>5. Max({from, Subs!SafeHead(head)})
        = IF from > Subs!SafeHead(head) THEN from ELSE Subs!SafeHead(head)
  BY <1>3, <1>4 DEF Max
<1>6. Settled' = Settled /\ Subs!Scanned' = Subs!Scanned
  BY <1>2 DEF Settled, Subs!Scanned
<1>7. SubsPassOK'
  BY <1>2, <1>3, <1>4, <1>5, <1>6 DEF SubsPassOK, from
<1>8. SubsReach' = Subs!Scanned
  BY <1>2, <1>3, <1>4, <1>6 DEF SubsReach, Behind
<1>9. SubsChainInv'
  BY <1>2 DEF SubsInv, SubsChainInv
<1>10. SubsWorkerInv'
  BY <1>2, <1>6, <1>7, <1>8 DEF SubsInv, SubsWorkerInv
<1>11. QED
  BY <1>9, <1>10 DEF SubsInv

\* A chunk is applied: its first logs may be known, the others come next.
LEMMA SubsScanKeepsInv ==
    ASSUME SubsInv, Subs!ScanChunk
    PROVE  SubsInv'
<1>1. DEFINE last == Subs!ChunkEnd(pass.next, pass.target)
             logs == Subs!Logs(pass.next, last)
<1>2. /\ pass.phase = "scanning" /\ pass.next <= pass.target
      /\ session' = Subs!ApplyLogs(session, logs)
      /\ pass' = [pass EXCEPT !.next = @ + ChunkSize]
      /\ UNCHANGED <<head, history, peak, forks, db>>
  BY DEF Subs!ScanChunk
<1>3. /\ SubsPassOK /\ session.cursor = db.cursor
      /\ SubsMirrors(session, history, Cut(history, SubsReach))
  BY <1>2 DEF SubsInv, SubsWorkerInv
<1>4. /\ Numbered(history) /\ Subs!Scanned \in 0 .. Settled /\ Settled \in Nat
      /\ SubsReach \in 0 .. Settled /\ ChunkSize \in Nat \ {0}
  BY <1>3, SubsRanges
<1>5. /\ pass.next \in Nat /\ pass.target \in Nat /\ pass.target <= Settled
      /\ DOMAIN pass = {"phase", "next", "target", "reached"}
  BY <1>3 DEF SubsPassOK
<1>6. /\ last \in Nat /\ pass.next <= last /\ last <= pass.target
      /\ last = IF pass.next + ChunkSize <= pass.target THEN pass.next + ChunkSize - 1
                ELSE pass.target
  BY <1>2, <1>4, <1>5 DEF Subs!ChunkEnd
<1>7. Behind = pass.next - 1 /\ pass.next - 1 <= SubsReach /\ pass.next - 1 \in Int
  BY <1>2, <1>4, <1>5 DEF SubsReach, Behind
<1> HIDE DEF last, logs
<1>8. SubsReach \in Int /\ last \in Int /\ pass.next - 1 <= last
  BY <1>4, <1>5, <1>6
<1>9. /\ Cut(history, SubsReach) \in 0 .. Len(history)
      /\ Cut(history, pass.next - 1) \in 0 .. Len(history)
      /\ Cut(history, last) \in 0 .. Len(history)
  <2>1. Cut(history, SubsReach) \in 0 .. Len(history)
    BY <1>4, <1>8, CutSplits
  <2>2. Cut(history, pass.next - 1) \in 0 .. Len(history)
    BY <1>4, <1>7, CutSplits
  <2>3. Cut(history, last) \in 0 .. Len(history)
    BY <1>4, <1>8, CutSplits
  <2>4. QED
    BY <2>1, <2>2, <2>3
<1>10. Cut(history, pass.next - 1) <= Cut(history, SubsReach)
  BY <1>4, <1>7, <1>8, CutMonotone
<1>11. Cut(history, pass.next - 1) <= Cut(history, last)
  BY <1>4, <1>7, <1>8, CutMonotone
<1> DEFINE k == Cut(history, SubsReach)
           p == Cut(history, pass.next - 1)
           q == Cut(history, last)
<1>12. Len(history) \in Nat /\ history \in Seq(SubscriptionLog)
  BY <1>4 DEF Numbered, SubsInv, SubsChainInv, SubsEmitted
<1>13. logs = SubSeq(history, p + 1, q)
  BY LogsUpto DEF logs, Subs!Logs
<1>26. k \in 0 .. Len(history) /\ q \in 0 .. Len(history) /\ p \in 0 .. Len(history)
  BY <1>9
<1>27. p <= k /\ p <= q
  BY <1>10, <1>11
<1> HIDE DEF k, p, q
<1>14. Len(logs) = q - p /\ \A i \in 1 .. q - p : logs[i] = history[p + i]
  <2>1. CASE p = q
    BY <1>26, <1>12, <1>13, <2>1
  <2>2. CASE p # q
    BY <1>26, <1>27, <1>12, <1>13, <2>2
  <2>3. QED
    BY <2>1, <2>2
<1>15. /\ SubsMirrors(session', history, IF q > k THEN q ELSE k)
       /\ session'.cursor = session.cursor
  <2>1. SubsEmitted(history, head)
    BY DEF SubsInv, SubsChainInv
  <2>2. p \in 0 .. k /\ q \in p .. Len(history)
    BY <1>26, <1>27, <1>12
  <2>3. SubsMirrors(session, history, k)
    BY <1>3 DEF k
  <2>4. QED
    BY <1>2, <1>26, <1>14, <2>1, <2>2, <2>3, SubsChunkApplied
<1>16. /\ pass'.next = pass.next + ChunkSize /\ pass'.target = pass.target
       /\ pass'.reached = pass.reached /\ pass'.phase = pass.phase
       /\ DOMAIN pass' = {"phase", "next", "target", "reached"}
  BY <1>2, <1>5
<1>17. Subs!Scanned' = Subs!Scanned /\ Settled' = Settled
  BY <1>2 DEF Subs!Scanned, Settled
<1>18. SubsPassOK'
  BY <1>2, <1>3, <1>4, <1>16, <1>17, SubsRanges DEF SubsPassOK
<1>19. Behind' = last
  BY <1>4, <1>5, <1>6, <1>16 DEF Behind
<1>20. SubsReach' = IF last > SubsReach THEN last ELSE SubsReach
  <2>1. SubsReach' = IF last > Subs!Scanned THEN last ELSE Subs!Scanned
    BY <1>17, <1>19 DEF SubsReach
  <2>2. SubsReach = IF pass.next - 1 > Subs!Scanned THEN pass.next - 1 ELSE Subs!Scanned
    BY <1>7 DEF SubsReach
  <2>3. QED
    BY <1>4, <1>7, <1>8, <2>1, <2>2
<1>21. Cut(history, SubsReach') = IF q > k THEN q ELSE k
  <2>1. CASE last > SubsReach
    <3>1. k <= q
      BY <1>4, <1>6, <2>1, CutMonotone DEF k, q
    <3>2. QED
      BY <3>1, <1>20, <2>1, <1>26, <1>12 DEF k, q
  <2>2. CASE ~(last > SubsReach)
    <3>1. q <= k
      BY <1>4, <1>6, <2>2, CutMonotone DEF k, q
    <3>2. QED
      BY <3>1, <1>20, <2>2, <1>26, <1>12 DEF k, q
  <2>3. QED
    BY <2>1, <2>2
<1>22. SubsMirrors(session', history', Cut(history', SubsReach'))
  BY <1>2, <1>15, <1>21
<1>23. SubsChainInv'
  BY <1>2 DEF SubsInv, SubsChainInv
<1>24. SubsWorkerInv'
  <2>1. /\ db'.cursor \in Nat \cup {Subs!NoCursor} /\ Subs!Scanned' <= Settled'
        /\ SubsMirrors(db', history', Cut(history', Subs!Scanned'))
    BY <1>2, <1>17 DEF SubsInv, SubsWorkerInv
  <2>2. pass'.phase = "scanning" /\ session'.cursor = db'.cursor
    BY <1>2, <1>3, <1>15, <1>16
  <2>3. QED
    BY <2>1, <2>2, <1>18, <1>22 DEF SubsWorkerInv
<1>25. QED
  BY <1>23, <1>24 DEF SubsInv

\* The pass is committed, and the cursor moved.
LEMMA SubsCommitKeepsInv ==
    ASSUME SubsInv, Subs!CommitScan
    PROVE  SubsInv'
<1>1. /\ pass.phase = "scanning" /\ pass.next > pass.target
      /\ session' = [session EXCEPT !.cursor = Max({session.cursor, pass.reached})]
      /\ db' = session' /\ pass' = Subs!Idle
      /\ UNCHANGED <<head, history, peak, forks>>
  BY SameMax DEF Subs!CommitScan
<1>2. /\ SubsPassOK /\ session.cursor = db.cursor
      /\ SubsMirrors(session, history, Cut(history, SubsReach))
  BY <1>1 DEF SubsInv, SubsWorkerInv
<1>3. /\ Subs!Scanned \in 0 .. Settled /\ Settled \in Nat
      /\ Subs!ResumePoint(db.cursor) \in 0 .. Subs!Scanned
  BY <1>2, SubsRanges
<1>4. db.cursor \in Nat \cup {-1}
  BY DEF SubsInv, SubsWorkerInv, Subs!NoCursor
<1>5. /\ pass.target \in Nat /\ pass.next \in Nat /\ pass.target <= Settled
      /\ pass.reached = IF Subs!ResumePoint(db.cursor) > pass.target
                        THEN Subs!ResumePoint(db.cursor) ELSE pass.target
  BY <1>2 DEF SubsPassOK
<1>6. pass.reached \in Nat
  BY <1>3, <1>5
<1>7. Max({session.cursor, pass.reached})
      = IF session.cursor > pass.reached THEN session.cursor ELSE pass.reached
  BY <1>2, <1>4, <1>6 DEF Max
<1>8. /\ db'.cursor = IF db.cursor > pass.reached THEN db.cursor ELSE pass.reached
      /\ db'.rows = session.rows /\ db'.payments = session.payments
      /\ DOMAIN db' = DOMAIN session
  BY <1>1, <1>2, <1>7 DEF SubsMirrors, SubsTables
<1>9. SubsReach = IF pass.target > Subs!Scanned THEN pass.target ELSE Subs!Scanned
  BY <1>1, <1>3, <1>5 DEF SubsReach, Behind
<1>10. Subs!Scanned' = SubsReach
  BY <1>3, <1>4, <1>5, <1>6, <1>8, <1>9 DEF Subs!Scanned, Subs!NoCursor
<1>11. Settled' = Settled /\ SubsReach \in 0 .. Settled
  BY <1>1, <1>2, SubsRanges DEF Settled
<1>12. SubsMirrors(db', history', Cut(history', Subs!Scanned'))
  BY <1>1, <1>2, <1>8, <1>10 DEF SubsMirrors, SubsTables
<1>13. SubsChainInv'
  BY <1>1 DEF SubsInv, SubsChainInv
<1>14. pass'.phase = "idle" /\ session' = db'
  BY <1>1 DEF Subs!Idle
<1>15. db'.cursor \in Nat \cup {Subs!NoCursor}
  BY <1>4, <1>6, <1>8
<1>16. Subs!Scanned' <= Settled'
  BY <1>3, <1>10, <1>11
<1>17. QED
  BY <1>12, <1>13, <1>14, <1>15, <1>16 DEF SubsInv, SubsWorkerInv

\* The process dies: the open transaction is lost.
LEMMA SubsCrashKeepsInv ==
    ASSUME SubsInv, Subs!Crash
    PROVE  SubsInv'
<1>1. /\ session' = db /\ pass' = Subs!Idle /\ UNCHANGED <<head, history, peak, forks, db>>
  BY DEF Subs!Crash
<1>2. pass'.phase = "idle" /\ session' = db'
  BY <1>1 DEF Subs!Idle
<1>3. Subs!Scanned' = Subs!Scanned /\ Settled' = Settled
  BY <1>1 DEF Subs!Scanned, Settled
<1>4. SubsChainInv'
  BY <1>1 DEF SubsInv, SubsChainInv
<1>5. QED
  BY <1>1, <1>2, <1>3, <1>4 DEF SubsInv, SubsWorkerInv

LEMMA SubsStep ==
    ASSUME SubsInv, Subs!Next
    PROVE  SubsInv'
<1>1. CASE SubsChainStep
  BY <1>1, SubsChainStepKeepsInv
<1>2. CASE Subs!StartScan
  BY <1>2, SubsStartKeepsInv
<1>3. CASE Subs!ScanChunk
  BY <1>3, SubsScanKeepsInv
<1>4. CASE Subs!CommitScan
  BY <1>4, SubsCommitKeepsInv
<1>5. CASE Subs!Crash
  BY <1>5, SubsCrashKeepsInv
<1>6. QED
  BY <1>1, <1>2, <1>3, <1>4, <1>5 DEF Subs!Next, Subs!Worker, SubsChainStep

\* What the invariant promises of the subscription mirror.
LEMMA SubsSafe ==
    ASSUME SubsInv
    PROVE  Subs!CoverageFollowsChain /\ Subs!TrailFollowsChain
<1>1. DEFINE k == Cut(history, Subs!Scanned)
<1>2. Numbered(history) /\ Subs!Scanned \in Int
  BY SubsRanges
<1>3. k \in 0 .. Len(history) /\ Len(history) \in Nat
  BY <1>2, CutSplits DEF Numbered
<1>4. Subs!Logs(1, Subs!Scanned) = SubSeq(history, 1, k)
  BY <1>2, SubsFirstLogs
<1>5. SubsMirrors(db, history, k) /\ SubsEmitted(history, head)
  BY DEF SubsInv, SubsWorkerInv, SubsChainInv
<1> HIDE DEF k
<1>6. Subs!CoverageFollowsChain
  <2>1. SUFFICES ASSUME NEW s \in Subscribers
                 PROVE  db.rows[s].end = Subs!Coverage(s, SubSeq(history, 1, k)).end
    BY <1>4 DEF Subs!CoverageFollowsChain
  <2>2. Subs!Coverage(s, SubSeq(history, 1, k)).end = EndAt(s, history, k)
    BY <1>3, <1>5, CoverageOfPrefix
  <2>3. QED
    BY <2>2, <1>5 DEF SubsMirrors
<1>7. Subs!TrailFollowsChain
  <2>1. DEFINE g == SubSeq(history, 1, k)
  <2>2. history \in Seq(SubscriptionLog)
    BY <1>5 DEF SubsEmitted
  <2>3. g \in Seq(SubscriptionLog) /\ Len(g) = k /\ \A i \in 1 .. k : g[i] = history[i]
    <3>1. CASE k = 0
      BY <1>3, <2>2, <3>1
    <3>2. CASE k # 0
      BY <1>3, <2>2, <3>2
    <3>3. QED
      BY <3>1, <3>2
  <2>4. DOMAIN g = 1 .. k
    BY <2>3, LenProperties
  <2> HIDE DEF g
  <2>5. {l \in ToSet(g) : Subs!Pays(l)}
          = {history[i] : i \in {j \in 1 .. k : Subs!Pays(history[j])}}
    BY <2>3, <2>4 DEF ToSet
  <2>6. {log.tx : log \in {l \in ToSet(g) : Subs!Pays(l)}} = PaymentsUpto(history, k)
    BY <2>5 DEF PaymentsUpto
  <2>7. QED
    BY <2>6, <1>4, <1>5, SameToSet DEF Subs!TrailFollowsChain, SubsMirrors, g
<1>8. QED
  BY <1>6, <1>7

-----------------------------------------------------------------------------
IndexersInv ==
    /\ part = "escrows" => SteadyInv
    /\ part = "subscriptions" => SubsInv

LEMMA IndexersInit ==
    ASSUME Init
    PROVE  IndexersInv
BY EscrowsInit, SubsInit DEF Init, IndexersInv

LEMMA IndexersStep ==
    ASSUME IndexersInv, [Next]_vars
    PROVE  IndexersInv'
<1>1. CASE part = "escrows" /\ Steady!Next /\ UNCHANGED part
  BY <1>1, SteadyStep DEF IndexersInv
<1>2. CASE part = "subscriptions" /\ Subs!Next /\ UNCHANGED part
  BY <1>2, SubsStep DEF IndexersInv
<1>3. CASE UNCHANGED vars
  <2>1. UNCHANGED part /\ UNCHANGED indexerVars
    BY <1>3 DEF vars
  <2>2. SteadyInv => SteadyInv'
    BY <2>1 DEF indexerVars, SteadyInv, ChainInv, WorkerInv, Steady!Scanned, Settled, PassOK,
       Recent, Reach, Behind, Unpaid
  <2>3. SubsInv => SubsInv'
    BY <2>1 DEF indexerVars, SubsInv, SubsChainInv, SubsWorkerInv, Subs!Scanned, Settled,
       SubsPassOK, SubsReach, Behind
  <2>4. QED
    BY <2>1, <2>2, <2>3 DEF IndexersInv
<1>4. QED
  BY <1>1, <1>2, <1>3 DEF Next

LEMMA IndexersInvariant == Spec => []IndexersInv
<1>1. Init => IndexersInv
  BY IndexersInit
<1>2. IndexersInv /\ [Next]_vars => IndexersInv'
  BY IndexersStep
<1>3. QED
  BY <1>1, <1>2, PTL DEF Spec

\* The rows of both mirrors are at every moment what the chain up to the
\* committed cursor makes of them, whatever forks, chunks and crashes there were
\* (scan, run_once and resume_point of both indexers).
THEOREM MirrorsFollowChain == Spec => []RowsFollowChain
<1>1. IndexersInv => RowsFollowChain
  BY SteadySafe, SubsSafe DEF IndexersInv, RowsFollowChain
<1>2. QED
  BY <1>1, IndexersInvariant, PTL

\* Blocks that are scanned again are not applied again, and none is passed
\* over: every event with a record is recorded once (_apply_event,
\* _apply_subscribed).
THEOREM EventsAppliedOnce == Spec => []AppliedOnce
<1>1. IndexersInv => AppliedOnce
  BY SteadySafe, SubsSafe DEF IndexersInv, AppliedOnce
<1>2. QED
  BY <1>1, IndexersInvariant, PTL

\* The sweep expires no order whose escrow was funded by its deadline
\* (expire_unfunded_orders, _index_chain).
THEOREM PaidOrdersStay == Spec => []PaidInTimeNotExpired
<1>1. IndexersInv => PaidInTimeNotExpired
  BY SteadySafe DEF IndexersInv, PaidInTimeNotExpired
<1>2. QED
  BY <1>1, IndexersInvariant, PTL
=============================================================================
