--------------------------- MODULE OrderDeskProofs ---------------------------
(***************************************************************************)
(* The order desk is safe for any orders, requests and amounts: committed  *)
(* rows fit the events applied, whatever transactions overlap.             *)
(*                                                                         *)
(* The invariant says this of three readers.  The committed rows of an     *)
(* order fit the events counted as applied (Committed); the rows the       *)
(* indexer sees fit the events it has applied in its open transaction      *)
(* (WorkerSees); and what a request has written fits the committed events  *)
(* (RequestWrote).  Of columns that are set but not yet sent it says what  *)
(* they make of ANY row that fits, since an UPDATE lands on whatever the   *)
(* transaction before it left (RequestReady, MovesOn, Mirrors).            *)
(***************************************************************************)
EXTENDS OrderDesk, SequenceTheorems, TLAPS

-----------------------------------------------------------------------------
(* The order desk: keys, and rows laid over rows.                          *)

LEMMA DeskConstants ==
    ASSUME DeskAssumption
    PROVE  /\ Amount \in Nat \ {0} /\ FeeBps \in Nat /\ FeeBps <= BpsDenominator
           /\ BpsDenominator \in Nat \ {0}
           /\ Shares \subseteq 0 .. Amount /\ Worker \notin Requests
<1>1. MaxFeeBps <= BpsDenominator /\ MaxFeeBps \in Nat /\ BpsDenominator \in Nat \ {0}
  BY FeeAssumption
<1>2. QED
  BY <1>1 DEF DeskAssumption

LEMMA KeysApart ==
    /\ \A o, p : /\ OrderKey(o) # EscrowKey(p) /\ OrderKey(o) # IngestedKey(p)
                 /\ EscrowKey(o) # IngestedKey(p)
                 /\ OrderKey(o) = OrderKey(p) => o = p
                 /\ EscrowKey(o) = EscrowKey(p) => o = p
                 /\ IngestedKey(o) = IngestedKey(p) => o = p
    /\ \A o : /\ ServiceKey # OrderKey(o) /\ ServiceKey # EscrowKey(o)
              /\ ServiceKey # IngestedKey(o)
    /\ \A o : /\ OrderKey(o)[1] = "orders" /\ EscrowKey(o)[1] = "escrows"
              /\ IngestedKey(o)[1] = "chain_transactions"
    /\ ServiceKey[1] = "services"
BY DEF OrderKey, EscrowKey, IngestedKey, ServiceKey

LEMMA KeysOfOrders ==
    /\ ServiceKey \in Keys
    /\ \A o \in Orders : OrderKey(o) \in Keys /\ EscrowKey(o) \in Keys /\ IngestedKey(o) \in Keys
    /\ \A k \in Keys : k = ServiceKey \/ \E o \in Orders :
                          k \in {OrderKey(o), EscrowKey(o), IngestedKey(o)}
BY DEF Keys

OrderRow == [status : OrderStatuses, funded_at : BOOLEAN,
             delivered_at : BOOLEAN, completed_at : BOOLEAN]

LEMMA OverValue ==
    ASSUME NEW new, NEW old
    PROVE  /\ DOMAIN Over(new, old) = DOMAIN new \cup DOMAIN old
           /\ \A c \in DOMAIN new : Over(new, old)[c] = new[c]
           /\ \A c \in DOMAIN old \ DOMAIN new : Over(new, old)[c] = old[c]
BY DEF Over

LEMMA OverNothing ==
    ASSUME NEW d, DOMAIN d = {}, NEW old, old = [c \in DOMAIN old |-> old[c]]
    PROVE  Over(d, old) = old
BY DEF Over

LEMMA ChangedValue ==
    ASSUME NEW loaded, NEW new
    PROVE  /\ DOMAIN Changed(loaded, new) = {c \in DOMAIN new : new[c] # loaded[c]}
           /\ \A c \in DOMAIN Changed(loaded, new) : Changed(loaded, new)[c] = new[c]
BY DEF Changed

\* The columns of an order's row after an update.
LEMMA OverOrder ==
    ASSUME NEW old \in OrderRow, NEW d,
           DOMAIN d \subseteq {"status", "funded_at", "delivered_at", "completed_at"}
    PROVE  Over(d, old) =
             [status |-> IF "status" \in DOMAIN d THEN d["status"] ELSE old.status,
              funded_at |-> IF "funded_at" \in DOMAIN d THEN d["funded_at"] ELSE old.funded_at,
              delivered_at |-> IF "delivered_at" \in DOMAIN d THEN d["delivered_at"]
                               ELSE old.delivered_at,
              completed_at |-> IF "completed_at" \in DOMAIN d THEN d["completed_at"]
                               ELSE old.completed_at]
<1>1. DOMAIN old = {"status", "funded_at", "delivered_at", "completed_at"}
  BY DEF OrderRow
<1>2. Over(d, old) = [c \in {"status", "funded_at", "delivered_at", "completed_at"} |->
                         IF c \in DOMAIN d THEN d[c] ELSE old[c]]
  BY <1>1 DEF Over
<1>3. QED
  BY <1>2

Columns == {"status", "amount", "released_amount", "refunded_amount", "fee_amount",
            "released_at", "refunded_at", "disputed_at", "dispute_resolved_at",
            "dispute_resolution", "dispute_provider_amount"}

\* The columns of an escrow's row after an update.
LEMMA OverEscrow ==
    ASSUME NEW old \in EscrowRow, NEW d, DOMAIN d \subseteq Columns
    PROVE  Over(d, old) =
             [status |-> IF "status" \in DOMAIN d THEN d["status"] ELSE old.status,
              amount |-> IF "amount" \in DOMAIN d THEN d["amount"] ELSE old.amount,
              released_amount |-> IF "released_amount" \in DOMAIN d THEN d["released_amount"]
                                  ELSE old.released_amount,
              refunded_amount |-> IF "refunded_amount" \in DOMAIN d THEN d["refunded_amount"]
                                  ELSE old.refunded_amount,
              fee_amount |-> IF "fee_amount" \in DOMAIN d THEN d["fee_amount"]
                             ELSE old.fee_amount,
              released_at |-> IF "released_at" \in DOMAIN d THEN d["released_at"]
                              ELSE old.released_at,
              refunded_at |-> IF "refunded_at" \in DOMAIN d THEN d["refunded_at"]
                              ELSE old.refunded_at,
              disputed_at |-> IF "disputed_at" \in DOMAIN d THEN d["disputed_at"]
                              ELSE old.disputed_at,
              dispute_resolved_at |-> IF "dispute_resolved_at" \in DOMAIN d
                                      THEN d["dispute_resolved_at"] ELSE old.dispute_resolved_at,
              dispute_resolution |-> IF "dispute_resolution" \in DOMAIN d
                                     THEN d["dispute_resolution"] ELSE old.dispute_resolution,
              dispute_provider_amount |-> IF "dispute_provider_amount" \in DOMAIN d
                                          THEN d["dispute_provider_amount"]
                                          ELSE old.dispute_provider_amount]
<1>1. DOMAIN old = Columns
  BY DEF EscrowRow, Columns
<1>2. Over(d, old) = [c \in Columns |-> IF c \in DOMAIN d THEN d[c] ELSE old[c]]
  BY <1>1 DEF Over
<1>3. QED
  BY <1>2 DEF Columns

-----------------------------------------------------------------------------
(* The invariant.                                                          *)

\* The row of the escrow after the first n events, written out.
RowAt(s, n) ==
    IF n = 0 THEN NoRow
    ELSE IF n = 1 THEN ApplyToEscrow(NoRow, s[1])
    ELSE IF n = 2 THEN ApplyToEscrow(ApplyToEscrow(NoRow, s[1]), s[2])
    ELSE ApplyToEscrow(ApplyToEscrow(ApplyToEscrow(NoRow, s[1]), s[2]), s[3])

\* What the contract may have said of an escrow so far.
Legal(o, s) ==
    \/ s = <<>>
    \/ s = <<EscrowCreated(o, Amount)>>
    \/ s = <<EscrowCreated(o, Amount), EscrowReleased(o, Amount, FeeBps)>>
    \/ s = <<EscrowCreated(o, Amount), EscrowRefunded(o, Amount)>>
    \/ s = <<EscrowCreated(o, Amount), EscrowDisputed(o)>>
    \/ \E share \in Shares :
          s = <<EscrowCreated(o, Amount), EscrowDisputed(o),
                EscrowSettled(o, Amount, share, FeeBps)>>

Row(o, n) == RowAt(chain[o], n)
Confirmed(o) == Row(o, Len(chain[o]))
Closes(event) == event.name \in {"EscrowReleased", "EscrowRefunded", "EscrowSettled"}

\* An order that fits an escrow of this status.
OrderFits(order, status) ==
    /\ order \in OrderRow
    /\ order.status = "completed" <=> status = "released"
    /\ order.completed_at <=> status = "released"
    /\ order.funded_at <=> status # "absent"
    /\ order.delivered_at => order.funded_at
    /\ order.status \in {"absent", "pending", "expired"} <=> status = "absent"
    /\ order.status \in {"refunded", "disputed"} => status = order.status

\* An escrow's row that mirrors base, apart from decisions and figures.
EscrowFits(row, base) ==
    /\ row \in EscrowRow
    /\ row.status = base.status
    /\ row.fee_amount = base.fee_amount
    /\ row.released_at <=> base.released_at
    /\ row.refunded_at <=> base.refunded_at
    /\ row.disputed_at <=> base.disputed_at
    /\ row.dispute_resolution = "null" <=> ~row.dispute_resolved_at
    /\ row.dispute_resolved_at => row.disputed_at
    /\ base.status = "absent" => row = NoRow

SameFigures(row, base) ==
    InSync(row, base.amount, base.released_amount, base.refunded_amount)

FiguresFit(o, row, n) ==
    o \notin premature => SameFigures(row, Row(o, n)) \/ SameFigures(row, Confirmed(o))

\* The three rows of an order fit its events, in the eyes of somebody.
RowsFit(o, order, row, n) ==
    /\ n \in Nat /\ n <= Len(chain[o])
    /\ OrderFits(order, Row(o, n).status)
    /\ EscrowFits(row, Row(o, n))
    /\ FiguresFit(o, row, n)

Applied(o) == db[IngestedKey(o)].events
Seen(o) == Visible(Worker, IngestedKey(o)).events

Touches(p, k) == k \in DOMAIN txn[p].dirty \cup DOMAIN txn[p].wrote

TxnShape(p) ==
    /\ txn[p] = [phase |-> txn[p].phase, dirty |-> txn[p].dirty, wrote |-> txn[p].wrote]
    /\ txn[p].phase \in {"closed", "loaded", "flushed"}
    /\ txn[p].phase # "loaded" => DOMAIN txn[p].dirty = {}
    /\ txn[p].phase = "closed" => DOMAIN txn[p].wrote = {}
    /\ DOMAIN txn[p].dirty \subseteq Keys /\ DOMAIN txn[p].wrote \subseteq Keys
    /\ p = Worker => ServiceKey \notin DOMAIN txn[p].wrote

Committed ==
    /\ DOMAIN db = Keys
    /\ db[ServiceKey] = [order_count |-> db[ServiceKey].order_count]
    /\ db[ServiceKey].order_count \in Nat
    /\ \A o \in Orders :
          /\ Legal(o, chain[o])
          /\ db[OrderKey(o)].status = "absent" => db[OrderKey(o)] = NoOrder /\ chain[o] = <<>>
          /\ RowsFit(o, db[OrderKey(o)], db[EscrowKey(o)], Applied(o))
          /\ db[IngestedKey(o)] = [events |-> Applied(o)]

\* What a request has loaded and will write of an order.
CreatesOrder(o, d) ==
    /\ DOMAIN d = {"status"} /\ d["status"] = "pending"
    /\ db[OrderKey(o)] = NoOrder

MovesOrder(o, d) ==
    /\ "status" \in DOMAIN d /\ DOMAIN d \subseteq {"status", "delivered_at"}
    /\ d["status"] \in {"in_progress", "delivered"}
    /\ "delivered_at" \in DOMAIN d => d["delivered_at"] = TRUE
    /\ Applied(o) > 0

\* What it will write of an escrow's row: a decision, or figures of the chain.
Decides(d) ==
    /\ DOMAIN d \subseteq DecisionColumns
    /\ "dispute_resolved_at" \in DOMAIN d => d["dispute_resolved_at"] = TRUE
    /\ "dispute_resolution" \in DOMAIN d
          => d["dispute_resolution"] \in {"released_to_provider", "refunded_to_buyer", "split"}
    /\ "dispute_provider_amount" \in DOMAIN d
          => d["dispute_provider_amount"] # {} /\ d["dispute_provider_amount"] \subseteq Nat

Repairs(o, d) ==
    /\ DOMAIN d \subseteq Figures
    /\ \A c \in DOMAIN d : d[c] \in Nat
    /\ o \notin premature =>
          /\ chain[o] # <<>> /\ Closes(chain[o][Len(chain[o])])
          /\ \A c \in Figures :
                Confirmed(o)[c] = IF c \in DOMAIN d THEN d[c] ELSE Row(o, 1)[c]

RequestReady(r) ==
    /\ txn[r].phase = "loaded" => DOMAIN txn[r].wrote = {}
    /\ \A o \in Orders :
          /\ OrderKey(o) \in DOMAIN txn[r].dirty =>
                \/ CreatesOrder(o, txn[r].dirty[OrderKey(o)])
                \/ MovesOrder(o, txn[r].dirty[OrderKey(o)])
          /\ EscrowKey(o) \in DOMAIN txn[r].dirty =>
                /\ Applied(o) > 0
                /\ \/ Decides(txn[r].dirty[EscrowKey(o)])
                   \/ Repairs(o, txn[r].dirty[EscrowKey(o)])
          /\ IngestedKey(o) \notin DOMAIN txn[r].dirty
    /\ ServiceKey \in DOMAIN txn[r].dirty =>
          /\ DOMAIN txn[r].dirty[ServiceKey] \subseteq {"order_count"}
          /\ \A c \in DOMAIN txn[r].dirty[ServiceKey] : txn[r].dirty[ServiceKey][c] \in Nat

\* What it has written fits what is committed.
RequestWrote(r) ==
    /\ \A o \in Orders :
          /\ OrderKey(o) \in DOMAIN txn[r].wrote =>
                /\ OrderFits(txn[r].wrote[OrderKey(o)], Row(o, Applied(o)).status)
                /\ txn[r].wrote[OrderKey(o)].status # "absent"
                /\ Applied(o) = 0 => db[OrderKey(o)] = NoOrder
          /\ EscrowKey(o) \in DOMAIN txn[r].wrote =>
                /\ Applied(o) > 0
                /\ EscrowFits(txn[r].wrote[EscrowKey(o)], Row(o, Applied(o)))
                /\ FiguresFit(o, txn[r].wrote[EscrowKey(o)], Applied(o))
                /\ db[EscrowKey(o)].dispute_resolved_at
                      => txn[r].wrote[EscrowKey(o)].dispute_resolved_at
                /\ db[EscrowKey(o)].dispute_provider_amount # {}
                      => txn[r].wrote[EscrowKey(o)].dispute_provider_amount # {}
                \* figures once brought forward stay so
                /\ o \notin premature =>
                      \/ SameFigures(txn[r].wrote[EscrowKey(o)], db[EscrowKey(o)])
                      \/ SameFigures(txn[r].wrote[EscrowKey(o)], Confirmed(o))
          /\ IngestedKey(o) \notin DOMAIN txn[r].wrote
    /\ ServiceKey \in DOMAIN txn[r].wrote =>
          /\ txn[r].wrote[ServiceKey] = [order_count |-> txn[r].wrote[ServiceKey].order_count]
          /\ txn[r].wrote[ServiceKey].order_count \in Nat

\* What the indexer sees fits the events it has applied.
WorkerSees ==
    \A o \in Orders :
        /\ RowsFit(o, Visible(Worker, OrderKey(o)), Visible(Worker, EscrowKey(o)), Seen(o))
        /\ Applied(o) <= Seen(o)
        /\ Visible(Worker, IngestedKey(o)) = [events |-> Seen(o)]
        /\ IngestedKey(o) \in DOMAIN txn[Worker].wrote
              => {OrderKey(o), EscrowKey(o)} \subseteq DOMAIN txn[Worker].wrote
        /\ OrderKey(o) \in DOMAIN txn[Worker].wrote => Seen(o) > 0
        /\ db[EscrowKey(o)].dispute_provider_amount # {}
              => Visible(Worker, EscrowKey(o)).dispute_provider_amount # {}

\* What it has loaded makes of rows that fit before event m rows that fit after.
MovesOn(o, m) ==
    LET d == txn[Worker].dirty[OrderKey(o)] IN
    /\ DOMAIN d \subseteq {"status", "funded_at", "completed_at"}
    /\ \A w \in OrderRow : OrderFits(w, Row(o, Seen(o)).status)
          => OrderFits(Over(d, w), Row(o, m).status)

Mirrors(o, m) ==
    LET d == txn[Worker].dirty[EscrowKey(o)]
        row == Visible(Worker, EscrowKey(o))
    IN
    /\ DOMAIN d \subseteq DOMAIN NoRow \ {"dispute_provider_amount"}
    /\ \A w \in EscrowRow :
          EscrowFits(w, Row(o, Seen(o))) /\ (row.dispute_resolved_at => w.dispute_resolved_at)
              => EscrowFits(Over(d, w), Row(o, m))
    /\ o \notin premature =>
          IF m = 1 \/ Closes(chain[o][m])
          THEN \A c \in Figures : Row(o, m)[c] = IF c \in DOMAIN d THEN d[c] ELSE row[c]
          ELSE DOMAIN d \cap Figures = {}

Pending(o, m) ==
    /\ DOMAIN txn[Worker].dirty = {OrderKey(o), EscrowKey(o), IngestedKey(o)}
    /\ m \in Nat /\ 1 <= m /\ m <= Len(chain[o])
    /\ m = Seen(o) + 1 \/ (m = Seen(o) /\ chain[o][m].name = "EscrowDisputed")
    /\ MovesOn(o, m)
    /\ Mirrors(o, m)
    /\ LET d == txn[Worker].dirty[IngestedKey(o)] IN
          /\ DOMAIN d = IF m = Seen(o) THEN {} ELSE {"events"}
          /\ \A c \in DOMAIN d : d[c] = m
    /\ m # Seen(o) => /\ DOMAIN txn[Worker].dirty[OrderKey(o)] # {}
                      /\ DOMAIN txn[Worker].dirty[EscrowKey(o)] # {}

LocksApart ==
    \A p, q \in Processes : p # q => DOMAIN txn[p].wrote \cap DOMAIN txn[q].wrote = {}

\* Nobody else writes an order that is being created.
CreatedByOne ==
    \A o \in Orders : db[OrderKey(o)] = NoOrder =>
        \A p, q \in Processes : Touches(p, OrderKey(o)) /\ Touches(q, OrderKey(o)) => p = q

PendingSomewhere ==
    txn[Worker].phase = "loaded" => \E o \in Orders : \E m \in 1 .. 3 : Pending(o, m)

DeskInv ==
    /\ DOMAIN txn = Processes /\ DOMAIN chain = Orders
    /\ \A p \in Processes : TxnShape(p)
    /\ premature \subseteq Orders
    /\ LocksApart /\ CreatedByOne
    /\ Committed
    /\ \A r \in Requests : RequestReady(r) /\ RequestWrote(r)
    /\ WorkerSees
    /\ PendingSomewhere
-----------------------------------------------------------------------------
(* The rows that events make.                                              *)

StageRow(status, released, refunded, fee, releasedAt, refundedAt, disputedAt, resolvedAt,
         resolution) ==
    [status |-> status, amount |-> Amount, released_amount |-> released,
     refunded_amount |-> refunded, fee_amount |-> fee, released_at |-> releasedAt,
     refunded_at |-> refundedAt, disputed_at |-> disputedAt,
     dispute_resolved_at |-> resolvedAt, dispute_resolution |-> resolution,
     dispute_provider_amount |-> {}]

OpenRow == StageRow("funded", 0, 0, 0, FALSE, FALSE, FALSE, FALSE, "null")
PaidRow ==
    StageRow("released", Amount, 0, FeeOf(Amount, FeeBps), TRUE, FALSE, FALSE, FALSE, "null")
ReturnedRow == StageRow("refunded", 0, Amount, 0, FALSE, TRUE, FALSE, FALSE, "null")
ContestedRow == StageRow("disputed", 0, 0, 0, FALSE, FALSE, TRUE, FALSE, "null")
DividedRow(share) ==
    StageRow("released", share, Amount - share, FeeOf(share, FeeBps), TRUE, FALSE, TRUE, TRUE,
             SettlementResolution(share, Amount - share))

LEMMA FeeWithin ==
    ASSUME DeskAssumption, NEW value \in Nat
    PROVE  FeeOf(value, FeeBps) \in 0 .. value
<1>. DEFINE product == value * FeeBps
<1>1. product \in Nat /\ product <= value * BpsDenominator
  BY DeskConstants
<1>2. BpsDenominator \in Nat \ {0}
  BY DeskConstants
<1>3. product \div BpsDenominator \in 0 .. value
  <2>. HIDE DEF product
  <2>1. ASSUME NEW p \in Nat, p <= value * BpsDenominator
        PROVE  p \div BpsDenominator \in 0 .. value
    BY <1>2, <2>1
  <2>2. QED
    BY <1>1, <2>1
<1>4. QED
  BY <1>3 DEF FeeOf

LEMMA ResolutionNames ==
    ASSUME NEW gross \in Nat, NEW toBuyer \in Nat
    PROVE  SettlementResolution(gross, toBuyer)
             \in {"released_to_provider", "refunded_to_buyer", "split"}
BY DEF SettlementResolution

LEMMA OpenApplied ==
    ASSUME NEW o
    PROVE  ApplyToEscrow(NoRow, EscrowCreated(o, Amount)) = OpenRow
BY DEF ApplyToEscrow, ApplyCreated, EscrowCreated, NoRow, OpenRow, StageRow

LEMMA PaidApplied ==
    ASSUME DeskAssumption, NEW o
    PROVE  ApplyToEscrow(OpenRow, EscrowReleased(o, Amount, FeeBps)) = PaidRow
<1>1. Amount \in Nat \ {0} /\ FeeOf(Amount, FeeBps) \in 0 .. Amount
  BY DeskConstants, FeeWithin
<1>2. (Amount - FeeOf(Amount, FeeBps)) + FeeOf(Amount, FeeBps) = Amount
  BY <1>1
<1>. DEFINE e == EscrowReleased(o, Amount, FeeBps)
<1>3. /\ e.name = "EscrowReleased" /\ e.providerAmount + e.feeAmount = Amount
      /\ e.feeAmount = FeeOf(Amount, FeeBps)
  BY <1>2 DEF EscrowReleased
<1>4. OpenRow.status = "funded"
  BY DEF OpenRow, StageRow
<1>5. ApplyToEscrow(OpenRow, e) = ApplyReleased(OpenRow, e)
  BY <1>3, <1>4 DEF ApplyToEscrow
<1>6. ApplyReleased(OpenRow, e) = PaidRow
  <2>. HIDE DEF e
  <2>1. ApplyReleased(OpenRow, e)
          = [OpenRow EXCEPT !.status = "released", !.amount = Amount,
                            !.released_amount = Amount,
                            !.fee_amount = FeeOf(Amount, FeeBps), !.released_at = TRUE]
    BY <1>1, <1>3 DEF ApplyReleased
  <2>2. QED
    BY <2>1 DEF PaidRow, OpenRow, StageRow
<1>7. QED
  BY <1>5, <1>6

LEMMA ReturnedApplied ==
    ASSUME DeskAssumption, NEW o
    PROVE  ApplyToEscrow(OpenRow, EscrowRefunded(o, Amount)) = ReturnedRow
<1>1. Amount # 0
  BY DeskConstants
<1>2. QED
  BY <1>1
     DEF ApplyToEscrow, ApplyRefunded, EscrowRefunded, OpenRow, ReturnedRow, StageRow

LEMMA ContestedApplied ==
    ASSUME NEW o PROVE ApplyToEscrow(OpenRow, EscrowDisputed(o)) = ContestedRow
BY DEF ApplyToEscrow, ApplyDisputed, EscrowDisputed, OpenRow, ContestedRow, StageRow

LEMMA DividedApplied ==
    ASSUME DeskAssumption, NEW o, NEW share \in Shares
    PROVE  ApplyToEscrow(ContestedRow, EscrowSettled(o, Amount, share, FeeBps)) = DividedRow(share)
<1>1. share \in 0 .. Amount /\ share \in Nat /\ FeeOf(share, FeeBps) \in 0 .. share
  BY DeskConstants, FeeWithin
<1>2. (share - FeeOf(share, FeeBps)) + FeeOf(share, FeeBps) = share
  BY <1>1
<1>. DEFINE e == EscrowSettled(o, Amount, share, FeeBps)
<1>3. /\ e.name = "EscrowSettled" /\ SettledGross(e) = share /\ e.buyerAmount = Amount - share
      /\ e.feeAmount = FeeOf(share, FeeBps)
  BY <1>2 DEF EscrowSettled, SettledGross
<1>4. ContestedRow.status = "disputed"
  BY DEF ContestedRow, StageRow
<1>5. ApplyToEscrow(ContestedRow, e) = ApplySettled(ContestedRow, e)
  BY <1>3, <1>4 DEF ApplyToEscrow
<1>6. ApplySettled(ContestedRow, e) = DividedRow(share)
  <2>. HIDE DEF e
  <2>1. ApplySettled(ContestedRow, e)
          = [ContestedRow EXCEPT
               !.status = "released", !.released_amount = share,
               !.refunded_amount = Amount - share, !.fee_amount = FeeOf(share, FeeBps),
               !.released_at = TRUE, !.dispute_resolved_at = TRUE,
               !.dispute_resolution = SettlementResolution(share, Amount - share)]
    BY <1>3 DEF ApplySettled
  <2>2. QED
    BY <2>1 DEF ContestedRow, DividedRow, StageRow
<1>7. QED
  BY <1>5, <1>6

LEMMA LegalSequence ==
    ASSUME NEW o, NEW s, Legal(o, s)
    PROVE  /\ s \in Seq(EventsOf(o, Amount, FeeBps, Shares))
           /\ Len(s) \in Nat /\ Len(s) <= 3
<1>. DEFINE S == EventsOf(o, Amount, FeeBps, Shares)
<1>1. /\ EscrowCreated(o, Amount) \in S /\ EscrowReleased(o, Amount, FeeBps) \in S
      /\ EscrowRefunded(o, Amount) \in S /\ EscrowDisputed(o) \in S
      /\ \A share \in Shares : EscrowSettled(o, Amount, share, FeeBps) \in S
  BY DEF EventsOf
<1>. HIDE DEF S
<1>2. /\ <<>> \in Seq(S) /\ Len(<<>>) = 0
  OBVIOUS
<1>3. ASSUME NEW a \in S PROVE <<a>> \in Seq(S) /\ Len(<<a>>) = 1
  OBVIOUS
<1>4. ASSUME NEW a \in S, NEW b \in S PROVE <<a, b>> \in Seq(S) /\ Len(<<a, b>>) = 2
  OBVIOUS
<1>5. ASSUME NEW a \in S, NEW b \in S, NEW c \in S
      PROVE  <<a, b, c>> \in Seq(S) /\ Len(<<a, b, c>>) = 3
  OBVIOUS
<1>6. s \in Seq(S) /\ Len(s) \in Nat /\ Len(s) <= 3
  <2>1. CASE s = <<>>
    BY <1>2, <2>1
  <2>2. CASE s = <<EscrowCreated(o, Amount)>>
    BY <1>1, <1>3, <2>2
  <2>3. ASSUME NEW b \in S, s = <<EscrowCreated(o, Amount), b>>
        PROVE  s \in Seq(S) /\ Len(s) \in Nat /\ Len(s) <= 3
    BY <1>1, <1>4, <2>3
  <2>4. ASSUME NEW share \in Shares,
               s = <<EscrowCreated(o, Amount), EscrowDisputed(o),
                     EscrowSettled(o, Amount, share, FeeBps)>>
        PROVE  s \in Seq(S) /\ Len(s) \in Nat /\ Len(s) <= 3
    BY <1>1, <1>5, <2>4
  <2>5. QED
    BY <1>1, <2>1, <2>2, <2>3, <2>4 DEF Legal
<1>7. QED
  BY <1>6 DEF S

Made(o, s) ==
    /\ RowAt(s, 0) = NoRow
    /\ Len(s) >= 1 => s[1] = EscrowCreated(o, Amount) /\ RowAt(s, 1) = OpenRow
    /\ Len(s) >= 2 =>
          \/ Len(s) = 2 /\ s[2] = EscrowReleased(o, Amount, FeeBps) /\ RowAt(s, 2) = PaidRow
          \/ Len(s) = 2 /\ s[2] = EscrowRefunded(o, Amount) /\ RowAt(s, 2) = ReturnedRow
          \/ s[2] = EscrowDisputed(o) /\ RowAt(s, 2) = ContestedRow
    /\ Len(s) >= 3 =>
          /\ Len(s) = 3 /\ s[2] = EscrowDisputed(o)
          /\ \E share \in Shares :
                s[3] = EscrowSettled(o, Amount, share, FeeBps) /\ RowAt(s, 3) = DividedRow(share)

LEMMA RowsMade == ASSUME DeskAssumption, NEW o, NEW s, Legal(o, s) PROVE Made(o, s)
<1>1. RowAt(s, 0) = NoRow
  BY DEF RowAt
<1>2. Len(s) \in Nat
  BY LegalSequence
<1>3. ASSUME s[1] = EscrowCreated(o, Amount) PROVE RowAt(s, 1) = OpenRow
  BY <1>3, OpenApplied DEF RowAt
<1>4. ASSUME s[1] = EscrowCreated(o, Amount)
      PROVE  RowAt(s, 2) = ApplyToEscrow(OpenRow, s[2])
  BY <1>4, OpenApplied DEF RowAt
<1>5. ASSUME s[1] = EscrowCreated(o, Amount), s[2] = EscrowDisputed(o)
      PROVE  RowAt(s, 3) = ApplyToEscrow(ContestedRow, s[3])
  BY <1>5, OpenApplied, ContestedApplied DEF RowAt
<1>6. CASE s = <<>>
  BY <1>1, <1>6 DEF Made
<1>7. CASE s = <<EscrowCreated(o, Amount)>>
  <2>1. Len(s) = 1 /\ s[1] = EscrowCreated(o, Amount)
    BY <1>7
  <2>2. QED
    BY <1>1, <1>3, <2>1 DEF Made
<1>8. CASE s = <<EscrowCreated(o, Amount), EscrowReleased(o, Amount, FeeBps)>>
  <2>1. Len(s) = 2 /\ s[1] = EscrowCreated(o, Amount) /\ s[2] = EscrowReleased(o, Amount, FeeBps)
    BY <1>8
  <2>2. QED
    BY <1>1, <1>3, <1>4, <2>1, PaidApplied DEF Made
<1>9. CASE s = <<EscrowCreated(o, Amount), EscrowRefunded(o, Amount)>>
  <2>1. Len(s) = 2 /\ s[1] = EscrowCreated(o, Amount) /\ s[2] = EscrowRefunded(o, Amount)
    BY <1>9
  <2>2. QED
    BY <1>1, <1>3, <1>4, <2>1, ReturnedApplied DEF Made
<1>10. CASE s = <<EscrowCreated(o, Amount), EscrowDisputed(o)>>
  <2>1. Len(s) = 2 /\ s[1] = EscrowCreated(o, Amount) /\ s[2] = EscrowDisputed(o)
    BY <1>10
  <2>2. QED
    BY <1>1, <1>3, <1>4, <2>1, ContestedApplied DEF Made
<1>11. ASSUME NEW share \in Shares,
              s = <<EscrowCreated(o, Amount), EscrowDisputed(o),
                    EscrowSettled(o, Amount, share, FeeBps)>>
       PROVE  Made(o, s)
  <2>1. /\ Len(s) = 3 /\ s[1] = EscrowCreated(o, Amount) /\ s[2] = EscrowDisputed(o)
        /\ s[3] = EscrowSettled(o, Amount, share, FeeBps)
    BY <1>11
  <2>2. QED
    BY <1>1, <1>3, <1>4, <1>5, <2>1, ContestedApplied, DividedApplied DEF Made
<1>12. QED
  BY <1>6, <1>7, <1>8, <1>9, <1>10, <1>11 DEF Legal

LEMMA ProjectedIsRowAt ==
    ASSUME NEW S, NEW s \in Seq(S), Len(s) \in Nat, Len(s) <= 3
    PROVE  Projected(s) = RowAt(s, Len(s))
<1>. DEFINE n == Len(s)
            body(g) == [i \in 0 .. n |->
                          IF i = 0 THEN NoRow ELSE ApplyToEscrow(g[i - 1], s[i])]
            row == CHOOSE g : g = body(g)
            known == [i \in 0 .. n |-> RowAt(s, i)]
<1>0. n \in Nat /\ n <= 3
  OBVIOUS
<1>3. Projected(s) = row[n]
  BY DEF Projected
<1>. HIDE DEF n
<1>1. known = body(known)
  <2>1. ASSUME NEW i \in 0 .. n
        PROVE  RowAt(s, i) = IF i = 0 THEN NoRow ELSE ApplyToEscrow(known[i - 1], s[i])
    <3>1. i = 0 \/ i = 1 \/ i = 2 \/ i = 3
      BY <1>0
    <3>2. i # 0 => known[i - 1] = RowAt(s, i - 1)
      BY <1>0
    <3>3. QED
      BY <3>1, <3>2 DEF RowAt
  <2>2. QED
    BY <2>1
<1>2. row = body(row)
  BY <1>1
<1>. HIDE DEF row
<1>4. /\ row[0] = NoRow
      /\ \A i \in 1 .. n : row[i] = ApplyToEscrow(row[i - 1], s[i])
  <2>1. \A i \in 0 .. n : row[i] = IF i = 0 THEN NoRow ELSE ApplyToEscrow(row[i - 1], s[i])
    BY <1>2
  <2>2. QED
    BY <1>0, <2>1
<1>5. n >= 1 => row[1] = ApplyToEscrow(NoRow, s[1])
  BY <1>0, <1>4
<1>6. n >= 2 => row[2] = ApplyToEscrow(row[1], s[2])
  BY <1>0, <1>4
<1>7. n >= 3 => row[3] = ApplyToEscrow(row[2], s[3])
  BY <1>0, <1>4
<1>8. n = 0 \/ n = 1 \/ n = 2 \/ n = 3
  BY <1>0
<1>9. row[n] = RowAt(s, n)
  BY <1>4, <1>5, <1>6, <1>7, <1>8 DEF RowAt
<1>10. QED
  BY <1>3, <1>9 DEF n

\* The first n events make the row at n.
LEMMA ProjectionIsRow ==
    ASSUME NEW o, Legal(o, chain[o]), NEW n \in Nat, n <= Len(chain[o])
    PROVE  Projection(o, n) = Row(o, n) /\ Projected(chain[o]) = Confirmed(o)
<1>. DEFINE S == EventsOf(o, Amount, FeeBps, Shares)
            s == chain[o]
            t == SubSeq(s, 1, n)
<1>1. s \in Seq(S) /\ Len(s) \in Nat /\ Len(s) <= 3
  BY LegalSequence
<1>. HIDE DEF S, s
<1>2. n \in Nat /\ n <= Len(s) /\ n <= 3
  BY <1>1 DEF s
<1>3. t \in Seq(S) /\ Len(t) = n /\ \A i \in 1 .. n : t[i] = s[i]
  BY <1>1, <1>2
<1>. HIDE DEF t
<1>4. Projected(t) = RowAt(t, n) /\ Projected(s) = RowAt(s, Len(s))
  BY <1>1, <1>2, <1>3, ProjectedIsRowAt
<1>5. RowAt(t, n) = RowAt(s, n)
  <2>1. n = 0 \/ n = 1 \/ n = 2 \/ n = 3
    BY <1>2
  <2>2. QED
    BY <1>3, <2>1 DEF RowAt
<1>6. QED
  BY <1>4, <1>5 DEF t, s, Projection, Row, Confirmed

\* What is common to the rows that events make.
SoundRow(b) ==
    /\ b \in EscrowRow
    /\ b.status # "absent"
    /\ b.released_at <=> b.status = "released"
    /\ b.amount = Amount /\ b.fee_amount <= Amount
    /\ b.released_amount + b.refunded_amount <= Amount
    /\ ~(b.status \in {"released", "refunded"}) =>
          b.released_amount = 0 /\ b.refunded_amount = 0

LEMMA RowsSound ==
    ASSUME DeskAssumption
    PROVE  /\ SoundRow(OpenRow) /\ OpenRow.status = "funded"
           /\ SoundRow(PaidRow) /\ PaidRow.status = "released"
           /\ SoundRow(ReturnedRow) /\ ReturnedRow.status = "refunded"
           /\ SoundRow(ContestedRow) /\ ContestedRow.status = "disputed"
           /\ \A share \in Shares : SoundRow(DividedRow(share)) /\ DividedRow(share).status = "released"
<1>1. /\ Amount \in Nat \ {0} /\ Amount + 0 = Amount /\ 0 + Amount = Amount
      /\ FeeOf(Amount, FeeBps) \in Nat /\ FeeOf(Amount, FeeBps) <= Amount
  BY DeskConstants, FeeWithin
<1>2. SoundRow(OpenRow) /\ OpenRow.status = "funded"
  BY <1>1 DEF OpenRow, StageRow, EscrowRow, SoundRow
<1>3. SoundRow(PaidRow) /\ PaidRow.status = "released"
  BY <1>1 DEF PaidRow, StageRow, EscrowRow, SoundRow
<1>4. SoundRow(ReturnedRow) /\ ReturnedRow.status = "refunded"
  BY <1>1 DEF ReturnedRow, StageRow, EscrowRow, SoundRow
<1>5. SoundRow(ContestedRow) /\ ContestedRow.status = "disputed"
  BY <1>1 DEF ContestedRow, StageRow, EscrowRow, SoundRow
<1>6. ASSUME NEW share \in Shares
      PROVE  SoundRow(DividedRow(share)) /\ DividedRow(share).status = "released"
  <2>1. /\ share \in Nat /\ share <= Amount /\ Amount - share \in Nat
        /\ FeeOf(share, FeeBps) \in Nat /\ FeeOf(share, FeeBps) <= Amount
        /\ share + (Amount - share) = Amount
    BY <1>1, DeskConstants, FeeWithin
  <2>2. SettlementResolution(share, Amount - share)
           \in {"null", "released_to_provider", "refunded_to_buyer", "split"}
    BY <2>1, ResolutionNames
  <2>3. QED
    BY <1>1, <2>1, <2>2 DEF DividedRow, StageRow, EscrowRow, SoundRow
<1>7. QED
  BY <1>2, <1>3, <1>4, <1>5, <1>6

LEMMA NoRowFields ==
    /\ NoRow \in EscrowRow /\ NoRow.status = "absent" /\ NoRow.amount = 0
    /\ NoRow.released_amount = 0 /\ NoRow.refunded_amount = 0 /\ NoRow.fee_amount = 0
    /\ NoRow.released_at = FALSE /\ NoRow.refunded_at = FALSE /\ NoRow.disputed_at = FALSE
    /\ NoRow.dispute_resolved_at = FALSE /\ NoRow.dispute_resolution = "null"
    /\ NoRow.dispute_provider_amount = {}
BY DEF NoRow, EscrowRow

LEMMA RowFacts ==
    ASSUME DeskAssumption, NEW o, NEW s, Legal(o, s), NEW n \in Nat, n <= Len(s)
    PROVE  /\ RowAt(s, 0) = NoRow
           /\ n > 0 => SoundRow(RowAt(s, n))
           /\ RowAt(s, n).status \in {"released", "refunded"} => n = Len(s)
           /\ n > 0 => (Closes(s[n]) <=> RowAt(s, n).status \in {"released", "refunded"})
<1>. DEFINE b == RowAt(s, n)
<1>1. Made(o, s) /\ Len(s) \in Nat /\ Len(s) <= 3
  BY RowsMade, LegalSequence
<1>2. CASE n = 0
  BY <1>1, <1>2, NoRowFields DEF Made
<1>3. CASE n = 1
  <2>1. b = OpenRow /\ s[n].name = "EscrowCreated"
    BY <1>1, <1>3 DEF Made, EscrowCreated
  <2>2. QED
    BY <1>1, <1>3, <2>1, RowsSound DEF Made, Closes
<1>4. CASE n = 2
  <2>1. \/ b = PaidRow /\ s[n].name = "EscrowReleased" /\ n = Len(s)
        \/ b = ReturnedRow /\ s[n].name = "EscrowRefunded" /\ n = Len(s)
        \/ b = ContestedRow /\ s[n].name = "EscrowDisputed"
    BY <1>1, <1>4 DEF Made, EscrowReleased, EscrowRefunded, EscrowDisputed
  <2>2. QED
    BY <1>1, <1>4, <2>1, RowsSound DEF Made, Closes
<1>5. CASE n = 3
  <2>1. PICK share \in Shares :
            b = DividedRow(share) /\ s[n].name = "EscrowSettled" /\ n = Len(s)
    BY <1>1, <1>5 DEF Made, EscrowSettled
  <2>2. QED
    BY <1>1, <1>5, <2>1, RowsSound DEF Made, Closes
<1>6. QED
  BY <1>1, <1>2, <1>3, <1>4, <1>5

-----------------------------------------------------------------------------
(* What an event does to rows that fit, written over what was loaded.      *)

LEMMA OverChanged ==
    ASSUME NEW x, NEW new, NEW w, DOMAIN new = DOMAIN w
    PROVE  Over(Changed(x, new), w)
             = [c \in DOMAIN w |-> IF new[c] # x[c] THEN new[c] ELSE w[c]]
<1>. DEFINE d == Changed(x, new)
<1>1. DOMAIN d = {c \in DOMAIN new : new[c] # x[c]} /\ \A c \in DOMAIN d : d[c] = new[c]
  BY DEF Changed
<1>. HIDE DEF d
<1>2. Over(d, w) = [c \in DOMAIN d \cup DOMAIN w |-> IF c \in DOMAIN d THEN d[c] ELSE w[c]]
  BY DEF Over
<1>3. DOMAIN d \cup DOMAIN w = DOMAIN w
  BY <1>1
<1>4. \A c \in DOMAIN w : (IF c \in DOMAIN d THEN d[c] ELSE w[c])
                           = (IF new[c] # x[c] THEN new[c] ELSE w[c])
  BY <1>1
<1>5. QED
  BY <1>2, <1>3, <1>4 DEF d

LEMMA MergedOrder ==
    ASSUME NEW x \in OrderRow, NEW new \in OrderRow, NEW w \in OrderRow
    PROVE  Over(Changed(x, new), w) =
             [status |-> IF new.status # x.status THEN new.status ELSE w.status,
              funded_at |-> IF new.funded_at # x.funded_at THEN new.funded_at ELSE w.funded_at,
              delivered_at |-> IF new.delivered_at # x.delivered_at THEN new.delivered_at
                               ELSE w.delivered_at,
              completed_at |-> IF new.completed_at # x.completed_at THEN new.completed_at
                               ELSE w.completed_at]
<1>1. /\ DOMAIN w = {"status", "funded_at", "delivered_at", "completed_at"}
      /\ DOMAIN new = {"status", "funded_at", "delivered_at", "completed_at"}
  BY DEF OrderRow
<1>2. Over(Changed(x, new), w) = [c \in {"status", "funded_at", "delivered_at", "completed_at"} |->
                                    IF new[c] # x[c] THEN new[c] ELSE w[c]]
  BY <1>1, OverChanged
<1>3. QED
  BY <1>2

\* The event, the status of the escrow before it, and after.
Moves(name, before, after) ==
    \/ name = "EscrowCreated" /\ before = "absent" /\ after = "funded"
    \/ name = "EscrowReleased" /\ before = "funded" /\ after = "released"
    \/ name = "EscrowRefunded" /\ before = "funded" /\ after = "refunded"
    \/ name = "EscrowDisputed" /\ before \in {"funded", "disputed"} /\ after = "disputed"
    \/ name = "EscrowSettled" /\ before = "disputed" /\ after = "released"

LEMMA OrderMoved ==
    ASSUME NEW x, NEW w, NEW event, NEW before, NEW after,
           Moves(event.name, before, after),
           OrderFits(x, before), OrderFits(w, before)
    PROVE  /\ OrderFits(Over(Changed(x, ApplyToOrder(x, event)), w), after)
           /\ ApplyToOrder(x, event) \in OrderRow
           /\ ApplyToOrder(x, event).delivered_at = x.delivered_at
           /\ before # after => ApplyToOrder(x, event).status # x.status
<1>. DEFINE new == ApplyToOrder(x, event)
            r == Over(Changed(x, new), w)
<1>1. x \in OrderRow /\ w \in OrderRow
  BY DEF OrderFits
<1>2. /\ new \in OrderRow /\ new.status = OrderStatusFor(event.name)
      /\ new.delivered_at = x.delivered_at
      /\ new.funded_at = (x.funded_at \/ event.name = "EscrowCreated")
      /\ new.completed_at = (x.completed_at \/ OrderStatusFor(event.name) = "completed")
  BY <1>1 DEF ApplyToOrder, OrderRow, OrderStatuses, OrderStatusFor, Moves
<1>. HIDE DEF new
<1>7. r = [status |-> IF new.status # x.status THEN new.status ELSE w.status,
           funded_at |-> IF new.funded_at # x.funded_at THEN new.funded_at ELSE w.funded_at,
           delivered_at |-> IF new.delivered_at # x.delivered_at THEN new.delivered_at
                            ELSE w.delivered_at,
           completed_at |-> IF new.completed_at # x.completed_at THEN new.completed_at
                            ELSE w.completed_at]
  BY <1>1, <1>2, MergedOrder
<1>. HIDE DEF r
<1>3. /\ r.status = (IF new.status # x.status THEN new.status ELSE w.status)
      /\ r.funded_at = (IF new.funded_at # x.funded_at THEN new.funded_at ELSE w.funded_at)
      /\ r.delivered_at = w.delivered_at
      /\ r.completed_at = (IF new.completed_at # x.completed_at THEN new.completed_at
                           ELSE w.completed_at)
      /\ r \in OrderRow
  BY <1>1, <1>2, <1>7 DEF OrderRow
<1>4. OrderFits(r, after)
  BY <1>1, <1>2, <1>3 DEF OrderFits, Moves, OrderStatusFor, OrderRow
<1>5. before # after => new.status # x.status
  BY <1>2 DEF OrderFits, Moves, OrderStatusFor
<1>6. QED
  BY <1>2, <1>4, <1>5 DEF r, new

\* The event, the row it is applied to, and the row that makes.
Steps(o, event, before, after) ==
    \/ event = EscrowCreated(o, Amount) /\ before = NoRow /\ after = OpenRow
    \/ event = EscrowReleased(o, Amount, FeeBps) /\ before = OpenRow /\ after = PaidRow
    \/ event = EscrowRefunded(o, Amount) /\ before = OpenRow /\ after = ReturnedRow
    \/ event = EscrowDisputed(o) /\ before \in {OpenRow, ContestedRow} /\ after = ContestedRow
    \/ \E share \in Shares : /\ event = EscrowSettled(o, Amount, share, FeeBps)
                             /\ before = ContestedRow /\ after = DividedRow(share)

LEMMA RowSteps ==
    ASSUME DeskAssumption, NEW o, NEW s, Legal(o, s), NEW n \in Nat
    PROVE  /\ n + 1 <= Len(s) => Steps(o, s[n + 1], RowAt(s, n), RowAt(s, n + 1))
           /\ n > 0 /\ n <= Len(s) /\ ~HasTxType(s[n].name) =>
                 Steps(o, s[n], RowAt(s, n), RowAt(s, n)) /\ RowAt(s, n) = ContestedRow
<1>1. Made(o, s) /\ Len(s) \in Nat /\ Len(s) <= 3
  BY RowsMade, LegalSequence
<1>2. ASSUME n + 1 <= Len(s) PROVE Steps(o, s[n + 1], RowAt(s, n), RowAt(s, n + 1))
  <2>1. n = 0 \/ n = 1 \/ n = 2
    BY <1>1, <1>2
  <2>2. CASE n = 0
    BY <1>1, <1>2, <2>2 DEF Made, Steps
  <2>3. CASE n = 1
    BY <1>1, <1>2, <2>3 DEF Made, Steps
  <2>4. CASE n = 2
    <3>1. Len(s) = 3 /\ s[2] = EscrowDisputed(o)
      BY <1>1, <1>2, <2>4 DEF Made
    <3>2. RowAt(s, 2) = ContestedRow
      BY <1>1, <3>1 DEF Made
    <3>3. QED
      BY <1>1, <2>4, <3>1, <3>2 DEF Made, Steps
  <2>5. QED
    BY <2>1, <2>2, <2>3, <2>4
<1>3. ASSUME n > 0, n <= Len(s), ~HasTxType(s[n].name)
      PROVE  Steps(o, s[n], RowAt(s, n), RowAt(s, n)) /\ RowAt(s, n) = ContestedRow
  <2>1. n = 1 \/ n = 2 \/ n = 3
    BY <1>1, <1>3
  <2>2. s[n].name = "EscrowDisputed"
    BY <1>3 DEF HasTxType
  <2>3. n # 1
    BY <1>1, <1>3, <2>2 DEF Made, EscrowCreated
  <2>4. ASSUME n = 3 PROVE FALSE
    <3>1. PICK share \in Shares : s[3] = EscrowSettled(o, Amount, share, FeeBps)
      BY <1>1, <1>3, <2>4 DEF Made
    <3>2. s[3].name = "EscrowSettled"
      BY <3>1 DEF EscrowSettled
    <3>3. QED
      BY <2>2, <2>4, <3>2
  <2>5. n = 2
    BY <2>1, <2>3, <2>4
  <2>6. s[2] = EscrowDisputed(o) /\ RowAt(s, 2) = ContestedRow
    BY <1>1, <1>3, <2>2, <2>5 DEF Made, EscrowReleased, EscrowRefunded
  <2>7. QED
    BY <2>5, <2>6 DEF Steps
<1>4. QED
  BY <1>2, <1>3

LEMMA StepsMove ==
    ASSUME DeskAssumption, NEW o, NEW event, NEW before, NEW after,
           Steps(o, event, before, after)
    PROVE  /\ Moves(event.name, before.status, after.status)
           /\ before = after <=> before.status = after.status
           /\ event.name = "EscrowCreated" <=> before = NoRow
BY RowsSound, NoRowFields
   DEF Steps, Moves, EscrowCreated, EscrowReleased, EscrowRefunded, EscrowDisputed, EscrowSettled

\* r is w with the columns of new that differ from x's.
Merged(x, new, w, r) ==
    /\ r \in EscrowRow
    /\ r.status = IF new.status # x.status THEN new.status ELSE w.status
    /\ r.amount = IF new.amount # x.amount THEN new.amount ELSE w.amount
    /\ r.released_amount = IF new.released_amount # x.released_amount
                           THEN new.released_amount ELSE w.released_amount
    /\ r.refunded_amount = IF new.refunded_amount # x.refunded_amount
                           THEN new.refunded_amount ELSE w.refunded_amount
    /\ r.fee_amount = IF new.fee_amount # x.fee_amount
                      THEN new.fee_amount ELSE w.fee_amount
    /\ r.released_at = IF new.released_at # x.released_at
                       THEN new.released_at ELSE w.released_at
    /\ r.refunded_at = IF new.refunded_at # x.refunded_at
                       THEN new.refunded_at ELSE w.refunded_at
    /\ r.disputed_at = IF new.disputed_at # x.disputed_at
                       THEN new.disputed_at ELSE w.disputed_at
    /\ r.dispute_resolved_at = IF new.dispute_resolved_at # x.dispute_resolved_at
                               THEN new.dispute_resolved_at ELSE w.dispute_resolved_at
    /\ r.dispute_resolution = IF new.dispute_resolution # x.dispute_resolution
                              THEN new.dispute_resolution ELSE w.dispute_resolution
    /\ r.dispute_provider_amount =
          IF new.dispute_provider_amount # x.dispute_provider_amount
          THEN new.dispute_provider_amount ELSE w.dispute_provider_amount

LEMMA MergedEscrow ==
    ASSUME NEW x \in EscrowRow, NEW new \in EscrowRow, NEW w \in EscrowRow,
           NEW r, r = Over(Changed(x, new), w)
    PROVE  Merged(x, new, w, r)
<1>1. DOMAIN w = Columns /\ DOMAIN new = Columns
  BY DEF EscrowRow, Columns
<1>2. r = [c \in Columns |-> IF new[c] # x[c] THEN new[c] ELSE w[c]]
  BY <1>1, OverChanged
<1>3. r = [status |-> IF new.status # x.status THEN new.status ELSE w.status,
           amount |-> IF new.amount # x.amount THEN new.amount ELSE w.amount,
           released_amount |-> IF new.released_amount # x.released_amount
                               THEN new.released_amount ELSE w.released_amount,
           refunded_amount |-> IF new.refunded_amount # x.refunded_amount
                               THEN new.refunded_amount ELSE w.refunded_amount,
           fee_amount |-> IF new.fee_amount # x.fee_amount
                          THEN new.fee_amount ELSE w.fee_amount,
           released_at |-> IF new.released_at # x.released_at
                           THEN new.released_at ELSE w.released_at,
           refunded_at |-> IF new.refunded_at # x.refunded_at
                           THEN new.refunded_at ELSE w.refunded_at,
           disputed_at |-> IF new.disputed_at # x.disputed_at
                           THEN new.disputed_at ELSE w.disputed_at,
           dispute_resolved_at |-> IF new.dispute_resolved_at # x.dispute_resolved_at
                                   THEN new.dispute_resolved_at ELSE w.dispute_resolved_at,
           dispute_resolution |-> IF new.dispute_resolution # x.dispute_resolution
                                  THEN new.dispute_resolution ELSE w.dispute_resolution,
           dispute_provider_amount |->
              IF new.dispute_provider_amount # x.dispute_provider_amount
              THEN new.dispute_provider_amount ELSE w.dispute_provider_amount]
  BY <1>2 DEF Columns
<1>4. r \in EscrowRow
  BY <1>3 DEF EscrowRow
<1>5. QED
  BY <1>3, <1>4 DEF Merged

\* What an event leaves of a row.
Written(x, event, after, new) ==
    /\ new \in EscrowRow
    /\ new.status = after.status /\ new.fee_amount = after.fee_amount
    /\ new.released_at = after.released_at /\ new.refunded_at = after.refunded_at
    /\ new.disputed_at = after.disputed_at
    /\ new.dispute_provider_amount = x.dispute_provider_amount
    /\ IF event.name = "EscrowSettled"
       THEN new.dispute_resolved_at = TRUE /\ new.dispute_resolution # "null"
       ELSE /\ new.dispute_resolved_at = x.dispute_resolved_at
            /\ new.dispute_resolution = x.dispute_resolution
    /\ new.amount = IF event.name \in {"EscrowDisputed", "EscrowSettled"}
                    THEN x.amount ELSE after.amount
    /\ new.released_amount = IF event.name \in {"EscrowDisputed", "EscrowRefunded"}
                             THEN x.released_amount ELSE after.released_amount
    /\ new.refunded_amount = IF event.name \in {"EscrowDisputed", "EscrowReleased"}
                             THEN x.refunded_amount ELSE after.refunded_amount

LEMMA RowWritten ==
    ASSUME DeskAssumption, NEW o, NEW event, NEW before, NEW after,
           Steps(o, event, before, after),
           NEW x, EscrowFits(x, before), x.amount \in Nat,
           NEW new, new = ApplyToEscrow(x, event)
    PROVE  Written(x, event, after, new)
<1>1. x \in EscrowRow /\ x.status = before.status
  BY DEF EscrowFits
<1>2. CASE event = EscrowCreated(o, Amount) /\ before = NoRow /\ after = OpenRow
  <2>1. x = NoRow /\ event.name = "EscrowCreated"
    BY <1>2, NoRowFields DEF EscrowFits, EscrowCreated
  <2>2. new = OpenRow
    BY <1>2, <2>1, OpenApplied
  <2>3. OpenRow \in EscrowRow /\ OpenRow.dispute_provider_amount = {}
        /\ OpenRow.dispute_resolved_at = FALSE /\ OpenRow.dispute_resolution = "null"
    BY RowsSound DEF SoundRow, OpenRow, StageRow
  <2>4. QED
    BY <1>2, <2>1, <2>2, <2>3, NoRowFields DEF Written
<1>3. CASE event = EscrowReleased(o, Amount, FeeBps) /\ before = OpenRow /\ after = PaidRow
  <2>. DEFINE f == FeeOf(Amount, FeeBps)
  <2>1. Amount \in Nat \ {0} /\ f \in 0 .. Amount /\ f \in Nat /\ (Amount - f) + f = Amount
    BY DeskConstants, FeeWithin
  <2>2. /\ event.name = "EscrowReleased" /\ event.providerAmount + event.feeAmount = Amount
        /\ event.feeAmount = f
    BY <1>3, <2>1 DEF EscrowReleased
  <2>3. x.status = "funded"
    BY <1>1, <1>3, RowsSound
  <2>. HIDE DEF f
  <2>4. new = [x EXCEPT !.status = "released", !.amount = Amount, !.released_amount = Amount,
                        !.fee_amount = f, !.released_at = TRUE]
    BY <2>1, <2>2, <2>3 DEF ApplyToEscrow, ApplyReleased
  <2>5. /\ after.status = "released" /\ after.fee_amount = f /\ after.released_at = TRUE
        /\ after.refunded_at = before.refunded_at /\ after.disputed_at = before.disputed_at
        /\ after.released_amount = Amount /\ after.refunded_amount = 0 /\ after.amount = Amount
    BY <1>3 DEF PaidRow, OpenRow, StageRow, f
  <2>6. /\ new \in EscrowRow /\ new.status = "released" /\ new.amount = Amount
        /\ new.released_amount = Amount /\ new.fee_amount = f /\ new.released_at = TRUE
        /\ new.refunded_amount = x.refunded_amount /\ new.refunded_at = x.refunded_at
        /\ new.disputed_at = x.disputed_at /\ new.dispute_resolved_at = x.dispute_resolved_at
        /\ new.dispute_resolution = x.dispute_resolution
        /\ new.dispute_provider_amount = x.dispute_provider_amount
    BY <1>1, <2>1, <2>4 DEF EscrowRow
  <2>7. x.refunded_at = before.refunded_at /\ x.disputed_at = before.disputed_at
    BY <1>1, <1>3, RowsSound DEF EscrowFits, SoundRow, EscrowRow
  <2>8. QED
    BY <2>2, <2>5, <2>6, <2>7 DEF Written
<1>4. CASE event = EscrowRefunded(o, Amount) /\ before = OpenRow /\ after = ReturnedRow
  <2>1. Amount \in Nat /\ Amount # 0
    BY DeskConstants
  <2>2. event.name = "EscrowRefunded" /\ event.amount = Amount
    BY <1>4 DEF EscrowRefunded
  <2>3. x.status = "funded"
    BY <1>1, <1>4, RowsSound
  <2>4. new = [x EXCEPT !.status = "refunded", !.amount = Amount, !.refunded_amount = Amount,
                        !.refunded_at = TRUE]
    BY <2>1, <2>2, <2>3 DEF ApplyToEscrow, ApplyRefunded
  <2>5. /\ after.status = "refunded" /\ after.fee_amount = before.fee_amount
        /\ after.released_at = before.released_at /\ after.refunded_at = TRUE
        /\ after.disputed_at = before.disputed_at
        /\ after.refunded_amount = Amount /\ after.amount = Amount
    BY <1>4 DEF ReturnedRow, OpenRow, StageRow
  <2>6. /\ new \in EscrowRow /\ new.status = "refunded" /\ new.amount = Amount
        /\ new.refunded_amount = Amount /\ new.refunded_at = TRUE
        /\ new.fee_amount = x.fee_amount
        /\ new.released_amount = x.released_amount /\ new.released_at = x.released_at
        /\ new.disputed_at = x.disputed_at /\ new.dispute_resolved_at = x.dispute_resolved_at
        /\ new.dispute_resolution = x.dispute_resolution
        /\ new.dispute_provider_amount = x.dispute_provider_amount
    BY <1>1, <2>1, <2>4 DEF EscrowRow
  <2>7. /\ x.released_at = before.released_at /\ x.disputed_at = before.disputed_at
        /\ x.fee_amount = before.fee_amount
    BY <1>1, <1>4, RowsSound DEF EscrowFits, SoundRow, EscrowRow
  <2>8. QED
    BY <2>2, <2>5, <2>6, <2>7 DEF Written
<1>5. CASE event = EscrowDisputed(o) /\ before \in {OpenRow, ContestedRow} /\ after = ContestedRow
  <2>1. event.name = "EscrowDisputed"
    BY <1>5 DEF EscrowDisputed
  <2>2. x.status # "absent"
    BY <1>1, <1>5, RowsSound
  <2>3. new = [x EXCEPT !.status = "disputed", !.disputed_at = TRUE]
    BY <2>1, <2>2 DEF ApplyToEscrow, ApplyDisputed
  <2>4. /\ after.status = "disputed" /\ after.disputed_at = TRUE
        /\ after.fee_amount = before.fee_amount
        /\ after.released_at = before.released_at /\ after.refunded_at = before.refunded_at
    <3>1. /\ OpenRow.fee_amount = 0 /\ OpenRow.released_at = FALSE
          /\ OpenRow.refunded_at = FALSE
      BY DEF OpenRow, StageRow
    <3>2. /\ ContestedRow.fee_amount = 0 /\ ContestedRow.released_at = FALSE
          /\ ContestedRow.refunded_at = FALSE /\ ContestedRow.status = "disputed"
          /\ ContestedRow.disputed_at = TRUE
      BY DEF ContestedRow, StageRow
    <3>3. QED
      BY <1>5, <3>1, <3>2
  <2>5. /\ new \in EscrowRow /\ new.status = "disputed" /\ new.disputed_at = TRUE
        /\ new.amount = x.amount /\ new.released_amount = x.released_amount
        /\ new.refunded_amount = x.refunded_amount /\ new.fee_amount = x.fee_amount
        /\ new.released_at = x.released_at /\ new.refunded_at = x.refunded_at
        /\ new.dispute_resolved_at = x.dispute_resolved_at
        /\ new.dispute_resolution = x.dispute_resolution
        /\ new.dispute_provider_amount = x.dispute_provider_amount
    BY <1>1, <2>3 DEF EscrowRow
  <2>6. /\ x.released_at = before.released_at /\ x.refunded_at = before.refunded_at
        /\ x.fee_amount = before.fee_amount
    BY <1>1, <1>5, RowsSound DEF EscrowFits, SoundRow, EscrowRow
  <2>7. QED
    BY <2>1, <2>4, <2>5, <2>6 DEF Written
<1>6. ASSUME NEW share \in Shares, event = EscrowSettled(o, Amount, share, FeeBps),
             before = ContestedRow, after = DividedRow(share)
      PROVE  Written(x, event, after, new)
  <2>. DEFINE f == FeeOf(share, FeeBps)
              rest == Amount - share
              words == SettlementResolution(share, rest)
  <2>1. /\ share \in Nat /\ share <= Amount /\ rest \in Nat /\ f \in Nat
        /\ (share - f) + f = share
    BY DeskConstants, FeeWithin
  <2>2. /\ event.name = "EscrowSettled" /\ SettledGross(event) = share
        /\ event.buyerAmount = rest /\ event.feeAmount = f
    BY <1>6, <2>1 DEF EscrowSettled, SettledGross
  <2>3. x.status # "absent"
    BY <1>1, <1>6, RowsSound
  <2>4. words \in {"released_to_provider", "refunded_to_buyer", "split"}
    BY <2>1, ResolutionNames
  <2>5. /\ after.status = "released" /\ after.fee_amount = f /\ after.released_at = TRUE
        /\ after.refunded_at = before.refunded_at /\ after.disputed_at = before.disputed_at
        /\ after.released_amount = share /\ after.refunded_amount = rest
    BY <1>6 DEF DividedRow, ContestedRow, StageRow
  <2>. HIDE DEF f, rest
  <2>6. ApplySettled(x, event)
          = [x EXCEPT !.status = "released", !.released_amount = share, !.refunded_amount = rest,
                      !.fee_amount = f, !.released_at = TRUE, !.dispute_resolved_at = TRUE,
                      !.dispute_resolution = words]
    BY <2>2 DEF ApplySettled
  <2>7. new = ApplySettled(x, event)
    BY <2>2, <2>3 DEF ApplyToEscrow
  <2>11. new = [x EXCEPT !.status = "released", !.released_amount = share,
                         !.refunded_amount = rest, !.fee_amount = f, !.released_at = TRUE,
                         !.dispute_resolved_at = TRUE, !.dispute_resolution = words]
    BY <2>6, <2>7
  <2>. HIDE DEF words
  <2>8. /\ new \in EscrowRow /\ new.status = "released" /\ new.released_amount = share
        /\ new.refunded_amount = rest /\ new.fee_amount = f /\ new.released_at = TRUE
        /\ new.dispute_resolved_at = TRUE /\ new.dispute_resolution = words
        /\ new.amount = x.amount /\ new.refunded_at = x.refunded_at
        /\ new.disputed_at = x.disputed_at
        /\ new.dispute_provider_amount = x.dispute_provider_amount
    BY <1>1, <2>1, <2>4, <2>11 DEF EscrowRow
  <2>9. x.refunded_at = before.refunded_at /\ x.disputed_at = before.disputed_at
    BY <1>1, <1>6, RowsSound DEF EscrowFits, SoundRow, EscrowRow
  <2>10. QED
    BY <2>2, <2>4, <2>5, <2>8, <2>9 DEF Written
<1>7. QED
  BY <1>2, <1>3, <1>4, <1>5, <1>6 DEF Steps

LEMMA StepsDispute ==
    ASSUME DeskAssumption, NEW o, NEW event, NEW before, NEW after,
           Steps(o, event, before, after)
    PROVE  /\ before.disputed_at = TRUE => after.disputed_at = TRUE
           /\ event.name = "EscrowSettled" => after.disputed_at = TRUE
           /\ after.status # "absent"
<1>1. /\ NoRow.disputed_at = FALSE /\ OpenRow.disputed_at = FALSE
      /\ ContestedRow.disputed_at = TRUE
      /\ \A share \in Shares : DividedRow(share).disputed_at = TRUE
  BY DEF NoRow, OpenRow, ContestedRow, DividedRow, StageRow
<1>2. QED
  BY <1>1, RowsSound
     DEF Steps, SoundRow, EscrowCreated, EscrowReleased, EscrowRefunded, EscrowDisputed

\* Laid over any row that fits before the event, the change fits after it.
LEMMA RowMoved ==
    ASSUME DeskAssumption, NEW o, NEW event, NEW before, NEW after,
           Steps(o, event, before, after),
           NEW x, EscrowFits(x, before), NEW w, EscrowFits(w, before),
           x.dispute_resolved_at => w.dispute_resolved_at
    PROVE  EscrowFits(Over(Changed(x, ApplyToEscrow(x, event)), w), after)
<1>. DEFINE new == ApplyToEscrow(x, event)
            r == Over(Changed(x, new), w)
<1>0. new = ApplyToEscrow(x, event)
  OBVIOUS
<1>. HIDE DEF new
<1>1. x \in EscrowRow /\ w \in EscrowRow /\ x.amount \in Nat
  BY DEF EscrowFits, EscrowRow
<1>10. Written(x, event, after, new)
  BY <1>0, <1>1, RowWritten
<1>2. Written(x, event, after, new) /\ new \in EscrowRow
  BY <1>10 DEF Written
<1>11. Merged(x, new, w, r)
  BY <1>1, <1>2, MergedEscrow
<1>3. Merged(x, new, w, r) /\ r \in EscrowRow
  BY <1>11 DEF Merged
<1>. HIDE DEF r
<1>4. after.status # "absent" /\ (before.disputed_at = TRUE => after.disputed_at = TRUE)
      /\ (event.name = "EscrowSettled" => after.disputed_at = TRUE)
  BY StepsDispute
<1>5. /\ x.released_at \in BOOLEAN /\ w.released_at \in BOOLEAN /\ new.released_at \in BOOLEAN
      /\ x.refunded_at \in BOOLEAN /\ w.refunded_at \in BOOLEAN /\ new.refunded_at \in BOOLEAN
      /\ x.disputed_at \in BOOLEAN /\ w.disputed_at \in BOOLEAN /\ new.disputed_at \in BOOLEAN
      /\ x.dispute_resolved_at \in BOOLEAN /\ w.dispute_resolved_at \in BOOLEAN
  BY <1>1, <1>2 DEF EscrowRow
<1>6. /\ r.status = after.status /\ r.fee_amount = after.fee_amount
      /\ (r.released_at <=> after.released_at) /\ (r.refunded_at <=> after.refunded_at)
      /\ (r.disputed_at <=> after.disputed_at)
  BY <1>2, <1>3, <1>5 DEF EscrowFits, Written, Merged
<1>7. CASE event.name = "EscrowSettled"
  <2>1. r.dispute_resolved_at = TRUE
    BY <1>2, <1>3, <1>5, <1>7 DEF Written, Merged
  <2>2. r.dispute_resolution # "null"
    <3>1. CASE new.dispute_resolution # x.dispute_resolution
      BY <1>2, <1>3, <1>7, <3>1 DEF Written, Merged
    <3>2. CASE new.dispute_resolution = x.dispute_resolution
      BY <1>2, <1>3, <1>5, <1>7, <3>2 DEF EscrowFits, Written, Merged
    <3>3. QED
      BY <3>1, <3>2
  <2>3. r.disputed_at = TRUE
    BY <1>4, <1>5, <1>6, <1>7
  <2>4. QED
    BY <1>3, <1>4, <1>6, <2>1, <2>2, <2>3 DEF EscrowFits, r, new
<1>8. CASE event.name # "EscrowSettled"
  <2>1. /\ r.dispute_resolved_at = w.dispute_resolved_at
        /\ r.dispute_resolution = w.dispute_resolution
    BY <1>2, <1>3, <1>8 DEF Written, Merged
  <2>2. w.dispute_resolved_at => r.disputed_at
    BY <1>4, <1>5, <1>6 DEF EscrowFits
  <2>3. QED
    BY <1>3, <1>4, <1>6, <2>1, <2>2 DEF EscrowFits, r, new
<1>9. QED
  BY <1>7, <1>8

\* The decision is not among the changed columns, and the status is, unless
\* the event came again.
LEMMA ColumnsChanged ==
    ASSUME DeskAssumption, NEW o, NEW event, NEW before, NEW after,
           Steps(o, event, before, after),
           NEW x, EscrowFits(x, before)
    PROVE  LET d == Changed(x, ApplyToEscrow(x, event)) IN
           /\ DOMAIN d \subseteq Columns \ {"dispute_provider_amount"}
           /\ before # after => "status" \in DOMAIN d
           /\ before = after => DOMAIN d = {}
           /\ event.name = "EscrowDisputed" => DOMAIN d \cap Figures = {}
<1>. DEFINE new == ApplyToEscrow(x, event)
            d == Changed(x, new)
<1>0. new = ApplyToEscrow(x, event)
  OBVIOUS
<1>. HIDE DEF new
<1>1. x \in EscrowRow /\ x.amount \in Nat /\ x.status = before.status
  BY DEF EscrowFits, EscrowRow
<1>10. Written(x, event, after, new)
  BY <1>0, <1>1, RowWritten
<1>2. Written(x, event, after, new) /\ new \in EscrowRow
  BY <1>10 DEF Written
<1>3. before = after <=> before.status = after.status
  BY StepsMove
<1>4. ASSUME before = after, NEW c \in Columns PROVE new[c] = x[c]
  <2>1. event = EscrowDisputed(o) /\ before = ContestedRow
    BY <1>3, <1>4, RowsSound, NoRowFields DEF Steps
  <2>2. x.status = "disputed" /\ x.disputed_at = TRUE
    <3>1. ContestedRow.disputed_at = TRUE
      BY DEF ContestedRow, StageRow
    <3>2. QED
      BY <1>1, <2>1, <3>1, RowsSound DEF EscrowFits, EscrowRow
  <2>3. event.name = "EscrowDisputed"
    BY <2>1 DEF EscrowDisputed
  <2>4. new = [x EXCEPT !.status = "disputed", !.disputed_at = TRUE]
    BY <1>0, <2>2, <2>3 DEF ApplyToEscrow, ApplyDisputed
  <2>5. DOMAIN x = Columns
    BY <1>1 DEF EscrowRow, Columns
  <2>6. c = "status" \/ c = "disputed_at" \/ (c # "status" /\ c # "disputed_at")
    OBVIOUS
  <2>7. QED
    BY <2>2, <2>4, <2>5, <2>6
<1>5. DOMAIN new = Columns
  BY <1>2 DEF EscrowRow, Columns
<1>7. DOMAIN d = {c \in Columns : new[c] # x[c]}
  BY <1>5, ChangedValue
<1>. HIDE DEF d
<1>6. QED
  BY <1>1, <1>2, <1>3, <1>4, <1>7 DEF Columns, Figures, Written, new, d

-----------------------------------------------------------------------------
(* Rows that fit, and what requests write over them.                       *)

LEMMA RowNow ==
    ASSUME DeskAssumption, NEW o, Legal(o, chain[o]), NEW n \in Nat,
           n <= Len(chain[o])
    PROVE  /\ Row(o, 0) = NoRow
           /\ n > 0 => SoundRow(Row(o, n))
           /\ Row(o, n) \in EscrowRow
           /\ Row(o, n).status = "absent" <=> n = 0
           /\ Row(o, n).status \in {"released", "refunded"} => n = Len(chain[o])
           /\ n > 0 => (Closes(chain[o][n]) <=> Row(o, n).status \in {"released", "refunded"})
<1>1. /\ Row(o, 0) = NoRow
      /\ n > 0 => SoundRow(Row(o, n))
      /\ Row(o, n).status \in {"released", "refunded"} => n = Len(chain[o])
      /\ n > 0 => (Closes(chain[o][n]) <=> Row(o, n).status \in {"released", "refunded"})
  BY RowFacts DEF Row
<1>2. n = 0 \/ n > 0
  OBVIOUS
<1>3. QED
  BY <1>1, <1>2, NoRowFields DEF SoundRow

LEMMA LengthNow ==
    ASSUME NEW o, Legal(o, chain[o])
    PROVE  Len(chain[o]) \in Nat /\ Len(chain[o]) <= 3
BY LegalSequence

LEMMA OrderFitsChecks ==
    ASSUME NEW x, NEW status, OrderFits(x, status)
    PROVE  OrderChecks(x)
BY DEF OrderFits, OrderChecks, OrderRow

\* A row with sound figures passes the constraints of its table.
LEMMA EscrowFitsChecks ==
    ASSUME DeskAssumption, NEW o, Legal(o, chain[o]), NEW n \in Nat,
           n <= Len(chain[o]),
           NEW x, EscrowFits(x, Row(o, n)), o \notin premature, FiguresFit(o, x, n)
    PROVE  RowChecks(x)
<1>1. Len(chain[o]) \in Nat /\ Len(chain[o]) <= Len(chain[o])
  BY LengthNow
<1>2. CASE n = 0
  <2>1. Row(o, n).status = "absent"
    BY <1>2, RowNow
  <2>2. x.status = "absent"
    BY <2>1 DEF EscrowFits
  <2>3. QED
    BY <2>2 DEF RowChecks
<1>3. CASE n > 0
  <2>1. SoundRow(Row(o, n))
    BY <1>3, RowNow
  <2>2. SoundRow(Confirmed(o))
    BY <1>1, <1>3, RowNow DEF Confirmed
  <2>3. \/ SameFigures(x, Row(o, n))
        \/ SameFigures(x, Confirmed(o))
    BY DEF FiguresFit
  <2>4. x \in EscrowRow
    BY DEF EscrowFits
  <2>5. x.released_amount + x.refunded_amount <= x.amount /\ x.amount = Amount
    BY <2>1, <2>2, <2>3, <2>4, DeskConstants
       DEF SameFigures, InSync, SoundRow, EscrowRow
  <2>6. x.fee_amount <= x.amount /\ ((x.status = "released") <=> x.released_at)
    BY <2>1, <2>4, <2>5 DEF EscrowFits, SoundRow, EscrowRow
  <2>7. QED
    BY <2>5, <2>6 DEF RowChecks, EscrowFits
<1>4. QED
  BY <1>2, <1>3

\* A request that starts or delivers an order: the table refuses it if the
\* order was completed meanwhile.
LEMMA OrderMovedOn ==
    ASSUME NEW w, NEW status, OrderFits(w, status), status # "absent",
           NEW d, "status" \in DOMAIN d, DOMAIN d \subseteq {"status", "delivered_at"},
           d["status"] \in {"in_progress", "delivered"},
           "delivered_at" \in DOMAIN d => d["delivered_at"] = TRUE,
           OrderChecks(Over(d, w))
    PROVE  OrderFits(Over(d, w), status)
<1>. DEFINE r == Over(d, w)
<1>1. w \in OrderRow
  BY DEF OrderFits
<1>2. r = [status |-> d["status"], funded_at |-> w.funded_at,
           delivered_at |-> IF "delivered_at" \in DOMAIN d THEN d["delivered_at"]
                            ELSE w.delivered_at,
           completed_at |-> w.completed_at]
  BY <1>1, OverOrder
<1>. HIDE DEF r
<1>3. r \in OrderRow
  BY <1>1, <1>2 DEF OrderRow, OrderStatuses
<1>4. /\ r.status \in {"in_progress", "delivered"} /\ r.funded_at = w.funded_at
      /\ r.completed_at = w.completed_at
  BY <1>2
<1>5. OrderChecks(r)
  BY DEF r
<1>6. QED
  BY <1>3, <1>4, <1>5 DEF OrderFits, OrderChecks, r

LEMMA OrderCreated ==
    ASSUME NEW d, DOMAIN d = {"status"}, d["status"] = "pending"
    PROVE  OrderFits(Over(d, NoOrder), "absent") /\ Over(d, NoOrder).status = "pending"
<1>1. NoOrder \in OrderRow
  BY DEF NoOrder, OrderRow, OrderStatuses
<1>2. Over(d, NoOrder) = [status |-> "pending", funded_at |-> FALSE,
                          delivered_at |-> FALSE, completed_at |-> FALSE]
  BY <1>1, OverOrder DEF NoOrder
<1>3. QED
  BY <1>2 DEF OrderFits, OrderRow, OrderStatuses

\* A decision laid over a row that fits.
LEMMA RowDecided ==
    ASSUME NEW base, base.status # "absent", NEW w, EscrowFits(w, base),
           NEW d, Decides(d), RowChecks(Over(d, w))
    PROVE  /\ EscrowFits(Over(d, w), base)
           /\ SameFigures(Over(d, w), w)
           /\ w.dispute_resolved_at => Over(d, w).dispute_resolved_at
           /\ w.dispute_provider_amount # {} => Over(d, w).dispute_provider_amount # {}
<1>. DEFINE r == Over(d, w)
<1>1. w \in EscrowRow
  BY DEF EscrowFits
<1>2. DOMAIN d \subseteq DecisionColumns /\ DecisionColumns \subseteq Columns
  BY DEF Decides, DecisionColumns, Columns
<1>3. r = [status |-> w.status, amount |-> w.amount, released_amount |-> w.released_amount,
           refunded_amount |-> w.refunded_amount, fee_amount |-> w.fee_amount,
           released_at |-> w.released_at, refunded_at |-> w.refunded_at,
           disputed_at |-> w.disputed_at,
           dispute_resolved_at |-> IF "dispute_resolved_at" \in DOMAIN d
                                   THEN d["dispute_resolved_at"] ELSE w.dispute_resolved_at,
           dispute_resolution |-> IF "dispute_resolution" \in DOMAIN d
                                  THEN d["dispute_resolution"] ELSE w.dispute_resolution,
           dispute_provider_amount |-> IF "dispute_provider_amount" \in DOMAIN d
                                       THEN d["dispute_provider_amount"]
                                       ELSE w.dispute_provider_amount]
  BY <1>1, <1>2, OverEscrow DEF DecisionColumns
<1>9. /\ (IF "dispute_resolved_at" \in DOMAIN d
          THEN d["dispute_resolved_at"] ELSE w.dispute_resolved_at) \in BOOLEAN
      /\ (IF "dispute_resolution" \in DOMAIN d
          THEN d["dispute_resolution"] ELSE w.dispute_resolution)
            \in {"null", "released_to_provider", "refunded_to_buyer", "split"}
      /\ (IF "dispute_provider_amount" \in DOMAIN d
          THEN d["dispute_provider_amount"] ELSE w.dispute_provider_amount) \in SUBSET Nat
  BY <1>1 DEF EscrowRow, Decides
<1>. HIDE DEF r
<1>4. r \in EscrowRow
  BY <1>1, <1>3, <1>9 DEF EscrowRow
<1>5. /\ r.status = w.status /\ r.amount = w.amount /\ r.fee_amount = w.fee_amount
      /\ r.released_amount = w.released_amount /\ r.refunded_amount = w.refunded_amount
      /\ r.released_at = w.released_at /\ r.refunded_at = w.refunded_at
      /\ r.disputed_at = w.disputed_at
  BY <1>3
<1>6. /\ w.dispute_resolved_at => r.dispute_resolved_at
      /\ w.dispute_provider_amount # {} => r.dispute_provider_amount # {}
  BY <1>1, <1>3 DEF Decides
<1>7. RowChecks(r)
  BY DEF r
<1>8. QED
  BY <1>4, <1>5, <1>6, <1>7 DEF EscrowFits, RowChecks, SameFigures, InSync, r

\* Figures laid over a row that fits.
LEMMA RowRepaired ==
    ASSUME NEW base, base.status # "absent", NEW w, EscrowFits(w, base),
           NEW d, DOMAIN d \subseteq Figures, \A c \in DOMAIN d : d[c] \in Nat
    PROVE  /\ EscrowFits(Over(d, w), base)
           /\ \A c \in Figures : Over(d, w)[c] = IF c \in DOMAIN d THEN d[c] ELSE w[c]
           /\ Over(d, w).dispute_resolved_at = w.dispute_resolved_at
           /\ Over(d, w).dispute_provider_amount = w.dispute_provider_amount
<1>. DEFINE r == Over(d, w)
<1>1. w \in EscrowRow
  BY DEF EscrowFits
<1>2. DOMAIN d \subseteq Columns
  BY DEF Figures, Columns
<1>3. r = [status |-> w.status,
           amount |-> IF "amount" \in DOMAIN d THEN d["amount"] ELSE w.amount,
           released_amount |-> IF "released_amount" \in DOMAIN d
                               THEN d["released_amount"] ELSE w.released_amount,
           refunded_amount |-> IF "refunded_amount" \in DOMAIN d
                               THEN d["refunded_amount"] ELSE w.refunded_amount,
           fee_amount |-> w.fee_amount,
           released_at |-> w.released_at, refunded_at |-> w.refunded_at,
           disputed_at |-> w.disputed_at, dispute_resolved_at |-> w.dispute_resolved_at,
           dispute_resolution |-> w.dispute_resolution,
           dispute_provider_amount |-> w.dispute_provider_amount]
  BY <1>1, <1>2, OverEscrow DEF Figures
<1>. HIDE DEF r
<1>4. r \in EscrowRow
  BY <1>1, <1>3 DEF EscrowRow, Figures
<1>5. /\ r.status = w.status /\ r.fee_amount = w.fee_amount
      /\ r.released_at = w.released_at /\ r.refunded_at = w.refunded_at
      /\ r.disputed_at = w.disputed_at
      /\ r.dispute_resolved_at = w.dispute_resolved_at
      /\ r.dispute_resolution = w.dispute_resolution
      /\ r.dispute_provider_amount = w.dispute_provider_amount
  BY <1>3
<1>6. \A c \in Figures : r[c] = IF c \in DOMAIN d THEN d[c] ELSE w[c]
  BY <1>1, <1>3 DEF Figures
<1>7. QED
  BY <1>4, <1>5, <1>6 DEF EscrowFits, r

-----------------------------------------------------------------------------
(* What a step leaves as it was.                                           *)

LEMMA ReadyKept ==
    ASSUME NEW r \in Requests, RequestReady(r), txn'[r] = txn[r], chain' = chain,
           premature \subseteq premature',
           \A o \in Orders : Applied(o) > 0 => Applied(o)' > 0,
           \A o \in Orders : OrderKey(o) \in DOMAIN txn[r].dirty /\ db[OrderKey(o)] = NoOrder
                                => db'[OrderKey(o)] = NoOrder
    PROVE  RequestReady(r)'
<1>. DEFINE t == txn[r]
<1>1. txn'[r] = t
  OBVIOUS
<1>. HIDE DEF t
<1>2. ASSUME NEW o \in Orders, OrderKey(o) \in DOMAIN t.dirty
      PROVE  \/ CreatesOrder(o, t.dirty[OrderKey(o)])'
             \/ MovesOrder(o, t.dirty[OrderKey(o)])'
  <2>1. \/ CreatesOrder(o, t.dirty[OrderKey(o)])
        \/ MovesOrder(o, t.dirty[OrderKey(o)])
    BY <1>2 DEF RequestReady, t
  <2>2. OrderKey(o) \in DOMAIN txn[r].dirty
    BY <1>2 DEF t
  <2>3. t' = t
    BY <1>1 DEF t
  <2>4. QED
    BY <2>1, <2>2, <2>3 DEF CreatesOrder, MovesOrder
<1>3. ASSUME NEW o \in Orders, EscrowKey(o) \in DOMAIN t.dirty
      PROVE  /\ Applied(o)' > 0
             /\ \/ Decides(t.dirty[EscrowKey(o)])
                \/ Repairs(o, t.dirty[EscrowKey(o)])'
  <2>1. /\ Applied(o) > 0
        /\ \/ Decides(t.dirty[EscrowKey(o)])
           \/ Repairs(o, t.dirty[EscrowKey(o)])
    BY <1>3 DEF RequestReady, t
  <2>2. t' = t
    BY <1>1 DEF t
  <2>3. Repairs(o, t.dirty[EscrowKey(o)]) => Repairs(o, t.dirty[EscrowKey(o)])'
    BY <2>2 DEF Repairs, Row, Confirmed
  <2>4. QED
    BY <2>1, <2>3
<1>4. QED
  BY <1>1, <1>2, <1>3 DEF RequestReady, t

LEMMA WroteKept ==
    ASSUME NEW r \in Requests, RequestWrote(r), txn'[r] = txn[r], chain' = chain,
           premature \subseteq premature',
           \A o \in Orders : OrderKey(o) \in DOMAIN txn[r].wrote =>
              Applied(o)' = Applied(o) /\ (db[OrderKey(o)] = NoOrder => db'[OrderKey(o)] = NoOrder),
           \A o \in Orders : EscrowKey(o) \in DOMAIN txn[r].wrote =>
              Applied(o)' = Applied(o) /\ db'[EscrowKey(o)] = db[EscrowKey(o)]
    PROVE  RequestWrote(r)'
<1>. DEFINE t == txn[r]
<1>1. txn'[r] = t /\ t' = t
  OBVIOUS
<1>. HIDE DEF t
<1>2. ASSUME NEW o \in Orders, OrderKey(o) \in DOMAIN t.wrote
      PROVE  /\ OrderFits(t.wrote[OrderKey(o)], Row(o, Applied(o)).status)'
             /\ t.wrote[OrderKey(o)].status # "absent"
             /\ Applied(o)' = 0 => db'[OrderKey(o)] = NoOrder
  <2>1. /\ OrderFits(t.wrote[OrderKey(o)], Row(o, Applied(o)).status)
        /\ t.wrote[OrderKey(o)].status # "absent"
        /\ Applied(o) = 0 => db[OrderKey(o)] = NoOrder
    BY <1>2 DEF RequestWrote, t
  <2>2. Applied(o)' = Applied(o) /\ (db[OrderKey(o)] = NoOrder => db'[OrderKey(o)] = NoOrder)
    BY <1>2 DEF t
  <2>3. Row(o, Applied(o))' = Row(o, Applied(o))
    BY <2>2 DEF Row
  <2>4. OrderFits(t.wrote[OrderKey(o)], Row(o, Applied(o)).status)'
          <=> OrderFits(t.wrote[OrderKey(o)], Row(o, Applied(o)).status)
    BY <1>1, <2>3
  <2>5. QED
    BY <2>1, <2>2, <2>4
<1>3. ASSUME NEW o \in Orders, EscrowKey(o) \in DOMAIN t.wrote
      PROVE  (/\ Applied(o) > 0
              /\ EscrowFits(t.wrote[EscrowKey(o)], Row(o, Applied(o)))
              /\ FiguresFit(o, t.wrote[EscrowKey(o)], Applied(o))
              /\ db[EscrowKey(o)].dispute_resolved_at
                    => t.wrote[EscrowKey(o)].dispute_resolved_at
              /\ db[EscrowKey(o)].dispute_provider_amount # {}
                    => t.wrote[EscrowKey(o)].dispute_provider_amount # {}
              /\ o \notin premature =>
                    \/ SameFigures(t.wrote[EscrowKey(o)], db[EscrowKey(o)])
                    \/ SameFigures(t.wrote[EscrowKey(o)], Confirmed(o)))'
  <2>1. /\ Applied(o) > 0
        /\ EscrowFits(t.wrote[EscrowKey(o)], Row(o, Applied(o)))
        /\ FiguresFit(o, t.wrote[EscrowKey(o)], Applied(o))
        /\ db[EscrowKey(o)].dispute_resolved_at
              => t.wrote[EscrowKey(o)].dispute_resolved_at
        /\ db[EscrowKey(o)].dispute_provider_amount # {}
              => t.wrote[EscrowKey(o)].dispute_provider_amount # {}
        /\ o \notin premature =>
              \/ SameFigures(t.wrote[EscrowKey(o)], db[EscrowKey(o)])
              \/ SameFigures(t.wrote[EscrowKey(o)], Confirmed(o))
    BY <1>3 DEF RequestWrote, t
  <2>2. Applied(o)' = Applied(o) /\ db'[EscrowKey(o)] = db[EscrowKey(o)]
    BY <1>3 DEF t
  <2>3. /\ Row(o, Applied(o))' = Row(o, Applied(o)) /\ Confirmed(o)' = Confirmed(o)
        /\ premature \subseteq premature'
    BY <2>2 DEF Row, Confirmed
  <2>4. FiguresFit(o, t.wrote[EscrowKey(o)], Applied(o))'
    BY <1>1, <2>1, <2>2, <2>3 DEF FiguresFit
  <2>5. EscrowFits(t.wrote[EscrowKey(o)], Row(o, Applied(o)))'
    BY <1>1, <2>1, <2>3
  <2>6. QED
    BY <1>1, <2>1, <2>2, <2>3, <2>4, <2>5
<1>4. QED
  BY <1>1, <1>2, <1>3 DEF RequestWrote, t

LEMMA ViewKept ==
    ASSUME NEW k, txn'[Worker] = txn[Worker],
           k \in DOMAIN txn[Worker].wrote \/ db'[k] = db[k]
    PROVE  Visible(Worker, k)' = Visible(Worker, k)
BY DEF Visible

LEMMA Quiet ==
    ASSUME WorkerSees, PendingSomewhere, txn'[Worker] = txn[Worker], chain' = chain,
           db' = db,
           premature \subseteq premature'
    PROVE  WorkerSees' /\ PendingSomewhere'
<1>1. \A k : Visible(Worker, k)' = Visible(Worker, k)
  BY DEF Visible
<1>2. \A o, n : /\ Row(o, n)' = Row(o, n) /\ Confirmed(o)' = Confirmed(o)
                /\ Seen(o)' = Seen(o) /\ Applied(o)' = Applied(o)
  BY <1>1 DEF Row, Confirmed, Seen, Applied
<1>3. \A o, order, row, n : RowsFit(o, order, row, n) => RowsFit(o, order, row, n)'
  BY <1>2 DEF RowsFit, FiguresFit
<1>4. WorkerSees'
  <2>1. SUFFICES ASSUME NEW o \in Orders
                 PROVE (/\ RowsFit(o, Visible(Worker, OrderKey(o)), Visible(Worker, EscrowKey(o)), Seen(o))
                        /\ Applied(o) <= Seen(o)
                        /\ Visible(Worker, IngestedKey(o)) = [events |-> Seen(o)]
                        /\ IngestedKey(o) \in DOMAIN txn[Worker].wrote
                              => {OrderKey(o), EscrowKey(o)} \subseteq DOMAIN txn[Worker].wrote
                        /\ OrderKey(o) \in DOMAIN txn[Worker].wrote => Seen(o) > 0
                        /\ db[EscrowKey(o)].dispute_provider_amount # {}
                              => Visible(Worker, EscrowKey(o)).dispute_provider_amount # {})'
    BY DEF WorkerSees
  <2>2. RowsFit(o, Visible(Worker, OrderKey(o)), Visible(Worker, EscrowKey(o)), Seen(o))'
    BY <1>1, <1>2, <1>3 DEF WorkerSees
  <2>3. QED
    BY <1>1, <1>2, <2>2 DEF WorkerSees
<1>5. ASSUME NEW o \in Orders, NEW m \in 1 .. 3, Pending(o, m) PROVE Pending(o, m)'
  <2>1. MovesOn(o, m) => MovesOn(o, m)'
    BY <1>2 DEF MovesOn
  <2>2. Mirrors(o, m) => Mirrors(o, m)'
    BY <1>1, <1>2 DEF Mirrors
  <2>3. QED
    BY <1>2, <1>5, <2>1, <2>2 DEF Pending
<1>6. PendingSomewhere'
  BY <1>5 DEF PendingSomewhere
<1>7. QED
  BY <1>4, <1>6

LEMMA CommittedKept ==
    ASSUME Committed, chain' = chain, db' = db, premature \subseteq premature'
    PROVE  Committed'
<1>1. \A o, n : /\ Row(o, n)' = Row(o, n) /\ Confirmed(o)' = Confirmed(o)
                /\ Applied(o)' = Applied(o)
  BY DEF Row, Confirmed, Applied
<1>2. \A o, order, row, n : RowsFit(o, order, row, n) => RowsFit(o, order, row, n)'
  BY <1>1 DEF RowsFit, FiguresFit
<1>3. QED
  BY <1>1, <1>2 DEF Committed

\* p's transaction becomes t; the others, the tables and the chain stay.
LEMMA Turn ==
    ASSUME DeskInv, NEW p \in Processes,
           NEW phase \in {"closed", "loaded", "flushed"}, NEW dirty, NEW wrote,
           txn' = [txn EXCEPT ![p] = [phase |-> phase, dirty |-> dirty, wrote |-> wrote]],
           phase # "loaded" => DOMAIN dirty = {}, phase = "closed" => DOMAIN wrote = {},
           DOMAIN dirty \subseteq Keys, DOMAIN wrote \subseteq Keys,
           p = Worker => ServiceKey \notin DOMAIN wrote,
           \A q \in Processes \ {p} : DOMAIN wrote \cap DOMAIN txn[q].wrote = {},
           chain' = chain, db' = db, premature \subseteq premature', premature' \subseteq Orders,
           \A o \in Orders : db[OrderKey(o)] = NoOrder /\ OrderKey(o) \in DOMAIN dirty \cup DOMAIN wrote
              => Touches(p, OrderKey(o)) \/ \A q \in Processes : ~Touches(q, OrderKey(o)),
           p \in Requests => RequestReady(p)' /\ RequestWrote(p)',
           p = Worker => WorkerSees' /\ PendingSomewhere'
    PROVE  DeskInv'
<1>. DEFINE t == [phase |-> phase, dirty |-> dirty, wrote |-> wrote]
<1>1. /\ DOMAIN txn = Processes /\ DOMAIN chain = Orders /\ \A q \in Processes : TxnShape(q)
      /\ LocksApart /\ CreatedByOne /\ Committed /\ WorkerSees /\ PendingSomewhere
      /\ \A r \in Requests : RequestReady(r) /\ RequestWrote(r)
  BY DEF DeskInv
<1>2. /\ DOMAIN txn' = Processes /\ DOMAIN chain' = Orders
      /\ txn'[p] = t /\ \A q \in Processes \ {p} : txn'[q] = txn[q]
  BY <1>1
<1>3. t.phase = phase /\ t.dirty = dirty /\ t.wrote = wrote
  OBVIOUS
<1>. HIDE DEF t
<1>4. \A q \in Processes : TxnShape(q)'
  <2>1. TxnShape(p)'
    BY <1>2, <1>3 DEF TxnShape, t
  <2>2. \A q \in Processes \ {p} : TxnShape(q)'
    BY <1>1, <1>2 DEF TxnShape
  <2>3. QED
    BY <2>1, <2>2
<1>5. LocksApart'
  BY <1>1, <1>2, <1>3 DEF LocksApart
<1>6. CreatedByOne'
  <2>1. \A q \in Processes \ {p} : \A k : Touches(q, k)' <=> Touches(q, k)
    BY <1>2 DEF Touches
  <2>2. \A k : Touches(p, k)' <=> k \in DOMAIN dirty \cup DOMAIN wrote
    BY <1>2, <1>3 DEF Touches
  <2>3. QED
    BY <1>1, <2>1, <2>2 DEF CreatedByOne
<1>7. Committed'
  BY <1>1, CommittedKept
<1>8. \A r \in Requests : RequestReady(r)' /\ RequestWrote(r)'
  <2>1. ASSUME NEW r \in Requests, r # p PROVE RequestReady(r)' /\ RequestWrote(r)'
    <3>1. txn'[r] = txn[r] /\ \A o : Applied(o)' = Applied(o)
      BY <1>2, <2>1 DEF Processes, Applied
    <3>2. QED
      BY <1>1, <3>1, ReadyKept, WroteKept
  <2>2. QED
    BY <2>1
<1>9. WorkerSees' /\ PendingSomewhere'
  <2>1. CASE p = Worker
    BY <2>1
  <2>2. CASE p # Worker
    <3>1. txn'[Worker] = txn[Worker]
      BY <1>2, <2>2 DEF Processes
    <3>2. QED
      BY <1>1, <3>1, Quiet
  <2>3. QED
    BY <2>1, <2>2
<1>10. QED
  BY <1>2, <1>4, <1>5, <1>6, <1>7, <1>8, <1>9 DEF DeskInv

LEMMA AppendOne ==
    \A a, b, c : Append(<<a>>, c) = <<a, c>> /\ Append(<<a, b>>, c) = <<a, b, c>>
<1>1. ASSUME NEW a, NEW b, NEW c
      PROVE  Append(<<a>>, c) = <<a, c>> /\ Append(<<a, b>>, c) = <<a, b, c>>
  <2>. DEFINE S == {a, b, c}
  <2>1. /\ <<a>> \in Seq(S) /\ <<a, b>> \in Seq(S) /\ c \in S
        /\ <<a, c>> \in Seq(S) /\ <<a, b, c>> \in Seq(S)
    OBVIOUS
  <2>2. Len(<<a>>) = 1 /\ Len(<<a, b>>) = 2 /\ Len(<<a, c>>) = 2 /\ Len(<<a, b, c>>) = 3
    OBVIOUS
  <2>. HIDE DEF S
  <2>3. Append(<<a>>, c) = <<a, c>>
    <3>. DEFINE s == Append(<<a>>, c)
    <3>1. s \in Seq(S) /\ Len(s) = 2
      BY <2>1, <2>2
    <3>2. s[1] = a /\ s[2] = c
      BY <2>1, <2>2, AppendProperties
    <3>. HIDE DEF s
    <3>3. s = <<a, c>>
      BY <2>1, <2>2, <3>1, <3>2, SeqEqual
    <3>4. QED
      BY <3>3 DEF s
  <2>4. Append(<<a, b>>, c) = <<a, b, c>>
    <3>. DEFINE s == Append(<<a, b>>, c)
    <3>1. s \in Seq(S) /\ Len(s) = 3
      BY <2>1, <2>2
    <3>2. s[1] = a /\ s[2] = b /\ s[3] = c
      BY <2>1, <2>2, AppendProperties
    <3>. HIDE DEF s
    <3>3. s = <<a, b, c>>
      BY <2>1, <2>2, <3>1, <3>2, SeqEqual
    <3>4. QED
      BY <3>3 DEF s
  <2>5. QED
    BY <2>3, <2>4
<1>2. QED
  BY <1>1

\* What the contract may say next keeps the sequence legal.
LEMMA LegalNext ==
    ASSUME NEW o, NEW s, Legal(o, s),
           NEW event \in EventsOf(o, Amount, FeeBps, Shares),
           Follows(event.name) = IF s = <<>> THEN "none" ELSE Last(s).name
    PROVE  Legal(o, Append(s, event)) /\ s \o <<event>> = Append(s, event)
<1>. DEFINE S == EventsOf(o, Amount, FeeBps, Shares)
<1>1. s \in Seq(S)
  BY LegalSequence
<1>2. \/ event = EscrowCreated(o, Amount) /\ event.name = "EscrowCreated"
      \/ event = EscrowReleased(o, Amount, FeeBps) /\ event.name = "EscrowReleased"
      \/ event = EscrowRefunded(o, Amount) /\ event.name = "EscrowRefunded"
      \/ event = EscrowDisputed(o) /\ event.name = "EscrowDisputed"
      \/ \E share \in Shares : /\ event = EscrowSettled(o, Amount, share, FeeBps)
                               /\ event.name = "EscrowSettled"
  BY
     DEF EventsOf, EscrowCreated, EscrowReleased, EscrowRefunded, EscrowDisputed,
         EscrowSettled
<1>3. \A share : EscrowSettled(o, Amount, share, FeeBps).name = "EscrowSettled"
  BY DEF EscrowSettled
<1>4. /\ EscrowCreated(o, Amount).name = "EscrowCreated"
      /\ EscrowReleased(o, Amount, FeeBps).name = "EscrowReleased"
      /\ EscrowRefunded(o, Amount).name = "EscrowRefunded"
      /\ EscrowDisputed(o).name = "EscrowDisputed"
  BY DEF EscrowCreated, EscrowReleased, EscrowRefunded, EscrowDisputed
<1>. HIDE DEF S
<1>5. CASE s = <<>>
  <2>1. event = EscrowCreated(o, Amount)
    BY <1>2, <1>5 DEF Follows
  <2>2. Append(s, event) = <<event>> /\ s \o <<event>> = <<event>>
    BY <1>5
  <2>3. QED
    BY <2>1, <2>2 DEF Legal
<1>6. ASSUME s # <<>> PROVE s \o <<event>> = Append(s, event)
  BY <1>1 DEF S
<1>7. CASE s = <<EscrowCreated(o, Amount)>>
  <2>1. Last(s) = EscrowCreated(o, Amount) /\ s # <<>>
    BY <1>7 DEF Last
  <2>2. event \in {EscrowReleased(o, Amount, FeeBps), EscrowRefunded(o, Amount), EscrowDisputed(o)}
    BY <1>2, <1>4, <2>1 DEF Follows
  <2>3. Append(s, event) = <<EscrowCreated(o, Amount), event>>
    BY <1>7, AppendOne
  <2>4. QED
    BY <1>6, <2>1, <2>2, <2>3 DEF Legal
<1>8. ASSUME NEW last, s = <<EscrowCreated(o, Amount), last>>,
             last.name \in {"EscrowReleased", "EscrowRefunded"}
      PROVE  FALSE
  <2>1. Last(s) = last /\ s # <<>>
    BY <1>8 DEF Last
  <2>2. QED
    BY <1>2, <1>8, <2>1 DEF Follows
<1>9. CASE s = <<EscrowCreated(o, Amount), EscrowDisputed(o)>>
  <2>1. Last(s) = EscrowDisputed(o) /\ s # <<>>
    BY <1>9 DEF Last
  <2>2. PICK share \in Shares : event = EscrowSettled(o, Amount, share, FeeBps)
    BY <1>2, <1>4, <2>1 DEF Follows
  <2>3. Append(s, event) = <<EscrowCreated(o, Amount), EscrowDisputed(o), event>>
    BY <1>9, AppendOne
  <2>4. QED
    BY <1>6, <2>1, <2>2, <2>3 DEF Legal
<1>10. ASSUME NEW share \in Shares,
              s = <<EscrowCreated(o, Amount), EscrowDisputed(o),
                    EscrowSettled(o, Amount, share, FeeBps)>>
       PROVE  FALSE
  <2>1. Last(s) = EscrowSettled(o, Amount, share, FeeBps) /\ s # <<>>
    BY <1>10 DEF Last
  <2>2. QED
    BY <1>2, <1>3, <2>1 DEF Follows
<1>11. QED
  BY <1>4, <1>5, <1>7, <1>8, <1>9, <1>10 DEF Legal

-----------------------------------------------------------------------------
(* Requests load.                                                          *)

LEMMA LoadedTxn ==
    ASSUME DeskInv, NEW p \in Processes, NEW new, Loaded(p, new)
    PROVE  /\ txn' = [txn EXCEPT ![p] =
                        [phase |-> "loaded",
                         dirty |-> [k \in DOMAIN new |-> Changed(Visible(p, k), new[k])],
                         wrote |-> txn[p].wrote]]
           /\ txn'[p] = [phase |-> "loaded",
                         dirty |-> [k \in DOMAIN new |-> Changed(Visible(p, k), new[k])],
                         wrote |-> txn[p].wrote]
<1>. DEFINE d == [k \in DOMAIN new |-> Changed(Visible(p, k), new[k])]
            t == [phase |-> "loaded", dirty |-> d, wrote |-> txn[p].wrote]
<1>1. txn' = [txn EXCEPT ![p].phase = "loaded", ![p].dirty = d]
  BY DEF Loaded
<1>2. DOMAIN txn = Processes /\ TxnShape(p)
  BY DEF DeskInv
<1>. HIDE DEF d
<1>3. [[txn[p] EXCEPT !.phase = "loaded"] EXCEPT !.dirty = d] = t
  <2>. DEFINE a == txn[p].phase
              b == txn[p].dirty
              c == txn[p].wrote
              u == [txn[p] EXCEPT !.phase = "loaded"]
  <2>1. txn[p] = [phase |-> a, dirty |-> b, wrote |-> c] /\ txn[p].wrote = c
    BY <1>2 DEF TxnShape
  <2>. HIDE DEF a, b, c
  <2>2. u = [phase |-> "loaded", dirty |-> b, wrote |-> c]
    BY <2>1
  <2>. HIDE DEF u
  <2>3. [u EXCEPT !.dirty = d] = [phase |-> "loaded", dirty |-> d, wrote |-> c]
    BY <2>2
  <2>4. QED
    BY <2>1, <2>3 DEF u
<1>4. txn' = [txn EXCEPT ![p] = t]
  BY <1>1, <1>2, <1>3
<1>5. QED
  BY <1>2, <1>4 DEF d

LEMMA RequestLoads ==
    ASSUME DeskAssumption, DeskInv, NEW r \in Requests, txn[r].phase = "closed",
           NEW new, DOMAIN new \subseteq Keys, Loaded(r, new),
           chain' = chain, db' = db, premature \subseteq premature', premature' \subseteq Orders,
           \A o \in Orders : db[OrderKey(o)] = NoOrder /\ OrderKey(o) \in DOMAIN new
              => \A q \in Processes : ~Touches(q, OrderKey(o)),
           RequestReady(r)'
    PROVE  DeskInv'
<1>. DEFINE d == [k \in DOMAIN new |-> Changed(Visible(r, k), new[k])]
            w == txn[r].wrote
<1>1. /\ r \in Processes /\ r # Worker
      /\ TxnShape(r)
  BY DeskConstants DEF Processes, DeskInv
<1>2. txn' = [txn EXCEPT ![r] = [phase |-> "loaded", dirty |-> d, wrote |-> w]]
  BY <1>1, LoadedTxn
<1>3. txn'[r] = [phase |-> "loaded", dirty |-> d, wrote |-> w]
  BY <1>1, LoadedTxn
<1>4. DOMAIN d = DOMAIN new /\ DOMAIN w = {}
  BY <1>1 DEF TxnShape
<1>. HIDE DEF d, w
<1>5. RequestWrote(r)'
  BY <1>3, <1>4 DEF RequestWrote
<1>6. /\ DOMAIN d \subseteq Keys /\ DOMAIN w \subseteq Keys
      /\ "loaded" \in {"closed", "loaded", "flushed"}
      /\ \A q \in Processes \ {r} : DOMAIN w \cap DOMAIN txn[q].wrote = {}
      /\ \A o \in Orders : db[OrderKey(o)] = NoOrder /\ OrderKey(o) \in DOMAIN d \cup DOMAIN w
            => Touches(r, OrderKey(o)) \/ \A q \in Processes : ~Touches(q, OrderKey(o))
  BY <1>4
<1>7. QED
  BY <1>1, <1>2, <1>4, <1>5, <1>6, Turn

\* What a request that has just begun sees and will write.
LEMMA FreshDirty ==
    ASSUME DeskInv, NEW r \in Requests, txn[r].phase = "closed", NEW new,
           Loaded(r, new)
    PROVE  /\ txn'[r].phase = "loaded" /\ DOMAIN txn'[r].wrote = {}
           /\ DOMAIN txn'[r].dirty = DOMAIN new
           /\ \A k \in DOMAIN new :
                 /\ DOMAIN txn'[r].dirty[k] = {c \in DOMAIN new[k] : new[k][c] # db[k][c]}
                 /\ \A c \in DOMAIN txn'[r].dirty[k] : txn'[r].dirty[k][c] = new[k][c]
<1>1. r \in Processes /\ TxnShape(r)
  BY DEF Processes, DeskInv
<1>2. DOMAIN txn[r].wrote = {}
  BY <1>1 DEF TxnShape
<1>3. \A k : Visible(r, k) = db[k]
  BY <1>2 DEF Visible
<1>4. txn'[r] = [phase |-> "loaded",
                 dirty |-> [k \in DOMAIN new |-> Changed(Visible(r, k), new[k])],
                 wrote |-> txn[r].wrote]
  BY <1>1, LoadedTxn
<1>5. /\ \A k \in DOMAIN new : txn'[r].dirty[k] = Changed(db[k], new[k])
      /\ DOMAIN txn'[r].dirty = DOMAIN new
      /\ txn'[r].phase = "loaded" /\ txn'[r].wrote = txn[r].wrote
  BY <1>3, <1>4
<1>6. ASSUME NEW k \in DOMAIN new
      PROVE  /\ DOMAIN txn'[r].dirty[k] = {c \in DOMAIN new[k] : new[k][c] # db[k][c]}
             /\ \A c \in DOMAIN txn'[r].dirty[k] : txn'[r].dirty[k][c] = new[k][c]
  <2>. DEFINE d == Changed(db[k], new[k])
  <2>1. /\ DOMAIN d = {c \in DOMAIN new[k] : new[k][c] # db[k][c]}
        /\ \A c \in DOMAIN d : d[c] = new[k][c]
    BY DEF Changed
  <2>. HIDE DEF d
  <2>2. txn'[r].dirty[k] = d
    BY <1>5 DEF d
  <2>3. QED
    BY <2>1, <2>2
<1>7. QED
  BY <1>2, <1>5, <1>6

\* What is committed of an order.
LEMMA CommittedFacts ==
    ASSUME DeskAssumption, DeskInv, NEW o \in Orders
    PROVE  /\ Legal(o, chain[o])
           /\ Applied(o) \in Nat /\ Applied(o) <= Len(chain[o])
           /\ OrderFits(db[OrderKey(o)], Row(o, Applied(o)).status)
           /\ db[OrderKey(o)] \in OrderRow
           /\ EscrowFits(db[EscrowKey(o)], Row(o, Applied(o)))
           /\ db[EscrowKey(o)] \in EscrowRow
           /\ FiguresFit(o, db[EscrowKey(o)], Applied(o))
           /\ Row(o, Applied(o)).status = "absent" <=> Applied(o) = 0
           /\ Row(o, Applied(o)) \in EscrowRow
           /\ db[EscrowKey(o)].status = Row(o, Applied(o)).status
           /\ db[OrderKey(o)].status \in {"absent", "pending", "expired"} <=> Applied(o) = 0
           /\ db[OrderKey(o)].status = "absent" <=> db[OrderKey(o)] = NoOrder
           /\ db[OrderKey(o)] = NoOrder => chain[o] = <<>>
<1>1. /\ Legal(o, chain[o])
      /\ RowsFit(o, db[OrderKey(o)], db[EscrowKey(o)], Applied(o))
      /\ db[OrderKey(o)].status = "absent" => db[OrderKey(o)] = NoOrder /\ chain[o] = <<>>
  BY DEF DeskInv, Committed
<1>2. NoOrder.status = "absent"
  BY DEF NoOrder
<1>3. QED
  BY <1>1, <1>2, RowNow DEF RowsFit, OrderFits, EscrowFits

\* What stays to be shown when a request loads rows of one order.
LEMMA RequestLoadsOf ==
    ASSUME DeskAssumption, DeskInv, NEW r \in Requests, txn[r].phase = "closed",
           NEW o \in Orders,
           NEW new, DOMAIN new \subseteq {OrderKey(o), EscrowKey(o), ServiceKey}, Loaded(r, new),
           chain' = chain, db' = db, premature \subseteq premature', premature' \subseteq Orders,
           db[OrderKey(o)] = NoOrder /\ OrderKey(o) \in DOMAIN new
              => \A q \in Processes : ~Touches(q, OrderKey(o)),
           OrderKey(o) \in DOMAIN new =>
              \/ CreatesOrder(o, txn'[r].dirty[OrderKey(o)])
              \/ MovesOrder(o, txn'[r].dirty[OrderKey(o)]),
           EscrowKey(o) \in DOMAIN new =>
              /\ Applied(o) > 0
              /\ \/ Decides(txn'[r].dirty[EscrowKey(o)])
                 \/ Repairs(o, txn[r].dirty[EscrowKey(o)])',
           ServiceKey \in DOMAIN new =>
              /\ DOMAIN txn'[r].dirty[ServiceKey] \subseteq {"order_count"}
              /\ \A c \in DOMAIN txn'[r].dirty[ServiceKey] : txn'[r].dirty[ServiceKey][c] \in Nat
    PROVE  DeskInv'
<1>. DEFINE d == txn'[r].dirty
<1>1. /\ txn'[r].phase = "loaded" /\ DOMAIN txn'[r].wrote = {}
      /\ DOMAIN d = DOMAIN new
  BY FreshDirty
<1>2. \A p : Applied(p)' = Applied(p)
  BY DEF Applied
<1>3. CreatesOrder(o, d[OrderKey(o)]) => CreatesOrder(o, txn[r].dirty[OrderKey(o)])'
  BY DEF CreatesOrder
<1>4. MovesOrder(o, d[OrderKey(o)]) => MovesOrder(o, txn[r].dirty[OrderKey(o)])'
  BY <1>2 DEF MovesOrder
<1>5. Decides(d[EscrowKey(o)]) => Decides(txn[r].dirty[EscrowKey(o)])'
  BY DEF Decides
<1>6. ASSUME NEW p \in Orders
      PROVE  (/\ OrderKey(p) \in DOMAIN txn[r].dirty =>
                    \/ CreatesOrder(p, txn[r].dirty[OrderKey(p)])
                    \/ MovesOrder(p, txn[r].dirty[OrderKey(p)])
              /\ EscrowKey(p) \in DOMAIN txn[r].dirty =>
                    /\ Applied(p) > 0
                    /\ \/ Decides(txn[r].dirty[EscrowKey(p)])
                       \/ Repairs(p, txn[r].dirty[EscrowKey(p)])
              /\ IngestedKey(p) \notin DOMAIN txn[r].dirty)'
  <2>1. OrderKey(p) \in DOMAIN d => p = o
    BY <1>1, KeysApart
  <2>2. EscrowKey(p) \in DOMAIN d => p = o
    BY <1>1, KeysApart
  <2>3. IngestedKey(p) \notin DOMAIN d
    BY <1>1, KeysApart
  <2>4. CASE p = o
    BY <1>1, <1>2, <1>3, <1>4, <1>5, <2>3, <2>4
  <2>5. CASE p # o
    BY <1>1, <2>1, <2>2, <2>3, <2>5
  <2>6. QED
    BY <2>4, <2>5
<1>7. RequestReady(r)'
  BY <1>1, <1>6 DEF RequestReady
<1>8. DOMAIN new \subseteq Keys
  BY KeysOfOrders
<1>9. \A p \in Orders : db[OrderKey(p)] = NoOrder /\ OrderKey(p) \in DOMAIN new
         => \A q \in Processes : ~Touches(q, OrderKey(p))
  BY KeysApart
<1>10. QED
  BY <1>7, <1>8, <1>9, RequestLoads

LEMMA CreateOrderKeeps ==
    ASSUME DeskAssumption, DeskInv, NEW r \in Requests, NEW o \in Orders,
           CreateOrder(r, o)
    PROVE  DeskInv'
<1>. DEFINE order == [NoOrder EXCEPT !.status = "pending"]
            count == [db[ServiceKey] EXCEPT !.order_count = @ + 1]
            new == Over(Just(OrderKey(o), order), Just(ServiceKey, count))
            d == txn'[r].dirty
<1>1. /\ txn[r].phase = "closed" /\ db[OrderKey(o)] = NoOrder
      /\ \A q \in Processes : ~Touches(q, OrderKey(o))
      /\ Loaded(r, new) /\ chain' = chain /\ db' = db /\ premature' = premature
  BY DEF CreateOrder, Load, Touches
<1>2. /\ db[ServiceKey] = [order_count |-> db[ServiceKey].order_count]
      /\ db[ServiceKey].order_count \in Nat /\ premature \subseteq Orders
  BY DEF DeskInv, Committed
<1>3. /\ DOMAIN order = {"status", "funded_at", "delivered_at", "completed_at"}
      /\ order.status = "pending"
      /\ \A c \in DOMAIN order : order[c] # NoOrder[c] <=> c = "status"
  BY DEF NoOrder
<1>4. /\ DOMAIN count = {"order_count"} /\ count.order_count = db[ServiceKey].order_count + 1
      /\ count.order_count \in Nat
  <2>1. DOMAIN db[ServiceKey] = {"order_count"}
    BY <1>2
  <2>2. QED
    BY <1>2, <2>1
<1>. HIDE DEF order, count
<1>5. /\ DOMAIN new = {OrderKey(o), ServiceKey}
      /\ new[OrderKey(o)] = order /\ new[ServiceKey] = count
  BY KeysApart DEF Over, Just
<1>. HIDE DEF new
<1>6. \A k \in {OrderKey(o), ServiceKey} :
         /\ DOMAIN d[k] = {c \in DOMAIN new[k] : new[k][c] # db[k][c]}
         /\ \A c \in DOMAIN d[k] : d[k][c] = new[k][c]
  BY <1>1, <1>5, FreshDirty
<1>7. DOMAIN d[OrderKey(o)] = {"status"} /\ d[OrderKey(o)]["status"] = "pending"
  BY <1>1, <1>3, <1>5, <1>6
<1>8. CreatesOrder(o, d[OrderKey(o)])
  BY <1>1, <1>7 DEF CreatesOrder
<1>9. /\ DOMAIN d[ServiceKey] \subseteq {"order_count"}
      /\ \A c \in DOMAIN d[ServiceKey] : d[ServiceKey][c] \in Nat
  BY <1>4, <1>5, <1>6
<1>10. /\ EscrowKey(o) \notin DOMAIN new
       /\ DOMAIN new \subseteq {OrderKey(o), EscrowKey(o), ServiceKey}
  BY <1>5, KeysApart
<1>11. QED
  BY <1>1, <1>2, <1>8, <1>9, <1>10, RequestLoadsOf

LEMMA MoveKeeps ==
    ASSUME DeskAssumption, DeskInv, NEW r \in Requests, NEW o \in Orders,
           txn[r].phase = "closed",
           db[OrderKey(o)].status \in {"funded", "in_progress"},
           NEW order, DOMAIN order = DOMAIN db[OrderKey(o)],
           order.status \in {"in_progress", "delivered"}, order.status # db[OrderKey(o)].status,
           order.delivered_at # db[OrderKey(o)].delivered_at => order.delivered_at = TRUE,
           order.funded_at = db[OrderKey(o)].funded_at,
           order.completed_at = db[OrderKey(o)].completed_at,
           Load(r, Just(OrderKey(o), order))
    PROVE  DeskInv'
<1>. DEFINE new == Just(OrderKey(o), order)
            d == txn'[r].dirty
<1>1. /\ Loaded(r, new) /\ chain' = chain /\ db' = db /\ premature' = premature
      /\ premature \subseteq Orders
  BY DEF Load, DeskInv
<1>2. DOMAIN new = {OrderKey(o)} /\ new[OrderKey(o)] = order
  BY DEF Just
<1>. HIDE DEF new
<1>3. /\ db[OrderKey(o)] \in OrderRow
      /\ Applied(o) \in Nat /\ Applied(o) > 0 /\ db[OrderKey(o)] # NoOrder
  BY CommittedFacts DEF NoOrder
<1>4. DOMAIN order = {"status", "funded_at", "delivered_at", "completed_at"}
  BY <1>3 DEF OrderRow
<1>5. /\ DOMAIN d[OrderKey(o)] = {c \in DOMAIN order : order[c] # db[OrderKey(o)][c]}
      /\ \A c \in DOMAIN d[OrderKey(o)] : d[OrderKey(o)][c] = order[c]
  BY <1>1, <1>2, FreshDirty
<1>6. MovesOrder(o, d[OrderKey(o)])
  BY <1>3, <1>4, <1>5 DEF MovesOrder
<1>7. /\ EscrowKey(o) \notin DOMAIN new /\ ServiceKey \notin DOMAIN new
      /\ DOMAIN new \subseteq {OrderKey(o), EscrowKey(o), ServiceKey}
  BY <1>2, KeysApart
<1>8. QED
  BY <1>1, <1>3, <1>6, <1>7, RequestLoadsOf

LEMMA StartWorkKeeps ==
    ASSUME DeskAssumption, DeskInv, NEW r \in Requests, NEW o \in Orders,
           StartWork(r, o)
    PROVE  DeskInv'
<1>. DEFINE old == db[OrderKey(o)]
            order == [old EXCEPT !.status = "in_progress"]
<1>1. old \in OrderRow
  BY CommittedFacts
<1>2. txn[r].phase = "closed" /\ old.status = "funded" /\ Load(r, Just(OrderKey(o), order))
  BY DEF StartWork, Startable
<1>. HIDE DEF old
<1>3. /\ DOMAIN order = DOMAIN old /\ order.status = "in_progress"
      /\ order.delivered_at = old.delivered_at /\ order.funded_at = old.funded_at
      /\ order.completed_at = old.completed_at
  BY <1>1 DEF OrderRow
<1>. HIDE DEF order
<1>4. QED
  BY <1>2, <1>3, MoveKeeps DEF old

LEMMA MarkDeliveredKeeps ==
    ASSUME DeskAssumption, DeskInv, NEW r \in Requests, NEW o \in Orders,
           MarkDelivered(r, o)
    PROVE  DeskInv'
<1>. DEFINE old == db[OrderKey(o)]
            order == [old EXCEPT !.status = "delivered", !.delivered_at = TRUE]
<1>1. old \in OrderRow
  BY CommittedFacts
<1>2. /\ txn[r].phase = "closed" /\ old.status \in {"funded", "in_progress"}
      /\ Load(r, Just(OrderKey(o), order))
  BY DEF MarkDelivered
<1>. HIDE DEF old
<1>3. /\ DOMAIN order = DOMAIN old /\ order.status = "delivered"
      /\ order.delivered_at = TRUE /\ order.funded_at = old.funded_at
      /\ order.completed_at = old.completed_at
  BY <1>1 DEF OrderRow
<1>. HIDE DEF order
<1>4. QED
  BY <1>2, <1>3, MoveKeeps DEF old

LEMMA RecordDecisionKeeps ==
    ASSUME DeskAssumption, DeskInv, NEW r \in Requests, NEW o \in Orders,
           NEW share \in Shares,
           RecordDecision(r, o, share)
    PROVE  DeskInv'
<1>. DEFINE old == db[EscrowKey(o)]
            words == SettlementResolution(share, old.amount - share)
            escrow == [old EXCEPT !.dispute_provider_amount = {share},
                                  !.dispute_resolution = words,
                                  !.dispute_resolved_at = TRUE]
            new == Just(EscrowKey(o), escrow)
            d == txn'[r].dirty
<1>1. /\ txn[r].phase = "closed" /\ db[OrderKey(o)].status = "disputed"
      /\ share <= old.amount /\ Load(r, new)
  BY DEF RecordDecision
<1>2. old \in EscrowRow /\ Applied(o) \in Nat /\ Applied(o) > 0 /\ db[OrderKey(o)] # NoOrder
  BY <1>1, CommittedFacts DEF NoOrder
<1>3. words \in {"released_to_provider", "refunded_to_buyer", "split"} /\ share \in Nat
  <2>1. share \in Nat /\ old.amount \in Nat /\ old.amount - share \in Nat
    BY <1>1, <1>2, DeskConstants DEF EscrowRow
  <2>2. QED
    BY <2>1, ResolutionNames
<1>4. /\ Loaded(r, new) /\ chain' = chain /\ db' = db /\ premature' = premature
      /\ premature \subseteq Orders
  BY <1>1 DEF Load, DeskInv
<1>. HIDE DEF words, old
<1>5. /\ DOMAIN escrow = Columns /\ escrow.dispute_provider_amount = {share}
      /\ escrow.dispute_resolution = words /\ escrow.dispute_resolved_at = TRUE
      /\ \A c \in Columns \ DecisionColumns : escrow[c] = old[c]
  BY <1>2 DEF EscrowRow, Columns, DecisionColumns
<1>. HIDE DEF escrow
<1>6. DOMAIN new = {EscrowKey(o)} /\ new[EscrowKey(o)] = escrow
  BY DEF Just
<1>. HIDE DEF new
<1>7. /\ DOMAIN d[EscrowKey(o)] = {c \in Columns : escrow[c] # old[c]}
      /\ \A c \in DOMAIN d[EscrowKey(o)] : d[EscrowKey(o)][c] = escrow[c]
  BY <1>1, <1>4, <1>5, <1>6, FreshDirty DEF old
<1>8. Decides(d[EscrowKey(o)])
  BY <1>3, <1>5, <1>7 DEF Decides
<1>9. /\ OrderKey(o) \notin DOMAIN new /\ ServiceKey \notin DOMAIN new
      /\ DOMAIN new \subseteq {OrderKey(o), EscrowKey(o), ServiceKey}
  BY <1>6, KeysApart
<1>10. QED
  BY <1>1, <1>2, <1>4, <1>8, <1>9, RequestLoadsOf

\* What the latest block says, a step ahead of the confirmed events or not.
LEMMA AheadIsRow ==
    ASSUME DeskAssumption, DeskInv, NEW o \in Orders,
           NEW ahead \in {<<>>} \cup {<<event>> : event \in Upcoming(o)}
    PROVE  LET onChain == Projected(chain[o] \o ahead) IN
           /\ onChain.amount \in Nat /\ onChain.released_amount \in Nat
           /\ onChain.refunded_amount \in Nat
           /\ ahead = <<>> => onChain = Confirmed(o)
<1>. DEFINE s == chain[o] \o ahead
            S == EventsOf(o, Amount, FeeBps, Shares)
<1>1. Legal(o, chain[o]) /\ chain[o] \in Seq(S)
  BY CommittedFacts, LegalSequence
<1>. HIDE DEF S
<1>2. Legal(o, s) /\ (ahead = <<>> => s = chain[o])
  <2>1. CASE ahead = <<>>
    BY <1>1, <2>1
  <2>2. ASSUME NEW event \in Upcoming(o),
               ahead = <<event>> PROVE Legal(o, s) /\ ahead # <<>>
    <3>1. /\ event \in EventsOf(o, Amount, FeeBps, Shares)
          /\ Follows(event.name) = IF chain[o] = <<>> THEN "none" ELSE Last(chain[o]).name
      BY DEF Upcoming
    <3>2. Legal(o, Append(chain[o], event)) /\ s = Append(chain[o], event)
      BY <1>1, <2>2, <3>1, LegalNext
    <3>3. QED
      BY <2>2, <3>2
  <2>3. QED
    BY <2>1, <2>2
<1>. HIDE DEF s
<1>3. s \in Seq(S) /\ Len(s) \in Nat /\ Len(s) <= 3
  BY <1>2, LegalSequence DEF S
<1>4. Projected(s) = RowAt(s, Len(s))
  BY <1>3, ProjectedIsRowAt
<1>5. RowAt(s, Len(s)) \in EscrowRow
  <2>1. Len(s) = 0 \/ Len(s) > 0
    BY <1>3
  <2>2. QED
    BY <1>2, <1>3, <2>1, RowFacts, NoRowFields DEF SoundRow
<1>6. QED
  BY <1>2, <1>4, <1>5 DEF EscrowRow, Confirmed, Row, s

\* The figures of an escrow move once: when it is closed.
LEMMA FiguresOnce ==
    ASSUME DeskAssumption, DeskInv, NEW o \in Orders, Applied(o) > 0,
           o \notin premature,
           ~SameFigures(db[EscrowKey(o)], Confirmed(o))
    PROVE  /\ SameFigures(db[EscrowKey(o)], Row(o, 1)) /\ chain[o] # <<>>
           /\ Closes(chain[o][Len(chain[o])])
<1>. DEFINE n == Applied(o)
            row == db[EscrowKey(o)]
            len == Len(chain[o])
<1>1. /\ Legal(o, chain[o]) /\ n \in Nat /\ n > 0 /\ n <= len /\ len \in Nat
      /\ FiguresFit(o, row, n)
  BY CommittedFacts, LengthNow
<1>2. SameFigures(row, Row(o, n)) /\ ~SameFigures(row, Confirmed(o))
  BY <1>1 DEF FiguresFit
<1>. HIDE DEF row
<1>3. /\ SoundRow(Row(o, n)) /\ SoundRow(Row(o, 1)) /\ SoundRow(Confirmed(o))
      /\ Row(o, n).status \in {"released", "refunded"} => n = len
      /\ Row(o, 1).status \in {"released", "refunded"} => len = 1
      /\ Closes(chain[o][len]) <=> Confirmed(o).status \in {"released", "refunded"}
  <2>1. 1 \in Nat /\ 1 <= len /\ 1 > 0 /\ len > 0 /\ len <= len
    BY <1>1
  <2>2. SoundRow(Row(o, n)) /\ (Row(o, n).status \in {"released", "refunded"} => n = len)
    BY <1>1, RowNow
  <2>3. SoundRow(Row(o, 1)) /\ (Row(o, 1).status \in {"released", "refunded"} => 1 = len)
    BY <1>1, <2>1, RowNow
  <2>4. /\ SoundRow(Row(o, len))
        /\ Closes(chain[o][len]) <=> Row(o, len).status \in {"released", "refunded"}
    BY <1>1, <2>1, RowNow
  <2>5. QED
    BY <2>2, <2>3, <2>4 DEF Confirmed
<1>. HIDE DEF n
<1>4. n # len
  BY <1>2 DEF Confirmed, len
<1>5. ~(Row(o, n).status \in {"released", "refunded"})
  BY <1>3, <1>4
<1>6. row.amount = Amount /\ row.released_amount = 0 /\ row.refunded_amount = 0
  BY <1>2, <1>3, <1>5 DEF SameFigures, InSync, SoundRow
<1>7. Confirmed(o).status \in {"released", "refunded"}
  BY <1>2, <1>3, <1>6 DEF SameFigures, InSync, SoundRow
<1>8. len # 1
  <2>1. n \in Nat /\ len \in Nat /\ n > 0 /\ n <= len /\ n # len
    BY <1>1, <1>4
  <2>. HIDE DEF len
  <2>2. QED
    BY <2>1
<1>9. SameFigures(row, Row(o, 1))
  BY <1>3, <1>6, <1>8 DEF SameFigures, InSync, SoundRow
<1>10. chain[o] # <<>>
  BY <1>1
<1>11. QED
  BY <1>3, <1>7, <1>9, <1>10 DEF row

LEMMA RepairOrderKeeps ==
    ASSUME DeskAssumption, DeskInv, NEW r \in Requests, NEW o \in Orders,
           RepairOrder(r, o)
    PROVE  DeskInv'
<1>. DEFINE old == db[EscrowKey(o)]
<1>1. /\ txn[r].phase = "closed" /\ old.status # "absent" /\ chain' = chain /\ db' = db
  BY DEF RepairOrder
<1>2. PICK ahead \in {<<>>} \cup {<<event>> : event \in Upcoming(o)} :
         LET onChain == Projected(chain[o] \o ahead) IN
         /\ ~InSync(old, onChain.amount, onChain.released_amount, onChain.refunded_amount)
         /\ Loaded(r, Just(EscrowKey(o),
               [c \in DOMAIN old |-> IF c \in Figures THEN onChain[c] ELSE old[c]]))
         /\ premature' = IF ahead = <<>> THEN premature ELSE premature \cup {o}
  BY DEF RepairOrder
<1>. DEFINE onChain == Projected(chain[o] \o ahead)
            escrow == [c \in DOMAIN old |-> IF c \in Figures THEN onChain[c] ELSE old[c]]
            new == Just(EscrowKey(o), escrow)
            d == txn'[r].dirty
<1>3. /\ ~InSync(old, onChain.amount, onChain.released_amount, onChain.refunded_amount)
      /\ Loaded(r, new)
      /\ premature' = IF ahead = <<>> THEN premature ELSE premature \cup {o}
  BY <1>2
<1>4. /\ onChain.amount \in Nat /\ onChain.released_amount \in Nat
      /\ onChain.refunded_amount \in Nat
      /\ ahead = <<>> => onChain = Confirmed(o)
  BY AheadIsRow
<1>. HIDE DEF onChain
<1>5. /\ old \in EscrowRow /\ Applied(o) \in Nat /\ Applied(o) > 0
      /\ db[OrderKey(o)] # NoOrder /\ premature \subseteq Orders
  BY <1>1, CommittedFacts DEF NoOrder, DeskInv
<1>6. /\ DOMAIN escrow = Columns
      /\ \A c \in Figures : escrow[c] = onChain[c] /\ onChain[c] \in Nat
      /\ \A c \in Columns \ Figures : escrow[c] = old[c]
  BY <1>4, <1>5 DEF EscrowRow, Columns, Figures
<1>. HIDE DEF escrow
<1>7. DOMAIN new = {EscrowKey(o)} /\ new[EscrowKey(o)] = escrow
  BY DEF Just
<1>. HIDE DEF new
<1>8. /\ DOMAIN d[EscrowKey(o)] = {c \in Columns : escrow[c] # old[c]}
      /\ \A c \in DOMAIN d[EscrowKey(o)] : d[EscrowKey(o)][c] = escrow[c]
  BY <1>1, <1>3, <1>6, <1>7, FreshDirty
<1>9. ASSUME o \notin premature'
      PROVE  /\ chain[o] # <<>> /\ Closes(chain[o][Len(chain[o])])
             /\ \A c \in Figures :
                   Confirmed(o)[c] = IF c \in DOMAIN d[EscrowKey(o)] THEN d[EscrowKey(o)][c]
                                     ELSE Row(o, 1)[c]
  <2>1. ahead = <<>> /\ o \notin premature /\ onChain = Confirmed(o)
    BY <1>3, <1>4, <1>9
  <2>2. ~SameFigures(old, Confirmed(o))
    BY <1>3, <2>1 DEF SameFigures
  <2>3. /\ SameFigures(old, Row(o, 1)) /\ chain[o] # <<>>
        /\ Closes(chain[o][Len(chain[o])])
    BY <1>5, <2>1, <2>2, FiguresOnce
  <2>4. \A c \in Figures : Row(o, 1)[c] = old[c]
    BY <2>3 DEF SameFigures, InSync, Figures
  <2>5. Figures \subseteq Columns
    BY DEF Figures, Columns
  <2>6. QED
    BY <1>6, <1>8, <2>1, <2>3, <2>4, <2>5
<1>10. Repairs(o, txn[r].dirty[EscrowKey(o)])'
  <2>1. /\ Confirmed(o)' = Confirmed(o) /\ Row(o, 1)' = Row(o, 1)
    BY <1>1 DEF Confirmed, Row
  <2>2. DOMAIN d[EscrowKey(o)] \subseteq Figures
    BY <1>6, <1>8
  <2>3. \A c \in DOMAIN d[EscrowKey(o)] : d[EscrowKey(o)][c] \in Nat
    BY <1>6, <1>8, <2>2
  <2>4. QED
    BY <1>1, <1>9, <2>1, <2>2, <2>3 DEF Repairs
<1>11. /\ OrderKey(o) \notin DOMAIN new /\ ServiceKey \notin DOMAIN new
       /\ DOMAIN new \subseteq {OrderKey(o), EscrowKey(o), ServiceKey}
       /\ premature \subseteq premature' /\ premature' \subseteq Orders
  BY <1>3, <1>5, <1>7, KeysApart
<1>12. QED
  BY <1>1, <1>3, <1>5, <1>10, <1>11, RequestLoadsOf

-----------------------------------------------------------------------------
(* Transactions end, and requests flush.                                   *)

\* An indexer without a transaction sees what is committed.
LEMMA FreshSees ==
    ASSUME Committed', DOMAIN txn'[Worker].wrote = {}
    PROVE  WorkerSees'
<1>1. \A k : Visible(Worker, k)' = db'[k]
  BY DEF Visible
<1>2. \A o : Seen(o)' = Applied(o)'
  BY <1>1 DEF Seen, Applied
<1>3. ASSUME NEW o \in Orders
      PROVE (/\ RowsFit(o, Visible(Worker, OrderKey(o)), Visible(Worker, EscrowKey(o)), Seen(o))
             /\ Applied(o) <= Seen(o)
             /\ Visible(Worker, IngestedKey(o)) = [events |-> Seen(o)]
             /\ IngestedKey(o) \in DOMAIN txn[Worker].wrote
                   => {OrderKey(o), EscrowKey(o)} \subseteq DOMAIN txn[Worker].wrote
             /\ OrderKey(o) \in DOMAIN txn[Worker].wrote => Seen(o) > 0
             /\ db[EscrowKey(o)].dispute_provider_amount # {}
                   => Visible(Worker, EscrowKey(o)).dispute_provider_amount # {})'
  <2>1. /\ RowsFit(o, db[OrderKey(o)], db[EscrowKey(o)], Applied(o))'
        /\ (db[IngestedKey(o)] = [events |-> Applied(o)])'
    BY DEF Committed
  <2>2. Applied(o)' \in Nat
    BY <2>1 DEF RowsFit
  <2>3. Applied(o)' <= Seen(o)'
    BY <1>2, <2>2
  <2>4. QED
    BY <1>1, <1>2, <2>1, <2>3
<1>4. QED
  BY <1>3 DEF WorkerSees

LEMMA Abandoned ==
    ASSUME DeskInv, NEW p \in Processes, txn' = [txn EXCEPT ![p] = Closed],
           chain' = chain, db' = db, premature' = premature
    PROVE  DeskInv'
<1>1. /\ txn' = [txn EXCEPT ![p] = [phase |-> "closed", dirty |-> <<>>, wrote |-> <<>>]]
      /\ DOMAIN <<>> = {} /\ "closed" \in {"closed", "loaded", "flushed"}
  BY DEF Closed
<1>2. txn'[p].phase = "closed" /\ DOMAIN txn'[p].dirty = {} /\ DOMAIN txn'[p].wrote = {}
  <2>1. DOMAIN txn = Processes
    BY DEF DeskInv
  <2>2. QED
    BY <1>1, <2>1
<1>3. p \in Requests => RequestReady(p)' /\ RequestWrote(p)'
  BY <1>2 DEF RequestReady, RequestWrote
<1>4. p = Worker => WorkerSees' /\ PendingSomewhere'
  <2>1. Committed'
    BY CommittedKept DEF DeskInv
  <2>2. QED
    BY <1>2, <2>1, FreshSees DEF PendingSomewhere
<1>5. premature \subseteq Orders
  BY DEF DeskInv
<1>. DEFINE none == <<>>
<1>6. /\ txn' = [txn EXCEPT ![p] = [phase |-> "closed", dirty |-> none, wrote |-> none]]
      /\ DOMAIN none = {}
  BY <1>1
<1>. HIDE DEF none
<1>7. /\ DOMAIN none \subseteq Keys
      /\ \A q \in Processes \ {p} : DOMAIN none \cap DOMAIN txn[q].wrote = {}
      /\ \A o : OrderKey(o) \notin DOMAIN none \cup DOMAIN none
  BY <1>6
<1>8. QED
  BY <1>1, <1>3, <1>4, <1>5, <1>6, <1>7, Turn

\* The rows of a transaction once its changes are flushed.
LEMMA FlushedRows ==
    ASSUME DeskInv, NEW p \in Processes
    PROVE  LET dirty == txn[p].dirty
               updated == {k \in DOMAIN dirty : DOMAIN dirty[k] # {}}
           IN
           /\ DOMAIN Flushed(p) = updated \cup DOMAIN txn[p].wrote
           /\ \A k \in updated : Flushed(p)[k] = Over(dirty[k], Visible(p, k))
           /\ \A k \in DOMAIN txn[p].wrote \ updated : Flushed(p)[k] = txn[p].wrote[k]
<1>. DEFINE dirty == txn[p].dirty
            updated == {k \in DOMAIN dirty : DOMAIN dirty[k] # {}}
            new == [k \in updated |-> Over(dirty[k], Visible(p, k))]
<1>1. Flushed(p) = Over(new, txn[p].wrote)
  BY DEF Flushed
<1>2. DOMAIN new = updated /\ \A k \in updated : new[k] = Over(dirty[k], Visible(p, k))
  OBVIOUS
<1>. HIDE DEF updated, new, dirty
<1>3. /\ DOMAIN Flushed(p) = DOMAIN new \cup DOMAIN txn[p].wrote
      /\ \A k \in DOMAIN new : Flushed(p)[k] = new[k]
      /\ \A k \in DOMAIN txn[p].wrote \ DOMAIN new : Flushed(p)[k] = txn[p].wrote[k]
  BY <1>1 DEF Over
<1>4. QED
  BY <1>2, <1>3 DEF updated, dirty

LEMMA FlushTurn ==
    ASSUME DeskInv, NEW p \in Processes, Flush(p),
           p \in Requests => RequestWrote(p)',
           p = Worker => WorkerSees'
    PROVE  DeskInv'
<1>. DEFINE w == Flushed(p)
<1>1. /\ txn' = [txn EXCEPT ![p] = [phase |-> "flushed", dirty |-> <<>>, wrote |-> w]]
      /\ chain' = chain /\ db' = db /\ premature' = premature
      /\ \A q \in Processes \ {p} : DOMAIN w \cap DOMAIN txn[q].wrote = {}
      /\ DOMAIN <<>> = {} /\ "flushed" \in {"closed", "loaded", "flushed"}
      /\ premature \subseteq Orders
  BY DEF Flush, LocksFree, DeskInv
<1>2. txn'[p].phase = "flushed" /\ DOMAIN txn'[p].dirty = {}
  <2>1. DOMAIN txn = Processes
    BY DEF DeskInv
  <2>2. QED
    BY <1>1, <2>1
<1>3. /\ DOMAIN w \subseteq DOMAIN txn[p].dirty \cup DOMAIN txn[p].wrote
      /\ DOMAIN w \subseteq Keys
      /\ p = Worker => ServiceKey \notin DOMAIN txn[p].wrote
  <2>1. TxnShape(p)
    BY DEF DeskInv
  <2>2. QED
    BY <2>1, FlushedRows DEF TxnShape
<1>. HIDE DEF w
<1>4. p = Worker => ServiceKey \notin DOMAIN w
  <2>1. SUFFICES ASSUME p = Worker, ServiceKey \in DOMAIN txn[Worker].dirty PROVE FALSE
    BY <1>3
  <2>2. txn[Worker].phase = "loaded"
    BY <2>1 DEF Flush
  <2>3. PICK o \in Orders, m \in 1 .. 3 : Pending(o, m)
    BY <2>2 DEF DeskInv, PendingSomewhere
  <2>4. QED
    BY <2>1, <2>3, KeysApart DEF Pending
<1>5. \A o \in Orders : OrderKey(o) \in DOMAIN <<>> \cup DOMAIN w => Touches(p, OrderKey(o))
  BY <1>1, <1>3 DEF Touches
<1>6. p \in Requests => RequestReady(p)'
  BY <1>2 DEF RequestReady
<1>7. p = Worker => PendingSomewhere'
  BY <1>2 DEF PendingSomewhere
<1>8. QED
  BY <1>1, <1>3, <1>4, <1>5, <1>6, <1>7, Turn

\* What a request's transaction writes of an order fits what is committed.
LEMMA RequestOrderFits ==
    ASSUME DeskAssumption, DeskInv, NEW r \in Requests, NEW o \in Orders,
           OrderKey(o) \in DOMAIN txn[r].dirty,
           NEW w, w = Over(txn[r].dirty[OrderKey(o)], db[OrderKey(o)]), OrderChecks(w)
    PROVE  /\ OrderFits(w, Row(o, Applied(o)).status) /\ w.status # "absent"
           /\ Applied(o) = 0 => db[OrderKey(o)] = NoOrder
<1>. DEFINE d == txn[r].dirty[OrderKey(o)]
<1>1. CreatesOrder(o, d) \/ MovesOrder(o, d)
  BY DEF DeskInv, RequestReady
<1>2. w = Over(d, db[OrderKey(o)])
  OBVIOUS
<1>. HIDE DEF d
<1>3. /\ OrderFits(db[OrderKey(o)], Row(o, Applied(o)).status)
      /\ Row(o, Applied(o)).status = "absent" <=> Applied(o) = 0
      /\ db[OrderKey(o)] = NoOrder => Applied(o) = 0
      /\ Applied(o) \in Nat
  BY CommittedFacts
<1>4. CASE CreatesOrder(o, d)
  <2>1. OrderFits(w, "absent") /\ w.status = "pending"
    BY <1>2, <1>4, OrderCreated DEF CreatesOrder
  <2>2. Row(o, Applied(o)).status = "absent" /\ db[OrderKey(o)] = NoOrder
    BY <1>3, <1>4 DEF CreatesOrder
  <2>3. QED
    BY <2>1, <2>2
<1>5. CASE MovesOrder(o, d)
  <2>1. Applied(o) # 0 /\ Row(o, Applied(o)).status # "absent"
    BY <1>3, <1>5 DEF MovesOrder
  <2>2. OrderFits(w, Row(o, Applied(o)).status)
    BY <1>2, <1>3, <1>5, <2>1, OrderMovedOn DEF MovesOrder
  <2>3. w.status # "absent"
    BY <2>1, <2>2 DEF OrderFits
  <2>4. QED
    BY <2>1, <2>2, <2>3
<1>6. QED
  BY <1>1, <1>4, <1>5

\* What it writes of an escrow does.
LEMMA RequestRowFits ==
    ASSUME DeskAssumption, DeskInv, NEW r \in Requests, NEW o \in Orders,
           EscrowKey(o) \in DOMAIN txn[r].dirty,
           NEW w, w = Over(txn[r].dirty[EscrowKey(o)], db[EscrowKey(o)]), RowChecks(w)
    PROVE  /\ Applied(o) > 0
           /\ EscrowFits(w, Row(o, Applied(o)))
           /\ FiguresFit(o, w, Applied(o))
           /\ db[EscrowKey(o)].dispute_resolved_at => w.dispute_resolved_at
           /\ db[EscrowKey(o)].dispute_provider_amount # {} => w.dispute_provider_amount # {}
           /\ o \notin premature =>
                 SameFigures(w, db[EscrowKey(o)]) \/ SameFigures(w, Confirmed(o))
<1>. DEFINE d == txn[r].dirty[EscrowKey(o)]
            row == db[EscrowKey(o)]
            base == Row(o, Applied(o))
<1>1. Applied(o) > 0 /\ (Decides(d) \/ Repairs(o, d))
  BY DEF DeskInv, RequestReady
<1>2. w = Over(d, row)
  OBVIOUS
<1>3. EscrowFits(row, base) /\ base.status # "absent" /\ FiguresFit(o, row, Applied(o))
  BY <1>1, CommittedFacts
<1>. HIDE DEF d
<1>4. CASE Decides(d)
  <2>1. /\ EscrowFits(w, base) /\ SameFigures(w, row)
        /\ row.dispute_resolved_at => w.dispute_resolved_at
        /\ row.dispute_provider_amount # {} => w.dispute_provider_amount # {}
    <3>. HIDE DEF base, row
    <3>1. QED
      BY <1>2, <1>3, <1>4, RowDecided
  <2>2. FiguresFit(o, w, Applied(o))
    BY <1>3, <2>1 DEF FiguresFit, SameFigures, InSync
  <2>3. QED
    BY <1>1, <2>1, <2>2
<1>5. CASE Repairs(o, d)
  <2>1. /\ EscrowFits(w, base)
        /\ \A c \in Figures : w[c] = IF c \in DOMAIN d THEN d[c] ELSE row[c]
        /\ w.dispute_resolved_at = row.dispute_resolved_at
        /\ w.dispute_provider_amount = row.dispute_provider_amount
    <3>. HIDE DEF base, row
    <3>1. QED
      BY <1>2, <1>3, <1>5, RowRepaired DEF Repairs
  <2>2. ASSUME o \notin premature PROVE SameFigures(w, Confirmed(o))
    <3>1. \A c \in Figures : Confirmed(o)[c] = IF c \in DOMAIN d THEN d[c] ELSE Row(o, 1)[c]
      BY <1>5, <2>2 DEF Repairs
    <3>2. CASE SameFigures(row, Confirmed(o))
      BY <2>1, <3>1, <3>2 DEF SameFigures, InSync, Figures
    <3>3. CASE ~SameFigures(row, Confirmed(o))
      <4>1. SameFigures(row, Row(o, 1))
        BY <1>1, <2>2, <3>3, FiguresOnce
      <4>2. QED
        BY <2>1, <3>1, <4>1 DEF SameFigures, InSync, Figures
    <3>4. QED
      BY <3>2, <3>3
  <2>3. QED
    BY <1>1, <2>1, <2>2 DEF FiguresFit
<1>6. QED
  BY <1>1, <1>4, <1>5

LEMMA RequestFlushKeeps ==
    ASSUME DeskAssumption, DeskInv, NEW r \in Requests, Flush(r)
    PROVE  DeskInv'
<1>. DEFINE w == Flushed(r)
            dirty == txn[r].dirty
            updated == {k \in DOMAIN dirty : DOMAIN dirty[k] # {}}
<1>1. /\ r \in Processes /\ r # Worker /\ RequestReady(r) /\ DOMAIN txn = Processes
      /\ DOMAIN db = Keys
  BY DeskConstants DEF Processes, DeskInv, Committed
<1>2. /\ txn[r].phase = "loaded" /\ DOMAIN txn[r].wrote = {} /\ Checks(w)
      /\ txn' = [txn EXCEPT ![r] = [phase |-> "flushed", dirty |-> <<>>, wrote |-> w]]
      /\ chain' = chain /\ db' = db /\ premature' = premature
  BY <1>1 DEF Flush, RequestReady
<1>3. \A k : Visible(r, k) = db[k]
  BY <1>2 DEF Visible
<1>4. DOMAIN w = updated /\ \A k \in updated : w[k] = Over(dirty[k], db[k])
  BY <1>1, <1>2, <1>3, FlushedRows
<1>5. txn'[r].wrote = w
  BY <1>1, <1>2
<1>. HIDE DEF w
<1>6. updated \subseteq DOMAIN dirty
  OBVIOUS
<1>. HIDE DEF updated
<1>7. ASSUME NEW o \in Orders, OrderKey(o) \in DOMAIN w
      PROVE  /\ OrderFits(w[OrderKey(o)], Row(o, Applied(o)).status)
             /\ w[OrderKey(o)].status # "absent"
             /\ Applied(o) = 0 => db[OrderKey(o)] = NoOrder
  <2>1. OrderChecks(w[OrderKey(o)])
    BY <1>2, <1>7, KeysApart DEF Checks
  <2>2. w[OrderKey(o)] = Over(dirty[OrderKey(o)], db[OrderKey(o)])
        /\ OrderKey(o) \in DOMAIN dirty
    BY <1>4, <1>6, <1>7
  <2>3. QED
    BY <2>1, <2>2, RequestOrderFits
<1>8. ASSUME NEW o \in Orders, EscrowKey(o) \in DOMAIN w
      PROVE  /\ Applied(o) > 0
             /\ EscrowFits(w[EscrowKey(o)], Row(o, Applied(o)))
             /\ FiguresFit(o, w[EscrowKey(o)], Applied(o))
             /\ db[EscrowKey(o)].dispute_resolved_at => w[EscrowKey(o)].dispute_resolved_at
             /\ db[EscrowKey(o)].dispute_provider_amount # {}
                   => w[EscrowKey(o)].dispute_provider_amount # {}
             /\ o \notin premature =>
                   \/ SameFigures(w[EscrowKey(o)], db[EscrowKey(o)])
                   \/ SameFigures(w[EscrowKey(o)], Confirmed(o))
  <2>1. RowChecks(w[EscrowKey(o)])
    BY <1>2, <1>8, KeysApart DEF Checks
  <2>2. w[EscrowKey(o)] = Over(dirty[EscrowKey(o)], db[EscrowKey(o)])
        /\ EscrowKey(o) \in DOMAIN dirty
    BY <1>4, <1>6, <1>8
  <2>3. QED
    BY <2>1, <2>2, RequestRowFits
<1>9. \A o \in Orders : IngestedKey(o) \notin DOMAIN w
  BY <1>1, <1>4, <1>6 DEF RequestReady
<1>10. ASSUME ServiceKey \in DOMAIN w
       PROVE  /\ w[ServiceKey] = [order_count |-> w[ServiceKey].order_count]
              /\ w[ServiceKey].order_count \in Nat
  <2>. DEFINE d == dirty[ServiceKey]
              old == db[ServiceKey]
  <2>1. DOMAIN d \subseteq {"order_count"} /\ (\A c \in DOMAIN d : d[c] \in Nat)
        /\ w[ServiceKey] = Over(d, old)
    BY <1>1, <1>4, <1>6, <1>10 DEF RequestReady
  <2>2. old = [order_count |-> old.order_count] /\ old.order_count \in Nat
    BY DEF DeskInv, Committed
  <2>. DEFINE n == old.order_count
  <2>3. old = [order_count |-> n] /\ n \in Nat
    BY <2>2
  <2>. HIDE DEF d, old, n
  <2>4. DOMAIN old = {"order_count"} /\ old["order_count"] = n
    BY <2>3
  <2>5. Over(d, old) = [order_count |-> IF "order_count" \in DOMAIN d THEN d["order_count"] ELSE n]
    BY <2>1, <2>4 DEF Over
  <2>6. QED
    BY <2>1, <2>3, <2>5
<1>11. RequestWrote(r)'
  <2>1. \A o, row, n : /\ Row(o, n)' = Row(o, n) /\ Applied(o)' = Applied(o)
                       /\ Confirmed(o)' = Confirmed(o)
                       /\ FiguresFit(o, row, n)' <=> FiguresFit(o, row, n)
    BY <1>2 DEF Row, Applied, Confirmed, FiguresFit
  <2>3. QED
    BY <1>2, <1>5, <1>7, <1>8, <1>9, <1>10, <2>1 DEF RequestWrote
<1>12. QED
  BY <1>1, <1>11, FlushTurn

-----------------------------------------------------------------------------
(* The worker flushes.                                                     *)

\* The keys it writes.
Updated == {k \in DOMAIN txn[Worker].dirty : DOMAIN txn[Worker].dirty[k] # {}}

\* What it sees of a row once its changes are flushed.
After(k) == IF k \in DOMAIN Flushed(Worker) THEN Flushed(Worker)[k] ELSE db[k]

LEMMA AfterRows ==
    ASSUME DeskInv
    PROVE  /\ DOMAIN Flushed(Worker) = Updated \cup DOMAIN txn[Worker].wrote
           /\ \A k \in Updated : After(k) = Over(txn[Worker].dirty[k], Visible(Worker, k))
           /\ \A k : k \notin Updated => After(k) = Visible(Worker, k)
<1>1. /\ DOMAIN Flushed(Worker) = Updated \cup DOMAIN txn[Worker].wrote
      /\ \A k \in Updated :
            Flushed(Worker)[k] = Over(txn[Worker].dirty[k], Visible(Worker, k))
      /\ \A k \in DOMAIN txn[Worker].wrote \ Updated :
            Flushed(Worker)[k] = txn[Worker].wrote[k]
  <2>1. Worker \in Processes
    BY DEF Processes
  <2>2. QED
    BY <2>1, FlushedRows DEF Updated
<1>2. QED
  BY <1>1 DEF After, Visible

\* A row whose columns are left as they are.
LEMMA UnchangedRow ==
    ASSUME NEW d, DOMAIN d = {}, NEW x, x \in OrderRow \/ x \in EscrowRow
    PROVE  Over(d, x) = x
<1>1. x = [c \in DOMAIN x |-> x[c]]
  BY DEF OrderRow, EscrowRow
<1>2. QED
  BY <1>1, OverNothing

\* The figures of two rows between which nothing was paid.
LEMMA FiguresBetween ==
    ASSUME DeskAssumption, NEW o, Legal(o, chain[o]), NEW n \in Nat, NEW m \in Nat,
           n <= m, m <= Len(chain[o]),
           n > 0, ~Closes(chain[o][m])
    PROVE  \A row : SameFigures(row, Row(o, n)) <=> SameFigures(row, Row(o, m))
<1>1. Len(chain[o]) \in Nat /\ n <= Len(chain[o]) /\ m > 0
  BY LengthNow
<1>2. SoundRow(Row(o, m)) /\ ~(Row(o, m).status \in {"released", "refunded"})
  BY <1>1, RowNow
<1>3. /\ SoundRow(Row(o, n))
      /\ Row(o, n).status \in {"released", "refunded"} => n = Len(chain[o])
  BY <1>1, RowNow
<1>4. ~(Row(o, n).status \in {"released", "refunded"})
  <2>1. n = Len(chain[o]) => n = m
    BY <1>1
  <2>2. QED
    BY <1>2, <1>3, <2>1
<1>5. QED
  BY <1>2, <1>3, <1>4 DEF SoundRow, SameFigures, InSync

\* The rows that the pending event changes fit once it is applied.
LEMMA PendingFits ==
    ASSUME DeskAssumption, DeskInv, NEW o \in Orders, NEW m, Pending(o, m)
    PROVE  /\ RowsFit(o, After(OrderKey(o)), After(EscrowKey(o)), m)
           /\ After(EscrowKey(o)).dispute_provider_amount
                 = Visible(Worker, EscrowKey(o)).dispute_provider_amount
           /\ After(IngestedKey(o)) = [events |-> m]
<1>. DEFINE x == Visible(Worker, OrderKey(o))
            y == Visible(Worker, EscrowKey(o))
            d == txn[Worker].dirty[OrderKey(o)]
            e == txn[Worker].dirty[EscrowKey(o)]
            n == Seen(o)
            a == After(OrderKey(o))
            b == After(EscrowKey(o))
<1>1. /\ Legal(o, chain[o]) /\ n \in Nat /\ n <= Len(chain[o])
      /\ OrderFits(x, Row(o, n).status) /\ EscrowFits(y, Row(o, n)) /\ FiguresFit(o, y, n)
      /\ Visible(Worker, IngestedKey(o)) = [events |-> n]
  BY CommittedFacts DEF DeskInv, WorkerSees, RowsFit
<1>2. /\ m \in Nat /\ 1 <= m /\ m <= Len(chain[o])
      /\ m = n + 1 \/ (m = n /\ chain[o][m].name = "EscrowDisputed")
      /\ MovesOn(o, m) /\ Mirrors(o, m)
      /\ DOMAIN txn[Worker].dirty = {OrderKey(o), EscrowKey(o), IngestedKey(o)}
  BY DEF Pending
<1>3. x \in OrderRow /\ y \in EscrowRow
  BY <1>1 DEF OrderFits, EscrowFits
<1>4. a = Over(d, x)
  <2>1. CASE OrderKey(o) \in Updated
    BY <2>1, AfterRows
  <2>2. CASE OrderKey(o) \notin Updated
    <3>1. DOMAIN d = {}
      BY <1>2, <2>2 DEF Updated
    <3>2. a = x
      BY <2>2, AfterRows
    <3>3. QED
      BY <1>3, <3>1, <3>2, UnchangedRow
  <2>3. QED
    BY <2>1, <2>2
<1>5. b = Over(e, y)
  <2>1. CASE EscrowKey(o) \in Updated
    BY <2>1, AfterRows
  <2>2. CASE EscrowKey(o) \notin Updated
    <3>1. DOMAIN e = {}
      BY <1>2, <2>2 DEF Updated
    <3>2. b = y
      BY <2>2, AfterRows
    <3>3. QED
      BY <1>3, <3>1, <3>2, UnchangedRow
  <2>3. QED
    BY <2>1, <2>2
<1>6. OrderFits(a, Row(o, m).status)
  BY <1>1, <1>2, <1>3, <1>4 DEF MovesOn
<1>7. EscrowFits(b, Row(o, m))
  BY <1>1, <1>2, <1>3, <1>5 DEF Mirrors
<1>8. /\ DOMAIN e \subseteq DOMAIN NoRow \ {"dispute_provider_amount"}
      /\ o \notin premature =>
            IF m = 1 \/ Closes(chain[o][m])
            THEN \A c \in Figures : Row(o, m)[c] = IF c \in DOMAIN e THEN e[c] ELSE y[c]
            ELSE DOMAIN e \cap Figures = {}
  BY <1>2 DEF Mirrors
<1>. HIDE DEF x, y, d, e, a, b
<1>9. DOMAIN y = Columns /\ DOMAIN NoRow = Columns
  BY <1>3 DEF EscrowRow, Columns, NoRow
<1>10. \A c \in Columns : b[c] = IF c \in DOMAIN e THEN e[c] ELSE y[c]
  BY <1>5, <1>9 DEF Over
<1>11. Figures \subseteq Columns /\ "dispute_provider_amount" \in Columns
  BY DEF Figures, Columns
<1>12. b.dispute_provider_amount = y.dispute_provider_amount
  BY <1>8, <1>10, <1>11
<1>13. FiguresFit(o, b, m)
  <2>1. SUFFICES ASSUME o \notin premature
                 PROVE  SameFigures(b, Row(o, m)) \/ SameFigures(b, Confirmed(o))
    BY DEF FiguresFit
  <2>2. CASE m = 1 \/ Closes(chain[o][m])
    <3>1. \A c \in Figures : b[c] = Row(o, m)[c]
      BY <1>8, <1>10, <1>11, <2>1, <2>2
    <3>2. QED
      BY <3>1 DEF SameFigures, InSync, Figures
  <2>3. CASE ~(m = 1 \/ Closes(chain[o][m]))
    <3>1. \A c \in Figures : b[c] = y[c]
      BY <1>8, <1>10, <1>11, <2>1, <2>3
    <3>2. SameFigures(y, Row(o, n)) \/ SameFigures(y, Confirmed(o))
      BY <1>1, <2>1 DEF FiguresFit
    <3>3. SameFigures(b, Row(o, n)) \/ SameFigures(b, Confirmed(o))
      BY <3>1, <3>2 DEF SameFigures, InSync, Figures
    <3>4. n > 0 /\ n <= m
      BY <1>1, <1>2, <2>3
    <3>5. SameFigures(b, Row(o, n)) => SameFigures(b, Row(o, m))
      BY <1>1, <1>2, <2>3, <3>4, FiguresBetween
    <3>6. QED
      BY <3>3, <3>5
  <2>4. QED
    BY <2>2, <2>3
<1>14. After(IngestedKey(o)) = [events |-> m]
  <2>. DEFINE f == txn[Worker].dirty[IngestedKey(o)]
              z == Visible(Worker, IngestedKey(o))
  <2>1. /\ DOMAIN f = IF m = n THEN {} ELSE {"events"}
        /\ \A c \in DOMAIN f : f[c] = m
    BY DEF Pending
  <2>2. z = [events |-> n]
    BY <1>1
  <2>3. CASE m = n
    <3>1. IngestedKey(o) \notin Updated
      BY <2>1, <2>3 DEF Updated
    <3>2. QED
      BY <2>2, <2>3, <3>1, AfterRows
  <2>4. CASE m # n
    <3>1. IngestedKey(o) \in Updated
      BY <1>2, <2>1, <2>4 DEF Updated
    <3>2. After(IngestedKey(o)) = Over(f, z)
      BY <3>1, AfterRows
    <3>. HIDE DEF f, z
    <3>3. DOMAIN z = {"events"} /\ DOMAIN f = {"events"} /\ f["events"] = m
      BY <2>1, <2>2, <2>4
    <3>4. Over(f, z) = [events |-> m]
      BY <3>3 DEF Over
    <3>5. QED
      BY <3>2, <3>4
  <2>5. QED
    BY <2>3, <2>4
<1>15. QED
  BY <1>2, <1>6, <1>7, <1>12, <1>13, <1>14 DEF RowsFit, a, b, y

LEMMA WorkerFlushKeeps ==
    ASSUME DeskAssumption, DeskInv, Flush(Worker)
    PROVE  DeskInv'
<1>. DEFINE w == Flushed(Worker)
<1>1. /\ Worker \in Processes /\ DOMAIN txn = Processes /\ WorkerSees
      /\ Worker \notin Requests
  BY DeskConstants DEF Processes, DeskInv
<1>2. /\ txn[Worker].phase = "loaded"
      /\ txn' = [txn EXCEPT ![Worker] = [phase |-> "flushed", dirty |-> <<>>, wrote |-> w]]
      /\ chain' = chain /\ db' = db /\ premature' = premature
  BY DEF Flush
<1>3. PICK o \in Orders, m \in 1 .. 3 : Pending(o, m)
  BY <1>2 DEF DeskInv, PendingSomewhere
<1>4. txn'[Worker].wrote = w
  BY <1>1, <1>2
<1>5. \A k : Visible(Worker, k)' = After(k)
  BY <1>2, <1>4 DEF Visible, After
<1>6. \A p, n, x, y : RowsFit(p, x, y, n) => RowsFit(p, x, y, n)'
  BY <1>2 DEF RowsFit, FiguresFit, Row, Confirmed
<1>7. \A p : Applied(p)' = Applied(p)
  BY <1>2 DEF Applied
<1>. HIDE DEF w
<1>8. ASSUME NEW p \in Orders
      PROVE (/\ RowsFit(p, Visible(Worker, OrderKey(p)), Visible(Worker, EscrowKey(p)), Seen(p))
             /\ Applied(p) <= Seen(p)
             /\ Visible(Worker, IngestedKey(p)) = [events |-> Seen(p)]
             /\ IngestedKey(p) \in DOMAIN txn[Worker].wrote
                   => {OrderKey(p), EscrowKey(p)} \subseteq DOMAIN txn[Worker].wrote
             /\ OrderKey(p) \in DOMAIN txn[Worker].wrote => Seen(p) > 0
             /\ db[EscrowKey(p)].dispute_provider_amount # {}
                   => Visible(Worker, EscrowKey(p)).dispute_provider_amount # {})'
  <2>0. /\ RowsFit(p, Visible(Worker, OrderKey(p)), Visible(Worker, EscrowKey(p)), Seen(p))
        /\ Applied(p) <= Seen(p)
        /\ Visible(Worker, IngestedKey(p)) = [events |-> Seen(p)]
        /\ IngestedKey(p) \in DOMAIN txn[Worker].wrote
              => {OrderKey(p), EscrowKey(p)} \subseteq DOMAIN txn[Worker].wrote
        /\ OrderKey(p) \in DOMAIN txn[Worker].wrote => Seen(p) > 0
        /\ db[EscrowKey(p)].dispute_provider_amount # {}
              => Visible(Worker, EscrowKey(p)).dispute_provider_amount # {}
        /\ Seen(p) \in Nat /\ Applied(p) \in Nat
    BY <1>1, CommittedFacts DEF WorkerSees, RowsFit
  <2>1. CASE p = o
    <3>1. /\ RowsFit(o, After(OrderKey(o)), After(EscrowKey(o)), m)
          /\ After(EscrowKey(o)).dispute_provider_amount
                = Visible(Worker, EscrowKey(o)).dispute_provider_amount
          /\ After(IngestedKey(o)) = [events |-> m]
      BY <1>3, PendingFits
    <3>2. Seen(o)' = m
      BY <1>5, <3>1 DEF Seen
    <3>3. m \in Nat /\ m > 0 /\ m >= Seen(o)
      BY <1>3, <2>0, <2>1 DEF Pending
    <3>4. Applied(o) <= m
      BY <2>0, <2>1, <3>3
    <3>5. IngestedKey(o) \in DOMAIN w => {OrderKey(o), EscrowKey(o)} \subseteq DOMAIN w
      <4>1. CASE IngestedKey(o) \in DOMAIN txn[Worker].wrote
        BY <2>0, <2>1, <4>1, AfterRows DEF w
      <4>2. CASE IngestedKey(o) \in Updated
        <5>1. m # Seen(o)
          BY <1>3, <4>2 DEF Pending, Updated
        <5>2. OrderKey(o) \in Updated /\ EscrowKey(o) \in Updated
          BY <1>3, <5>1 DEF Pending, Updated
        <5>3. QED
          BY <5>2, AfterRows DEF w
      <4>3. QED
        BY <4>1, <4>2, AfterRows DEF w
    <3>6. RowsFit(o, Visible(Worker, OrderKey(o)), Visible(Worker, EscrowKey(o)), Seen(o))'
      BY <1>5, <1>6, <3>1, <3>2
    <3>7. QED
      BY <1>2, <1>4, <1>5, <1>6, <1>7, <2>0, <2>1, <3>1, <3>2, <3>3, <3>4, <3>5, <3>6
  <2>2. CASE p # o
    <3>1. /\ OrderKey(p) \notin Updated /\ EscrowKey(p) \notin Updated
          /\ IngestedKey(p) \notin Updated
      BY <1>3, <2>2, KeysApart DEF Pending, Updated
    <3>2. /\ Visible(Worker, OrderKey(p))' = Visible(Worker, OrderKey(p))
          /\ Visible(Worker, EscrowKey(p))' = Visible(Worker, EscrowKey(p))
          /\ Visible(Worker, IngestedKey(p))' = Visible(Worker, IngestedKey(p))
      BY <1>5, <3>1, AfterRows
    <3>3. Seen(p)' = Seen(p)
      BY <3>2 DEF Seen
    <3>4. \A k \in {OrderKey(p), EscrowKey(p), IngestedKey(p)} :
             k \in DOMAIN w <=> k \in DOMAIN txn[Worker].wrote
      BY <3>1, AfterRows DEF w
    <3>5. QED
      BY <1>2, <1>4, <1>6, <1>7, <2>0, <3>2, <3>3, <3>4
  <2>3. QED
    BY <2>1, <2>2
<1>9. WorkerSees'
  BY <1>8 DEF WorkerSees
<1>10. QED
  BY <1>1, <1>9, FlushTurn

\* What the worker flushes passes the constraints of the tables.
LEMMA NeverRefused == ASSUME DeskAssumption, DeskInv PROVE WorkerNeverRefused
<1>1. SUFFICES ASSUME txn[Worker].phase = "loaded", premature = {}
               PROVE  Checks(Flushed(Worker))
  BY DEF WorkerNeverRefused
<1>2. PICK o \in Orders, m \in 1 .. 3 : Pending(o, m)
  BY <1>1 DEF DeskInv, PendingSomewhere
<1>3. ASSUME NEW p \in Orders
      PROVE  \E n : RowsFit(p, After(OrderKey(p)), After(EscrowKey(p)), n)
  <2>1. CASE p = o
    BY <1>2, <2>1, PendingFits
  <2>2. CASE p # o
    <3>1. OrderKey(p) \notin Updated /\ EscrowKey(p) \notin Updated
      BY <1>2, <2>2, KeysApart DEF Pending, Updated
    <3>2. /\ After(OrderKey(p)) = Visible(Worker, OrderKey(p))
          /\ After(EscrowKey(p)) = Visible(Worker, EscrowKey(p))
      BY <3>1, AfterRows
    <3>3. QED
      BY <3>2 DEF DeskInv, WorkerSees
  <2>3. QED
    BY <2>1, <2>2
<1>4. ASSUME NEW p \in Orders
      PROVE  OrderChecks(After(OrderKey(p))) /\ RowChecks(After(EscrowKey(p)))
  <2>. DEFINE x == After(OrderKey(p))
              y == After(EscrowKey(p))
  <2>1. PICK n : RowsFit(p, x, y, n)
    BY <1>3
  <2>. HIDE DEF x, y
  <2>2. /\ Legal(p, chain[p]) /\ n \in Nat /\ n <= Len(chain[p])
        /\ OrderFits(x, Row(p, n).status) /\ EscrowFits(y, Row(p, n)) /\ FiguresFit(p, y, n)
        /\ p \notin premature
    BY <1>1, <2>1, CommittedFacts DEF RowsFit
  <2>3. QED
    BY <2>2, OrderFitsChecks, EscrowFitsChecks DEF x, y
<1>5. DOMAIN Flushed(Worker) \subseteq Keys
  <2>1. TxnShape(Worker)
    BY DEF DeskInv, Processes
  <2>2. QED
    BY <2>1, AfterRows DEF TxnShape, Updated
<1>6. ASSUME NEW k \in DOMAIN Flushed(Worker)
      PROVE  /\ k[1] = "orders" => OrderChecks(Flushed(Worker)[k])
             /\ k[1] = "escrows" => RowChecks(Flushed(Worker)[k])
  <2>1. Flushed(Worker)[k] = After(k)
    BY DEF After
  <2>2. CASE k = ServiceKey
    BY <2>2, KeysApart
  <2>3. ASSUME NEW p \in Orders, k \in {OrderKey(p), EscrowKey(p), IngestedKey(p)}
        PROVE  /\ k[1] = "orders" => OrderChecks(Flushed(Worker)[k])
               /\ k[1] = "escrows" => RowChecks(Flushed(Worker)[k])
    BY <1>4, <2>1, <2>3, KeysApart
  <2>4. QED
    BY <1>5, <2>2, <2>3, KeysOfOrders
<1>7. QED
  BY <1>6 DEF Checks

-----------------------------------------------------------------------------
(* The worker loads.                                                       *)

\* What an event makes of an order that fits, laid over any that fits.
LEMMA OrderMovesOn ==
    ASSUME DeskInv, NEW o \in Orders, NEW event, NEW m,
           Moves(event.name, Row(o, Seen(o)).status, Row(o, m).status),
           NEW x, x = Visible(Worker, OrderKey(o)),
           (txn'[Worker].dirty)[OrderKey(o)] = Changed(x, ApplyToOrder(x, event)),
           chain' = chain, Seen(o)' = Seen(o)
    PROVE  /\ MovesOn(o, m)'
           /\ Row(o, Seen(o)).status # Row(o, m).status
                 => DOMAIN (txn'[Worker].dirty)[OrderKey(o)] # {}
<1>. DEFINE new == ApplyToOrder(x, event)
            d == Changed(x, new)
            before == Row(o, Seen(o)).status
            after == Row(o, m).status
<1>1. OrderFits(x, before) /\ x \in OrderRow
  BY DEF DeskInv, WorkerSees, RowsFit, OrderFits
<1>8. Moves(event.name, before, after)
  OBVIOUS
<1>. HIDE DEF before, after
<1>2. /\ new \in OrderRow /\ new.delivered_at = x.delivered_at
      /\ before # after => new.status # x.status
  BY <1>1, <1>8, OrderMoved
<1>3. \A w \in OrderRow : OrderFits(w, before) => OrderFits(Over(d, w), after)
  BY <1>1, <1>8, OrderMoved
<1>. HIDE DEF new
<1>4. DOMAIN new = {"status", "funded_at", "delivered_at", "completed_at"}
  BY <1>2 DEF OrderRow
<1>5. DOMAIN d = {c \in DOMAIN new : new[c] # x[c]}
  BY DEF Changed
<1>. HIDE DEF d
<1>6. /\ DOMAIN d \subseteq {"status", "funded_at", "completed_at"}
      /\ before # after => DOMAIN d # {}
  BY <1>2, <1>4, <1>5
<1>7. QED
  BY <1>3, <1>6 DEF MovesOn, Row, d, new, before, after

\* The figures an event leaves, when it sets any.
LEMMA FiguresWritten ==
    ASSUME DeskAssumption, NEW o, Legal(o, chain[o]), NEW n \in Nat, NEW m \in Nat,
           1 <= m, m <= Len(chain[o]),
           n <= Len(chain[o]),
           Steps(o, chain[o][m], Row(o, n), Row(o, m)),
           NEW x, EscrowFits(x, Row(o, n)), o \notin premature, FiguresFit(o, x, n),
           m = 1 \/ Closes(chain[o][m]), m = 1 => n = 0
    PROVE  \A c \in Figures : ApplyToEscrow(x, chain[o][m])[c] = Row(o, m)[c]
<1>. DEFINE event == chain[o][m]
            before == Row(o, n)
            after == Row(o, m)
            new == ApplyToEscrow(x, event)
<1>1. x \in EscrowRow /\ x.amount \in Nat
  BY DEF EscrowFits, EscrowRow
<1>2. Written(x, event, after, new)
  <2>1. new = ApplyToEscrow(x, event) /\ Steps(o, event, before, after) /\ EscrowFits(x, before)
    OBVIOUS
  <2>. HIDE DEF new, before, after, event
  <2>2. QED
    BY <1>1, <2>1, RowWritten
<1>3. /\ SoundRow(after)
      /\ Closes(event) => m = Len(chain[o])
      /\ n > 0 => SoundRow(before)
      /\ before.status \in {"released", "refunded"} => n = Len(chain[o])
  <2>1. m > 0
    OBVIOUS
  <2>2. QED
    BY <2>1, RowNow
<1>4. Steps(o, event, before, after) /\ (m = 1 \/ Closes(event))
  OBVIOUS
<1>5. SameFigures(x, before) \/ SameFigures(x, Confirmed(o))
  BY DEF FiguresFit
<1>6. Closes(event) => Confirmed(o) = after
  BY <1>3 DEF Confirmed
<1>7. before = NoRow => x = NoRow
  BY NoRowFields DEF EscrowFits
<1>. HIDE DEF new, before, after, event
<1>8. CASE event = EscrowCreated(o, Amount)
  <2>1. event.name = "EscrowCreated"
    BY <1>8 DEF EscrowCreated
  <2>2. QED
    BY <1>2, <2>1 DEF Written, Figures, new, event, after
<1>9. CASE event.name \in {"EscrowReleased", "EscrowRefunded", "EscrowSettled"}
  <2>1. before \in {OpenRow, ContestedRow}
    BY <1>4, <1>9 DEF Steps, EscrowCreated, EscrowDisputed
  <2>2. before.amount = Amount /\ before.released_amount = 0 /\ before.refunded_amount = 0
    BY <2>1 DEF OpenRow, ContestedRow, StageRow
  <2>3. SameFigures(x, before) \/ SameFigures(x, after)
    BY <1>5, <1>6, <1>9 DEF Closes
  <2>4. after.amount = Amount
    BY <1>3 DEF SoundRow
  <2>5. /\ event.name = "EscrowReleased" => after.refunded_amount = 0
        /\ event.name = "EscrowRefunded" => after.released_amount = 0
    <3>1. PaidRow.refunded_amount = 0 /\ ReturnedRow.released_amount = 0
      BY DEF PaidRow, ReturnedRow, StageRow
    <3>2. QED
      BY <1>4, <3>1
         DEF Steps, EscrowCreated, EscrowDisputed, EscrowReleased, EscrowRefunded,
                        EscrowSettled
  <2>6. new.amount = after.amount /\ new.released_amount = after.released_amount
        /\ new.refunded_amount = after.refunded_amount
    BY <1>2, <1>9, <2>2, <2>3, <2>4, <2>5 DEF Written, SameFigures, InSync
  <2>7. QED
    BY <2>6 DEF Figures, new, event, after
<1>10. CASE event = EscrowDisputed(o)
  <2>1. event.name = "EscrowDisputed"
    BY <1>10 DEF EscrowDisputed
  <2>2. m = 1 /\ n = 0
    BY <1>4, <2>1 DEF Closes
  <2>3. before = NoRow
    BY <2>2, RowNow DEF before
  <2>4. before \in {OpenRow, ContestedRow}
    BY <1>4, <1>10
       DEF Steps, EscrowCreated, EscrowDisputed, EscrowReleased, EscrowRefunded,
                       EscrowSettled
  <2>5. QED
    BY <2>3, <2>4, RowsSound, NoRowFields
<1>11. QED
  BY <1>4, <1>8, <1>9, <1>10 DEF Steps, EscrowReleased, EscrowRefunded, EscrowSettled

\* What an event makes of an escrow's row, laid over any that fits.
LEMMA RowMirrorsOn ==
    ASSUME DeskAssumption, DeskInv, NEW o \in Orders, NEW n, n = Seen(o),
           NEW m \in Nat, 1 <= m, m <= Len(chain[o]), m = 1 <=> n = 0,
           NEW event, event = chain[o][m], Steps(o, event, Row(o, n), Row(o, m)),
           NEW x, x = Visible(Worker, EscrowKey(o)),
           (txn'[Worker].dirty)[EscrowKey(o)] = Changed(x, ApplyToEscrow(x, event)),
           chain' = chain, premature' = premature, Seen(o)' = Seen(o),
           Visible(Worker, EscrowKey(o))' = x
    PROVE  /\ Mirrors(o, m)'
           /\ Row(o, n) # Row(o, m) => DOMAIN (txn'[Worker].dirty)[EscrowKey(o)] # {}
<1>. DEFINE new == ApplyToEscrow(x, event)
            d == Changed(x, new)
            before == Row(o, n)
            after == Row(o, m)
<1>1. /\ Legal(o, chain[o]) /\ n \in Nat /\ n <= Len(chain[o])
      /\ EscrowFits(x, before) /\ FiguresFit(o, x, n)
  BY CommittedFacts DEF DeskInv, WorkerSees, RowsFit
<1>2. Steps(o, event, before, after)
  OBVIOUS
<1>3. o \notin premature /\ (m = 1 \/ Closes(event)) => \A c \in Figures : new[c] = after[c]
  BY <1>1, FiguresWritten
<1>. HIDE DEF before, after
<1>4. /\ DOMAIN d \subseteq Columns \ {"dispute_provider_amount"}
      /\ before # after => "status" \in DOMAIN d
      /\ event.name = "EscrowDisputed" => DOMAIN d \cap Figures = {}
  BY <1>1, <1>2, ColumnsChanged
<1>5. \A w \in EscrowRow :
         EscrowFits(w, before) /\ (x.dispute_resolved_at => w.dispute_resolved_at)
            => EscrowFits(Over(d, w), after)
  BY <1>1, <1>2, RowMoved
<1>6. DOMAIN new = Columns
  <2>1. x \in EscrowRow /\ x.amount \in Nat
    BY <1>1 DEF EscrowFits, EscrowRow
  <2>2. Written(x, event, after, new)
    <3>1. new = ApplyToEscrow(x, event)
      OBVIOUS
    <3>. HIDE DEF new
    <3>2. QED
      BY <1>1, <1>2, <2>1, <3>1, RowWritten
  <2>3. new \in EscrowRow
    BY <2>2 DEF Written
  <2>. HIDE DEF new
  <2>4. QED
    BY <2>3 DEF EscrowRow, Columns
<1>. HIDE DEF new
<1>7. DOMAIN d = {c \in Columns : new[c] # x[c]} /\ \A c \in DOMAIN d : d[c] = new[c]
  BY <1>6 DEF Changed
<1>. HIDE DEF d
<1>8. \A c \in Figures : new[c] = IF c \in DOMAIN d THEN d[c] ELSE x[c]
  BY <1>7 DEF Figures, Columns
<1>9. ~(m = 1 \/ Closes(event)) => DOMAIN d \cap Figures = {}
  <2>1. ASSUME ~(m = 1 \/ Closes(event)) PROVE event.name = "EscrowDisputed"
    <3>1. /\ Moves(event.name, before.status, after.status)
          /\ event.name = "EscrowCreated" => before.status = "absent"
      BY <1>2, StepsMove, NoRowFields
    <3>2. before.status = "absent" => n = 0
      BY <1>1, RowNow DEF before
    <3>3. QED
      BY <2>1, <3>1, <3>2 DEF Moves, Closes
  <2>2. QED
    BY <1>4, <2>1
<1>10. Columns = DOMAIN NoRow
  BY DEF Columns, NoRow
<1>11. /\ DOMAIN d \subseteq DOMAIN NoRow \ {"dispute_provider_amount"}
       /\ o \notin premature =>
             IF m = 1 \/ Closes(chain[o][m])
             THEN \A c \in Figures : after[c] = IF c \in DOMAIN d THEN d[c] ELSE x[c]
             ELSE DOMAIN d \cap Figures = {}
  BY <1>3, <1>4, <1>8, <1>9, <1>10
<1>12. (txn'[Worker].dirty)[EscrowKey(o)] = d
  BY DEF d, new
<1>13. Mirrors(o, m)'
  BY <1>5, <1>11, <1>12 DEF Mirrors, Row, before, after
<1>14. QED
  BY <1>4, <1>12, <1>13 DEF before, after

LEMMA ApplyKeeps ==
    ASSUME DeskAssumption, DeskInv, txn[Worker].phase # "loaded", NEW o \in Orders,
           NEW m \in Nat, 1 <= m, m <= Len(chain[o]),
           m = Seen(o) + 1 \/ (m = Seen(o) /\ ~HasTxType(chain[o][m].name)),
           Apply(o, chain[o][m], m)
    PROVE  DeskInv'
<1>. DEFINE n == Seen(o)
            event == chain[o][m]
            x == Visible(Worker, OrderKey(o))
            y == Visible(Worker, EscrowKey(o))
            order == ApplyToOrder(x, event)
            escrow == ApplyToEscrow(y, event)
            count == [events |-> m]
            new == Over(Just(OrderKey(o), order),
                        Over(Just(EscrowKey(o), escrow), Just(IngestedKey(o), count)))
            dirty == [k \in DOMAIN new |-> Changed(Visible(Worker, k), new[k])]
            wrote == txn[Worker].wrote
<1>1. /\ Worker \in Processes /\ Worker \notin Requests /\ DOMAIN txn = Processes
      /\ TxnShape(Worker) /\ premature \subseteq Orders
      /\ WorkerSees
  BY DeskConstants DEF Processes, DeskInv
<1>2. Loaded(Worker, new) /\ chain' = chain /\ db' = db /\ premature' = premature
  BY DEF Apply, Load
<1>. HIDE DEF order, escrow, count
<1>3. /\ DOMAIN new = {OrderKey(o), EscrowKey(o), IngestedKey(o)}
      /\ new[OrderKey(o)] = order /\ new[EscrowKey(o)] = escrow /\ new[IngestedKey(o)] = count
  BY KeysApart DEF Over, Just
<1>. HIDE DEF new
<1>4. /\ txn' = [txn EXCEPT ![Worker] = [phase |-> "loaded", dirty |-> dirty, wrote |-> wrote]]
      /\ txn'[Worker] = [phase |-> "loaded", dirty |-> dirty, wrote |-> wrote]
  BY <1>1, <1>2, LoadedTxn
<1>5. /\ DOMAIN dirty = {OrderKey(o), EscrowKey(o), IngestedKey(o)}
      /\ dirty[OrderKey(o)] = Changed(x, order)
      /\ dirty[EscrowKey(o)] = Changed(y, escrow)
      /\ dirty[IngestedKey(o)] = Changed(Visible(Worker, IngestedKey(o)), count)
  BY <1>3
<1>. HIDE DEF dirty, wrote
<1>6. /\ txn'[Worker].phase = "loaded" /\ txn'[Worker].dirty = dirty
      /\ txn'[Worker].wrote = wrote /\ wrote = txn[Worker].wrote
  BY <1>4 DEF wrote
<1>7. \A k : Visible(Worker, k)' = Visible(Worker, k)
  BY <1>2, <1>6 DEF Visible
<1>8. /\ \A p : Seen(p)' = Seen(p) /\ Applied(p)' = Applied(p)
      /\ \A p, i : Row(p, i)' = Row(p, i) /\ Confirmed(p)' = Confirmed(p)
  BY <1>2, <1>7 DEF Seen, Applied, Row, Confirmed
<1>9. WorkerSees'
  <2>1. \A p, a, b, i : RowsFit(p, a, b, i) => RowsFit(p, a, b, i)'
    BY <1>2, <1>8 DEF RowsFit, FiguresFit
  <2>2. ASSUME NEW p \in Orders
        PROVE  RowsFit(p, Visible(Worker, OrderKey(p)), Visible(Worker, EscrowKey(p)), Seen(p))'
    BY <1>1, <1>7, <1>8, <2>1 DEF WorkerSees
  <2>3. QED
    BY <1>1, <1>2, <1>6, <1>7, <1>8, <2>2 DEF WorkerSees
<1>10. /\ Legal(o, chain[o]) /\ n \in Nat /\ n <= Len(chain[o])
       /\ Visible(Worker, IngestedKey(o)) = [events |-> n]
       /\ Len(chain[o]) \in Nat /\ Len(chain[o]) <= 3
  BY <1>1, CommittedFacts, LengthNow DEF WorkerSees, RowsFit
<1>11. Steps(o, event, Row(o, n), Row(o, m)) /\ (m = n => event.name = "EscrowDisputed")
  <2>1. CASE m = n + 1
    BY <1>10, <2>1, RowSteps DEF Row
  <2>2. CASE m = n /\ ~HasTxType(event.name)
    BY <1>10, <2>2, RowSteps DEF Row, HasTxType
  <2>3. QED
    BY <1>10, <2>1, <2>2
<1>. HIDE DEF n
<1>. DEFINE before == Row(o, n)
            after == Row(o, m)
<1>12. Moves(event.name, before.status, after.status)
       /\ (before = after <=> before.status = after.status)
  <2>1. Steps(o, event, before, after)
    BY <1>11
  <2>. HIDE DEF before, after, event
  <2>2. QED
    BY <2>1, StepsMove
<1>13. m # n => before.status # after.status
  <2>1. SUFFICES ASSUME m # n PROVE before.status # after.status
    OBVIOUS
  <2>2. m = n + 1 /\ Made(o, chain[o]) /\ (m = 1 \/ m = 2 \/ m = 3)
    BY <1>10, <2>1, RowsMade DEF n
  <2>3. CASE m = 1
    <3>1. event.name = "EscrowCreated"
      BY <1>10, <2>2, <2>3 DEF Made, EscrowCreated
    <3>2. QED
      BY <1>12, <3>1 DEF Moves
  <2>4. CASE m = 2
    <3>1. n = 1
      BY <1>10, <2>2, <2>4
    <3>2. before.status = "funded"
      BY <1>10, <2>2, <2>4, <3>1, RowsSound DEF Made, Row
    <3>3. event.name # "EscrowCreated"
      BY <1>10, <2>2, <2>4 DEF Made, EscrowReleased, EscrowRefunded, EscrowDisputed
    <3>4. QED
      BY <1>12, <3>2, <3>3 DEF Moves
  <2>5. CASE m = 3
    <3>1. event.name = "EscrowSettled"
      <4>1. Len(chain[o]) >= 3
        BY <2>5
      <4>2. PICK share \in Shares : chain[o][3] = EscrowSettled(o, Amount, share, FeeBps)
        BY <2>2, <4>1 DEF Made
      <4>3. EscrowSettled(o, Amount, share, FeeBps).name = "EscrowSettled"
        BY DEF EscrowSettled
      <4>4. QED
        BY <2>5, <4>2, <4>3
    <3>2. QED
      BY <1>12, <3>1 DEF Moves
  <2>6. QED
    BY <2>2, <2>3, <2>4, <2>5
<1>14. MovesOn(o, m)' /\ (m # n => DOMAIN dirty[OrderKey(o)] # {})
  <2>1. (txn'[Worker].dirty)[OrderKey(o)] = Changed(x, ApplyToOrder(x, event))
    BY <1>5, <1>6 DEF order
  <2>2. Moves(event.name, Row(o, Seen(o)).status, Row(o, m).status)
    BY <1>12 DEF n
  <2>. DEFINE v == x
              h == event
  <2>3. v = Visible(Worker, OrderKey(o)) /\ Moves(h.name, Row(o, Seen(o)).status, Row(o, m).status)
        /\ (txn'[Worker].dirty)[OrderKey(o)] = Changed(v, ApplyToOrder(v, h))
    BY <2>1, <2>2
  <2>. HIDE DEF v, h
  <2>4. /\ MovesOn(o, m)'
        /\ Row(o, Seen(o)).status # Row(o, m).status
              => DOMAIN (txn'[Worker].dirty)[OrderKey(o)] # {}
    BY <1>2, <1>8, <2>3, OrderMovesOn
  <2>5. QED
    BY <1>6, <1>13, <2>4 DEF n
<1>15. Mirrors(o, m)' /\ (m # n => DOMAIN dirty[EscrowKey(o)] # {})
  <2>1. (txn'[Worker].dirty)[EscrowKey(o)] = Changed(y, ApplyToEscrow(y, event))
    BY <1>5, <1>6 DEF escrow
  <2>. DEFINE v == y
              h == event
  <2>2. /\ v = Visible(Worker, EscrowKey(o)) /\ Visible(Worker, EscrowKey(o))' = v
        /\ h = chain[o][m] /\ Steps(o, h, Row(o, n), Row(o, m))
        /\ (txn'[Worker].dirty)[EscrowKey(o)] = Changed(v, ApplyToEscrow(v, h))
    BY <1>7, <1>11, <2>1
  <2>3. n = Seen(o) /\ Seen(o)' = Seen(o)
    BY <1>8 DEF n
  <2>4. m = 1 <=> n = 0
    <3>1. ASSUME m = n PROVE m # 1
      <4>1. Made(o, chain[o]) /\ event.name = "EscrowDisputed"
        BY <1>10, <1>11, <3>1, RowsMade
      <4>2. QED
        BY <1>10, <4>1 DEF Made, EscrowCreated
    <3>2. QED
      BY <1>10, <3>1 DEF n
  <2>. HIDE DEF v, h
  <2>5. /\ Mirrors(o, m)'
        /\ Row(o, n) # Row(o, m) => DOMAIN (txn'[Worker].dirty)[EscrowKey(o)] # {}
    BY <1>2, <2>2, <2>3, <2>4, RowMirrorsOn
  <2>6. m # n => Row(o, n) # Row(o, m)
    BY <1>13
  <2>7. QED
    BY <1>6, <2>5, <2>6
<1>16. Pending(o, m)'
  <2>. DEFINE f == dirty[IngestedKey(o)]
              z == Visible(Worker, IngestedKey(o))
  <2>1. f = Changed(z, count) /\ z = [events |-> n] /\ count = [events |-> m]
    BY <1>5, <1>10 DEF n, count
  <2>2. DOMAIN f = IF m = n THEN {} ELSE {"events"}
    <3>. HIDE DEF f, z
    <3>1. DOMAIN f = {c \in DOMAIN count : count[c] # z[c]}
      BY <2>1 DEF Changed
    <3>2. DOMAIN count = {"events"} /\ count["events"] = m /\ z["events"] = n
      BY <2>1
    <3>3. QED
      BY <3>1, <3>2
  <2>3. \A c \in DOMAIN f : f[c] = m
    <3>. HIDE DEF f, z
    <3>1. \A c \in DOMAIN f : c = "events"
      BY <2>2
    <3>2. \A c \in DOMAIN f : f[c] = count[c]
      BY <2>1 DEF Changed
    <3>3. count["events"] = m
      BY <2>1
    <3>4. QED
      BY <3>1, <3>2, <3>3
  <2>4. m = n + 1 \/ (m = n /\ event.name = "EscrowDisputed")
    BY <1>11 DEF n
  <2>. HIDE DEF f
  <2>5. n = Seen(o)' /\ (txn'[Worker].dirty)[IngestedKey(o)] = f
    BY <1>6, <1>8 DEF n, f
  <2>6. QED
    BY <1>2, <1>5, <1>6, <1>14, <1>15, <2>2, <2>3, <2>4, <2>5 DEF Pending
<1>17. PendingSomewhere'
  <2>1. m \in 1 .. 3
    BY <1>10
  <2>2. QED
    BY <1>16, <2>1 DEF PendingSomewhere
<1>18. /\ DOMAIN dirty \subseteq Keys /\ DOMAIN wrote \subseteq Keys
       /\ \A q \in Processes \ {Worker} : DOMAIN wrote \cap DOMAIN txn[q].wrote = {}
       /\ "loaded" \in {"closed", "loaded", "flushed"} /\ ServiceKey \notin DOMAIN wrote
  <2>1. LocksApart
    BY DEF DeskInv
  <2>2. QED
    BY <1>1, <1>5, <1>6, <2>1, KeysOfOrders DEF LocksApart, TxnShape
<1>19. ASSUME NEW p \in Orders, db[OrderKey(p)] = NoOrder,
              OrderKey(p) \in DOMAIN dirty \cup DOMAIN wrote
       PROVE  Touches(Worker, OrderKey(p))
  <2>1. CASE OrderKey(p) \in DOMAIN wrote
    BY <1>6, <2>1 DEF Touches
  <2>2. CASE OrderKey(p) \in DOMAIN dirty
    <3>1. p = o
      BY <1>5, <2>2, KeysApart
    <3>2. chain[o] = <<>>
      BY <1>19, <3>1, CommittedFacts
    <3>3. QED
      BY <3>2
  <2>3. QED
    BY <1>19, <2>1, <2>2
<1>20. QED
  BY <1>1, <1>2, <1>4, <1>9, <1>17, <1>18, <1>19, Turn

LEMMA ApplyNextKeeps ==
    ASSUME DeskAssumption, DeskInv, NEW o \in Orders, ApplyNext(o)
    PROVE  DeskInv'
<1>. DEFINE m == Seen(o) + 1
<1>1. Seen(o) \in Nat
  BY DEF DeskInv, WorkerSees, RowsFit
<1>2. /\ txn[Worker].phase # "loaded" /\ m <= Len(chain[o]) /\ Apply(o, chain[o][m], m)
  BY DEF ApplyNext, Seen
<1>3. m \in Nat /\ 1 <= m
  BY <1>1
<1>4. QED
  BY <1>2, <1>3, ApplyKeeps

LEMMA ApplyAgainKeeps ==
    ASSUME DeskAssumption, DeskInv, NEW o \in Orders, ApplyAgain(o)
    PROVE  DeskInv'
<1>. DEFINE m == Seen(o)
<1>1. m \in Nat /\ m <= Len(chain[o])
  BY DEF DeskInv, WorkerSees, RowsFit
<1>2. /\ txn[Worker].phase # "loaded" /\ m > 0 /\ Apply(o, chain[o][m], m)
      /\ ~HasTxType(chain[o][m].name)
  BY DEF ApplyAgain, Seen
<1>3. m \in Nat /\ 1 <= m
  BY <1>1, <1>2
<1>4. QED
  BY <1>1, <1>2, <1>3, ApplyKeeps

-----------------------------------------------------------------------------
(* Transactions are committed.                                             *)

\* The transaction of p closes.
LEMMA Closing ==
    ASSUME DeskInv, NEW p \in Processes, txn' = [txn EXCEPT ![p] = Closed]
    PROVE  /\ DOMAIN txn' = Processes /\ \A q \in Processes \ {p} : txn'[q] = txn[q]
           /\ txn'[p].phase = "closed" /\ DOMAIN txn'[p].dirty = {} /\ DOMAIN txn'[p].wrote = {}
           /\ \A q \in Processes : TxnShape(q)'
           /\ LocksApart'
           /\ \A q \in Processes : \A k : Touches(q, k)' => Touches(q, k) /\ q # p
<1>. DEFINE none == <<>>
            t == [phase |-> "closed", dirty |-> none, wrote |-> none]
<1>1. /\ DOMAIN txn = Processes /\ \A q \in Processes : TxnShape(q)
      /\ LocksApart
  BY DEF DeskInv
<1>2. DOMAIN none = {} /\ txn' = [txn EXCEPT ![p] = t]
  BY DEF Closed
<1>. HIDE DEF none
<1>3. /\ DOMAIN txn' = Processes /\ txn'[p] = t
      /\ \A q \in Processes \ {p} : txn'[q] = txn[q]
  BY <1>1, <1>2
<1>4. /\ t.phase = "closed" /\ DOMAIN t.dirty = {} /\ DOMAIN t.wrote = {}
  BY <1>2
<1>5. \A q \in Processes : TxnShape(q)'
  <2>1. TxnShape(p)'
    BY <1>2, <1>3 DEF TxnShape
  <2>2. \A q \in Processes \ {p} : TxnShape(q)'
    BY <1>1, <1>3 DEF TxnShape
  <2>3. QED
    BY <2>1, <2>2
<1>. HIDE DEF t
<1>6. LocksApart'
  BY <1>1, <1>3, <1>4 DEF LocksApart
<1>7. \A q \in Processes : \A k : Touches(q, k)' => Touches(q, k) /\ q # p
  BY <1>3, <1>4 DEF Touches
<1>8. QED
  BY <1>3, <1>4, <1>5, <1>6, <1>7

LEMMA CreatedByOneKept ==
    ASSUME CreatedByOne, \A q \in Processes : \A k : Touches(q, k)' => Touches(q, k),
           \A o \in Orders : db'[OrderKey(o)] = NoOrder => db[OrderKey(o)] = NoOrder
    PROVE  CreatedByOne'
BY DEF CreatedByOne

\* The rows a commit leaves.
LEMMA CommittedRows ==
    ASSUME DeskInv, NEW p \in Processes, Commit(p)
    PROVE  /\ DOMAIN db' = Keys
           /\ \A k \in Keys : db'[k] = IF k \in DOMAIN txn[p].wrote THEN txn[p].wrote[k] ELSE db[k]
           /\ txn' = [txn EXCEPT ![p] = Closed]
           /\ chain' = chain /\ premature' = premature
           /\ txn[p].phase = "flushed" /\ TxnShape(p)
<1>. DEFINE w == txn[p].wrote
<1>1. db' = Over(w, db) /\ DOMAIN w \subseteq Keys /\ DOMAIN db = Keys
  BY DEF Commit, DeskInv, TxnShape, Committed
<1>. HIDE DEF w
<1>2. DOMAIN db' = Keys /\ \A k \in Keys : db'[k] = IF k \in DOMAIN w THEN w[k] ELSE db[k]
  BY <1>1 DEF Over
<1>3. QED
  BY <1>2 DEF Commit, DeskInv, w

\* What a request's commit changes.
LEMMA RequestCommits ==
    ASSUME DeskAssumption, DeskInv, NEW r \in Requests, Commit(r)
    PROVE  /\ Committed'
           /\ \A o \in Orders :
                 /\ Applied(o)' = Applied(o)
                 /\ db'[OrderKey(o)] = NoOrder => db[OrderKey(o)] = NoOrder
                 /\ db'[OrderKey(o)] # db[OrderKey(o)] => OrderKey(o) \in DOMAIN txn[r].wrote
                 /\ db'[EscrowKey(o)] # db[EscrowKey(o)] =>
                       EscrowKey(o) \in DOMAIN txn[r].wrote /\ Applied(o) > 0
                 /\ db[EscrowKey(o)].dispute_resolved_at
                       => db'[EscrowKey(o)].dispute_resolved_at
                 /\ db[EscrowKey(o)].dispute_provider_amount # {}
                       => db'[EscrowKey(o)].dispute_provider_amount # {}
                 /\ o \notin premature =>
                       \/ SameFigures(db'[EscrowKey(o)], db[EscrowKey(o)])
                       \/ SameFigures(db'[EscrowKey(o)], Confirmed(o))
<1>. DEFINE w == txn[r].wrote
<1>1. /\ r \in Processes /\ RequestWrote(r) /\ Committed
  BY DEF Processes, DeskInv
<1>2. /\ DOMAIN db' = Keys
      /\ \A k \in Keys : db'[k] = IF k \in DOMAIN w THEN w[k] ELSE db[k]
      /\ chain' = chain /\ premature' = premature
  BY <1>1, CommittedRows
<1>3. \A o \in Orders :
         /\ db'[OrderKey(o)] = IF OrderKey(o) \in DOMAIN w THEN w[OrderKey(o)] ELSE db[OrderKey(o)]
         /\ db'[EscrowKey(o)] = IF EscrowKey(o) \in DOMAIN w THEN w[EscrowKey(o)]
                                ELSE db[EscrowKey(o)]
         /\ db'[IngestedKey(o)] = db[IngestedKey(o)]
  BY <1>1, <1>2, KeysOfOrders DEF RequestWrote
<1>4. \A o \in Orders : Applied(o)' = Applied(o)
  BY <1>3 DEF Applied
<1>5. /\ db'[ServiceKey] = [order_count |-> db'[ServiceKey].order_count]
      /\ db'[ServiceKey].order_count \in Nat
  <2>1. db'[ServiceKey] = IF ServiceKey \in DOMAIN w THEN w[ServiceKey] ELSE db[ServiceKey]
    BY <1>2, KeysOfOrders
  <2>2. ServiceKey \in DOMAIN w => /\ w[ServiceKey] = [order_count |-> w[ServiceKey].order_count]
                                   /\ w[ServiceKey].order_count \in Nat
    BY <1>1 DEF RequestWrote
  <2>3. db[ServiceKey] = [order_count |-> db[ServiceKey].order_count]
        /\ db[ServiceKey].order_count \in Nat
    BY <1>1 DEF Committed
  <2>4. CASE ServiceKey \in DOMAIN w
    BY <2>1, <2>2, <2>4
  <2>5. CASE ServiceKey \notin DOMAIN w
    BY <2>1, <2>3, <2>5
  <2>6. QED
    BY <2>4, <2>5
<1>6. ASSUME NEW o \in Orders
      PROVE  /\ OrderKey(o) \in DOMAIN w =>
                /\ OrderFits(w[OrderKey(o)], Row(o, Applied(o)).status)
                /\ w[OrderKey(o)].status # "absent"
             /\ EscrowKey(o) \in DOMAIN w =>
                /\ Applied(o) > 0
                /\ EscrowFits(w[EscrowKey(o)], Row(o, Applied(o)))
                /\ FiguresFit(o, w[EscrowKey(o)], Applied(o))
                /\ db[EscrowKey(o)].dispute_resolved_at => w[EscrowKey(o)].dispute_resolved_at
                /\ db[EscrowKey(o)].dispute_provider_amount # {}
                      => w[EscrowKey(o)].dispute_provider_amount # {}
                /\ o \notin premature =>
                      \/ SameFigures(w[EscrowKey(o)], db[EscrowKey(o)])
                      \/ SameFigures(w[EscrowKey(o)], Confirmed(o))
  BY <1>1 DEF RequestWrote
<1>. HIDE DEF w
<1>7. ASSUME NEW o \in Orders
      PROVE  /\ OrderFits(db'[OrderKey(o)], Row(o, Applied(o)).status)
             /\ db'[OrderKey(o)].status = "absent" => db'[OrderKey(o)] = NoOrder /\ chain[o] = <<>>
             /\ db'[OrderKey(o)] = NoOrder => db[OrderKey(o)] = NoOrder
  <2>1. CASE OrderKey(o) \in DOMAIN w
    <3>1. NoOrder.status = "absent"
      BY DEF NoOrder
    <3>2. QED
      BY <1>3, <1>6, <2>1, <3>1
  <2>2. CASE OrderKey(o) \notin DOMAIN w
    <3>1. db'[OrderKey(o)] = db[OrderKey(o)]
      BY <1>3, <2>2
    <3>2. QED
      BY <3>1, CommittedFacts
  <2>3. QED
    BY <2>1, <2>2
<1>8. ASSUME NEW o \in Orders
      PROVE  /\ EscrowFits(db'[EscrowKey(o)], Row(o, Applied(o)))
             /\ FiguresFit(o, db'[EscrowKey(o)], Applied(o))
             /\ db'[EscrowKey(o)] # db[EscrowKey(o)] => EscrowKey(o) \in DOMAIN w /\ Applied(o) > 0
             /\ db[EscrowKey(o)].dispute_resolved_at => db'[EscrowKey(o)].dispute_resolved_at
             /\ db[EscrowKey(o)].dispute_provider_amount # {}
                   => db'[EscrowKey(o)].dispute_provider_amount # {}
             /\ o \notin premature =>
                   \/ SameFigures(db'[EscrowKey(o)], db[EscrowKey(o)])
                   \/ SameFigures(db'[EscrowKey(o)], Confirmed(o))
  <2>1. CASE EscrowKey(o) \in DOMAIN w
    BY <1>3, <1>6, <2>1
  <2>2. CASE EscrowKey(o) \notin DOMAIN w
    <3>1. db'[EscrowKey(o)] = db[EscrowKey(o)]
      BY <1>3, <2>2
    <3>2. QED
      BY <3>1, CommittedFacts DEF SameFigures, InSync
  <2>3. QED
    BY <2>1, <2>2
<1>9. Committed'
  <2>1. \A p, a, b, i : RowsFit(p, a, b, i) => RowsFit(p, a, b, i)'
    BY <1>2 DEF RowsFit, FiguresFit, Row, Confirmed
  <2>2. ASSUME NEW o \in Orders
        PROVE  (/\ Legal(o, chain[o])
                /\ db[OrderKey(o)].status = "absent" => db[OrderKey(o)] = NoOrder /\ chain[o] = <<>>
                /\ RowsFit(o, db[OrderKey(o)], db[EscrowKey(o)], Applied(o))
                /\ db[IngestedKey(o)] = [events |-> Applied(o)])'
    <3>1. RowsFit(o, db'[OrderKey(o)], db'[EscrowKey(o)], Applied(o))
      BY <1>7, <1>8, CommittedFacts DEF RowsFit
    <3>2. RowsFit(o, db[OrderKey(o)], db[EscrowKey(o)], Applied(o))'
      BY <1>4, <2>1, <3>1
    <3>3. Legal(o, chain[o])' /\ db[IngestedKey(o)] = [events |-> Applied(o)]
      BY <1>1, <1>2 DEF Committed
    <3>4. QED
      BY <1>2, <1>3, <1>4, <1>7, <3>2, <3>3
  <2>3. QED
    BY <1>2, <1>5, <2>2 DEF Committed
<1>10. QED
  BY <1>3, <1>4, <1>7, <1>8, <1>9 DEF w

\* What the indexer sees after a request's commit still fits.
LEMMA CommitBesideView ==
    ASSUME DeskAssumption, DeskInv, NEW r \in Requests, Commit(r)
    PROVE  /\ WorkerSees'
           /\ \A o \in Orders : Seen(o)' = Seen(o)
           /\ \A o \in Orders :
                 LET old == Visible(Worker, EscrowKey(o))
                     new == Visible(Worker, EscrowKey(o))'
                 IN
                 /\ old.dispute_resolved_at => new.dispute_resolved_at
                 /\ new # old => Seen(o) > 0
                 /\ o \notin premature => SameFigures(new, old) \/ SameFigures(new, Confirmed(o))
<1>. DEFINE w == txn[r].wrote
            v == txn[Worker].wrote
<1>1. /\ r \in Processes /\ Worker \in Processes /\ r # Worker /\ WorkerSees
      /\ LocksApart
  BY DeskConstants DEF Processes, DeskInv
<1>2. DOMAIN w \cap DOMAIN v = {}
  BY <1>1 DEF LocksApart
<1>3. txn'[Worker] = txn[Worker] /\ chain' = chain /\ premature' = premature
  BY <1>1, CommittedRows, Closing
<1>4. /\ Committed'
      /\ \A o \in Orders :
            /\ Applied(o)' = Applied(o)
            /\ db'[OrderKey(o)] # db[OrderKey(o)] => OrderKey(o) \in DOMAIN w
            /\ db'[EscrowKey(o)] # db[EscrowKey(o)] => EscrowKey(o) \in DOMAIN w /\ Applied(o) > 0
            /\ db[EscrowKey(o)].dispute_resolved_at => db'[EscrowKey(o)].dispute_resolved_at
            /\ o \notin premature =>
                  \/ SameFigures(db'[EscrowKey(o)], db[EscrowKey(o)])
                  \/ SameFigures(db'[EscrowKey(o)], Confirmed(o))
  BY RequestCommits
<1>. HIDE DEF w, v
<1>5. \A k : Visible(Worker, k) = (IF k \in DOMAIN v THEN v[k] ELSE db[k])
             /\ Visible(Worker, k)' = (IF k \in DOMAIN v THEN v[k] ELSE db'[k])
  BY <1>3 DEF Visible, v
<1>6. \A p, a, b, i : RowsFit(p, a, b, i) => RowsFit(p, a, b, i)'
  BY <1>3 DEF RowsFit, FiguresFit, Row, Confirmed
<1>7. \A o \in Orders : Visible(Worker, IngestedKey(o))' = Visible(Worker, IngestedKey(o))
  <2>1. ASSUME NEW o \in Orders PROVE db'[IngestedKey(o)] = db[IngestedKey(o)]
    BY <1>4, <2>1 DEF Committed, DeskInv
  <2>2. QED
    BY <1>5, <2>1
<1>8. \A o \in Orders : Seen(o)' = Seen(o)
  BY <1>7 DEF Seen
<1>9. ASSUME NEW o \in Orders
      PROVE (/\ RowsFit(o, Visible(Worker, OrderKey(o)), Visible(Worker, EscrowKey(o)), Seen(o))
             /\ Applied(o) <= Seen(o)
             /\ Visible(Worker, IngestedKey(o)) = [events |-> Seen(o)]
             /\ IngestedKey(o) \in DOMAIN txn[Worker].wrote
                   => {OrderKey(o), EscrowKey(o)} \subseteq DOMAIN txn[Worker].wrote
             /\ OrderKey(o) \in DOMAIN txn[Worker].wrote => Seen(o) > 0
             /\ db[EscrowKey(o)].dispute_provider_amount # {}
                   => Visible(Worker, EscrowKey(o)).dispute_provider_amount # {})'
  <2>1. /\ RowsFit(o, Visible(Worker, OrderKey(o)), Visible(Worker, EscrowKey(o)), Seen(o))
        /\ Applied(o) <= Seen(o)
        /\ Visible(Worker, IngestedKey(o)) = [events |-> Seen(o)]
        /\ IngestedKey(o) \in DOMAIN v => {OrderKey(o), EscrowKey(o)} \subseteq DOMAIN v
        /\ OrderKey(o) \in DOMAIN v => Seen(o) > 0
        /\ db[EscrowKey(o)].dispute_provider_amount # {}
              => Visible(Worker, EscrowKey(o)).dispute_provider_amount # {}
    BY <1>1 DEF WorkerSees, v
  <2>2. RowsFit(o, Visible(Worker, OrderKey(o)), Visible(Worker, EscrowKey(o)), Seen(o))'
    <3>1. CASE IngestedKey(o) \in DOMAIN v
      <4>1. /\ Visible(Worker, OrderKey(o))' = Visible(Worker, OrderKey(o))
            /\ Visible(Worker, EscrowKey(o))' = Visible(Worker, EscrowKey(o))
        BY <1>5, <2>1, <3>1
      <4>2. QED
        BY <1>6, <1>8, <2>1, <4>1
    <3>2. CASE IngestedKey(o) \notin DOMAIN v
      <4>1. Seen(o) = Applied(o)
        BY <1>5, <3>2 DEF Seen, Applied
      <4>2. RowsFit(o, db[OrderKey(o)], db[EscrowKey(o)], Applied(o))'
        BY <1>4 DEF Committed
      <4>3. /\ OrderFits(db'[OrderKey(o)], Row(o, Seen(o)).status)
            /\ EscrowFits(db'[EscrowKey(o)], Row(o, Seen(o)))
            /\ FiguresFit(o, db'[EscrowKey(o)], Seen(o))
        BY <1>3, <1>4, <4>1, <4>2 DEF RowsFit, Row, FiguresFit, Confirmed
      <4>4. /\ OrderFits(Visible(Worker, OrderKey(o)), Row(o, Seen(o)).status)
            /\ EscrowFits(Visible(Worker, EscrowKey(o)), Row(o, Seen(o)))
            /\ FiguresFit(o, Visible(Worker, EscrowKey(o)), Seen(o))
            /\ Seen(o) \in Nat /\ Seen(o) <= Len(chain[o])
        BY <2>1 DEF RowsFit
      <4>. DEFINE x == Visible(Worker, OrderKey(o))'
                  y == Visible(Worker, EscrowKey(o))'
      <4>5. /\ x = db'[OrderKey(o)] \/ x = Visible(Worker, OrderKey(o))
            /\ y = db'[EscrowKey(o)] \/ y = Visible(Worker, EscrowKey(o))
        BY <1>5
      <4>. HIDE DEF x, y
      <4>6. OrderFits(x, Row(o, Seen(o)).status) /\ EscrowFits(y, Row(o, Seen(o)))
            /\ FiguresFit(o, y, Seen(o))
        BY <4>3, <4>4, <4>5
      <4>7. RowsFit(o, x, y, Seen(o))
        BY <4>4, <4>6 DEF RowsFit
      <4>8. QED
        BY <1>6, <1>8, <4>7 DEF x, y
    <3>3. QED
      BY <3>1, <3>2
  <2>3. db'[EscrowKey(o)].dispute_provider_amount # {}
           => Visible(Worker, EscrowKey(o))'.dispute_provider_amount # {}
    <3>1. CASE EscrowKey(o) \in DOMAIN v
      <4>1. db'[EscrowKey(o)] = db[EscrowKey(o)]
            /\ Visible(Worker, EscrowKey(o))' = Visible(Worker, EscrowKey(o))
        BY <1>2, <1>4, <1>5, <3>1
      <4>2. QED
        BY <2>1, <4>1
    <3>2. CASE EscrowKey(o) \notin DOMAIN v
      BY <1>5, <3>2
    <3>3. QED
      BY <3>1, <3>2
  <2>4. txn'[Worker].wrote = v
    BY <1>3 DEF v
  <2>5. QED
    BY <1>4, <1>7, <1>8, <2>1, <2>2, <2>3, <2>4
<1>10. ASSUME NEW o \in Orders
       PROVE  LET old == Visible(Worker, EscrowKey(o))
                  new == Visible(Worker, EscrowKey(o))'
              IN
              /\ old.dispute_resolved_at => new.dispute_resolved_at
              /\ new # old => Seen(o) > 0
              /\ o \notin premature => SameFigures(new, old) \/ SameFigures(new, Confirmed(o))
  <2>1. CASE EscrowKey(o) \in DOMAIN v
    <3>1. Visible(Worker, EscrowKey(o))' = Visible(Worker, EscrowKey(o))
      BY <1>5, <2>1
    <3>2. QED
      BY <3>1 DEF SameFigures, InSync
  <2>2. CASE EscrowKey(o) \notin DOMAIN v
    <3>1. /\ Visible(Worker, EscrowKey(o))' = db'[EscrowKey(o)]
          /\ Visible(Worker, EscrowKey(o)) = db[EscrowKey(o)]
      BY <1>5, <2>2
    <3>2. Applied(o) > 0 => Seen(o) > 0
      BY <1>1, CommittedFacts DEF WorkerSees, RowsFit
    <3>3. QED
      BY <1>4, <3>1, <3>2
  <2>3. QED
    BY <2>1, <2>2
<1>11. QED
  BY <1>8, <1>9, <1>10 DEF WorkerSees

\* The event it is about to apply still fits what it will find.
LEMMA CommitBesidePending ==
    ASSUME DeskAssumption, DeskInv, NEW r \in Requests, Commit(r), NEW o \in Orders,
           NEW m, Pending(o, m)
    PROVE  Pending(o, m)'
<1>. DEFINE n == Seen(o)
            old == Visible(Worker, EscrowKey(o))
            new == Visible(Worker, EscrowKey(o))'
            d == txn[Worker].dirty[EscrowKey(o)]
<1>1. txn'[Worker] = txn[Worker] /\ chain' = chain /\ premature' = premature
  <2>1. r \in Processes /\ Worker \in Processes /\ r # Worker
    BY DeskConstants DEF Processes
  <2>2. QED
    BY <2>1, CommittedRows, Closing
<1>2. /\ Seen(o)' = Seen(o)
      /\ old.dispute_resolved_at => new.dispute_resolved_at
      /\ new # old => n > 0
      /\ o \notin premature => SameFigures(new, old) \/ SameFigures(new, Confirmed(o))
  BY CommitBesideView
<1>3. /\ Legal(o, chain[o]) /\ n \in Nat /\ n <= Len(chain[o])
      /\ m \in Nat /\ 1 <= m /\ m <= Len(chain[o])
      /\ m = n + 1 \/ (m = n /\ chain[o][m].name = "EscrowDisputed")
      /\ Mirrors(o, m)
  BY CommittedFacts DEF Pending, DeskInv, WorkerSees, RowsFit
<1>4. MovesOn(o, m)'
  BY <1>1, <1>2 DEF Pending, MovesOn, Row
<1>5. /\ DOMAIN d \subseteq DOMAIN NoRow \ {"dispute_provider_amount"}
      /\ \A w \in EscrowRow :
            EscrowFits(w, Row(o, n)) /\ (old.dispute_resolved_at => w.dispute_resolved_at)
               => EscrowFits(Over(d, w), Row(o, m))
      /\ o \notin premature =>
            IF m = 1 \/ Closes(chain[o][m])
            THEN \A c \in Figures : Row(o, m)[c] = IF c \in DOMAIN d THEN d[c] ELSE old[c]
            ELSE DOMAIN d \cap Figures = {}
  BY <1>3 DEF Mirrors
<1>6. Closes(chain[o][m]) => Confirmed(o) = Row(o, m)
  <2>1. m > 0
    BY <1>3
  <2>2. QED
    BY <1>3, <2>1, RowNow DEF Confirmed
<1>7. m = 1 => n = 0
  <2>1. Made(o, chain[o])
    BY <1>3, RowsMade
  <2>2. chain[o][1].name = "EscrowCreated"
    BY <1>3, <2>1 DEF Made, EscrowCreated
  <2>3. QED
    BY <1>3, <2>2
<1>. HIDE DEF n, old, new, d
<1>8. ASSUME o \notin premature, m = 1 \/ Closes(chain[o][m]), NEW c \in Figures
      PROVE  Row(o, m)[c] = IF c \in DOMAIN d THEN d[c] ELSE new[c]
  <2>1. Row(o, m)[c] = IF c \in DOMAIN d THEN d[c] ELSE old[c]
    BY <1>5, <1>8
  <2>2. CASE new = old
    BY <2>1, <2>2
  <2>3. CASE new # old
    <3>1. Confirmed(o) = Row(o, m)
      BY <1>2, <1>3, <1>6, <1>7, <1>8, <2>3
    <3>2. new[c] = old[c] \/ new[c] = Row(o, m)[c]
      BY <1>2, <1>8, <3>1 DEF SameFigures, InSync, Figures
    <3>3. QED
      BY <2>1, <3>2
  <2>4. QED
    BY <2>2, <2>3
<1>9. Mirrors(o, m)'
  <2>1. \A w \in EscrowRow :
            EscrowFits(w, Row(o, n)) /\ (new.dispute_resolved_at => w.dispute_resolved_at)
               => EscrowFits(Over(d, w), Row(o, m))
    BY <1>2, <1>5
  <2>2. (txn'[Worker].dirty)[EscrowKey(o)] = d /\ Seen(o)' = n
    BY <1>1, <1>2 DEF d, n
  <2>3. \A i : Row(o, i)' = Row(o, i)
    BY <1>1 DEF Row
  <2>4. Row(o, Seen(o))' = Row(o, n)
    BY <2>2, <2>3 DEF Row
  <2>5. Row(o, m)' = Row(o, m)
    BY <2>3
  <2>6. QED
    BY <1>1, <1>5, <1>8, <2>1, <2>2, <2>4, <2>5 DEF Mirrors, new
<1>10. QED
  BY <1>1, <1>2, <1>4, <1>9 DEF Pending

LEMMA RequestCommitKeeps ==
    ASSUME DeskAssumption, DeskInv, NEW r \in Requests, Commit(r)
    PROVE  DeskInv'
<1>1. r \in Processes /\ Worker \in Processes /\ r # Worker
  BY DeskConstants DEF Processes
<1>2. /\ txn' = [txn EXCEPT ![r] = Closed] /\ chain' = chain /\ premature' = premature
      /\ DOMAIN txn' = Processes /\ \A q \in Processes \ {r} : txn'[q] = txn[q]
      /\ txn'[r].phase = "closed" /\ DOMAIN txn'[r].dirty = {} /\ DOMAIN txn'[r].wrote = {}
      /\ \A q \in Processes : TxnShape(q)'
      /\ LocksApart'
      /\ \A q \in Processes : \A k : Touches(q, k)' => Touches(q, k) /\ q # r
  BY <1>1, CommittedRows, Closing
<1>3. /\ Committed'
      /\ \A o \in Orders :
            /\ Applied(o)' = Applied(o)
            /\ db'[OrderKey(o)] = NoOrder => db[OrderKey(o)] = NoOrder
            /\ db'[OrderKey(o)] # db[OrderKey(o)] => OrderKey(o) \in DOMAIN txn[r].wrote
            /\ db'[EscrowKey(o)] # db[EscrowKey(o)] => EscrowKey(o) \in DOMAIN txn[r].wrote
  BY RequestCommits
<1>4. /\ CreatedByOne /\ LocksApart /\ DOMAIN chain = Orders /\ premature \subseteq Orders
      /\ \A q \in Requests : RequestReady(q) /\ RequestWrote(q)
      /\ PendingSomewhere
  BY DEF DeskInv
<1>5. CreatedByOne'
  BY <1>2, <1>3, <1>4, CreatedByOneKept
<1>6. ASSUME NEW q \in Requests PROVE RequestReady(q)' /\ RequestWrote(q)'
  <2>1. CASE q = r
    BY <1>2, <2>1 DEF RequestReady, RequestWrote
  <2>2. CASE q # r
    <3>1. txn'[q] = txn[q] /\ q \in Processes
      BY <1>2, <2>2 DEF Processes
    <3>2. \A o \in Orders : OrderKey(o) \in DOMAIN txn[q].dirty /\ db[OrderKey(o)] = NoOrder
             => db'[OrderKey(o)] = NoOrder
      BY <1>1, <1>3, <1>4, <2>2, <3>1 DEF CreatedByOne, Touches
    <3>3. \A k : k \in DOMAIN txn[q].wrote => k \notin DOMAIN txn[r].wrote
      BY <1>1, <1>4, <2>2, <3>1 DEF LocksApart
    <3>4. \A o \in Orders : OrderKey(o) \in DOMAIN txn[q].wrote
             => Applied(o)' = Applied(o) /\ db'[OrderKey(o)] = db[OrderKey(o)]
      BY <1>3, <3>3
    <3>5. \A o \in Orders : EscrowKey(o) \in DOMAIN txn[q].wrote
             => Applied(o)' = Applied(o) /\ db'[EscrowKey(o)] = db[EscrowKey(o)]
      BY <1>3, <3>3
    <3>6. RequestReady(q)'
      BY <1>2, <1>3, <1>4, <3>1, <3>2, ReadyKept
    <3>7. RequestWrote(q)'
      BY <1>2, <1>4, <3>1, <3>4, <3>5, WroteKept
    <3>8. QED
      BY <3>6, <3>7
  <2>3. QED
    BY <2>1, <2>2
<1>7. WorkerSees'
  BY CommitBesideView
<1>8. PendingSomewhere'
  <2>1. txn'[Worker] = txn[Worker]
    BY <1>1, <1>2
  <2>2. QED
    BY <1>4, <2>1, CommitBesidePending DEF PendingSomewhere
<1>9. QED
  BY <1>2, <1>3, <1>4, <1>5, <1>6, <1>7, <1>8 DEF DeskInv

\* What the indexer's commit changes.
LEMMA WorkerCommits ==
    ASSUME DeskAssumption, DeskInv, Commit(Worker)
    PROVE  /\ Committed'
           /\ \A o \in Orders :
                 /\ Applied(o)' = Seen(o) /\ Applied(o) <= Seen(o)
                 /\ db'[OrderKey(o)] = NoOrder <=> db[OrderKey(o)] = NoOrder
                 /\ OrderKey(o) \notin DOMAIN txn[Worker].wrote =>
                       db'[OrderKey(o)] = db[OrderKey(o)] /\ Applied(o)' = Applied(o)
                 /\ EscrowKey(o) \notin DOMAIN txn[Worker].wrote =>
                       db'[EscrowKey(o)] = db[EscrowKey(o)] /\ Applied(o)' = Applied(o)
                 /\ db[EscrowKey(o)].dispute_provider_amount # {}
                       => db'[EscrowKey(o)].dispute_provider_amount # {}
<1>. DEFINE w == txn[Worker].wrote
<1>1. Worker \in Processes /\ WorkerSees /\ Committed
  BY DEF Processes, DeskInv
<1>2. /\ DOMAIN db' = Keys
      /\ \A k \in Keys : db'[k] = IF k \in DOMAIN w THEN w[k] ELSE db[k]
      /\ chain' = chain /\ premature' = premature /\ ServiceKey \notin DOMAIN w
  BY <1>1, CommittedRows DEF TxnShape
<1>3. \A k \in Keys : db'[k] = Visible(Worker, k)
  BY <1>2 DEF Visible
<1>4. ASSUME NEW o \in Orders
      PROVE  /\ Applied(o)' = Seen(o) /\ Applied(o) <= Seen(o) /\ Seen(o) \in Nat
             /\ Seen(o) <= Len(chain[o])
             /\ db'[OrderKey(o)] = Visible(Worker, OrderKey(o))
             /\ OrderFits(db'[OrderKey(o)], Row(o, Seen(o)).status)
             /\ RowsFit(o, db'[OrderKey(o)], db'[EscrowKey(o)], Seen(o))
             /\ db'[IngestedKey(o)] = [events |-> Seen(o)]
             /\ IngestedKey(o) \in DOMAIN w => {OrderKey(o), EscrowKey(o)} \subseteq DOMAIN w
             /\ OrderKey(o) \in DOMAIN w => Seen(o) > 0
             /\ db[EscrowKey(o)].dispute_provider_amount # {}
                   => db'[EscrowKey(o)].dispute_provider_amount # {}
  <2>1. /\ db'[OrderKey(o)] = Visible(Worker, OrderKey(o))
        /\ db'[EscrowKey(o)] = Visible(Worker, EscrowKey(o))
        /\ db'[IngestedKey(o)] = Visible(Worker, IngestedKey(o))
    BY <1>3, KeysOfOrders
  <2>2. Applied(o)' = Seen(o)
    BY <2>1 DEF Applied, Seen
  <2>3. RowsFit(o, db'[OrderKey(o)], db'[EscrowKey(o)], Seen(o))
    BY <1>1, <2>1 DEF WorkerSees
  <2>4. QED
    BY <1>1, <2>1, <2>2, <2>3 DEF WorkerSees, RowsFit
<1>5. ASSUME NEW o \in Orders, IngestedKey(o) \notin DOMAIN w
      PROVE  Applied(o)' = Applied(o)
  <2>1. db'[IngestedKey(o)] = db[IngestedKey(o)]
    BY <1>2, <1>5, KeysOfOrders
  <2>2. QED
    BY <2>1 DEF Applied
<1>6. \A o \in Orders : /\ OrderKey(o) \notin DOMAIN w => db'[OrderKey(o)] = db[OrderKey(o)]
                        /\ EscrowKey(o) \notin DOMAIN w => db'[EscrowKey(o)] = db[EscrowKey(o)]
  BY <1>2, KeysOfOrders
<1>7. db'[ServiceKey] = db[ServiceKey]
  BY <1>2, KeysOfOrders
<1>. HIDE DEF w
<1>8. ASSUME NEW o \in Orders
      PROVE  /\ db'[OrderKey(o)].status = "absent" => db'[OrderKey(o)] = NoOrder /\ chain[o] = <<>>
             /\ db'[OrderKey(o)] = NoOrder <=> db[OrderKey(o)] = NoOrder
  <2>1. NoOrder.status = "absent"
    BY DEF NoOrder
  <2>2. CASE OrderKey(o) \notin DOMAIN w
    BY <1>6, <2>1, <2>2, CommittedFacts
  <2>3. CASE OrderKey(o) \in DOMAIN w
    <3>1. Legal(o, chain[o])
      BY CommittedFacts
    <3>2. Seen(o) > 0 /\ Seen(o) \in Nat /\ Seen(o) <= Len(chain[o])
      BY <1>4, <2>3
    <3>3. Len(chain[o]) > 0
      BY <3>1, <3>2, LengthNow
    <3>4. Row(o, Seen(o)).status # "absent"
      BY <3>1, <3>2, RowNow
    <3>5. db'[OrderKey(o)].status # "absent"
      BY <1>4, <3>4 DEF OrderFits
    <3>6. chain[o] # <<>>
      BY <3>3
    <3>7. QED
      BY <2>1, <3>5, <3>6, CommittedFacts
  <2>4. QED
    BY <2>2, <2>3
<1>9. Committed'
  <2>1. \A p, a, b, i : RowsFit(p, a, b, i) => RowsFit(p, a, b, i)'
    BY <1>2 DEF RowsFit, FiguresFit, Row, Confirmed
  <2>2. ASSUME NEW o \in Orders
        PROVE  (/\ Legal(o, chain[o])
                /\ db[OrderKey(o)].status = "absent" => db[OrderKey(o)] = NoOrder /\ chain[o] = <<>>
                /\ RowsFit(o, db[OrderKey(o)], db[EscrowKey(o)], Applied(o))
                /\ db[IngestedKey(o)] = [events |-> Applied(o)])'
    <3>1. RowsFit(o, db[OrderKey(o)], db[EscrowKey(o)], Applied(o))'
      BY <1>4, <2>1
    <3>2. Legal(o, chain[o])'
      BY <1>1, <1>2 DEF Committed
    <3>3. QED
      BY <1>2, <1>4, <1>8, <3>1, <3>2
  <2>3. QED
    BY <1>1, <1>2, <1>7, <2>2 DEF Committed
<1>10. QED
  BY <1>4, <1>5, <1>6, <1>8, <1>9 DEF w

LEMMA WorkerCommitKeeps ==
    ASSUME DeskAssumption, DeskInv, Commit(Worker)
    PROVE  DeskInv'
<1>1. Worker \in Processes /\ Worker \notin Requests
  BY DeskConstants DEF Processes
<1>2. /\ chain' = chain /\ premature' = premature
      /\ DOMAIN txn' = Processes /\ \A q \in Processes \ {Worker} : txn'[q] = txn[q]
      /\ txn'[Worker].phase = "closed" /\ DOMAIN txn'[Worker].wrote = {}
      /\ \A q \in Processes : TxnShape(q)'
      /\ LocksApart'
      /\ \A q \in Processes : \A k : Touches(q, k)' => Touches(q, k)
  BY <1>1, CommittedRows, Closing
<1>3. /\ Committed'
      /\ \A o \in Orders :
            /\ Applied(o)' = Seen(o) /\ Applied(o) <= Seen(o)
            /\ db'[OrderKey(o)] = NoOrder <=> db[OrderKey(o)] = NoOrder
            /\ OrderKey(o) \notin DOMAIN txn[Worker].wrote =>
                  db'[OrderKey(o)] = db[OrderKey(o)] /\ Applied(o)' = Applied(o)
            /\ EscrowKey(o) \notin DOMAIN txn[Worker].wrote =>
                  db'[EscrowKey(o)] = db[EscrowKey(o)] /\ Applied(o)' = Applied(o)
  BY WorkerCommits
<1>4. /\ CreatedByOne /\ LocksApart /\ DOMAIN chain = Orders /\ premature \subseteq Orders
      /\ \A q \in Requests : RequestReady(q) /\ RequestWrote(q)
  BY DEF DeskInv
<1>5. CreatedByOne'
  BY <1>2, <1>3, <1>4, CreatedByOneKept
<1>6. ASSUME NEW q \in Requests PROVE RequestReady(q)' /\ RequestWrote(q)'
  <2>1. txn'[q] = txn[q] /\ q \in Processes /\ q # Worker
    BY <1>1, <1>2 DEF Processes
  <2>2. \A k : k \in DOMAIN txn[q].wrote => k \notin DOMAIN txn[Worker].wrote
    BY <1>1, <1>4, <2>1 DEF LocksApart
  <2>3. \A o \in Orders : Applied(o) > 0 => Applied(o)' > 0
    <3>1. \A o \in Orders : Applied(o) \in Nat /\ Seen(o) \in Nat
      BY CommittedFacts DEF DeskInv, WorkerSees, RowsFit
    <3>2. QED
      BY <1>3, <3>1
  <2>4. RequestReady(q)'
    BY <1>2, <1>3, <1>4, <2>1, <2>3, ReadyKept
  <2>5. RequestWrote(q)'
    BY <1>2, <1>3, <1>4, <2>1, <2>2, WroteKept
  <2>6. QED
    BY <2>4, <2>5
<1>7. WorkerSees'
  BY <1>2, <1>3, FreshSees
<1>8. PendingSomewhere'
  BY <1>2 DEF PendingSomewhere
<1>9. QED
  BY <1>2, <1>3, <1>4, <1>5, <1>6, <1>7, <1>8 DEF DeskInv
-----------------------------------------------------------------------------
(* A deadline passes, and the contract emits an event.                     *)

LEMMA ExpireKeeps ==
    ASSUME DeskAssumption, DeskInv, NEW o \in Orders, ExpireUnfunded(o)
    PROVE  DeskInv'
<1>. DEFINE row == [db[OrderKey(o)] EXCEPT !.status = "expired"]
<1>1. Worker \in Processes /\ Worker \notin Requests
  BY DeskConstants DEF Processes
<1>2. /\ txn' = txn /\ chain' = chain /\ premature' = premature
      /\ txn[Worker].phase = "closed" /\ db[OrderKey(o)].status = "pending"
      /\ db' = [db EXCEPT ![OrderKey(o)] = row]
  BY DEF ExpireUnfunded
<1>3. /\ CreatedByOne /\ LocksApart /\ DOMAIN chain = Orders /\ premature \subseteq Orders
      /\ DOMAIN txn = Processes /\ \A q \in Processes : TxnShape(q)
      /\ \A q \in Requests : RequestReady(q) /\ RequestWrote(q)
      /\ Committed /\ DOMAIN db = Keys
  BY DEF DeskInv, Committed
<1>4. /\ Applied(o) = 0 /\ db[OrderKey(o)] \in OrderRow
      /\ OrderFits(db[OrderKey(o)], Row(o, Applied(o)).status)
      /\ Row(o, Applied(o)).status = "absent"
  BY <1>2, CommittedFacts
<1>5. OrderFits(row, Row(o, Applied(o)).status) /\ row.status = "expired"
  BY <1>4 DEF OrderFits, OrderRow, OrderStatuses
<1>. HIDE DEF row
<1>6. /\ DOMAIN db' = Keys /\ db'[OrderKey(o)] = row
      /\ \A k : k # OrderKey(o) => db'[k] = db[k]
  <2>1. DOMAIN db' = Keys /\ db'[OrderKey(o)] = row
    BY <1>2, <1>3, KeysOfOrders
  <2>2. ASSUME NEW k, k # OrderKey(o) PROVE db'[k] = db[k]
    <3>1. CASE k \in DOMAIN db
      BY <1>2, <2>2, <3>1
    <3>2. QED
      BY <1>2, <2>2, <3>1
  <2>3. QED
    BY <2>1, <2>2
<1>7. /\ \A p \in Orders : /\ db'[EscrowKey(p)] = db[EscrowKey(p)]
                           /\ db'[IngestedKey(p)] = db[IngestedKey(p)]
                           /\ p # o => db'[OrderKey(p)] = db[OrderKey(p)]
      /\ db'[ServiceKey] = db[ServiceKey]
  BY <1>6, KeysApart
<1>8. \A p \in Orders : Applied(p)' = Applied(p)
  BY <1>7 DEF Applied
<1>9. \A p \in Orders : /\ db[OrderKey(p)] = NoOrder <=> db'[OrderKey(p)] = NoOrder
                        /\ OrderFits(db'[OrderKey(p)], Row(p, Applied(p)).status)
                        /\ db'[OrderKey(p)].status = "absent"
                              => db'[OrderKey(p)] = NoOrder /\ chain[p] = <<>>
  <2>1. NoOrder.status = "absent"
    BY DEF NoOrder
  <2>2. ASSUME NEW p \in Orders, p # o
        PROVE  /\ db[OrderKey(p)] = NoOrder <=> db'[OrderKey(p)] = NoOrder
               /\ OrderFits(db'[OrderKey(p)], Row(p, Applied(p)).status)
               /\ db'[OrderKey(p)].status = "absent"
                     => db'[OrderKey(p)] = NoOrder /\ chain[p] = <<>>
    BY <1>7, <2>2, CommittedFacts
  <2>3. /\ db[OrderKey(o)] # NoOrder /\ db'[OrderKey(o)] # NoOrder
        /\ OrderFits(db'[OrderKey(o)], Row(o, Applied(o)).status)
        /\ db'[OrderKey(o)].status # "absent"
    BY <1>2, <1>5, <1>6, <2>1
  <2>4. QED
    BY <2>2, <2>3
<1>10. Committed'
  <2>1. \A p, a, b, i : RowsFit(p, a, b, i) => RowsFit(p, a, b, i)'
    BY <1>2 DEF RowsFit, FiguresFit, Row, Confirmed
  <2>2. ASSUME NEW p \in Orders
        PROVE  (/\ Legal(p, chain[p])
                /\ db[OrderKey(p)].status = "absent" => db[OrderKey(p)] = NoOrder /\ chain[p] = <<>>
                /\ RowsFit(p, db[OrderKey(p)], db[EscrowKey(p)], Applied(p))
                /\ db[IngestedKey(p)] = [events |-> Applied(p)])'
    <3>1. RowsFit(p, db'[OrderKey(p)], db'[EscrowKey(p)], Applied(p))
      BY <1>7, <1>9, CommittedFacts DEF RowsFit
    <3>2. RowsFit(p, db[OrderKey(p)], db[EscrowKey(p)], Applied(p))'
      BY <1>8, <2>1, <3>1
    <3>3. Legal(p, chain[p])' /\ db[IngestedKey(p)] = [events |-> Applied(p)]
      BY <1>2, <1>3 DEF Committed
    <3>4. QED
      BY <1>2, <1>7, <1>8, <1>9, <3>2, <3>3
  <2>3. QED
    BY <1>3, <1>6, <1>7, <2>2 DEF Committed
<1>11. DOMAIN txn'[Worker].wrote = {} /\ \A q \in Processes : TxnShape(q)'
  BY <1>1, <1>2, <1>3 DEF TxnShape
<1>12. CreatedByOne'
  <2>1. \A q \in Processes : \A k : Touches(q, k)' => Touches(q, k)
    BY <1>2 DEF Touches
  <2>2. QED
    BY <1>3, <1>9, <2>1, CreatedByOneKept
<1>13. ASSUME NEW q \in Requests PROVE RequestReady(q)' /\ RequestWrote(q)'
  <2>1. RequestReady(q)'
    BY <1>2, <1>3, <1>8, <1>9, ReadyKept
  <2>2. RequestWrote(q)'
    BY <1>2, <1>3, <1>7, <1>8, <1>9, WroteKept
  <2>3. QED
    BY <2>1, <2>2
<1>14. WorkerSees'
  BY <1>10, <1>11, FreshSees
<1>15. PendingSomewhere' /\ LocksApart'
  BY <1>2, <1>3 DEF PendingSomewhere, LocksApart
<1>16. QED
  BY <1>2, <1>3, <1>10, <1>11, <1>12, <1>13, <1>14, <1>15 DEF DeskInv

\* What an event leaves of the events and rows before it.
LEMMA EmitFacts ==
    ASSUME DeskAssumption, DeskInv, NEW o \in Orders, Emit(o)
    PROVE  /\ db' = db /\ txn' = txn /\ premature' = premature /\ DOMAIN chain' = Orders
           /\ db[OrderKey(o)] # NoOrder
           /\ Legal(o, chain'[o])
           /\ chain[o] # <<>> => ~Closes(chain[o][Len(chain[o])])
           /\ \A p \in Orders : /\ p # o => chain'[p] = chain[p]
                                /\ Len(chain[p]) <= Len(chain'[p]) /\ Len(chain'[p]) \in Nat
                                /\ \A i \in Nat : 1 <= i /\ i <= Len(chain[p])
                                                     => chain'[p][i] = chain[p][i]
<1>. DEFINE E == EventsOf(o, Amount, FeeBps, Shares)
            s == chain[o]
<1>1. PICK event \in Upcoming(o) : /\ chain' = [chain EXCEPT ![o] = Append(s, event)]
                                   /\ db' = db /\ txn' = txn /\ premature' = premature
  BY DEF Emit
<1>2. /\ event \in E /\ db[OrderKey(o)] # NoOrder
      /\ Follows(event.name) = IF s = <<>> THEN "none" ELSE Last(s).name
  BY DEF Upcoming
<1>3. Legal(o, s) /\ DOMAIN chain = Orders
  BY CommittedFacts DEF DeskInv
<1>4. Legal(o, Append(s, event))
  BY <1>2, <1>3, LegalNext
<1>5. s \in Seq(E) /\ Len(s) \in Nat
  BY <1>3, LegalSequence
<1>6. s # <<>> => ~Closes(s[Len(s)])
  <2>1. SUFFICES ASSUME s # <<>> PROVE ~Closes(s[Len(s)])
    OBVIOUS
  <2>2. Follows(event.name) = s[Len(s)].name
    BY <1>2, <2>1 DEF Last
  <2>3. Follows(event.name) \notin {"EscrowReleased", "EscrowRefunded", "EscrowSettled"}
    <3>1. event.name \in {"EscrowCreated", "EscrowReleased", "EscrowRefunded",
                          "EscrowDisputed", "EscrowSettled"}
      BY <1>2
         DEF EventsOf, EscrowCreated, EscrowReleased, EscrowRefunded, EscrowDisputed,
                  EscrowSettled
    <3>2. QED
      BY <3>1 DEF Follows
  <2>4. QED
    BY <2>2, <2>3 DEF Closes
<1>. HIDE DEF E, s
<1>7. /\ Len(Append(s, event)) = Len(s) + 1
      /\ \A i \in 1 .. Len(s) : Append(s, event)[i] = s[i]
  BY <1>2, <1>5, AppendProperties
<1>8. ASSUME NEW p \in Orders, p # o
      PROVE  chain'[p] = chain[p] /\ Len(chain'[p]) \in Nat /\ Len(chain[p]) <= Len(chain'[p])
  <2>1. chain'[p] = chain[p]
    BY <1>1, <1>3, <1>8
  <2>2. QED
    BY <2>1, CommittedFacts, LengthNow
<1>9. chain'[o] = Append(s, event)
  BY <1>1, <1>3
<1>10. /\ Len(chain[o]) <= Len(chain'[o]) /\ Len(chain'[o]) \in Nat
       /\ \A i \in Nat : 1 <= i /\ i <= Len(chain[o]) => chain'[o][i] = chain[o][i]
  BY <1>5, <1>7, <1>9 DEF s
<1>11. DOMAIN chain' = Orders
  BY <1>1, <1>3
<1>12. QED
  BY <1>1, <1>2, <1>4, <1>6, <1>8, <1>9, <1>10, <1>11 DEF s

LEMMA RowAtEarlier ==
    ASSUME NEW s, NEW t, NEW n \in Nat, n <= 3,
           \A i \in Nat : 1 <= i /\ i <= n => t[i] = s[i]
    PROVE  RowAt(t, n) = RowAt(s, n)
<1>1. n = 0 \/ n = 1 \/ n = 2 \/ n = 3
  OBVIOUS
<1>2. (1 <= n => t[1] = s[1]) /\ (2 <= n => t[2] = s[2]) /\ (3 <= n => t[3] = s[3])
  OBVIOUS
<1>3. QED
  BY <1>1, <1>2 DEF RowAt

\* While an escrow is open its figures are those of its creation.
LEMMA OpenFigures ==
    ASSUME DeskAssumption, NEW o, Legal(o, chain[o]), chain[o] # <<>>,
           ~Closes(chain[o][Len(chain[o])]),
           NEW n \in Nat, 0 < n, n <= Len(chain[o])
    PROVE  \A row : SameFigures(row, Confirmed(o)) <=> SameFigures(row, Row(o, n))
<1>1. Len(chain[o]) \in Nat
  BY LengthNow
<1>2. ASSUME NEW i \in Nat, 0 < i, i <= Len(chain[o])
      PROVE  Row(o, i).amount = Amount /\ Row(o, i).released_amount = 0
             /\ Row(o, i).refunded_amount = 0
  <2>1. /\ SoundRow(Row(o, i))
        /\ Row(o, i).status \in {"released", "refunded"} => i = Len(chain[o])
        /\ Closes(chain[o][i]) <=> Row(o, i).status \in {"released", "refunded"}
    BY <1>2, RowNow
  <2>2. ~(Row(o, i).status \in {"released", "refunded"})
    BY <2>1
  <2>3. QED
    BY <2>1, <2>2 DEF SoundRow
<1>3. QED
  BY <1>1, <1>2 DEF SameFigures, Confirmed

LEMMA EmitKeeps ==
    ASSUME DeskAssumption, DeskInv, NEW o \in Orders, Emit(o)
    PROVE  DeskInv'
<1>1. /\ db' = db /\ txn' = txn /\ premature' = premature /\ DOMAIN chain' = Orders
      /\ db[OrderKey(o)] # NoOrder
      /\ Legal(o, chain'[o])
      /\ chain[o] # <<>> => ~Closes(chain[o][Len(chain[o])])
      /\ \A p \in Orders : /\ p # o => chain'[p] = chain[p]
                           /\ Len(chain[p]) <= Len(chain'[p]) /\ Len(chain'[p]) \in Nat
                           /\ \A i \in Nat : 1 <= i /\ i <= Len(chain[p])
                                                => chain'[p][i] = chain[p][i]
  BY EmitFacts
<1>2. /\ DOMAIN txn = Processes /\ \A p \in Processes : TxnShape(p)
      /\ premature \subseteq Orders /\ LocksApart /\ CreatedByOne /\ Committed /\ WorkerSees
      /\ \A r \in Requests : RequestReady(r) /\ RequestWrote(r)
      /\ PendingSomewhere
      /\ \A p \in Orders : Legal(p, chain[p])
  BY DEF DeskInv, Committed
<1>3. /\ \A p : Applied(p)' = Applied(p) /\ Seen(p)' = Seen(p)
      /\ \A p, k : Visible(p, k)' = Visible(p, k)
  BY <1>1 DEF Applied, Seen, Visible
<1>4. \A p \in Orders, i \in Nat : i <= Len(chain[p]) => Row(p, i)' = Row(p, i)
  <2>1. ASSUME NEW p \in Orders, NEW i \in Nat, i <= Len(chain[p])
        PROVE  RowAt(chain'[p], i) = RowAt(chain[p], i)
    <3>1. Len(chain[p]) \in Nat /\ Len(chain[p]) <= 3
      BY <1>2, LengthNow
    <3>2. \A j \in Nat : 1 <= j /\ j <= i => chain'[p][j] = chain[p][j]
      BY <1>1, <2>1, <3>1
    <3>3. QED
      BY <2>1, <3>1, <3>2, RowAtEarlier
  <2>2. QED
    BY <2>1 DEF Row
<1>5. ASSUME NEW p \in Orders, NEW n \in Nat, n <= Len(chain[p]), NEW row,
             EscrowFits(row, Row(p, n)), FiguresFit(p, row, n)
      PROVE  FiguresFit(p, row, n)'
  <2>1. Row(p, n)' = Row(p, n)
    BY <1>4, <1>5
  <2>2. CASE p # o
    <3>1. \A i : Row(p, i)' = Row(p, i)
      BY <1>1, <2>2 DEF Row
    <3>2. Confirmed(p)' = Confirmed(p)
      BY <1>1, <2>2, <3>1 DEF Confirmed, Row
    <3>3. QED
      BY <1>1, <1>5, <2>1, <3>2 DEF FiguresFit
  <2>3. CASE p = o /\ n = 0
    <3>1. row = NoRow /\ Row(p, n) = NoRow
      BY <1>2, <1>5, <2>3, RowNow, NoRowFields DEF EscrowFits
    <3>2. SameFigures(row, Row(p, n))
      BY <3>1 DEF SameFigures, InSync
    <3>3. QED
      BY <2>1, <3>2 DEF FiguresFit
  <2>4. CASE p = o /\ n > 0
    <3>1. Len(chain[o]) \in Nat /\ chain[o] # <<>>
      BY <1>2, <1>5, <2>4, LengthNow
    <3>2. SameFigures(row, Confirmed(p)) <=> SameFigures(row, Row(p, n))
      BY <1>1, <1>2, <1>5, <2>4, <3>1, OpenFigures
    <3>3. p \notin premature => SameFigures(row, Row(p, n))
      BY <1>5, <3>2 DEF FiguresFit
    <3>4. QED
      BY <1>1, <2>1, <3>3 DEF FiguresFit
  <2>5. QED
    BY <1>5, <2>2, <2>3, <2>4
<1>6. ASSUME NEW p \in Orders, NEW a, NEW b, NEW n, RowsFit(p, a, b, n)
      PROVE  RowsFit(p, a, b, n)'
  <2>1. /\ n \in Nat /\ n <= Len(chain[p]) /\ Len(chain[p]) \in Nat
        /\ OrderFits(a, Row(p, n).status) /\ EscrowFits(b, Row(p, n)) /\ FiguresFit(p, b, n)
    BY <1>2, <1>6, LengthNow DEF RowsFit
  <2>2. FiguresFit(p, b, n)'
    BY <1>5, <2>1
  <2>3. Row(p, n)' = Row(p, n) /\ n <= Len(chain'[p])
    BY <1>1, <1>4, <2>1
  <2>4. QED
    BY <2>1, <2>2, <2>3 DEF RowsFit
<1>7. Committed'
  <2>1. ASSUME NEW p \in Orders
        PROVE  (/\ Legal(p, chain[p])
                /\ db[OrderKey(p)].status = "absent" => db[OrderKey(p)] = NoOrder /\ chain[p] = <<>>
                /\ RowsFit(p, db[OrderKey(p)], db[EscrowKey(p)], Applied(p))
                /\ db[IngestedKey(p)] = [events |-> Applied(p)])'
    <3>1. RowsFit(p, db[OrderKey(p)], db[EscrowKey(p)], Applied(p))'
      <4>1. RowsFit(p, db[OrderKey(p)], db[EscrowKey(p)], Applied(p))
        BY <1>2 DEF Committed
      <4>. DEFINE a == db[OrderKey(p)] b == db[EscrowKey(p)] n == Applied(p)
      <4>2. a' = a /\ b' = b /\ n' = n
        BY <1>1, <1>3
      <4>. HIDE DEF a, b, n
      <4>3. \A x, y, i : RowsFit(p, x, y, i) => RowsFit(p, x, y, i)'
        BY <1>6
      <4>4. RowsFit(p, a, b, n)'
        <5>1. RowsFit(p, a, b, n)
          BY <4>1 DEF a, b, n
        <5>2. QED
          BY <4>2, <4>3, <5>1
      <4>5. QED
        BY <4>4 DEF a, b, n
    <3>2. Legal(p, chain'[p])
      BY <1>1, <1>2
    <3>3. db[OrderKey(p)].status = "absent" => db[OrderKey(p)] = NoOrder /\ chain'[p] = <<>>
      BY <1>1, CommittedFacts
    <3>4. db[IngestedKey(p)] = [events |-> Applied(p)]
      BY <1>2 DEF Committed
    <3>5. QED
      BY <1>1, <1>3, <3>1, <3>2, <3>3, <3>4 DEF Legal
  <2>2. QED
    BY <1>1, <1>2, <2>1 DEF Committed
<1>8. ASSUME NEW r \in Requests PROVE RequestReady(r)'
  <2>1. RequestReady(r)
    BY <1>2
  <2>2. ASSUME NEW p \in Orders, NEW d, Repairs(p, d) PROVE Repairs(p, d)'
    <3>1. CASE p = o
      <4>1. o \in premature
        BY <1>1, <2>2, <3>1 DEF Repairs
      <4>2. QED
        BY <1>1, <2>2, <3>1, <4>1 DEF Repairs
    <3>2. CASE p # o
      <4>1. chain'[p] = chain[p]
        BY <1>1, <3>2
      <4>2. QED
        BY <1>1, <2>2, <4>1 DEF Repairs, Confirmed, Row
    <3>3. QED
      BY <3>1, <3>2
  <2>3. \A p \in Orders : \A d : (CreatesOrder(p, d) => CreatesOrder(p, d)')
                                 /\ (MovesOrder(p, d) => MovesOrder(p, d)')
    BY <1>1, <1>3 DEF CreatesOrder, MovesOrder
  <2>4. ASSUME NEW p \in Orders
        PROVE  (/\ OrderKey(p) \in DOMAIN txn[r].dirty =>
                      \/ CreatesOrder(p, txn[r].dirty[OrderKey(p)])
                      \/ MovesOrder(p, txn[r].dirty[OrderKey(p)])
                /\ EscrowKey(p) \in DOMAIN txn[r].dirty =>
                      /\ Applied(p) > 0
                      /\ \/ Decides(txn[r].dirty[EscrowKey(p)])
                         \/ Repairs(p, txn[r].dirty[EscrowKey(p)])
                /\ IngestedKey(p) \notin DOMAIN txn[r].dirty)'
    <3>. DEFINE x == txn[r].dirty[OrderKey(p)]
                y == txn[r].dirty[EscrowKey(p)]
    <3>1. x' = x /\ y' = y
      BY <1>1
    <3>2. /\ OrderKey(p) \in DOMAIN txn[r].dirty => CreatesOrder(p, x) \/ MovesOrder(p, x)
          /\ EscrowKey(p) \in DOMAIN txn[r].dirty
                => Applied(p) > 0 /\ (Decides(y) \/ Repairs(p, y))
          /\ IngestedKey(p) \notin DOMAIN txn[r].dirty
      BY <2>1 DEF RequestReady
    <3>. HIDE DEF x, y
    <3>3. /\ CreatesOrder(p, x) => CreatesOrder(p, x)'
          /\ MovesOrder(p, x) => MovesOrder(p, x)'
          /\ Repairs(p, y) => Repairs(p, y)'
          /\ Decides(y) => Decides(y)'
      BY <2>2, <2>3, <3>1 DEF Decides
    <3>4. /\ OrderKey(p) \in DOMAIN txn'[r].dirty => CreatesOrder(p, x)' \/ MovesOrder(p, x)'
          /\ EscrowKey(p) \in DOMAIN txn'[r].dirty
                => Applied(p)' > 0 /\ (Decides(y)' \/ Repairs(p, y)')
          /\ IngestedKey(p) \notin DOMAIN txn'[r].dirty
      BY <1>1, <1>3, <3>2, <3>3
    <3>5. QED
      BY <3>4 DEF x, y
  <2>5. /\ txn[r].phase = "loaded" => DOMAIN txn[r].wrote = {}
        /\ ServiceKey \in DOMAIN txn[r].dirty =>
              /\ DOMAIN txn[r].dirty[ServiceKey] \subseteq {"order_count"}
              /\ \A c \in DOMAIN txn[r].dirty[ServiceKey] : txn[r].dirty[ServiceKey][c] \in Nat
    BY <2>1 DEF RequestReady
  <2>6. QED
    BY <1>1, <2>4, <2>5 DEF RequestReady
<1>9. ASSUME NEW r \in Requests PROVE RequestWrote(r)'
  <2>. DEFINE w == txn[r].wrote
  <2>1. RequestWrote(r) /\ w' = w
    BY <1>1, <1>2
  <2>2. ASSUME NEW p \in Orders, OrderKey(p) \in DOMAIN w
        PROVE  (/\ OrderFits(w[OrderKey(p)], Row(p, Applied(p)).status)
                /\ w[OrderKey(p)].status # "absent"
                /\ Applied(p) = 0 => db[OrderKey(p)] = NoOrder)'
    <3>1. /\ OrderFits(w[OrderKey(p)], Row(p, Applied(p)).status)
          /\ w[OrderKey(p)].status # "absent"
          /\ Applied(p) = 0 => db[OrderKey(p)] = NoOrder
      BY <2>1, <2>2 DEF RequestWrote
    <3>2. Row(p, Applied(p))' = Row(p, Applied(p))
      <4>1. RowAt(chain'[p], Applied(p)) = RowAt(chain[p], Applied(p))
        BY <1>4, CommittedFacts DEF Row
      <4>2. QED
        BY <1>3, <4>1 DEF Row
    <3>3. QED
      BY <1>1, <1>3, <2>1, <3>1, <3>2
  <2>3. ASSUME NEW p \in Orders, EscrowKey(p) \in DOMAIN w
        PROVE  (/\ Applied(p) > 0
                /\ EscrowFits(w[EscrowKey(p)], Row(p, Applied(p)))
                /\ FiguresFit(p, w[EscrowKey(p)], Applied(p))
                /\ db[EscrowKey(p)].dispute_resolved_at => w[EscrowKey(p)].dispute_resolved_at
                /\ db[EscrowKey(p)].dispute_provider_amount # {}
                      => w[EscrowKey(p)].dispute_provider_amount # {}
                /\ p \notin premature =>
                      \/ SameFigures(w[EscrowKey(p)], db[EscrowKey(p)])
                      \/ SameFigures(w[EscrowKey(p)], Confirmed(p)))'
    <3>. DEFINE row == w[EscrowKey(p)]
                old == db[EscrowKey(p)]
                n == Applied(p)
    <3>1. /\ n > 0 /\ EscrowFits(row, Row(p, n)) /\ FiguresFit(p, row, n)
          /\ old.dispute_resolved_at => row.dispute_resolved_at
          /\ old.dispute_provider_amount # {} => row.dispute_provider_amount # {}
          /\ p \notin premature => SameFigures(row, old) \/ SameFigures(row, Confirmed(p))
      BY <2>1, <2>3 DEF RequestWrote
    <3>2. n \in Nat /\ n <= Len(chain[p]) /\ EscrowFits(old, Row(p, n)) /\ FiguresFit(p, old, n)
      BY CommittedFacts
    <3>3. row' = row /\ old' = old /\ n' = n
      BY <1>1, <1>3
    <3>. HIDE DEF row, old, n
    <3>4. Row(p, n)' = Row(p, n) /\ FiguresFit(p, row, n)'
      <4>1. \A i \in Nat : i <= Len(chain[p]) => RowAt(chain'[p], i) = RowAt(chain[p], i)
        BY <1>4 DEF Row
      <4>2. RowAt(chain'[p], n) = RowAt(chain[p], n)
        BY <3>2, <4>1
      <4>3. Row(p, n)' = Row(p, n)
        BY <3>3, <4>2 DEF Row
      <4>4. \A x, i : i \in Nat /\ i <= Len(chain[p]) /\ EscrowFits(x, Row(p, i))
                      /\ FiguresFit(p, x, i) => FiguresFit(p, x, i)'
        BY <1>5
      <4>5. FiguresFit(p, row, n)'
        BY <3>1, <3>2, <3>3, <4>4
      <4>6. QED
        BY <4>3, <4>5
    <3>5. (p \notin premature => SameFigures(row, old) \/ SameFigures(row, Confirmed(p)))'
      <4>1. CASE p # o
        <5>1. chain'[p] = chain[p]
          BY <1>1, <4>1
        <5>2. Confirmed(p)' = Confirmed(p)
          BY <5>1 DEF Confirmed, Row
        <5>3. QED
          BY <1>1, <3>1, <3>3, <5>2
      <4>2. CASE p = o
        <5>1. Len(chain[p]) \in Nat /\ chain[p] # <<>>
          BY <1>2, <3>1, <3>2, LengthNow
        <5>2. \A x : SameFigures(x, Confirmed(p)) <=> SameFigures(x, Row(p, n))
          BY <1>1, <1>2, <3>1, <3>2, <4>2, <5>1, OpenFigures
        <5>3. p \notin premature => SameFigures(old, Row(p, n)) /\ SameFigures(row, Row(p, n))
          BY <3>1, <3>2, <5>2 DEF FiguresFit
        <5>4. p \notin premature => SameFigures(row, old)
          BY <5>3 DEF SameFigures, InSync
        <5>5. QED
          BY <1>1, <3>3, <5>4
      <4>3. QED
        BY <4>1, <4>2
    <3>6. (/\ n > 0 /\ EscrowFits(row, Row(p, n))
           /\ old.dispute_resolved_at => row.dispute_resolved_at
           /\ old.dispute_provider_amount # {} => row.dispute_provider_amount # {})'
      BY <3>1, <3>3, <3>4
    <3>7. QED
      BY <3>4, <3>5, <3>6 DEF row, old, n
  <2>4. /\ \A p \in Orders : IngestedKey(p) \notin DOMAIN w
        /\ ServiceKey \in DOMAIN w => /\ w[ServiceKey] = [order_count |-> w[ServiceKey].order_count]
                                      /\ w[ServiceKey].order_count \in Nat
    BY <2>1 DEF RequestWrote
  <2>5. QED
    BY <2>1, <2>2, <2>3, <2>4 DEF RequestWrote
<1>10. WorkerSees'
  <2>1. ASSUME NEW p \in Orders
        PROVE  RowsFit(p, Visible(Worker, OrderKey(p)), Visible(Worker, EscrowKey(p)), Seen(p))'
    <3>. DEFINE a == Visible(Worker, OrderKey(p)) b == Visible(Worker, EscrowKey(p)) n == Seen(p)
    <3>1. a' = a /\ b' = b /\ n' = n /\ RowsFit(p, a, b, n)
      BY <1>2, <1>3 DEF WorkerSees
    <3>. HIDE DEF a, b, n
    <3>2. \A x, y, i : RowsFit(p, x, y, i) => RowsFit(p, x, y, i)'
      BY <1>6
    <3>3. RowsFit(p, a, b, n)'
      BY <3>1, <3>2
    <3>4. QED
      BY <3>3 DEF a, b, n
  <2>2. QED
    BY <1>1, <1>2, <1>3, <2>1 DEF WorkerSees
<1>11. PendingSomewhere'
  <2>1. ASSUME NEW p \in Orders, NEW m \in 1 .. 3, Pending(p, m)
        PROVE  Pending(p, m)'
    <3>1. /\ m \in Nat /\ m <= Len(chain[p]) /\ Seen(p) \in Nat /\ Seen(p) <= Len(chain[p])
      BY <1>2, <2>1 DEF Pending, WorkerSees, RowsFit
    <3>2. chain'[p][m] = chain[p][m] /\ Row(p, m)' = Row(p, m)
      BY <1>1, <1>4, <2>1, <3>1
    <3>3. Row(p, Seen(p))' = Row(p, Seen(p))
      <4>1. RowAt(chain'[p], Seen(p)) = RowAt(chain[p], Seen(p))
        BY <1>4, <3>1 DEF Row
      <4>2. QED
        BY <1>3, <4>1 DEF Row
    <3>4. MovesOn(p, m)'
      BY <1>1, <2>1, <3>2, <3>3 DEF Pending, MovesOn
    <3>5. Mirrors(p, m)'
      BY <1>1, <1>3, <2>1, <3>2, <3>3 DEF Pending, Mirrors
    <3>6. m <= Len(chain'[p])
      BY <1>1, <1>2, <3>1, LengthNow
    <3>7. QED
      BY <1>1, <1>3, <2>1, <3>2, <3>4, <3>5, <3>6 DEF Pending
  <2>2. QED
    BY <1>1, <1>2, <2>1 DEF PendingSomewhere
<1>12. CreatedByOne' /\ LocksApart' /\ \A p \in Processes : TxnShape(p)'
  BY <1>1, <1>2 DEF CreatedByOne, LocksApart, TxnShape, Touches
<1>13. QED
  BY <1>1, <1>2, <1>7, <1>8, <1>9, <1>10, <1>11, <1>12 DEF DeskInv
-----------------------------------------------------------------------------
(* The invariant holds, and what follows from it.                          *)

LEMMA DeskInit == ASSUME DeskAssumption, Init PROVE DeskInv
<1>. DEFINE none == <<>>
<1>1. /\ chain = [o \in Orders |-> none] /\ premature = {}
      /\ txn = [p \in Processes |-> [phase |-> "closed", dirty |-> none, wrote |-> none]]
  BY DEF Init, Closed
<1>2. DOMAIN none = {} /\ Len(none) = 0 /\ none = <<>>
  OBVIOUS
<1>. HIDE DEF none
<1>3. Worker \in Processes /\ Worker \notin Requests
  BY DeskConstants DEF Processes
<1>4. /\ DOMAIN db = Keys /\ db[ServiceKey] = [order_count |-> 0]
      /\ \A o \in Orders : /\ db[OrderKey(o)] = NoOrder /\ db[EscrowKey(o)] = NoRow
                           /\ db[IngestedKey(o)] = [events |-> 0]
  <2>. DEFINE F(k) == CASE k[1] = "services"           -> [order_count |-> 0]
                        [] k[1] = "orders"             -> NoOrder
                        [] k[1] = "escrows"            -> NoRow
                        [] k[1] = "chain_transactions" -> [events |-> 0]
  <2>1. db = [k \in Keys |-> F(k)]
    BY DEF Init
  <2>2. F(ServiceKey) = [order_count |-> 0]
    BY KeysApart
  <2>3. ASSUME NEW o \in Orders
        PROVE  /\ F(OrderKey(o)) = NoOrder /\ F(EscrowKey(o)) = NoRow
               /\ F(IngestedKey(o)) = [events |-> 0]
    BY KeysApart
  <2>. HIDE DEF F
  <2>4. QED
    BY <2>1, <2>2, <2>3, KeysOfOrders
<1>5. ASSUME NEW o \in Orders PROVE Applied(o) = 0 /\ Legal(o, chain[o]) /\ Row(o, 0) = NoRow
  BY <1>1, <1>2, <1>4 DEF Applied, Legal, Row, RowAt
<1>6. OrderFits(NoOrder, "absent")
  BY DEF OrderFits, NoOrder, OrderRow, OrderStatuses
<1>7. EscrowFits(NoRow, NoRow) /\ NoRow.status = "absent" /\ SameFigures(NoRow, NoRow)
  BY NoRowFields DEF EscrowFits, SameFigures, InSync
<1>8. ASSUME NEW o \in Orders PROVE RowsFit(o, db[OrderKey(o)], db[EscrowKey(o)], Applied(o))
  <2>1. 0 <= Len(chain[o])
    BY <1>1, <1>2
  <2>2. QED
    BY <1>4, <1>5, <1>6, <1>7, <2>1 DEF RowsFit, FiguresFit
<1>9. Committed
  BY <1>1, <1>2, <1>4, <1>5, <1>8 DEF Committed
<1>10. \A p \in Processes : /\ txn[p].phase = "closed" /\ DOMAIN txn[p].dirty = {}
                            /\ DOMAIN txn[p].wrote = {} /\ TxnShape(p)
  <2>1. ASSUME NEW p \in Processes
        PROVE  txn[p] = [phase |-> "closed", dirty |-> none, wrote |-> none]
    BY <1>1
  <2>2. QED
    BY <1>2, <2>1 DEF TxnShape
<1>11. \A k : Visible(Worker, k) = db[k]
  BY <1>3, <1>10 DEF Visible
<1>12. WorkerSees
  <2>1. \A o \in Orders : Seen(o) = Applied(o)
    BY <1>11 DEF Seen, Applied
  <2>2. QED
    BY <1>3, <1>4, <1>5, <1>8, <1>10, <1>11, <2>1 DEF WorkerSees
<1>13. \A r \in Requests : RequestReady(r) /\ RequestWrote(r)
  BY <1>10 DEF RequestReady, RequestWrote, Processes
<1>14. LocksApart /\ CreatedByOne /\ PendingSomewhere
  BY <1>3, <1>10 DEF LocksApart, CreatedByOne, PendingSomewhere, Touches
<1>15. DOMAIN txn = Processes /\ DOMAIN chain = Orders
  BY <1>1
<1>16. QED
  BY <1>1, <1>9, <1>10, <1>12, <1>13, <1>14, <1>15 DEF DeskInv

LEMMA UnchangedKeeps == ASSUME DeskInv, UNCHANGED vars PROVE DeskInv'
<1>1. chain' = chain /\ db' = db /\ txn' = txn /\ premature' = premature
  BY DEF vars
<1>2. Committed'
  BY <1>1, CommittedKept DEF DeskInv
<1>3. WorkerSees' /\ PendingSomewhere'
  BY <1>1, Quiet DEF DeskInv
<1>4. \A r \in Requests : RequestReady(r)' /\ RequestWrote(r)'
  <2>1. \A o : Applied(o)' = Applied(o)
    BY <1>1 DEF Applied
  <2>2. QED
    BY <1>1, <2>1, ReadyKept, WroteKept DEF DeskInv
<1>5. LocksApart' /\ CreatedByOne' /\ \A p \in Processes : TxnShape(p)'
  BY <1>1 DEF DeskInv, LocksApart, CreatedByOne, TxnShape, Touches
<1>6. QED
  BY <1>1, <1>2, <1>3, <1>4, <1>5 DEF DeskInv

LEMMA DeskStep == ASSUME DeskAssumption, DeskInv, [Next]_vars PROVE DeskInv'
<1>1. ASSUME NEW r \in Requests, NEW o \in Orders, Request(r, o) PROVE DeskInv'
  BY <1>1, CreateOrderKeeps, StartWorkKeeps, MarkDeliveredKeeps, RecordDecisionKeeps,
     RepairOrderKeeps DEF Request
<1>2. ASSUME NEW o \in Orders, Emit(o) PROVE DeskInv'
  BY <1>2, EmitKeeps
<1>3. ASSUME NEW o \in Orders, Index(o) PROVE DeskInv'
  BY <1>3, ApplyNextKeeps, ApplyAgainKeeps, ExpireKeeps DEF Index
<1>4. ASSUME NEW p \in Processes, EndTransaction(p) PROVE DeskInv'
  <2>1. CASE Flush(p)
    BY <1>4, <2>1, RequestFlushKeeps, WorkerFlushKeeps DEF Processes
  <2>2. CASE Refuse(p) \/ Rollback(p)
    BY <1>4, <2>2, Abandoned DEF Refuse, Rollback
  <2>3. CASE Commit(p)
    BY <1>4, <2>3, RequestCommitKeeps, WorkerCommitKeeps DEF Processes
  <2>4. QED
    BY <1>4, <2>1, <2>2, <2>3 DEF EndTransaction
<1>5. CASE UNCHANGED vars
  BY <1>5, UnchangedKeeps
<1>6. QED
  BY <1>1, <1>2, <1>3, <1>4, <1>5 DEF Next

LEMMA PaidAndNeverAhead ==
    ASSUME DeskAssumption, DeskInv
    PROVE  CompletedWhenPaid /\ NeverAheadOfChain
<1>1. ASSUME NEW o \in Orders
      PROVE  /\ db[OrderKey(o)].status = "completed" <=> db[EscrowKey(o)].status = "released"
             /\ db[OrderKey(o)].status \in {"absent", "pending", "expired"}
                   <=> db[EscrowKey(o)].status = "absent"
             /\ db[OrderKey(o)].status \in {"refunded", "disputed"}
                   => db[EscrowKey(o)].status = db[OrderKey(o)].status
  BY CommittedFacts DEF OrderFits
<1>2. QED
  BY <1>1 DEF CompletedWhenPaid, NeverAheadOfChain

\* Figures that are in sync with those of a row are its figures.
LEMMA FiguresEqual ==
    ASSUME NEW row, NEW base, SameFigures(row, base)
    PROVE  \A c \in Figures : row[c] = base[c]
BY DEF SameFigures, InSync, Figures

LEMMA RowFollows == ASSUME DeskAssumption, DeskInv PROVE EscrowRowFollowsChain
<1>1. SUFFICES ASSUME NEW o \in Orders
      PROVE  LET row == db[EscrowKey(o)]
                 projected == Projection(o, db[IngestedKey(o)].events)
                 confirmed == Projected(chain[o])
             IN
             /\ \A c \in DOMAIN NoRow \ (DecisionColumns \cup Figures) : row[c] = projected[c]
             /\ o \notin premature =>
                   \/ \A c \in Figures : row[c] = projected[c]
                   \/ \A c \in Figures : row[c] = confirmed[c]
  BY DEF EscrowRowFollowsChain
<1>. DEFINE row == db[EscrowKey(o)]
            base == Row(o, Applied(o))
<1>2. /\ Legal(o, chain[o]) /\ Applied(o) \in Nat /\ Applied(o) <= Len(chain[o])
      /\ EscrowFits(row, base) /\ FiguresFit(o, row, Applied(o)) /\ base \in EscrowRow
  BY CommittedFacts
<1>3. Projection(o, db[IngestedKey(o)].events) = base /\ Projected(chain[o]) = Confirmed(o)
  BY <1>2, ProjectionIsRow DEF Applied
<1>. HIDE DEF row, base
<1>4. \A c \in DOMAIN NoRow \ (DecisionColumns \cup Figures) : row[c] = base[c]
  <2>1. DOMAIN NoRow \ (DecisionColumns \cup Figures)
           = {"status", "fee_amount", "released_at", "refunded_at", "disputed_at"}
    BY DEF NoRow, DecisionColumns, Figures
  <2>2. /\ row.status = base.status /\ row.fee_amount = base.fee_amount
        /\ row.released_at \in BOOLEAN /\ base.released_at \in BOOLEAN
        /\ row.refunded_at \in BOOLEAN /\ base.refunded_at \in BOOLEAN
        /\ row.disputed_at \in BOOLEAN /\ base.disputed_at \in BOOLEAN
        /\ row.released_at <=> base.released_at
        /\ row.refunded_at <=> base.refunded_at
        /\ row.disputed_at <=> base.disputed_at
    BY <1>2 DEF EscrowFits, EscrowRow
  <2>3. /\ row.released_at = base.released_at /\ row.refunded_at = base.refunded_at
        /\ row.disputed_at = base.disputed_at
    BY <2>2
  <2>4. QED
    BY <2>1, <2>2, <2>3
<1>5. o \notin premature => \/ \A c \in Figures : row[c] = base[c]
                            \/ \A c \in Figures : row[c] = Confirmed(o)[c]
  BY <1>2, FiguresEqual DEF FiguresFit, base
<1>6. QED
  BY <1>3, <1>4, <1>5 DEF row

LEMMA DecisionsKept ==
    ASSUME DeskAssumption, DeskInv, [Next]_vars
    PROVE  DecisionsStay
<1>1. CASE db' = db
  BY <1>1 DEF DecisionsStay
<1>2. ASSUME NEW o \in Orders, ExpireUnfunded(o) PROVE DecisionsStay
  <2>1. \A p \in Orders : db'[EscrowKey(p)] = db[EscrowKey(p)]
    BY <1>2, KeysApart, KeysOfOrders DEF ExpireUnfunded, DeskInv, Committed
  <2>2. QED
    BY <2>1 DEF DecisionsStay
<1>3. ASSUME NEW p \in Processes, Commit(p) PROVE DecisionsStay
  BY <1>3, RequestCommits, WorkerCommits DEF DecisionsStay, Processes
<1>4. QED
  BY <1>1, <1>2, <1>3
     DEF Next, Request, CreateOrder, StartWork, MarkDelivered, RecordDecision,
     RepairOrder, Emit, Index, ApplyNext, ApplyAgain, Apply, Load, EndTransaction, Flush, Refuse,
     Rollback, vars

\* The rows are of the types of their columns, and the indexer has applied no
\* more events than the chain holds.
LEMMA RowsTyped == ASSUME DeskAssumption, DeskInv PROVE TypeOK
<1>1. \A o \in Orders :
         /\ db[OrderKey(o)] \in OrderRow /\ db[EscrowKey(o)] \in EscrowRow
         /\ db[IngestedKey(o)].events \in 0 .. Len(chain[o])
  BY CommittedFacts, LegalSequence DEF Applied
<1>2. /\ db[ServiceKey].order_count \in Nat /\ premature \subseteq Orders
      /\ \A p \in Processes : txn[p].phase \in {"closed", "loaded", "flushed"}
  BY DEF DeskInv, Committed, TxnShape
<1>3. QED
  BY <1>1, <1>2 DEF TypeOK, OrderRow
===============================================================================
