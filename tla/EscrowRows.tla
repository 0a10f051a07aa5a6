----------------------------- MODULE EscrowRows -----------------------------
(***************************************************************************)
(* A row of the escrows table, and how the indexer writes it from the      *)
(* events of the contract (apps/api/app/chain/indexer.py).                 *)
(*                                                                         *)
(* Amounts are in base units on both sides: from_base_units only moves the *)
(* decimal point.  A timestamp column is TRUE once it is set.  An amount    *)
(* that may be null is a set: empty, or of the one amount.                 *)
(***************************************************************************)
EXTENDS Naturals

\* No row: the order has no escrow yet.
NoRow ==
    [status |-> "absent", amount |-> 0, released_amount |-> 0,
     refunded_amount |-> 0, fee_amount |-> 0, released_at |-> FALSE,
     refunded_at |-> FALSE, disputed_at |-> FALSE,
     dispute_resolved_at |-> FALSE, dispute_resolution |-> "null",
     dispute_provider_amount |-> {}]

EscrowRow ==
    [status : {"absent", "funded", "released", "refunded", "disputed"},
     amount : Nat, released_amount : Nat, refunded_amount : Nat,
     fee_amount : Nat, released_at : BOOLEAN, refunded_at : BOOLEAN,
     disputed_at : BOOLEAN, dispute_resolved_at : BOOLEAN,
     dispute_resolution : {"null", "released_to_provider", "refunded_to_buyer", "split"},
     dispute_provider_amount : SUBSET Nat]

\* The CHECK constraints of the escrows table that relate two columns.
RowChecks(row) ==
    row.status = "absent" \/
        /\ row.released_amount + row.refunded_amount <= row.amount
        /\ row.fee_amount <= row.amount
        /\ (row.status = "released") <=> row.released_at
        /\ (row.dispute_resolution = "null") <=> ~row.dispute_resolved_at
        /\ row.dispute_resolved_at => row.disputed_at

\* The event that created the row; a repeat only sets the status.
ApplyCreated(row, event) ==
    IF row.status = "absent"
    THEN [NoRow EXCEPT !.status = "funded", !.amount = event.amount]
    ELSE [row EXCEPT !.status = "funded"]

\* apply_release: the provider's net and the fee add up to the gross.
ApplyReleased(row, event) ==
    LET sum == event.providerAmount + event.feeAmount
        gross == IF sum = 0 THEN row.amount ELSE sum
    IN [row EXCEPT !.status = "released", !.amount = gross,
                   !.released_amount = gross, !.fee_amount = event.feeAmount,
                   !.released_at = TRUE]

\* apply_refund: the event's amount is the whole escrow.
ApplyRefunded(row, event) ==
    LET refunded == IF event.amount = 0 THEN row.amount ELSE event.amount IN
    [row EXCEPT !.status = "refunded", !.amount = refunded,
                !.refunded_amount = refunded, !.refunded_at = TRUE]

ApplyDisputed(row) == [row EXCEPT !.status = "disputed", !.disputed_at = TRUE]

NetAsReleased(event) == event.providerAmount

\* settled_amounts: the event names the net, the contract stores the gross.
SettledGross(event) == event.providerAmount + event.feeAmount

\* settlement_resolution: the split, described.
SettlementResolution(gross, toBuyer) ==
    CASE toBuyer = 0             -> "released_to_provider"
      [] toBuyer # 0 /\ gross = 0 -> "refunded_to_buyer"
      [] OTHER                   -> "split"

ApplySettledUnresolved(row, event) ==
    [row EXCEPT !.status = "released", !.released_amount = SettledGross(event),
                !.refunded_amount = event.buyerAmount,
                !.fee_amount = event.feeAmount,
                !.released_at = TRUE, !.dispute_resolved_at = TRUE]

\* Both resolution columns or neither, as the table demands.
ApplySettled(row, event) ==
    [row EXCEPT !.status = "released", !.released_amount = SettledGross(event),
                !.refunded_amount = event.buyerAmount,
                !.fee_amount = event.feeAmount,
                !.released_at = TRUE, !.dispute_resolved_at = TRUE,
                !.dispute_resolution =
                    SettlementResolution(SettledGross(event), event.buyerAmount)]

\* _apply_to_escrow: before its creation, an escrow's other events are dropped.
ApplyToEscrow(row, event) ==
    CASE event.name = "EscrowCreated" -> ApplyCreated(row, event)
      [] event.name # "EscrowCreated" /\ row.status = "absent" -> row
      [] event.name = "EscrowReleased" /\ row.status # "absent" -> ApplyReleased(row, event)
      [] event.name = "EscrowRefunded" /\ row.status # "absent" -> ApplyRefunded(row, event)
      [] event.name = "EscrowDisputed" /\ row.status # "absent" -> ApplyDisputed(row)
      [] event.name = "EscrowSettled" /\ row.status # "absent" -> ApplySettled(row, event)

\* _EVENT_TO_ORDER_STATUS
OrderStatusFor(name) ==
    CASE name = "EscrowCreated"  -> "funded"
      [] name = "EscrowReleased" -> "completed"
      [] name = "EscrowRefunded" -> "refunded"
      [] name = "EscrowDisputed" -> "disputed"
      [] name = "EscrowSettled"  -> "completed"

\* _EVENT_TO_TX_TYPE has no entry for a dispute: it leaves no transaction row.
HasTxType(name) == name # "EscrowDisputed"

\* What reconcile_order compares: the three figures both sides hold.
InSync(row, amount, released, refunded) ==
    /\ row.amount = amount
    /\ row.released_amount = released
    /\ row.refunded_amount = refunded
=============================================================================
