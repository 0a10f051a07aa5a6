-------------------------- MODULE SettlementMirror --------------------------
(***************************************************************************)
(* The contract together with the database row its events lead to, when    *)
(* every event is applied once and in order: what the off-chain record can *)
(* know from events alone.  EscrowIndexer models how events really arrive. *)
(***************************************************************************)
EXTENDS AgoreumEscrow, EscrowRows

VARIABLE row                \* the escrows table, by escrow

mirrorVars == <<vars, row>>

Record(e, event) == row' = [row EXCEPT ![e] = ApplyToEscrow(row[e], event)]

MirrorInit == Init /\ row = [e \in Escrows |-> NoRow]

MirrorCreate(caller, e) ==
    /\ Create(caller, e)
    /\ Record(e, EscrowCreated(e, escrow'[e].amount))

MirrorRelease(caller, e) ==
    /\ Release(caller, e)
    /\ Record(e, EscrowReleased(e, escrow[e].amount, escrow[e].feeBps))

MirrorRefund(caller, e) ==
    /\ Refund(caller, e)
    /\ Record(e, EscrowRefunded(e, escrow[e].amount))

MirrorDispute(caller, e) ==
    /\ Dispute(caller, e)
    /\ Record(e, EscrowDisputed(e))

MirrorSettle(caller, e) ==
    /\ Settle(caller, e)
    /\ Record(e, EscrowSettled(e, escrow[e].amount, escrow'[e].released, escrow[e].feeBps))

MirrorNext ==
    \/ \E caller \in Accounts, e \in Escrows :
          \/ MirrorCreate(caller, e)
          \/ MirrorRelease(caller, e)
          \/ MirrorRefund(caller, e)
          \/ MirrorDispute(caller, e)
          \/ MirrorSettle(caller, e)
    \/ /\ UNCHANGED row
       /\ \/ \E caller \in Accounts : Govern(caller)
          \/ \E account \in ArbiterCandidates : GrantArbiter(account) \/ RevokeArbiter(account)
          \/ Tick

MirrorSpec == MirrorInit /\ [][MirrorNext]_mirrorVars

-----------------------------------------------------------------------------
\* reconcile_order finds no divergence: although EscrowSettled names a net
\* and EscrowReleased a net and a fee, the row holds the contract's gross.
\* And every row the events lead to satisfies the table's constraints, so the
\* database refuses no event of the contract: the amounts stay within the
\* deposit, the fee within the amount, the timestamps follow the status.
RowsReconcile ==
    \A e \in Escrows :
        /\ RowChecks(row[e])
        /\ InSync(row[e], escrow[e].amount, escrow[e].released, escrow[e].refunded)
=============================================================================
