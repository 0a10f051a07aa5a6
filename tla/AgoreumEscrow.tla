--------------------------- MODULE AgoreumEscrow ----------------------------
(***************************************************************************)
(* The escrow contract, contracts/src/AgoreumEscrow.sol.                   *)
(*                                                                         *)
(* Every external function is an action; the EVM runs each as one atomic   *)
(* transaction, and a transaction that reverts changes nothing, so a       *)
(* revert is a guard that is false.  block.timestamp is the variable now.  *)
(* The ERC-20 balances and the role tables of OpenZeppelin's AccessControl *)
(* are modelled from how the contract uses them.                           *)
(*                                                                         *)
(* Escrows are numbered 1 .. NEscrows: an escrowId is an opaque key the    *)
(* caller supplies, and any finite set of keys can be numbered.            *)
(*                                                                         *)
(* Bounds: MaxAmount on a single deposit, MaxTime on the clock, and the    *)
(* fees a governor may ask for (FeeChoices).                               *)
(***************************************************************************)
EXTENDS EscrowEvents, Totals

CONSTANTS NEscrows,
          Accounts,         \* externally owned accounts
          Zero,             \* address(0)
          Vault,            \* address(this)
          Tokens,
          Skimmed,          \* what a token keeps of each transfer, per token
          Endowment,        \* initial token balance of each account
          MaxAmount,        \* bound on the amount of one escrow
          MinWindow,        \* MIN_WINDOW
          MaxWindow,        \* MAX_WINDOW
          FeeChoices,       \* fees a governor may ask for
          MaxTime,          \* bound on block.timestamp
          Admin,            \* DEFAULT_ADMIN_ROLE and GOVERNOR_ROLE at deployment
          Arbiter,          \* ARBITER_ROLE at deployment
          ArbiterCandidates \* accounts an admin may grant ARBITER_ROLE

Escrows == 1 .. NEscrows
Time == 0 .. MaxTime

ASSUME ConstantsAssumption ==
    /\ NEscrows \in Nat
    /\ Zero \notin Accounts /\ Vault \notin Accounts
    /\ Zero \notin Tokens
    /\ Skimmed \in [Tokens -> Nat]
    /\ Endowment \in [Tokens -> [Accounts -> Nat]]
    /\ MaxAmount \in Nat
    /\ MinWindow \in Nat \ {0} /\ MaxWindow \in Nat /\ MinWindow <= MaxWindow
    /\ FeeChoices \subseteq Nat
    /\ MaxTime \in Nat
    /\ Admin \in Accounts /\ Arbiter \in Accounts
    /\ ArbiterCandidates \subseteq Accounts

VARIABLES escrow,           \* _escrows
          feeBps,           \* fee of escrows created from now on
          feeRecipient,     \* where fees are sent
          feesCollected,    \* per token, for reconciliation
          paused,           \* Pausable
          arbiters,         \* holders of ARBITER_ROLE
          wallet,           \* ERC-20 balances, per token and account
          now               \* block.timestamp

contractVars == <<escrow, feeBps, feeRecipient, feesCollected, paused, arbiters>>
vars == <<escrow, feeBps, feeRecipient, feesCollected, paused, arbiters, wallet, now>>

Statuses == {"None", "Funded", "Released", "Refunded", "Disputed", "Settled"}
Terminal == {"Released", "Refunded", "Settled"}
Holding  == {"Funded", "Disputed"}

EscrowRecord ==
    [buyer : Accounts \cup {Zero}, provider : Accounts \cup {Zero},
     token : Tokens \cup {Zero}, amount : Nat, released : Nat, refunded : Nat,
     feeBps : 0 .. MaxFeeBps, deliveryDeadline : Nat, autoReleaseAt : Nat,
     status : Statuses]

\* The zeroed struct an unknown id reads as.
NoEscrow ==
    [buyer |-> Zero, provider |-> Zero, token |-> Zero,
     amount |-> 0, released |-> 0, refunded |-> 0, feeBps |-> 0,
     deliveryDeadline |-> 0, autoReleaseAt |-> 0, status |-> "None"]

\* What the contract still holds for an escrow.
Outstanding(e) == escrow[e].amount - escrow[e].released - escrow[e].refunded

\* _assertSolvent, on the record about to be stored.
AssertSolvent(record) == record.released + record.refunded <= record.amount

-----------------------------------------------------------------------------
(* The conditions and figures the functions below are built from.  Each    *)
(* is preceded, where a slip would be easy, by the version with the slip:  *)
(* the properties are checked against those too.                           *)

UnusedOrClosed(e) == escrow[e].status \notin Holding

\* An escrowId can be created once: whoever supplies it, and for ever.
Unused(e) == escrow[e].status = "None"

StillPayable(d) == d.status # "None"

\* release and refund act on a funded escrow only.
Payable(d) == d.status = "Funded"

\* The buyer at any time, anyone once auto-release is due.
MayRelease(caller, d) == caller = d.buyer \/ now >= d.autoReleaseAt

MayRefundLate(caller, d) ==
    caller = d.provider \/ (caller = d.buyer /\ now > d.deliveryDeadline)

\* The provider at any time, the buyer once delivery is overdue.
MayRefund(caller, d) ==
    caller = d.provider \/ (caller = d.buyer /\ now >= d.deliveryDeadline)

AcceptsShortfall(amount, received) == received <= amount

\* The token delivered what was sent.
AcceptsTransfer(amount, received) == received = amount

BuyerArgument(d, providerAmount, buyerAmount) == buyerAmount

\* The buyer's part of a split: all the provider does not get, whatever the
\* buyerAmount argument says, so rounding dust stays with the buyer.
BuyerTotal(d, providerAmount, buyerAmount) == d.amount - providerAmount

FeeAtCurrentRate(d, value) == FeeOf(value, feeBps)

\* The fee on what the provider earns, at the rate frozen at creation.
FeeFor(d, value) == FeeOf(value, d.feeBps)

FeeJustOver(bps) == bps <= MaxFeeBps + 1

\* The cap on what a governor may ask for.
FeeWithinCap(bps) == bps <= MaxFeeBps

-----------------------------------------------------------------------------
(* ERC-20 transfers.  A transfer of more than the sender has reverts.      *)

Move(w, t, from, to, v) == [w EXCEPT ![t][from] = @ - v, ![t][to] = @ + v]

\* _payOut for the three possible beneficiaries of an escrow, in turn.
PayOut(t, payee, net, buyer, back, fee) ==
    /\ wallet[t][Vault] >= net + back + fee
    /\ wallet' = Move(Move(Move(wallet, t, Vault, payee, net),
                                        t, Vault, buyer, back),
                                        t, Vault, feeRecipient, fee)

-----------------------------------------------------------------------------
Init ==
    /\ escrow = [e \in Escrows |-> NoEscrow]
    /\ feeBps \in {f \in FeeChoices : f <= MaxFeeBps}
    /\ feeRecipient \in Accounts
    /\ feesCollected = [t \in Tokens |-> 0]
    /\ paused = FALSE
    /\ arbiters = {Arbiter}
    /\ wallet = [t \in Tokens |->
                    [a \in Accounts \cup {Vault} |->
                        IF a = Vault THEN 0 ELSE Endowment[t][a]]]
    /\ now = 0

CreateEscrow(caller, e, provider, token, amount, deliveryWindow, autoReleaseWindow) ==
    LET received == amount - Skimmed[token]
        deliveryDeadline == now + deliveryWindow
    IN
    /\ ~paused
    /\ Unused(e)
    /\ provider # Zero /\ token # Zero
    /\ provider # caller
    /\ amount # 0
    /\ deliveryWindow \in MinWindow .. MaxWindow
    /\ autoReleaseWindow \in MinWindow .. MaxWindow
    /\ wallet[token][caller] >= amount
    /\ AcceptsTransfer(amount, received)
    /\ wallet' = [wallet EXCEPT ![token][caller] = @ - amount,
                                ![token][Vault] = @ + received]
    /\ escrow' = [escrow EXCEPT ![e] =
                    [buyer |-> caller, provider |-> provider, token |-> token,
                     amount |-> amount, released |-> 0, refunded |-> 0,
                     feeBps |-> feeBps, deliveryDeadline |-> deliveryDeadline,
                     autoReleaseAt |-> deliveryDeadline + autoReleaseWindow,
                     status |-> "Funded"]]
    /\ UNCHANGED <<feeBps, feeRecipient, feesCollected, paused, arbiters, now>>

Release(caller, e) ==
    LET d == escrow[e]
        fee == FeeFor(d, d.amount)
    IN
    /\ Payable(d)
    /\ MayRelease(caller, d)
    /\ escrow' = [escrow EXCEPT ![e].released = d.amount, ![e].status = "Released"]
    /\ feesCollected' = [feesCollected EXCEPT ![d.token] = @ + fee]
    /\ AssertSolvent(escrow'[e])
    /\ PayOut(d.token, d.provider, d.amount - fee, d.buyer, 0, fee)
    /\ UNCHANGED <<feeBps, feeRecipient, paused, arbiters, now>>

Refund(caller, e) ==
    LET d == escrow[e] IN
    /\ Payable(d)
    /\ MayRefund(caller, d)
    /\ escrow' = [escrow EXCEPT ![e].refunded = d.amount, ![e].status = "Refunded"]
    /\ AssertSolvent(escrow'[e])
    /\ PayOut(d.token, d.provider, 0, d.buyer, d.amount, 0)
    /\ UNCHANGED <<feeBps, feeRecipient, feesCollected, paused, arbiters, now>>

Dispute(caller, e) ==
    /\ ~paused
    /\ escrow[e].status = "Funded"
    /\ caller \in {escrow[e].buyer, escrow[e].provider}
    /\ escrow' = [escrow EXCEPT ![e].status = "Disputed"]
    /\ UNCHANGED <<feeBps, feeRecipient, feesCollected, paused, arbiters, wallet, now>>

\* buyerAmount only bounds the split.
SettleDispute(caller, e, providerAmount, buyerAmount) ==
    LET d == escrow[e]
        fee == FeeFor(d, providerAmount)
        buyerTotal == BuyerTotal(d, providerAmount, buyerAmount)
    IN
    /\ caller \in arbiters
    /\ d.status = "Disputed"
    /\ providerAmount <= d.amount
    /\ buyerAmount <= d.amount - providerAmount
    /\ escrow' = [escrow EXCEPT ![e] = [@ EXCEPT !.released = providerAmount,
                                                 !.refunded = buyerTotal,
                                                 !.status = "Settled"]]
    /\ feesCollected' = [feesCollected EXCEPT ![d.token] = @ + fee]
    /\ AssertSolvent(escrow'[e])
    /\ PayOut(d.token, d.provider, providerAmount - fee, d.buyer, buyerTotal, fee)
    /\ UNCHANGED <<feeBps, feeRecipient, paused, arbiters, now>>

\* GOVERNOR_ROLE is held by the deploying admin.
SetFeeConfig(caller, newFeeBps, newRecipient) ==
    /\ caller = Admin
    /\ FeeWithinCap(newFeeBps)
    /\ newRecipient # Zero
    /\ feeBps' = newFeeBps
    /\ feeRecipient' = newRecipient
    /\ UNCHANGED <<escrow, feesCollected, paused, arbiters, wallet, now>>

Pause(caller) ==
    /\ caller = Admin
    /\ ~paused
    /\ paused' = TRUE
    /\ UNCHANGED <<escrow, feeBps, feeRecipient, feesCollected, arbiters, wallet, now>>

Unpause(caller) ==
    /\ caller = Admin
    /\ paused
    /\ paused' = FALSE
    /\ UNCHANGED <<escrow, feeBps, feeRecipient, feesCollected, arbiters, wallet, now>>

-----------------------------------------------------------------------------
(* The environment: AccessControl's role table and the passing of time.    *)

GrantArbiter(account) ==
    /\ arbiters' = arbiters \cup {account}
    /\ UNCHANGED <<escrow, feeBps, feeRecipient, feesCollected, paused, wallet, now>>

\* Revoked by an admin or renounced by the holder.
RevokeArbiter(account) ==
    /\ arbiters' = arbiters \ {account}
    /\ UNCHANGED <<escrow, feeBps, feeRecipient, feesCollected, paused, wallet, now>>

Tick ==
    /\ now < MaxTime
    /\ now' = now + 1
    /\ UNCHANGED <<contractVars, wallet>>

-----------------------------------------------------------------------------
\* Windows offered on creation reach one below and one above the bounds.
Windows == (MinWindow - 1) .. (MaxWindow + 1)

Create(caller, e) ==
    \E provider \in Accounts \cup {Zero}, token \in Tokens \cup {Zero},
       amount \in 0 .. MaxAmount, deliveryWindow, autoReleaseWindow \in Windows :
        CreateEscrow(caller, e, provider, token, amount, deliveryWindow, autoReleaseWindow)

Settle(caller, e) ==
    \E providerAmount, buyerAmount \in 0 .. MaxAmount :
        SettleDispute(caller, e, providerAmount, buyerAmount)

Govern(caller) ==
    \/ \E bps \in FeeChoices, recipient \in Accounts \cup {Zero} :
          SetFeeConfig(caller, bps, recipient)
    \/ Pause(caller)
    \/ Unpause(caller)

Next ==
    \/ \E caller \in Accounts, e \in Escrows :
          \/ Create(caller, e)
          \/ Release(caller, e)
          \/ Refund(caller, e)
          \/ Dispute(caller, e)
          \/ Settle(caller, e)
    \/ \E caller \in Accounts : Govern(caller)
    \/ \E account \in ArbiterCandidates : GrantArbiter(account) \/ RevokeArbiter(account)
    \/ Tick

Spec == Init /\ [][Next]_vars

-----------------------------------------------------------------------------
(* Properties.                                                             *)

\* Every variable holds a value the contract's storage could hold.
TypeOK ==
    /\ escrow \in [Escrows -> EscrowRecord]
    /\ feeBps \in 0 .. MaxFeeBps
    /\ feeRecipient \in Accounts
    /\ feesCollected \in [Tokens -> Nat]
    /\ paused \in BOOLEAN
    /\ arbiters \subseteq Accounts
    /\ wallet \in [Tokens -> [Accounts \cup {Vault} -> Nat]]
    /\ now \in Time

\* Nothing leaves an escrow while it is held, and a terminal one has been
\* divided to the last unit: settleDispute hands the buyer whatever the
\* provider did not get, so no dust stays behind (release, refund,
\* settleDispute, and the accounting invariant in the contract's notes).
FullyDivided ==
    \A e \in Escrows :
        /\ escrow[e].status = "None" => escrow[e].amount = 0
        /\ escrow[e].status \in Holding => escrow[e].amount > 0
        /\ escrow[e].status \notin Terminal =>
                escrow[e].released = 0 /\ escrow[e].refunded = 0
        /\ escrow[e].status \in Terminal =>
                escrow[e].released + escrow[e].refunded = escrow[e].amount

\* What escrow e still has in token t, and the fee it has paid in it.
Held(t) == [e \in Escrows |-> IF escrow[e].token = t THEN Outstanding(e) ELSE 0]
FeePaid(t) == [e \in Escrows |->
                  IF escrow[e].token = t
                  THEN FeeOf(escrow[e].released, escrow[e].feeBps) ELSE 0]

\* The contract holds, in every token, exactly what its open escrows are
\* owed: it can never pay out more than it took in, and no payout can fail
\* for want of funds that went to another escrow.
Solvent == \A t \in Tokens : wallet[t][Vault] = Total(Held(t), NEscrows)

\* feesCollected reconciles with the escrows: each paid the rate frozen when
\* it was created, on the provider's share only, whatever the governor has
\* set since.
FeesReconcile == \A t \in Tokens : feesCollected[t] = Total(FeePaid(t), NEscrows)

\* Once created, an escrow keeps its parties, token, amount, fee rate and
\* deadlines, and a terminal escrow never changes again: no second payout,
\* no reuse of its id, no repricing by setFeeConfig.
TermsFrozen ==
    [][\A e \in Escrows :
        LET before == escrow[e]
            after == escrow'[e]
        IN
        /\ before.status # "None" =>
              after = [before EXCEPT !.status = after.status,
                                     !.released = after.released,
                                     !.refunded = after.refunded]
        /\ before.status \in Terminal => after = before]_vars

\* Money is never trapped: whatever the pause switch, the fee settings and
\* the other escrows, the transactions that close a held escrow go through
\* (their guards hold and the contract can pay).  The buyer may release and
\* the provider may refund at once; the buyer may refund after the delivery
\* deadline and anyone may release after the auto-release time; an arbiter,
\* if there is one, may impose any split on a disputed escrow.
ExitsStayOpen ==
    \A e \in Escrows :
        LET d == escrow[e] IN
        /\ d.status = "Funded" =>
              /\ ENABLED Release(d.buyer, e)
              /\ ENABLED Refund(d.provider, e)
              /\ now >= d.deliveryDeadline => ENABLED Refund(d.buyer, e)
              /\ now >= d.autoReleaseAt =>
                    \A a \in Accounts : ENABLED Release(a, e)
        /\ d.status = "Disputed" =>
              \A a \in arbiters, share \in 0 .. d.amount :
                  ENABLED SettleDispute(a, e, share, d.amount - share)

\* The contract implements the conditional payment EscrowLedger describes.
PhaseOf(status) ==
    CASE status = "None"     -> "absent"
      [] status = "Funded"   -> "open"
      [] status = "Disputed" -> "frozen"
      [] status \in Terminal -> "closed"

Ledger == INSTANCE EscrowLedger WITH
    phase <- [e \in Escrows |-> PhaseOf(escrow[e].status)],
    terms <- [e \in Escrows |->
                [buyer |-> escrow[e].buyer, provider |-> escrow[e].provider,
                 token |-> escrow[e].token, amount |-> escrow[e].amount]]

\* Every behaviour of the contract is a behaviour of EscrowLedger.
ImplementsLedger == Ledger!Spec
=============================================================================
