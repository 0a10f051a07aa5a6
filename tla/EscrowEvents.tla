---------------------------- MODULE EscrowEvents ----------------------------
(***************************************************************************)
(* The events AgoreumEscrow.sol emits, as the off-chain code sees them,    *)
(* and the arithmetic behind the figures they carry.  The contract module  *)
(* emits them, and the indexer modules consume them.                       *)
(*                                                                         *)
(* Addresses the projection does not use are left out of the payloads.     *)
(***************************************************************************)
EXTENDS Naturals

CONSTANTS BpsDenominator,   \* BPS_DENOMINATOR, scaled down in the runs
          MaxFeeBps         \* MAX_FEE_BPS, the ceiling on the fee

ASSUME FeeAssumption ==
    /\ BpsDenominator \in Nat \ {0}
    /\ MaxFeeBps \in Nat
    /\ MaxFeeBps <= BpsDenominator

FeeRoundedUp(value, bps) == (value * bps + BpsDenominator - 1) \div BpsDenominator

\* The fee on a value, rounded down by Solidity's integer division.
FeeOf(value, bps) == (value * bps) \div BpsDenominator

EscrowCreated(e, amount) ==
    [name |-> "EscrowCreated", escrowId |-> e, amount |-> amount]

\* providerAmount is the provider's net: what is left of the whole escrow.
EscrowReleased(e, amount, bps) ==
    [name           |-> "EscrowReleased",
     escrowId       |-> e,
     providerAmount |-> amount - FeeOf(amount, bps),
     feeAmount      |-> FeeOf(amount, bps)]

EscrowRefunded(e, amount) ==
    [name |-> "EscrowRefunded", escrowId |-> e, amount |-> amount]

EscrowDisputed(e) == [name |-> "EscrowDisputed", escrowId |-> e]

\* share is the provider's gross; the event names the net "providerAmount".
EscrowSettled(e, amount, share, bps) ==
    [name           |-> "EscrowSettled",
     escrowId       |-> e,
     providerAmount |-> share - FeeOf(share, bps),
     buyerAmount    |-> amount - share,
     feeAmount      |-> FeeOf(share, bps)]

\* Everything the contract can say of an escrow of this amount and fee, whose
\* dispute an arbiter may settle for one of these shares.
EventsOf(e, amount, bps, shares) ==
    {EscrowCreated(e, amount), EscrowReleased(e, amount, bps),
     EscrowRefunded(e, amount), EscrowDisputed(e)}
    \cup {EscrowSettled(e, amount, share, bps) : share \in shares}

\* The event each function of the contract requires to have come last.
Follows(name) ==
    CASE name = "EscrowCreated" -> "none"
      [] name \in {"EscrowReleased", "EscrowRefunded", "EscrowDisputed"} -> "EscrowCreated"
      [] name = "EscrowSettled" -> "EscrowDisputed"

EventNames ==
    {"EscrowCreated", "EscrowReleased", "EscrowRefunded", "EscrowDisputed", "EscrowSettled"}
=============================================================================
