----------------------------- MODULE MCIndexers ------------------------------
(***************************************************************************)
(* The two indexers, checked in one run.  A behaviour is a behaviour of    *)
(* one part, chosen at the start: the escrow indexer over a chain that     *)
(* keeps within what the confirmations and the rewind allow for, or the    *)
(* subscription indexer; in both the chain forks and the worker may die.   *)
(* As only one of them runs, they share the variables, which have the same *)
(* meaning in each.  The depths of the runs are scaled: two confirmations  *)
(* for five, a rewind of one block for sixty-four, and chunks of two       *)
(* blocks for two thousand; the theorems about this module are for any.    *)
(***************************************************************************)
EXTENDS Naturals

CONSTANTS Parts,                                     \* those that are checked
          Orders, Strangers,                         \* escrows with an order, and without
          Amount, FeeBps, Shares, BpsDenominator, MaxFeeBps,
          Subscribers, Period,                       \* subscriptions
          Confirmations, ReorgDepth, ChunkSize,      \* of both indexers
          FundingDeadline, ExpiryGrace, Stall,       \* the sweep
          Reorgable, SettleDelay,                    \* the chain
          EscrowHeight, SubscriptionHeight, MaxForks, MaxCrashes \* bounds

VARIABLES part, head, history, peak, forks, db, session, pass, crashes

indexerVars == <<head, history, peak, forks, db, session, pass, crashes>>
vars == <<part, indexerVars>>

Steady == INSTANCE EscrowIndexer WITH BatchedCalls <- FALSE, MaxHeight <- EscrowHeight

Subs == INSTANCE SubscriptionIndexer WITH MaxHeight <- SubscriptionHeight

ASSUME IndexersAssumption ==
    /\ Steady!IndexerAssumption /\ Subs!SubscriptionIndexerAssumption
    /\ BpsDenominator \in Nat \ {0} /\ MaxFeeBps \in 0 .. BpsDenominator

\* What is confirmed stays, a settlement comes later than the rewind reaches,
\* and the grace of an unpaid order outlasts the confirmations, a fork and a pass.
ASSUME SteadyChainAssumption ==
    /\ Reorgable < Confirmations
    /\ ReorgDepth < SettleDelay
    /\ Confirmations + Reorgable + Stall <= ExpiryGrace + 2

Init ==
    /\ part \in Parts
    /\ \/ part = "escrows" /\ Steady!Init
       \/ part = "subscriptions" /\ Subs!Init

Next ==
    /\ UNCHANGED part
    /\ \/ part = "escrows" /\ Steady!Next
       \/ part = "subscriptions" /\ Subs!Next

\* The loops have no exit of their own and their containers are restarted.
Worker ==
    /\ UNCHANGED part
    /\ \/ part = "escrows" /\ Steady!Worker
       \/ part = "subscriptions" /\ Subs!Worker

Spec == Init /\ [][Next]_vars /\ WF_vars(Worker)

-----------------------------------------------------------------------------
(* The properties are those of the components, by the same names.          *)

\* Rows are what the confirmed chain up to the cursor makes of them
\* (chain/indexer.py, chain/subscription_indexer.py).
RowsFollowChain ==
    /\ part = "escrows" => Steady!RowsFollowChain
    /\ part = "subscriptions" => Subs!CoverageFollowsChain

\* Every event or payment up to the cursor is on record, once.
AppliedOnce ==
    /\ part = "escrows" => Steady!AppliedOnce
    /\ part = "subscriptions" => Subs!TrailFollowsChain

\* An order paid in time is not expired (chain/indexer.py, cli.py).
PaidInTimeNotExpired == part = "escrows" => Steady!PaidInTimeNotExpired

\* Both indexers always catch up with what is confirmed (run_once).
IndexingContinues ==
    []<>CASE part = "escrows" -> Steady!CaughtUp
          [] part = "subscriptions" -> Subs!UpToDate

\* The mirror's renewal flag is the contract's (chain/subscription_indexer.py).
RenewalFollowsChain == part = "subscriptions" => Subs!RenewalFollowsChain
=============================================================================
