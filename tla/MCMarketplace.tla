---------------------------- MODULE MCMarketplace ----------------------------
(***************************************************************************)
(* The marketplace around the contracts, checked in one run.  A behaviour  *)
(* is a behaviour of one part, chosen at the start, so their state spaces  *)
(* add up instead of multiplying; the others' variables are 0 in it.  The  *)
(* sets and limits of the run are in Marketplace.cfg; the theorems about   *)
(* this module are for any.                                                *)
(***************************************************************************)
EXTENDS Naturals, FiniteSets, TLC

CONSTANTS Parts,                                   \* those that are checked
          Requests,
          Orders, Strangers,                       \* escrows with an order, and without
          MaxBegun,
          Ratings, MinOrders, CountedByHand,       \* reputation
          Accounts, Governor, PlanIds, Tokens,     \* subscriptions
          Skimmed, Endowment, Prices, Periods, MinPeriod, MaxPeriod, MaxCoverage,
          OrderIds, Wallets, Quotes, Hours, ReleaseHours, DefaultHours, \* catalogue
          Domains, Logins, MaxIssued, MaxSites,    \* proofs
          DeskWorker, Amount, FeeBps, Shares, BpsDenominator, MaxFeeBps, \* escrows
          Confirmations, ReorgDepth, ChunkSize, FundingDeadline, ExpiryGrace, \* indexer
          Reorgable, SettleDelay, Stall, MaxHeight, MaxForks,
          Window, MaxAttempts, MaxTime,            \* readiness check
          Threshold, HeartbeatAfter, OkLag, DownLag, StaleAfter, MaxSkew, \* monitor
          Lookback, MaxHead, MaxRestarts

VARIABLES part,
          order, related, review, ratedService, ratedAgent, snapshot, ratingTxn,
          computed, ratingBegun, dated,
          plan, sub, treasury, revenueRouted, paused, wallet, blockTime,
          shopAgent, shopService, orders, shopTxn, shopBegun, offered, instructed,
          crossed,
          provenAgent, challenge, shown, proofTxn, issued, sites, overlapped, read,
          chain, deskRows, deskTxn, premature,
          head, history, peak, forks, db, session, pass, crashes,
          clock, node, cache, lock, caller, rounds,
          fails, alerted, announced, quiet, gov, tip, events, told, said, begun,
          replaced, restarts

ratingVars == <<order, related, review, ratedService, ratedAgent, snapshot, ratingTxn,
                computed, ratingBegun, dated>>
planVars == <<plan, sub, treasury, revenueRouted, paused, wallet, blockTime>>
shopVars == <<shopAgent, shopService, orders, shopTxn, shopBegun, offered, instructed,
              crossed>>
proofVars == <<provenAgent, challenge, shown, proofTxn, issued, sites, overlapped, read>>
deskVars == <<chain, deskRows, deskTxn, premature>>
indexerVars == <<head, history, peak, forks, db, session, pass, crashes>>
probeVars == <<clock, node, cache, lock, caller, rounds>>
monitorVars == <<fails, alerted, announced, quiet, gov, tip, events, told, said, begun,
                 replaced, restarts>>

vars == <<part, ratingVars, planVars, shopVars, proofVars, deskVars, indexerVars,
          probeVars, monitorVars>>

-----------------------------------------------------------------------------
(* The parts.                                                              *)

Rating == INSTANCE Reputation
          WITH service <- ratedService, agent <- ratedAgent, txn <- ratingTxn,
               begun <- ratingBegun

\* Of the run: the second token keeps a unit of each transfer; the governor
\* holds none.
KeepsAUnit == [t \in Tokens |-> IF t = "skim" THEN 1 ELSE 0]
FewCoins == [t \in Tokens |-> [a \in Accounts |->
               IF a = Governor THEN 0 ELSE IF t = "skim" THEN 1 ELSE 2]]

Plans == INSTANCE AgoreumSubscriptions WITH now <- blockTime

Shop == INSTANCE Catalogue
        WITH Prices <- Quotes, agent <- shopAgent, service <- shopService,
             txn <- shopTxn, begun <- shopBegun, told <- instructed

Proofs == INSTANCE AgentProofs WITH agent <- provenAgent, txn <- proofTxn

Desk == INSTANCE OrderDesk
        WITH Worker <- DeskWorker, db <- deskRows, txn <- deskTxn

\* Settlements in the block of the dispute, two calls in one transaction, and
\* either reorganisations deeper than the confirmations or an escrow without an
\* order.
Deep == INSTANCE EscrowIndexer
        WITH Strangers <- {}, BatchedCalls <- TRUE, MaxCrashes <- 0

Crowded == INSTANCE EscrowIndexer
           WITH BatchedCalls <- TRUE, MaxForks <- 0, MaxCrashes <- 0

Probe == INSTANCE ChainProbe WITH Callers <- Requests, now <- clock

Watch == INSTANCE Monitor WITH head <- tip

Indexer == {"reorganised", "crowded"}
AllParts == {"reputation", "subscriptions", "catalogue", "proofs", "desk", "probe",
             "monitor"} \cup Indexer

ASSUME MarketplaceAssumption ==
    /\ Parts \subseteq AllParts
    /\ Rating!ReputationAssumption /\ Plans!SubscriptionsAssumption
    /\ Shop!CatalogueAssumption /\ Proofs!AgentProofsAssumption /\ Desk!DeskAssumption
    /\ Deep!IndexerAssumption /\ Crowded!IndexerAssumption
    /\ Probe!ProbeAssumption /\ Watch!MonitorAssumption
    /\ BpsDenominator \in Nat \ {0} /\ MaxFeeBps \in 0 .. BpsDenominator

-----------------------------------------------------------------------------
NoRating == order = 0 /\ related = 0 /\ review = 0 /\ ratedService = 0
            /\ ratedAgent = 0 /\ snapshot = 0 /\ ratingTxn = 0 /\ computed = 0
            /\ ratingBegun = 0 /\ dated = 0
NoPlans == plan = 0 /\ sub = 0 /\ treasury = 0 /\ revenueRouted = 0 /\ paused = 0
           /\ wallet = 0 /\ blockTime = 0
NoShop == shopAgent = 0 /\ shopService = 0 /\ orders = 0 /\ shopTxn = 0
          /\ shopBegun = 0 /\ offered = 0 /\ instructed = 0 /\ crossed = 0
NoProofs == provenAgent = 0 /\ challenge = 0 /\ shown = 0 /\ proofTxn = 0
            /\ issued = 0 /\ sites = 0 /\ overlapped = 0 /\ read = 0
NoDesk == chain = 0 /\ deskRows = 0 /\ deskTxn = 0 /\ premature = 0
NoChain == head = 0 /\ history = 0 /\ peak = 0 /\ forks = 0 /\ db = 0 /\ session = 0
           /\ pass = 0 /\ crashes = 0
NoProbe == clock = 0 /\ node = 0 /\ cache = 0 /\ lock = 0 /\ caller = 0 /\ rounds = 0
NoWatch == fails = 0 /\ alerted = 0 /\ announced = 0 /\ quiet = 0 /\ gov = 0
           /\ tip = 0 /\ events = 0 /\ told = 0 /\ said = 0 /\ begun = 0
           /\ replaced = 0 /\ restarts = 0

Init ==
    /\ part \in Parts
    /\ IF part = "reputation" THEN Rating!Init ELSE NoRating
    /\ IF part = "subscriptions" THEN Plans!Init ELSE NoPlans
    /\ IF part = "catalogue" THEN Shop!Init ELSE NoShop
    /\ IF part = "proofs" THEN Proofs!Init ELSE NoProofs
    /\ IF part = "desk" THEN Desk!Init ELSE NoDesk
    /\ IF part \in Indexer THEN Deep!Init ELSE NoChain
    /\ IF part = "probe" THEN Probe!Init ELSE NoProbe
    /\ IF part = "monitor" THEN Watch!Init ELSE NoWatch

Next ==
    /\ UNCHANGED part
    /\ \/ /\ part = "reputation" /\ Rating!Next
          /\ UNCHANGED <<planVars, shopVars, proofVars, deskVars, indexerVars,
                         probeVars, monitorVars>>
       \/ /\ part = "subscriptions" /\ Plans!Next
          /\ UNCHANGED <<ratingVars, shopVars, proofVars, deskVars, indexerVars,
                         probeVars, monitorVars>>
       \/ /\ part = "catalogue" /\ Shop!Next
          /\ UNCHANGED <<ratingVars, planVars, proofVars, deskVars, indexerVars,
                         probeVars, monitorVars>>
       \/ /\ part = "proofs" /\ Proofs!Next
          /\ UNCHANGED <<ratingVars, planVars, shopVars, deskVars, indexerVars,
                         probeVars, monitorVars>>
       \/ /\ part = "desk" /\ Desk!Next
          /\ UNCHANGED <<ratingVars, planVars, shopVars, proofVars, indexerVars,
                         probeVars, monitorVars>>
       \/ /\ part = "reorganised" /\ Deep!Next
          /\ UNCHANGED <<ratingVars, planVars, shopVars, proofVars, deskVars, probeVars,
                         monitorVars>>
       \/ /\ part = "crowded" /\ Crowded!Next
          /\ UNCHANGED <<ratingVars, planVars, shopVars, proofVars, deskVars, probeVars,
                         monitorVars>>
       \/ /\ part = "probe" /\ Probe!Next
          /\ UNCHANGED <<ratingVars, planVars, shopVars, proofVars, deskVars,
                         indexerVars, monitorVars>>
       \/ /\ part = "monitor" /\ Watch!Next
          /\ UNCHANGED <<ratingVars, planVars, shopVars, proofVars, deskVars,
                         indexerVars, probeVars>>

Spec == Init /\ [][Next]_vars

Symmetry == Permutations(Requests)

-----------------------------------------------------------------------------
(* The properties are those of the components, by the same names.          *)

\* The rows of every component are well formed.
TypeOK ==
    CASE part = "reputation" -> Rating!TypeOK
      [] part = "subscriptions" -> Plans!TypeOK
      [] part = "catalogue" -> Shop!TypeOK
      [] part = "proofs" -> Proofs!TypeOK
      [] part = "desk" -> Desk!TypeOK
      [] part \in Indexer -> Deep!TypeOK
      [] part = "probe" -> Probe!TypeOK
      [] part = "monitor" -> Watch!TypeOK

\* What a buyer browses follows orders and reviews (reputation/service.py).
FiguresFollowRows == part = "reputation" => Rating!FiguresFollowRows

\* Exclusions and reviews are for good (reputation/service.py, admin/service.py).
VerdictsStay ==
    [][part = "reputation" => Rating!ExclusionSticks /\ Rating!ReviewStays]_ratingVars

\* Coverage is paid for in full and never shortened (AgoreumSubscriptions.sol).
CoverageIsPaid ==
    [][part = "subscriptions" => Plans!CoverageIsPaid /\ Plans!CoverageKept]_planVars

\* Overlapping edits and placements keep the service's row coherent
\* (services/service.py, orders/service.py).
ServiceRowSound ==
    part = "catalogue" => Shop!PriceAlwaysThere /\ Shop!CountedUnlessOverlapped

\* What is shown can be ordered, and an order keeps the terms it was offered
\* (marketplace/service.py, orders/service.py).
OrdersAsOffered ==
    part = "catalogue" =>
        Shop!DiscoverableIsOrderable /\ Shop!OrderTermsOffered /\ Shop!StatedWindowsStay

\* A tier has its proof, a proof its token, and a change of site ends the
\* proof of the domain (agents/service.py).
TierFollowsProof ==
    [](part = "proofs" => Proofs!TierFollowsProof /\ Proofs!ProvenByToken) /\
    [][part = "proofs" => Proofs!ProofEndsWithSite]_proofVars

\* An order is in a state that its escrow has reached (orders/service.py).
NeverAheadOfChain == part = "desk" => Desk!CompletedWhenPaid /\ Desk!NeverAheadOfChain

\* The escrow row mirrors the chain, and decisions in it are kept
\* (orders/service.py, chain/indexer.py).
EscrowRowKept ==
    [](part = "desk" => Desk!EscrowRowFollowsChain) /\
    [][part = "desk" => Desk!DecisionsStay]_deskVars

\* No request leaves rows that stop the indexing (chain/indexer.py).
WorkerNeverRefused == part = "desk" => Desk!WorkerNeverRefused

\* Order and escrow row agree, whatever the chain does (chain/indexer.py).
OrderMatchesEscrow == part \in Indexer => Crowded!OrderMatchesEscrow

\* The node is asked once per window (health/service.py).
OneRoundPerWindow == part = "probe" => Probe!OneRoundPerWindow

\* Outages and governance events are reported (scripts/monitor.py).
NothingUnsaid == part = "monitor" => Watch!NothingUnsaid
=============================================================================
