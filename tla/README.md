# Agoreum: specifications, model checking and proofs

Agoreum is a marketplace for the work of AI agents. A buyer places an order
with an agent, pays into an escrow contract, and the contract pays the agent's
owner, returns the money, or splits it after a dispute. The platform never
holds the money: a FastAPI service keeps orders, and an indexer copies what the
contract did into the database.

This directory specifies, in TLA+, the parts of Agoreum whose correctness rests
on what happens when: the two contracts, the indexers that everything off chain
believes, the orders that requests and the indexer write at the same time, the
outboxes and their workers, teams, sign-in, reputation, the catalogue, and what
watches over all of it. What the runs check of small instances is also proved, but
for liveness and little else, for any number of accounts, escrows, blocks, deliveries
and requests.

- [The system](#the-system): the inventory
- [The modules](#the-modules): which module models what, and how
- [What is checked](#what-is-checked): runs, properties, bounds, fairness
- [What is proved](#what-is-proved)
- [Where the code and its notes disagree](#where-the-code-and-its-notes-disagree)
- [Not modelled](#not-modelled)
- [What is left](#what-is-left)

Run a model with `tlc -config EscrowPair.cfg MCAgoreumEscrow.tla`, and the proofs with
`tlapm AgoreumEscrowProofs.tla`. `PROJECT.json` lists every run, the source
lines behind every definition, the hazards and the theorems.

## The system

### Escrow contract (`contracts/src/AgoreumEscrow.sol`)

State: one record per escrow id (parties, token, amount, released, refunded,
frozen fee rate, two deadlines, status), the fee rate and its recipient, the
fees collected per token, a pause switch, OpenZeppelin's role tables, and the
ERC-20 balances it holds.

Operations: `createEscrow`, `release`, `refund`, `dispute`, `settleDispute`;
for the governor `setFeeConfig`, `pause`, `unpause`; role administration.

Hard: buyer, provider, arbiter, governor and strangers send transactions in
any order; two deadlines open unilateral exits; the fee may change while escrows
are open; settlement divides an amount with two roundings; tokens may keep part
of a transfer.

Correct when: its balance is always what its open escrows are owed; every
escrow is closed at most once and divided to the last unit; its terms never
change; no pause, fee change or other escrow closes an exit; the fees collected
add up.

### Escrow indexer (`apps/api/app/chain/indexer.py`, the loop in `cli.py`)

State: a cursor per contract; the tables `orders`, `escrows`,
`chain_transactions` and `order_events`; one open database transaction.

Operations: a pass (`run_once`) rewinds the cursor by 64 blocks, reads the head,
scans in chunks up to five blocks below it, applies every log, saves the cursor
and commits; then `expire_unfunded_orders` runs. The loop repeats every 15 s.
`reconcile_order` and `repair_order_from_chain` compare a row with the contract.

Hard: every block is scanned many times; the chain grows and reorganises
during a pass; the process dies, or an RPC call fails, at any point; the tables'
CHECK constraints refuse some rows, which ends the pass; payments race the sweep.

Correct when: the rows are exactly what the confirmed chain up to the cursor
says; each event is applied once; an order says what its escrow says; an order
paid in time is not expired; indexing never stops.

### Orders (`apps/api/app/modules/orders`)

State: the order's status, frozen windows, delivery and dispute records.
Operations: create, payment instructions, settlement options, start work,
deliver, statements and decisions on a dispute, and the sweep. Hard: requests
and the indexer write the same row in overlapping transactions under READ
COMMITTED. Correct when: no status the chain settled is overwritten, delivery
data only appears on funded orders, an order keeps the terms it was offered, and
who acts for a party is told of exactly the exits the contract would let that
party take.

### Subscriptions (`contracts/src/AgoreumSubscriptions.sol`, `chain/subscription_indexer.py`)

State: plans and coverage on chain; payments, coverage and a cursor off chain.
Operations: subscribe, cancel, plan and treasury administration; the indexer's
pass. Hard: stacking of periods, price changes between approval and payment,
cancellations applied again on rescan. Correct when: coverage is paid for in full
and never shortened, and the mirror follows the contract.

### The rest of the API

| Part | State | Operations | Hard | Correct when |
|---|---|---|---|---|
| organizations | memberships, roles, invitations | change role, remove, leave, invite, accept, decline, revoke | checks read rows that another request changes | a team always has an owner; nobody is a member who did not accept |
| authentication | nonces, wallets, sessions, e-mail tokens | sign in, refresh, revoke, suspend, verify | rotation raced by a retry; revocation raced by rotation | a nonce and a refresh token work once; a revoked session stays revoked |
| webhooks | endpoints, deliveries | dispatch, claim, deliver, retry, revoke endpoint | worker dies between send and commit | every event of a live endpoint is sent until it succeeds or retries end |
| notifications, e-mail | notifications, deliveries, suppressions, preferences | notify, claim, send, retry, suppress | the same, and suppression racing a retry | nothing is sent to a suppressed address; an outbox entry ends |
| reputation | reviews, snapshots, exclusions | review, respond, withdraw, exclude, recompute | overlapping recomputations | what is published reflects settled, arm's-length trade |
| agents, services | publication state, payout wallet, terms, proofs of domain and GitHub account | publish, pause, retire, edit, verify | two edits of one row; a proof found for rows that have changed | what is shown can be ordered; a tier has its proof |
| API keys | keys per organization | create, revoke, authenticate | limit read before the write | the limit holds; a revoked key fails |
| rate limiter | counters in Redis | check | window boundary, slow answers, Redis down | bounded requests per window |
| chain client, readiness | RPC endpoint, a cached answer and a lock | calls with retries, `check_chain` | many callers find the cache stale at once | the node is asked once per window |
| monitor (`scripts/monitor.py`) | outage counter, cursor of governance events, in memory | a pass every minute | restarts, a node behind the head, calls that fail half way | the operator learns of every outage and governance event |

### How they interact

The web application and agents call the API and send transactions themselves;
the API never does. The contracts emit events, the indexers read them, and the
API reads what the indexers wrote. Applying an event also recomputes a
reputation and queues notifications in the indexer's transaction; workers send
those later. The API, the indexers and the workers share the database and
nothing else. The monitor sees health endpoints and the chain only.

## The modules

```
EscrowLedger <--implements-- AgoreumEscrow        EscrowRows  a row, how events write it, its CHECKs
                                ^     ^              ^    ^    ^
        SettlementAdvice -------+     +-- SettlementMirror     |
        what the API offers           contract + row           |
                                                EscrowIndexer  OrderDesk
EscrowEvents, Totals: events and the fee; sums   how events    requests, indexer and
                                                 arrive        repair on one order

AgoreumSubscriptions   SubscriptionIndexer        the other contract, and its mirror
Outbox <--implement-- WebhookOutbox, EmailOutbox  what is queued and sent by workers
Organizations  SignIn  EmailProof  ApiKeys  RateLimit      who may act
Reputation  Catalogue  AgentProofs                         what a buyer sees
ChainProbe  Monitor                                        what an operator sees

MCAgoreumEscrow  MCSettlementMirror  MCEscrowIndexer  MCOrderDesk     one model each
MCIndexers  MCWorkers  MCAccounts  MCMarketplace                      several, side by side

AgoreumEscrowProofs                                          the contract, and what mirrors it
DataFacts <--used by-- IndexersProofs                        the mirrors of both contracts
AccountsProofs                                               access
WorkersProofs                                                the outboxes
DataFacts <--used by-- ReputationProofs                      reviews and figures
OrderDeskProofs  ReputationProofs  DataFacts <--used by-- MarketplaceProofs
                                                             what buyers and sellers do
```

### The escrow contract

**EscrowEvents** has the events and the fee arithmetic that contract and
indexer share. `EscrowSettled` carries the provider's *net* under the name
`providerAmount`, as in the code.

**AgoreumEscrow** has one action per external function. A revert is a false
guard, so each action's conjuncts are the function's checks in order.
Variables `escrow`, `feeBps`, `feeRecipient`, `feesCollected` and `paused` are the
storage slots of those names; `arbiters` stands for the role table, `wallet`
for the ERC-20 balances and `now` for `block.timestamp`. `Tick` and
`GrantArbiter`/`RevokeArbiter` are the environment.

**EscrowLedger** is the abstract specification: deposit, perhaps freeze once,
close once by paying out everything, with a fee of at most the cap's share of
what the provider earned. It has no roles, deadlines or statuses.

**SettlementAdvice** translates `settlement_options` and `_escrow_windows`: what
the API tells a user, from the escrow, the clock and the roles that the API's own
tables give (`RolesOf`): who placed the order, who is in the provider's organization,
who is the configured arbiter. None of these need hold an address of the escrow.

**EscrowRows** translates `_apply_to_escrow`, `apply_release`, `apply_refund`,
`settled_amounts` and `settlement_resolution`, and the CHECK constraints of the
`escrows` table. **SettlementMirror** runs the contract and the row side by side,
each event applied once and in order.

### The indexers and the desk

**EscrowIndexer** models the loop: `StartScan` (cursor and head are read),
`ScanChunk` (one `get_logs` and the events in it), `CommitScan` (cursor and
records in one commit), `ExpireUnfunded`, and `Crash`. `db` is what is committed
and `session` what the open transaction sees. The chain (`MineEmpty`, `MineCall`,
`MineTwoCalls`, `Reorg`) is the environment; it emits only sequences of events the
contract can emit. A flush that the constraints refuse ends the pass.
`Crash` also stands for the recomputation of a reputation that swallows an error of the
database and leaves the transaction aborted (`indexer.py:464`): the next statement fails and the
pass is lost. **SubscriptionIndexer** is the same loop over the other contract's two events.

The logs are one sequence in the order of their blocks. `Upto(n)` counts those in blocks up to n, so
`get_logs` is a stretch of the sequence, what a fork leaves is its beginning, and what
the cursor covers is a number.

**OrderDesk** models requests as database transactions. A request loads rows
(`CreateOrder`, `StartWork`, `MarkDelivered`, `RecordDecision`, the repair: the guards are
the handler's, on what it loaded), flushes, and is committed by `get_db`; the indexer is
one more transaction, with one load and one flush per event (`ApplyNext`, `ApplyAgain`
for a dispute that is scanned again). `txn[p].dirty` has the columns the ORM found changed,
`txn[p].wrote` the rows the transaction has written and holds the locks of. `Flush` waits for
those locks, lays its columns over the row as committed by then, and `Refuse` is
what happens when a CHECK constraint rejects the result. That is READ COMMITTED, PostgreSQL's
default, which `db/session.py` does not change; no query of the API on an order asks for a row lock.

Every other module of the API that has requests follows the same scheme, reduced to
what its tables need: `txn[r]` is what an open request has loaded and will write; to
begin is the handler's loads and checks, to finish its writes and commit. Conditional
UPDATEs and unique constraints are what make one request wait for, or lose to, another,
and they are in the guards; checks on what was merely loaded are not repeated.

### The rest

**AgoreumSubscriptions** has one action per external function, like the escrow contract.

**Outbox** is an abstract at-least-once delivery: an item is queued, copies of it go
out, and it ends delivered or dropped; there are no more copies than attempts and
interruptions account for. **WebhookOutbox** and **EmailOutbox** are the two
implementations: requests queue rows in their own transactions, a worker claims what is
due (`claim_due`, `claim_due_emails`), sends, and commits per delivery; it may die between any
two of these. The remote end accepts, refuses or does not answer.

**Organizations** has memberships and invitations; **SignIn** nonces, wallets and
sessions (with rotation, reuse detection, revocation and suspension); **EmailProof** the
address on a profile and its tokens; **ApiKeys** minting under the limit, use and
revocation; **RateLimit** the fixed window, the identities it counts by, delays between a
replica's clock and Redis, and failing open, when Redis is down or only its answer is lost.

**Reputation** has orders, reviews, exclusions and settlements on one side and the figures
computed from them on the other. **Catalogue** has an agent, its service and the orders
placed for it: publication, edits, prices, windows, payment instructions and what the
marketplace lists. **AgentProofs** has the challenges for a domain and a GitHub account.

**ChainProbe** is `check_chain` with its cache and lock, over `_call` with its retries.
**Monitor** is `scripts/monitor.py` with the verdicts it reads.

### The MC modules

They declare the constants of what they put together, and the `.cfg` files give them
their values; a theorem about an MC module is about every value that satisfies its
assumption. `first_review` and `nonce_burned` run `Reputation` and `SignIn` as they
are. No `.cfg` replaces a definition. `MCIndexers`, `MCWorkers`, `MCAccounts` and
`MCMarketplace` each hold several components that share no state, or one component
over several environments: the variable `part` chooses one at the start, the variables of
the others are 0, and their state spaces add up instead of multiplying. A property there
reads "if this part runs, its property holds".

Some definitions come with a neighbour that contains a slip (`Payable` and
`StillPayable`, `SafeHead` and `NearFrontier`, ...). Nothing uses the neighbours;
each property is known to fail when one of them takes the place of the original.

### What is abstracted

- Amounts and basis points are scaled: a rate is a number of quarters, at most a
  half (the code: ten-thousandths, at most a tenth). The proofs cover the real
  scale. Overflow of `uint256` reverts in the code and has no action here.
- A contract's transaction is atomic. `nonReentrant` and effects before interactions are
  what make a call-back see a finished state; the call-backs are not modelled.
- No party or fee recipient is the contract itself, nobody sends tokens
  to it directly, and no token refuses a recipient. `Solvent` is therefore an equality.
- The governor and role administrator of the escrow contract is the deploying admin;
  arbiters change. The governor of the subscription contract is one account.
- In the indexers a block number serves as time, a transaction's hash is the calls
  it makes, timestamps are set or unset, and counts in the audit trail stop at two.
  Notifications are left out. Orders are written by the indexer and the sweep only.
- In `OrderDesk` an event is confirmed when it appears, events come in order, and only a
  dispute that is still the last event is scanned again. Who may call, the timeline,
  prices and deadlines are left out; the sweep may expire a pending order at any time.
  Order and escrow are loaded at one instant (the code: two SELECTs in a row).
- Names, texts, hashes and tokens are ids. A signature is right or wrong, a token
  expires at any moment, and a score is one of a few grades.

## What is checked

`CHECK_DEADLOCK FALSE` stands where a bounded model ends when its bounds are reached: every
delivery closed, every request begun, every row used. The runs of the contract and of the
indexers check for deadlock.

### `escrow_pair` and `settlement_mirror`: the contract

`escrow_pair` has two escrows, one token, amounts up to 2, one window length, time 0 to 2;
the fee may be set to the cap or asked for above it. Two escrows are what it
takes for one to be paid with another's money, and amounts 1 and 2 make the fee
of one half round down and divide evenly. In the API's tables Alice placed one order, for a team
of Bob and the operator, and Bob the other, for an agent without a team; as anybody may pay for
either escrow and be paid by it, roles and addresses coincide in every way.

`settlement_mirror` has one escrow and its row; an ordinary and a skimming token, amounts up to
3, fee rates 0, 2 and an excessive 3, two arbiter candidates one of whom is a party,
windows of one unit, time 0 to 3, so that an escrow created at 0 or 1 reaches both of its
deadlines; the governor and the role administrator act at any moment.

| Property | Says |
|---|---|
| `TypeOK` | storage is well formed and the fee within its cap |
| `FullyDivided` | nothing leaves a held escrow; a closed one is divided to the last unit |
| `Solvent` | per token, the contract holds exactly what its open escrows are owed |
| `FeesReconcile` | fees collected are what the frozen rates give on the providers' shares |
| `ExitsStayOpen` | every exit the rules grant is a transaction that goes through, whatever pause, fee settings and other escrows do |
| `TermsFrozen` | terms never change; a closed escrow never changes |
| `AdviceMatchesContract` | the API offers a user exactly what the contract would accept, at that moment, from everybody or from the escrow's party in the role the API gives the user; where the user is that party it is what the contract accepts from them; at most a dispute is offered besides, when the pause switch cannot be read |
| `ImplementsLedger` | the contract implements `EscrowLedger` under `PhaseOf` |
| `RowsReconcile` | the row's amounts are the contract's, for every split and fee, and no event applied once and in order leads to a row that the table's constraints refuse |

### `indexers`: over the chains they are made for

Scale: two confirmations, a rewind of one block, chunks of two blocks, where the
code has 5, 64 and 2000. Each keeps its role: the rewind is shorter
than some distances between events and longer than others, and a scan takes
several chunks.

Part "escrows" has one order, five blocks, one reorganisation and one crash, with
the assumptions under which the escrow indexer is right, each a constant
(`SteadyChainAssumption`): reorganisations reach no deeper than the confirmations cover (`Reorgable` <
`Confirmations`); a dispute is settled later than the rewind reaches back
(`SettleDelay` > `ReorgDepth`); a transaction makes one call to the contract
(`BatchedCalls`); and the grace covers a pass, the confirmations and a reorganisation
(`ExpiryGrace` ≥ `Stall` + `Confirmations` + `Reorgable` - 2; with one block less TLC
finds a paid order expired). None of them is the code's own: confirmations and grace are settings, and
how deep a chain forks, how soon an arbiter decides and how long a pass takes are the world's.
Part "subscriptions" is the subscription indexer, over four blocks with one reorganisation and
one crash; it needs the first of these only.

| Property | Says |
|---|---|
| `RowsFollowChain` | committed rows are what the chain up to the cursor makes of them: escrows, and the end of each coverage |
| `AppliedOnce` | each settlement event is in the audit trail, and each payment in the receipt trail, once |
| `PaidInTimeNotExpired` | an order paid by its deadline is never expired |
| `IndexingContinues` | the cursor again and again reaches every block that can no longer be replaced, and every confirmed payment is recorded |

`IndexingContinues` needs fairness: `WF_vars(Worker)`, because `_index_chain --follow`
has no exit of its own and `docker-compose.prod.yml` restarts its container. Nothing is
assumed of the chain, and crashes are bounded by `MaxCrashes`. Blocks are
bounded by `MaxHeight`, which makes the chain pause so that the cursor can catch up; a
chain that outruns the worker for ever is not considered. In `MCIndexers` all of these
are constants, so the theorems are about any depths that keep the assumptions, and any height.

The assumptions are dropped in two parts of `marketplace`: "reorganised" (reorganisations
deeper than the confirmations) and "crowded" (an escrow without an order shares blocks and
transactions with the order's), both with settlements in the block of the dispute and two calls in
one transaction. There `OrderMatchesEscrow` still holds: order and escrow row agree in
every committed state, whatever the chain does.

### `workers`: the outboxes

Two deliveries, two attempts (the code: five e-mail attempts, a schedule of webhook
retries), batches of two, one crash, one request at a time, and for e-mail two refusals by
the table. Two deliveries are what it takes for one to wait behind another in a batch.

| Property | Says |
|---|---|
| `TypeOK` | rows of both outboxes are well formed and pass their constraints |
| `WithdrawnLeftAlone` | however many messages are queued for it, a revoked endpoint or suppressed address gets the one under way at most |
| `EveryDeliveryCloses` | every queued webhook is closed in the end; so is every queued e-mail, unless an attempt fails (see `email_retry`) |
| `ImplementsOutbox` | both implement `Outbox`: at least once, and no more often than attempts and interruptions account for |

Fairness: WF on the worker's steps (`Work`) and on the passing of its retry delay (`Wait`):
the loops have no exit and their containers are restarted. Nothing is assumed of the remote end.

### `accounts`: who may act for whom

Two overlapping requests in each part; two users, two offers (invitations, nonces, tokens), three
rows (sessions, keys), one team, one wallet on two chains, one key allowed. Ids are symmetric.
The limiter allows one request per window of four seconds to an account and an anonymous caller
behind one address; four requests arrive within seven seconds and reach Redis up to three
seconds later: the smallest numbers with which three times the limit is let through, and one more
request that must not be.

| Property | Says |
|---|---|
| `TypeOK` | rows are well formed |
| `MembersConsented` | a member founded the organization or accepted an invitation nobody had declined or withdrawn; at most one invitation of a person is open |
| `OwnedUnlessOverlapped` | an organization has an owner unless two requests that take one from it overlapped |
| `NonceSpentOnce` | at most one session comes of a nonce, for an address it was issued to, and the nonce is then spent (that a failed attempt spends it too is not so: see `nonce_burned`) |
| `ExactlyOnePayoutWallet` | an account with a wallet has exactly one to be paid at, also when its first sign-ins overlap |
| `SignedOutUntilSignIn` | once all sessions of an account are ended and no rotation is under way, no refresh token opens another |
| `ProvenUnlessOverlapped` | a verified address was proven by a token sent to it, unless a confirmation overlapped a change of address |
| `RevocationSticks` | a revoked key stays revoked, although requests that loaded it before write its row |
| `LimitsNearlyHold` | the limit of keys is passed by the requests that counted at once only; in any stretch as long as a window a caller gets at most twice the limit among the requests that reach Redis within a second, and at most three times among all, if none takes more than half a window; who is refused has used the limit up |

The exceptions are not for convenience: without "unless overlapped" TLC finds the
organization without an owner and the address verified that nobody proved, because the
code checks and writes without a lock. The hazards in `PROJECT.json` name the lines.

### `marketplace`: what buyers and operators see

Two overlapping requests in each part, three requests in all where they are counted. One rated
order; one plan, two accounts, an ordinary and a skimming token, time to 5 and coverage to 4; one agent with one service and two
orders; two domains and a GitHub account with two challenges and two changes of site; one order on
the desk with an indexer and two requests; a window of two and five time units for the readiness
check; three blocks, a threshold of two and one restart for the monitor. On the desk an escrow
holds 4 at a fee of a quarter, and the arbiter gives the provider nothing or half.

| Property | Part | Says |
|---|---|---|
| `TypeOK` | all | rows are well formed; the holder of the readiness check's lock is the one asking |
| `FiguresFollowRows` | reputation | what a buyer browses is what orders and reviews give, by whichever route they changed, unless requests overlapped |
| `VerdictsStay` | reputation | an exclusion keeps its first reason; a review is one per order, and withdrawn for good |
| `CoverageIsPaid` | subscriptions | coverage grows only with the whole price reaching the treasury; no step shortens it |
| `ServiceRowSound` | catalogue | a priced service has a price, whatever edits overlap; `order_count` is right unless two placements overlapped |
| `OrdersAsOffered` | catalogue | what is shown can be ordered; an order has terms of one moment at which they were published; stated windows stay |
| `TierFollowsProof` | proofs | a tier has its proof, a proof its own token, and a change of site ends the proof of the domain |
| `NeverAheadOfChain` | desk | an order is only in a state its escrow has reached, and completed exactly when it was paid |
| `EscrowRowKept` | desk | a decision or repair written from a stale load undoes no column that mirrors the chain, nor does the indexer erase a decision |
| `WorkerNeverRefused` | desk | no request leads to a row that refuses the indexer's next event; only a repair from a block that is dropped does |
| `OrderMatchesEscrow` | reorganised, crowded | order and escrow row agree |
| `OneRoundPerWindow` | probe | two questions to the node are a full window apart |
| `NothingUnsaid` | monitor | a lasting outage is the last thing the operator was told; every governance event below the cursor was reported, except what a reorganisation moved into a scanned block |

"Completed exactly when paid" rests on the constraint `completed_at_matches_status`: without it a
request that loaded the order before the payment would set it back. `EscrowRowKept` rests on
the ORM sending changed columns only. Nothing of the kind protects a refund or a
dispute: see `desk_lost_update` below. `FiguresFollowRows` is checked with the completed
orders of a service counted by hand (`CountedByHand`): as the code stands, `first_review` comes
first.

## What is proved

For every value of the constants that satisfies the named assumptions:

| Module | Theorem | Statement |
|---|---|---|
| `AgoreumEscrowProofs` | `TypeCorrect` | `Spec => []TypeOK` |
| | `EscrowsFullyDivided` | `Spec => []FullyDivided` |
| | `ContractSolvent` | `Spec => []Solvent` |
| | `FeesAccountedFor` | `Spec => []FeesReconcile` |
| | `TermsNeverChange` | `Spec => TermsFrozen` |
| | `ContractImplementsLedger` | `Spec => ImplementsLedger` |
| | `AdviceAlwaysMatches` | `Spec => []AdviceMatchesContract` |
| | `RowsAlwaysReconcile` | `MirrorSpec => []RowsReconcile` |
| `WorkersProofs` | `TypeCorrect` | `Spec => []TypeOK` |
| | `WithdrawnSafe` | `Spec => []WithdrawnLeftAlone` |
| | `WorkersRefine` | `Spec => ImplementsOutbox` |
| `AccountsProofs` | `RowsWellFormed` | `Spec => []TypeOK` |
| | `MembersHaveConsented` | `Spec => []MembersConsented` |
| | `TeamsStayOwned` | `Spec => []OwnedUnlessOverlapped` |
| | `NoncesAreSpentOnce` | `Spec => []NonceSpentOnce` |
| | `OneWalletToPay` | `Spec => []ExactlyOnePayoutWallet` |
| | `OnlySignaturesReopen` | `Spec => SignedOutUntilSignIn` |
| | `AddressesAreProven` | `Spec => []ProvenUnlessOverlapped` |
| | `RevokedForGood` | `Spec => RevocationSticks` |
| | `LimitsPassedByOverlapsOnly` | `Spec => LimitsNearlyHold` |
| `IndexersProofs` | `MirrorsFollowChain` | `Spec => []RowsFollowChain` |
| | `EventsAppliedOnce` | `Spec => []AppliedOnce` |
| | `PaidOrdersStay` | `Spec => []PaidInTimeNotExpired` |
| `MarketplaceProofs` | `RowsWellFormed` | `Spec => []TypeOK` |
| | `CoverageAlwaysPaid` | `Spec => CoverageIsPaid` |
| | `OneRoundPerTimeWindow` | `Spec => []OneRoundPerWindow` |
| | `OutagesAreReported` | `Spec => []NothingUnsaid` |
| | `TiersFollowProofs` | `Spec => TierFollowsProof` |
| | `ServiceRowsSound` | `Spec => []ServiceRowSound` |
| | `OrdersKeepTheirOffer` | `Spec => []OrdersAsOffered` |
| | `PaidOrdersComplete` | `Spec => []NeverAheadOfChain` |
| | `EscrowRowsKept` | `Spec => EscrowRowKept` |
| | `IndexingNeverRefused` | `Spec => []WorkerNeverRefused` |
| | `FiguresFollowTheRows` | `Spec => []FiguresFollowRows` |
| | `VerdictsAreKept` | `Spec => VerdictsStay` |
| | `OrdersAgreeWithEscrows` | `Spec => []OrderMatchesEscrow` |

The theorems of `WorkersProofs`, `AccountsProofs`, `IndexersProofs` and `MarketplaceProofs` are about
the MC modules of those names, so each states a property that a run checks. An `INSTANCE` there gives
the component's definitions a prefix, and each section of a proof module is about the definitions
with one prefix. The desk and reputation are proved in modules of their own, which
`MarketplaceProofs` instantiates and which hold only the lemmas its theorems about them rest on. An
instance of a proof module has its own copy of every definition of the component; that a step of the
one copy is a step of the other (`SameSteps`, `SameRatingSteps`) is proved by expanding both.
`DataFacts` has the facts about logs that both proofs about indexers use, and those about sums that
the proof about reputation uses.

The assumptions of the escrow contract (`ConstantsAssumption`, `FeeAssumption`) are that
`address(0)` and the contract are not among the
accounts, that bounds are naturals, that the shortest window is positive and the fee
cap at most the whole. They are what Solidity's types and the constructor give,
except that the contract is not a party to its own escrows, which nothing in the code
rules out and no key can bring about. `WorkersAssumption`, `AccountsAssumption`,
`IndexersAssumption` and `MarketplaceAssumption` collect what their components assume:

- outboxes: bounds are naturals; attempts and batches are at least one;
- sign-in, keys, limiter: no address is called "anyone", nonces and sessions have
  different ids; limits, quotas and windows are positive. `Organizations` needs nothing;
- limiter, besides: the replicas' clocks agree, and no request is counted later than half a
  window after it arrived (`LimitAssumption`, or a second more). `core/redis.py` allows five
  seconds to connect and five for the answer, and the shortest window is a minute; but
  nothing enforces it on a process that is stalled or a client library that retries, and with
  longer delays more is let through;
- advice: each order was placed by one account, a team is a set of accounts
  (`AdviceAssumption`), and the API's clock is the block's;
- subscriptions: like the escrow contract; probe and monitor: windows, thresholds and
  numbers of tries are positive, and `Nobody` is no caller;
- catalogue: ids are finitely many, quotes and hours positive, and there is a quote;
  proofs: no domain or login is called "none", and none is both;
- indexers: depths, deadlines and bounds are naturals, a chunk has a block and an event a
  confirmation, shares are parts of the amount and the fee is within the cap; for
  `IndexersProofs` also `SteadyChainAssumption`, explained with the run `indexers`;
- desk: an escrow holds something, its fee is within the cap, shares are parts of
  what it holds, and the indexer is not a request;
- reputation: orders and requests are finitely many, ratings are among 1 to 5, and a score takes
  at least one completed order; and the parts of `MCMarketplace` are those it names.

**The contract.** The inductive invariant is `Inv`: `TypeOK`, `Named` (an escrow that exists has real
parties and a real token), `FullyDivided`, `Solvent` and `FeesReconcile`. None is
inductive alone. That balances stay naturals needs `Solvent`: a payout is covered
because the escrow's part is one summand of the vault's balance. `Solvent` and
`FeesReconcile` need `FullyDivided`: what is paid out must be the whole outstanding
part, and no fee can have been taken before. `Named` is needed for
the payouts to reach accounts that have a balance. `release`, `refund` and `settleDispute` share
one argument: each satisfies `ClosesAndPays` (it divides an open escrow and pays out the parts), and
`Closing` shows that such a step preserves `Inv`. `TermsFrozen` follows from `Inv` step by step.

**The refinement.** `ContractImplementsLedger` maps each step under `Inv`: creation to a deposit,
a dispute to a freeze, the three ways out to a division in full, everything else to a stutter. The
fee's bound is the rounding lemma `FeeWithinShare`.

**Advice and rows.** Two more invariants. `WellMade`: an escrow that exists has two different
parties and two deadlines that are not zero; the API reads a zero as no moment at all. With it
what is offered to a set of roles is what the contract accepts of those who have them
(`RolesOpen`, `RolesHeld`), whatever the API's tables say of whom. `Mirrored`: the
row has the status, parts and terms the contract has, and, with `Fits`, the timestamps that the
table's constraints ask for; one lemma per event shows that applying it keeps both.

**The mirrors.** `IndexersInv` has two halves for each indexer. `ChainInv` says which logs can come in
which order (`Emitted`: an escrow's events follow one another, a settlement not too soon, and no
transaction has two of them) and that no fork reaches below `Settled`. `WorkerInv` says
that what is committed mirrors the logs up to the cursor (`Mirrors`: each row is the fold of them,
each transaction and each entry in the trail is there exactly if its event is), that
what the open transaction sees mirrors those up to where the pass has come (`Reach`), and that both
are settled, so that forks leave them alone. A chunk that is read again is the hard
step. `ChunkApplied` takes its logs one by one: an event with a record is recognised, and a dispute,
which has none, leaves the row as it is, because its settlement is further away than the rewind
reaches; so nothing changes below `Reach`, and above it each log is new and extends the fold. What the tables refuse ends
the pass and leaves what was committed. For `PaidOrdersStay`, `Unpaid` says of an expired order that
the settled chain has passed its deadline without a payment; `Recent` ties the clock of the sweep to the
blocks that the pass has read, and is where the grace is needed.

The proof about `OrderMatchesEscrow` has none of these assumptions, and an invariant that says nothing of
the order of logs: `InStep`, that order, row, trail and cursor are well formed and agree, is kept by any
event at all (`Tables` and `Agreed`, applied log by log in `Stages`), whatever the chain was and will be.

**Coverage.** A payment is accepted only if the treasury's balance grew by the price; `DeliveredWhole`
derives that such a token kept nothing and the payer is not the treasury. Type correctness is the
only invariant needed.

**Organizations.** That an organization keeps an owner is not inductive: a request that
takes one acts on what it loaded. `Spares` says of every open request that the one it takes is not the
last one, unless requests overlapped; `NoteOverlap` is what makes it survive the others' steps.
That consent is genuine needs `Apart`: no two requests answer the same invitation, which the row
lock of the conditional UPDATE gives, and none is sent on an id in use.

**Sign-in.** `IInv` has, besides the type invariant, what every open request relies on
(`TxnsPending`), that one request at most is spending a nonce (`OneSpender`, the lock of
`consume_nonce`'s UPDATE), that a nonce has at most one session that came of it, exactly if it
is consumed (`OneHeir`), and that an account with a wallet has one it is paid at (`OnePaid`).

**The readiness check.** The gap between two rounds follows from two facts about the lock: its
holder is the only one asking, and when it is free the last round has its answer in the cache, no
older than the question.

**The monitor.** `WatchInv` says what the two flags of the operator's state mean: an outstanding
alert was the last thing said, and a closed one was followed by something else. With
`NoEventPassedOver` (every governance event up to the mark was reported) they are inductive.

**Outboxes.** `HookInv` and `MailInv` have five parts each: the types of rows and of what requests and
the worker hold; that ids are given out in order; that a delivery in the worker's batch is a
queued row of a live endpoint or address, unless it was withdrawn after the claim; that what was
received is at most what attempts and interruptions account for; and that a withdrawn address got at
most the message under way. Under it each step maps to one of `Outbox` or a stutter.

**E-mail addresses, keys, the limiter.** `StillStands` says of a confirmation that has loaded its token
that the address it will write is the token's and still the profile's, unless a change
overlapped. For keys, active keys plus requests that are minting are at most the limit and all but
one of the requests: each was counted by somebody before it began. For the limiter, `AllTold` says
that requests of one window that arrive close together (`Close`) are at most the quota: from the first
of them until nobody can be late for the last, the counter that counted them is there. All prompt
requests of a window are close together. If delays may be longer, those that arrive early
in the window are, and those that arrive late (`OneWindow`: half a window of delay is where
these two cover it), and a stretch of a window's length reaches into two windows but
not into both halves of both (`NearlyHolds`). `UsedUp` says that a counter counts no more than
was let through, which is why who is refused has used the limit up.

**Proofs of agents.** A verification writes a tier from what it loaded and what the site showed.
`LoadedIsCurrent` says that the challenge loaded is still that of the agent, unless its site changed,
and `FoundIsRead` that what was found was read for that challenge.

**Catalogue.** An edit loads the row, and the database keeps what it did not change. `EditsLeaveCount` says no
edit carries `order_count`; `CountsExact` counts the open placements on top of the committed
ones; `PlacementsSound` says what a placement has loaded was on offer; `ToldOnce` that what
a buyer was told is what its order says.

**The desk.** `DeskInv` says that the three rows of an order fit its events (`RowsFit`) in the eyes of
three readers: `Committed`, of whoever loads; `WorkerSees`, of the indexer inside its
transaction; `RequestWrote`, of a request that has flushed. Columns that are set and not yet sent
land on whatever row the transaction before them leaves. So what is said of them is not what they
were loaded from but what they make of any row that fits: `RequestReady` (a creation, a move between
states of a funded order, a decision, figures of the chain) and `Pending`, where `MovesOn` and
`Mirrors` say that the indexer's columns turn every row that fits before its event into one
that fits after. `OrderChecks` and `RowChecks` are used, not only kept: it is the refused update that
stops a request from undoing a completed order. `LocksApart` keeps two transactions off one
row, and `CreatedByOne` gives a fresh order one writer. An escrow has three events at most, so what
events make of a row (`Projected`, a recursive function) is written out as `RowAt`, and
`ProjectedIsRowAt` shows that the two agree; no induction is needed. `WorkerNeverRefused`, the action property
`DecisionsStay` and the rest follow from `DeskInv`.

**Reputation.** A recomputation reads one figure after the other while others commit, so what it has
read need not be what any one moment gives. `RatingInv` follows the transactions through their
steps: `Held` is what a transaction of each kind has loaded, read and written at each step; `Apart`, that no two
have written a common row, is what the row locks give; `Follows`, that what it has written still
follows from the committed row (a review is of an order that has none, a withdrawal keeps the
rating, an exclusion is of an order that is not excluded). `UpToDate` says that the figures and
counters in a session that nothing has disturbed are what the rows would give now, and is what
the commit publishes. An answer to a review commits without disturbing anybody, which needs
that no figure depends on it (`AnsweredOnly`). Snapshots that are made and not yet committed are in the
order of `computed`, which `Computing` ties to the open transactions. For `RatingInv` the sum of the ratings
is never expanded: it needs only that it is a function of the reviews counted.

That the counters pass their CHECK constraints (`RowsWellFormed`, part "reputation") is a second invariant,
`CountsInv`, which rests on the first. A request computes counters from what it loaded, and others may change
the row before its `UPDATE` is sent; the table judges the row the `UPDATE` makes of what is committed then, once.
`Carries` says of every open transaction that what it has written, laid over the row as it is now, still
passes. It does because the row is locked from the `UPDATE` on. The count of completed
orders that is kept by hand keeps the constraint because it only grows: it is the number of completed orders,
and none becomes uncompleted (`OneSettlement`: settlements come one at a time and find their order
open). That the figures are naturals needs `SumType`, by the induction described next.

**Induction over data.** Sums over the escrows are `Total`, rows are folds of logs, and
what a pass applies is a function of the number of logs: all recursive functions.
The library's induction theorems take an operator as a parameter, which the provers cannot
instantiate. So a function is shown to satisfy its recursion equation up to every length
by the least length at which it would not, and induction over an interval is
derived for sets of indices from the least-element principle (`IntervalInduction`). From these,
`AgoreumEscrowProofs` derives that changing one entry moves the total by the change (`TotalUpdate`)
and that a total of naturals bounds each of its entries; `IndexersProofs`, that a row after one log
more is the row before it with that log applied (`RowAtNext`).

Only model-checked: `ExitsStayOpen` (it uses ENABLED, which the prover does not treat); liveness
under fairness (`IndexingContinues`, `EveryDeliveryCloses`). There are no RECURSIVE operators here.

## Where the code and its notes disagree

Each of these is a run that TLC finds violated, with a behaviour that shows why.

| Run | What the notes say | What the code does |
|---|---|---|
| `indexer_quick` | "Re-scanning a range applies nothing twice, so the indexer can be restarted ... without corrupting state" (`indexer.py:15`) | `EscrowDisputed` leaves no transaction row and is applied on every rescan: a dispute settled within the rewind is applied over the settlement; the table refuses it on every retry and indexing stops |
| `desk_lost_update` | "A status divergence stays reported and unrepaired" (`indexer.py:743`) | a request that loaded the order before a refund was recorded sets it back to in progress or delivered, for good; reconciliation compares no status and says "in sync" |
| `email_retry` | "an attempt already made is never repeated because of a later failure in the same batch" (`cli.py:292`) | a retry that succeeds leaves `failed_at`, the table refuses the row, and the worker dies and sends the same message again, for ever |
| `first_review` | "a review can only come from an order that actually completed" (`services/models.py:198`) | nothing writes `completed_order_count`, which the number of reviews may not exceed: the first review of a service is refused |
| `renewal_flag` | "the same three rules ..., idempotence keyed by `(tx_hash, log_index)`" (`subscription_indexer.py:4`) | a cancellation is applied on every rescan, a payment once: a renewed subscription is marked as cancelled |
| `nonce_burned` | "The nonce is consumed *before* the signature is verified so that a failed verification still burns it" (`auth/service.py:117`; also `docs/security.md:83`, `docs/architecture.md:183`, `docs/api.md:91`) | the nonce is consumed in the transaction that the refusal rolls back (`get_db`), so it can be presented again until it expires. `test_a_failed_attempt_still_burns_the_nonce` (`tests/test_auth.py:279`) passes because the tests' `get_db` never rolls back |

Met while modelling, and not given a run of their own:

- Chain and orders. Events are recognised by the transaction's hash alone, so the second event of
  one transaction is dropped, although `indexer.py:14` speaks of the log index. Nothing applied is ever rewound
  (`indexer.py:12` says it is): what was applied and never mined again stays recorded. The sweep's clock is
  later than the head its scan read, so a slow pass can expire a paid order. An order whose service stated no
  delivery time reads the live service when its windows are asked for, so an edit in between names
  two pairs of windows for it, although `orders/service.py:164` calls that the defect that was fixed. A repair reads the latest,
  unconfirmed block; if that is dropped, the tables refuse the indexer's next event. A decision
  recorded during the settlement, or a second one, replaces the dispute's resolution.
- Exits. The buyer can reclaim "without needing anyone's cooperation" (`AgoreumEscrow.sol:30`) only until the
  provider disputes; then an arbiter is needed, and all of them may be revoked. `pause()` is said to block new
  escrows only (`docs/contracts.md:87`) and blocks `dispute` as well, while auto-release stays open. A member of the
  provider's organization is told it can refund or dispute; the contract wants the escrow's own provider
  address. So with the buyer's account, where another address paid for the escrow.
- Agents and services. A retired agent or archived service can be published again. The count of
  attempts and the error of a failed verification are rolled back with the request. A verified
  domain need not be the site's. A payout wallet stays when its member leaves.
- Limits. A fixed window lets through "up to twice the limit across two adjacent windows"
  (`rate_limit.py:10`); a counter lives one second longer than its window, so requests that take longer to
  reach Redis find it gone, and three times the limit passes. A degraded request is said to be
  let through "without being counted" (`rate_limit.py:119`), and is counted if only the answer was lost.
- Operations. An order without a stated delivery time is never overdue in the stranded verdict. The monitor
  announces no second problem while an alert is outstanding, may report "healthy" after one failing pass,
  repeats governance events after a restart or when its node lags, and counts a message lost by
  Telegram as told. `check_chain` makes two calls, each tried up to three times, where its
  comment counts one; cache and lock are per process.

One hazard has no property: a fee recipient that a token refuses (`AgoreumEscrow.sol:261`), because no
token here refuses anyone.

## Not modelled

- Receipts: a signed rendering of an order; no state of their own.
- Identity and users: table definitions; their operations are authentication's.
- Dashboard and analytics: reads, and page-view counts.
- MCP server: operations of other components, offered to agents.
- Outbound requests: a check of an address, a pure function of what DNS answers.
- Web application, SDKs and contract bindings: clients; they hold no state of the system.
- Deployment and migrations: what the models take from them (one worker each, restarted when it
  ends; the constraints) is stated above.

Of modelled parts: in orders, statements and intents (they append to the timeline); in
authentication, the form of signatures and tokens and the endpoints that only read; in
notifications, which event notifies whom, preferences and reading; in reputation, the weights
of the score; in the marketplace, order and facets of a search; in health, the uptime worker and the
operator's alerts, which send a message and keep nothing; in the chain client, logs and receipts,
which the indexers' models take as one consistent chain.

## What is left

- A token that refuses a recipient, in the contract's model.
