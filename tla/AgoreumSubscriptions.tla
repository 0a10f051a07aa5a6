------------------------ MODULE AgoreumSubscriptions -------------------------
(***************************************************************************)
(* The subscription contract (AgoreumSubscriptions.sol): a payment moves   *)
(* from the subscriber to the treasury and extends the subscriber's        *)
(* coverage under a plan.  A transaction is atomic and a revert is a false *)
(* guard.  Accounts hold the tokens; the contract never does.              *)
(***************************************************************************)
EXTENDS Naturals

CONSTANTS Accounts,     \* subscribers, the governor and treasuries
          Governor,     \* holds GOVERNOR_ROLE
          PlanIds,
          Tokens,
          Skimmed,      \* what each token keeps of a transfer
          Endowment,    \* what each account holds of each token at first
          Prices,       \* prices a governor asks for, and a subscriber agrees to
          Periods,      \* periods a governor asks for
          MinPeriod, MaxPeriod,
          MaxTime,      \* bound: the last block timestamp
          MaxCoverage   \* bound: the last end of a period

SubscriptionsAssumption ==
    /\ Governor \in Accounts
    /\ Prices \subseteq Nat /\ Periods \subseteq Nat
    /\ MinPeriod \in Nat \ {0} /\ MaxPeriod \in Nat /\ MaxTime \in Nat /\ MaxCoverage \in Nat
    /\ Skimmed \in [Tokens -> Nat]
    /\ Endowment \in [Tokens -> [Accounts -> Nat]]

VARIABLES plan,          \* _plans
          sub,           \* _subs: per subscriber and plan
          treasury,
          revenueRouted, \* per token
          paused,
          wallet,        \* ERC-20 balances: per token and account
          now            \* block.timestamp

vars == <<plan, sub, treasury, revenueRouted, paused, wallet, now>>
settings == <<plan, treasury, paused>>

NoPlan == [exists |-> FALSE]
Plan == [exists : {TRUE}, token : Tokens, price : Nat \ {0},
         period : MinPeriod .. MaxPeriod, active : BOOLEAN]
Subscription == [startedAt : Nat, expiresAt : Nat, autoRenewCancelled : BOOLEAN]
NoCoverage == [startedAt |-> 0, expiresAt |-> 0, autoRenewCancelled |-> FALSE]

-----------------------------------------------------------------------------
\* The balances after a transfer, of which the token keeps its part.
Transfer(token, from, to, amount) ==
    LET paid == [wallet[token] EXCEPT ![from] = @ - amount] IN
    [paid EXCEPT ![to] = @ + (amount - Skimmed[token])]

\* The treasury must gain the full price.
Delivers(token, from, price) ==
    /\ wallet[token][from] >= price
    /\ Skimmed[token] <= price
    /\ Transfer(token, from, treasury, price)[treasury] - wallet[token][treasury] = price

FromNow(s, period) ==
    [startedAt |-> now, expiresAt |-> now + period, autoRenewCancelled |-> FALSE]
\* A period is added to what remains, or begins now.
Extended(s, period) ==
    LET running == s.expiresAt > now IN
    [startedAt |-> IF running THEN s.startedAt ELSE now,
     expiresAt |-> (IF running THEN s.expiresAt ELSE now) + period,
     autoRenewCancelled |-> FALSE]

Agreed(price, maxPrice) == price <= maxPrice

Subscribe(a, p, maxPrice) ==
    LET offer == plan[p] IN
    /\ ~paused
    /\ offer # NoPlan
    /\ offer.active
    /\ Agreed(offer.price, maxPrice)
    /\ Delivers(offer.token, a, offer.price)
    /\ Extended(sub[a][p], offer.period).expiresAt <= MaxCoverage
    /\ wallet' = [wallet EXCEPT ![offer.token] = Transfer(offer.token, a, treasury, offer.price)]
    /\ revenueRouted' = [revenueRouted EXCEPT ![offer.token] = @ + offer.price]
    /\ sub' = [sub EXCEPT ![a][p] = Extended(@, offer.period)]
    /\ UNCHANGED <<settings, now>>

\* Neither a pause nor a withdrawn plan keeps a subscriber from cancelling.
Cancel(a, p) ==
    /\ sub[a][p].expiresAt # 0
    /\ ~sub[a][p].autoRenewCancelled
    /\ sub' = [sub EXCEPT ![a][p].autoRenewCancelled = TRUE]
    /\ UNCHANGED <<settings, revenueRouted, wallet, now>>

ValidTerms(price, period) == price # 0 /\ period >= MinPeriod /\ period <= MaxPeriod

CreatePlan(a, p, token, price, period) ==
    /\ a = Governor
    /\ plan[p] = NoPlan
    /\ ValidTerms(price, period)
    /\ plan' = [plan EXCEPT ![p] = [exists |-> TRUE, token |-> token, price |-> price,
                                    period |-> period, active |-> TRUE]]
    /\ UNCHANGED <<sub, treasury, revenueRouted, paused, wallet, now>>

UpdatePlan(a, p, price, period, active) ==
    /\ a = Governor
    /\ plan[p] # NoPlan
    /\ ValidTerms(price, period)
    /\ plan' = [plan EXCEPT ![p] = [@ EXCEPT !.price = price, !.period = period,
                                             !.active = active]]
    /\ UNCHANGED <<sub, treasury, revenueRouted, paused, wallet, now>>

SetTreasury(a, newTreasury) ==
    /\ a = Governor
    /\ treasury' = newTreasury
    /\ UNCHANGED <<plan, sub, revenueRouted, paused, wallet, now>>

Pause(a) ==
    /\ a = Governor /\ ~paused
    /\ paused' = TRUE
    /\ UNCHANGED <<plan, sub, treasury, revenueRouted, wallet, now>>

Unpause(a) ==
    /\ a = Governor /\ paused
    /\ paused' = FALSE
    /\ UNCHANGED <<plan, sub, treasury, revenueRouted, wallet, now>>

Tick ==
    /\ now < MaxTime
    /\ now' = now + 1
    /\ UNCHANGED <<settings, sub, revenueRouted, wallet>>

Init ==
    /\ plan = [p \in PlanIds |-> NoPlan]
    /\ sub = [a \in Accounts |-> [p \in PlanIds |-> NoCoverage]]
    /\ treasury = Governor
    /\ revenueRouted = [t \in Tokens |-> 0]
    /\ paused = FALSE
    /\ wallet = Endowment
    /\ now = 1

Next ==
    \/ \E a \in Accounts, p \in PlanIds :
          \/ \E maxPrice \in Prices : Subscribe(a, p, maxPrice)
          \/ Cancel(a, p)
          \/ \E price \in Prices, period \in Periods :
                \/ \E t \in Tokens : CreatePlan(a, p, t, price, period)
                \/ \E active \in BOOLEAN : UpdatePlan(a, p, price, period, active)
    \/ \E a \in Accounts :
          (\E to \in Accounts : SetTreasury(a, to)) \/ Pause(a) \/ Unpause(a)
    \/ Tick

Spec == Init /\ [][Next]_vars

-----------------------------------------------------------------------------
TypeOK ==
    /\ plan \in [PlanIds -> Plan \cup {NoPlan}]
    /\ sub \in [Accounts -> [PlanIds -> Subscription]]
    /\ treasury \in Accounts
    /\ revenueRouted \in [Tokens -> Nat]
    /\ paused \in BOOLEAN
    /\ wallet \in [Tokens -> [Accounts -> Nat]]
    /\ now \in Nat

\* No step of anyone's (a new price or period, a withdrawn plan, a pause, a
\* renewal before or after the end) shortens the coverage that is paid for.
CoverageKept ==
    \A a \in Accounts, p \in PlanIds : sub'[a][p].expiresAt >= sub[a][p].expiresAt

\* Coverage grows by the plan's period only as the plan's price moves whole from
\* the subscriber's wallet to the treasury of that moment, and nothing else
\* moves a token: no skimming token, paused contract or treasury that pays
\* itself buys a period.
Paid(a, p) ==
    LET offer == plan[p] IN
    /\ sub'[a][p].expiresAt \in {sub[a][p].expiresAt + offer.period, now + offer.period}
    /\ a # treasury
    /\ wallet' = [wallet EXCEPT ![offer.token][a] = @ - offer.price,
                                ![offer.token][treasury] = @ + offer.price]
    /\ revenueRouted' = [revenueRouted EXCEPT ![offer.token] = @ + offer.price]

CoverageIsPaid ==
    \/ wallet' = wallet /\ revenueRouted' = revenueRouted
       /\ \A a \in Accounts, p \in PlanIds : sub'[a][p].expiresAt = sub[a][p].expiresAt
    \/ \E a \in Accounts, p \in PlanIds :
          /\ Paid(a, p)
          /\ sub' = [sub EXCEPT ![a][p] = sub'[a][p]]

=============================================================================
