-------------------------- MODULE MarketplaceProofs --------------------------
(***************************************************************************)
(* Properties MCMarketplace states of the parts of the marketplace, for    *)
(* any accounts, requests, prices, periods and limits: one section for     *)
(* each part, with the invariant that makes its properties inductive, and  *)
(* one that puts them together.                                            *)
(***************************************************************************)
EXTENDS MCMarketplace, Integers, Sequences, FiniteSetTheorems, TLAPS,
        DataFacts

-----------------------------------------------------------------------------
(* Transfers.                                                              *)

\* A payment that the contract accepts moves the price, whole, between two
\* different accounts.
LEMMA DeliveredWhole ==
    ASSUME Plans!SubscriptionsAssumption, Plans!TypeOK, NEW t \in Tokens,
           NEW a \in Accounts,
           NEW price \in Nat \ {0}, Plans!Delivers(t, a, price)
    PROVE  /\ a # treasury
           /\ Plans!Transfer(t, a, treasury, price)
                = [wallet[t] EXCEPT ![a] = @ - price, ![treasury] = @ + price]
           /\ Plans!Transfer(t, a, treasury, price) \in [Accounts -> Nat]
<1>. DEFINE paid == [wallet[t] EXCEPT ![a] = @ - price]
            kept == Skimmed[t]
            to == Plans!Transfer(t, a, treasury, price)
<1>1. /\ wallet[t] \in [Accounts -> Nat] /\ treasury \in Accounts /\ kept \in Nat
      /\ wallet[t][a] >= price /\ kept <= price
      /\ to[treasury] - wallet[t][treasury] = price
  BY DEF Plans!TypeOK, Plans!SubscriptionsAssumption, Plans!Delivers
<1>2. /\ paid \in [Accounts -> Nat]
      /\ to = [paid EXCEPT ![treasury] = @ + (price - kept)]
      /\ to[treasury] = paid[treasury] + (price - kept)
      /\ to \in [Accounts -> Nat]
  BY <1>1 DEF Plans!Transfer
<1>3. a # treasury
  BY <1>1, <1>2
<1>4. kept = 0
  BY <1>1, <1>2, <1>3
<1>5. to = [wallet[t] EXCEPT ![a] = @ - price, ![treasury] = @ + price]
  BY <1>1, <1>2, <1>4
<1>6. QED
  BY <1>2, <1>3, <1>5

\* A plan that exists has a price, a token and a period.
LEMMA PlanTerms ==
    ASSUME Plans!SubscriptionsAssumption, Plans!TypeOK, NEW p \in PlanIds,
           plan[p] # Plans!NoPlan
    PROVE  /\ plan[p].token \in Tokens /\ plan[p].price \in Nat \ {0}
           /\ plan[p].period \in Nat \ {0}
<1>1. plan[p] \in Plans!Plan
  BY DEF Plans!TypeOK
<1>2. plan[p].token \in Tokens /\ plan[p].price \in Nat \ {0}
      /\ plan[p].period \in MinPeriod .. MaxPeriod
  BY <1>1 DEF Plans!Plan
<1>3. QED
  BY <1>2 DEF Plans!SubscriptionsAssumption

-----------------------------------------------------------------------------
(* What each transaction does to balances and coverage.                    *)

\* A transaction that moves no token and leaves every period its end.
Costless ==
    /\ wallet' = wallet /\ revenueRouted' = revenueRouted
    /\ \A a \in Accounts, p \in PlanIds : sub'[a][p].expiresAt = sub[a][p].expiresAt

LEMMA SubscribePays ==
    ASSUME Plans!SubscriptionsAssumption, Plans!TypeOK, NEW a \in Accounts,
           NEW p \in PlanIds,
           NEW maxPrice, Plans!Subscribe(a, p, maxPrice)
    PROVE  Plans!TypeOK' /\ Plans!CoverageIsPaid /\ Plans!CoverageKept
<1>. DEFINE offer == plan[p]
            t == offer.token
            to == Plans!Transfer(t, a, treasury, offer.price)
            longer == Plans!Extended(sub[a][p], offer.period)
<1>1. /\ offer # Plans!NoPlan /\ Plans!Delivers(t, a, offer.price)
      /\ wallet' = [wallet EXCEPT ![t] = to]
      /\ revenueRouted' = [revenueRouted EXCEPT ![t] = @ + offer.price]
      /\ sub' = [sub EXCEPT ![a][p] = longer]
      /\ UNCHANGED <<plan, treasury, paused, blockTime>>
  BY DEF Plans!Subscribe, Plans!settings
<1>2. t \in Tokens /\ offer.price \in Nat \ {0} /\ offer.period \in Nat \ {0}
  BY <1>1, PlanTerms
<1>3. /\ a # treasury /\ to \in [Accounts -> Nat]
      /\ to = [wallet[t] EXCEPT ![a] = @ - offer.price, ![treasury] = @ + offer.price]
  BY <1>1, <1>2, DeliveredWhole
<1>4. wallet' = [wallet EXCEPT ![t][a] = @ - offer.price, ![t][treasury] = @ + offer.price]
  BY <1>1, <1>2, <1>3 DEF Plans!TypeOK
<1>5. /\ sub[a][p] \in Plans!Subscription /\ blockTime \in Nat
      /\ longer \in Plans!Subscription
      /\ longer.expiresAt \in {sub[a][p].expiresAt + offer.period, blockTime + offer.period}
      /\ longer.expiresAt >= sub[a][p].expiresAt
  BY <1>2 DEF Plans!TypeOK, Plans!Extended, Plans!Subscription
<1>. HIDE DEF longer, to
<1>6. sub'[a][p] = longer
  BY <1>1 DEF Plans!TypeOK
<1>7. Plans!TypeOK'
  <2>1. sub' \in [Accounts -> [PlanIds -> Plans!Subscription]]
    BY <1>1, <1>5 DEF Plans!TypeOK
  <2>2. wallet' \in [Tokens -> [Accounts -> Nat]]
    BY <1>1, <1>3 DEF Plans!TypeOK
  <2>3. revenueRouted' \in [Tokens -> Nat]
    BY <1>1, <1>2 DEF Plans!TypeOK
  <2>4. QED
    BY <1>1, <2>1, <2>2, <2>3 DEF Plans!TypeOK
<1>8. Plans!CoverageIsPaid
  <2>1. Plans!Paid(a, p)
    BY <1>1, <1>3, <1>4, <1>5, <1>6 DEF Plans!Paid
  <2>2. sub' = [sub EXCEPT ![a][p] = sub'[a][p]]
    BY <1>1, <1>6
  <2>3. QED
    BY <2>1, <2>2 DEF Plans!CoverageIsPaid
<1>9. Plans!CoverageKept
  <2>1. SUFFICES ASSUME NEW b \in Accounts, NEW q \in PlanIds
                 PROVE  sub'[b][q].expiresAt >= sub[b][q].expiresAt
    BY DEF Plans!CoverageKept
  <2>2. sub[b][q].expiresAt \in Nat
    BY DEF Plans!TypeOK, Plans!Subscription
  <2>3. CASE b = a /\ q = p
    BY <1>5, <1>6, <2>3
  <2>4. CASE ~(b = a /\ q = p)
    BY <1>1, <2>2, <2>4 DEF Plans!TypeOK
  <2>5. QED
    BY <2>3, <2>4
<1>10. QED
  BY <1>7, <1>8, <1>9

LEMMA CancelCostsNothing ==
    ASSUME Plans!TypeOK, NEW a \in Accounts, NEW p \in PlanIds, Plans!Cancel(a, p)
    PROVE  Plans!TypeOK' /\ Costless
<1>1. sub' = [sub EXCEPT ![a][p].autoRenewCancelled = TRUE]
      /\ UNCHANGED <<plan, treasury, paused, revenueRouted, wallet, blockTime>>
  BY DEF Plans!Cancel, Plans!settings
<1>2. sub' \in [Accounts -> [PlanIds -> Plans!Subscription]]
  <2>1. [sub[a][p] EXCEPT !.autoRenewCancelled = TRUE] \in Plans!Subscription
    <3>1. sub[a][p] \in Plans!Subscription
      BY DEF Plans!TypeOK
    <3>2. QED
      BY <3>1 DEF Plans!Subscription
  <2>2. sub' = [sub EXCEPT ![a][p] = [@ EXCEPT !.autoRenewCancelled = TRUE]]
    BY <1>1
  <2>3. QED
    BY <2>1, <2>2 DEF Plans!TypeOK
<1>3. \A b \in Accounts, q \in PlanIds : sub'[b][q].expiresAt = sub[b][q].expiresAt
  <2>1. SUFFICES ASSUME NEW b \in Accounts, NEW q \in PlanIds
                 PROVE  sub'[b][q].expiresAt = sub[b][q].expiresAt
    OBVIOUS
  <2>2. sub[b][q] \in Plans!Subscription /\ sub'[b] = IF b = a THEN
                [sub[a] EXCEPT ![p] = [@ EXCEPT !.autoRenewCancelled = TRUE]] ELSE sub[b]
    BY <1>1 DEF Plans!TypeOK
  <2>3. QED
    BY <2>2 DEF Plans!TypeOK, Plans!Subscription
<1>4. QED
  BY <1>1, <1>2, <1>3 DEF Plans!TypeOK, Costless

LEMMA GovernCostsNothing ==
    ASSUME Plans!SubscriptionsAssumption, Plans!TypeOK, NEW a \in Accounts,
           \/ \E p \in PlanIds, price \in Prices, period \in Periods :
                 \/ \E t \in Tokens : Plans!CreatePlan(a, p, t, price, period)
                 \/ \E active \in BOOLEAN : Plans!UpdatePlan(a, p, price, period, active)
           \/ \E to \in Accounts : Plans!SetTreasury(a, to)
           \/ Plans!Pause(a) \/ Plans!Unpause(a)
    PROVE  Plans!TypeOK' /\ Costless
<1>1. ASSUME NEW p \in PlanIds, NEW price \in Prices, NEW period \in Periods,
             NEW t \in Tokens, Plans!CreatePlan(a, p, t, price, period)
      PROVE  Plans!TypeOK' /\ Costless
  <2>1. price \in Nat \ {0} /\ period \in MinPeriod .. MaxPeriod
    BY <1>1 DEF Plans!CreatePlan, Plans!ValidTerms, Plans!SubscriptionsAssumption
  <2>2. [exists |-> TRUE, token |-> t, price |-> price, period |-> period, active |-> TRUE]
            \in Plans!Plan
    BY <2>1 DEF Plans!Plan
  <2>3. plan' \in [PlanIds -> Plans!Plan \cup {Plans!NoPlan}]
    BY <1>1, <2>2 DEF Plans!CreatePlan, Plans!TypeOK
  <2>4. QED
    BY <1>1, <2>3 DEF Plans!CreatePlan, Plans!TypeOK, Costless
<1>2. ASSUME NEW p \in PlanIds, NEW price \in Prices, NEW period \in Periods,
             NEW active \in BOOLEAN, Plans!UpdatePlan(a, p, price, period, active)
      PROVE  Plans!TypeOK' /\ Costless
  <2>1. plan[p] \in Plans!Plan
    BY <1>2 DEF Plans!UpdatePlan, Plans!TypeOK
  <2>2. price \in Nat \ {0} /\ period \in MinPeriod .. MaxPeriod
    <3>1. price # 0 /\ period >= MinPeriod /\ period <= MaxPeriod
      BY <1>2 DEF Plans!UpdatePlan, Plans!ValidTerms
    <3>2. price \in Nat /\ period \in Nat
      BY <1>2 DEF Plans!SubscriptionsAssumption
    <3>3. QED
      BY <3>1, <3>2 DEF Plans!SubscriptionsAssumption
  <2>3. [plan[p] EXCEPT !.price = price, !.period = period, !.active = active] \in Plans!Plan
    BY <2>1, <2>2 DEF Plans!Plan
  <2>4. plan' \in [PlanIds -> Plans!Plan \cup {Plans!NoPlan}]
    BY <1>2, <2>3 DEF Plans!UpdatePlan, Plans!TypeOK
  <2>5. QED
    BY <1>2, <2>4 DEF Plans!UpdatePlan, Plans!TypeOK, Costless
<1>3. CASE (\E to \in Accounts : Plans!SetTreasury(a, to)) \/ Plans!Pause(a) \/ Plans!Unpause(a)
  BY <1>3 DEF Plans!SetTreasury, Plans!Pause, Plans!Unpause, Plans!TypeOK, Costless
<1>4. QED
  BY <1>1, <1>2, <1>3

\* What costs nothing gives nothing and takes nothing away.
LEMMA CostlessKeeps ==
    ASSUME Plans!TypeOK, Costless
    PROVE  Plans!CoverageIsPaid /\ Plans!CoverageKept
BY
   DEF Costless, Plans!CoverageIsPaid, Plans!CoverageKept, Plans!TypeOK,
       Plans!Subscription

LEMMA PlansStart ==
    ASSUME Plans!SubscriptionsAssumption, Plans!Init
    PROVE  Plans!TypeOK
BY
   DEF Plans!SubscriptionsAssumption, Plans!Init, Plans!TypeOK, Plans!NoCoverage,
       Plans!Subscription

LEMMA PlansStep ==
    ASSUME Plans!SubscriptionsAssumption, Plans!TypeOK, [Plans!Next]_planVars
    PROVE  Plans!TypeOK' /\ Plans!CoverageIsPaid /\ Plans!CoverageKept
<1>1. CASE Plans!Tick \/ UNCHANGED planVars
  <2>1. Plans!TypeOK' /\ Costless
    BY <1>1 DEF Plans!Tick, Plans!settings, planVars, Plans!TypeOK, Costless
  <2>2. QED
    BY <2>1, CostlessKeeps
<1>2. ASSUME NEW a \in Accounts, NEW p \in PlanIds, Plans!Cancel(a, p)
      PROVE  Plans!TypeOK' /\ Plans!CoverageIsPaid /\ Plans!CoverageKept
  BY <1>2, CancelCostsNothing, CostlessKeeps
<1>3. ASSUME NEW a \in Accounts,
             \/ \E p \in PlanIds, price \in Prices, period \in Periods :
                   \/ \E t \in Tokens : Plans!CreatePlan(a, p, t, price, period)
                   \/ \E active \in BOOLEAN : Plans!UpdatePlan(a, p, price, period, active)
             \/ \E to \in Accounts : Plans!SetTreasury(a, to)
             \/ Plans!Pause(a) \/ Plans!Unpause(a)
      PROVE  Plans!TypeOK' /\ Plans!CoverageIsPaid /\ Plans!CoverageKept
  BY <1>3, GovernCostsNothing, CostlessKeeps
<1>4. QED
  BY <1>1, <1>2, <1>3, SubscribePays DEF Plans!Next

(***************************************************************************)
(* The gap between two rounds is not inductive: that the next round comes  *)
(* a window later rests on the answer of the last one being kept once the  *)
(* lock is free, and on its not being older than the question.             *)
(***************************************************************************)
ProbeKinds ==
    /\ clock \in Nat
    /\ rounds \in Seq(Nat)
    /\ cache # Probe!Nothing => cache.at \in Nat
    /\ caller = [c \in Requests |-> caller[c]]

\* Who holds the lock is asking, and nobody else is.
HolderAsks == \A c \in Requests : caller[c].pc = "asking" <=> lock = c

\* Rounds are in the past, and once nobody asks the last is answered.
LastRoundAnswered ==
    /\ \A i \in DOMAIN rounds : rounds[i] <= clock
    /\ lock = Probe!Nobody => \A i \in DOMAIN rounds : cache # Probe!Nothing /\ rounds[i] <= cache.at

ProbeInv == ProbeKinds /\ HolderAsks /\ LastRoundAnswered /\ Probe!OneRoundPerWindow

LEMMA ProbeStart == ASSUME Probe!ProbeAssumption, Probe!Init PROVE ProbeInv
<1>1. HolderAsks
  BY DEF Probe!Init, HolderAsks, Probe!Away, Probe!ProbeAssumption
<1>2. QED
  BY <1>1
     DEF Probe!Init, ProbeInv, ProbeKinds, LastRoundAnswered, Probe!OneRoundPerWindow

\* The verdict is kept with the time it was reached, and the lock released.
LEMMA ConcludeKeepsGap ==
    ASSUME Probe!ProbeAssumption, ProbeInv, NEW c \in Requests, NEW status,
           lock = c, Probe!Conclude(c, status), UNCHANGED <<clock, node, rounds>>
    PROVE  ProbeInv'
<1>1. cache' # Probe!Nothing /\ cache'.at = clock
  BY DEF Probe!Conclude, Probe!Answer, Probe!Nothing
<1>2. HolderAsks'
  BY
     DEF Probe!Conclude, ProbeInv, ProbeKinds, HolderAsks, Probe!Away,
         Probe!ProbeAssumption
<1>3. QED
  BY <1>1, <1>2
     DEF Probe!Conclude, ProbeInv, ProbeKinds, LastRoundAnswered,
         Probe!OneRoundPerWindow

\* While a call is under way no round begins: the holder keeps the lock.
LEMMA RespondKeepsGap ==
    ASSUME Probe!ProbeAssumption, ProbeInv, NEW c \in Requests, Probe!Respond(c)
    PROVE  ProbeInv'
<1>1. lock = c
  BY DEF Probe!Respond, ProbeInv, HolderAsks
<1>2. CASE \E status : Probe!Conclude(c, status)
  BY <1>1, <1>2, ConcludeKeepsGap DEF Probe!Respond
<1>3. CASE caller' = [caller EXCEPT ![c].attempt = @ + 1] /\ UNCHANGED <<cache, lock>>
  <2>1. HolderAsks'
    BY <1>3 DEF ProbeInv, ProbeKinds, HolderAsks
  <2>2. QED
    BY <1>3, <2>1
       DEF Probe!Respond, ProbeInv, ProbeKinds, LastRoundAnswered,
           Probe!OneRoundPerWindow
<1>4. CASE /\ caller' = [caller EXCEPT ![c] = [Probe!Asking("head") EXCEPT !.chain = node]]
           /\ UNCHANGED <<cache, lock>>
  <2>1. HolderAsks'
    BY <1>1, <1>4 DEF ProbeInv, ProbeKinds, HolderAsks, Probe!Asking
  <2>2. QED
    BY <1>4, <2>1
       DEF Probe!Respond, ProbeInv, ProbeKinds, LastRoundAnswered,
           Probe!OneRoundPerWindow
<1>5. QED
  BY <1>2, <1>3, <1>4 DEF Probe!Respond, Probe!Answered, Probe!Failed, Probe!Rejected

\* A round begins only if the answer of the last is a window old.
LEMMA EnterKeepsGap ==
    ASSUME Probe!ProbeAssumption, ProbeInv, NEW c \in Requests, Probe!Enter(c)
    PROVE  ProbeInv'
<1>1. CASE Probe!Fresh
  <2>1. HolderAsks'
    BY <1>1
       DEF Probe!Enter, Probe!ServedMeanwhile, ProbeInv, ProbeKinds, HolderAsks,
           Probe!Away, Probe!ProbeAssumption
  <2>2. QED
    BY <1>1, <2>1
       DEF Probe!Enter, Probe!ServedMeanwhile, ProbeInv, ProbeKinds,
           LastRoundAnswered, Probe!OneRoundPerWindow
<1>2. CASE ~Probe!Fresh
  <2>1. rounds' = Append(rounds, clock) /\ lock' = c /\ lock = Probe!Nobody
        /\ caller' = [caller EXCEPT ![c] = Probe!Asking("chain_id")] /\ UNCHANGED <<clock, node, cache>>
    BY <1>2 DEF Probe!Enter, Probe!ServedMeanwhile
  <2>2. \A i \in DOMAIN rounds : clock - rounds[i] >= Window
    BY <1>2, <2>1
       DEF Probe!Fresh, ProbeInv, ProbeKinds, LastRoundAnswered,
           Probe!ProbeAssumption
  <2>3. HolderAsks'
    BY <2>1 DEF ProbeInv, ProbeKinds, HolderAsks, Probe!Asking, Probe!ProbeAssumption
  <2>4. ProbeKinds'
    <3>1. rounds' \in Seq(Nat)
      BY <2>1 DEF ProbeInv, ProbeKinds
    <3>2. caller' = [x \in Requests |-> caller'[x]]
      BY <2>1 DEF ProbeInv, ProbeKinds
    <3>3. QED
      BY <2>1, <3>1, <3>2 DEF ProbeInv, ProbeKinds
  <2>5. /\ DOMAIN rounds' = 1 .. Len(rounds) + 1
        /\ \A i \in 1 .. Len(rounds) : rounds'[i] = rounds[i]
        /\ rounds'[Len(rounds) + 1] = clock
        /\ DOMAIN rounds = 1 .. Len(rounds) /\ Len(rounds) \in Nat
    BY <2>1 DEF ProbeInv, ProbeKinds
  <2>6. LastRoundAnswered'
    BY <2>1, <2>5 DEF ProbeInv, ProbeKinds, LastRoundAnswered, Probe!ProbeAssumption
  <2>7. Probe!OneRoundPerWindow'
    BY <2>1, <2>2, <2>5 DEF ProbeInv, ProbeKinds, Probe!OneRoundPerWindow
  <2>8. QED
    BY <2>3, <2>4, <2>6, <2>7 DEF ProbeInv
<1>3. QED
  BY <1>1, <1>2

LEMMA ProbeStep ==
    ASSUME Probe!ProbeAssumption, ProbeInv, [Probe!Next]_probeVars
    PROVE  ProbeInv'
<1>1. ASSUME NEW c \in Requests, Probe!Ask(c) PROVE ProbeInv'
  <2>1. HolderAsks'
    BY <1>1 DEF Probe!Ask, ProbeInv, ProbeKinds, HolderAsks, Probe!Away, Probe!Queued
  <2>2. QED
    BY <1>1, <2>1
       DEF Probe!Ask, ProbeInv, ProbeKinds, LastRoundAnswered,
           Probe!OneRoundPerWindow
<1>2. CASE Probe!Tick
  BY <1>2
     DEF Probe!Tick, ProbeInv, ProbeKinds, HolderAsks, LastRoundAnswered,
         Probe!OneRoundPerWindow
<1>3. ASSUME NEW to \in Probe!Behaviours, Probe!Turn(to) PROVE ProbeInv'
  BY <1>3
     DEF Probe!Turn, ProbeInv, ProbeKinds, HolderAsks, LastRoundAnswered,
         Probe!OneRoundPerWindow
<1>4. CASE UNCHANGED probeVars
  BY <1>4
     DEF probeVars, ProbeInv, ProbeKinds, HolderAsks, LastRoundAnswered,
         Probe!OneRoundPerWindow
<1>5. QED
  BY <1>1, <1>2, <1>3, <1>4, EnterKeepsGap, RespondKeepsGap DEF Probe!Next

\* The answer kept is a verdict, reached by now, and who holds the lock asks.
LEMMA ProbeTypes ==
    ASSUME Probe!ProbeAssumption, ProbeInv, Probe!TypeOK, [Probe!Next]_probeVars
    PROVE  Probe!TypeOK'
<1>1. \A c \in Requests : caller'[c].pc = "asking" <=> lock' = c
  BY ProbeStep DEF ProbeInv, HolderAsks
<1>2. clock' \in 0 .. MaxTime /\ node' \in Probe!Behaviours
  BY DEF Probe!Next, Probe!Ask, Probe!Enter, Probe!Respond, Probe!Turn, Probe!Tick,
         probeVars, Probe!TypeOK, Probe!ProbeAssumption
<1>3. ASSUME NEW c \in Requests, NEW status \in Probe!Statuses, Probe!Conclude(c, status)
      PROVE  cache' \in Probe!Kept
  BY <1>3 DEF Probe!Conclude, Probe!Answer, Probe!Kept, Probe!TypeOK
<1>4. ASSUME NEW c \in Requests, Probe!Respond(c) PROVE cache' \in Probe!Kept
  <2>1. "down" \in Probe!Statuses /\ \A id : Probe!Verdict(id) \in Probe!Statuses
    BY DEF Probe!Statuses, Probe!Verdict
  <2>2. cache' = cache \/ \E status \in Probe!Statuses : Probe!Conclude(c, status)
    BY <1>4, <2>1 DEF Probe!Respond, Probe!Answered, Probe!Failed, Probe!Rejected
  <2>3. QED
    BY <1>3, <2>2 DEF Probe!TypeOK
<1>5. cache' \in Probe!Kept
  BY <1>4
     DEF Probe!Next, Probe!Ask, Probe!Enter, Probe!Turn, Probe!Tick, probeVars,
         Probe!TypeOK
<1>6. QED
  BY <1>1, <1>2, <1>5 DEF Probe!TypeOK

LEMMA ProbeTypesStart == ASSUME Probe!ProbeAssumption, Probe!Init PROVE Probe!TypeOK
<1>1. \A c \in Requests : caller[c].pc = "asking" <=> lock = c
  BY ProbeStart DEF ProbeInv, HolderAsks
<1>2. QED
  BY <1>1 DEF Probe!Init, Probe!TypeOK, Probe!Kept, Probe!ProbeAssumption

-----------------------------------------------------------------------------
(* The monitor.  What the operator was told last is no longer a problem    *)
(* once a pass has succeeded, and not only while no pass has failed since: *)
(* the next failures, too few to be told, must not bring the old alert     *)
(* back.  The cursor is only ever moved past blocks that were reported.    *)

WatchInv ==
    /\ Watch!TypeOK
    /\ announced \in BOOLEAN /\ tip \in Nat \ {0} /\ begun \in Int
    /\ alerted => told = "problem"
    /\ announced /\ ~alerted => told # "problem"
    /\ Watch!NoEventPassedOver

LEMMA WatchConstants ==
    ASSUME Watch!MonitorAssumption
    PROVE  /\ Threshold \in Nat \ {0} /\ HeartbeatAfter \in Nat /\ Lookback \in Nat
BY DEF Watch!MonitorAssumption

LEMMA LesserOf ==
    ASSUME NEW a \in Int, NEW b \in Int
    PROVE  Watch!Min({a, b}) = IF a <= b THEN a ELSE b
BY DEF Watch!Min

LEMMA GreaterOf ==
    ASSUME NEW a \in Int, NEW b \in Int
    PROVE  Watch!Max({a, b}) = IF a >= b THEN a ELSE b
BY DEF Watch!Max

LEMMA WatchStart == ASSUME Watch!MonitorAssumption, Watch!Init PROVE WatchInv
<1>1. /\ fails = 0 /\ ~alerted /\ alerted \in BOOLEAN /\ ~announced /\ announced \in BOOLEAN
      /\ quiet = 0 /\ gov = Watch!None /\ begun = Watch!None /\ tip = 1 /\ events = {}
  BY DEF Watch!Init, Watch!Born
<1>2. ~(0 >= Threshold) /\ 0 \in 0 .. Threshold + 1 /\ 0 \in 0 .. HeartbeatAfter
  BY WatchConstants
<1>3. Watch!None \in Int
  BY DEF Watch!None
<1>4. Watch!TypeOK
  BY <1>1, <1>2 DEF Watch!TypeOK
<1>5. QED
  BY <1>1, <1>3, <1>4 DEF WatchInv, Watch!NoEventPassedOver

\* What the checks of a pass make of the alert.
LEMMA PassAnnounces ==
    ASSUME Watch!MonitorAssumption, WatchInv, NEW healthy \in BOOLEAN,
           Watch!Announce(healthy)
    PROVE  /\ fails' \in 0 .. Threshold + 1 /\ alerted' \in BOOLEAN
           /\ alerted' <=> fails' >= Threshold
           /\ quiet' \in 0 .. HeartbeatAfter /\ announced' \in BOOLEAN
           /\ alerted' => told' = "problem"
           /\ announced' /\ ~alerted' => told' # "problem"
<1>1. /\ fails \in 0 .. Threshold + 1 /\ quiet \in 0 .. HeartbeatAfter
      /\ Threshold \in Nat \ {0} /\ HeartbeatAfter \in Nat
      /\ alerted \in BOOLEAN /\ (alerted <=> fails >= Threshold) /\ announced \in BOOLEAN
      /\ alerted => told = "problem"
      /\ announced /\ ~alerted => told # "problem"
  BY WatchConstants DEF WatchInv, Watch!TypeOK
<1>2. /\ fails' = IF healthy THEN 0
                  ELSE IF fails + 1 <= Threshold + 1 THEN fails + 1 ELSE Threshold + 1
      /\ quiet' = IF Watch!Heartbeat THEN 0
                  ELSE IF quiet + 1 <= HeartbeatAfter THEN quiet + 1 ELSE HeartbeatAfter
      /\ alerted' = (~healthy /\ (alerted \/ fails + 1 >= Threshold))
      /\ announced' = (announced \/ healthy \/ alerted')
  BY <1>1, LesserOf DEF Watch!Announce, Watch!Lasting
<1>3. /\ fails' \in 0 .. Threshold + 1 /\ alerted' \in BOOLEAN
      /\ alerted' <=> fails' >= Threshold
  <2>1. alerted' \in BOOLEAN /\ (alerted' <=> ~healthy /\ (alerted \/ fails + 1 >= Threshold))
    BY <1>1, <1>2, Zenon
  <2>2. fails' \in 0 .. Threshold + 1
    BY <1>1, <1>2
  <2>3. QED
    BY <1>1, <1>2, <2>1, <2>2
<1>4. quiet' \in 0 .. HeartbeatAfter /\ announced' \in BOOLEAN
  BY <1>1, <1>2
<1>5. alerted' => ~Watch!Heartbeat
  BY DEF Watch!Heartbeat
<1>6. told' = IF Watch!Heartbeat THEN "healthy"
              ELSE IF healthy THEN IF alerted THEN "recovered"
                                   ELSE IF ~announced THEN "started" ELSE told
              ELSE IF ~alerted /\ fails + 1 >= Threshold THEN "problem" ELSE told
  BY <1>1 DEF Watch!Announce, Watch!Lasting
<1>7. QED
  BY <1>1, <1>2, <1>3, <1>4, <1>5, <1>6

\* What the scan of a pass makes of the cursor.
LEMMA PassScans ==
    ASSUME Watch!MonitorAssumption, WatchInv, Watch!Govern,
           UNCHANGED <<tip, events, replaced>>
    PROVE  /\ gov' \in {Watch!None} \cup 0 .. tip + 1
           /\ (gov' = Watch!None <=> begun' = Watch!None) /\ begun' \in Int
           /\ Watch!NoEventPassedOver'
<1>1. /\ gov \in {-1} \cup 0 .. tip + 1 /\ (gov = -1 <=> begun = -1) /\ begun \in Int
      /\ tip \in Nat \ {0} /\ events \subseteq 1 .. tip /\ Lookback \in Nat
      /\ \A b \in events : b < gov => b \in said \cup replaced \/ b < begun
  BY WatchConstants DEF WatchInv, Watch!TypeOK, Watch!None, Watch!NoEventPassedOver
<1>2. CASE UNCHANGED <<gov, begun, said>>
  BY <1>1, <1>2 DEF Watch!NoEventPassedOver, Watch!None
<1>3. ASSUME NEW seen \in {tip, tip - 1},
             begun' = IF gov = Watch!None THEN Watch!Start(seen) ELSE begun,
             \/ Watch!Start(seen) > seen /\ gov' = seen + 1 /\ UNCHANGED said
             \/ Watch!Start(seen) <= seen /\ gov' = Watch!CursorAfterFailure(seen) /\ UNCHANGED said
             \/ /\ Watch!Start(seen) <= seen
                /\ gov' = seen + 1
                /\ said' = said \cup {b \in events : b \in Watch!Start(seen) .. seen}
      PROVE  /\ gov' \in {Watch!None} \cup 0 .. tip + 1
             /\ (gov' = Watch!None <=> begun' = Watch!None) /\ begun' \in Int
             /\ Watch!NoEventPassedOver'
  <2>1. seen \in Nat /\ seen <= tip
    BY <1>1
  <2>2. Watch!Start(seen) = IF gov # -1 THEN gov
                            ELSE IF 0 >= seen - Lookback THEN 0 ELSE seen - Lookback
    BY <1>1, <2>1, GreaterOf DEF Watch!Start, Watch!None
  <2>. DEFINE from == Watch!Start(seen)
  <2>3. from \in Nat /\ from <= tip + 1 /\ (gov = -1 => from <= seen)
    BY <1>1, <2>1, <2>2
  <2>4. gov # -1 => from = gov
    BY <2>2
  <2>5. begun' = (IF gov = -1 THEN from ELSE begun) /\ begun' \in Int /\ begun' # -1
    BY <1>1, <1>3, <2>3 DEF Watch!None
  <2>6. gov' \in 0 .. tip + 1
    BY <1>1, <1>3, <2>1, <2>3 DEF Watch!CursorAfterFailure
  <2>7. ASSUME NEW b \in events,
               b < gov' PROVE b \in said' \cup replaced \/ b < begun'
    <3>1. b \in Nat
      BY <1>1
    <3>2. CASE b < from
      BY <1>1, <1>3, <2>4, <2>5, <3>1, <3>2
    <3>3. CASE b >= from
      BY <1>1, <1>3, <2>1, <2>3, <2>4, <2>5, <2>7, <3>1, <3>3
         DEF Watch!CursorAfterFailure
    <3>4. QED
      BY <2>3, <3>1, <3>2, <3>3
  <2>8. QED
    BY <2>5, <2>6, <2>7 DEF Watch!NoEventPassedOver, Watch!None
<1>4. QED
  BY <1>2, <1>3 DEF Watch!Govern

LEMMA WatchStep ==
    ASSUME Watch!MonitorAssumption, WatchInv, [Watch!Next]_monitorVars
    PROVE  WatchInv'
<1>1. CASE Watch!Pass
  <2>1. PICK healthy \in BOOLEAN : Watch!Announce(healthy)
    BY <1>1 DEF Watch!Pass, Watch!Outcomes
  <2>2. Watch!Govern /\ UNCHANGED <<tip, events, replaced>>
    BY <1>1 DEF Watch!Pass
  <2>3. alerted' \in BOOLEAN /\ (alerted' <=> fails' >= Threshold)
    BY <2>1, PassAnnounces
  <2>4. events' \subseteq 1 .. tip' /\ tip' \in Nat \ {0}
    BY <2>2 DEF WatchInv, Watch!TypeOK
  <2>5. QED
    BY <2>1, <2>2, <2>3, <2>4, PassAnnounces, PassScans DEF WatchInv, Watch!TypeOK
<1>2. CASE Watch!Restart
  <2>1. /\ fails' = 0 /\ alerted' = FALSE /\ announced' = FALSE /\ quiet' = 0
        /\ gov' = -1 /\ begun' = -1 /\ UNCHANGED <<tip, events, told, said, replaced>>
    BY <1>2 DEF Watch!Restart, Watch!None
  <2>2. ~(0 >= Threshold) /\ 0 \in 0 .. Threshold + 1 /\ 0 \in 0 .. HeartbeatAfter
    BY WatchConstants
  <2>5. ~alerted' /\ alerted' \in BOOLEAN /\ ~announced' /\ announced' \in BOOLEAN
    BY <2>1
  <2>3. Watch!NoEventPassedOver'
    <3>1. \A b \in events : b \in Nat
      BY DEF WatchInv, Watch!TypeOK
    <3>2. QED
      BY <2>1, <3>1 DEF Watch!NoEventPassedOver
  <2>4. Watch!TypeOK'
    BY <2>1, <2>2, <2>5 DEF WatchInv, Watch!TypeOK, Watch!None
  <2>6. QED
    BY <2>1, <2>3, <2>4, <2>5 DEF WatchInv
<1>3. CASE Watch!Mine
  <2>1. /\ tip' = tip + 1 /\ events' \in {events \ {tip + 1}, events \cup {tip + 1}}
        /\ UNCHANGED <<fails, alerted, announced, quiet, gov, told, said, begun, replaced>>
    BY <1>3 DEF Watch!Mine, Watch!Contents, Watch!monitorVars
  <2>2. tip \in Nat \ {0} /\ gov \in {-1} \cup 0 .. tip + 1 /\ events \subseteq 1 .. tip
    BY DEF WatchInv, Watch!TypeOK, Watch!None
  <2>3. Watch!NoEventPassedOver'
    BY <2>1, <2>2 DEF WatchInv, Watch!NoEventPassedOver
  <2>4. events' \subseteq 1 .. tip' /\ gov' \in {-1} \cup 0 .. tip' + 1 /\ tip' \in Nat \ {0}
    BY <2>1, <2>2
  <2>5. QED
    BY <2>1, <2>3, <2>4 DEF WatchInv, Watch!TypeOK, Watch!None
<1>4. CASE Watch!Reorganise
  <2>1. /\ events' \in {events \ {tip}, events \cup {tip}}
        /\ replaced' = IF gov > tip THEN replaced \cup {tip} ELSE replaced
        /\ UNCHANGED <<fails, alerted, announced, quiet, gov, tip, told, said, begun>>
    BY <1>4 DEF Watch!Reorganise, Watch!Contents, Watch!monitorVars
  <2>2. tip \in Nat \ {0} /\ gov \in {-1} \cup 0 .. tip + 1 /\ events \subseteq 1 .. tip
    BY DEF WatchInv, Watch!TypeOK, Watch!None
  <2>3. Watch!NoEventPassedOver'
    BY <2>1, <2>2 DEF WatchInv, Watch!NoEventPassedOver
  <2>4. events' \subseteq 1 .. tip
    BY <2>1, <2>2
  <2>5. QED
    BY <2>1, <2>3, <2>4 DEF WatchInv, Watch!TypeOK, Watch!None
<1>5. CASE UNCHANGED monitorVars
  BY <1>5 DEF monitorVars, WatchInv, Watch!TypeOK, Watch!NoEventPassedOver
<1>6. QED
  BY <1>1, <1>2, <1>3, <1>4, <1>5 DEF Watch!Next

LEMMA OperatorIsTold ==
    ASSUME Watch!MonitorAssumption, WatchInv
    PROVE  Watch!NothingUnsaid
<1>1. fails >= Threshold => alerted
  BY DEF WatchInv, Watch!TypeOK
<1>2. fails = 0 => ~alerted
  BY WatchConstants DEF WatchInv, Watch!TypeOK
<1>3. QED
  BY <1>1, <1>2 DEF WatchInv, Watch!NothingUnsaid, Watch!OperatorKnows
-----------------------------------------------------------------------------
(* What an agent has proved.  While no two requests about the same rows    *)
(* have overlapped, a request finds the agent, and a verification the      *)
(* challenge, as it loaded them; that is why the tier and the domain move  *)
(* together, and why the token that was seen is the one issued last.       *)

Verification ==
    [kind : {"verify"}, claim : Proofs!Claims, agent : Proofs!Agent,
     challenge : Proofs!Challenge, found : BOOLEAN]
SiteChange ==
    [kind : {"update"}, agent : Proofs!Agent, site : Domains \cup {Proofs!None}]

ProofRows ==
    /\ Proofs!TypeOK
    /\ proofTxn \in [Requests -> {Proofs!Idle} \cup Verification \cup SiteChange]
    /\ shown \in [Proofs!Claims -> Nat] /\ issued \in 0 .. MaxIssued
    /\ \A c \in Proofs!Claims : challenge[c].token <= issued
    /\ read = [c \in Proofs!Claims |-> read[c]]

\* No two requests overlap, and what was loaded is what is there.
LoadedIsCurrent ==
    ~overlapped =>
        \A p \in Requests :
            proofTxn[p] # Proofs!Idle =>
                /\ proofTxn[p].agent = provenAgent
                /\ \A q \in Requests : q # p => proofTxn[q] = Proofs!Idle
                /\ proofTxn[p].kind = "verify" =>
                       proofTxn[p].challenge = challenge[proofTxn[p].claim]

\* A verification that found its token has read it.
FoundIsRead ==
    \A p \in Requests :
        proofTxn[p].kind = "verify" /\ proofTxn[p].found =>
            proofTxn[p].challenge.token \in read[proofTxn[p].claim]

ProofInv ==
    /\ ProofRows /\ LoadedIsCurrent /\ FoundIsRead
    /\ Proofs!TierFollowsProof /\ Proofs!ProvenByToken

LEMMA NoClaimIsNone ==
    /\ Proofs!None \notin Proofs!Claims /\ Proofs!Claims = Domains \cup Logins
    /\ \A c : c \in Domains => c \notin Logins
BY MarketplaceAssumption DEF Proofs!AgentProofsAssumption, Proofs!Claims

LEMMA KindsOfRequests ==
    ASSUME ProofInv, NEW p \in Requests
    PROVE  /\ \/ proofTxn[p] = Proofs!Idle /\ proofTxn[p].kind = "none"
              \/ proofTxn[p] \in Verification /\ proofTxn[p].kind = "verify"
              \/ proofTxn[p] \in SiteChange /\ proofTxn[p].kind = "update"
           /\ proofTxn[p].kind # "none" => proofTxn[p] # Proofs!Idle
<1>1. proofTxn[p] \in {Proofs!Idle} \cup Verification \cup SiteChange
  BY DEF ProofInv, ProofRows
<1>2. QED
  BY <1>1 DEF Verification, SiteChange, Proofs!Idle

LEMMA ProofStart == ASSUME Proofs!Init PROVE ProofInv
<1>1. /\ provenAgent \in Proofs!Agent /\ provenAgent.domain = Proofs!None
      /\ provenAgent.github = Proofs!None /\ provenAgent.tier = "unverified" /\ ~provenAgent.dated
  BY DEF Proofs!Init, Proofs!Agent, Proofs!Tiers
<1>2. challenge \in [Proofs!Claims -> Proofs!Challenge]
      /\ \A c \in Proofs!Claims : challenge[c].token = 0 /\ ~challenge[c].verified
  BY MarketplaceAssumption
     DEF Proofs!Init, Proofs!Challenge, Proofs!AgentProofsAssumption
<1>3. Proofs!TypeOK
  BY <1>1, <1>2 DEF Proofs!Init, Proofs!TypeOK, Proofs!AgentChecks
<1>4. ProofRows
  BY <1>2, <1>3, MarketplaceAssumption
     DEF Proofs!Init, ProofRows, Proofs!AgentProofsAssumption
<1>5. \A p \in Requests : proofTxn[p] = Proofs!Idle /\ proofTxn[p].kind = "none"
  BY DEF Proofs!Init, Proofs!Idle
<1>6. LoadedIsCurrent /\ FoundIsRead
  BY <1>5 DEF LoadedIsCurrent, FoundIsRead
<1>7. Proofs!TierFollowsProof /\ Proofs!ProvenByToken
  BY <1>1, <1>2, NoClaimIsNone DEF Proofs!TierFollowsProof, Proofs!ProvenByToken
<1>8. QED
  BY <1>4, <1>6, <1>7 DEF ProofInv

LEMMA ChallengeIssued ==
    ASSUME ProofInv, NEW c \in Proofs!Claims, Proofs!IssueChallenge(c)
    PROVE  ProofInv'
<1>. DEFINE new == Proofs!Reissued(c)
<1>1. /\ issued < MaxIssued /\ issued' = issued + 1
      /\ challenge' = [challenge EXCEPT ![c] = new]
      /\ overlapped' = (overlapped \/ \E q \in Requests : Proofs!Verifying(q, c))
      /\ UNCHANGED <<provenAgent, shown, proofTxn, sites, read>>
  BY DEF Proofs!IssueChallenge
<1>2. /\ challenge \in [Proofs!Claims -> Proofs!Challenge] /\ issued \in 0 .. MaxIssued
      /\ MaxIssued \in Nat /\ challenge[c].token <= issued /\ challenge[c] \in Proofs!Challenge
      /\ \A d \in Proofs!Claims : challenge[d].token <= issued /\ challenge[d].token \in Nat
  BY MarketplaceAssumption
     DEF ProofInv, ProofRows, Proofs!TypeOK, Proofs!AgentProofsAssumption, Proofs!Challenge
<1>3. new \in Proofs!Challenge /\ new.token = challenge[c].token + 1 /\ ~new.verified
      /\ challenge[c].token \in Nat
  BY <1>1, <1>2 DEF Proofs!Reissued, Proofs!Challenge
<1>. HIDE DEF new
<1>4. ProofRows'
  <2>1. challenge' \in [Proofs!Claims -> Proofs!Challenge] /\ issued' \in 0 .. MaxIssued
        /\ \A d \in Proofs!Claims : challenge'[d].token <= issued'
                                   /\ challenge[d].token <= challenge'[d].token
                                   /\ challenge'[d].token \in Nat
    BY <1>1, <1>2, <1>3
  <2>2. \A d \in Proofs!Claims : shown[d] \in Nat /\ shown[d] <= challenge[d].token
    BY DEF ProofInv, ProofRows, Proofs!TypeOK
  <2>3. \A d \in Proofs!Claims : shown'[d] <= challenge'[d].token
    BY <1>1, <1>2, <2>1, <2>2
  <2>4. QED
    BY <1>1, <2>1, <2>3 DEF ProofInv, ProofRows, Proofs!TypeOK
<1>5. LoadedIsCurrent'
  <2>1. ASSUME ~overlapped', NEW p \in Requests, proofTxn[p] # Proofs!Idle,
               proofTxn[p].kind = "verify"
        PROVE  proofTxn[p].claim # c
    BY <1>1, <2>1 DEF Proofs!Verifying
  <2>2. ASSUME ~overlapped', NEW p \in Requests, proofTxn[p] # Proofs!Idle
        PROVE  /\ proofTxn[p].agent = provenAgent
               /\ \A q \in Requests : q # p => proofTxn[q] = Proofs!Idle
               /\ proofTxn[p].kind = "verify" =>
                      proofTxn[p].challenge = challenge'[proofTxn[p].claim]
    <3>1. ~overlapped
      BY <1>1, <2>2
    <3>2. proofTxn[p].kind = "verify" => proofTxn[p].claim \in Proofs!Claims \ {c}
      BY <2>1, <2>2, KindsOfRequests DEF Verification
    <3>3. QED
      BY <1>1, <1>2, <2>2, <3>1, <3>2 DEF ProofInv, LoadedIsCurrent
  <2>3. QED
    BY <1>1, <2>2 DEF LoadedIsCurrent
<1>6. FoundIsRead'
  BY <1>1 DEF ProofInv, FoundIsRead
<1>7. Proofs!TierFollowsProof'
  BY <1>1 DEF ProofInv, Proofs!TierFollowsProof
<1>8. Proofs!ProvenByToken'
  <2>1. \A d \in Proofs!Claims : challenge'[d].verified => challenge'[d] = challenge[d]
    BY <1>1, <1>2, <1>3
  <2>2. QED
    BY <1>1, <2>1 DEF ProofInv, Proofs!ProvenByToken
<1>9. QED
  BY <1>4, <1>5, <1>6, <1>7, <1>8 DEF ProofInv

LEMMA TokenMoves ==
    ASSUME ProofInv, NEW c \in Proofs!Claims,
           Proofs!ShowToken(c) \/ Proofs!HideToken(c)
    PROVE  ProofInv'
<1>1. /\ shown' \in {[shown EXCEPT ![c] = challenge[c].token], [shown EXCEPT ![c] = 0]}
      /\ UNCHANGED <<provenAgent, challenge, proofTxn, issued, sites, overlapped, read>>
  BY DEF Proofs!ShowToken, Proofs!HideToken
<1>2. \A d \in Proofs!Claims : challenge[d].token \in Nat
  BY MarketplaceAssumption
     DEF ProofInv, ProofRows, Proofs!TypeOK, Proofs!AgentProofsAssumption, Proofs!Challenge
<1>3. shown' \in [Proofs!Claims -> Nat]
      /\ \A d \in Proofs!Claims : shown'[d] <= challenge[d].token
  BY <1>1, <1>2 DEF ProofInv, ProofRows, Proofs!TypeOK
<1>4. ProofRows'
  BY <1>1, <1>3 DEF ProofInv, ProofRows, Proofs!TypeOK
<1>5. QED
  BY <1>1, <1>4
     DEF ProofInv, LoadedIsCurrent, FoundIsRead, Proofs!TierFollowsProof, Proofs!ProvenByToken

\* A request begins: if another is open, they overlap.
LEMMA ProofRequestBegins ==
    ASSUME ProofInv, NEW p \in Requests, NEW t, proofTxn[p] = Proofs!Idle,
           \/ /\ t \in Verification /\ t.challenge = challenge[t.claim] /\ ~t.found
              /\ t.kind = "verify"
           \/ t \in SiteChange /\ t.kind = "update",
           t.agent = provenAgent,
           proofTxn' = [proofTxn EXCEPT ![p] = t],
           overlapped' = (overlapped \/ \E q \in Requests : Proofs!Writing(q)),
           UNCHANGED <<provenAgent, challenge, shown, issued, read>>
    PROVE  ProofInv'
<1>1. /\ proofTxn'[p] = t /\ \A q \in Requests : q # p => proofTxn'[q] = proofTxn[q]
      /\ proofTxn' \in [Requests -> {Proofs!Idle} \cup Verification \cup SiteChange]
  BY DEF ProofInv, ProofRows
<1>2. ProofRows'
  BY <1>1 DEF ProofInv, ProofRows, Proofs!TypeOK
<1>3. LoadedIsCurrent'
  BY <1>1 DEF ProofInv, LoadedIsCurrent, Proofs!Writing
<1>4. FoundIsRead'
  BY <1>1 DEF ProofInv, FoundIsRead
<1>5. QED
  BY <1>2, <1>3, <1>4 DEF ProofInv, Proofs!TierFollowsProof, Proofs!ProvenByToken

LEMMA ProofRequestStarts ==
    ASSUME ProofInv, NEW p \in Requests,
           \/ \E c \in Proofs!Claims : Proofs!StartVerify(p, c)
           \/ \E site \in Domains \cup {Proofs!None} : Proofs!StartUpdate(p, site)
    PROVE  ProofInv'
<1>1. provenAgent \in Proofs!Agent /\ challenge \in [Proofs!Claims -> Proofs!Challenge]
  BY DEF ProofInv, ProofRows, Proofs!TypeOK
<1>2. ASSUME NEW c \in Proofs!Claims, Proofs!StartVerify(p, c) PROVE ProofInv'
  <2>. DEFINE t == [kind |-> "verify", claim |-> c, agent |-> provenAgent,
                    challenge |-> challenge[c], found |-> FALSE]
  <2>1. t \in Verification
    BY <1>1 DEF Verification
  <2>2. QED
    BY <1>2, <2>1, ProofRequestBegins DEF Proofs!StartVerify
<1>3. ASSUME NEW site \in Domains \cup {Proofs!None}, Proofs!StartUpdate(p, site)
      PROVE  ProofInv'
  <2>. DEFINE t == [kind |-> "update", agent |-> provenAgent, site |-> site]
  <2>1. t \in SiteChange
    BY <1>1 DEF SiteChange
  <2>2. QED
    BY <1>3, <2>1, ProofRequestBegins DEF Proofs!StartUpdate
<1>4. QED
  BY <1>2, <1>3

LEMMA TokenSeen ==
    ASSUME ProofInv, NEW p \in Requests, Proofs!Look(p)
    PROVE  ProofInv'
<1>. DEFINE t == proofTxn[p]
            c == t.claim
<1>1. /\ t.kind = "verify" /\ shown[c] = t.challenge.token
      /\ proofTxn' = [proofTxn EXCEPT ![p].found = TRUE]
      /\ read' = [read EXCEPT ![c] = @ \cup {shown[c]}]
      /\ UNCHANGED <<provenAgent, challenge, shown, issued, sites, overlapped>>
  BY DEF Proofs!Look, Proofs!Observed
<1>2. t \in Verification
  BY <1>1, KindsOfRequests
<1>3. /\ c \in Proofs!Claims /\ [t EXCEPT !.found = TRUE] \in Verification
      /\ [t EXCEPT !.found = TRUE].agent = t.agent
      /\ [t EXCEPT !.found = TRUE].challenge = t.challenge
      /\ [t EXCEPT !.found = TRUE].claim = c
      /\ [t EXCEPT !.found = TRUE].kind = "verify"
  BY <1>2 DEF Verification
<1>4. /\ proofTxn'[p] = [t EXCEPT !.found = TRUE]
      /\ \A q \in Requests : q # p => proofTxn'[q] = proofTxn[q]
      /\ proofTxn' \in [Requests -> {Proofs!Idle} \cup Verification \cup SiteChange]
  BY <1>1, <1>3 DEF ProofInv, ProofRows
<1>. DEFINE u == proofTxn'[p]
<1>5. /\ t # Proofs!Idle /\ u.agent = t.agent /\ u.challenge = t.challenge
      /\ u.claim = c /\ u.kind = "verify"
  BY <1>1, <1>3, <1>4, KindsOfRequests
<1>6. /\ read' = [d \in Proofs!Claims |-> read'[d]]
      /\ \A d \in Proofs!Claims : read[d] \subseteq read'[d]
      /\ t.challenge.token \in read'[c]
  <2>1. read = [d \in Proofs!Claims |-> read[d]]
    BY DEF ProofInv, ProofRows
  <2>2. QED
    BY <1>1, <1>3, <2>1
<1>. HIDE DEF t, c, u
<1>7. ProofRows'
  BY <1>1, <1>4, <1>6 DEF ProofInv, ProofRows, Proofs!TypeOK
<1>8. LoadedIsCurrent'
  <2>1. SUFFICES ASSUME ~overlapped, NEW q \in Requests, proofTxn'[q] # Proofs!Idle
                 PROVE  /\ proofTxn'[q].agent = provenAgent
                        /\ \A r \in Requests : r # q => proofTxn'[r] = Proofs!Idle
                        /\ proofTxn'[q].kind = "verify" =>
                               proofTxn'[q].challenge = challenge[proofTxn'[q].claim]
    BY <1>1 DEF LoadedIsCurrent
  <2>2. q = p
    BY <1>4, <1>5, <2>1 DEF ProofInv, LoadedIsCurrent, t
  <2>3. /\ t.agent = provenAgent /\ t.challenge = challenge[c]
        /\ \A r \in Requests : r # p => proofTxn[r] = Proofs!Idle
    BY <1>1, <1>5, <2>1 DEF ProofInv, LoadedIsCurrent, t, c
  <2>4. QED
    BY <1>4, <1>5, <2>2, <2>3 DEF u
<1>9. FoundIsRead'
  <2>1. SUFFICES ASSUME NEW q \in Requests, proofTxn'[q].kind = "verify", proofTxn'[q].found
                 PROVE  proofTxn'[q].challenge.token \in read'[proofTxn'[q].claim]
    BY DEF FoundIsRead
  <2>2. CASE q = p
    BY <1>5, <1>6, <2>2 DEF u
  <2>3. CASE q # p
    <3>1. proofTxn'[q] = proofTxn[q]
      BY <1>4, <2>3
    <3>2. proofTxn[q] \in Verification
      BY <2>1, <3>1, KindsOfRequests
    <3>3. proofTxn[q].claim \in Proofs!Claims
      BY <3>2 DEF Verification
    <3>4. QED
      BY <1>6, <2>1, <3>1, <3>3 DEF ProofInv, FoundIsRead
  <2>4. QED
    BY <2>2, <2>3
<1>10. QED
  BY <1>1, <1>6, <1>7, <1>8, <1>9
     DEF ProofInv, Proofs!TierFollowsProof, Proofs!ProvenByToken

\* A request that ends leaves the others as they were.
LEMMA ProofRequestEnds ==
    ASSUME ProofInv, NEW p \in Requests, proofTxn[p] # Proofs!Idle,
           proofTxn' = [proofTxn EXCEPT ![p] = Proofs!Idle],
           UNCHANGED <<shown, issued, overlapped, read>>
    PROVE  /\ proofTxn' \in [Requests -> {Proofs!Idle} \cup Verification \cup SiteChange]
           /\ LoadedIsCurrent' /\ FoundIsRead'
<1>1. /\ proofTxn'[p] = Proofs!Idle /\ \A q \in Requests : q # p => proofTxn'[q] = proofTxn[q]
      /\ proofTxn' \in [Requests -> {Proofs!Idle} \cup Verification \cup SiteChange]
  BY DEF ProofInv, ProofRows
<1>2. LoadedIsCurrent'
  <2>1. ~overlapped => \A q \in Requests : proofTxn'[q] = Proofs!Idle
    BY <1>1 DEF ProofInv, LoadedIsCurrent
  <2>2. QED
    BY <2>1 DEF LoadedIsCurrent
<1>3. Proofs!Idle.kind = "none"
  BY DEF Proofs!Idle
<1>4. FoundIsRead'
  BY <1>1, <1>3 DEF ProofInv, FoundIsRead
<1>5. QED
  BY <1>1, <1>2, <1>4

\* The columns of the agent's row after an update.
LEMMA AgentUpdated ==
    ASSUME NEW a \in Proofs!Agent, NEW l, NEW new \in Proofs!Agent, NEW dates,
           NEW after, after = Proofs!Written(a, l, new, dates)
    PROVE  /\ after \in Proofs!Agent
           /\ \A col \in {"site", "domain", "dated", "tier", "github"} :
                 after[col] = IF new[col] # l[col] \/ col \in dates THEN new[col] ELSE a[col]
<1>. DEFINE columns == {"site", "domain", "dated", "tier", "github"}
<1>1. DOMAIN a = columns
  BY DEF Proofs!Agent
<1>2. after = [col \in columns |->
                  IF new[col] # l[col] \/ col \in dates THEN new[col] ELSE a[col]]
  BY <1>1 DEF Proofs!Written
<1>3. after = [site |-> after["site"], domain |-> after["domain"], dated |-> after["dated"],
               tier |-> after["tier"], github |-> after["github"]]
  BY <1>2
<1>4. /\ \A col \in columns : after[col] \in {new[col], a[col]}
  BY <1>2
<1>5. after \in Proofs!Agent
  BY <1>3, <1>4 DEF Proofs!Agent
<1>6. QED
  BY <1>2, <1>5

LEMMA VerificationCommitted ==
    ASSUME ProofInv, NEW p \in Requests, Proofs!CommitVerify(p)
    PROVE  ProofInv' /\ provenAgent'.site = provenAgent.site
<1>. DEFINE t == proofTxn[p]
            c == t.claim
            new == Proofs!Proven(t.agent, c)
            dates == IF c \in Domains THEN {"dated"} ELSE {}
<1>1. /\ t.kind = "verify" /\ t.found
      /\ provenAgent' = Proofs!Written(provenAgent, t.agent, new, dates)
      /\ Proofs!AgentChecks(provenAgent')
      /\ challenge' = [challenge EXCEPT ![c] =
              Proofs!Written(@, t.challenge, [t.challenge EXCEPT !.verified = TRUE], {"verified"})]
      /\ proofTxn' = [proofTxn EXCEPT ![p] = Proofs!Idle]
      /\ UNCHANGED <<shown, issued, sites, overlapped, read>>
  BY DEF Proofs!CommitVerify
<1>2. t \in Verification /\ t # Proofs!Idle
  BY <1>1, KindsOfRequests
<1>3. c \in Proofs!Claims /\ t.agent \in Proofs!Agent /\ t.challenge \in Proofs!Challenge
      /\ (c \in Domains <=> c \notin Logins)
  BY <1>2, NoClaimIsNone DEF Verification
<1>4. provenAgent \in Proofs!Agent /\ Proofs!AgentChecks(provenAgent)
      /\ challenge \in [Proofs!Claims -> Proofs!Challenge]
  BY DEF ProofInv, ProofRows, Proofs!TypeOK
<1>5. t.challenge.token \in read[c]
  BY <1>1 DEF ProofInv, FoundIsRead
<1>6. ~overlapped => t.agent = provenAgent /\ t.challenge = challenge[c]
  BY <1>1, <1>2 DEF ProofInv, LoadedIsCurrent
<1>. HIDE DEF t, c
<1>7. /\ new \in Proofs!Agent
      /\ IF c \in Domains
         THEN /\ new.domain = c /\ new.tier = "domain_verified" /\ new.site = t.agent.site
              /\ new.github = t.agent.github
         ELSE /\ new.github = c /\ new.domain = t.agent.domain /\ new.tier = t.agent.tier
              /\ new.site = t.agent.site
  <2>1. new = IF c \in Domains
              THEN [t.agent EXCEPT !.domain = c, !.dated = TRUE, !.tier = "domain_verified"]
              ELSE [t.agent EXCEPT !.github = c]
    BY <1>3 DEF Proofs!Proven
  <2>2. c \in Domains \cup Logins
    BY <1>3, NoClaimIsNone
  <2>3. QED
    BY <1>3, <2>1, <2>2 DEF Proofs!Agent, Proofs!Tiers
<1>. HIDE DEF new
<1>8. /\ provenAgent' \in Proofs!Agent
      /\ \A col \in {"site", "domain", "dated", "tier", "github"} :
            provenAgent'[col] = IF new[col] # t.agent[col] \/ col \in dates
                                THEN new[col] ELSE provenAgent[col]
  BY <1>1, <1>4, <1>7, AgentUpdated
<1>9. /\ provenAgent'.site = provenAgent.site
      /\ provenAgent'.domain \in {c, provenAgent.domain}
      /\ provenAgent'.github \in {c, provenAgent.github}
      /\ c \in Logins => provenAgent'.domain = provenAgent.domain
                         /\ provenAgent'.tier = provenAgent.tier
  BY <1>3, <1>7, <1>8
<1>10. /\ challenge'[c] \in Proofs!Challenge /\ challenge'[c].token = challenge[c].token
       /\ challenge' \in [Proofs!Claims -> Proofs!Challenge]
       /\ \A d \in Proofs!Claims : challenge'[d].token = challenge[d].token
       /\ \A d \in Proofs!Claims : d # c => challenge'[d] = challenge[d]
  <2>. DEFINE row == Proofs!Written(challenge[c], t.challenge,
                                    [t.challenge EXCEPT !.verified = TRUE], {"verified"})
  <2>1. challenge[c] \in Proofs!Challenge /\ DOMAIN challenge[c] = {"token", "verified"}
    BY <1>3, <1>4 DEF Proofs!Challenge
  <2>2. row = [col \in {"token", "verified"} |->
                  IF [t.challenge EXCEPT !.verified = TRUE][col] # t.challenge[col]
                     \/ col \in {"verified"}
                  THEN [t.challenge EXCEPT !.verified = TRUE][col] ELSE challenge[c][col]]
    BY <2>1 DEF Proofs!Written
  <2>3. row["token"] = challenge[c].token /\ row["verified"] = TRUE
    BY <1>3, <2>1, <2>2 DEF Proofs!Challenge
  <2>4. row = [token |-> challenge[c].token, verified |-> TRUE]
    BY <2>2, <2>3
  <2>5. [token |-> challenge[c].token, verified |-> TRUE] \in Proofs!Challenge
    BY <2>1 DEF Proofs!Challenge
  <2>6. challenge' = [challenge EXCEPT ![c] = row]
    BY <1>1 DEF t, c
  <2>. HIDE DEF row
  <2>7. QED
    BY <1>3, <1>4, <2>3, <2>4, <2>5, <2>6
<1>11. ProofRows'
  BY <1>1, <1>2, <1>8, <1>10, ProofRequestEnds
     DEF ProofInv, ProofRows, Proofs!TypeOK, t
<1>12. LoadedIsCurrent' /\ FoundIsRead'
  BY <1>1, <1>2, ProofRequestEnds DEF t
<1>13. Proofs!TierFollowsProof'
  <2>1. SUFFICES ASSUME ~overlapped
                 PROVE  provenAgent'.tier # "unverified" <=> provenAgent'.domain # Proofs!None
    BY <1>1 DEF Proofs!TierFollowsProof
  <2>2. CASE c \in Domains
    <3>1. provenAgent'.domain = c /\ provenAgent'.tier = "domain_verified"
      BY <1>6, <1>7, <1>8, <2>1, <2>2
    <3>2. QED
      BY <1>3, <3>1, NoClaimIsNone
  <2>3. CASE c \notin Domains
    BY <1>3, <1>9, <2>1, <2>3 DEF ProofInv, Proofs!TierFollowsProof
  <2>4. QED
    BY <2>2, <2>3
<1>14. Proofs!ProvenByToken'
  <2>1. SUFFICES ASSUME NEW d \in Proofs!Claims
                 PROVE  /\ d \in {provenAgent'.domain, provenAgent'.github} => read[d] # {}
                        /\ ~overlapped /\ challenge'[d].verified => challenge'[d].token \in read[d]
    BY <1>1 DEF Proofs!ProvenByToken
  <2>2. d \in {provenAgent'.domain, provenAgent'.github} => read[d] # {}
    BY <1>5, <1>9, <2>1 DEF ProofInv, Proofs!ProvenByToken
  <2>3. ~overlapped /\ challenge'[d].verified => challenge'[d].token \in read[d]
    BY <1>3, <1>5, <1>6, <1>10, <2>1 DEF ProofInv, Proofs!ProvenByToken
  <2>4. QED
    BY <2>2, <2>3
<1>15. QED
  BY <1>9, <1>11, <1>12, <1>13, <1>14 DEF ProofInv

LEMMA SiteChangeCommitted ==
    ASSUME ProofInv, NEW p \in Requests, Proofs!CommitUpdate(p)
    PROVE  ProofInv' /\ Proofs!ProofEndsWithSite
<1>. DEFINE t == proofTxn[p]
            new == Proofs!Moved(t.agent, t.site)
<1>1. /\ t.kind = "update"
      /\ provenAgent' = Proofs!Written(provenAgent, t.agent, new, {})
      /\ Proofs!AgentChecks(provenAgent')
      /\ proofTxn' = [proofTxn EXCEPT ![p] = Proofs!Idle]
      /\ UNCHANGED <<challenge, shown, issued, sites, overlapped, read>>
  BY DEF Proofs!CommitUpdate
<1>2. t \in SiteChange /\ t # Proofs!Idle
  BY <1>1, KindsOfRequests
<1>3. t.agent \in Proofs!Agent /\ t.site \in Domains \cup {Proofs!None}
  BY <1>2 DEF SiteChange
<1>4. provenAgent \in Proofs!Agent /\ Proofs!AgentChecks(provenAgent)
  BY DEF ProofInv, ProofRows, Proofs!TypeOK
<1>5. ~overlapped => t.agent = provenAgent
  BY <1>1, <1>2 DEF ProofInv, LoadedIsCurrent
<1>. HIDE DEF t
<1>6. /\ new \in Proofs!Agent /\ new.site = t.site /\ new.github = t.agent.github
      /\ new.domain \in {Proofs!None, t.agent.domain}
      /\ new.domain \in {Proofs!None, t.site}
      /\ IF t.agent.domain \in {Proofs!None, t.site}
         THEN new.domain = t.agent.domain /\ new.tier = t.agent.tier
         ELSE new.domain = Proofs!None /\ new.tier = "unverified"
  BY <1>3 DEF Proofs!Moved, Proofs!Agent, Proofs!Tiers
<1>. HIDE DEF new
<1>7. /\ provenAgent' \in Proofs!Agent
      /\ \A col \in {"site", "domain", "dated", "tier", "github"} :
            provenAgent'[col] = IF new[col] # t.agent[col] \/ col \in {}
                                THEN new[col] ELSE provenAgent[col]
  BY <1>1, <1>4, <1>6, AgentUpdated
<1>8. /\ provenAgent'.domain \in {Proofs!None, provenAgent.domain}
      /\ provenAgent'.github = provenAgent.github
      /\ ~overlapped => provenAgent'.domain = new.domain /\ provenAgent'.tier = new.tier
                        /\ provenAgent'.site = new.site
  BY <1>5, <1>6, <1>7
<1>9. ProofRows'
  BY <1>1, <1>2, <1>7, ProofRequestEnds DEF ProofInv, ProofRows, Proofs!TypeOK, t
<1>10. LoadedIsCurrent' /\ FoundIsRead'
  BY <1>1, <1>2, ProofRequestEnds DEF t
<1>11. Proofs!TierFollowsProof'
  BY <1>1, <1>5, <1>6, <1>8 DEF ProofInv, Proofs!TierFollowsProof
<1>12. Proofs!ProvenByToken'
  <2>1. \A d \in Proofs!Claims : d \in {provenAgent'.domain, provenAgent'.github}
                                 => d \in {provenAgent.domain, provenAgent.github}
    BY <1>8, NoClaimIsNone
  <2>2. QED
    BY <1>1, <2>1 DEF ProofInv, Proofs!ProvenByToken
<1>13. Proofs!ProofEndsWithSite
  BY <1>6, <1>8 DEF Proofs!ProofEndsWithSite
<1>14. QED
  BY <1>9, <1>10, <1>11, <1>12, <1>13 DEF ProofInv

LEMMA ProofStep ==
    ASSUME ProofInv, [Proofs!Next]_proofVars
    PROVE  ProofInv' /\ Proofs!ProofEndsWithSite
<1>1. ASSUME NEW c \in Proofs!Claims,
             Proofs!IssueChallenge(c) \/ Proofs!ShowToken(c) \/ Proofs!HideToken(c)
      PROVE  ProofInv' /\ Proofs!ProofEndsWithSite
  <2>1. provenAgent' = provenAgent
    BY <1>1 DEF Proofs!IssueChallenge, Proofs!ShowToken, Proofs!HideToken
  <2>2. QED
    BY <1>1, <2>1, ChallengeIssued, TokenMoves DEF Proofs!ProofEndsWithSite
<1>2. ASSUME NEW p \in Requests,
             \/ \E c \in Proofs!Claims : Proofs!StartVerify(p, c)
             \/ \E site \in Domains \cup {Proofs!None} : Proofs!StartUpdate(p, site)
      PROVE  ProofInv' /\ Proofs!ProofEndsWithSite
  <2>1. provenAgent' = provenAgent
    BY <1>2 DEF Proofs!StartVerify, Proofs!StartUpdate
  <2>2. QED
    BY <1>2, <2>1, ProofRequestStarts DEF Proofs!ProofEndsWithSite
<1>3. ASSUME NEW p \in Requests, Proofs!Look(p)
      PROVE  ProofInv' /\ Proofs!ProofEndsWithSite
  BY <1>3, TokenSeen DEF Proofs!Look, Proofs!ProofEndsWithSite
<1>4. ASSUME NEW p \in Requests, Proofs!CommitVerify(p)
      PROVE  ProofInv' /\ Proofs!ProofEndsWithSite
  BY <1>4, VerificationCommitted DEF Proofs!ProofEndsWithSite
<1>5. ASSUME NEW p \in Requests, Proofs!CommitUpdate(p)
      PROVE  ProofInv' /\ Proofs!ProofEndsWithSite
  BY <1>5, SiteChangeCommitted
<1>6. ASSUME NEW p \in Requests, Proofs!Fail(p)
      PROVE  ProofInv' /\ Proofs!ProofEndsWithSite
  <2>1. /\ proofTxn[p] # Proofs!Idle /\ proofTxn' = [proofTxn EXCEPT ![p] = Proofs!Idle]
        /\ UNCHANGED <<provenAgent, challenge, shown, issued, sites, overlapped, read>>
    BY <1>6 DEF Proofs!Fail
  <2>2. ProofRows'
    BY <2>1, ProofRequestEnds DEF ProofInv, ProofRows, Proofs!TypeOK
  <2>3. QED
    BY <2>1, <2>2, ProofRequestEnds
       DEF ProofInv, Proofs!TierFollowsProof, Proofs!ProvenByToken, Proofs!ProofEndsWithSite
<1>7. CASE UNCHANGED proofVars
  BY <1>7
     DEF proofVars, ProofInv, ProofRows, Proofs!TypeOK, LoadedIsCurrent, FoundIsRead,
         Proofs!TierFollowsProof, Proofs!ProvenByToken, Proofs!ProofEndsWithSite
<1>8. QED
  BY <1>1, <1>2, <1>3, <1>4, <1>5, <1>6, <1>7 DEF Proofs!Next
-----------------------------------------------------------------------------
(* The catalogue.  That an order has one moment's terms rests on what the  *)
(* placement loaded having been published; that orders are counted, on the *)
(* count of a row changing in placements only: an edit that was loaded     *)
(* before an order was placed sends every column but that one.             *)

AgentRow == [status : Shop!AgentStatus, payout : Wallets \cup {Shop!NoWallet}]
ServiceRow ==
    [model : {"fixed", "negotiated"}, price : Quotes \cup {0}, hours : Hours \cup {0},
     release : ReleaseHours, status : Shop!ServiceStatus, count : Nat]
PlacedRow ==
    [status : {"pending", "closed"}, price : Quotes, hours : Hours \cup {0},
     release : ReleaseHours]
EditRequest ==
    [kind : {"edit"}, agent : AgentRow, service : ServiceRow, newAgent : AgentRow,
     newService : ServiceRow]
Placement ==
    [kind : {"order"}, order : OrderIds, named : Quotes \cup {0}, service : ServiceRow,
     ready : BOOLEAN]

PlacedIds == {o \in OrderIds : orders[o] # Shop!NoOrder}
Placing(p) == shopTxn[p].kind = "order"

ShopRows ==
    /\ shopAgent \in AgentRow /\ Shop!AgentChecks(shopAgent)
    /\ shopService \in ServiceRow /\ Shop!Coherent(shopService)
    /\ shopTxn \in [Requests -> {Shop!Idle} \cup EditRequest \cup Placement]
    /\ orders \in [OrderIds -> {Shop!NoOrder} \cup PlacedRow]
    /\ instructed = [o \in OrderIds |-> instructed[o]]
    /\ crossed \in BOOLEAN

\* No edit sends the count, and none takes a service back to where it began.
EditsLeaveCount ==
    \A p \in Requests :
        shopTxn[p].kind = "edit" =>
            /\ shopTxn[p].newService.count = shopTxn[p].service.count
            /\ shopTxn[p].newService.status = "none" => shopTxn[p].service.status = "none"

NothingBeforeCreation ==
    shopService.status = "none" =>
        shopService.count = 0 /\ \A p \in Requests : ~Placing(p)

\* A placement is of an order nobody else places, at terms that were published.
PlacementsSound ==
    \A p \in Requests :
        Placing(p) =>
            /\ orders[shopTxn[p].order] = Shop!NoOrder
            /\ \A q \in Requests \ {p} : Placing(q) => shopTxn[q].order # shopTxn[p].order
            /\ Shop!UnitPrice(shopTxn[p].service, shopTxn[p].named) # 0
            /\ Shop!TermsOf(shopTxn[p].service) \in offered

PublishedIsOffered ==
    shopService.status = "published" => Shop!TermsOf(shopService) \in offered

CountsBehind ==
    /\ shopService.count <= Cardinality(PlacedIds)
    /\ \A p \in Requests : Placing(p) => shopTxn[p].service.count <= Cardinality(PlacedIds)

CountsExact ==
    ~crossed =>
        /\ shopService.count = Cardinality(PlacedIds)
        /\ \A p \in Requests :
              Placing(p) => /\ shopTxn[p].service.count = shopService.count
                            /\ \A q \in Requests \ {p} : ~Placing(q)

ToldOnce ==
    \A o \in OrderIds :
        /\ orders[o] = Shop!NoOrder => instructed[o] = {}
        /\ orders[o] # Shop!NoOrder /\ orders[o].hours # 0 =>
               instructed[o] \subseteq
                   {[delivery |-> orders[o].hours, release |-> orders[o].release]}

ShopInv ==
    /\ ShopRows /\ EditsLeaveCount /\ NothingBeforeCreation /\ PlacementsSound
    /\ PublishedIsOffered /\ CountsBehind /\ CountsExact /\ ToldOnce
    /\ Shop!OrderTermsOffered

LEMMA ShopConstants ==
    /\ IsFiniteSet(OrderIds) /\ Quotes # {} /\ DefaultHours \in Nat \ {0} /\ MaxBegun \in Nat
    /\ Quotes \subseteq Nat \ {0} /\ Hours \subseteq Nat \ {0} /\ ReleaseHours \subseteq Nat \ {0}
<1>1. Shop!IsFiniteSet(OrderIds) = IsFiniteSet(OrderIds)
  BY DEF Shop!IsFiniteSet, IsFiniteSet
<1>2. QED
  BY <1>1, MarketplaceAssumption DEF Shop!CatalogueAssumption

LEMMA ShopCardinality == ASSUME NEW S PROVE Shop!Cardinality(S) = Cardinality(S)
BY DEF Shop!Cardinality, Cardinality

LEMMA KindsOfShopRequests ==
    ASSUME ShopInv, NEW p \in Requests
    PROVE  \/ shopTxn[p] = Shop!Idle /\ shopTxn[p].kind = "none"
           \/ shopTxn[p] \in EditRequest /\ shopTxn[p].kind = "edit"
           \/ shopTxn[p] \in Placement /\ shopTxn[p].kind = "order"
<1>1. shopTxn[p] \in {Shop!Idle} \cup EditRequest \cup Placement
  BY DEF ShopInv, ShopRows
<1>2. QED
  BY <1>1 DEF EditRequest, Placement, Shop!Idle

LEMMA OrdersPlaced ==
    ASSUME ShopInv
    PROVE  /\ PlacedIds \subseteq OrderIds /\ IsFiniteSet(PlacedIds)
           /\ Cardinality(PlacedIds) \in 0 .. Cardinality(OrderIds)
           /\ Cardinality(OrderIds) \in Nat
<1>1. PlacedIds \subseteq OrderIds
  BY DEF PlacedIds
<1>2. IsFiniteSet(PlacedIds) /\ Cardinality(PlacedIds) <= Cardinality(OrderIds)
  BY <1>1, ShopConstants, FS_Subset
<1>3. Cardinality(PlacedIds) \in Nat /\ Cardinality(OrderIds) \in Nat
  BY <1>2, ShopConstants, FS_CardinalityType
<1>4. QED
  BY <1>1, <1>2, <1>3

\* The columns of a row after an update.
LEMMA ServiceUpdated ==
    ASSUME NEW a \in ServiceRow, NEW l, NEW new \in ServiceRow
    PROVE  /\ Shop!Written(a, l, new) \in ServiceRow
           /\ \A col \in {"model", "price", "hours", "release", "status", "count"} :
                 Shop!Written(a, l, new)[col] = IF new[col] # l[col] THEN new[col] ELSE a[col]
<1>. DEFINE columns == {"model", "price", "hours", "release", "status", "count"}
            after == Shop!Written(a, l, new)
<1>1. DOMAIN a = columns
  BY DEF ServiceRow
<1>2. after = [col \in columns |-> IF new[col] # l[col] THEN new[col] ELSE a[col]]
  BY <1>1 DEF Shop!Written
<1>. HIDE DEF after
<1>3. after = [model |-> after["model"], price |-> after["price"], hours |-> after["hours"],
               release |-> after["release"], status |-> after["status"],
               count |-> after["count"]]
  BY <1>2
<1>4. \A col \in columns : after[col] \in {new[col], a[col]}
  BY <1>2
<1>5. after \in ServiceRow
  BY <1>3, <1>4 DEF ServiceRow
<1>6. QED
  BY <1>2, <1>5 DEF after

LEMMA AgentRowUpdated ==
    ASSUME NEW a \in AgentRow, NEW l, NEW new \in AgentRow
    PROVE  Shop!Written(a, l, new) \in AgentRow
<1>. DEFINE after == Shop!Written(a, l, new)
<1>1. DOMAIN a = {"status", "payout"}
  BY DEF AgentRow
<1>2. after = [col \in {"status", "payout"} |-> IF new[col] # l[col] THEN new[col] ELSE a[col]]
  BY <1>1 DEF Shop!Written
<1>. HIDE DEF after
<1>3. after = [status |-> after["status"], payout |-> after["payout"]]
  BY <1>2
<1>4. \A col \in {"status", "payout"} : after[col] \in {new[col], a[col]}
  BY <1>2
<1>5. after \in AgentRow
  BY <1>3, <1>4 DEF AgentRow
<1>6. QED
  BY <1>5 DEF after

LEMMA TermsColumns ==
    ASSUME NEW row \in ServiceRow, NEW other \in ServiceRow
    PROVE  /\ row.model = other.model /\ row.price = other.price /\ row.hours = other.hours
              /\ row.release = other.release => Shop!TermsOf(row) = Shop!TermsOf(other)
           /\ Shop!TermsOf(row).model = row.model /\ Shop!TermsOf(row).price = row.price
           /\ Shop!TermsOf(row).hours = row.hours /\ Shop!TermsOf(row).release = row.release
           /\ Shop!TermsOf(row) \in Shop!Offer
<1>1. Shop!TermsOf(row) = [model |-> row.model, price |-> row.price, hours |-> row.hours,
                           release |-> row.release]
  BY DEF Shop!TermsOf, Shop!Terms
<1>2. Shop!TermsOf(other) = [model |-> other.model, price |-> other.price,
                             hours |-> other.hours, release |-> other.release]
  BY DEF Shop!TermsOf, Shop!Terms
<1>3. QED
  BY <1>1, <1>2 DEF ServiceRow, Shop!Offer

LEMMA ShopStart == ASSUME Shop!Init PROVE ShopInv
<1>1. PICK status \in {"none", "draft", "published"}, offer \in Shop!Offer :
          /\ Shop!Coherent(offer)
          /\ shopService = [c \in Shop!Terms \cup {"status", "count"} |->
                              IF c \in Shop!Terms THEN offer[c]
                              ELSE IF c = "status" THEN status ELSE 0]
          /\ offered = IF status = "published" THEN {offer} ELSE {}
  BY DEF Shop!Init
<1>2. /\ shopAgent \in AgentRow /\ Shop!AgentChecks(shopAgent)
      /\ orders = [o \in OrderIds |-> Shop!NoOrder]
      /\ shopTxn = [p \in Requests |-> Shop!Idle]
      /\ instructed = [o \in OrderIds |-> {}] /\ crossed = FALSE
  BY DEF Shop!Init, AgentRow
<1>3. /\ shopService["model"] = offer.model /\ shopService["price"] = offer.price
      /\ shopService["hours"] = offer.hours /\ shopService["release"] = offer.release
      /\ shopService["status"] = status /\ shopService["count"] = 0
      /\ shopService = [c \in {"model", "price", "hours", "release", "status", "count"} |->
                          shopService[c]]
  BY <1>1 DEF Shop!Terms
<1>4. shopService = [model |-> offer.model, price |-> offer.price, hours |-> offer.hours,
                     release |-> offer.release, status |-> status, count |-> 0]
  BY <1>3
<1>5. shopService \in ServiceRow
  BY <1>4 DEF Shop!Offer, ServiceRow, Shop!ServiceStatus
<1>6. Shop!Coherent(shopService)
  BY <1>1, <1>4 DEF Shop!Coherent
<1>7. Shop!TermsOf(shopService) = offer
  <2>1. offer = [model |-> offer.model, price |-> offer.price, hours |-> offer.hours,
                 release |-> offer.release]
    BY DEF Shop!Offer
  <2>2. QED
    BY <1>4, <2>1 DEF Shop!TermsOf, Shop!Terms
<1>8. \A p \in Requests : shopTxn[p].kind = "none"
  BY <1>2 DEF Shop!Idle
<1>9. PlacedIds = {} /\ Cardinality(PlacedIds) = 0
  <2>1. PlacedIds = {}
    BY <1>2 DEF PlacedIds
  <2>2. QED
    BY <2>1, FS_EmptySet
<1>10. ShopRows
  BY <1>2, <1>5, <1>6 DEF ShopRows
<1>11. EditsLeaveCount /\ NothingBeforeCreation /\ PlacementsSound
  BY <1>4, <1>8 DEF EditsLeaveCount, NothingBeforeCreation, PlacementsSound, Placing
<1>12. PublishedIsOffered
  BY <1>1, <1>4, <1>7 DEF PublishedIsOffered
<1>13. CountsBehind /\ CountsExact
  BY <1>4, <1>8, <1>9 DEF CountsBehind, CountsExact, Placing
<1>14. ToldOnce /\ Shop!OrderTermsOffered
  BY <1>2 DEF ToldOnce, Shop!OrderTermsOffered
<1>15. QED
  BY <1>10, <1>11, <1>12, <1>13, <1>14 DEF ShopInv

\* An edit is under way: nothing of it is in the rows yet.
LEMMA EditBegins ==
    ASSUME ShopInv, NEW p \in Requests, NEW newAgent \in AgentRow,
           NEW newService \in ServiceRow, newService.count = shopService.count,
           newService.status = "none" => shopService.status = "none",
           Shop!Begin(p, "edit", newAgent, newService)
    PROVE  ShopInv'
<1>. DEFINE t == [kind |-> "edit", agent |-> shopAgent, service |-> shopService,
                  newAgent |-> newAgent, newService |-> newService]
<1>1. /\ shopTxn[p] = Shop!Idle /\ shopTxn' = [shopTxn EXCEPT ![p] = t]
      /\ UNCHANGED <<shopAgent, shopService, orders, offered, instructed, crossed>>
  BY DEF Shop!Begin
<1>2. t \in EditRequest
  BY DEF ShopInv, ShopRows, EditRequest
<1>3. /\ shopTxn'[p] = t /\ \A q \in Requests : q # p => shopTxn'[q] = shopTxn[q]
      /\ shopTxn' \in [Requests -> {Shop!Idle} \cup EditRequest \cup Placement]
  BY <1>1, <1>2 DEF ShopInv, ShopRows
<1>4. ShopRows'
  BY <1>1, <1>3 DEF ShopInv, ShopRows
<1>5. EditsLeaveCount'
  BY <1>1, <1>3 DEF ShopInv, EditsLeaveCount
<1>6. /\ ~Placing(p)'
      /\ \A q \in Requests : q # p => (Placing(q)' <=> Placing(q))
  BY <1>3 DEF Placing
<1>7. PlacedIds' = PlacedIds
  BY <1>1 DEF PlacedIds
<1>8. NothingBeforeCreation' /\ PlacementsSound'
  BY <1>1, <1>3, <1>6 DEF ShopInv, NothingBeforeCreation, PlacementsSound
<1>9. CountsBehind' /\ CountsExact'
  BY <1>1, <1>3, <1>6, <1>7 DEF ShopInv, CountsBehind, CountsExact
<1>10. QED
  BY <1>1, <1>4, <1>5, <1>8, <1>9
     DEF ShopInv, PublishedIsOffered, ToldOnce, Shop!OrderTermsOffered

LEMMA ShopEdit == ASSUME ShopInv, NEW p \in Requests, Shop!Edit(p) PROVE ShopInv'
<1>1. shopAgent \in AgentRow /\ shopService \in ServiceRow
  BY DEF ShopInv, ShopRows
<1>2. ASSUME NEW newAgent \in AgentRow, Shop!OfAgent(p, newAgent) PROVE ShopInv'
  BY <1>1, <1>2, EditBegins DEF Shop!OfAgent
<1>3. ASSUME NEW newService \in ServiceRow, newService.count = shopService.count,
             newService.status # "none", Shop!OfService(p, newService)
      PROVE  ShopInv'
  BY <1>1, <1>3, EditBegins DEF Shop!OfService
<1>4. ASSUME NEW w \in Wallets, Shop!SetPayoutWallet(p, w) PROVE ShopInv'
  <2>1. [shopAgent EXCEPT !.payout = w] \in AgentRow
    BY <1>1 DEF AgentRow
  <2>2. QED
    BY <1>2, <1>4, <2>1 DEF Shop!SetPayoutWallet
<1>5. CASE Shop!PublishAgent(p) \/ Shop!PauseAgent(p) \/ Shop!RetireAgent(p)
  <2>1. \A status \in {"active", "paused", "retired"} :
            [shopAgent EXCEPT !.status = status] \in AgentRow
    BY <1>1 DEF AgentRow, Shop!AgentStatus
  <2>2. QED
    BY <1>2, <1>5, <2>1 DEF Shop!PublishAgent, Shop!PauseAgent, Shop!RetireAgent
<1>6. ASSUME NEW offer \in Shop!Offer, Shop!CreateService(p, offer) PROVE ShopInv'
  <2>. DEFINE new == [c \in DOMAIN shopService |-> IF c \in Shop!Terms THEN offer[c]
                                             ELSE IF c = "status" THEN "draft" ELSE 0]
  <2>1. shopService.status = "none" /\ Shop!OfService(p, new)
    BY <1>6 DEF Shop!CreateService
  <2>2. DOMAIN shopService = {"model", "price", "hours", "release", "status", "count"}
    BY <1>1 DEF ServiceRow
  <2>3. new = [model |-> offer.model, price |-> offer.price, hours |-> offer.hours,
               release |-> offer.release, status |-> "draft", count |-> 0]
    BY <2>2 DEF Shop!Terms
  <2>4. new \in ServiceRow /\ new.count = 0 /\ new.status = "draft"
    BY <2>3 DEF ServiceRow, Shop!Offer, Shop!ServiceStatus
  <2>5. shopService.count = 0
    BY <2>1 DEF ShopInv, NothingBeforeCreation
  <2>. HIDE DEF new
  <2>6. QED
    BY <1>3, <2>1, <2>4, <2>5
<1>7. ASSUME NEW offer \in Shop!Offer, Shop!UpdateService(p, offer) PROVE ShopInv'
  <2>. DEFINE new == [c \in DOMAIN shopService |-> IF c \in Shop!Terms THEN offer[c]
                                                 ELSE shopService[c]]
  <2>1. shopService.status # "none" /\ Shop!OfService(p, new)
    BY <1>7 DEF Shop!UpdateService
  <2>2. DOMAIN shopService = {"model", "price", "hours", "release", "status", "count"}
    BY <1>1 DEF ServiceRow
  <2>3. new = [model |-> offer.model, price |-> offer.price, hours |-> offer.hours,
               release |-> offer.release, status |-> shopService.status,
               count |-> shopService.count]
    BY <2>2 DEF Shop!Terms
  <2>4. new \in ServiceRow /\ new.count = shopService.count /\ new.status = shopService.status
    BY <1>1, <2>3 DEF ServiceRow, Shop!Offer
  <2>. HIDE DEF new
  <2>5. QED
    BY <1>3, <2>1, <2>4
<1>8. CASE \/ Shop!PublishService(p) \/ Shop!ArchiveService(p)
           \/ \E available \in BOOLEAN : Shop!SetAvailability(p, available)
  <2>1. \A status \in {"published", "unavailable", "archived"} :
            /\ [shopService EXCEPT !.status = status] \in ServiceRow
            /\ [shopService EXCEPT !.status = status].count = shopService.count
            /\ [shopService EXCEPT !.status = status].status # "none"
    BY <1>1 DEF ServiceRow, Shop!ServiceStatus
  <2>2. QED
    BY <1>3, <1>8, <2>1
       DEF Shop!PublishService, Shop!ArchiveService, Shop!SetAvailability
<1>9. QED
  BY <1>4, <1>5, <1>6, <1>7, <1>8 DEF Shop!Edit

\* An order is being placed: the service was published when it was loaded.
LEMMA PlacementBegins ==
    ASSUME ShopInv, NEW p \in Requests, NEW o \in OrderIds,
           NEW named \in Quotes \cup {0},
           Shop!LoadService(p, o, named)
    PROVE  ShopInv'
<1>. DEFINE t == [kind |-> "order", order |-> o, named |-> named, service |-> shopService,
                  ready |-> FALSE]
<1>1. /\ shopTxn[p] = Shop!Idle /\ orders[o] = Shop!NoOrder
      /\ \A q \in Requests : Placing(q) => shopTxn[q].order # o
      /\ shopService.status = "published" /\ Shop!UnitPrice(shopService, named) # 0
      /\ shopTxn' = [shopTxn EXCEPT ![p] = t]
      /\ crossed' = (crossed \/ \E q \in Requests : Placing(q))
      /\ UNCHANGED <<shopAgent, shopService, orders, offered, instructed>>
  BY DEF Shop!LoadService, Shop!TakesOrders, Placing
<1>2. t \in Placement
  BY DEF ShopInv, ShopRows, Placement
<1>3. /\ shopTxn'[p] = t /\ \A q \in Requests : q # p => shopTxn'[q] = shopTxn[q]
      /\ shopTxn' \in [Requests -> {Shop!Idle} \cup EditRequest \cup Placement]
  BY <1>1, <1>2 DEF ShopInv, ShopRows
<1>4. crossed' \in BOOLEAN
  BY <1>1 DEF ShopInv, ShopRows
<1>5. ShopRows'
  BY <1>1, <1>3, <1>4 DEF ShopInv, ShopRows
<1>6. EditsLeaveCount'
  BY <1>1, <1>3 DEF ShopInv, EditsLeaveCount
<1>7. /\ Placing(p)' /\ ~Placing(p)
      /\ \A q \in Requests : q # p => (Placing(q)' <=> Placing(q))
  BY <1>1, <1>3 DEF Placing, Shop!Idle
<1>8. NothingBeforeCreation'
  BY <1>1 DEF NothingBeforeCreation
<1>9. PlacementsSound'
  <2>1. Shop!TermsOf(shopService) \in offered
    BY <1>1 DEF ShopInv, PublishedIsOffered
  <2>2. SUFFICES ASSUME NEW q \in Requests, Placing(q)'
                 PROVE  /\ orders[shopTxn'[q].order] = Shop!NoOrder
                        /\ \A r \in Requests \ {q} :
                               Placing(r)' => shopTxn'[r].order # shopTxn'[q].order
                        /\ Shop!UnitPrice(shopTxn'[q].service, shopTxn'[q].named) # 0
                        /\ Shop!TermsOf(shopTxn'[q].service) \in offered
    BY <1>1 DEF PlacementsSound, Shop!UnitPrice, Shop!TermsOf
  <2>3. CASE q = p
    BY <1>1, <1>3, <1>7, <2>1, <2>3
  <2>4. CASE q # p
    BY <1>1, <1>3, <1>7, <2>2, <2>4 DEF ShopInv, PlacementsSound
  <2>5. QED
    BY <2>3, <2>4
<1>10. PlacedIds' = PlacedIds
  BY <1>1 DEF PlacedIds
<1>11. CountsBehind'
  BY <1>1, <1>3, <1>7, <1>10 DEF ShopInv, CountsBehind
<1>12. CountsExact'
  BY <1>1, <1>3, <1>7, <1>10 DEF ShopInv, CountsExact
<1>13. QED
  BY <1>1, <1>5, <1>6, <1>8, <1>9, <1>11, <1>12
     DEF ShopInv, PublishedIsOffered, ToldOnce, Shop!OrderTermsOffered

\* Requests go on or end, and the rows are as they were.
LEMMA ShopRowsLeft ==
    ASSUME ShopInv, NEW p \in Requests, NEW t,
           \/ t = Shop!Idle
           \/ t \in Placement /\ Placing(p) /\ t = [shopTxn[p] EXCEPT !.ready = TRUE],
           shopTxn' = [shopTxn EXCEPT ![p] = t],
           UNCHANGED <<shopAgent, shopService, orders, offered, instructed, crossed>>
    PROVE  ShopInv'
<1>1. /\ shopTxn'[p] = t /\ \A q \in Requests : q # p => shopTxn'[q] = shopTxn[q]
      /\ shopTxn' \in [Requests -> {Shop!Idle} \cup EditRequest \cup Placement]
  BY DEF ShopInv, ShopRows
<1>2. Placing(p)' => /\ Placing(p) /\ t.order = shopTxn[p].order /\ t.named = shopTxn[p].named
                     /\ t.service = shopTxn[p].service
  <2>1. Placing(p) => shopTxn[p] \in Placement
    BY KindsOfShopRequests DEF Placing
  <2>2. QED
    BY <1>1, <2>1 DEF Placing, Shop!Idle, Placement
<1>3. shopTxn'[p].kind # "edit"
  BY <1>1 DEF Shop!Idle, Placement
<1>4. \A q \in Requests : Placing(q)' =>
          /\ Placing(q) /\ shopTxn'[q].order = shopTxn[q].order
          /\ shopTxn'[q].named = shopTxn[q].named /\ shopTxn'[q].service = shopTxn[q].service
  BY <1>1, <1>2 DEF Placing
<1>5. ShopRows' /\ EditsLeaveCount'
  BY <1>1, <1>3 DEF ShopInv, ShopRows, EditsLeaveCount
<1>6. PlacedIds' = PlacedIds
  BY DEF PlacedIds
<1>7. NothingBeforeCreation' /\ CountsBehind' /\ CountsExact'
  BY <1>4, <1>6 DEF ShopInv, NothingBeforeCreation, CountsBehind, CountsExact
<1>8. PlacementsSound'
  BY <1>4 DEF ShopInv, PlacementsSound
<1>9. QED
  BY <1>5, <1>7, <1>8
     DEF ShopInv, PublishedIsOffered, ToldOnce, Shop!OrderTermsOffered

LEMMA ShopOrderPlaced ==
    ASSUME ShopInv, NEW p \in Requests, Shop!PlaceOrder(p)
    PROVE  ShopInv'
<1>. DEFINE t == shopTxn[p]
            o == t.order
            row == [status |-> "pending", price |-> Shop!UnitPrice(t.service, t.named),
                    hours |-> t.service.hours, release |-> t.service.release]
            new == Shop!Counted(t.service)
<1>1. /\ t.kind = "order"
      /\ orders' = [orders EXCEPT ![o] = row]
      /\ shopService' = Shop!Written(shopService, t.service, new)
      /\ shopTxn' = [shopTxn EXCEPT ![p] = Shop!Idle]
      /\ UNCHANGED <<shopAgent, offered, instructed, crossed>>
  BY DEF Shop!PlaceOrder
<1>2. t \in Placement
  BY <1>1, KindsOfShopRequests
<1>3. /\ o \in OrderIds /\ t.named \in Quotes \cup {0} /\ t.service \in ServiceRow
      /\ shopService \in ServiceRow
  BY <1>2 DEF Placement, ShopInv, ShopRows
<1>4. /\ orders[o] = Shop!NoOrder
      /\ \A q \in Requests \ {p} : Placing(q) => shopTxn[q].order # o
      /\ Shop!UnitPrice(t.service, t.named) # 0
      /\ Shop!TermsOf(t.service) \in offered
  BY <1>1 DEF ShopInv, PlacementsSound, Placing
<1>5. row \in PlacedRow
  BY <1>3, <1>4 DEF PlacedRow, Shop!UnitPrice, ServiceRow
<1>6. /\ new \in ServiceRow /\ new.count = t.service.count + 1 /\ new.model = t.service.model
      /\ new.price = t.service.price /\ new.hours = t.service.hours
      /\ new.release = t.service.release /\ new.status = t.service.status
  BY <1>3 DEF Shop!Counted, ServiceRow
<1>. HIDE DEF t, new, row
<1>7. /\ shopService' \in ServiceRow /\ shopService'.model = shopService.model
      /\ shopService'.price = shopService.price /\ shopService'.hours = shopService.hours
      /\ shopService'.release = shopService.release /\ shopService'.status = shopService.status
      /\ shopService'.count = t.service.count + 1
  <2>1. t.service.count + 1 # t.service.count
    BY <1>3 DEF ServiceRow
  <2>2. QED
    BY <1>1, <1>3, <1>6, <2>1, ServiceUpdated
<1>8. /\ shopTxn'[p] = Shop!Idle /\ \A q \in Requests : q # p => shopTxn'[q] = shopTxn[q]
      /\ shopTxn' \in [Requests -> {Shop!Idle} \cup EditRequest \cup Placement]
      /\ orders'[o] = row /\ \A x \in OrderIds : x # o => orders'[x] = orders[x]
      /\ orders' \in [OrderIds -> {Shop!NoOrder} \cup PlacedRow]
  BY <1>1, <1>3, <1>5 DEF ShopInv, ShopRows
<1>9. /\ ~Placing(p)' /\ Placing(p)
      /\ \A q \in Requests : q # p => (Placing(q)' <=> Placing(q))
  BY <1>1, <1>8 DEF Placing, Shop!Idle, t
<1>10. ShopRows'
  BY <1>1, <1>7, <1>8 DEF ShopInv, ShopRows, Shop!Coherent
<1>11. EditsLeaveCount'
  <2>1. Shop!Idle.kind # "edit"
    BY DEF Shop!Idle
  <2>2. QED
    BY <1>8, <2>1 DEF ShopInv, EditsLeaveCount
<1>12. row # Shop!NoOrder
  BY <1>5 DEF PlacedRow, Shop!NoOrder
<1>13. PlacedIds' = PlacedIds \cup {o} /\ o \notin PlacedIds
  BY <1>3, <1>4, <1>8, <1>12 DEF PlacedIds
<1>14. Cardinality(PlacedIds') = Cardinality(PlacedIds) + 1 /\ Cardinality(PlacedIds) \in Nat
  <2>1. IsFiniteSet(PlacedIds) /\ Cardinality(PlacedIds) \in Nat
    BY OrdersPlaced
  <2>2. Cardinality(PlacedIds \cup {o}) = Cardinality(PlacedIds) + 1
    BY <1>13, <2>1, FS_AddElement
  <2>3. QED
    BY <1>13, <2>1, <2>2
<1>15. NothingBeforeCreation'
  BY <1>7, <1>9 DEF ShopInv, NothingBeforeCreation
<1>16. PlacementsSound'
  <2>1. SUFFICES ASSUME NEW q \in Requests, Placing(q)'
                 PROVE  /\ orders'[shopTxn'[q].order] = Shop!NoOrder
                        /\ \A r \in Requests \ {q} :
                               Placing(r)' => shopTxn'[r].order # shopTxn'[q].order
                        /\ Shop!UnitPrice(shopTxn'[q].service, shopTxn'[q].named) # 0
                        /\ Shop!TermsOf(shopTxn'[q].service) \in offered
    BY <1>1 DEF PlacementsSound, Shop!UnitPrice, Shop!TermsOf
  <2>2. q # p /\ Placing(q)
    BY <1>9, <2>1
  <2>3. shopTxn[q].order \in OrderIds
    BY <2>2, KindsOfShopRequests DEF Placing, Placement
  <2>4. QED
    BY <1>4, <1>8, <1>9, <2>2, <2>3 DEF ShopInv, PlacementsSound
<1>17. PublishedIsOffered'
  <2>1. Shop!TermsOf(shopService') = Shop!TermsOf(shopService)
    BY <1>3, <1>7, TermsColumns
  <2>2. PublishedIsOffered' = (shopService'.status = "published"
                                   => Shop!TermsOf(shopService') \in offered')
    BY DEF PublishedIsOffered, Shop!TermsOf
  <2>3. QED
    BY <1>1, <1>7, <2>1, <2>2 DEF ShopInv, PublishedIsOffered
<1>18. t.service.count <= Cardinality(PlacedIds) /\ t.service.count \in Nat
  BY <1>3, <1>9 DEF ShopInv, CountsBehind, ServiceRow, t
<1>19. CountsBehind'
  <2>1. \A q \in Requests : Placing(q) => shopTxn[q].service.count \in Nat
    BY KindsOfShopRequests DEF Placing, Placement, ServiceRow
  <2>2. QED
    BY <1>7, <1>8, <1>9, <1>14, <1>18, <2>1 DEF ShopInv, CountsBehind
<1>20. CountsExact'
  BY <1>1, <1>7, <1>8, <1>9, <1>14 DEF ShopInv, CountsExact, t
<1>21. ToldOnce'
  <2>1. instructed[o] = {}
    BY <1>3, <1>4 DEF ShopInv, ToldOnce
  <2>2. QED
    BY <1>1, <1>8, <1>12, <2>1 DEF ShopInv, ToldOnce
<1>22. Shop!OrderTermsOffered'
  <2>1. /\ Shop!TermsOf(t.service).hours = row.hours
        /\ Shop!TermsOf(t.service).release = row.release
        /\ Shop!TermsOf(t.service).model # "negotiated"
               => Shop!TermsOf(t.service).price = row.price
    BY <1>3, TermsColumns DEF Shop!UnitPrice, row
  <2>2. QED
    BY <1>1, <1>4, <1>8, <2>1 DEF ShopInv, Shop!OrderTermsOffered
<1>23. QED
  BY <1>10, <1>11, <1>15, <1>16, <1>17, <1>19, <1>20, <1>21, <1>22 DEF ShopInv

LEMMA EditCommitted ==
    ASSUME ShopInv, NEW p \in Requests, Shop!Commit(p)
    PROVE  ShopInv'
<1>. DEFINE t == shopTxn[p]
<1>1. /\ t.kind = "edit"
      /\ shopAgent' = Shop!Written(shopAgent, t.agent, t.newAgent)
      /\ shopService' = Shop!Written(shopService, t.service, t.newService)
      /\ Shop!AgentChecks(shopAgent') /\ Shop!ServiceChecks(shopService')
      /\ offered' = IF shopService'.status = "published"
                    THEN offered \cup {Shop!TermsOf(shopService')} ELSE offered
      /\ shopTxn' = [shopTxn EXCEPT ![p] = Shop!Idle]
      /\ UNCHANGED <<orders, instructed, crossed>>
  BY DEF Shop!Commit
<1>2. t \in EditRequest
  BY <1>1, KindsOfShopRequests
<1>3. /\ shopAgent \in AgentRow /\ shopService \in ServiceRow
      /\ t.newAgent \in AgentRow /\ t.newService \in ServiceRow /\ t.service \in ServiceRow
      /\ t.newService.count = t.service.count
      /\ t.newService.status = "none" => t.service.status = "none"
  BY <1>1, <1>2 DEF EditRequest, ShopInv, ShopRows, EditsLeaveCount
<1>. HIDE DEF t
<1>4. /\ shopAgent' \in AgentRow /\ shopService' \in ServiceRow
      /\ shopService'.count = shopService.count
      /\ shopService'.status = "none" => shopService.status = "none"
  BY <1>1, <1>3, AgentRowUpdated, ServiceUpdated
<1>5. /\ shopTxn'[p] = Shop!Idle /\ \A q \in Requests : q # p => shopTxn'[q] = shopTxn[q]
      /\ shopTxn' \in [Requests -> {Shop!Idle} \cup EditRequest \cup Placement]
  BY <1>1 DEF ShopInv, ShopRows
<1>6. \A q \in Requests : (Placing(q)' <=> Placing(q)) /\ (Placing(q) => q # p)
  BY <1>1, <1>5 DEF Placing, Shop!Idle, t
<1>7. ShopRows'
  BY <1>1, <1>4, <1>5 DEF ShopInv, ShopRows, Shop!Coherent, Shop!ServiceChecks
<1>8. EditsLeaveCount'
  <2>1. Shop!Idle.kind # "edit"
    BY DEF Shop!Idle
  <2>2. QED
    BY <1>5, <2>1 DEF ShopInv, EditsLeaveCount
<1>9. offered \subseteq offered'
  BY <1>1
<1>10. PlacedIds' = PlacedIds
  BY <1>1 DEF PlacedIds
<1>11. NothingBeforeCreation' /\ CountsBehind' /\ CountsExact'
  BY <1>1, <1>4, <1>5, <1>6, <1>10
     DEF ShopInv, NothingBeforeCreation, CountsBehind, CountsExact
<1>12. PlacementsSound'
  <2>1. SUFFICES ASSUME NEW q \in Requests, Placing(q)'
                 PROVE  /\ orders[shopTxn'[q].order] = Shop!NoOrder
                        /\ \A r \in Requests \ {q} :
                               Placing(r)' => shopTxn'[r].order # shopTxn'[q].order
                        /\ Shop!UnitPrice(shopTxn'[q].service, shopTxn'[q].named) # 0
                        /\ Shop!TermsOf(shopTxn'[q].service) \in offered'
    BY <1>1 DEF PlacementsSound, Shop!UnitPrice, Shop!TermsOf
  <2>2. QED
    BY <1>5, <1>6, <1>9, <2>1 DEF ShopInv, PlacementsSound
<1>13. PublishedIsOffered'
  <2>1. PublishedIsOffered' = (shopService'.status = "published"
                                   => Shop!TermsOf(shopService') \in offered')
    BY DEF PublishedIsOffered, Shop!TermsOf
  <2>2. QED
    BY <1>1, <2>1
<1>14. ToldOnce' /\ Shop!OrderTermsOffered'
  BY <1>1, <1>9 DEF ShopInv, ToldOnce, Shop!OrderTermsOffered
<1>15. QED
  BY <1>7, <1>8, <1>11, <1>12, <1>13, <1>14 DEF ShopInv

\* The windows of an order that has its own hours are its own.
LEMMA PaymentInstructed ==
    ASSUME ShopInv, NEW o \in OrderIds, Shop!TellPayment(o)
    PROVE  ShopInv'
<1>1. /\ orders[o].status = "pending"
      /\ instructed' = [instructed EXCEPT ![o] = @ \cup {Shop!Windows(orders[o])}]
      /\ UNCHANGED <<shopAgent, shopService, orders, shopTxn, offered, crossed>>
  BY DEF Shop!TellPayment
<1>2. orders[o] \in PlacedRow /\ orders[o] # Shop!NoOrder
  BY <1>1 DEF ShopInv, ShopRows, Shop!NoOrder
<1>3. orders[o].hours # 0 =>
          Shop!Windows(orders[o]) = [delivery |-> orders[o].hours, release |-> orders[o].release]
  <2>1. orders[o].release # 0
    BY <1>2, ShopConstants DEF PlacedRow
  <2>2. QED
    BY <2>1 DEF Shop!Windows, Shop!Either
<1>4. ShopRows'
  BY <1>1 DEF ShopInv, ShopRows
<1>5. ToldOnce'
  BY <1>1, <1>2, <1>3 DEF ShopInv, ShopRows, ToldOnce
<1>6. QED
  BY <1>1, <1>4, <1>5
     DEF ShopInv, EditsLeaveCount, NothingBeforeCreation, PlacementsSound, PublishedIsOffered,
         CountsBehind, CountsExact, Placing, PlacedIds, Shop!OrderTermsOffered,
         Shop!UnitPrice, Shop!TermsOf

LEMMA FundingClosed ==
    ASSUME ShopInv, NEW o \in OrderIds, Shop!CloseFunding(o)
    PROVE  ShopInv'
<1>1. /\ orders[o].status = "pending"
      /\ orders' = [orders EXCEPT ![o].status = "closed"]
      /\ UNCHANGED <<shopAgent, shopService, shopTxn, offered, instructed, crossed>>
  BY DEF Shop!CloseFunding
<1>2. orders[o] \in PlacedRow
  BY <1>1 DEF ShopInv, ShopRows, Shop!NoOrder
<1>3. orders \in [OrderIds -> {Shop!NoOrder} \cup PlacedRow]
  BY DEF ShopInv, ShopRows
<1>. DEFINE row == [orders[o] EXCEPT !.status = "closed"]
<1>4. /\ row \in PlacedRow /\ row # Shop!NoOrder /\ orders[o] # Shop!NoOrder
      /\ row.hours = orders[o].hours /\ row.release = orders[o].release
      /\ row.price = orders[o].price
  BY <1>1, <1>2 DEF PlacedRow, Shop!NoOrder
<1>. HIDE DEF row
<1>5. orders' = [orders EXCEPT ![o] = row]
  BY <1>1 DEF row
<1>6. /\ orders' \in [OrderIds -> {Shop!NoOrder} \cup PlacedRow]
      /\ orders'[o] = row /\ \A x \in OrderIds : x # o => orders'[x] = orders[x]
  BY <1>3, <1>4, <1>5
<1>7. ShopRows'
  BY <1>1, <1>6 DEF ShopInv, ShopRows
<1>8. PlacedIds' = PlacedIds
  BY <1>4, <1>6 DEF PlacedIds
<1>9. PlacementsSound'
  <2>1. \A p \in Requests : Placing(p) => shopTxn[p].order # o /\ shopTxn[p].order \in OrderIds
    <3>1. \A p \in Requests : Placing(p) => shopTxn[p].order \in OrderIds
      BY KindsOfShopRequests DEF Placing, Placement
    <3>2. \A p \in Requests : Placing(p) => orders[shopTxn[p].order] = Shop!NoOrder
      BY DEF ShopInv, PlacementsSound
    <3>3. QED
      BY <1>4, <3>1, <3>2
  <2>2. SUFFICES ASSUME NEW q \in Requests, Placing(q)
                 PROVE  /\ orders'[shopTxn[q].order] = Shop!NoOrder
                        /\ \A r \in Requests \ {q} :
                               Placing(r) => shopTxn[r].order # shopTxn[q].order
                        /\ Shop!UnitPrice(shopTxn[q].service, shopTxn[q].named) # 0
                        /\ Shop!TermsOf(shopTxn[q].service) \in offered
    BY <1>1 DEF PlacementsSound, Placing, Shop!UnitPrice, Shop!TermsOf
  <2>3. QED
    BY <1>6, <2>1, <2>2 DEF ShopInv, PlacementsSound
<1>10. ToldOnce' /\ Shop!OrderTermsOffered'
  BY <1>1, <1>4, <1>6 DEF ShopInv, ToldOnce, Shop!OrderTermsOffered
<1>11. QED
  BY <1>1, <1>7, <1>8, <1>9, <1>10
     DEF ShopInv, EditsLeaveCount, NothingBeforeCreation, PublishedIsOffered,
         CountsBehind, CountsExact, Placing, Shop!TermsOf

LEMMA ShopStep == ASSUME ShopInv, [Shop!Next]_shopVars PROVE ShopInv'
<1>1. ASSUME NEW p \in Requests, Shop!LoadAgent(p) PROVE ShopInv'
  <2>1. /\ Placing(p) /\ shopTxn' = [shopTxn EXCEPT ![p] = [@ EXCEPT !.ready = TRUE]]
        /\ UNCHANGED <<shopAgent, shopService, orders, offered, instructed, crossed>>
    BY <1>1 DEF Shop!LoadAgent, Placing
  <2>2. shopTxn[p] \in Placement
    BY <2>1, KindsOfShopRequests DEF Placing
  <2>3. [shopTxn[p] EXCEPT !.ready = TRUE] \in Placement
    BY <2>2 DEF Placement
  <2>4. shopTxn' = [shopTxn EXCEPT ![p] = [shopTxn[p] EXCEPT !.ready = TRUE]]
    BY <2>1
  <2>5. QED
    BY <2>1, <2>3, <2>4, ShopRowsLeft
<1>2. ASSUME NEW p \in Requests, Shop!Fail(p) PROVE ShopInv'
  BY <1>2, ShopRowsLeft DEF Shop!Fail
<1>3. CASE UNCHANGED shopVars
  BY <1>3
     DEF shopVars, ShopInv, ShopRows, EditsLeaveCount, NothingBeforeCreation, PlacementsSound,
         PublishedIsOffered, CountsBehind, CountsExact, ToldOnce, Placing, PlacedIds,
         Shop!OrderTermsOffered, Shop!UnitPrice, Shop!TermsOf
<1>4. QED
  BY <1>1, <1>2, <1>3, ShopEdit, PlacementBegins, ShopOrderPlaced, EditCommitted,
     PaymentInstructed, FundingClosed DEF Shop!Next

\* What a buyer is shown, and what an order has, follow from the invariant.
LEMMA ShopPromises ==
    ASSUME ShopInv
    PROVE  /\ Shop!TypeOK /\ Shop!PriceAlwaysThere /\ Shop!CountedUnlessOverlapped
           /\ Shop!DiscoverableIsOrderable /\ Shop!OrderTermsOffered /\ Shop!StatedWindowsStay
<1>1. shopAgent \in AgentRow /\ shopService \in ServiceRow /\ Shop!Coherent(shopService)
      /\ Shop!AgentChecks(shopAgent)
  BY DEF ShopInv, ShopRows
<1>2. Shop!PriceAlwaysThere
  BY <1>1 DEF Shop!Coherent, Shop!PriceAlwaysThere
<1>3. Shop!CountedUnlessOverlapped
  BY ShopCardinality
     DEF ShopInv, CountsExact, PlacedIds, Shop!CountedUnlessOverlapped
<1>4. Shop!DiscoverableIsOrderable
  <2>1. PICK named \in Quotes : named # 0
    BY ShopConstants
  <2>2. QED
    BY <1>1, <2>1
       DEF Shop!DiscoverableIsOrderable, Shop!Discoverable, Shop!CanBePaid,
                      Shop!AgentChecks, Shop!UnitPrice, Shop!Coherent
<1>5. Shop!StatedWindowsStay
  <2>1. SUFFICES ASSUME NEW o \in OrderIds, orders[o] # Shop!NoOrder, orders[o].hours # 0
                 PROVE  Cardinality(instructed[o]) <= 1
    BY ShopCardinality DEF Shop!StatedWindowsStay
  <2>. DEFINE only == [delivery |-> orders[o].hours, release |-> orders[o].release]
  <2>2. instructed[o] \subseteq {only}
    BY <2>1 DEF ShopInv, ToldOnce
  <2>3. instructed[o] = {} \/ instructed[o] = {only}
    BY <2>2
  <2>4. Cardinality({}) = 0
    BY FS_EmptySet
  <2>5. Cardinality({only}) = 1
    BY FS_Singleton
  <2>. HIDE DEF only
  <2>6. QED
    BY <2>3, <2>4, <2>5
<1>6. Shop!TypeOK
  <2>1. shopService.count \in Nat /\ shopService.count <= Cardinality(OrderIds)
    BY <1>1, OrdersPlaced DEF ShopInv, CountsBehind, ServiceRow
  <2>2. \A o \in OrderIds : orders[o] # Shop!NoOrder => orders[o].price \in Quotes
    BY DEF ShopInv, ShopRows, PlacedRow
  <2>3. Shop!TermsOf(shopService) \in Shop!Offer /\ shopService.status \in Shop!ServiceStatus
    BY <1>1, TermsColumns DEF ServiceRow
  <2>4. QED
    BY <1>1, <2>1, <2>2, <2>3, OrdersPlaced, ShopCardinality
       DEF Shop!TypeOK, AgentRow
<1>7. QED
  BY <1>2, <1>3, <1>4, <1>5, <1>6 DEF ShopInv
\* The rows are of the types of their columns, and no service counts more
\* orders than there are.
LEMMA ShopTyped == ASSUME ShopInv PROVE Shop!TypeOK
<1>1. shopAgent \in AgentRow /\ shopService \in ServiceRow
      /\ orders \in [OrderIds -> {Shop!NoOrder} \cup PlacedRow]
  BY DEF ShopInv, ShopRows
<1>2. Shop!TermsOf(shopService) \in Shop!Offer
  BY <1>1, TermsColumns
<1>3. shopService.count \in 0 .. Shop!Cardinality(OrderIds)
  <2>1. shopService.count \in Nat /\ shopService.count <= Cardinality(PlacedIds)
    BY <1>1 DEF ServiceRow, ShopInv, CountsBehind
  <2>2. QED
    BY <2>1, OrdersPlaced, ShopCardinality
<1>4. shopAgent \in [status : Shop!AgentStatus, payout : Wallets \cup {Shop!NoWallet}]
  BY <1>1 DEF AgentRow
<1>5. shopService.status \in Shop!ServiceStatus
  BY <1>1 DEF ServiceRow
<1>6. \A o \in OrderIds : orders[o] # Shop!NoOrder => orders[o].price \in Quotes
  BY <1>1 DEF PlacedRow
<1>7. QED
  BY <1>2, <1>3, <1>4, <1>5, <1>6 DEF Shop!TypeOK

-----------------------------------------------------------------------------
(* The order desk: what OrderDeskProofs proves of it.  The instance of that *)
(* module defines every operator of the desk once more; expanded, the two   *)
(* are the same formula.                                                    *)

DeskProof == INSTANCE OrderDeskProofs
             WITH Worker <- DeskWorker, db <- deskRows, txn <- deskTxn

LEMMA DeskAssumed == DeskProof!DeskAssumption /\ DeskProof!FeeAssumption
BY MarketplaceAssumption
   DEF Desk!DeskAssumption, DeskProof!DeskAssumption, DeskProof!FeeAssumption

LEMMA DeskStart == ASSUME Desk!Init PROVE DeskProof!DeskInv
<1>1. DeskProof!Init
  BY DEF Desk!Closed, DeskProof!Closed, Desk!EscrowKey, DeskProof!EscrowKey,
         Desk!IngestedKey, DeskProof!IngestedKey, Desk!Init, DeskProof!Init,
         Desk!Keys, DeskProof!Keys, Desk!NoOrder, DeskProof!NoOrder, Desk!NoRow,
         DeskProof!NoRow, Desk!OrderKey, DeskProof!OrderKey, Desk!Processes,
         DeskProof!Processes, Desk!ServiceKey, DeskProof!ServiceKey
<1>2. QED
  BY <1>1, DeskAssumed, DeskProof!DeskInit

LEMMA SameSteps ==
    ASSUME [Desk!Next]_deskVars
    PROVE  [DeskProof!Next]_(DeskProof!vars)
<1>1. \A row, event : Desk!ApplyToEscrow(row, event) = DeskProof!ApplyToEscrow(row, event)
  BY DEF Desk!ApplyCreated, DeskProof!ApplyCreated, Desk!ApplyDisputed,
         DeskProof!ApplyDisputed, Desk!ApplyRefunded, DeskProof!ApplyRefunded,
         Desk!ApplyReleased, DeskProof!ApplyReleased, Desk!ApplySettled,
         DeskProof!ApplySettled, Desk!ApplyToEscrow, DeskProof!ApplyToEscrow,
         Desk!EscrowCreated, DeskProof!EscrowCreated, Desk!EscrowDisputed,
         DeskProof!EscrowDisputed, Desk!EscrowRefunded, DeskProof!EscrowRefunded,
         Desk!EscrowReleased, DeskProof!EscrowReleased, Desk!EscrowSettled,
         DeskProof!EscrowSettled, Desk!FeeOf, DeskProof!FeeOf, Desk!NoRow,
         DeskProof!NoRow, Desk!SettledGross, DeskProof!SettledGross,
         Desk!SettlementResolution, DeskProof!SettlementResolution
<1>2. \A rows : Desk!Checks(rows) <=> DeskProof!Checks(rows)
  BY DEF Desk!Checks, DeskProof!Checks, Desk!OrderChecks, DeskProof!OrderChecks,
         Desk!RowChecks, DeskProof!RowChecks
<1>3. \A p : Desk!Flushed(p) = DeskProof!Flushed(p)
  BY DEF Desk!Flushed, DeskProof!Flushed, Desk!Over, DeskProof!Over, Desk!Visible,
         DeskProof!Visible
<1>4. \A row, event : Desk!ApplyToOrder(row, event) = DeskProof!ApplyToOrder(row, event)
  BY DEF Desk!ApplyToOrder, DeskProof!ApplyToOrder, Desk!EscrowCreated,
         DeskProof!EscrowCreated, Desk!EscrowDisputed, DeskProof!EscrowDisputed,
         Desk!EscrowRefunded, DeskProof!EscrowRefunded, Desk!EscrowReleased,
         DeskProof!EscrowReleased, Desk!EscrowSettled, DeskProof!EscrowSettled,
         Desk!FeeOf, DeskProof!FeeOf, Desk!OrderStatusFor, DeskProof!OrderStatusFor
<1>5. \A p, new : Desk!Load(p, new) <=> DeskProof!Load(p, new)
  BY DEF Desk!Changed, DeskProof!Changed, Desk!Load, DeskProof!Load, Desk!Loaded,
         DeskProof!Loaded, Desk!Visible, DeskProof!Visible
<1>6. \A x, y : Desk!Over(x, y) = DeskProof!Over(x, y)
  BY DEF Desk!Over, DeskProof!Over
<1>7. \A k, row : Desk!Just(k, row) = DeskProof!Just(k, row)
  BY DEF Desk!Just, DeskProof!Just
<1>8. \A p, k : Desk!Visible(p, k) = DeskProof!Visible(p, k)
  BY DEF Desk!Visible, DeskProof!Visible
<1>9. \A o : Desk!OrderKey(o) = DeskProof!OrderKey(o)
  BY DEF Desk!OrderKey, DeskProof!OrderKey
<1>10. \A o : Desk!EscrowKey(o) = DeskProof!EscrowKey(o)
  BY DEF Desk!EscrowKey, DeskProof!EscrowKey
<1>11. \A o : Desk!IngestedKey(o) = DeskProof!IngestedKey(o)
  BY DEF Desk!IngestedKey, DeskProof!IngestedKey
<1>12. \A o, event, n : Desk!Apply(o, event, n) <=> DeskProof!Apply(o, event, n)
  BY <1>1, <1>4, <1>5, <1>6, <1>7, <1>8, <1>9, <1>10, <1>11
     DEF Desk!Apply, DeskProof!Apply
<1>13. \A r, o : Desk!CreateOrder(r, o) <=> DeskProof!CreateOrder(r, o)
  BY DEF Desk!Changed, DeskProof!Changed, Desk!CreateOrder, DeskProof!CreateOrder,
         Desk!Just, DeskProof!Just, Desk!Load, DeskProof!Load, Desk!Loaded,
         DeskProof!Loaded, Desk!NoOrder, DeskProof!NoOrder, Desk!OrderKey,
         DeskProof!OrderKey, Desk!Over, DeskProof!Over, Desk!Processes,
         DeskProof!Processes, Desk!ServiceKey, DeskProof!ServiceKey, Desk!Visible,
         DeskProof!Visible
<1>14. \A r, o : Desk!StartWork(r, o) <=> DeskProof!StartWork(r, o)
  BY DEF Desk!Changed, DeskProof!Changed, Desk!Just, DeskProof!Just, Desk!Load,
         DeskProof!Load, Desk!Loaded, DeskProof!Loaded, Desk!OrderKey,
         DeskProof!OrderKey, Desk!StartWork, DeskProof!StartWork, Desk!Startable,
         DeskProof!Startable, Desk!Visible, DeskProof!Visible
<1>15. \A r, o : Desk!MarkDelivered(r, o) <=> DeskProof!MarkDelivered(r, o)
  BY DEF Desk!Changed, DeskProof!Changed, Desk!Just, DeskProof!Just, Desk!Load,
         DeskProof!Load, Desk!Loaded, DeskProof!Loaded, Desk!MarkDelivered,
         DeskProof!MarkDelivered, Desk!OrderKey, DeskProof!OrderKey, Desk!Visible,
         DeskProof!Visible
<1>16. \A r, o, share : Desk!RecordDecision(r, o, share) <=> DeskProof!RecordDecision(r, o, share)
  BY DEF Desk!Changed, DeskProof!Changed, Desk!EscrowKey, DeskProof!EscrowKey,
         Desk!Just, DeskProof!Just, Desk!Load, DeskProof!Load, Desk!Loaded,
         DeskProof!Loaded, Desk!OrderKey, DeskProof!OrderKey, Desk!RecordDecision,
         DeskProof!RecordDecision, Desk!SettlementResolution,
         DeskProof!SettlementResolution, Desk!Visible, DeskProof!Visible
<1>17. \A r, o : Desk!RepairOrder(r, o) <=> DeskProof!RepairOrder(r, o)
  BY DEF Desk!ApplyCreated, DeskProof!ApplyCreated, Desk!ApplyDisputed,
         DeskProof!ApplyDisputed, Desk!ApplyRefunded, DeskProof!ApplyRefunded,
         Desk!ApplyReleased, DeskProof!ApplyReleased, Desk!ApplySettled,
         DeskProof!ApplySettled, Desk!ApplyToEscrow, DeskProof!ApplyToEscrow,
         Desk!Changed, DeskProof!Changed, Desk!EscrowCreated,
         DeskProof!EscrowCreated, Desk!EscrowDisputed, DeskProof!EscrowDisputed,
         Desk!EscrowKey, DeskProof!EscrowKey, Desk!EscrowRefunded,
         DeskProof!EscrowRefunded, Desk!EscrowReleased, DeskProof!EscrowReleased,
         Desk!EscrowSettled, DeskProof!EscrowSettled, Desk!EventsOf,
         DeskProof!EventsOf, Desk!FeeOf, DeskProof!FeeOf, Desk!Figures,
         DeskProof!Figures, Desk!Follows, DeskProof!Follows, Desk!InSync,
         DeskProof!InSync, Desk!Just, DeskProof!Just, Desk!Last, DeskProof!Last,
         Desk!Loaded, DeskProof!Loaded, Desk!NoOrder, DeskProof!NoOrder, Desk!NoRow,
         DeskProof!NoRow, Desk!OrderKey, DeskProof!OrderKey, Desk!Projected,
         DeskProof!Projected, Desk!RepairOrder, DeskProof!RepairOrder,
         Desk!SettledGross, DeskProof!SettledGross, Desk!SettlementResolution,
         DeskProof!SettlementResolution, Desk!Upcoming, DeskProof!Upcoming,
         Desk!Visible, DeskProof!Visible
<1>18. \A o : Desk!Emit(o) <=> DeskProof!Emit(o)
  BY DEF Desk!Emit, DeskProof!Emit, Desk!EscrowCreated, DeskProof!EscrowCreated,
         Desk!EscrowDisputed, DeskProof!EscrowDisputed, Desk!EscrowRefunded,
         DeskProof!EscrowRefunded, Desk!EscrowReleased, DeskProof!EscrowReleased,
         Desk!EscrowSettled, DeskProof!EscrowSettled, Desk!EventsOf,
         DeskProof!EventsOf, Desk!FeeOf, DeskProof!FeeOf, Desk!Follows,
         DeskProof!Follows, Desk!Last, DeskProof!Last, Desk!NoOrder,
         DeskProof!NoOrder, Desk!OrderKey, DeskProof!OrderKey, Desk!Upcoming,
         DeskProof!Upcoming
<1>19. \A o : Desk!ApplyNext(o) <=> DeskProof!ApplyNext(o)
  BY <1>12 DEF Desk!ApplyNext, DeskProof!ApplyNext, Desk!IngestedKey,
         DeskProof!IngestedKey, Desk!Visible, DeskProof!Visible
<1>20. \A o : Desk!ApplyAgain(o) <=> DeskProof!ApplyAgain(o)
  BY <1>12 DEF Desk!ApplyAgain, DeskProof!ApplyAgain, Desk!EscrowDisputed,
         DeskProof!EscrowDisputed, Desk!HasTxType, DeskProof!HasTxType,
         Desk!IngestedKey, DeskProof!IngestedKey, Desk!Visible, DeskProof!Visible
<1>21. \A o : Desk!ExpireUnfunded(o) <=> DeskProof!ExpireUnfunded(o)
  BY DEF Desk!ExpireUnfunded, DeskProof!ExpireUnfunded, Desk!OrderKey,
         DeskProof!OrderKey
<1>22. \A p : Desk!Flush(p) <=> DeskProof!Flush(p)
  BY <1>2, <1>3 DEF Desk!Flush, DeskProof!Flush, Desk!LocksFree, DeskProof!LocksFree,
         Desk!Processes, DeskProof!Processes
<1>23. \A p : Desk!Refuse(p) <=> DeskProof!Refuse(p)
  BY <1>2, <1>3
     DEF Desk!Closed, DeskProof!Closed, Desk!LocksFree, DeskProof!LocksFree,
         Desk!Processes, DeskProof!Processes, Desk!Refuse, DeskProof!Refuse
<1>24. \A p : Desk!Commit(p) <=> DeskProof!Commit(p)
  BY DEF Desk!Closed, DeskProof!Closed, Desk!Commit, DeskProof!Commit, Desk!Over,
         DeskProof!Over
<1>25. \A p : Desk!Rollback(p) <=> DeskProof!Rollback(p)
  BY DEF Desk!Closed, DeskProof!Closed, Desk!Rollback, DeskProof!Rollback
<1>26. QED
  BY <1>13, <1>14, <1>15, <1>16, <1>17, <1>18, <1>19, <1>20, <1>21, <1>22, <1>23,
     <1>24, <1>25
  DEF deskVars, Desk!Next, DeskProof!Next, Desk!Request, DeskProof!Request,
      Desk!Index, DeskProof!Index, Desk!EndTransaction, DeskProof!EndTransaction,
      Desk!Processes, DeskProof!Processes, Desk!vars, DeskProof!vars

LEMMA DeskStep ==
    ASSUME DeskProof!DeskInv, [Desk!Next]_deskVars
    PROVE  DeskProof!DeskInv' /\ Desk!DecisionsStay
<1>1. DeskProof!DeskInv'
  BY SameSteps, DeskAssumed, DeskProof!DeskStep
<1>2. DeskProof!DecisionsStay
  BY SameSteps, DeskAssumed, DeskProof!DecisionsKept
<1>3. QED
  BY <1>1, <1>2 DEF Desk!DecisionsStay, DeskProof!DecisionsStay, Desk!EscrowKey,
         DeskProof!EscrowKey

LEMMA DeskPromises ==
    ASSUME DeskProof!DeskInv
    PROVE  /\ Desk!CompletedWhenPaid /\ Desk!NeverAheadOfChain
           /\ Desk!EscrowRowFollowsChain /\ Desk!WorkerNeverRefused
<1>1. DeskProof!CompletedWhenPaid /\ DeskProof!NeverAheadOfChain
  BY DeskAssumed, DeskProof!PaidAndNeverAhead
<1>2. Desk!CompletedWhenPaid /\ Desk!NeverAheadOfChain
  BY <1>1 DEF Desk!CompletedWhenPaid, DeskProof!CompletedWhenPaid, Desk!EscrowKey,
         DeskProof!EscrowKey, Desk!NeverAheadOfChain, DeskProof!NeverAheadOfChain,
         Desk!OrderKey, DeskProof!OrderKey
<1>3. DeskProof!EscrowRowFollowsChain
  BY DeskAssumed, DeskProof!RowFollows
<1>4. Desk!EscrowRowFollowsChain
  BY <1>3 DEF Desk!ApplyCreated, DeskProof!ApplyCreated, Desk!ApplyDisputed,
         DeskProof!ApplyDisputed, Desk!ApplyRefunded, DeskProof!ApplyRefunded,
         Desk!ApplyReleased, DeskProof!ApplyReleased, Desk!ApplySettled,
         DeskProof!ApplySettled, Desk!ApplyToEscrow, DeskProof!ApplyToEscrow,
         Desk!DecisionColumns, DeskProof!DecisionColumns, Desk!EscrowCreated,
         DeskProof!EscrowCreated, Desk!EscrowDisputed, DeskProof!EscrowDisputed,
         Desk!EscrowKey, DeskProof!EscrowKey, Desk!EscrowRefunded,
         DeskProof!EscrowRefunded, Desk!EscrowReleased, DeskProof!EscrowReleased,
         Desk!EscrowRowFollowsChain, DeskProof!EscrowRowFollowsChain,
         Desk!EscrowSettled, DeskProof!EscrowSettled, Desk!FeeOf, DeskProof!FeeOf,
         Desk!Figures, DeskProof!Figures, Desk!IngestedKey, DeskProof!IngestedKey,
         Desk!NoRow, DeskProof!NoRow, Desk!Projected, DeskProof!Projected,
         Desk!Projection, DeskProof!Projection, Desk!SettledGross,
         DeskProof!SettledGross, Desk!SettlementResolution,
         DeskProof!SettlementResolution
<1>5. DeskProof!WorkerNeverRefused
  BY DeskAssumed, DeskProof!NeverRefused
<1>6. Desk!WorkerNeverRefused
  BY <1>5 DEF Desk!Checks, DeskProof!Checks, Desk!Flushed, DeskProof!Flushed,
         Desk!OrderChecks, DeskProof!OrderChecks, Desk!Over, DeskProof!Over,
         Desk!RowChecks, DeskProof!RowChecks, Desk!Visible, DeskProof!Visible,
         Desk!WorkerNeverRefused, DeskProof!WorkerNeverRefused
<1>7. QED
  BY <1>2, <1>4, <1>6

LEMMA DeskTyped == ASSUME DeskProof!DeskInv PROVE Desk!TypeOK
<1>1. DeskProof!TypeOK
  BY DeskAssumed, DeskProof!RowsTyped
<1>2. QED
  BY <1>1
     DEF Desk!TypeOK, DeskProof!TypeOK, Desk!OrderKey, DeskProof!OrderKey,
         Desk!EscrowKey, DeskProof!EscrowKey, Desk!IngestedKey, DeskProof!IngestedKey,
         Desk!ServiceKey, DeskProof!ServiceKey, Desk!OrderStatuses,
         DeskProof!OrderStatuses, Desk!EscrowRow, DeskProof!EscrowRow,
         Desk!Processes, DeskProof!Processes

-----------------------------------------------------------------------------
(* Reputation: what ReputationProofs proves of it, by the same argument as *)
(* for the desk: the two instances of each definition are the same formula. *)

RatingProof == INSTANCE ReputationProofs
               WITH service <- ratedService, agent <- ratedAgent, txn <- ratingTxn,
                    begun <- ratingBegun

LEMMA RatingAssumed == RatingProof!ReputationAssumption
<1>1. \A S : Rating!IsFiniteSet(S) <=> RatingProof!IsFiniteSet(S)
  BY DEF Rating!IsFiniteSet, RatingProof!IsFiniteSet
<1>2. QED
  BY <1>1, MarketplaceAssumption
     DEF Rating!ReputationAssumption, RatingProof!ReputationAssumption

LEMMA RatingStarts ==
    ASSUME Rating!Init PROVE RatingProof!RatingInv /\ RatingProof!CountsInv
<1>1. RatingProof!Init
  BY DEF Rating!AgentColumns, RatingProof!AgentColumns, Rating!Figures,
         RatingProof!Figures, Rating!Idle, RatingProof!Idle, Rating!Init,
         RatingProof!Init, Rating!NoReview, RatingProof!NoReview, Rating!NoSnapshot,
         RatingProof!NoSnapshot, Rating!NotExcluded, RatingProof!NotExcluded,
         Rating!ServiceColumns, RatingProof!ServiceColumns
<1>2. QED
  BY <1>1, RatingAssumed, RatingProof!RatingStart, RatingProof!CountsStart

LEMMA SameCardinality == \A S : Rating!Cardinality(S) = RatingProof!Cardinality(S)
BY DEF Rating!Cardinality, RatingProof!Cardinality

LEMMA SameRatingFigures ==
    \A figure, theOrders, theReviews :
        Rating!FigureOf(figure, theOrders, theReviews)
            = RatingProof!FigureOf(figure, theOrders, theReviews)
<1>1. \A f : Rating!SumFunction(f) = RatingProof!SumFunction(f)
  BY DEF Rating!SumFunction, RatingProof!SumFunction, Rating!SumFunctionOnSet,
         RatingProof!SumFunctionOnSet, Rating!FoldFunctionOnSet,
         RatingProof!FoldFunctionOnSet, Rating!MapThenFoldSet,
         RatingProof!MapThenFoldSet
<1>2. \A theOrders, theReviews :
         Rating!Published(theOrders, theReviews)
             = RatingProof!Published(theOrders, theReviews)
  BY DEF Rating!Published, RatingProof!Published, Rating!Counts, RatingProof!Counts,
         Rating!NotExcluded, RatingProof!NotExcluded
<1>3. QED
  BY <1>1, <1>2, SameCardinality
     DEF Rating!Cancelled, RatingProof!Cancelled, Rating!Counts, RatingProof!Counts,
         Rating!Disputed, RatingProof!Disputed, Rating!FigureOf,
         RatingProof!FigureOf, Rating!Lost, RatingProof!Lost, Rating!NotExcluded,
         RatingProof!NotExcluded, Rating!Paid, RatingProof!Paid

LEMMA SameRatingSteps ==
    ASSUME [Rating!Next]_ratingVars PROVE [RatingProof!Next]_(RatingProof!vars)
<1>1. \A figure, theOrders, theReviews :
         Rating!FigureOf(figure, theOrders, theReviews)
             = RatingProof!FigureOf(figure, theOrders, theReviews)
  BY SameRatingFigures
<1>2. \A p, c : Rating!Measured(p, c) = RatingProof!Measured(p, c)
  BY <1>1
     DEF Rating!Measured, RatingProof!Measured, Rating!Seen, RatingProof!Seen,
         Rating!Table, RatingProof!Table
<1>3. \A new, old : Rating!Over(new, old) = RatingProof!Over(new, old)
  BY DEF Rating!Over, RatingProof!Over
<1>4. \A columns, mine, committed :
         Rating!Laid(columns, mine, committed)
             = RatingProof!Laid(columns, mine, committed)
  BY DEF Rating!Laid, RatingProof!Laid
<1>5. \A new, mine : Rating!Dirty(new, mine) = RatingProof!Dirty(new, mine)
  BY DEF Rating!Dirty, RatingProof!Dirty
<1>6. \A p : Rating!Refuse(p) <=> RatingProof!Refuse(p)
  BY DEF Rating!Idle, RatingProof!Idle, Rating!IsLatest, RatingProof!IsLatest,
         Rating!Newer, RatingProof!Newer, Rating!Place, RatingProof!Place,
         Rating!Refuse, RatingProof!Refuse, Rating!Without, RatingProof!Without,
         Rating!rows, RatingProof!rows
<1>7. \A p, changes : Rating!Proceed(p, changes) <=> RatingProof!Proceed(p, changes)
  BY <1>3
     DEF Rating!Proceed, RatingProof!Proceed, Rating!rows, RatingProof!rows
<1>8. \A f : Rating!SnapshotChecks(f) <=> RatingProof!SnapshotChecks(f)
  BY DEF Rating!DisputeHealth, RatingProof!DisputeHealth, Rating!NoScore,
         RatingProof!NoScore, Rating!Reliability, RatingProof!Reliability,
         Rating!Satisfaction, RatingProof!Satisfaction, Rating!Score,
         RatingProof!Score, Rating!SnapshotChecks, RatingProof!SnapshotChecks
<1>9. \A p, new, changes :
         Rating!FlushService(p, new, changes)
             <=> RatingProof!FlushService(p, new, changes)
  BY DEF Rating!Dirty, RatingProof!Dirty, Rating!FlushService,
         RatingProof!FlushService, Rating!Idle, RatingProof!Idle, Rating!IsLatest,
         RatingProof!IsLatest, Rating!Laid, RatingProof!Laid, Rating!Newer,
         RatingProof!Newer, Rating!Open, RatingProof!Open, Rating!Over,
         RatingProof!Over, Rating!Place, RatingProof!Place, Rating!Proceed,
         RatingProof!Proceed, Rating!Refuse, RatingProof!Refuse,
         Rating!ServiceChecks, RatingProof!ServiceChecks, Rating!ServiceFree,
         RatingProof!ServiceFree, Rating!Without, RatingProof!Without, Rating!rows,
         RatingProof!rows
<1>10. \A p, kind, o, row, step :
         Rating!Begin(p, kind, o, row, step)
             <=> RatingProof!Begin(p, kind, o, row, step)
  BY DEF Rating!Begin, RatingProof!Begin, Rating!Idle, RatingProof!Idle, Rating!rows,
         RatingProof!rows
<1>11. \A p, o, rating :
         Rating!CreateReview(p, o, rating)
             <=> RatingProof!CreateReview(p, o, rating)
  BY <1>10
     DEF Rating!Completed, RatingProof!Completed, Rating!CreateReview,
         RatingProof!CreateReview, Rating!Paid, RatingProof!Paid
<1>12. \A p, o : Rating!WithdrawReview(p, o) <=> RatingProof!WithdrawReview(p, o)
  BY <1>10
     DEF Rating!WithdrawReview, RatingProof!WithdrawReview
<1>13. \A p, o : Rating!RespondToReview(p, o) <=> RatingProof!RespondToReview(p, o)
  BY <1>10
     DEF Rating!NoReview, RatingProof!NoReview, Rating!RespondToReview,
         RatingProof!RespondToReview
<1>14. \A p, o : Rating!ExcludeOrder(p, o) <=> RatingProof!ExcludeOrder(p, o)
  BY <1>10
     DEF Rating!ExcludeOrder, RatingProof!ExcludeOrder, Rating!NotExcluded,
         RatingProof!NotExcluded
<1>15. \A p, o, outcome :
         Rating!ApplySettlement(p, o, outcome)
             <=> RatingProof!ApplySettlement(p, o, outcome)
  BY <1>10
     DEF Rating!ApplySettlement, RatingProof!ApplySettlement, Rating!Idle,
         RatingProof!Idle, Rating!Open, RatingProof!Open, Rating!Settlements,
         RatingProof!Settlements
<1>16. \A p : Rating!RecomputeAgent(p) <=> RatingProof!RecomputeAgent(p)
  BY <1>10
     DEF Rating!NoReview, RatingProof!NoReview, Rating!RecomputeAgent,
         RatingProof!RecomputeAgent
<1>17. \A p : Rating!ReadReputation(p) <=> RatingProof!ReadReputation(p)
  BY <1>16
     DEF Rating!NoSnapshot, RatingProof!NoSnapshot, Rating!ReadReputation,
         RatingProof!ReadReputation
<1>18. \A p : Rating!WriteRow(p) <=> RatingProof!WriteRow(p)
  BY <1>6, <1>7
     DEF Rating!Allowed, RatingProof!Allowed, Rating!ExclusionAllowed,
         RatingProof!ExclusionAllowed, Rating!Idle, RatingProof!Idle,
         Rating!NoReview, RatingProof!NoReview, Rating!NotExcluded,
         RatingProof!NotExcluded, Rating!Open, RatingProof!Open, Rating!RowFree,
         RatingProof!RowFree, Rating!RowWritten, RatingProof!RowWritten,
         Rating!Table, RatingProof!Table, Rating!Unreviewed, RatingProof!Unreviewed,
         Rating!WriteRow, RatingProof!WriteRow
<1>19. \A p : Rating!CountReview(p) <=> RatingProof!CountReview(p)
  BY <1>9
     DEF Rating!AtMost, RatingProof!AtMost, Rating!CountReview,
         RatingProof!CountReview, Rating!Counted, RatingProof!Counted, Rating!Idle,
         RatingProof!Idle
<1>20. \A p : Rating!LoadAgent(p) <=> RatingProof!LoadAgent(p)
  BY <1>7
     DEF Rating!Idle, RatingProof!Idle, Rating!LoadAgent, RatingProof!LoadAgent
<1>21. \A p : Rating!GatherInputs(p) <=> RatingProof!GatherInputs(p)
  BY <1>2, <1>3, <1>7
     DEF Rating!GatherInputs, RatingProof!GatherInputs, Rating!Idle,
         RatingProof!Idle, Rating!Select, RatingProof!Select
<1>22. \A p : Rating!TellAgent(p) <=> RatingProof!TellAgent(p)
  BY <1>3, <1>4, <1>5, <1>6, <1>7
     DEF Rating!AgentChecks, RatingProof!AgentChecks, Rating!AgentColumns,
         RatingProof!AgentColumns, Rating!AgentFree, RatingProof!AgentFree,
         Rating!Figures, RatingProof!Figures, Rating!Idle, RatingProof!Idle,
         Rating!Open, RatingProof!Open, Rating!TellAgent, RatingProof!TellAgent
<1>23. \A p : Rating!CountAll(p) <=> RatingProof!CountAll(p)
  BY <1>2, <1>7
     DEF Rating!CountAll, RatingProof!CountAll, Rating!Idle, RatingProof!Idle,
         Rating!ServiceColumns, RatingProof!ServiceColumns
<1>24. \A p : Rating!Publish(p) <=> RatingProof!Publish(p)
  BY <1>6, <1>8, <1>9
     DEF Rating!Idle, RatingProof!Idle, Rating!Publish, RatingProof!Publish
<1>25. \A p : Rating!Commit(p) <=> RatingProof!Commit(p)
  BY <1>4
     DEF Rating!Commit, RatingProof!Commit, Rating!Idle, RatingProof!Idle,
         Rating!IsLatest, RatingProof!IsLatest, Rating!Newer, RatingProof!Newer,
         Rating!Place, RatingProof!Place, Rating!Seen, RatingProof!Seen,
         Rating!Table, RatingProof!Table
<1>26. \A p : Rating!Fail(p) <=> RatingProof!Fail(p)
  BY <1>6
     DEF Rating!Fail, RatingProof!Fail, Rating!Idle, RatingProof!Idle
<1>27. \A o : Rating!ApplyDispute(o) <=> RatingProof!ApplyDispute(o)
  BY DEF Rating!ApplyDispute, RatingProof!ApplyDispute, Rating!Changed,
         RatingProof!Changed, Rating!Idle, RatingProof!Idle, Rating!Open,
         RatingProof!Open, Rating!OrderFree, RatingProof!OrderFree, Rating!Table,
         RatingProof!Table
<1>28. \A o : Rating!ExpireUnfunded(o) <=> RatingProof!ExpireUnfunded(o)
  BY DEF Rating!Changed, RatingProof!Changed, Rating!ExpireUnfunded,
         RatingProof!ExpireUnfunded, Rating!Idle, RatingProof!Idle, Rating!Open,
         RatingProof!Open, Rating!OrderFree, RatingProof!OrderFree, Rating!Table,
         RatingProof!Table
<1>29. \A o : Rating!JoinOrLeave(o) <=> RatingProof!JoinOrLeave(o)
  BY DEF Rating!Changed, RatingProof!Changed, Rating!Idle, RatingProof!Idle,
         Rating!JoinOrLeave, RatingProof!JoinOrLeave
<1>30. Rating!CountByHand <=> RatingProof!CountByHand
  BY SameCardinality
     DEF Rating!Completed, RatingProof!Completed, Rating!CountByHand,
         RatingProof!CountByHand, Rating!Idle, RatingProof!Idle, Rating!Open,
         RatingProof!Open, Rating!Paid, RatingProof!Paid
<1>31. QED
  BY <1>11, <1>12, <1>13, <1>14, <1>15, <1>16, <1>17, <1>18, <1>19, <1>20, <1>21,
     <1>22, <1>23, <1>24, <1>25, <1>26, <1>27, <1>28, <1>29, <1>30
     DEF ratingVars, Rating!Next, RatingProof!Next, Rating!Request, RatingProof!Request,
         Rating!Outcomes, RatingProof!Outcomes, Rating!Completed, RatingProof!Completed,
         Rating!Paid, RatingProof!Paid, Rating!Cancelled, RatingProof!Cancelled,
         Rating!Disputed, RatingProof!Disputed, RatingProof!vars

LEMMA RatingSteps ==
    ASSUME RatingProof!RatingInv, [Rating!Next]_ratingVars
    PROVE  RatingProof!RatingInv' /\ Rating!ExclusionSticks /\ Rating!ReviewStays
<1>1. RatingProof!RatingInv' /\ RatingProof!ExclusionSticks /\ RatingProof!ReviewStays
  BY SameRatingSteps, RatingProof!RatingStep, RatingProof!VerdictsKept
<1>2. QED
  BY <1>1 DEF Rating!ExclusionSticks, RatingProof!ExclusionSticks, Rating!ReviewStays,
         RatingProof!ReviewStays, Rating!NotExcluded, RatingProof!NotExcluded,
         Rating!NoReview, RatingProof!NoReview

LEMMA RatingCounts ==
    ASSUME RatingProof!RatingInv, RatingProof!CountsInv, [Rating!Next]_ratingVars
    PROVE  RatingProof!CountsInv'
BY SameRatingSteps, RatingAssumed, RatingProof!CountsStep

LEMMA RatingTyped == ASSUME RatingProof!CountsInv PROVE Rating!TypeOK
<1>1. RatingProof!TypeOK
  BY DEF RatingProof!CountsInv
<1>2. \A f : Rating!SnapshotChecks(f) <=> RatingProof!SnapshotChecks(f)
  BY DEF Rating!SnapshotChecks, RatingProof!SnapshotChecks, Rating!Score,
         RatingProof!Score, Rating!Satisfaction, RatingProof!Satisfaction,
         Rating!Reliability, RatingProof!Reliability, Rating!DisputeHealth,
         RatingProof!DisputeHealth, Rating!NoScore, RatingProof!NoScore
<1>3. Rating!Row = RatingProof!Row /\ Rating!Review = RatingProof!Review
  BY DEF Rating!Row, RatingProof!Row, Rating!Review, RatingProof!Review,
         Rating!Outcomes, RatingProof!Outcomes, Rating!Completed, RatingProof!Completed,
         Rating!Paid, RatingProof!Paid, Rating!Cancelled, RatingProof!Cancelled,
         Rating!Disputed, RatingProof!Disputed, Rating!NotExcluded,
         RatingProof!NotExcluded
<1>4. QED
  BY <1>1, <1>2, <1>3
     DEF Rating!TypeOK, RatingProof!TypeOK, Rating!NoReview, RatingProof!NoReview,
         Rating!NoSnapshot, RatingProof!NoSnapshot, Rating!ServiceColumns,
         RatingProof!ServiceColumns, Rating!AgentColumns, RatingProof!AgentColumns,
         Rating!Figures, RatingProof!Figures, Rating!ServiceChecks,
         RatingProof!ServiceChecks, Rating!AgentChecks, RatingProof!AgentChecks

LEMMA RatingPromises == ASSUME RatingProof!RatingInv PROVE Rating!FiguresFollowRows
<1>1. RatingProof!FiguresFollowRows
  BY DEF RatingProof!RatingInv
<1>2. \A figure, theOrders, theReviews :
         Rating!FigureOf(figure, theOrders, theReviews)
             = RatingProof!FigureOf(figure, theOrders, theReviews)
  BY SameRatingFigures
<1>3. QED
  BY <1>1, <1>2 DEF Rating!FiguresFollowRows, RatingProof!FiguresFollowRows, Rating!NoSnapshot,
       RatingProof!NoSnapshot, Rating!Figures, RatingProof!Figures, Rating!AgentColumns,
       RatingProof!AgentColumns, Rating!ServiceColumns, RatingProof!ServiceColumns

-----------------------------------------------------------------------------
(* The escrow indexer, over both chains.  The tables keep their shape and  *)
(* agree with each other after each log that is applied, whatever the log, *)
(* so they do when a fork, a restart or a refusal comes between: the       *)
(* invariant says it of what is committed and of what the open transaction *)
(* sees, and says nothing of the chain but what its blocks may hold.       *)

LEMMA IndexerConstants ==
    Crowded!IndexerAssumption /\ BpsDenominator \in Nat \ {0}
    /\ MaxFeeBps \in 0 .. BpsDenominator
BY MarketplaceAssumption DEF MarketplaceAssumption

\* The fee on a value, at a rate within the cap, is at most the value.
LEMMA FeeBounded ==
    ASSUME NEW value \in Nat
    PROVE  Crowded!FeeOf(value, FeeBps) \in 0 .. value
<1>1. BpsDenominator \in Nat \ {0} /\ FeeBps \in Nat /\ FeeBps <= BpsDenominator
  BY IndexerConstants DEF Crowded!IndexerAssumption
<1>2. value * FeeBps \in Nat /\ value * FeeBps <= value * BpsDenominator
  BY <1>1
<1>3. \A x, d \in Nat, v \in Nat : d # 0 /\ x <= v * d => x \div d \in 0 .. v
  OBVIOUS
<1>4. QED
  BY <1>1, <1>2, <1>3 DEF Crowded!FeeOf

\* The figures an event carries are amounts.
EventFiguresSound(event) ==
    /\ event.name \in Crowded!EventNames /\ event.escrowId \in Crowded!Escrows
    /\ event.name \in {"EscrowCreated", "EscrowRefunded"} => event.amount \in Nat
    /\ event.name \in {"EscrowReleased", "EscrowSettled"} =>
          event.providerAmount \in Nat /\ event.feeAmount \in Nat
    /\ event.name = "EscrowSettled" => event.buyerAmount \in Nat

LEMMA EventsCarryAmounts ==
    ASSUME NEW event \in Crowded!Events
    PROVE  EventFiguresSound(event)
<1>1. Amount \in Nat /\ Shares \subseteq 0 .. Amount
  BY IndexerConstants DEF Crowded!IndexerAssumption
<1>2. Crowded!FeeOf(Amount, FeeBps) \in 0 .. Amount
  BY <1>1, FeeBounded
<1>3. CASE event \in {Crowded!EscrowCreated(s, Amount) : s \in Strangers}
  BY <1>1, <1>3 DEF Crowded!EscrowCreated, EventFiguresSound, Crowded!EventNames, Crowded!Escrows
<1>4. CASE event \in UNION {Crowded!EventsOf(o, Amount, FeeBps, Shares) : o \in Orders}
  <2>1. PICK o \in Orders : event \in Crowded!EventsOf(o, Amount, FeeBps, Shares)
    BY <1>4
  <2>2. CASE event = Crowded!EscrowCreated(o, Amount)
    BY <1>1, <2>2 DEF Crowded!EscrowCreated, EventFiguresSound, Crowded!EventNames, Crowded!Escrows
  <2>3. CASE event = Crowded!EscrowReleased(o, Amount, FeeBps)
    BY <1>1, <1>2, <2>3 DEF Crowded!EscrowReleased, EventFiguresSound, Crowded!EventNames,
                            Crowded!Escrows
  <2>4. CASE event = Crowded!EscrowRefunded(o, Amount)
    BY <1>1, <2>4 DEF Crowded!EscrowRefunded, EventFiguresSound, Crowded!EventNames, Crowded!Escrows
  <2>5. CASE event = Crowded!EscrowDisputed(o)
    BY <2>5 DEF Crowded!EscrowDisputed, EventFiguresSound, Crowded!EventNames, Crowded!Escrows
  <2>6. CASE event \in {Crowded!EscrowSettled(o, Amount, share, FeeBps) : share \in Shares}
    <3>1. PICK share \in Shares : event = Crowded!EscrowSettled(o, Amount, share, FeeBps)
      BY <2>6
    <3>2. share \in 0 .. Amount /\ Crowded!FeeOf(share, FeeBps) \in 0 .. share
      BY <1>1, FeeBounded
    <3>3. QED
      BY <1>1, <3>1, <3>2 DEF Crowded!EscrowSettled, EventFiguresSound, Crowded!EventNames,
                              Crowded!Escrows
  <2>7. QED
    BY <2>1, <2>2, <2>3, <2>4, <2>5, <2>6 DEF Crowded!EventsOf
<1>5. DEFINE ordered == UNION {Crowded!EventsOf(o, Amount, FeeBps, Shares) : o \in Orders}
             unknown == {Crowded!EscrowCreated(s, Amount) : s \in Strangers}
<1>6. event \in ordered \/ event \in unknown
  BY DEF Crowded!Events
<1>7. event \in ordered => EventFiguresSound(event)
  BY <1>4
<1>8. event \in unknown => EventFiguresSound(event)
  BY <1>3
<1> HIDE DEF ordered, unknown
<1>9. QED
  BY <1>6, <1>7, <1>8

\* An event that comes before its escrow's creation leaves no trace.
Early(row, name) == row.status = "absent" /\ name # "EscrowCreated"

\* The status a row has after an event.
StatusAfter(row, name) ==
    IF Early(row, name) THEN "absent"
    ELSE IF Crowded!OrderStatusFor(name) = "completed" THEN "released"
     ELSE Crowded!OrderStatusFor(name)

\* Applying an event to a row makes a row, in the state the event stands for.
LEMMA RowApplied ==
    ASSUME NEW row \in Crowded!EscrowRow, NEW event, EventFiguresSound(event)
    PROVE  /\ Crowded!ApplyToEscrow(row, event) \in Crowded!EscrowRow
           /\ Crowded!ApplyToEscrow(row, event).status = StatusAfter(row, event.name)
<1>1. event.name \in Crowded!EventNames
  BY DEF EventFiguresSound
<1>2. CASE event.name = "EscrowCreated"
  <2>1. Crowded!ApplyToEscrow(row, event) = Crowded!ApplyCreated(row, event)
    BY <1>2 DEF Crowded!ApplyToEscrow
  <2>2. event.amount \in Nat
    BY <1>2 DEF EventFiguresSound
  <2>3. /\ Crowded!ApplyCreated(row, event) \in Crowded!EscrowRow
        /\ Crowded!ApplyCreated(row, event).status = "funded"
    BY <2>2 DEF Crowded!ApplyCreated, Crowded!NoRow, Crowded!EscrowRow
  <2>4. StatusAfter(row, event.name) = "funded"
    BY <1>2 DEF StatusAfter, Early, Crowded!OrderStatusFor
  <2>5. QED
    BY <2>1, <2>3, <2>4
<1>3. CASE Early(row, event.name)
  <2>1. Crowded!ApplyToEscrow(row, event) = row
    BY <1>1, <1>3 DEF Crowded!ApplyToEscrow, Early, Crowded!EventNames
  <2>2. QED
    BY <2>1, <1>3 DEF StatusAfter, Early
<1>4. CASE event.name = "EscrowReleased" /\ row.status # "absent"
  <2>1. Crowded!ApplyToEscrow(row, event) = Crowded!ApplyReleased(row, event)
    BY <1>4 DEF Crowded!ApplyToEscrow
  <2>2. event.providerAmount \in Nat /\ event.feeAmount \in Nat
    BY <1>4 DEF EventFiguresSound
  <2>3. DEFINE sum == event.providerAmount + event.feeAmount
               gross == IF sum = 0 THEN row.amount ELSE sum
  <2>4. gross \in Nat
    BY <2>2 DEF Crowded!EscrowRow
  <2> HIDE DEF gross
  <2>5. Crowded!ApplyReleased(row, event) =
            [row EXCEPT !.status = "released", !.amount = gross,
                        !.released_amount = gross, !.fee_amount = event.feeAmount,
                        !.released_at = TRUE]
    BY DEF Crowded!ApplyReleased, gross
  <2>6. /\ Crowded!ApplyReleased(row, event) \in Crowded!EscrowRow
        /\ Crowded!ApplyReleased(row, event).status = "released"
    BY <2>2, <2>4, <2>5 DEF Crowded!EscrowRow
  <2>7. StatusAfter(row, event.name) = "released"
    BY <1>4 DEF StatusAfter, Early, Crowded!OrderStatusFor
  <2>8. QED
    BY <2>1, <2>6, <2>7
<1>5. CASE event.name = "EscrowRefunded" /\ row.status # "absent"
  <2>1. Crowded!ApplyToEscrow(row, event) = Crowded!ApplyRefunded(row, event)
    BY <1>5 DEF Crowded!ApplyToEscrow
  <2>2. event.amount \in Nat
    BY <1>5 DEF EventFiguresSound
  <2>3. DEFINE refunded == IF event.amount = 0 THEN row.amount ELSE event.amount
  <2>4. refunded \in Nat
    BY <2>2 DEF Crowded!EscrowRow
  <2> HIDE DEF refunded
  <2>5. Crowded!ApplyRefunded(row, event) =
            [row EXCEPT !.status = "refunded", !.amount = refunded,
                        !.refunded_amount = refunded, !.refunded_at = TRUE]
    BY DEF Crowded!ApplyRefunded, refunded
  <2>6. /\ Crowded!ApplyRefunded(row, event) \in Crowded!EscrowRow
        /\ Crowded!ApplyRefunded(row, event).status = "refunded"
    BY <2>4, <2>5 DEF Crowded!EscrowRow
  <2>7. StatusAfter(row, event.name) = "refunded"
    BY <1>5 DEF StatusAfter, Early, Crowded!OrderStatusFor
  <2>8. QED
    BY <2>1, <2>6, <2>7
<1>6. CASE event.name = "EscrowDisputed" /\ row.status # "absent"
  <2>1. Crowded!ApplyToEscrow(row, event) = Crowded!ApplyDisputed(row)
    BY <1>6 DEF Crowded!ApplyToEscrow
  <2>2. /\ Crowded!ApplyDisputed(row) \in Crowded!EscrowRow
        /\ Crowded!ApplyDisputed(row).status = "disputed"
    BY DEF Crowded!ApplyDisputed, Crowded!EscrowRow
  <2>3. StatusAfter(row, event.name) = "disputed"
    BY <1>6 DEF StatusAfter, Early, Crowded!OrderStatusFor
  <2>4. QED
    BY <2>1, <2>2, <2>3
<1>7. CASE event.name = "EscrowSettled" /\ row.status # "absent"
  <2>1. Crowded!ApplyToEscrow(row, event) = Crowded!ApplySettled(row, event)
    BY <1>7 DEF Crowded!ApplyToEscrow
  <2>2. /\ event.providerAmount \in Nat /\ event.feeAmount \in Nat
        /\ event.buyerAmount \in Nat
    BY <1>7 DEF EventFiguresSound
  <2>3. DEFINE gross == Crowded!SettledGross(event)
               kind == Crowded!SettlementResolution(gross, event.buyerAmount)
  <2>4. gross \in Nat
    BY <2>2 DEF Crowded!SettledGross
  <2>5. kind \in {"released_to_provider", "refunded_to_buyer", "split"}
    BY <2>2, <2>4 DEF Crowded!SettlementResolution
  <2>6. Crowded!ApplySettled(row, event) =
            [row EXCEPT !.status = "released", !.released_amount = gross,
                        !.refunded_amount = event.buyerAmount,
                        !.fee_amount = event.feeAmount,
                        !.released_at = TRUE, !.dispute_resolved_at = TRUE,
                        !.dispute_resolution = kind]
    BY DEF Crowded!ApplySettled
  <2> HIDE DEF gross, kind
  <2>7. /\ Crowded!ApplySettled(row, event) \in Crowded!EscrowRow
        /\ Crowded!ApplySettled(row, event).status = "released"
    BY <2>2, <2>4, <2>5, <2>6 DEF Crowded!EscrowRow
  <2>8. StatusAfter(row, event.name) = "released"
    BY <1>7 DEF StatusAfter, Early, Crowded!OrderStatusFor
  <2>9. QED
    BY <2>1, <2>7, <2>8
<1>8. QED
  BY <1>1, <1>2, <1>3, <1>4, <1>5, <1>6, <1>7 DEF Early, Crowded!EventNames

-----------------------------------------------------------------------------
(* The tables.                                                             *)

OrderRow == [status : Crowded!OrderStatuses, completed_at : BOOLEAN]

Tables(d) ==
    /\ DOMAIN d = {"orders", "rows", "txs", "trail", "cursor"}
    /\ d.orders \in [Orders -> OrderRow]
    /\ d.rows \in [Orders -> Crowded!EscrowRow]
    /\ d.trail \in [Orders -> [Crowded!EventNames -> 0 .. 2]]

\* An order is in the state of its escrow.
Agreed(rowStatus, orderStatus) ==
    CASE rowStatus = "absent" -> orderStatus \in {"pending", "expired"}
      [] rowStatus = "released" -> orderStatus = "completed"
      [] OTHER -> orderStatus = rowStatus

AllAgreed(d) == \A o \in Orders : Agreed(d.rows[o].status, d.orders[o].status)

LEMMA OrderApplied ==
    ASSUME NEW theOrder \in OrderRow, NEW name \in Crowded!EventNames
    PROVE  /\ Crowded!ApplyToOrder(theOrder, name) \in OrderRow
           /\ Crowded!ApplyToOrder(theOrder, name).status = Crowded!OrderStatusFor(name)
<1>1. Crowded!OrderStatusFor(name) \in Crowded!OrderStatuses
  BY DEF Crowded!OrderStatusFor, Crowded!OrderStatuses, Crowded!EventNames
<1>2. (theOrder.completed_at \/ Crowded!OrderStatusFor(name) = "completed") \in BOOLEAN
  OBVIOUS
<1>3. Crowded!ApplyToOrder(theOrder, name).status = Crowded!OrderStatusFor(name)
  BY DEF Crowded!ApplyToOrder
<1>4. Crowded!ApplyToOrder(theOrder, name) \in OrderRow
  BY <1>1, <1>2 DEF Crowded!ApplyToOrder, OrderRow
<1>5. QED
  BY <1>3, <1>4

\* What one event changes: a is d with the log applied.
EventEffect(d, log, a) ==
    LET e == log.event.escrowId
        name == log.event.name
    IN /\ Tables(a) /\ a.cursor = d.cursor
       /\ AllAgreed(d) => AllAgreed(a)
       /\ \A o \in Orders : a.orders[o].status = "expired" => d.orders[o].status = "expired"
       /\ DOMAIN a.txs = IF e \in Orders /\ Crowded!HasTxType(name)
                         THEN DOMAIN d.txs \cup {log.tx} ELSE DOMAIN d.txs
       /\ \A o \in Orders :
             a.rows[o] = IF o = e /\ ~Crowded!Seen(d, log)
                         THEN Crowded!ApplyToEscrow(d.rows[o], log.event) ELSE d.rows[o]
       /\ \A o \in Orders, n \in Crowded!EventNames :
             a.trail[o][n] = IF o = e /\ n = name /\ ~Crowded!Seen(d, log)
                             THEN Crowded!Noted(d.trail[o][n]) ELSE d.trail[o][n]

LEMMA EventTables ==
    ASSUME NEW d, Tables(d), NEW log, EventFiguresSound(log.event)
    PROVE  EventEffect(d, log, Crowded!ApplyEvent(d, log))
<1>1. DEFINE a == Crowded!ApplyEvent(d, log)
             e == log.event.escrowId
             name == log.event.name
<1>2. name \in Crowded!EventNames
  BY DEF EventFiguresSound
<1>3. CASE e \notin Orders
  <2>1. a = d
    BY <1>3 DEF Crowded!ApplyEvent
  <2>2. QED
    BY <2>1, <1>3 DEF EventEffect
<1>4. CASE e \in Orders /\ Crowded!Seen(d, log)
  <2>1. a = [d EXCEPT !.txs[log.tx] = log.block]
    BY <1>4 DEF Crowded!ApplyEvent
  <2>2. log.tx \in DOMAIN d.txs
    BY <1>4 DEF Crowded!Seen
  <2> HIDE DEF a
  <2>3. /\ DOMAIN a = {"orders", "rows", "txs", "trail", "cursor"}
        /\ a.orders = d.orders /\ a.rows = d.rows /\ a.trail = d.trail
        /\ a.cursor = d.cursor /\ DOMAIN a.txs = DOMAIN d.txs
    BY <2>1 DEF Tables
  <2>4. QED
    BY <2>2, <2>3, <1>4 DEF EventEffect, Tables, AllAgreed, a
<1>5. CASE e \in Orders /\ ~Crowded!Seen(d, log)
  <2>1. DEFINE row == Crowded!ApplyToEscrow(d.rows[e], log.event)
               ord == IF Early(d.rows[e], name) THEN d.orders[e]
                      ELSE Crowded!ApplyToOrder(d.orders[e], name)
  <2>2. a = [d EXCEPT !.txs = Crowded!RecordTransaction(d.txs, log),
                      !.rows[e] = row, !.orders[e] = ord,
                      !.trail[e][name] = Crowded!Noted(d.trail[e][name])]
    BY <1>5 DEF Crowded!ApplyEvent, Early
  <2>3. /\ d.rows[e] \in Crowded!EscrowRow /\ d.orders[e] \in OrderRow
        /\ d.trail[e] \in [Crowded!EventNames -> 0 .. 2] /\ d.trail[e][name] \in 0 .. 2
    BY <1>2, <1>5 DEF Tables
  <2>4. row \in Crowded!EscrowRow /\ row.status = StatusAfter(d.rows[e], name)
    BY <2>3, RowApplied
  <2>5. /\ ord \in OrderRow
        /\ ord.status = IF Early(d.rows[e], name) THEN d.orders[e].status
                        ELSE Crowded!OrderStatusFor(name)
    BY <1>2, <2>3, OrderApplied
  <2>6. Crowded!Noted(d.trail[e][name]) \in 0 .. 2
    BY <2>3 DEF Crowded!Noted
  <2> HIDE DEF a, row, ord
  <2>7. /\ DOMAIN a = {"orders", "rows", "txs", "trail", "cursor"}
        /\ a.cursor = d.cursor /\ a.txs = Crowded!RecordTransaction(d.txs, log)
        /\ a.rows = [d.rows EXCEPT ![e] = row]
        /\ a.orders = [d.orders EXCEPT ![e] = ord]
        /\ a.trail = [d.trail EXCEPT ![e][name] = Crowded!Noted(d.trail[e][name])]
    BY <2>2 DEF Tables
  <2>8. a.rows \in [Orders -> Crowded!EscrowRow] /\ a.orders \in [Orders -> OrderRow]
    <3>1. d.rows \in [Orders -> Crowded!EscrowRow] /\ d.orders \in [Orders -> OrderRow]
      BY DEF Tables
    <3>2. a.rows \in [Orders -> Crowded!EscrowRow]
      BY <3>1, <2>4, <2>7
    <3>3. a.orders \in [Orders -> OrderRow]
      BY <3>1, <2>5, <2>7
    <3>4. QED
      BY <3>2, <3>3
  <2>9. a.trail \in [Orders -> [Crowded!EventNames -> 0 .. 2]]
    <3>1. [d.trail[e] EXCEPT ![name] = Crowded!Noted(d.trail[e][name])]
            \in [Crowded!EventNames -> 0 .. 2]
      BY <2>3, <2>6
    <3>2. a.trail = [d.trail EXCEPT ![e] =
                       [d.trail[e] EXCEPT ![name] = Crowded!Noted(d.trail[e][name])]]
      BY <1>5, <2>7 DEF Tables
    <3>3. d.trail \in [Orders -> [Crowded!EventNames -> 0 .. 2]]
      BY DEF Tables
    <3>4. QED
      BY <3>1, <3>2, <3>3
  <2>10. Tables(a)
    BY <2>7, <2>8, <2>9 DEF Tables
  <2>11. \A o \in Orders : /\ a.rows[o] = IF o = e THEN row ELSE d.rows[o]
                           /\ a.orders[o] = IF o = e THEN ord ELSE d.orders[o]
    BY <2>7 DEF Tables
  <2>12. \A o \in Orders, n \in Crowded!EventNames :
            a.trail[o][n] = IF o = e /\ n = name THEN Crowded!Noted(d.trail[o][n])
                            ELSE d.trail[o][n]
    BY <1>2, <1>5, <2>7 DEF Tables
  <2>13. DOMAIN a.txs = IF Crowded!HasTxType(name) THEN DOMAIN d.txs \cup {log.tx} ELSE DOMAIN d.txs
    BY <2>7 DEF Crowded!RecordTransaction
  <2>14. AllAgreed(d) => AllAgreed(a)
    <3>1. SUFFICES ASSUME AllAgreed(d), NEW o \in Orders
                   PROVE  Agreed(a.rows[o].status, a.orders[o].status)
      BY DEF AllAgreed
    <3>2. CASE o # e
      BY <3>1, <3>2, <2>11 DEF AllAgreed
    <3>3. CASE o = e /\ Early(d.rows[e], name)
      <4>1. a.rows[o].status = "absent" /\ a.orders[o].status = d.orders[o].status
        BY <3>3, <2>4, <2>5, <2>11 DEF StatusAfter
      <4>2. d.rows[o].status = "absent"
        BY <3>3 DEF Early
      <4>3. QED
        BY <3>1, <4>1, <4>2 DEF AllAgreed
    <3>4. CASE o = e /\ ~Early(d.rows[e], name)
      <4>1. /\ a.rows[o].status = IF Crowded!OrderStatusFor(name) = "completed" THEN "released"
                                  ELSE Crowded!OrderStatusFor(name)
            /\ a.orders[o].status = Crowded!OrderStatusFor(name)
        BY <3>4, <2>4, <2>5, <2>11 DEF StatusAfter
      <4>2. Crowded!OrderStatusFor(name) \in {"funded", "completed", "refunded", "disputed"}
        BY <1>2 DEF Crowded!OrderStatusFor, Crowded!EventNames
      <4>3. QED
        BY <4>1, <4>2 DEF Agreed
    <3>5. QED
      BY <3>2, <3>3, <3>4
  <2>15. \A o \in Orders : a.orders[o].status = "expired" => d.orders[o].status = "expired"
    <3>1. Crowded!OrderStatusFor(name) # "expired"
      BY <1>2 DEF Crowded!OrderStatusFor, Crowded!EventNames
    <3>2. QED
      BY <3>1, <2>5, <2>11
  <2>16. QED
    BY <1>5, <2>7, <2>10, <2>11, <2>12, <2>13, <2>14, <2>15 DEF EventEffect, a, row
<1>6. QED
  BY <1>3, <1>4, <1>5

-----------------------------------------------------------------------------
(* Applying a chunk.                                                       *)

\* One event is applied, unless the tables have refused one before.
Applied(d, log) == IF Crowded!Checks(d) THEN Crowded!ApplyEvent(d, log) ELSE d

ApplyBody(f, d, logs, n) ==
    [i \in 0 .. n |-> IF i = 0 THEN d ELSE Applied(f[i - 1], logs[i])]

\* The recursion that applies a chunk has a solution.
LEMMA ApplySolvable ==
    ASSUME NEW d, NEW logs, NEW n \in Nat
    PROVE  \E f : f = ApplyBody(f, d, logs, n)
<1>1. DEFINE Solvable == {k \in 0 .. n : \E f : f = ApplyBody(f, d, logs, k)}
<1>2. 0 \in Solvable
  <2>1. [i \in 0 .. 0 |-> d] = ApplyBody([i \in 0 .. 0 |-> d], d, logs, 0)
    BY DEF ApplyBody
  <2>2. QED
    BY <2>1
<1>3. \A k \in 1 .. n : k - 1 \in Solvable => k \in Solvable
  <2>1. SUFFICES ASSUME NEW k \in 1 .. n, k - 1 \in Solvable
                 PROVE  k \in Solvable
    OBVIOUS
  <2>2. PICK f : f = ApplyBody(f, d, logs, k - 1)
    BY <2>1
  <2>3. DEFINE g == [i \in 0 .. k |-> IF i = k THEN Applied(f[k - 1], logs[k]) ELSE f[i]]
  <2>4. \A i \in 0 .. k : g[i] = IF i = 0 THEN d ELSE Applied(g[i - 1], logs[i])
    <3>1. SUFFICES ASSUME NEW i \in 0 .. k
                   PROVE  g[i] = IF i = 0 THEN d ELSE Applied(g[i - 1], logs[i])
      OBVIOUS
    <3>2. \A j \in 0 .. k - 1 : f[j] = IF j = 0 THEN d ELSE Applied(f[j - 1], logs[j])
      BY <2>2 DEF ApplyBody
    <3>3. CASE i = k
      BY <3>3, <2>1
    <3>4. CASE i # k
      BY <3>4, <3>2, <2>1
    <3>5. QED
      BY <3>3, <3>4
  <2>5. g = ApplyBody(g, d, logs, k)
    BY <2>4 DEF ApplyBody
  <2>6. QED
    BY <2>1, <2>5
<1>4. n \in Solvable
  <2>1. \A i \in 0 .. n : i \in Solvable
    <3> HIDE DEF Solvable
    <3>1. QED
      BY <1>2, <1>3, IntervalInduction
  <2>2. QED
    BY <2>1
<1>5. QED
  BY <1>4

\* The tables after each of the logs.
Stages(f, d, logs) ==
    /\ f[0] = d
    /\ \A i \in 1 .. Len(logs) : f[i] = Applied(f[i - 1], logs[i])
    /\ Crowded!ApplyLogs(d, logs) = f[Len(logs)]

LEMMA ApplyUnfolds ==
    ASSUME NEW d, NEW logs, Len(logs) \in Nat
    PROVE  \E f : Stages(f, d, logs)
<1>1. DEFINE f == CHOOSE f : f = ApplyBody(f, d, logs, Len(logs))
<1>2. f = ApplyBody(f, d, logs, Len(logs))
  BY ApplySolvable
<1>3. Crowded!ApplyLogs(d, logs) = f[Len(logs)]
  BY DEF Crowded!ApplyLogs, ApplyBody, Applied
<1> HIDE DEF f
<1>4. /\ f[0] = d
      /\ \A i \in 1 .. Len(logs) : f[i] = Applied(f[i - 1], logs[i])
  BY <1>2 DEF ApplyBody
<1>5. QED
  BY <1>3, <1>4 DEF Stages

\* The figures and the lengths do not depend on the instance.
LEMMA SameLibrary ==
    \A S : Crowded!Cardinality(S) = Cardinality(S) /\ Deep!Cardinality(S) = Cardinality(S)
BY DEF Crowded!Cardinality, Deep!Cardinality, Cardinality

\* Both instances apply logs alike, and differ in what the chain does only.
LEMMA SameApplication ==
    /\ \A d, log : Deep!ApplyEvent(d, log) = Crowded!ApplyEvent(d, log)
    /\ \A d : Deep!Checks(d) <=> Crowded!Checks(d)
    /\ \A d, logs : Deep!ApplyLogs(d, logs) = Crowded!ApplyLogs(d, logs)
    /\ \A a, b : Deep!Logs(a, b) = Crowded!Logs(a, b)
<1>1. ASSUME NEW d, NEW log PROVE Deep!ApplyEvent(d, log) = Crowded!ApplyEvent(d, log)
  BY DEF Deep!ApplyEvent, Crowded!ApplyEvent, Deep!Seen, Crowded!Seen,
         Deep!RecordTransaction, Crowded!RecordTransaction, Deep!HasTxType,
         Crowded!HasTxType, Deep!ApplyToEscrow, Crowded!ApplyToEscrow,
         Deep!ApplyToOrder, Crowded!ApplyToOrder, Deep!Noted, Crowded!Noted,
         Deep!OrderStatusFor, Crowded!OrderStatusFor, Deep!ApplyCreated,
         Crowded!ApplyCreated, Deep!ApplyReleased, Crowded!ApplyReleased,
         Deep!ApplyRefunded, Crowded!ApplyRefunded, Deep!ApplyDisputed,
         Crowded!ApplyDisputed, Deep!ApplySettled, Crowded!ApplySettled,
         Deep!SettledGross, Crowded!SettledGross, Deep!SettlementResolution,
         Crowded!SettlementResolution, Deep!NoRow, Crowded!NoRow
<1>2. ASSUME NEW d PROVE Deep!Checks(d) <=> Crowded!Checks(d)
  BY DEF Deep!Checks, Crowded!Checks, Deep!RowChecks, Crowded!RowChecks
<1>3. ASSUME NEW d, NEW logs PROVE Deep!ApplyLogs(d, logs) = Crowded!ApplyLogs(d, logs)
  BY <1>1, <1>2 DEF Deep!ApplyLogs, Crowded!ApplyLogs
<1>4. ASSUME NEW a, NEW b PROVE Deep!Logs(a, b) = Crowded!Logs(a, b)
  BY SameLibrary DEF Deep!Logs, Crowded!Logs, Deep!Upto, Crowded!Upto
<1>5. QED
  BY <1>1, <1>2, <1>3, <1>4

\* What a block of either chain may hold.
MarketLog ==
    [event : Crowded!Events, tx : Seq(Crowded!Events), number : Nat, block : Nat \X Nat]

Heights ==
    /\ head \in Nat /\ peak \in Nat /\ head <= peak /\ peak <= MaxHeight /\ forks \in Nat
    /\ history \in Seq(MarketLog)

\* The tables agree with each other, in what is committed and in what the open
\* transaction sees.
InStep(d) ==
    Tables(d) /\ AllAgreed(d) /\ d.cursor \in {Crowded!NoCursor} \cup 0 .. MaxHeight

PassTyped ==
    /\ DOMAIN pass = {"phase", "next", "target", "reached", "started"}
    /\ pass.phase \in {"idle", "scanning", "sweeping"}
    /\ pass.next \in 0 .. MaxHeight + ChunkSize
    /\ pass.target \in 0 .. MaxHeight /\ pass.reached \in 0 .. MaxHeight
    /\ pass.started \in 0 .. MaxHeight

IndexerInv == Heights /\ InStep(db) /\ InStep(session) /\ PassTyped

LEMMA Depths ==
    /\ ChunkSize \in Nat \ {0} /\ Confirmations \in Nat \ {0} /\ ReorgDepth \in Nat
    /\ MaxHeight \in Nat
BY IndexerConstants DEF Crowded!IndexerAssumption

LEMMA IndexerStart == ASSUME Deep!Init PROVE IndexerInv
<1>1. Heights
  BY Depths DEF Deep!Init, Heights
<1>2. InStep(Deep!EmptyTables)
  <2>1. Crowded!NoRow \in Crowded!EscrowRow
    BY DEF Crowded!NoRow, Crowded!EscrowRow
  <2>2. Deep!NoRow = Crowded!NoRow /\ Deep!EventNames = Crowded!EventNames
    BY DEF Deep!NoRow, Crowded!NoRow, Deep!EventNames, Crowded!EventNames
  <2>3. [status |-> "pending", completed_at |-> FALSE] \in OrderRow
    BY DEF OrderRow, Crowded!OrderStatuses
  <2>4. Crowded!NoRow.status = "absent"
    BY DEF Crowded!NoRow
  <2> DEFINE d == Deep!EmptyTables
  <2>5. /\ DOMAIN d = {"orders", "rows", "txs", "trail", "cursor"}
        /\ d.orders = [o \in Orders |-> [status |-> "pending", completed_at |-> FALSE]]
        /\ d.rows = [o \in Orders |-> Crowded!NoRow]
        /\ d.trail = [o \in Orders |-> [name \in Crowded!EventNames |-> 0]]
        /\ d.cursor = -1
    BY <2>2 DEF Deep!EmptyTables, Deep!NoCursor
  <2> HIDE DEF d
  <2>6. d.orders \in [Orders -> OrderRow] /\ d.rows \in [Orders -> Crowded!EscrowRow]
    BY <2>1, <2>3, <2>5
  <2>7. d.trail \in [Orders -> [Crowded!EventNames -> 0 .. 2]]
    BY <2>5
  <2>8. AllAgreed(d)
    BY <2>4, <2>5 DEF AllAgreed, Agreed
  <2>9. QED
    BY <2>5, <2>6, <2>7, <2>8 DEF InStep, Tables, Crowded!NoCursor, d
<1>3. PassTyped
  BY Depths DEF Deep!Init, Deep!Idle, PassTyped
<1>4. QED
  BY <1>1, <1>2, <1>3 DEF Deep!Init, IndexerInv

-----------------------------------------------------------------------------
(* The chain grows and forks.                                              *)

\* The events of the instance without strangers are among the other's.
LEMMA FewerEvents == Deep!Events \subseteq Crowded!Events
<1>1. Deep!Events \subseteq
        UNION {Crowded!EventsOf(o, Amount, FeeBps, Shares) : o \in Orders}
  BY DEF Deep!Events, Deep!EventsOf, Crowded!EventsOf, Deep!EscrowCreated,
         Crowded!EscrowCreated, Deep!EscrowReleased, Crowded!EscrowReleased,
         Deep!EscrowRefunded, Crowded!EscrowRefunded, Deep!EscrowDisputed,
         Crowded!EscrowDisputed, Deep!EscrowSettled, Crowded!EscrowSettled,
         Deep!FeeOf, Crowded!FeeOf
<1>2. QED
  BY <1>1 DEF Crowded!Events

\* A block of these logs is mined.
Mined(logs) ==
    /\ head < MaxHeight
    /\ head' = head + 1
    /\ history' = history \o logs
    /\ peak' = IF head' > peak THEN head' ELSE peak
    /\ UNCHANGED <<forks, db, session, pass>>

LEMMA MinedKeeps ==
    ASSUME IndexerInv, NEW logs \in Seq(MarketLog), Mined(logs)
    PROVE  IndexerInv'
<1>1. Heights'
  BY Depths DEF IndexerInv, Heights, Mined
<1>2. InStep(db)' /\ InStep(session)' /\ PassTyped'
  BY DEF IndexerInv, Mined, InStep, Tables, AllAgreed, PassTyped
<1>3. QED
  BY <1>1, <1>2 DEF IndexerInv

LEMMA LogTyped ==
    ASSUME IndexerInv, NEW event \in Crowded!Events, NEW tx \in Seq(Crowded!Events)
    PROVE  /\ Crowded!Log(event, tx, head + 1) \in MarketLog
           /\ Deep!Log(event, tx, head + 1) \in MarketLog
BY DEF IndexerInv, Heights, Crowded!Log, Deep!Log, MarketLog

\* The beginning of the history, and any stretch of it, is a sequence of logs.
LEMMA LogsTyped ==
    ASSUME Heights, NEW a, NEW b
    PROVE  Crowded!Logs(a, b) \in Seq(MarketLog)
<1>1. history \in Seq(MarketLog) /\ Len(history) \in Nat
  BY DEF Heights
<1>2. ASSUME NEW n PROVE Crowded!Upto(n) \in 0 .. Len(history)
  <2>1. DEFINE below == {i \in DOMAIN history : history[i].number <= n}
  <2>2. Crowded!Upto(n) = Cardinality(below)
    BY SameLibrary DEF Crowded!Upto
  <2>3. IsFiniteSet(1 .. Len(history)) /\ Cardinality(1 .. Len(history)) = Len(history)
    BY <1>1, FS_Interval
  <2>4. below \subseteq 1 .. Len(history)
    BY <1>1
  <2> HIDE DEF below
  <2>5. Cardinality(below) \in Nat /\ Cardinality(below) <= Len(history)
    BY <2>3, <2>4, FS_Subset, FS_CardinalityType
  <2>6. QED
    BY <1>1, <2>2, <2>5
<1>3. DEFINE m == Crowded!Upto(a - 1) + 1
             n == Crowded!Upto(b)
<1>4. m \in 1 .. Len(history) + 1 /\ n \in 0 .. Len(history)
  BY <1>1, <1>2
<1>5. Crowded!Logs(a, b) = SubSeq(history, m, n)
  BY DEF Crowded!Logs
<1> HIDE DEF m, n
<1>6. CASE m <= n
  BY <1>1, <1>4, <1>5, <1>6, SubSeqProperties
<1>7. CASE ~(m <= n)
  <2>1. SubSeq(history, m, n) = <<>>
    BY <1>1, <1>4, <1>7, SubSeqEmpty
  <2>2. QED
    BY <1>5, <2>1
<1>8. QED
  BY <1>6, <1>7

LEMMA ReorgKeeps ==
    ASSUME IndexerInv, NEW n \in 0 .. head - 1, head' = n,
           history' = Crowded!Logs(1, n), forks' = forks + 1,
           UNCHANGED <<peak, db, session, pass>>
    PROVE  IndexerInv'
<1>1. Crowded!Logs(1, n) \in Seq(MarketLog)
  BY LogsTyped DEF IndexerInv
<1>2. Heights'
  BY <1>1 DEF IndexerInv, Heights
<1>3. InStep(db)' /\ InStep(session)' /\ PassTyped'
  BY DEF IndexerInv, InStep, Tables, AllAgreed, PassTyped
<1>4. QED
  BY <1>2, <1>3 DEF IndexerInv

-----------------------------------------------------------------------------
(* One pass of the loop.                                                   *)

\* What a chunk leaves of the tables.
LEMMA ChunkInStep ==
    ASSUME NEW d, InStep(d), NEW logs \in Seq(MarketLog)
    PROVE  InStep(Crowded!ApplyLogs(d, logs))
<1>1. Len(logs) \in Nat
  OBVIOUS
<1>2. PICK f : Stages(f, d, logs)
  BY <1>1, ApplyUnfolds
<1>3. DEFINE P == {i \in 0 .. Len(logs) : InStep(f[i])}
<1>4. 0 \in P
  BY <1>1, <1>2 DEF Stages
<1>5. \A i \in 1 .. Len(logs) : i - 1 \in P => i \in P
  <2>1. SUFFICES ASSUME NEW i \in 1 .. Len(logs), i - 1 \in P PROVE i \in P
    OBVIOUS
  <2>2. InStep(f[i - 1]) /\ f[i] = Applied(f[i - 1], logs[i])
    BY <1>2, <2>1 DEF Stages
  <2>3. EventFiguresSound(logs[i].event)
    <3>1. logs[i] \in MarketLog
      BY <2>1
    <3>2. logs[i].event \in Crowded!Events
      BY <3>1 DEF MarketLog
    <3>3. QED
      BY <3>2, EventsCarryAmounts
  <2>4. EventEffect(f[i - 1], logs[i], Crowded!ApplyEvent(f[i - 1], logs[i]))
    BY <2>2, <2>3, EventTables DEF InStep
  <2>5. InStep(Crowded!ApplyEvent(f[i - 1], logs[i]))
    BY <2>2, <2>4 DEF InStep, EventEffect
  <2>6. InStep(f[i])
    BY <2>2, <2>5 DEF Applied
  <2>7. QED
    BY <2>1, <2>6
<1> HIDE DEF P
<1>6. \A i \in 0 .. Len(logs) : i \in P
  BY <1>1, <1>4, <1>5, IntervalInduction
<1>7. InStep(f[Len(logs)])
  BY <1>1, <1>6 DEF P
<1>8. QED
  BY <1>2, <1>7 DEF Stages

LEMMA StartScanKeeps == ASSUME IndexerInv, Crowded!StartScan PROVE IndexerInv'
<1>1. DEFINE from == Crowded!ResumePoint(db.cursor)
             target == Crowded!SafeHead(head)
<1>2. from \in 0 .. MaxHeight
  BY Depths DEF IndexerInv, InStep, Crowded!ResumePoint, Crowded!NoCursor
<1>3. target \in 0 .. MaxHeight
  BY Depths DEF IndexerInv, Heights, Crowded!SafeHead
<1>4. pass' = [phase |-> "scanning", next |-> from, target |-> target,
               reached |-> IF target < from THEN from ELSE target, started |-> peak]
      /\ UNCHANGED <<head, history, peak, forks, db, session>>
  BY DEF Crowded!StartScan
<1> HIDE DEF from, target
<1>5. PassTyped'
  BY <1>2, <1>3, <1>4, Depths DEF IndexerInv, Heights, PassTyped
<1>6. Heights' /\ InStep(db)' /\ InStep(session)'
  BY <1>4 DEF IndexerInv, Heights, InStep, Tables, AllAgreed
<1>7. QED
  BY <1>5, <1>6 DEF IndexerInv

LEMMA IdleTyped == ASSUME IndexerInv, pass' = Crowded!Idle PROVE PassTyped'
BY Depths DEF Crowded!Idle, PassTyped

LEMMA ScanChunkKeeps == ASSUME IndexerInv, Crowded!ScanChunk PROVE IndexerInv'
<1>1. DEFINE logs == Crowded!Logs(pass.next, Crowded!ChunkEnd(pass.next, pass.target))
             after == Crowded!ApplyLogs(session, logs)
<1>2. /\ pass.next <= pass.target /\ UNCHANGED <<head, history, peak, forks, db>>
      /\ \/ session' = after /\ pass' = [pass EXCEPT !.next = @ + ChunkSize]
         \/ session' = db /\ pass' = Crowded!Idle
  BY DEF Crowded!ScanChunk
<1>3. InStep(after)
  BY LogsTyped, ChunkInStep DEF IndexerInv
<1> HIDE DEF logs, after
<1>4. Heights' /\ InStep(db)'
  BY <1>2 DEF IndexerInv, Heights, InStep, Tables, AllAgreed
<1>5. InStep(session)'
  BY <1>2, <1>3 DEF IndexerInv, InStep, Tables, AllAgreed
<1>6. PassTyped'
  <2>1. CASE pass' = Crowded!Idle
    BY <2>1, IdleTyped
  <2>2. CASE pass' = [pass EXCEPT !.next = @ + ChunkSize]
    BY <1>2, <2>2, Depths DEF IndexerInv, PassTyped
  <2>3. QED
    BY <1>2, <2>1, <2>2
<1>7. QED
  BY <1>4, <1>5, <1>6 DEF IndexerInv

LEMMA CommitScanKeeps == ASSUME IndexerInv, Crowded!CommitScan PROVE IndexerInv'
<1>1. DEFINE cursor == Crowded!SaveCursor(session.cursor, pass.reached)
<1>2. /\ session' = [session EXCEPT !.cursor = cursor] /\ db' = session'
      /\ pass' = [pass EXCEPT !.phase = "sweeping"]
      /\ UNCHANGED <<head, history, peak, forks>>
  BY DEF Crowded!CommitScan
<1>3. cursor \in {Crowded!NoCursor} \cup 0 .. MaxHeight
  BY Depths DEF IndexerInv, InStep, PassTyped, Crowded!SaveCursor
<1> HIDE DEF cursor
<1>4. Heights'
  BY <1>2 DEF IndexerInv, Heights
<1>5. PassTyped'
  BY <1>2 DEF IndexerInv, PassTyped
<1>6. /\ DOMAIN session' = DOMAIN session /\ session'.orders = session.orders
      /\ session'.rows = session.rows /\ session'.trail = session.trail
      /\ session'.cursor = cursor
  BY <1>2 DEF IndexerInv, InStep, Tables
<1>7. InStep(session)'
  BY <1>3, <1>6 DEF IndexerInv, InStep, Tables, AllAgreed
<1>8. InStep(db)'
  BY <1>2, <1>7 DEF InStep, Tables, AllAgreed
<1>9. QED
  BY <1>4, <1>5, <1>7, <1>8 DEF IndexerInv

\* An order that the sweep expires is pending, so its escrow has no row.
LEMMA ExpireUnfundedKeeps == ASSUME IndexerInv, Crowded!ExpireUnfunded PROVE IndexerInv'
<1>1. /\ db' = [db EXCEPT !.orders =
                  [o \in Orders |-> IF Crowded!Stale(db.orders[o])
                                    THEN [db.orders[o] EXCEPT !.status = "expired"]
                                    ELSE db.orders[o]]]
      /\ session' = db' /\ pass' = Crowded!Idle
      /\ UNCHANGED <<head, history, peak, forks>>
  BY DEF Crowded!ExpireUnfunded
<1>2. Heights' /\ PassTyped'
  BY <1>1, IdleTyped DEF IndexerInv, Heights
<1>3. /\ DOMAIN db' = DOMAIN db /\ db'.rows = db.rows /\ db'.trail = db.trail
      /\ db'.cursor = db.cursor
      /\ db'.orders = [o \in Orders |-> IF Crowded!Stale(db.orders[o])
                                        THEN [db.orders[o] EXCEPT !.status = "expired"]
                                        ELSE db.orders[o]]
  BY <1>1 DEF IndexerInv, InStep, Tables
<1>4. ASSUME NEW o \in Orders
      PROVE  /\ db'.orders[o] \in OrderRow
             /\ Agreed(db'.rows[o].status, db'.orders[o].status)
  <2>1. /\ db.orders[o] \in OrderRow
        /\ Agreed(db.rows[o].status, db.orders[o].status)
        /\ db.rows[o] \in Crowded!EscrowRow
    BY DEF IndexerInv, InStep, Tables, AllAgreed
  <2>2. CASE Crowded!Stale(db.orders[o])
    <3>1. db.orders[o].status = "pending"
      BY <2>2 DEF Crowded!Stale
    <3>2. db.rows[o].status = "absent"
      BY <2>1, <3>1 DEF Agreed, Crowded!EscrowRow
    <3>3. db'.orders[o] = [db.orders[o] EXCEPT !.status = "expired"]
      BY <1>3, <2>2
    <3>4. db'.orders[o] \in OrderRow /\ db'.orders[o].status = "expired"
      BY <2>1, <3>3 DEF OrderRow, Crowded!OrderStatuses
    <3>5. QED
      BY <1>3, <3>2, <3>4 DEF Agreed
  <2>3. CASE ~Crowded!Stale(db.orders[o])
    BY <1>3, <2>1, <2>3
  <2>4. QED
    BY <2>2, <2>3
<1>5. InStep(db)'
  <2>1. db'.orders \in [Orders -> OrderRow]
    BY <1>3, <1>4
  <2>2. QED
    BY <1>3, <1>4, <2>1 DEF IndexerInv, InStep, Tables, AllAgreed
<1>6. InStep(session)'
  BY <1>1, <1>5 DEF InStep, Tables, AllAgreed
<1>7. QED
  BY <1>2, <1>5, <1>6 DEF IndexerInv

\* The process dies.
LEMMA CrashKeeps ==
    ASSUME IndexerInv, session' = db, pass' = Crowded!Idle,
           UNCHANGED <<head, history, peak, forks, db>>
    PROVE  IndexerInv'
<1>1. Heights' /\ PassTyped'
  BY IdleTyped DEF IndexerInv, Heights
<1>2. InStep(db)' /\ InStep(session)'
  BY DEF IndexerInv, InStep, Tables, AllAgreed
<1>3. QED
  BY <1>1, <1>2 DEF IndexerInv

LEMMA SameWorkerSteps ==
    Deep!Worker <=> Crowded!Worker
<1>1. Deep!StartScan <=> Crowded!StartScan
  BY DEF Deep!StartScan, Crowded!StartScan, Deep!ResumePoint, Crowded!ResumePoint,
         Deep!SafeHead, Crowded!SafeHead, Deep!NoCursor, Crowded!NoCursor
<1>2. Deep!ScanChunk <=> Crowded!ScanChunk
  BY SameApplication
     DEF Deep!ScanChunk, Crowded!ScanChunk, Deep!ChunkEnd, Crowded!ChunkEnd, Deep!Idle,
         Crowded!Idle
<1>3. Deep!CommitScan <=> Crowded!CommitScan
  BY DEF Deep!CommitScan, Crowded!CommitScan, Deep!SaveCursor, Crowded!SaveCursor,
         Deep!NoCursor, Crowded!NoCursor
<1>4. Deep!ExpireUnfunded <=> Crowded!ExpireUnfunded
  BY DEF Deep!ExpireUnfunded, Crowded!ExpireUnfunded, Deep!Stale, Crowded!Stale,
         Deep!Idle, Crowded!Idle
<1>5. QED
  BY <1>1, <1>2, <1>3, <1>4 DEF Deep!Worker, Crowded!Worker

LEMMA WorkerKeeps == ASSUME IndexerInv, Crowded!Worker PROVE IndexerInv'
BY StartScanKeeps, ScanChunkKeeps, CommitScanKeeps, ExpireUnfundedKeeps DEF Crowded!Worker

LEMMA StutterKeeps == ASSUME IndexerInv, UNCHANGED indexerVars PROVE IndexerInv'
BY DEF indexerVars, IndexerInv, Heights, InStep, Tables, AllAgreed, PassTyped

LEMMA CrowdedStep == ASSUME IndexerInv, [Crowded!Next]_indexerVars PROVE IndexerInv'
<1>1. CASE Crowded!MineEmpty
  <2>1. <<>> \in Seq(MarketLog) /\ Mined(<<>>)
    BY <1>1 DEF Crowded!MineEmpty, Crowded!Mine, Mined
  <2>2. QED
    BY <2>1, MinedKeeps
<1>2. CASE Crowded!MineCall
  <2>1. PICK event \in Crowded!Events :
           Crowded!Mine(<<Crowded!Log(event, <<event>>, head + 1)>>)
    BY <1>2 DEF Crowded!MineCall
  <2>2. Crowded!Log(event, <<event>>, head + 1) \in MarketLog
    <3>1. <<event>> \in Seq(Crowded!Events)
      OBVIOUS
    <3>2. QED
      BY <3>1, LogTyped
  <2>3. <<Crowded!Log(event, <<event>>, head + 1)>> \in Seq(MarketLog)
    BY <2>2
  <2>4. Mined(<<Crowded!Log(event, <<event>>, head + 1)>>)
    BY <2>1 DEF Crowded!Mine, Mined
  <2>5. QED
    BY <2>3, <2>4, MinedKeeps
<1>3. CASE Crowded!MineTwoCalls
  <2>1. PICK first \in Crowded!Events : \E second \in Crowded!Events :
           \/ Crowded!Mine(<<Crowded!Log(first, <<first>>, head + 1),
                            Crowded!Log(second, <<second>>, head + 1)>>)
           \/ Crowded!Mine(<<Crowded!Log(first, <<first, second>>, head + 1),
                            Crowded!Log(second, <<first, second>>, head + 1)>>)
    BY <1>3 DEF Crowded!MineTwoCalls
  <2>2. PICK second \in Crowded!Events :
           \/ Crowded!Mine(<<Crowded!Log(first, <<first>>, head + 1),
                            Crowded!Log(second, <<second>>, head + 1)>>)
           \/ Crowded!Mine(<<Crowded!Log(first, <<first, second>>, head + 1),
                            Crowded!Log(second, <<first, second>>, head + 1)>>)
    BY <2>1
  <2>3. /\ <<first>> \in Seq(Crowded!Events) /\ <<second>> \in Seq(Crowded!Events)
        /\ <<first, second>> \in Seq(Crowded!Events)
    BY <2>1, <2>2
  <2>4. ASSUME NEW a \in Seq(Crowded!Events), NEW b \in Seq(Crowded!Events),
               Crowded!Mine(<<Crowded!Log(first, a, head + 1), Crowded!Log(second, b, head + 1)>>)
        PROVE  IndexerInv'
    <3>1. DEFINE one == Crowded!Log(first, a, head + 1)
                 two == Crowded!Log(second, b, head + 1)
    <3>2. one \in MarketLog /\ two \in MarketLog
      BY LogTyped
    <3>3. Mined(<<one, two>>)
      BY <2>4 DEF Crowded!Mine, Mined
    <3> HIDE DEF one, two
    <3>4. <<one, two>> \in Seq(MarketLog)
      BY <3>2
    <3>5. QED
      BY <3>3, <3>4, MinedKeeps
  <2>5. QED
    BY <2>2, <2>3, <2>4
<1>4. CASE Crowded!Reorg
  BY <1>4, ReorgKeeps DEF Crowded!Reorg
<1>5. CASE Crowded!Worker
  BY <1>5, WorkerKeeps
<1>6. CASE Crowded!Crash
  BY <1>6, CrashKeeps DEF Crowded!Crash
<1>7. CASE UNCHANGED indexerVars
  BY <1>7, StutterKeeps
<1>8. QED
  BY <1>1, <1>2, <1>3, <1>4, <1>5, <1>6, <1>7 DEF Crowded!Next

LEMMA DeepStep == ASSUME IndexerInv, [Deep!Next]_indexerVars PROVE IndexerInv'
<1>1. CASE Deep!MineEmpty
  <2>1. <<>> \in Seq(MarketLog) /\ Mined(<<>>)
    BY <1>1 DEF Deep!MineEmpty, Deep!Mine, Mined
  <2>2. QED
    BY <2>1, MinedKeeps
<1>2. CASE Deep!MineCall
  <2>1. PICK event \in Crowded!Events :
           Deep!Mine(<<Deep!Log(event, <<event>>, head + 1)>>)
    BY <1>2, FewerEvents DEF Deep!MineCall
  <2>2. Deep!Log(event, <<event>>, head + 1) \in MarketLog
    <3>1. <<event>> \in Seq(Crowded!Events)
      OBVIOUS
    <3>2. QED
      BY <3>1, LogTyped
  <2>3. <<Deep!Log(event, <<event>>, head + 1)>> \in Seq(MarketLog)
    BY <2>2
  <2>4. Mined(<<Deep!Log(event, <<event>>, head + 1)>>)
    BY <2>1 DEF Deep!Mine, Mined
  <2>5. QED
    BY <2>3, <2>4, MinedKeeps
<1>3. CASE Deep!MineTwoCalls
  <2>1. PICK first \in Crowded!Events : \E second \in Crowded!Events :
           \/ Deep!Mine(<<Deep!Log(first, <<first>>, head + 1),
                         Deep!Log(second, <<second>>, head + 1)>>)
           \/ Deep!Mine(<<Deep!Log(first, <<first, second>>, head + 1),
                         Deep!Log(second, <<first, second>>, head + 1)>>)
    BY <1>3, FewerEvents DEF Deep!MineTwoCalls
  <2>2. PICK second \in Crowded!Events :
           \/ Deep!Mine(<<Deep!Log(first, <<first>>, head + 1),
                         Deep!Log(second, <<second>>, head + 1)>>)
           \/ Deep!Mine(<<Deep!Log(first, <<first, second>>, head + 1),
                         Deep!Log(second, <<first, second>>, head + 1)>>)
    BY <2>1
  <2>3. /\ <<first>> \in Seq(Crowded!Events) /\ <<second>> \in Seq(Crowded!Events)
        /\ <<first, second>> \in Seq(Crowded!Events)
    BY <2>1, <2>2
  <2>4. ASSUME NEW a \in Seq(Crowded!Events), NEW b \in Seq(Crowded!Events),
               Deep!Mine(<<Deep!Log(first, a, head + 1), Deep!Log(second, b, head + 1)>>)
        PROVE  IndexerInv'
    <3>1. DEFINE one == Deep!Log(first, a, head + 1)
                 two == Deep!Log(second, b, head + 1)
    <3>2. one \in MarketLog /\ two \in MarketLog
      BY LogTyped
    <3>3. Mined(<<one, two>>)
      BY <2>4 DEF Deep!Mine, Mined
    <3> HIDE DEF one, two
    <3>4. <<one, two>> \in Seq(MarketLog)
      BY <3>2
    <3>5. QED
      BY <3>3, <3>4, MinedKeeps
  <2>5. QED
    BY <2>2, <2>3, <2>4
<1>4. CASE Deep!Reorg
  BY <1>4, ReorgKeeps, SameApplication DEF Deep!Reorg
<1>5. CASE Deep!Worker
  BY <1>5, WorkerKeeps, SameWorkerSteps
<1>6. CASE Deep!Crash
  BY <1>6, CrashKeeps DEF Deep!Crash, Deep!Idle, Crowded!Idle
<1>7. CASE UNCHANGED indexerVars
  BY <1>7, StutterKeeps
<1>8. QED
  BY <1>1, <1>2, <1>3, <1>4, <1>5, <1>6, <1>7 DEF Deep!Next

LEMMA IndexerPromises ==
    ASSUME IndexerInv
    PROVE  Crowded!OrderMatchesEscrow /\ Deep!TypeOK
<1>1. Crowded!OrderMatchesEscrow
  BY DEF IndexerInv, InStep, AllAgreed, Agreed, Crowded!OrderMatchesEscrow
<1>2. \A d \in {db, session} :
         /\ d.orders \in [Orders -> [status : Deep!OrderStatuses, completed_at : BOOLEAN]]
         /\ d.rows \in [Orders -> Deep!EscrowRow]
         /\ d.trail \in [Orders -> [Deep!EventNames -> 0 .. 2]]
         /\ d.cursor \in {Deep!NoCursor} \cup 0 .. MaxHeight
  BY DEF IndexerInv, InStep, Tables, OrderRow, Deep!OrderStatuses, Crowded!OrderStatuses,
         Deep!EscrowRow, Crowded!EscrowRow, Deep!EventNames, Crowded!EventNames,
         Deep!NoCursor, Crowded!NoCursor
<1>3. /\ pass.phase \in {"idle", "scanning", "sweeping"}
      /\ {pass.next, pass.target, pass.reached, pass.started} \subseteq 0 .. MaxHeight + ChunkSize
  BY Depths DEF IndexerInv, PassTyped
<1>4. peak \in head .. MaxHeight
  BY Depths DEF IndexerInv, Heights
<1>5. QED
  BY <1>1, <1>2, <1>3, <1>4 DEF Deep!TypeOK

-----------------------------------------------------------------------------
(* Together.                                                               *)

MarketInv ==
    /\ part \in AllParts
    /\ part = "subscriptions" => Plans!TypeOK
    /\ part = "probe" => ProbeInv /\ Probe!TypeOK
    /\ part = "monitor" => WatchInv
    /\ part = "proofs" => ProofInv
    /\ part = "catalogue" => ShopInv
    /\ part = "desk" => DeskProof!DeskInv
    /\ part = "reputation" => RatingProof!RatingInv /\ RatingProof!CountsInv
    /\ part \in Indexer => IndexerInv

LEMMA PartsAssumed ==
    /\ Plans!SubscriptionsAssumption /\ Probe!ProbeAssumption /\ Watch!MonitorAssumption
    /\ Parts \subseteq AllParts
BY MarketplaceAssumption

LEMMA Start == Init => MarketInv
BY PartsAssumed, PlansStart, ProbeStart, ProbeTypesStart, WatchStart, ProofStart,
   ShopStart, DeskStart, RatingStarts, IndexerStart DEF Init, MarketInv

\* A step is one of the component the behaviour is of.
LEMMA OwnStep ==
    ASSUME [Next]_vars
    PROVE  /\ part' = part
           /\ part = "subscriptions" => [Plans!Next]_planVars
           /\ part = "probe" => [Probe!Next]_probeVars
           /\ part = "monitor" => [Watch!Next]_monitorVars
           /\ part = "proofs" => [Proofs!Next]_proofVars
           /\ part = "catalogue" => [Shop!Next]_shopVars
           /\ part = "desk" => [Desk!Next]_deskVars
           /\ part = "reputation" => [Rating!Next]_ratingVars
           /\ part = "reorganised" => [Deep!Next]_indexerVars
           /\ part = "crowded" => [Crowded!Next]_indexerVars
BY DEF Next, vars

LEMMA Step == ASSUME MarketInv, [Next]_vars PROVE MarketInv'
BY PartsAssumed, OwnStep, PlansStep, ProbeStep, ProbeTypes, WatchStep, ProofStep,
   ShopStep, DeskStep, RatingSteps, RatingCounts, DeepStep, CrowdedStep
   DEF MarketInv, Indexer

LEMMA Invariant == Spec => []MarketInv
BY Start, Step, PTL DEF Spec

\* Committed rows have the types of their columns, and those of services,
\* agents and snapshots pass the CHECK constraints of their tables: what a
\* request computed from rows it loaded earlier is judged once, when it is sent,
\* and still passes when it is committed (recompute, _refresh_service_counters).
\* The answer the readiness check keeps was measured by now.
THEOREM RowsWellFormed == Spec => []TypeOK
<1>1. MarketInv => TypeOK
  <2>1. SUFFICES ASSUME MarketInv PROVE TypeOK
    OBVIOUS
  <2>2. CASE part \in Indexer
    <3>1. Deep!TypeOK
      BY <2>1, <2>2, IndexerPromises DEF MarketInv
    <3>2. part \notin {"reputation", "subscriptions", "catalogue", "proofs", "desk", "probe",
                      "monitor"}
      BY <2>2 DEF Indexer
    <3>3. QED
      BY <2>2, <3>1, <3>2, Zenon DEF TypeOK
  <2>3. /\ part = "reputation" => Rating!TypeOK
        /\ part = "subscriptions" => Plans!TypeOK
        /\ part = "catalogue" => Shop!TypeOK
        /\ part = "proofs" => Proofs!TypeOK
        /\ part = "desk" => Desk!TypeOK
        /\ part = "probe" => Probe!TypeOK
        /\ part = "monitor" => Watch!TypeOK
    BY <2>1, RatingTyped, ShopTyped, DeskTyped
       DEF MarketInv, ProofInv, ProofRows, WatchInv
  <2>4. part \in AllParts
    BY <2>1 DEF MarketInv
  <2>5. CASE part \notin Indexer
    <3>1. part \in {"reputation", "subscriptions", "catalogue", "proofs", "desk", "probe",
                    "monitor"}
      BY <2>4, <2>5 DEF AllParts
    <3>2. QED
      BY <2>3, <2>5, <3>1, Zenon DEF TypeOK
  <2>6. QED
    BY <2>2, <2>5
<1>2. QED
  BY <1>1, Invariant, PTL

\* Coverage is bought at the full price of a plan, and nothing shortens it
\* (subscribe, renew and cancel of AgoreumSubscriptions).
THEOREM CoverageAlwaysPaid == Spec => CoverageIsPaid
<1>1. MarketInv /\ [Next]_vars =>
        [part = "subscriptions" => Plans!CoverageIsPaid /\ Plans!CoverageKept]_planVars
  BY PartsAssumed, OwnStep, PlansStep DEF MarketInv
<1>2. QED
  BY <1>1, Invariant, PTL DEF Spec, CoverageIsPaid

\* However many callers wait, the node is asked at most once in a window
\* (check_chain).
THEOREM OneRoundPerTimeWindow == Spec => []OneRoundPerWindow
<1>1. MarketInv => OneRoundPerWindow
  BY DEF MarketInv, ProbeInv, OneRoundPerWindow
<1>2. QED
  BY <1>1, Invariant, PTL

\* When the monitor sleeps between two passes, the operator has been told of
\* the outage and of every governance event up to its mark (monitor.py's main).
THEOREM OutagesAreReported == Spec => []NothingUnsaid
<1>1. MarketInv => NothingUnsaid
  BY PartsAssumed, OperatorIsTold DEF MarketInv, NothingUnsaid
<1>2. QED
  BY <1>1, Invariant, PTL

\* A tier has its proof and a proof the token that was issued for it, and a
\* change of site ends the proof of the domain (verify_domain, verify_github,
\* update_agent).
THEOREM TiersFollowProofs == Spec => TierFollowsProof
<1>1. MarketInv => (part = "proofs" => Proofs!TierFollowsProof /\ Proofs!ProvenByToken)
  BY DEF MarketInv, ProofInv
<1>2. MarketInv /\ [Next]_vars => [part = "proofs" => Proofs!ProofEndsWithSite]_proofVars
  BY OwnStep, ProofStep DEF MarketInv
<1>3. QED
  BY <1>1, <1>2, Invariant, PTL DEF Spec, TierFollowsProof

\* Overlapping edits leave a price that fits the pricing model, and the count
\* of orders is right unless two placements overlapped (update_service,
\* create_order).
THEOREM ServiceRowsSound == Spec => []ServiceRowSound
<1>1. MarketInv => ServiceRowSound
  BY ShopPromises DEF MarketInv, ServiceRowSound
<1>2. QED
  BY <1>1, Invariant, PTL

\* Whatever is shown can be ordered, and an order's terms are ones the service
\* offered while it was placed (search_services, create_order).
THEOREM OrdersKeepTheirOffer == Spec => []OrdersAsOffered
<1>1. MarketInv => OrdersAsOffered
  BY ShopPromises DEF MarketInv, OrdersAsOffered
<1>2. QED
  BY <1>1, Invariant, PTL

\* However requests and the indexer overlap, an order is completed exactly
\* when its escrow has been released or settled, and is in no state that its
\* escrow has not reached (_apply_to_escrow, start_work, mark_delivered).
THEOREM PaidOrdersComplete == Spec => []NeverAheadOfChain
<1>1. MarketInv => NeverAheadOfChain
  BY DeskPromises DEF MarketInv, NeverAheadOfChain
<1>2. QED
  BY <1>1, Invariant, PTL

\* The columns of an escrow's row that mirror the chain say what the events
\* applied so far say, and a recorded decision is not erased by the indexer,
\* which loaded the row before (record_dispute_decision,
\* repair_order_from_chain, _apply_to_escrow).
THEOREM EscrowRowsKept == Spec => EscrowRowKept
<1>1. MarketInv => (part = "desk" => Desk!EscrowRowFollowsChain)
  BY DeskPromises DEF MarketInv
<1>2. MarketInv /\ [Next]_vars => [part = "desk" => Desk!DecisionsStay]_deskVars
  BY OwnStep, DeskStep DEF MarketInv
<1>3. QED
  BY <1>1, <1>2, Invariant, PTL DEF Spec, EscrowRowKept

\* No request leaves a row to which the tables refuse the indexer its next
\* event (the CHECK constraints of orders and escrows).
THEOREM IndexingNeverRefused == Spec => []WorkerNeverRefused
<1>1. MarketInv => WorkerNeverRefused
  BY DeskPromises DEF MarketInv, WorkerNeverRefused
<1>2. QED
  BY <1>1, Invariant, PTL

\* After a review, a withdrawal, an exclusion, a settlement or a recomputation
\* that no other change overlapped, what the profile, the service's page and the
\* latest snapshot show is what orders and reviews give, however many requests
\* were open meanwhile (recompute, _refresh_service_counters).
THEOREM FiguresFollowTheRows == Spec => []FiguresFollowRows
<1>1. MarketInv => FiguresFollowRows
  BY RatingPromises DEF MarketInv, FiguresFollowRows
<1>2. QED
  BY <1>1, Invariant, PTL

\* Of two operators the first's exclusion stays, and a review keeps its rating
\* and is not published again once withdrawn, whatever is open at the same time
\* (exclude_order_from_reputation, create_review, withdraw_review).
THEOREM VerdictsAreKept == Spec => VerdictsStay
<1>1. MarketInv /\ [Next]_vars =>
        [part = "reputation" => Rating!ExclusionSticks /\ Rating!ReviewStays]_ratingVars
  BY OwnStep, RatingSteps DEF MarketInv
<1>2. QED
  BY <1>1, Invariant, PTL DEF Spec, VerdictsStay

\* Whatever the chain does, forks and events in an unexpected order included,
\* and wherever the worker is refused or restarts: an order whose escrow has no
\* row is pending or expired, and any other is in the state of its escrow's row
\* (_apply_to_escrow, _apply_to_order, expire_unfunded_orders).
THEOREM OrdersAgreeWithEscrows == Spec => []OrderMatchesEscrow
<1>1. MarketInv => OrderMatchesEscrow
  BY IndexerPromises DEF MarketInv, OrderMatchesEscrow
<1>2. QED
  BY <1>1, Invariant, PTL
===============================================================================
