------------------------------- MODULE Monitor -------------------------------
(***************************************************************************)
(* The monitor (scripts/monitor.py) and the verdicts it reads (health/     *)
(* service.py, health/router.py).  Every pass it asks the health endpoints *)
(* what is wrong and pages the operator when an outage has lasted and when *)
(* it ends; and it reports each governance event of the escrow contract,   *)
(* scanning the chain from where it stopped.  It keeps everything in       *)
(* memory, so a restart forgets it; the node may fail between two calls,   *)
(* answer from behind the head, and replace its last block.  That a        *)
(* message is sent means it is handed to Telegram, which may lose it.      *)
(***************************************************************************)
EXTENDS Integers, FiniteSets, FiniteSetsExt

CONSTANTS Threshold,      \* FAIL_THRESHOLD
          HeartbeatAfter, \* passes between two heartbeats
          OkLag, DownLag, \* blocks behind the head: still ok, still not down
          StaleAfter,     \* age of a worker's heartbeat
          MaxSkew,        \* MAX_CLOCK_SKEW_SECONDS
          Lookback,       \* GOV_LOOKBACK_BLOCKS
          MaxHead,        \* bound: height of the chain
          MaxRestarts     \* bound: restarts of the monitor

MonitorAssumption ==
    /\ Threshold \in Nat \ {0} /\ OkLag \in Nat /\ DownLag \in Nat /\ OkLag <= DownLag
    /\ {HeartbeatAfter, StaleAfter, MaxSkew, Lookback, MaxHead, MaxRestarts} \subseteq Nat

VARIABLES fails,     \* consecutive_fail
          alerted,   \* a PROBLEM alert is outstanding
          announced, \* announced_start
          quiet,     \* passes since the last heartbeat
          gov,       \* gov_cursor: the first block not scanned, or None
          head,
          events,    \* the blocks with a governance event
          told,      \* what the operator was told last about the health
          said,      \* the blocks whose event was reported
          begun,     \* where the scan of this life of the monitor began
          replaced,  \* blocks that were replaced after they were scanned
          restarts

monitorVars == <<fails, alerted, announced, quiet, gov>>
vars == <<monitorVars, head, events, told, said, begun, replaced, restarts>>

None == -1

-----------------------------------------------------------------------------
(* The verdicts.                                                           *)

\* check_indexer, check_subscription_indexer: None before the first scan.
LagVerdict(lag) ==
    IF lag = None THEN "degraded"
    ELSE IF lag <= OkLag THEN "ok"
    ELSE IF lag <= DownLag THEN "degraded"
    ELSE "down"

\* check_worker: None before the first heartbeat.
WorkerVerdict(age) ==
    IF age = None THEN "degraded"
    ELSE IF age <= StaleAfter THEN "ok"
    ELSE "down"

\* A funded escrow against an inactive agent: hours since, and hours agreed.
Overdue(row) == row.hours # None /\ row.since >= row.hours

\* stranded_verdict
StrandedVerdict(rows) ==
    IF rows = {} THEN "ok"
    ELSE IF \E r \in rows : Overdue(r) THEN "down"
    ELSE "degraded"

\* The endpoints the monitor reads.
Endpoints == {"ready", "indexer", "workers", "stranded"}

\* What a pass may meet, one thing out of order at a time: the site, endpoints
\* that do not answer, what is down behind them, and this host's distance from
\* the network's clock.
AllWell ==
    [site |-> TRUE, silent |-> {}, down |-> {}, lag |-> OkLag, age |-> StaleAfter,
     stranded |-> {}, skew |-> MaxSkew]

Findings ==
    {[AllWell EXCEPT !.site = FALSE]}
    \cup {[AllWell EXCEPT !.silent = e] : e \in SUBSET Endpoints}
    \cup {[AllWell EXCEPT !.down = d] : d \in SUBSET {"database", "redis", "chain"}}
    \cup {[AllWell EXCEPT !.lag = l] : l \in {None, DownLag, DownLag + 1}}
    \cup {[AllWell EXCEPT !.age = a] : a \in {None, StaleAfter + 1}}
    \cup {[AllWell EXCEPT !.stranded = {[since |-> 1, hours |-> h]}] : h \in {None, 1, 2}}
    \cup {[AllWell EXCEPT !.skew = k] : k \in {None, MaxSkew + 1}}

\* A check that asks what is down is down with it.
Verdict(f, asked, measured) == IF f.down \cap asked # {} THEN "down" ELSE measured

IndexerVerdict(f) == Verdict(f, {"database", "chain"}, LagVerdict(f.lag))
WorkersVerdict(f) == Verdict(f, {"redis"}, WorkerVerdict(f.age))
EscrowsVerdict(f) == Verdict(f, {"database"}, StrandedVerdict(f.stranded))

\* check: an endpoint that does not answer hides what it would have said, and
\* only /ready is missed; the clock is compared if that one answers.
Problems(f) ==
    {p \in {"site"} : ~f.site}
    \cup (IF "ready" \in f.silent THEN {"api"} ELSE f.down)
    \cup {p \in {"clock"} : "ready" \notin f.silent /\ f.skew > MaxSkew}
    \cup {p \in {"indexer"} \ f.silent : IndexerVerdict(f) = "down"}
    \cup {p \in {"workers"} \ f.silent : WorkersVerdict(f) = "down"}
    \cup {p \in {"stranded"} \ f.silent : EscrowsVerdict(f) # "ok"}

\* What a pass may find: that all is well, or that something is not.
Outcomes == {Problems(f) = {} : f \in Findings}

-----------------------------------------------------------------------------
(* The monitor.                                                            *)

Born ==
    /\ fails = 0
    /\ alerted = FALSE
    /\ announced = FALSE
    /\ quiet = 0
    /\ gov = None
    /\ begun = None

Init ==
    /\ Born
    /\ head = 1
    /\ events = {}
    /\ told = "nothing"
    /\ said = {}
    /\ replaced = {}
    /\ restarts = 0

Lasting(n) == n >= Threshold

\* main, the heartbeat: only while no alert is outstanding, even if this pass
\* failed.
Heartbeat == ~alerted' /\ quiet >= HeartbeatAfter

\* main, after the checks: the transition that is announced, if any.
Announce(healthy) ==
    LET news == CASE healthy /\ alerted -> "recovered"
                  [] healthy /\ ~alerted /\ ~announced -> "started"
                  [] ~healthy /\ ~alerted /\ Lasting(fails + 1) -> "problem"
                  [] OTHER -> told
    IN  /\ fails' = IF healthy THEN 0 ELSE Min({fails + 1, Threshold + 1})
        /\ alerted' = (~healthy /\ (alerted \/ Lasting(fails + 1)))
        /\ announced' = (announced \/ healthy \/ alerted')
        /\ quiet' = IF Heartbeat THEN 0 ELSE Min({quiet + 1, HeartbeatAfter})
        /\ told' = IF Heartbeat THEN "healthy" ELSE news

\* Where the scan takes up, given the head that the node reports.
Start(seen) == IF gov # None THEN gov ELSE Max({0, seen - Lookback})

\* The cursor after the logs could not be read.
CursorAnyway(seen) == seen + 1
CursorAfterFailure(seen) == Start(seen)

\* governance_events: the head or the logs may be missing, and the head may be
\* one that the cursor has passed already.
Govern ==
    \/ UNCHANGED <<gov, begun, said>>
    \/ \E seen \in {head, head - 1} :
          /\ begun' = IF gov = None THEN Start(seen) ELSE begun
          /\ \/ Start(seen) > seen /\ gov' = seen + 1 /\ UNCHANGED said
             \/ Start(seen) <= seen /\ gov' = CursorAfterFailure(seen) /\ UNCHANGED said
             \/ /\ Start(seen) <= seen
                /\ gov' = seen + 1
                /\ said' = said \cup {b \in events : b \in Start(seen) .. seen}

\* One iteration of main's loop.
Pass ==
    /\ \E healthy \in Outcomes : Announce(healthy)
    /\ Govern
    /\ UNCHANGED <<head, events, replaced, restarts>>

\* The container is restarted: every local variable is gone.
Restart ==
    /\ restarts < MaxRestarts
    /\ restarts' = restarts + 1
    /\ fails' = 0 /\ alerted' = FALSE /\ announced' = FALSE /\ quiet' = 0
    /\ gov' = None /\ begun' = None
    /\ UNCHANGED <<head, events, told, said, replaced>>

\* A fee change, a role, a pause, a settlement; or an ordinary block.
Contents(b) == {events \ {b}, events \cup {b}}

Mine ==
    /\ head < MaxHead
    /\ head' = head + 1
    /\ events' \in Contents(head + 1)
    /\ UNCHANGED <<monitorVars, told, said, begun, replaced, restarts>>

Reorganise ==
    /\ events' \in Contents(head)
    /\ replaced' = IF gov > head THEN replaced \cup {head} ELSE replaced
    /\ UNCHANGED <<monitorVars, head, told, said, begun, restarts>>

Next == Pass \/ Restart \/ Mine \/ Reorganise

Spec == Init /\ [][Next]_vars

-----------------------------------------------------------------------------
\* The cursor stays within one of the head, and an alert is one that lasted.
TypeOK ==
    /\ fails \in 0 .. Threshold + 1
    /\ alerted \in BOOLEAN /\ (alerted <=> fails >= Threshold)
    /\ quiet \in 0 .. HeartbeatAfter
    /\ gov \in {None} \cup 0 .. head + 1
    /\ gov = None <=> begun = None
    /\ events \subseteq 1 .. head

\* A lasting outage is the last thing the operator was told of, and once a
\* pass succeeds it no longer is, restarts included (scripts/monitor.py, main).
OperatorKnows ==
    /\ fails >= Threshold => told = "problem"
    /\ announced /\ fails = 0 => told # "problem"

\* Every governance event below the cursor was reported, whatever call failed
\* and however far behind the node answered, except one that a reorganisation
\* moved into a block already scanned and one from before this life's scan
\* (scripts/monitor.py, governance_events: "or the missed range is lost").
NoEventPassedOver ==
    \A b \in events : b < gov => b \in said \cup replaced \/ b < begun

NothingUnsaid == OperatorKnows /\ NoEventPassedOver
=============================================================================
