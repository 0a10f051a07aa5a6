------------------------------ MODULE Reputation -----------------------------
(***************************************************************************)
(* The reputation of one agent with one service (reputation/service.py),   *)
(* which is only ever computed: every request that changes what it is made *)
(* of (a review, its withdrawal, an exclusion) and every settlement the    *)
(* indexer applies reads the rows again, rewrites the counters of agent    *)
(* and service, and adds a snapshot.                                       *)
(*                                                                         *)
(* Each request is a database transaction under READ COMMITTED: every      *)
(* SELECT of gather_inputs sees what is committed when it runs, and an     *)
(* UPDATE writes the columns that differ from the row as it was loaded.    *)
(* Volume and delivery times, taken over the same orders as the count of   *)
(* completed ones, are left out, and so is who may call.                   *)
(***************************************************************************)
EXTENDS Naturals, Sequences, FiniteSets, Functions

CONSTANTS Orders,       \* orders of the service
          Requests,     \* what may be open at a time: requests and the indexer
          Ratings,      \* a subset of 1 .. 5
          MinOrders,    \* MIN_ORDERS_FOR_SCORE
          MaxBegun,     \* bound: transactions begun and memberships changed
          CountedByHand \* whether an operator maintains completed_order_count

ReputationAssumption ==
    /\ IsFiniteSet(Orders) /\ IsFiniteSet(Requests) /\ Ratings \subseteq 1 .. 5
    /\ MinOrders \in Nat \ {0} /\ MaxBegun \in Nat /\ CountedByHand \in BOOLEAN

VARIABLES order,      \* per order: its outcome, and who excluded it
          related,    \* orders whose buyer belongs to the agent's organization
          review,     \* per order: its review
          service,    \* the counters of the service's row
          agent,      \* the counters of the agent's row
          snapshot,   \* the snapshot with the latest computed_at
          txn,        \* per request: its open transaction
          computed,   \* requests with a snapshot newer than that, oldest first
          begun,
          dated       \* whether the figures have changed since they were read

vars == <<order, related, review, service, agent, snapshot, txn, computed, begun, dated>>
rows == <<order, related, review, service, agent, snapshot>>

-----------------------------------------------------------------------------
(* The rows.  An outcome stands for an order's status and its escrow's:    *)
(* "upheld", "split" and "forfeited" are settled disputes that give the    *)
(* provider everything, a part, and nothing.                               *)

Paid      == {"released", "upheld", "split"}
Completed == Paid \cup {"forfeited"}
Cancelled == {"cancelled", "refunded"}
Disputed  == {"disputed", "upheld", "split", "forfeited"}
Lost      == {"split", "forfeited"}
Outcomes  == {"open"} \cup Completed \cup Cancelled \cup Disputed

NotExcluded == "not excluded"
NoReview == [status |-> "none"]
NoSnapshot == [status |-> "none"]
Idle == [kind |-> "none"]

Row == [outcome : Outcomes, excluded : Requests \cup {NotExcluded}]
Review == [status : {"published", "withdrawn"}, rating : Ratings, answered : BOOLEAN]

\* counts_toward_reputation, over the orders a transaction sees.
Counts(orders, o) == orders[o].excluded = NotExcluded /\ o \notin related

Published(orders, reviews) ==
    {o \in Orders : reviews[o].status = "published" /\ Counts(orders, o)}

\* The SELECTs of gather_inputs: only what could flatter the agent is filtered.
FigureOf(figure, orders, reviews) ==
    CASE figure = "completed" ->
            Cardinality({o \in Orders : orders[o].outcome \in Paid /\ Counts(orders, o)})
      [] figure = "cancelled" -> Cardinality({o \in Orders : orders[o].outcome \in Cancelled})
      [] figure = "disputed"  -> Cardinality({o \in Orders : orders[o].outcome \in Disputed})
      [] figure = "lost"      -> Cardinality({o \in Orders : orders[o].outcome \in Lost})
      [] figure = "reviews"   -> Cardinality(Published(orders, reviews))
      [] figure = "ratings"   ->
            SumFunction([o \in Published(orders, reviews) |-> reviews[o].rating])

Figures == {"completed", "cancelled", "disputed", "lost", "reviews", "ratings"}
AgentColumns == Figures \ {"lost"}
ServiceColumns == {"reviews", "ratings"}

\* The three parts of compute_score, in hundredths.
Satisfaction(f) ==
    IF f.reviews = 0 THEN 3600 ELSE (6000 * (f.ratings - f.reviews)) \div (4 * f.reviews)
Reliability(f) == (2500 * f.completed) \div (f.completed + f.cancelled + f.lost)
DisputeHealth(f) ==
    IF f.disputed = 0 THEN 1500 ELSE (1500 * (f.disputed - f.lost)) \div f.disputed

NoScore == 0 - 1
Score(f) ==
    IF f.completed < MinOrders THEN NoScore
    ELSE Satisfaction(f) + Reliability(f) + DisputeHealth(f)

\* CHECK constraints of services, agents and reputation_snapshots.
ServiceChecks(row) == row.reviews <= row.completed /\ row.ratings <= 5 * row.reviews
AgentChecks(row) == row.ratings <= 5 * row.reviews
SnapshotChecks(f) ==
    f.lost <= f.disputed /\ f.ratings <= 5 * f.reviews /\ Score(f) <= 10000

-----------------------------------------------------------------------------
(* Transactions.  txn[p].row is the order or review it is about, agent and *)
(* service are the counters as its session has them, and agentCols and     *)
(* serviceCols the columns it has written.                                 *)

Open == {p \in Requests : txn[p] # Idle}

Table(kind) == IF kind \in {"exclude", "settle"} THEN "order" ELSE "review"

\* A row another transaction has written is locked until that one ends.
RowFree(p) ==
    \A q \in Open \ {p} :
        ~ /\ txn[q].written
          /\ txn[q].order = txn[p].order
          /\ Table(txn[q].kind) = Table(txn[p].kind)
OrderFree(o) ==
    \A q \in Open : ~(txn[q].written /\ txn[q].order = o /\ Table(txn[q].kind) = "order")
ServiceFree(p) == \A q \in Open \ {p} : txn[q].serviceCols = {}
AgentFree(p) == \A q \in Open \ {p} : txn[q].agentCols = {}

\* What it sees: the committed rows, and its own writes over them.
Seen(p, table, committed) ==
    IF txn[p].written /\ Table(txn[p].kind) = table
    THEN [committed EXCEPT ![txn[p].order] = txn[p].row]
    ELSE committed
Laid(columns, mine, committed) ==
    [c \in DOMAIN committed |-> IF c \in columns THEN mine[c] ELSE committed[c]]
Dirty(new, mine) == {c \in DOMAIN new : new[c] # mine[c]}
Over(new, old) ==
    [c \in DOMAIN new \cup DOMAIN old |-> IF c \in DOMAIN new THEN new[c] ELSE old[c]]

Begin(p, kind, o, row, step) ==
    /\ txn[p] = Idle
    /\ begun < MaxBegun
    /\ begun' = begun + 1
    /\ txn' = [txn EXCEPT ![p] =
                [kind |-> kind, order |-> o, row |-> row, written |-> FALSE, step |-> step,
                 f |-> [c \in {} |-> 0], agent |-> agent, service |-> service,
                 agentCols |-> {}, serviceCols |-> {}, disturbed |-> FALSE]]
    /\ UNCHANGED <<rows, computed, dated>>

\* create_review: its checks are made on the order as loaded.
CreateReview(p, o, rating) ==
    /\ order[o].outcome \in Completed
    /\ Begin(p, "review", o, [status |-> "published", rating |-> rating, answered |-> FALSE], "write")

\* withdraw_review.
WithdrawReview(p, o) ==
    review[o].status = "published" /\ Begin(p, "withdraw", o, review[o], "write")

\* respond_to_review: any status will do.
RespondToReview(p, o) ==
    /\ review[o] # NoReview
    /\ ~review[o].answered
    /\ Begin(p, "respond", o, review[o], "write")

\* exclude_order_from_reputation.
ExcludeOrder(p, o) ==
    order[o].excluded = NotExcluded /\ Begin(p, "exclude", o, order[o], "write")

\* recompute_agent_reputation, on an operator's request.
RecomputeAgent(p) == Begin(p, "recompute", 0, NoReview, "load")

\* agent_reputation computes the first snapshot when a reader asks for it.
ReadReputation(p) == snapshot = NoSnapshot /\ RecomputeAgent(p)

\* _apply_event, for the events that complete or refund an order: the one
\* indexer writes the order and recomputes in the same transaction.
Settlements(o) ==
    IF order[o].outcome = "open" THEN {"released", "refunded"}
    ELSE IF order[o].outcome = "disputed" THEN {"upheld", "split", "forfeited"} ELSE {}

ApplySettlement(p, o, outcome) ==
    /\ outcome \in Settlements(o)
    /\ \A q \in Open : txn[q].kind # "settle"
    /\ Begin(p, "settle", o, [order[o] EXCEPT !.outcome = outcome], "write")

\* latest_snapshot: the one computed last, whichever is committed last.
IsLatest(p) == \E i \in DOMAIN computed : computed[i] = p
Place(p) == CHOOSE i \in DOMAIN computed : computed[i] = p
Newer(p) == SubSeq(computed, Place(p) + 1, Len(computed))
Without(p) ==
    IF IsLatest(p) THEN SubSeq(computed, 1, Place(p) - 1) \o Newer(p) ELSE computed

Refuse(p) ==
    /\ txn' = [txn EXCEPT ![p] = Idle]
    /\ computed' = Without(p)
    /\ UNCHANGED <<rows, begun, dated>>

Proceed(p, changes) ==
    /\ txn' = [txn EXCEPT ![p] = Over(changes, txn[p])]
    /\ UNCHANGED <<rows, begun, dated>>

\* The row the flush leads to: only the changed columns are written.
RowWritten(p) ==
    LET t == txn[p] IN
    CASE t.kind = "review"   -> t.row
      [] t.kind = "withdraw" -> [review[t.order] EXCEPT !.status = "withdrawn"]
      [] t.kind = "respond"  -> [review[t.order] EXCEPT !.answered = TRUE]
      [] t.kind = "exclude"  -> [order[t.order] EXCEPT !.excluded = p]
      [] t.kind = "settle"   -> [order[t.order] EXCEPT !.outcome = t.row.outcome]

\* One review per order for ever: the unique constraint on order_id.
Unreviewed(o) == review[o] = NoReview

ExclusionAlwaysAllowed(o) == TRUE
\* The trigger on orders: an exclusion is never cleared or rewritten.
ExclusionAllowed(o) == order[o].excluded = NotExcluded

Allowed(t) ==
    CASE t.kind = "review"  -> Unreviewed(t.order)
      [] t.kind = "exclude" -> ExclusionAllowed(t.order)
      [] OTHER -> TRUE

\* The flush of what the request is about, and the SELECT of the service.
WriteRow(p) ==
    LET t == txn[p] IN
    /\ t # Idle /\ t.step = "write" /\ RowFree(p)
    /\ IF Allowed(t)
       THEN /\ Proceed(p,
                 [row |-> RowWritten(p), written |-> TRUE, service |-> service,
                  step |-> CASE t.kind \in {"review", "withdraw"} -> "count"
                             [] t.kind = "respond" -> "commit"
                             [] OTHER -> "load"])
            /\ UNCHANGED computed
       ELSE Refuse(p)

\* The UPDATE of the service's counters, if any of them changes.
FlushService(p, new, changes) ==
    LET t == txn[p]
        columns == t.serviceCols \cup Dirty(new, t.service)
        mine == Over(new, t.service) IN
    IF Dirty(new, t.service) = {}
    THEN Proceed(p, changes) /\ UNCHANGED computed
    ELSE /\ ServiceFree(p)
         /\ IF ServiceChecks(Laid(columns, mine, service))
            THEN /\ Proceed(p, Over(changes, [service |-> mine, serviceCols |-> columns]))
                 /\ UNCHANGED computed
            ELSE Refuse(p)

AtMost(a, b) == IF a < b THEN a ELSE b

\* What create_review and withdraw_review make of the counters they loaded.
Counted(t) ==
    IF t.kind = "review"
    THEN [reviews |-> t.service.reviews + 1, ratings |-> t.service.ratings + t.row.rating]
    ELSE [reviews |-> t.service.reviews - AtMost(1, t.service.reviews),
          ratings |-> t.service.ratings - AtMost(t.row.rating, t.service.ratings)]

CountReview(p) ==
    /\ txn[p] # Idle /\ txn[p].step = "count"
    /\ FlushService(p, Counted(txn[p]), [step |-> "load"])

\* recompute: the agent's row is loaded before the figures are read.
LoadAgent(p) ==
    /\ txn[p] # Idle /\ txn[p].step = "load"
    /\ Proceed(p, [agent |-> agent, step |-> "completed"])
    /\ UNCHANGED computed

MeasuredUnflushed(p, c) == FigureOf(c, order, review)
\* A figure as p's transaction sees it, its own flushed writes included.
Measured(p, c) == FigureOf(c, Seen(p, "order", order), Seen(p, "review", review))

Select(p, at, columns, next) ==
    /\ txn[p] # Idle /\ txn[p].step = at
    /\ Proceed(p, [step |-> next,
                   f |-> Over([c \in columns |-> Measured(p, c)], txn[p].f)])
    /\ UNCHANGED computed

\* gather_inputs: one SELECT after the other.
GatherInputs(p) ==
    \/ Select(p, "completed", {"completed"}, "cancelled")
    \/ Select(p, "cancelled", {"cancelled"}, "disputed")
    \/ Select(p, "disputed", {"disputed"}, "lost")
    \/ Select(p, "lost", {"lost"}, "reviews")
    \/ Select(p, "reviews", {"reviews", "ratings"}, "tell")

\* The UPDATE of the agent's counters, before the SELECTs of
\* _refresh_service_counters, which read the reviews again.
TellAgent(p) ==
    LET t == txn[p]
        columns == Dirty([c \in AgentColumns |-> t.f[c]], t.agent)
        mine == Over(t.f, t.agent) IN
    /\ t # Idle /\ t.step = "tell"
    /\ columns # {} => AgentFree(p)
    /\ IF columns = {} \/ AgentChecks(Laid(columns, mine, agent))
       THEN /\ Proceed(p, [agent |-> [c \in AgentColumns |-> mine[c]], agentCols |-> columns,
                           step |-> "totals"])
            /\ UNCHANGED computed
       ELSE Refuse(p)

\* The snapshot is dated when its object is made, before it is flushed.
CountAll(p) ==
    LET t == txn[p] IN
    /\ t # Idle /\ t.step = "totals"
    /\ Proceed(p,
         [step |-> "publish",
          service |-> IF t.kind \in {"review", "withdraw"} THEN t.service ELSE service,
          totals |-> [c \in ServiceColumns |-> Measured(p, c)]])
    /\ computed' = Append(computed, p)

\* The last flush: the service's counters, then the snapshot.
Publish(p) ==
    LET t == txn[p] IN
    /\ t # Idle /\ t.step = "publish"
    /\ IF SnapshotChecks(t.f) THEN FlushService(p, t.totals, [step |-> "commit"]) ELSE Refuse(p)

\* get_db commits; every other open transaction may have read the old rows.
Commit(p) ==
    LET t == txn[p] IN
    /\ t # Idle /\ t.step = "commit"
    /\ order' = Seen(p, "order", order)
    /\ review' = Seen(p, "review", review)
    /\ service' = Laid(t.serviceCols, t.service, service)
    /\ agent' = Laid(t.agentCols, t.agent, agent)
    /\ txn' = [q \in Requests |->
                 IF q = p THEN Idle
                 ELSE IF txn[q] = Idle \/ t.kind = "respond" THEN txn[q]
                 ELSE [txn[q] EXCEPT !.disturbed = TRUE]]
    /\ IF IsLatest(p)
       THEN snapshot' = [status |-> "published", f |-> t.f] /\ computed' = Newer(p)
       ELSE UNCHANGED <<snapshot, computed>>
    /\ dated' = IF t.kind = "respond" THEN dated ELSE t.disturbed
    /\ UNCHANGED <<related, begun>>

\* A request that fails, or that the database picks to end a deadlock.
Fail(p) == txn[p] # Idle /\ Refuse(p)

-----------------------------------------------------------------------------
(* What changes the figures without a recomputation.                       *)

Changed ==
    /\ txn' = [q \in Requests |->
                 IF txn[q] = Idle THEN Idle ELSE [txn[q] EXCEPT !.disturbed = TRUE]]
    /\ dated' = TRUE
    /\ UNCHANGED <<service, agent, snapshot, computed>>

\* EscrowDisputed is applied, or the sweep cancels an unpaid order.
ApplyDispute(o) ==
    /\ order[o].outcome = "open" /\ OrderFree(o)
    /\ order' = [order EXCEPT ![o].outcome = "disputed"]
    /\ Changed /\ UNCHANGED <<related, review, begun>>

ExpireUnfunded(o) ==
    /\ order[o].outcome = "open" /\ OrderFree(o)
    /\ order' = [order EXCEPT ![o].outcome = "cancelled"]
    /\ Changed /\ UNCHANGED <<related, review, begun>>

\* A buyer joins the agent's organization, or leaves it.
JoinOrLeave(o) ==
    /\ begun < MaxBegun /\ begun' = begun + 1
    /\ related' = IF o \in related THEN related \ {o} ELSE related \cup {o}
    /\ Changed /\ UNCHANGED <<order, review>>

\* Nothing in the application counts completed orders: who wants reviews
\* raises the counter by hand, as the tests do.
CountByHand ==
    /\ CountedByHand
    /\ \A q \in Open : txn[q].serviceCols = {}
    /\ service' = [service EXCEPT !.completed =
                      Cardinality({o \in Orders : order[o].outcome \in Completed})]
    /\ service' # service
    /\ UNCHANGED <<order, related, review, agent, snapshot, txn, computed, begun, dated>>

-----------------------------------------------------------------------------
Init ==
    /\ order = [o \in Orders |-> [outcome |-> "open", excluded |-> NotExcluded]]
    /\ related = {}
    /\ review = [o \in Orders |-> NoReview]
    /\ service = [c \in ServiceColumns \cup {"completed"} |-> 0]
    /\ agent = [c \in AgentColumns |-> 0]
    /\ snapshot = NoSnapshot
    /\ txn = [p \in Requests |-> Idle]
    /\ computed = <<>> /\ begun = 0 /\ dated = FALSE

Request(p) ==
    \/ \E o \in Orders :
          \/ \E r \in Ratings : CreateReview(p, o, r)
          \/ WithdrawReview(p, o) \/ RespondToReview(p, o) \/ ExcludeOrder(p, o)
          \/ \E outcome \in Outcomes : ApplySettlement(p, o, outcome)
    \/ RecomputeAgent(p) \/ ReadReputation(p)
    \/ WriteRow(p) \/ CountReview(p) \/ LoadAgent(p) \/ GatherInputs(p) \/ TellAgent(p)
    \/ CountAll(p) \/ Publish(p) \/ Commit(p) \/ Fail(p)

Next ==
    \/ \E p \in Requests : Request(p)
    \/ \E o \in Orders : ApplyDispute(o) \/ ExpireUnfunded(o) \/ JoinOrLeave(o)
    \/ CountByHand

Spec == Init /\ [][Next]_vars

-----------------------------------------------------------------------------
TypeOK ==
    /\ order \in [Orders -> Row]
    /\ related \subseteq Orders
    /\ review \in [Orders -> Review \cup {NoReview}]
    /\ service \in [ServiceColumns \cup {"completed"} -> Nat] /\ ServiceChecks(service)
    /\ agent \in [AgentColumns -> Nat] /\ AgentChecks(agent)
    /\ snapshot # NoSnapshot => snapshot.f \in [Figures -> Nat] /\ SnapshotChecks(snapshot.f)

\* What a buyer browses and what the profile shows is what the orders and
\* reviews give, by whichever route they last changed: a review, a withdrawal,
\* an exclusion or a settlement (recompute, _refresh_service_counters).  Only
\* requests that overlapped, a dispute, the sweep, and a buyer's membership can
\* leave them behind.
FiguresFollowRows ==
    snapshot # NoSnapshot /\ ~dated =>
        LET f == [c \in Figures |-> FigureOf(c, order, review)] IN
        /\ snapshot.f = f
        /\ \A c \in AgentColumns : agent[c] = f[c]
        /\ \A c \in ServiceColumns : service[c] = f[c]

\* An order is excluded once: of two operators at the same time, the first's
\* reason stays (exclude_order_from_reputation and the trigger).
ExclusionSticks ==
    \A o \in Orders :
        order[o].excluded # NotExcluded => order'[o].excluded = order[o].excluded

\* One review per order for ever, of the rating it was given, and a withdrawn
\* one is not published again, whatever overlaps (create_review, withdraw_review).
ReviewStays ==
    \A o \in Orders :
        review[o] # NoReview =>
            /\ review'[o] # NoReview
            /\ review'[o].rating = review[o].rating
            /\ review[o].status = "withdrawn" => review'[o].status = "withdrawn"

\* "A service cannot have more reviews than completed orders: a review can only
\* come from an order that actually completed": the first review of the first
\* completed order is one the table takes (services/models.py).
FirstReviewFits ==
    \A p \in Open :
        /\ txn[p].kind = "review" /\ txn[p].step = "count"
        /\ \A o \in Orders : review[o] = NoReview
        => ServiceChecks(Over(Counted(txn[p]), service))
=============================================================================
