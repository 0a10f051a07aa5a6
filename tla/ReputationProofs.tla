--------------------------- MODULE ReputationProofs ---------------------------
(***************************************************************************)
(* The figures of a reputation follow its rows, and verdicts stay, for any *)
(* orders, ratings and number of overlapping requests.                     *)
(*                                                                         *)
(* A transaction reads, counts and writes over many steps while others     *)
(* commit.  The invariant says what it holds at each step (Held), that no  *)
(* two have written a common row (Apart), and that what it has written     *)
(* still follows from the committed row, whoever committed meanwhile       *)
(* (Follows).  Of one that nothing has disturbed it says that every figure *)
(* and counter in its session is what the rows would still give (UpToDate),*)
(* which is what its commit then publishes.                                *)
(***************************************************************************)
EXTENDS Reputation, Integers, SequenceTheorems, DataFacts, TLAPS

-----------------------------------------------------------------------------
(* The invariant.                                                          *)

\* Kinds and steps of a transaction, and the figures read by each step.
RatingKinds == {"review", "withdraw", "respond", "exclude", "settle", "recompute"}
RatingSteps == {"write", "count", "load", "completed", "cancelled", "disputed", "lost",
                "reviews", "tell", "totals", "publish", "commit"}
Upkeep == {"exclude", "settle", "recompute"}
OnReview == {"review", "withdraw", "respond"}

ReadBefore(step) ==
    CASE step \in {"write", "count", "load", "completed"} -> {}
      [] step = "cancelled" -> {"completed"}
      [] step = "disputed"  -> {"completed", "cancelled"}
      [] step = "lost"      -> {"completed", "cancelled", "disputed"}
      [] step = "reviews"   -> {"completed", "cancelled", "disputed", "lost"}
      [] OTHER -> Figures

CounterColumns == ServiceColumns \cup {"completed"}
TxnColumns == {"kind", "order", "row", "written", "step", "f", "agent", "service",
               "agentCols", "serviceCols", "disturbed"}

\* What an open transaction holds.
Held(t) ==
    /\ TxnColumns \subseteq DOMAIN t
    /\ t.kind \in RatingKinds /\ t.step \in RatingSteps
    /\ t.kind # "recompute" => t.order \in Orders
    /\ t.kind \in OnReview => t.row \in Review
    /\ t.kind \in {"exclude", "settle"} => t.row \in Row
    /\ t.kind = "recompute" => ~t.written /\ t.step \notin {"write", "count"}
    /\ t.kind = "respond" => t.step \in {"write", "commit"} /\ t.agentCols = {}
    /\ t.kind \in Upkeep => t.step # "count"
    /\ t.step = "write" => ~t.written
    /\ t.serviceCols # {} =>
          \/ t.kind \in {"review", "withdraw"} /\ t.step \notin {"write", "count"}
          \/ t.kind \in Upkeep /\ t.step = "commit"
    /\ t.step \notin {"totals", "publish", "commit"} => t.agentCols = {}
    /\ t.agentCols \subseteq AgentColumns /\ t.serviceCols \subseteq ServiceColumns
    /\ DOMAIN t.agent = AgentColumns /\ DOMAIN t.service = CounterColumns
    /\ t.f = [c \in DOMAIN t.f |-> t.f[c]]
    /\ t.kind # "respond" => DOMAIN t.f = ReadBefore(t.step)
    /\ t.step = "publish" => "totals" \in DOMAIN t /\ DOMAIN t.totals = ServiceColumns

RatingRows ==
    /\ order \in [Orders -> Row]
    /\ review \in [Orders -> Review \cup {NoReview}]
    /\ service = [c \in CounterColumns |-> service[c]]
    /\ agent = [c \in AgentColumns |-> agent[c]]
    /\ txn = [p \in Requests |-> txn[p]]
    /\ \A p \in Open : Held(txn[p])

\* Two open transactions have written no common row.
Apart(t, u) ==
    /\ ~(t.written /\ u.written /\ t.order = u.order /\ Table(t.kind) = Table(u.kind))
    /\ t.serviceCols = {} \/ u.serviceCols = {}
    /\ t.agentCols = {} \/ u.agentCols = {}
RowsApart == \A p, q \in Open : p # q => Apart(txn[p], txn[q])

\* What a transaction has written still follows from the committed row.
Follows(t, orders, reviews) ==
    /\ t.kind \in {"withdraw", "respond"} => reviews[t.order] # NoReview
    /\ t.written =>
          /\ t.kind = "review" => reviews[t.order] = NoReview
          /\ t.kind = "withdraw" => t.row.status = "withdrawn"
          /\ t.kind \in {"withdraw", "respond"} => t.row.rating = reviews[t.order].rating
          /\ t.kind = "respond" => t.row.status = reviews[t.order].status
          /\ t.kind = "exclude" => orders[t.order].excluded = NotExcluded
          /\ t.kind = "settle" => t.row.excluded = orders[t.order].excluded
RowsFollow == \A p \in Open : Follows(txn[p], order, review)

\* What a transaction has read is still so, if nothing was changed since it began.
UpToDate(p) ==
    LET t == txn[p] IN
    /\ \A c \in DOMAIN t.f : t.f[c] = Measured(p, c)
    /\ t.step \in {"completed", "cancelled", "disputed", "lost", "reviews", "tell"} =>
          \A c \in AgentColumns : t.agent[c] = agent[c]
    /\ t.step \in {"totals", "publish", "commit"} =>
          \A c \in AgentColumns :
             Measured(p, c) = IF c \in t.agentCols THEN t.agent[c] ELSE agent[c]
    /\ \A c \in ServiceColumns \ t.serviceCols : t.service[c] = service[c]
    /\ t.step = "publish" => \A c \in ServiceColumns : t.totals[c] = Measured(p, c)
    /\ t.step = "commit" => \A c \in ServiceColumns : t.service[c] = Measured(p, c)
    /\ t.step \in {"publish", "commit"} => IsLatest(p)
FiguresCurrent ==
    \A p \in Open : txn[p].kind # "respond" /\ ~txn[p].disturbed => UpToDate(p)

Computing ==
    /\ computed \in Seq(Requests)
    /\ \A i, j \in 1 .. Len(computed) : computed[i] = computed[j] => i = j
    /\ \A i \in 1 .. Len(computed) :
          LET t == txn[computed[i]] IN
          t # Idle /\ t.kind # "respond" /\ t.step \in {"publish", "commit"}

RatingInv ==
    RatingRows /\ RowsApart /\ RowsFollow /\ FiguresCurrent /\ Computing /\ FiguresFollowRows

-----------------------------------------------------------------------------
(* Operators.                                                              *)

LEMMA OverValue ==
    ASSUME NEW new, NEW old
    PROVE  /\ DOMAIN Over(new, old) = DOMAIN new \cup DOMAIN old
           /\ \A c \in DOMAIN new : Over(new, old)[c] = new[c]
           /\ \A c \in DOMAIN old \ DOMAIN new : Over(new, old)[c] = old[c]
BY DEF Over

LEMMA HeldNotIdle == ASSUME NEW t, Held(t) PROVE t # Idle
BY DEF Held, RatingKinds, Idle

LEMMA OpenTransactions ==
    ASSUME RatingInv
    PROVE  /\ \A p : p \in Open <=> p \in Requests /\ txn[p] # Idle
           /\ \A p \in Open : Held(txn[p])
BY DEF RatingInv, RatingRows, Open

LEMMA FigureColumns ==
    /\ AgentColumns \subseteq Figures /\ ServiceColumns \subseteq Figures
    /\ \A step : ReadBefore(step) \subseteq Figures
BY DEF AgentColumns, ServiceColumns, ReadBefore, Figures



\* What a transaction sees changes with its own row and the committed ones only.
LEMMA MeasuredKept ==
    ASSUME UNCHANGED <<order, related, review>>, NEW p, NEW c \in Figures,
           txn'[p].kind = txn[p].kind, txn'[p].order = txn[p].order,
           txn'[p].row = txn[p].row, txn'[p].written = txn[p].written
    PROVE  Measured(p, c)' = Measured(p, c)
<1>1. /\ Seen(p, "order", order)' = Seen(p, "order", order)
      /\ Seen(p, "review", review)' = Seen(p, "review", review)
  BY DEF Seen
<1>2. \A o : Counts(Seen(p, "order", order), o)' <=> Counts(Seen(p, "order", order), o)
  BY <1>1 DEF Counts
<1>3. Published(Seen(p, "order", order), Seen(p, "review", review))'
        = Published(Seen(p, "order", order), Seen(p, "review", review))
  BY <1>1, <1>2 DEF Published
<1>4. QED
  BY <1>1, <1>2, <1>3 DEF Measured, FigureOf, Figures

\* What is up to date stays so while counters and figures are what they were.
LEMMA UpToDateStays ==
    ASSUME NEW q, Held(txn[q]), txn[q].kind # "respond", UpToDate(q),
           txn'[q] = txn[q],
           IsLatest(q) => IsLatest(q)',
           \A c \in Figures : Measured(q, c)' = Measured(q, c),
           \A c \in AgentColumns : agent'[c] = agent[c],
           \A c \in ServiceColumns : service'[c] = service[c]
    PROVE  UpToDate(q)'
<1>1. DOMAIN txn[q].f \subseteq Figures
  BY FigureColumns DEF Held
<1>2. \A c \in Figures : c \in DOMAIN txn[q].f => txn'[q].f[c] = Measured(q, c)'
  BY DEF UpToDate
<1>3. txn'[q].step \in {"totals", "publish", "commit"} => \A c \in AgentColumns :
         Measured(q, c)' = IF c \in txn'[q].agentCols THEN txn'[q].agent[c] ELSE agent'[c]
  BY FigureColumns DEF UpToDate
<1>4. txn'[q].step = "publish" => \A c \in ServiceColumns :
         txn'[q].totals[c] = Measured(q, c)'
  BY FigureColumns DEF UpToDate
<1>5. txn'[q].step = "commit" => \A c \in ServiceColumns :
         txn'[q].service[c] = Measured(q, c)'
  BY FigureColumns DEF UpToDate
<1>6. /\ txn'[q].step \in {"completed", "cancelled", "disputed", "lost", "reviews", "tell"}
           => \A c \in AgentColumns : txn'[q].agent[c] = agent'[c]
      /\ \A c \in ServiceColumns \ txn'[q].serviceCols : txn'[q].service[c] = service'[c]
      /\ txn'[q].step \in {"publish", "commit"} => IsLatest(q)'
  BY DEF UpToDate
<1>7. \A c \in DOMAIN txn'[q].f : txn'[q].f[c] = Measured(q, c)'
  BY <1>1, <1>2
<1> QED BY <1>3, <1>4, <1>5, <1>6, <1>7 DEF UpToDate

-----------------------------------------------------------------------------
(* A step of one transaction that commits nothing.                         *)

LEMMA ComputingKept ==
    ASSUME Computing, NEW p \in Requests, NEW u, txn = [q \in Requests |-> txn[q]],
           txn' = [txn EXCEPT ![p] = u], computed' = computed,
           IsLatest(p) => u # Idle /\ u.kind # "respond" /\ u.step \in {"publish", "commit"}
    PROVE  Computing' /\ \A q : IsLatest(q)' <=> IsLatest(q)
<1>1. computed \in Seq(Requests) /\ DOMAIN computed = 1 .. Len(computed)
  BY DEF Computing
<1>2. \A q : IsLatest(q)' <=> IsLatest(q)
  BY DEF IsLatest
<1>3. ASSUME NEW i \in 1 .. Len(computed)
      PROVE  /\ txn'[computed[i]] # Idle /\ txn'[computed[i]].kind # "respond"
             /\ txn'[computed[i]].step \in {"publish", "commit"}
  <2>1. computed[i] \in Requests
    BY <1>1
  <2>2. CASE computed[i] = p
    BY <1>1, <2>1, <2>2 DEF IsLatest
  <2>3. CASE computed[i] # p
    <3>1. txn'[computed[i]] = txn[computed[i]]
      BY <2>1, <2>3
    <3> QED BY <3>1 DEF Computing
  <2> QED BY <2>2, <2>3
<1> QED BY <1>2, <1>3 DEF Computing

\* It keeps the invariant if what p comes to hold is sound.
LEMMA OwnStep ==
    ASSUME RatingInv, NEW p \in Requests, NEW u,
           txn' = [txn EXCEPT ![p] = u], UNCHANGED <<rows, dated>>, Computing',
           \A q \in Requests \ {p} : IsLatest(q) => IsLatest(q)',
           u # Idle =>
             /\ Held(u) /\ Follows(u, order, review)
             /\ \A q \in Open \ {p} : Apart(u, txn[q])
             /\ u.kind # "respond" /\ ~u.disturbed => UpToDate(p)'
    PROVE  RatingInv'
<1>1. /\ txn = [q \in Requests |-> txn[q]] /\ txn'[p] = u
      /\ txn' = [q \in Requests |-> txn'[q]]
      /\ \A q \in Requests \ {p} : txn'[q] = txn[q]
  BY DEF RatingInv, RatingRows
<1>2. /\ order' = order /\ related' = related /\ review' = review /\ service' = service
      /\ agent' = agent /\ snapshot' = snapshot /\ dated' = dated
  BY DEF rows
<1>3. Open' = {q \in Requests : txn'[q] # Idle}
  BY DEF Open
<1>4. \A q \in Open' : q \in Requests /\ (q = p => u # Idle) /\ (q # p => q \in Open)
  BY <1>1, <1>3 DEF Open
<1>5. RatingRows'
  <2>1. \A q \in Open' : Held(txn'[q])
    BY <1>1, <1>4 DEF RatingInv, RatingRows
  <2> QED BY <1>1, <1>2, <2>1 DEF RatingInv, RatingRows
<1>6. RowsApart'
  <2>1. \A t, v : Apart(t, v) => Apart(v, t)
    BY DEF Apart
  <2>2. \A q, v \in Open' : q # v => Apart(txn'[q], txn'[v])
    BY <1>1, <1>4, <2>1 DEF RatingInv, RowsApart
  <2> QED BY <2>2 DEF RowsApart
<1>7. RowsFollow'
  BY <1>1, <1>2, <1>4 DEF RatingInv, RowsFollow
<1>8. FiguresCurrent'
  <2>1. SUFFICES ASSUME NEW q \in Open', txn'[q].kind # "respond", ~txn'[q].disturbed
                 PROVE  UpToDate(q)'
    BY DEF FiguresCurrent
  <2>2. CASE q = p
    BY <1>1, <1>4, <2>1, <2>2
  <2>3. CASE q # p
    <3>1. q \in Open /\ txn'[q] = txn[q] /\ UpToDate(q) /\ Held(txn[q])
      BY <1>1, <1>4, <2>1, <2>3, OpenTransactions DEF RatingInv, FiguresCurrent
    <3>2. \A c \in Figures : Measured(q, c)' = Measured(q, c)
      BY <1>2, <3>1, MeasuredKept
    <3>3. IsLatest(q) => IsLatest(q)'
      BY <1>4, <2>3
    <3> QED BY <1>2, <2>1, <3>1, <3>2, <3>3, UpToDateStays
  <2> QED BY <2>2, <2>3
<1>9. FiguresFollowRows'
  <2>1. \A c \in Figures : FigureOf(c, order, review)' = FigureOf(c, order, review)
    <3>1. \A o : Counts(order, o)' <=> Counts(order, o)
      BY <1>2 DEF Counts
    <3>2. Published(order, review)' = Published(order, review)
      BY <1>2, <3>1 DEF Published
    <3> QED BY <1>2, <3>1, <3>2 DEF FigureOf, Figures
  <2>2. [c \in Figures |-> FigureOf(c, order, review)]'
          = [c \in Figures |-> FigureOf(c, order, review)]
    BY <2>1
  <2> QED BY <1>2, <2>2 DEF RatingInv, FiguresFollowRows
<1> QED BY <1>5, <1>6, <1>7, <1>8, <1>9 DEF RatingInv

-----------------------------------------------------------------------------
(* The snapshots that are not committed yet.                               *)

\* The place of a request, and those after it.
LEMMA LaterSnapshots ==
    ASSUME Computing, NEW p, IsLatest(p)
    PROVE  /\ Place(p) \in 1 .. Len(computed) /\ computed[Place(p)] = p
           /\ Newer(p) \in Seq(Requests) /\ Len(Newer(p)) = Len(computed) - Place(p)
           /\ \A i \in 1 .. Len(Newer(p)) : Newer(p)[i] = computed[Place(p) + i]
<1>1. computed \in Seq(Requests) /\ DOMAIN computed = 1 .. Len(computed)
      /\ Len(computed) \in Nat
  BY DEF Computing
<1>2. Place(p) \in 1 .. Len(computed) /\ computed[Place(p)] = p
  BY <1>1 DEF IsLatest, Place
<1>. HIDE DEF Place
<1>3. CASE Place(p) < Len(computed)
  <2>1. /\ Place(p) + 1 \in 1 .. Len(computed) + 1 /\ Len(computed) \in Place(p) .. Len(computed)
    BY <1>1, <1>2
  <2> QED
    BY <1>1, <1>2, <1>3, <2>1, SubSeqProperties DEF Newer
<1>4. CASE Place(p) = Len(computed)
  BY <1>1, <1>2, <1>4, SubSeqProperties DEF Newer
<1> QED
  BY <1>1, <1>2, <1>3, <1>4

\* Leaving out a request leaves the others, once each.
LEMMA WithoutOthers ==
    ASSUME Computing, NEW p
    PROVE  /\ Without(p) \in Seq(Requests)
           /\ \A i, j \in 1 .. Len(Without(p)) : Without(p)[i] = Without(p)[j] => i = j
           /\ \A i \in 1 .. Len(Without(p)) :
                 Without(p)[i] # p /\ \E k \in 1 .. Len(computed) : computed[k] = Without(p)[i]
           /\ \A k \in 1 .. Len(computed) :
                 computed[k] # p => \E i \in 1 .. Len(Without(p)) : Without(p)[i] = computed[k]
<1>1. computed \in Seq(Requests) /\ DOMAIN computed = 1 .. Len(computed)
      /\ Len(computed) \in Nat
      /\ \A i, j \in 1 .. Len(computed) : computed[i] = computed[j] => i = j
  BY DEF Computing
<1>2. CASE ~IsLatest(p)
  BY <1>1, <1>2 DEF IsLatest, Without
<1>3. CASE IsLatest(p)
  <2>. DEFINE n == Place(p)
              front == SubSeq(computed, 1, n - 1)
              w == front \o Newer(p)
  <2>1. /\ n \in 1 .. Len(computed) /\ computed[n] = p
        /\ Newer(p) \in Seq(Requests) /\ Len(Newer(p)) = Len(computed) - n
        /\ \A i \in 1 .. Len(Newer(p)) : Newer(p)[i] = computed[n + i]
    BY <1>3, LaterSnapshots
  <2>. HIDE DEF n
  <2>2. /\ front \in Seq(Requests) /\ Len(front) = n - 1
        /\ \A i \in 1 .. n - 1 : front[i] = computed[i]
    BY <1>1, <2>1, SubSeqProperties
  <2>. HIDE DEF front
  <2>3. /\ w \in Seq(Requests) /\ Len(w) = Len(computed) - 1
        /\ \A i \in 1 .. Len(w) :
              w[i] = IF i <= Len(front) THEN front[i] ELSE Newer(p)[i - Len(front)]
    BY <2>1, <2>2, ConcatProperties
  <2>4. Without(p) = w
    BY <1>3 DEF Without, front, n
  <2>. HIDE DEF w
  <2>5. \A i \in 1 .. Len(w) : w[i] = IF i < n THEN computed[i] ELSE computed[i + 1]
    BY <1>1, <2>1, <2>2, <2>3
  <2>6. \A i \in 1 .. Len(w) : w[i] # p /\ \E k \in 1 .. Len(computed) : computed[k] = w[i]
    BY <1>1, <2>1, <2>3, <2>5
  <2>7. ASSUME NEW k \in 1 .. Len(computed), computed[k] # p
        PROVE  \E i \in 1 .. Len(w) : w[i] = computed[k]
    <3>1. CASE k < n
      BY <1>1, <2>1, <2>3, <2>5, <3>1
    <3>2. CASE k > n
      <4>1. k - 1 \in 1 .. Len(w) /\ w[k - 1] = computed[k]
        BY <1>1, <2>1, <2>3, <2>5, <3>2
      <4> QED BY <4>1
    <3> QED BY <1>1, <2>1, <2>7, <3>1, <3>2
  <2>8. ASSUME NEW i \in 1 .. Len(w), NEW j \in 1 .. Len(w), w[i] = w[j]
        PROVE  i = j
    <3>. DEFINE x == IF i < n THEN i ELSE i + 1
                y == IF j < n THEN j ELSE j + 1
    <3>1. x \in 1 .. Len(computed) /\ y \in 1 .. Len(computed)
      BY <1>1, <2>1, <2>3
    <3>2. computed[x] = w[i] /\ computed[y] = w[j]
      BY <2>5
    <3>3. x = y
      BY <1>1, <2>8, <3>1, <3>2
    <3> QED BY <2>1, <2>3, <3>3
  <2> QED BY <2>3, <2>4, <2>6, <2>7, <2>8
<1> QED BY <1>2, <1>3

LEMMA RefuseKeeps ==
    ASSUME RatingInv, NEW p \in Requests, Refuse(p) PROVE RatingInv'
<1>1. /\ txn' = [txn EXCEPT ![p] = Idle] /\ computed' = Without(p)
      /\ UNCHANGED <<rows, dated>> /\ Computing
      /\ txn = [q \in Requests |-> txn[q]]
  BY DEF Refuse, RatingInv, RatingRows
<1>2. computed \in Seq(Requests) /\ DOMAIN computed = 1 .. Len(computed)
      /\ computed' \in Seq(Requests) /\ DOMAIN computed' = 1 .. Len(computed')
  BY <1>1, WithoutOthers DEF Computing
<1>3. Computing'
  <2>1. ASSUME NEW i \in 1 .. Len(computed')
        PROVE  /\ txn'[computed'[i]] # Idle /\ txn'[computed'[i]].kind # "respond"
               /\ txn'[computed'[i]].step \in {"publish", "commit"}
    <3>1. PICK k \in 1 .. Len(computed) : computed[k] = computed'[i] /\ computed[k] # p
      BY <1>1, WithoutOthers
    <3>2. computed[k] \in Requests
      BY <1>2
    <3>3. txn'[computed'[i]] = txn[computed[k]]
      BY <1>1, <3>1, <3>2
    <3> QED BY <1>1, <3>3 DEF Computing
  <2>2. \A i, j \in 1 .. Len(computed') : computed'[i] = computed'[j] => i = j
    BY <1>1, WithoutOthers
  <2> QED BY <1>2, <2>1, <2>2 DEF Computing
<1>4. \A q \in Requests \ {p} : IsLatest(q) => IsLatest(q)'
  <2>1. SUFFICES ASSUME NEW q \in Requests \ {p}, IsLatest(q) PROVE IsLatest(q)'
    OBVIOUS
  <2>2. PICK k \in 1 .. Len(computed) : computed[k] = q
    BY <1>2, <2>1 DEF IsLatest
  <2>3. \E i \in 1 .. Len(computed') : computed'[i] = q
    BY <1>1, <2>2, WithoutOthers
  <2> QED BY <1>2, <2>3 DEF IsLatest
<1> QED BY <1>1, <1>3, <1>4, OwnStep

-----------------------------------------------------------------------------
(* A request begins.                                                       *)

LEMMA NotYetComputed ==
    ASSUME Computing, NEW p,
           txn[p] = Idle \/ txn[p].step \notin {"publish", "commit"}
    PROVE  ~IsLatest(p)
<1>1. DOMAIN computed = 1 .. Len(computed)
  BY DEF Computing
<1> QED BY <1>1 DEF Computing, IsLatest

LEMMA BeginKeeps ==
    ASSUME RatingInv, NEW p \in Requests, NEW kind \in RatingKinds, NEW o, NEW row,
           NEW step \in {"write", "load"}, Begin(p, kind, o, row, step),
           step = "load" <=> kind = "recompute",
           kind # "recompute" => o \in Orders,
           kind \in OnReview => row \in Review,
           kind \in {"exclude", "settle"} => row \in Row,
           kind \in {"withdraw", "respond"} => review[o] # NoReview
    PROVE  RatingInv'
<1>. DEFINE u == [kind |-> kind, order |-> o, row |-> row, written |-> FALSE, step |-> step,
                  f |-> [c \in {} |-> 0], agent |-> agent, service |-> service,
                  agentCols |-> {}, serviceCols |-> {}, disturbed |-> FALSE]
<1>1. /\ txn' = [txn EXCEPT ![p] = u] /\ txn[p] = Idle
      /\ UNCHANGED <<rows, computed, dated>>
  BY DEF Begin
<1>2. /\ txn = [q \in Requests |-> txn[q]] /\ Computing
      /\ DOMAIN agent = AgentColumns /\ DOMAIN service = CounterColumns
  BY DEF RatingInv, RatingRows
<1>3. /\ TxnColumns \subseteq DOMAIN u /\ u.kind = kind /\ u.order = o /\ u.row = row
      /\ ~u.written /\ u.step = step /\ DOMAIN u.f = {} /\ u.f = [c \in DOMAIN u.f |-> u.f[c]]
      /\ u.agent = agent
      /\ u.service = service /\ u.agentCols = {} /\ u.serviceCols = {}
  BY DEF TxnColumns
<1>. HIDE DEF u
<1>4. Held(u)
  BY <1>2, <1>3
     DEF Held, RatingSteps, RatingKinds, OnReview, Upkeep, ReadBefore
<1>5. Follows(u, order, review)
  BY <1>3 DEF Follows
<1>6. \A q \in Open \ {p} : Apart(u, txn[q])
  BY <1>3 DEF Apart
<1>7. Computing' /\ \A q \in Requests \ {p} : IsLatest(q) => IsLatest(q)'
  BY <1>1, <1>2, NotYetComputed, ComputingKept
<1>8. UpToDate(p)'
  <2>1. txn'[p] = u /\ agent' = agent /\ service' = service
    BY <1>1, <1>2 DEF rows
  <2> QED BY <1>3, <2>1 DEF UpToDate
<1> QED BY <1>1, <1>4, <1>5, <1>6, <1>7, <1>8, OwnStep

-----------------------------------------------------------------------------
(* A request proceeds.                                                     *)

LEMMA Proceeding ==
    ASSUME RatingInv, NEW p \in Open, NEW changes, Proceed(p, changes),
           {"kind", "order", "disturbed"} \cap DOMAIN changes = {}
    PROVE  LET t == txn[p]
               u == Over(changes, t) IN
           /\ p \in Requests /\ Held(t) /\ Follows(t, order, review) /\ t # Idle
           /\ t.kind # "respond" /\ ~t.disturbed => UpToDate(p)
           /\ txn = [q \in Requests |-> txn[q]] /\ Computing
           /\ txn' = [txn EXCEPT ![p] = u] /\ txn'[p] = u
           /\ UNCHANGED <<rows, dated>>
           /\ TxnColumns \subseteq DOMAIN u
           /\ DOMAIN t \subseteq DOMAIN u
           /\ u.kind = t.kind /\ u.order = t.order /\ u.disturbed = t.disturbed
           /\ \A c \in DOMAIN changes : u[c] = changes[c]
           /\ \A c \in DOMAIN t \ DOMAIN changes : u[c] = t[c]
           /\ \A q \in Open \ {p} : Apart(t, txn[q])
<1>. DEFINE t == txn[p]
            u == Over(changes, t)
<1>1. p \in Requests /\ t # Idle /\ Held(t) /\ Follows(t, order, review)
      /\ (t.kind # "respond" /\ ~t.disturbed => UpToDate(p))
      /\ txn = [q \in Requests |-> txn[q]] /\ Computing
      /\ \A q \in Open \ {p} : Apart(t, txn[q])
  BY OpenTransactions
     DEF RatingInv, RatingRows, RowsFollow, FiguresCurrent, RowsApart
<1>2. TxnColumns \subseteq DOMAIN t
  BY <1>1 DEF Held
<1>3. txn' = [txn EXCEPT ![p] = u] /\ UNCHANGED <<rows, dated>>
  BY DEF Proceed
<1>4. txn'[p] = u
  BY <1>1, <1>3
<1>5. /\ DOMAIN u = DOMAIN changes \cup DOMAIN t
      /\ \A c \in DOMAIN changes : u[c] = changes[c]
      /\ \A c \in DOMAIN t \ DOMAIN changes : u[c] = t[c]
  BY OverValue
<1>. HIDE DEF u
<1>6. u.kind = t.kind /\ u.order = t.order /\ u.disturbed = t.disturbed
  BY <1>2, <1>5 DEF TxnColumns
<1>7. TxnColumns \subseteq DOMAIN u /\ DOMAIN t \subseteq DOMAIN u
  BY <1>2, <1>5
<1> QED
  BY <1>1, <1>3, <1>4, <1>5, <1>6, <1>7 DEF u

LEMMA WriteRowKeeps ==
    ASSUME RatingInv, NEW p \in Requests, WriteRow(p) PROVE RatingInv'
<1>. DEFINE t == txn[p]
            s == CASE t.kind \in {"review", "withdraw"} -> "count"
                   [] t.kind = "respond" -> "commit"
                   [] OTHER -> "load"
            changes == [row |-> RowWritten(p), written |-> TRUE, service |-> service, step |-> s]
            u == Over(changes, t)
<1>1. CASE ~Allowed(t)
  BY <1>1, RefuseKeeps DEF WriteRow
<1>2. CASE Allowed(t)
  <2>1. /\ p \in Open /\ t.step = "write" /\ RowFree(p)
        /\ Proceed(p, changes) /\ computed' = computed
    BY <1>2 DEF WriteRow, Open
  <2>2. /\ DOMAIN changes = {"row", "written", "service", "step"}
        /\ {"kind", "order", "disturbed"} \cap DOMAIN changes = {}
        /\ changes["row"] = RowWritten(p) /\ changes["written"] = TRUE
        /\ changes["service"] = service /\ changes["step"] = s
    OBVIOUS
  <2>. HIDE DEF changes
  <2>3. /\ Held(t) /\ Follows(t, order, review) /\ t # Idle
        /\ t.kind # "respond" /\ ~t.disturbed => UpToDate(p)
        /\ txn = [q \in Requests |-> txn[q]] /\ Computing
        /\ txn' = [txn EXCEPT ![p] = u] /\ txn'[p] = u
        /\ UNCHANGED <<rows, dated>>
        /\ TxnColumns \subseteq DOMAIN u
        /\ u.kind = t.kind /\ u.order = t.order /\ u.disturbed = t.disturbed
        /\ \A c \in DOMAIN changes : u[c] = changes[c]
        /\ \A c \in DOMAIN t \ DOMAIN changes : u[c] = t[c]
        /\ \A q \in Open \ {p} : Apart(t, txn[q])
    BY <2>1, <2>2, Proceeding
  <2>4. TxnColumns \subseteq DOMAIN t
    BY <2>3 DEF Held
  <2>. HIDE DEF u
  <2>5. /\ u.row = RowWritten(p) /\ u.written /\ u.service = service /\ u.step = s
        /\ u.f = t.f /\ u.agent = t.agent /\ u.agentCols = t.agentCols
        /\ u.serviceCols = t.serviceCols
    BY <2>2, <2>3, <2>4 DEF TxnColumns
  <2>6. /\ t.kind \in RatingKinds \ {"recompute"} /\ t.order \in Orders /\ t.serviceCols = {}
        /\ t.agentCols = {}
        /\ t.kind # "respond" => DOMAIN t.f = {}
    BY <2>1, <2>3 DEF Held, ReadBefore, Upkeep
  <2>7. /\ order[t.order] \in Row
        /\ review[t.order] \in Review \cup {NoReview}
        /\ DOMAIN service = CounterColumns
        /\ t.kind \in {"withdraw", "respond"} => review[t.order] \in Review
    BY <2>3, <2>6 DEF RatingInv, RatingRows, Follows
  <2>8. /\ t.kind = "review" => u.row = t.row /\ s = "count" /\ review[t.order] = NoReview
        /\ t.kind = "withdraw" =>
              u.row = [review[t.order] EXCEPT !.status = "withdrawn"] /\ s = "count"
        /\ t.kind = "respond" => u.row = [review[t.order] EXCEPT !.answered = TRUE] /\ s = "commit"
        /\ t.kind = "exclude" => u.row = [order[t.order] EXCEPT !.excluded = p] /\ s = "load"
                                 /\ order[t.order].excluded = NotExcluded
        /\ t.kind = "settle" => u.row = [order[t.order] EXCEPT !.outcome = t.row.outcome]
                                /\ s = "load"
    BY <1>2, <2>5 DEF RowWritten, Allowed, Unreviewed, ExclusionAllowed
  <2>. HIDE DEF s
  <2>9. /\ t.kind \in OnReview => u.row \in Review
        /\ t.kind \in {"exclude", "settle"} => u.row \in Row
    BY <2>3, <2>6, <2>7, <2>8 DEF Held, Row, Review, OnReview
  <2>10. Held(u)
    BY <2>3, <2>5, <2>6, <2>7, <2>8, <2>9
       DEF Held, RatingKinds, RatingSteps, Upkeep, ReadBefore
  <2>11. Follows(u, order, review)
    <3>1. CASE t.kind \in {"withdraw", "respond"}
      BY <2>3, <2>5, <2>7, <2>8, <3>1 DEF Follows, Review
    <3>2. CASE t.kind = "settle"
      BY <2>3, <2>5, <2>7, <2>8, <3>2 DEF Follows, Row
    <3>3. CASE t.kind \in {"review", "exclude"}
      BY <2>3, <2>5, <2>8, <3>3 DEF Follows
    <3> QED BY <2>6, <3>1, <3>2, <3>3 DEF RatingKinds
  <2>12. \A q \in Open \ {p} : Apart(u, txn[q])
    BY <2>1, <2>3, <2>5 DEF Apart, RowFree
  <2>13. ~IsLatest(p)
    BY <2>1, <2>3, NotYetComputed
  <2>14. Computing' /\ \A q \in Requests \ {p} : IsLatest(q) => IsLatest(q)'
    BY <2>1, <2>3, <2>13, ComputingKept
  <2>15. u.kind # "respond" => UpToDate(p)'
    <3>1. service' = service /\ agent' = agent
      BY <2>3 DEF rows
    <3>2. u.kind # "respond" => u.step \in {"count", "load"} /\ DOMAIN u.f = {}
      BY <2>3, <2>5, <2>6, <2>8 DEF RatingKinds
    <3> QED BY <2>3, <2>5, <3>1, <3>2 DEF UpToDate
  <2> QED BY <2>3, <2>10, <2>11, <2>12, <2>14, <2>15, OwnStep
<1> QED BY <1>1, <1>2

\* The counters of the service are written: only its columns of the request change.
LEMMA FlushServiceStep ==
    ASSUME RatingInv, NEW p \in Open, NEW new, DOMAIN new = ServiceColumns, NEW s,
           FlushService(p, new, [step |-> s])
    PROVE  \/ Refuse(p)
           \/ \E u :
                LET t == txn[p] IN
                /\ txn' = [txn EXCEPT ![p] = u] /\ txn'[p] = u
                /\ UNCHANGED <<rows, dated, computed>>
                /\ TxnColumns \subseteq DOMAIN u
                /\ u.kind = t.kind /\ u.order = t.order /\ u.row = t.row
                /\ u.written = t.written /\ u.f = t.f /\ u.agent = t.agent
                /\ u.agentCols = t.agentCols /\ u.disturbed = t.disturbed /\ u.step = s
                /\ DOMAIN u.service = CounterColumns
                /\ \A c \in ServiceColumns : u.service[c] = new[c]
                /\ t.serviceCols \subseteq u.serviceCols /\ u.serviceCols \subseteq ServiceColumns
                /\ \A c \in ServiceColumns \ u.serviceCols : u.service[c] = t.service[c]
                /\ \A q \in Open \ {p} : Apart(u, txn[q])
                /\ \/ u.service = t.service /\ u.serviceCols = t.serviceCols
                   \/ /\ u.service = Over(new, t.service)
                      /\ ServiceChecks(Laid(u.serviceCols, u.service, service))
<1>. DEFINE t == txn[p]
            columns == t.serviceCols \cup Dirty(new, t.service)
            mine == Over(new, t.service)
            both == Over([step |-> s], [service |-> mine, serviceCols |-> columns])
            Good(v) ==
                /\ txn' = [txn EXCEPT ![p] = v] /\ txn'[p] = v
                /\ UNCHANGED <<rows, dated, computed>>
                /\ TxnColumns \subseteq DOMAIN v
                /\ v.kind = t.kind /\ v.order = t.order /\ v.row = t.row
                /\ v.written = t.written /\ v.f = t.f /\ v.agent = t.agent
                /\ v.agentCols = t.agentCols /\ v.disturbed = t.disturbed /\ v.step = s
                /\ DOMAIN v.service = CounterColumns
                /\ \A c \in ServiceColumns : v.service[c] = new[c]
                /\ t.serviceCols \subseteq v.serviceCols /\ v.serviceCols \subseteq ServiceColumns
                /\ \A c \in ServiceColumns \ v.serviceCols : v.service[c] = t.service[c]
                /\ \A q \in Open \ {p} : Apart(v, txn[q])
                /\ \/ v.service = t.service /\ v.serviceCols = t.serviceCols
                   \/ /\ v.service = Over(new, t.service)
                      /\ ServiceChecks(Laid(v.serviceCols, v.service, service))
<1>1. /\ p \in Requests /\ Held(t) /\ \A q \in Open \ {p} : Apart(t, txn[q])
  BY OpenTransactions DEF RatingInv, RowsApart, Open
<1>2. /\ TxnColumns \subseteq DOMAIN t /\ DOMAIN t.service = CounterColumns
      /\ t.serviceCols \subseteq ServiceColumns /\ ServiceColumns \subseteq CounterColumns
  BY <1>1 DEF Held, CounterColumns
<1>3. CASE Dirty(new, t.service) = {}
  <2>. DEFINE one == [step |-> s]
              u == Over(one, t)
  <2>1. Proceed(p, one) /\ computed' = computed
    BY <1>3 DEF FlushService
  <2>2. DOMAIN one = {"step"} /\ one["step"] = s
    OBVIOUS
  <2>. HIDE DEF one
  <2>3. /\ txn' = [txn EXCEPT ![p] = u] /\ txn'[p] = u
        /\ UNCHANGED <<rows, dated>>
        /\ TxnColumns \subseteq DOMAIN u
        /\ u.kind = t.kind /\ u.order = t.order /\ u.disturbed = t.disturbed
        /\ \A c \in DOMAIN one : u[c] = one[c]
        /\ \A c \in DOMAIN t \ DOMAIN one : u[c] = t[c]
    BY <2>1, <2>2, Proceeding
  <2>. HIDE DEF u
  <2>4. /\ u.row = t.row /\ u.written = t.written /\ u.f = t.f /\ u.agent = t.agent
        /\ u.agentCols = t.agentCols /\ u.step = s /\ u.service = t.service
        /\ u.serviceCols = t.serviceCols
    BY <1>2, <2>2, <2>3 DEF TxnColumns
  <2>5. \A c \in ServiceColumns : new[c] = t.service[c]
    BY <1>3 DEF Dirty
  <2>6. \A q \in Open \ {p} : Apart(u, txn[q])
    BY <1>1, <2>3, <2>4 DEF Apart
  <2>7. Good(u)
    BY <1>2, <2>1, <2>3, <2>4, <2>5, <2>6
  <2> QED BY <2>7
<1>4. CASE Dirty(new, t.service) # {} /\ ~Refuse(p)
  <2>. DEFINE u == Over(both, t)
  <2>1. /\ Proceed(p, both) /\ computed' = computed /\ ServiceFree(p)
        /\ ServiceChecks(Laid(columns, mine, service)) /\ mine = Over(new, t.service)
    BY <1>4 DEF FlushService
  <2>2. /\ DOMAIN both = {"step", "service", "serviceCols"} /\ both["step"] = s
        /\ both["service"] = mine /\ both["serviceCols"] = columns
    BY DEF Over
  <2>3. /\ DOMAIN mine = CounterColumns
        /\ \A c \in ServiceColumns : mine[c] = new[c]
    <3>1. DOMAIN mine = DOMAIN new \cup DOMAIN t.service
      BY OverValue
    <3>2. \A c \in DOMAIN new : mine[c] = new[c]
      BY OverValue
    <3>. HIDE DEF mine
    <3> QED BY <1>2, <3>1, <3>2
  <2>4. /\ t.serviceCols \subseteq columns /\ columns \subseteq ServiceColumns
        /\ \A c \in ServiceColumns \ columns : mine[c] = t.service[c]
    BY <1>2, <2>3 DEF Dirty
  <2>. HIDE DEF both, mine, columns
  <2>5. /\ txn' = [txn EXCEPT ![p] = u] /\ txn'[p] = u
        /\ UNCHANGED <<rows, dated>>
        /\ TxnColumns \subseteq DOMAIN u
        /\ u.kind = t.kind /\ u.order = t.order /\ u.disturbed = t.disturbed
        /\ \A c \in DOMAIN both : u[c] = both[c]
        /\ \A c \in DOMAIN t \ DOMAIN both : u[c] = t[c]
    BY <2>1, <2>2, Proceeding
  <2>. HIDE DEF u
  <2>6. /\ u.row = t.row /\ u.written = t.written /\ u.f = t.f /\ u.agent = t.agent
        /\ u.agentCols = t.agentCols /\ u.step = s /\ u.service = mine
        /\ u.serviceCols = columns
    BY <1>2, <2>2, <2>5 DEF TxnColumns
  <2>7. \A q \in Open \ {p} : Apart(u, txn[q])
    BY <1>1, <2>1, <2>5, <2>6 DEF Apart, ServiceFree
  <2>8. Good(u)
    BY <2>1, <2>3, <2>4, <2>5, <2>6, <2>7
  <2> QED BY <2>8
<1> QED BY <1>3, <1>4

LEMMA CountReviewKeeps ==
    ASSUME RatingInv, NEW p \in Requests, CountReview(p) PROVE RatingInv'
<1>. DEFINE t == txn[p]
<1>1. /\ p \in Open /\ t.step = "count"
      /\ FlushService(p, Counted(t), [step |-> "load"])
  BY DEF CountReview, Open
<1>2. DOMAIN Counted(t) = ServiceColumns
  BY DEF Counted, ServiceColumns
<1>3. /\ Held(t) /\ Follows(t, order, review) /\ Computing /\ txn = [q \in Requests |-> txn[q]]
      /\ t.kind # "respond" /\ ~t.disturbed => UpToDate(p)
  BY <1>1, OpenTransactions DEF RatingInv, RatingRows, RowsFollow, FiguresCurrent
<1>4. t.kind \in {"review", "withdraw"} /\ DOMAIN t.f = {}
  BY <1>1, <1>3 DEF Held, RatingKinds, Upkeep, ReadBefore
<1>5. SUFFICES ASSUME ~Refuse(p) PROVE RatingInv'
  BY RefuseKeeps
<1>6. PICK u :
        /\ txn' = [txn EXCEPT ![p] = u] /\ txn'[p] = u
        /\ UNCHANGED <<rows, dated, computed>>
        /\ TxnColumns \subseteq DOMAIN u
        /\ u.kind = t.kind /\ u.order = t.order /\ u.row = t.row
        /\ u.written = t.written /\ u.f = t.f /\ u.agent = t.agent
        /\ u.agentCols = t.agentCols /\ u.disturbed = t.disturbed /\ u.step = "load"
        /\ DOMAIN u.service = CounterColumns
        /\ t.serviceCols \subseteq u.serviceCols /\ u.serviceCols \subseteq ServiceColumns
        /\ \A c \in ServiceColumns \ u.serviceCols : u.service[c] = t.service[c]
        /\ \A q \in Open \ {p} : Apart(u, txn[q])
        /\ t.serviceCols = {}
  <2>1. t.serviceCols = {}
    BY <1>1, <1>3 DEF Held, Upkeep
  <2> QED BY <1>1, <1>2, <1>5, <2>1, FlushServiceStep
<1>7. Held(u)
  BY <1>1, <1>3, <1>4, <1>6
     DEF Held, RatingKinds, RatingSteps, Upkeep, ReadBefore, OnReview
<1>8. Follows(u, order, review)
  BY <1>3, <1>6 DEF Follows
<1>9. Computing' /\ \A q \in Requests \ {p} : IsLatest(q) => IsLatest(q)'
  BY <1>1, <1>3, <1>6, NotYetComputed, ComputingKept
<1>10. ASSUME ~u.disturbed PROVE UpToDate(p)'
  <2>1. UpToDate(p) /\ service' = service /\ agent' = agent
    BY <1>3, <1>4, <1>6, <1>10 DEF rows
  <2> QED BY <1>4, <1>6, <2>1 DEF UpToDate
<1> QED BY <1>6, <1>7, <1>8, <1>9, <1>10, OwnStep

LEMMA PublishKeeps ==
    ASSUME RatingInv, NEW p \in Requests, Publish(p) PROVE RatingInv'
<1>. DEFINE t == txn[p]
<1>1. SUFFICES ASSUME ~Refuse(p) PROVE RatingInv'
  BY RefuseKeeps
<1>2. /\ p \in Open /\ t.step = "publish"
      /\ FlushService(p, t.totals, [step |-> "commit"])
  BY <1>1 DEF Publish, Open
<1>3. /\ Held(t) /\ Follows(t, order, review) /\ Computing /\ txn = [q \in Requests |-> txn[q]]
      /\ t.kind # "respond" /\ ~t.disturbed => UpToDate(p)
  BY <1>2, OpenTransactions DEF RatingInv, RatingRows, RowsFollow, FiguresCurrent
<1>4. t.kind # "respond" /\ DOMAIN t.totals = ServiceColumns /\ DOMAIN t.f = Figures
  BY <1>2, <1>3 DEF Held, ReadBefore
<1>6. PICK u :
        /\ txn' = [txn EXCEPT ![p] = u] /\ txn'[p] = u
        /\ UNCHANGED <<rows, dated, computed>>
        /\ TxnColumns \subseteq DOMAIN u
        /\ u.kind = t.kind /\ u.order = t.order /\ u.row = t.row
        /\ u.written = t.written /\ u.f = t.f /\ u.agent = t.agent
        /\ u.agentCols = t.agentCols /\ u.disturbed = t.disturbed /\ u.step = "commit"
        /\ DOMAIN u.service = CounterColumns
        /\ \A c \in ServiceColumns : u.service[c] = t.totals[c]
        /\ t.serviceCols \subseteq u.serviceCols /\ u.serviceCols \subseteq ServiceColumns
        /\ \A c \in ServiceColumns \ u.serviceCols : u.service[c] = t.service[c]
        /\ \A q \in Open \ {p} : Apart(u, txn[q])
  BY <1>1, <1>2, <1>4, FlushServiceStep
<1>5. u.serviceCols # {} => u.kind \in {"review", "withdraw"} \cup Upkeep
  BY <1>3, <1>4, <1>6 DEF Held, RatingKinds, Upkeep
<1>7. Held(u)
  BY <1>2, <1>3, <1>4, <1>5, <1>6
     DEF Held, RatingKinds, RatingSteps, Upkeep, ReadBefore, OnReview
<1>8. Follows(u, order, review)
  BY <1>3, <1>6 DEF Follows
<1>9. Computing' /\ \A q \in Requests : IsLatest(q)' <=> IsLatest(q)
  <2>1. u # Idle
    BY <1>7, HeldNotIdle
  <2> QED BY <1>3, <1>4, <1>6, <2>1, ComputingKept
<1>10. ASSUME ~u.disturbed PROVE UpToDate(p)'
  <2>1. UpToDate(p) /\ service' = service /\ agent' = agent /\ IsLatest(p)'
    BY <1>2, <1>3, <1>4, <1>6, <1>9, <1>10 DEF rows, UpToDate
  <2>2. \A c \in Figures : Measured(p, c)' = Measured(p, c)
    BY <1>6, MeasuredKept DEF rows
  <2>3. \A c \in Figures : u.f[c] = Measured(p, c)'
    BY <1>4, <1>6, <2>1, <2>2 DEF UpToDate
  <2>4. \A c \in AgentColumns :
           Measured(p, c)' = IF c \in u.agentCols THEN u.agent[c] ELSE agent'[c]
    BY <1>2, <1>6, <2>1, <2>2, FigureColumns DEF UpToDate
  <2>5. \A c \in ServiceColumns : u.service[c] = Measured(p, c)'
    BY <1>2, <1>6, <2>1, <2>2, FigureColumns DEF UpToDate
  <2>6. \A c \in ServiceColumns \ u.serviceCols : u.service[c] = service'[c]
    BY <1>6, <2>1 DEF UpToDate
  <2> QED BY <1>4, <1>6, <2>1, <2>3, <2>4, <2>5, <2>6 DEF UpToDate
<1> QED BY <1>6, <1>7, <1>8, <1>9, <1>10, OwnStep

LEMMA LoadAgentKeeps ==
    ASSUME RatingInv, NEW p \in Requests, LoadAgent(p) PROVE RatingInv'
<1>. DEFINE t == txn[p]
            changes == [agent |-> agent, step |-> "completed"]
            u == Over(changes, t)
<1>1. p \in Open /\ t.step = "load" /\ Proceed(p, changes) /\ computed' = computed
  BY DEF LoadAgent, Open
<1>2. DOMAIN changes = {"agent", "step"} /\ changes["agent"] = agent
      /\ changes["step"] = "completed"
  OBVIOUS
<1>. HIDE DEF changes
<1>3. /\ Held(t) /\ Follows(t, order, review) /\ t # Idle
      /\ t.kind # "respond" /\ ~t.disturbed => UpToDate(p)
      /\ txn = [q \in Requests |-> txn[q]] /\ Computing
      /\ txn' = [txn EXCEPT ![p] = u] /\ txn'[p] = u
      /\ UNCHANGED <<rows, dated>>
      /\ TxnColumns \subseteq DOMAIN u
      /\ u.kind = t.kind /\ u.order = t.order /\ u.disturbed = t.disturbed
      /\ \A c \in DOMAIN changes : u[c] = changes[c]
      /\ \A c \in DOMAIN t \ DOMAIN changes : u[c] = t[c]
      /\ \A q \in Open \ {p} : Apart(t, txn[q])
  BY <1>1, <1>2, Proceeding
<1>4. TxnColumns \subseteq DOMAIN t
  BY <1>3 DEF Held
<1>. HIDE DEF u
<1>5. /\ u.row = t.row /\ u.written = t.written /\ u.service = t.service
      /\ u.step = "completed" /\ u.f = t.f /\ u.agent = agent
      /\ u.agentCols = t.agentCols /\ u.serviceCols = t.serviceCols
  BY <1>2, <1>3, <1>4 DEF TxnColumns
<1>6. t.kind # "respond" /\ DOMAIN t.f = {} /\ DOMAIN agent = AgentColumns
  BY <1>1, <1>3 DEF Held, ReadBefore, RatingInv, RatingRows
<1>7. Held(u)
  BY <1>1, <1>3, <1>5, <1>6 DEF Held, RatingSteps, ReadBefore
<1>8. Follows(u, order, review)
  BY <1>3, <1>5 DEF Follows
<1>9. \A q \in Open \ {p} : Apart(u, txn[q])
  BY <1>3, <1>5 DEF Apart
<1>10. Computing' /\ \A q \in Requests \ {p} : IsLatest(q) => IsLatest(q)'
  BY <1>1, <1>3, NotYetComputed, ComputingKept
<1>11. ASSUME ~u.disturbed PROVE UpToDate(p)'
  <2>1. UpToDate(p) /\ service' = service /\ agent' = agent
    BY <1>3, <1>6, <1>11 DEF rows
  <2> QED BY <1>3, <1>5, <1>6, <2>1 DEF UpToDate
<1> QED BY <1>3, <1>7, <1>8, <1>9, <1>10, <1>11, OwnStep

\* One SELECT reads figures of what is committed then, and of p's own row.
LEMMA SelectKeeps ==
    ASSUME RatingInv, NEW p \in Requests, NEW at, NEW columns \in SUBSET Figures,
           NEW next,
           at \in {"completed", "cancelled", "disputed", "lost", "reviews"},
           next \in {"cancelled", "disputed", "lost", "reviews", "tell"},
           ReadBefore(next) = ReadBefore(at) \cup columns,
           Select(p, at, columns, next)
    PROVE  RatingInv'
<1>. DEFINE t == txn[p]
            figures == [c \in columns |-> Measured(p, c)]
            all == Over(figures, t.f)
            changes == [step |-> next, f |-> all]
            u == Over(changes, t)
<1>1. p \in Open /\ t.step = at /\ Proceed(p, changes) /\ computed' = computed
  BY DEF Select, Open
<1>2. DOMAIN changes = {"step", "f"} /\ changes["f"] = all /\ changes["step"] = next
  OBVIOUS
<1>. HIDE DEF changes
<1>3. /\ Held(t) /\ Follows(t, order, review) /\ t # Idle
      /\ t.kind # "respond" /\ ~t.disturbed => UpToDate(p)
      /\ txn = [q \in Requests |-> txn[q]] /\ Computing
      /\ txn' = [txn EXCEPT ![p] = u] /\ txn'[p] = u
      /\ UNCHANGED <<rows, dated>>
      /\ TxnColumns \subseteq DOMAIN u
      /\ u.kind = t.kind /\ u.order = t.order /\ u.disturbed = t.disturbed
      /\ \A c \in DOMAIN changes : u[c] = changes[c]
      /\ \A c \in DOMAIN t \ DOMAIN changes : u[c] = t[c]
      /\ \A q \in Open \ {p} : Apart(t, txn[q])
  BY <1>1, <1>2, Proceeding
<1>4. TxnColumns \subseteq DOMAIN t
  BY <1>3 DEF Held
<1>. HIDE DEF u
<1>5. /\ u.row = t.row /\ u.written = t.written /\ u.service = t.service
      /\ u.step = next /\ u.f = all /\ u.agent = t.agent
      /\ u.agentCols = t.agentCols /\ u.serviceCols = t.serviceCols
  BY <1>2, <1>3, <1>4 DEF TxnColumns
<1>6. t.kind # "respond" /\ DOMAIN t.f = ReadBefore(at)
  BY <1>1, <1>3 DEF Held
<1>7. /\ DOMAIN all = ReadBefore(next) /\ all = [c \in DOMAIN all |-> all[c]]
      /\ \A c \in columns : all[c] = Measured(p, c)
      /\ \A c \in ReadBefore(at) \ columns : all[c] = t.f[c]
  <2>1. DOMAIN figures = columns /\ \A c \in columns : figures[c] = Measured(p, c)
    OBVIOUS
  <2>. HIDE DEF figures
  <2>2. /\ DOMAIN all = DOMAIN figures \cup DOMAIN t.f
        /\ \A c \in DOMAIN figures : all[c] = figures[c]
        /\ \A c \in DOMAIN t.f \ DOMAIN figures : all[c] = t.f[c]
    BY OverValue
  <2>3. all = [c \in DOMAIN all |-> all[c]]
    BY DEF Over
  <2>. HIDE DEF all
  <2> QED BY <1>6, <2>1, <2>2, <2>3
<1>. HIDE DEF all
<1>8. Held(u)
  BY <1>1, <1>3, <1>5, <1>6, <1>7 DEF Held, RatingSteps
<1>9. Follows(u, order, review)
  BY <1>3, <1>5 DEF Follows
<1>10. \A q \in Open \ {p} : Apart(u, txn[q])
  BY <1>3, <1>5 DEF Apart
<1>11. Computing' /\ \A q \in Requests \ {p} : IsLatest(q) => IsLatest(q)'
  BY <1>1, <1>3, NotYetComputed, ComputingKept
<1>12. ASSUME ~u.disturbed PROVE UpToDate(p)'
  <2>1. UpToDate(p) /\ service' = service /\ agent' = agent
    BY <1>3, <1>6, <1>12 DEF rows
  <2>2. \A c \in Figures : Measured(p, c)' = Measured(p, c)
    BY <1>3, <1>5, MeasuredKept DEF rows
  <2>3. \A c \in DOMAIN u.f : u.f[c] = Measured(p, c)'
    BY <1>5, <1>6, <1>7, <2>1, <2>2, FigureColumns DEF UpToDate
  <2> QED BY <1>1, <1>3, <1>5, <2>1, <2>3 DEF UpToDate
<1> QED BY <1>3, <1>8, <1>9, <1>10, <1>11, <1>12, OwnStep

LEMMA GatherInputsKeeps ==
    ASSUME RatingInv, NEW p \in Requests, GatherInputs(p) PROVE RatingInv'
<1>1. /\ ReadBefore("cancelled") = ReadBefore("completed") \cup {"completed"}
      /\ ReadBefore("disputed") = ReadBefore("cancelled") \cup {"cancelled"}
      /\ ReadBefore("lost") = ReadBefore("disputed") \cup {"disputed"}
      /\ ReadBefore("reviews") = ReadBefore("lost") \cup {"lost"}
      /\ ReadBefore("tell") = ReadBefore("reviews") \cup {"reviews", "ratings"}
  BY DEF ReadBefore, Figures
<1>2. {"completed", "cancelled", "disputed", "lost", "reviews", "ratings"} \subseteq Figures
  BY DEF Figures
<1>3. CASE Select(p, "completed", {"completed"}, "cancelled")
  BY <1>1, <1>2, <1>3, SelectKeeps
<1>4. CASE Select(p, "cancelled", {"cancelled"}, "disputed")
  BY <1>1, <1>2, <1>4, SelectKeeps
<1>5. CASE Select(p, "disputed", {"disputed"}, "lost")
  BY <1>1, <1>2, <1>5, SelectKeeps
<1>6. CASE Select(p, "lost", {"lost"}, "reviews")
  BY <1>1, <1>2, <1>6, SelectKeeps
<1>7. CASE Select(p, "reviews", {"reviews", "ratings"}, "tell")
  BY <1>1, <1>2, <1>7, SelectKeeps
<1> QED BY <1>3, <1>4, <1>5, <1>6, <1>7 DEF GatherInputs

LEMMA TellAgentKeeps ==
    ASSUME RatingInv, NEW p \in Requests, TellAgent(p) PROVE RatingInv'
<1>. DEFINE t == txn[p]
            mine == Over(t.f, t.agent)
            told == [c \in AgentColumns |-> mine[c]]
            columns == Dirty([c \in AgentColumns |-> t.f[c]], t.agent)
            changes == [agent |-> told, agentCols |-> columns, step |-> "totals"]
            u == Over(changes, t)
<1>1. SUFFICES ASSUME ~Refuse(p) PROVE RatingInv'
  BY RefuseKeeps
<1>2. /\ p \in Open /\ t.step = "tell" /\ Proceed(p, changes) /\ computed' = computed
      /\ columns # {} => AgentFree(p)
  BY <1>1 DEF TellAgent, Open
<1>3. /\ DOMAIN changes = {"agent", "agentCols", "step"} /\ changes["agent"] = told
      /\ changes["agentCols"] = columns /\ changes["step"] = "totals"
  OBVIOUS
<1>. HIDE DEF changes
<1>4. /\ Held(t) /\ Follows(t, order, review) /\ t # Idle
      /\ t.kind # "respond" /\ ~t.disturbed => UpToDate(p)
      /\ txn = [q \in Requests |-> txn[q]] /\ Computing
      /\ txn' = [txn EXCEPT ![p] = u] /\ txn'[p] = u
      /\ UNCHANGED <<rows, dated>>
      /\ TxnColumns \subseteq DOMAIN u
      /\ u.kind = t.kind /\ u.order = t.order /\ u.disturbed = t.disturbed
      /\ \A c \in DOMAIN changes : u[c] = changes[c]
      /\ \A c \in DOMAIN t \ DOMAIN changes : u[c] = t[c]
      /\ \A q \in Open \ {p} : Apart(t, txn[q])
  BY <1>2, <1>3, Proceeding
<1>5. TxnColumns \subseteq DOMAIN t
  BY <1>4 DEF Held
<1>. HIDE DEF u
<1>6. /\ u.row = t.row /\ u.written = t.written /\ u.service = t.service
      /\ u.step = "totals" /\ u.f = t.f /\ u.agent = told
      /\ u.agentCols = columns /\ u.serviceCols = t.serviceCols
  BY <1>3, <1>4, <1>5 DEF TxnColumns
<1>7. /\ t.kind # "respond" /\ DOMAIN t.f = Figures
  BY <1>2, <1>4 DEF Held, ReadBefore
<1>8. \A c \in AgentColumns : mine[c] = t.f[c]
  BY <1>7, OverValue, FigureColumns
<1>. HIDE DEF mine
<1>9. /\ DOMAIN told = AgentColumns /\ columns = {c \in AgentColumns : t.f[c] # t.agent[c]}
      /\ \A c \in AgentColumns : told[c] = t.f[c]
  BY <1>8 DEF Dirty
<1>. HIDE DEF told, columns
<1>10. Held(u)
  BY <1>2, <1>4, <1>6, <1>7, <1>9 DEF Held, RatingSteps, ReadBefore
<1>11. Follows(u, order, review)
  BY <1>4, <1>6 DEF Follows
<1>12. \A q \in Open \ {p} : Apart(u, txn[q])
  BY <1>2, <1>4, <1>6 DEF Apart, AgentFree
<1>13. Computing' /\ \A q \in Requests \ {p} : IsLatest(q) => IsLatest(q)'
  BY <1>2, <1>4, NotYetComputed, ComputingKept
<1>14. ASSUME ~u.disturbed PROVE UpToDate(p)'
  <2>1. UpToDate(p) /\ service' = service /\ agent' = agent
    BY <1>4, <1>7, <1>14 DEF rows
  <2>2. \A c \in Figures : Measured(p, c)' = Measured(p, c) /\ t.f[c] = Measured(p, c)
    BY <1>4, <1>6, <1>7, <2>1, MeasuredKept DEF rows, UpToDate
  <2>3. \A c \in AgentColumns : t.agent[c] = agent[c]
    BY <1>2, <2>1 DEF UpToDate
  <2>4. \A c \in AgentColumns :
           Measured(p, c)' = IF c \in u.agentCols THEN u.agent[c] ELSE agent'[c]
    BY <1>6, <1>9, <2>1, <2>2, <2>3, FigureColumns
  <2> QED BY <1>4, <1>6, <1>7, <2>1, <2>2, <2>4 DEF UpToDate
<1> QED BY <1>4, <1>10, <1>11, <1>12, <1>13, <1>14, OwnStep

\* The snapshot is the newest from the moment it is dated.
LEMMA CountAllKeeps ==
    ASSUME RatingInv, NEW p \in Requests, CountAll(p) PROVE RatingInv'
<1>. DEFINE t == txn[p]
            kept == IF t.kind \in {"review", "withdraw"} THEN t.service ELSE service
            totals == [c \in ServiceColumns |-> Measured(p, c)]
            changes == [step |-> "publish", service |-> kept, totals |-> totals]
            u == Over(changes, t)
<1>1. /\ p \in Open /\ t.step = "totals" /\ Proceed(p, changes)
      /\ computed' = Append(computed, p)
  BY DEF CountAll, Open
<1>2. /\ DOMAIN changes = {"step", "service", "totals"} /\ changes["service"] = kept
      /\ changes["totals"] = totals /\ changes["step"] = "publish"
  OBVIOUS
<1>. HIDE DEF changes
<1>3. /\ Held(t) /\ Follows(t, order, review) /\ t # Idle
      /\ t.kind # "respond" /\ ~t.disturbed => UpToDate(p)
      /\ txn = [q \in Requests |-> txn[q]] /\ Computing
      /\ txn' = [txn EXCEPT ![p] = u] /\ txn'[p] = u
      /\ UNCHANGED <<rows, dated>>
      /\ TxnColumns \subseteq DOMAIN u
      /\ u.kind = t.kind /\ u.order = t.order /\ u.disturbed = t.disturbed
      /\ \A c \in DOMAIN changes : u[c] = changes[c]
      /\ \A c \in DOMAIN t \ DOMAIN changes : u[c] = t[c]
      /\ \A q \in Open \ {p} : Apart(t, txn[q])
  BY <1>1, <1>2, Proceeding
<1>0. DOMAIN u = DOMAIN changes \cup DOMAIN t
  BY OverValue
<1>4. TxnColumns \subseteq DOMAIN t
  BY <1>3 DEF Held
<1>. HIDE DEF u
<1>5. /\ u.row = t.row /\ u.written = t.written /\ u.service = kept /\ u.totals = totals
      /\ u.step = "publish" /\ u.f = t.f /\ u.agent = t.agent
      /\ u.agentCols = t.agentCols /\ u.serviceCols = t.serviceCols
      /\ "totals" \in DOMAIN u
  BY <1>0, <1>2, <1>3, <1>4 DEF TxnColumns
<1>6. /\ t.kind # "respond" /\ DOMAIN t.f = Figures /\ DOMAIN service = CounterColumns
      /\ t.kind \notin {"review", "withdraw"} => t.serviceCols = {}
  BY <1>1, <1>3 DEF Held, ReadBefore, RatingInv, RatingRows
<1>7. DOMAIN kept = CounterColumns /\ DOMAIN totals = ServiceColumns
      /\ \A c \in ServiceColumns : totals[c] = Measured(p, c)
  BY <1>3, <1>6 DEF Held
<1>. HIDE DEF totals
<1>8. Held(u)
  BY <1>1, <1>3, <1>5, <1>6, <1>7 DEF Held, RatingSteps, ReadBefore
<1>9. Follows(u, order, review)
  BY <1>3, <1>5 DEF Follows
<1>10. \A q \in Open \ {p} : Apart(u, txn[q])
  BY <1>3, <1>5 DEF Apart
<1>11. /\ computed \in Seq(Requests) /\ computed' \in Seq(Requests)
       /\ Len(computed) \in Nat /\ Len(computed') = Len(computed) + 1
       /\ \A i \in 1 .. Len(computed) : computed'[i] = computed[i]
       /\ computed'[Len(computed) + 1] = p
       /\ DOMAIN computed' = 1 .. Len(computed') /\ DOMAIN computed = 1 .. Len(computed)
  BY <1>1, <1>3, AppendProperties DEF Computing
<1>12. \A i \in 1 .. Len(computed) : computed[i] # p
  BY <1>1, <1>3 DEF Computing
<1>13. Computing'
  <2>1. \A i, j \in 1 .. Len(computed') : computed'[i] = computed'[j] => i = j
    BY <1>3, <1>11, <1>12 DEF Computing
  <2>2. ASSUME NEW i \in 1 .. Len(computed')
        PROVE  /\ txn'[computed'[i]] # Idle /\ txn'[computed'[i]].kind # "respond"
               /\ txn'[computed'[i]].step \in {"publish", "commit"}
    <3>1. CASE i = Len(computed) + 1
      <4>1. u # Idle
        BY <1>8, HeldNotIdle
      <4> QED BY <1>3, <1>5, <1>6, <1>11, <3>1, <4>1
    <3>2. CASE i \in 1 .. Len(computed)
      <4>1. computed[i] \in Requests \ {p}
        BY <1>11, <1>12, <3>2
      <4>2. txn'[computed'[i]] = txn[computed[i]]
        BY <1>3, <1>11, <3>2, <4>1
      <4> QED BY <1>3, <3>2, <4>2 DEF Computing
    <3> QED BY <1>11, <3>1, <3>2
  <2> QED BY <1>11, <2>1, <2>2 DEF Computing
<1>14. /\ IsLatest(p)'
       /\ \A q \in Requests \ {p} : IsLatest(q) => IsLatest(q)'
  <2>1. Len(computed) + 1 \in 1 .. Len(computed') /\ \A i \in 1 .. Len(computed) : i \in 1 .. Len(computed')
    BY <1>11
  <2> QED BY <1>11, <2>1 DEF IsLatest
<1>15. ASSUME ~u.disturbed PROVE UpToDate(p)'
  <2>1. UpToDate(p) /\ service' = service /\ agent' = agent
    BY <1>3, <1>6, <1>15 DEF rows
  <2>2. \A c \in Figures : Measured(p, c)' = Measured(p, c) /\ t.f[c] = Measured(p, c)
    BY <1>3, <1>5, <1>6, <2>1, MeasuredKept DEF rows, UpToDate
  <2>3. \A c \in AgentColumns :
           Measured(p, c)' = IF c \in u.agentCols THEN u.agent[c] ELSE agent'[c]
    BY <1>1, <1>5, <2>1, <2>2, FigureColumns DEF UpToDate
  <2>4. \A c \in ServiceColumns : u.totals[c] = Measured(p, c)'
    BY <1>5, <1>7, <2>2, FigureColumns
  <2>5. \A c \in ServiceColumns \ u.serviceCols : u.service[c] = service'[c]
    BY <1>5, <1>6, <2>1 DEF UpToDate
  <2> QED BY <1>3, <1>5, <1>6, <1>14, <2>2, <2>3, <2>4, <2>5 DEF UpToDate
<1> QED BY <1>3, <1>8, <1>9, <1>10, <1>13, <1>14, <1>15, OwnStep

-----------------------------------------------------------------------------
(* Commits, and what changes the figures: every other transaction that is  *)
(* open may have read something else.                                      *)

\* Marking a transaction changes nothing else in it.
LEMMA MarkedHeld ==
    ASSUME NEW t, Held(t)
    PROVE  LET u == [t EXCEPT !.disturbed = TRUE] IN
           /\ Held(u) /\ u # Idle /\ u.disturbed
           /\ u.kind = t.kind /\ u.order = t.order /\ u.row = t.row /\ u.written = t.written
           /\ u.step = t.step /\ u.agentCols = t.agentCols /\ u.serviceCols = t.serviceCols
<1>. DEFINE u == [t EXCEPT !.disturbed = TRUE]
<1>1. DOMAIN u = DOMAIN t /\ \A c \in DOMAIN t : c # "disturbed" => u[c] = t[c]
  OBVIOUS
<1>2. TxnColumns \subseteq DOMAIN t
  BY DEF Held
<1>3. u.disturbed
  BY <1>2 DEF TxnColumns
<1>. HIDE DEF u
<1>4. /\ u.kind = t.kind /\ u.order = t.order /\ u.row = t.row /\ u.written = t.written
      /\ u.step = t.step /\ u.agentCols = t.agentCols /\ u.serviceCols = t.serviceCols
      /\ u.f = t.f /\ u.agent = t.agent /\ u.service = t.service
      /\ "totals" \in DOMAIN t => "totals" \in DOMAIN u /\ u.totals = t.totals
  BY <1>1, <1>2 DEF TxnColumns
<1>5. TxnColumns \subseteq DOMAIN u
  BY <1>1, <1>2
<1>6. Held(u)
  BY <1>4, <1>5 DEF Held
<1> QED BY <1>3, <1>4, <1>6, HeldNotIdle DEF u

Marked(q) == IF txn[q] = Idle THEN Idle ELSE [txn[q] EXCEPT !.disturbed = TRUE]

LEMMA AllMarked ==
    ASSUME RatingInv, NEW E \in SUBSET Requests,
           txn' = [q \in Requests |-> IF q \in E THEN Idle ELSE Marked(q)]
    PROVE  /\ Open' = Open \ E
           /\ \A q \in Open \ E :
                 /\ Held(txn'[q]) /\ txn'[q].disturbed /\ txn'[q] # Idle
                 /\ txn'[q].kind = txn[q].kind /\ txn'[q].order = txn[q].order
                 /\ txn'[q].row = txn[q].row /\ txn'[q].written = txn[q].written
                 /\ txn'[q].step = txn[q].step
           /\ txn' = [q \in Requests |-> txn'[q]]
           /\ RowsApart' /\ FiguresCurrent'
<1>1. \A q \in Open \ E :
         /\ Held(txn'[q]) /\ txn'[q].disturbed /\ txn'[q] # Idle
         /\ txn'[q].kind = txn[q].kind /\ txn'[q].order = txn[q].order
         /\ txn'[q].row = txn[q].row /\ txn'[q].written = txn[q].written
         /\ txn'[q].step = txn[q].step /\ txn'[q].agentCols = txn[q].agentCols
         /\ txn'[q].serviceCols = txn[q].serviceCols
  <2>1. SUFFICES ASSUME NEW q \in Open \ E
                 PROVE  /\ Held(txn'[q]) /\ txn'[q].disturbed /\ txn'[q] # Idle
                        /\ txn'[q].kind = txn[q].kind /\ txn'[q].order = txn[q].order
                        /\ txn'[q].row = txn[q].row /\ txn'[q].written = txn[q].written
                        /\ txn'[q].step = txn[q].step /\ txn'[q].agentCols = txn[q].agentCols
                        /\ txn'[q].serviceCols = txn[q].serviceCols
    OBVIOUS
  <2>2. q \in Requests /\ txn[q] # Idle /\ Held(txn[q])
    BY <2>1, OpenTransactions
  <2>. DEFINE t == txn[q]
              u == [t EXCEPT !.disturbed = TRUE]
  <2>3. txn'[q] = u
    BY <2>1, <2>2 DEF Marked
  <2>4. /\ Held(u) /\ u # Idle /\ u.disturbed
        /\ u.kind = t.kind /\ u.order = t.order /\ u.row = t.row /\ u.written = t.written
        /\ u.step = t.step /\ u.agentCols = t.agentCols /\ u.serviceCols = t.serviceCols
    BY <2>2, MarkedHeld
  <2>. HIDE DEF u
  <2> QED BY <2>3, <2>4
<1>2. Open' = Open \ E
  <2>1. \A q \in Requests : txn'[q] # Idle <=> q \notin E /\ txn[q] # Idle
    BY <1>1 DEF Open, Marked
  <2> QED BY <2>1 DEF Open
<1>3. RowsApart'
  BY <1>1, <1>2 DEF RatingInv, RowsApart, Apart
<1>4. FiguresCurrent'
  BY <1>1, <1>2 DEF FiguresCurrent
<1> QED BY <1>1, <1>2, <1>3, <1>4

\* What a transaction commits, and how the others look at it.
LEMMA Committing ==
    ASSUME RatingInv, NEW p \in Open,
           order' = Seen(p, "order", order), review' = Seen(p, "review", review)
    PROVE  /\ order' \in [Orders -> Row] /\ review' \in [Orders -> Review \cup {NoReview}]
           /\ \A q \in Open \ {p} : Follows(txn[q], order', review')
<1>1. /\ Held(txn[p]) /\ Follows(txn[p], order, review)
      /\ order \in [Orders -> Row] /\ review \in [Orders -> Review \cup {NoReview}]
  BY DEF RatingInv, RatingRows, RowsFollow
<1>2. /\ txn[p].written => txn[p].order \in Orders
      /\ txn[p].written /\ Table(txn[p].kind) = "order" =>
            txn[p].row \in Row /\ txn[p].kind \in {"exclude", "settle"}
      /\ txn[p].written /\ Table(txn[p].kind) = "review" =>
            txn[p].row \in Review /\ txn[p].kind \in OnReview
  BY <1>1 DEF Held, Table, RatingKinds, OnReview
<1>3. order' \in [Orders -> Row] /\ review' \in [Orders -> Review \cup {NoReview}]
  BY <1>1, <1>2 DEF Seen
<1>4. ASSUME NEW q \in Open \ {p} PROVE Follows(txn[q], order', review')
  <2>1. /\ Held(txn[q]) /\ Follows(txn[q], order, review) /\ Apart(txn[p], txn[q])
    BY <1>4 DEF RatingInv, RatingRows, RowsFollow, RowsApart
  <2>2. txn[q].written => txn[q].order \in Orders
    BY <2>1 DEF Held
  <2>3. txn[q].written /\ Table(txn[q].kind) = "order" =>
           order'[txn[q].order] = order[txn[q].order]
    BY <1>1, <2>1, <2>2 DEF Seen, Apart
  <2>4. txn[q].written /\ Table(txn[q].kind) = "review" =>
           review'[txn[q].order] = review[txn[q].order]
    BY <1>1, <2>1, <2>2 DEF Seen, Apart
  <2>5. txn[q].kind \in {"withdraw", "respond"} => review'[txn[q].order] # NoReview
    <3>1. txn[p].written /\ Table(txn[p].kind) = "review" => txn[p].row # NoReview
      BY <1>2 DEF Review, NoReview
    <3>2. txn[q].kind \in {"withdraw", "respond"} =>
             txn[q].order \in Orders /\ review[txn[q].order] # NoReview
      BY <2>1 DEF Held, Follows
    <3> QED BY <1>1, <3>1, <3>2 DEF Seen
  <2>6. /\ txn[q].kind \in OnReview => Table(txn[q].kind) = "review"
        /\ txn[q].kind \in {"exclude", "settle"} => Table(txn[q].kind) = "order"
    BY DEF OnReview, Table
  <2> QED BY <2>1, <2>3, <2>4, <2>5, <2>6 DEF Follows, OnReview
<1> QED BY <1>3, <1>4

\* An answer to a review changes no figure.
LEMMA AnsweredOnly ==
    ASSUME related' = related, order' = order, NEW q, NEW c \in Figures,
           txn'[q] = txn[q],
           DOMAIN review' = Orders, DOMAIN review = Orders,
           \A o \in Orders :
              review'[o].status = review[o].status /\ review'[o].rating = review[o].rating
    PROVE  /\ Measured(q, c)' = Measured(q, c)
           /\ FigureOf(c, order, review)' = FigureOf(c, order, review)
<1>1. \A O, o : Counts(O, o)' <=> Counts(O, o)
  BY DEF Counts
<1>2. /\ \A o \in Orders :
            /\ Seen(q, "review", review)'[o].status = Seen(q, "review", review)[o].status
            /\ Seen(q, "review", review)'[o].rating = Seen(q, "review", review)[o].rating
      /\ Seen(q, "order", order)' = Seen(q, "order", order)
  BY DEF Seen
<1>3. \A o : Counts(Seen(q, "order", order), o)' <=> Counts(Seen(q, "order", order), o)
  BY <1>2 DEF Counts
<1>4. /\ Published(Seen(q, "order", order), Seen(q, "review", review))'
           = Published(Seen(q, "order", order), Seen(q, "review", review))
      /\ Published(order, review)' = Published(order, review)
      /\ Published(order, review) \subseteq Orders
      /\ Published(Seen(q, "order", order), Seen(q, "review", review)) \subseteq Orders
  BY <1>2, <1>3 DEF Published, Counts
<1>5. [o \in Published(Seen(q, "order", order), Seen(q, "review", review)) |->
          Seen(q, "review", review)[o].rating]'
       = [o \in Published(Seen(q, "order", order), Seen(q, "review", review)) |->
          Seen(q, "review", review)[o].rating]
  BY <1>2, <1>4
<1>6. [o \in Published(order, review) |-> review[o].rating]'
       = [o \in Published(order, review) |-> review[o].rating]
  BY <1>4
<1>7. Measured(q, c)' = Measured(q, c)
  BY <1>2, <1>3, <1>4, <1>5 DEF Measured, FigureOf, Figures
<1>8. FigureOf(c, order, review)' = FigureOf(c, order, review)
  <2>1. \A o : Counts(order, o)' <=> Counts(order, o)
    BY DEF Counts
  <2> QED BY <1>4, <1>6, <2>1 DEF FigureOf, Figures
<1> QED BY <1>7, <1>8

LEMMA RespondCommits ==
    ASSUME RatingInv, NEW p \in Requests, Commit(p), txn[p].kind = "respond"
    PROVE  RatingInv'
<1>. DEFINE t == txn[p]
<1>1. /\ p \in Open /\ Held(t) /\ Follows(t, order, review) /\ Computing
      /\ txn = [q \in Requests |-> txn[q]]
      /\ order \in [Orders -> Row] /\ review \in [Orders -> Review \cup {NoReview}]
      /\ service = [c \in CounterColumns |-> service[c]]
      /\ agent = [c \in AgentColumns |-> agent[c]]
  BY OpenTransactions DEF Commit, RatingInv, RatingRows, RowsFollow
<1>2. /\ t.serviceCols = {} /\ t.agentCols = {} /\ ~IsLatest(p)
  <2>1. DOMAIN computed = 1 .. Len(computed)
    BY <1>1 DEF Computing
  <2> QED BY <1>1, <2>1 DEF Held, Upkeep, Computing, IsLatest
<1>3. /\ order' = order /\ related' = related /\ service' = service /\ agent' = agent
      /\ snapshot' = snapshot /\ dated' = dated /\ computed' = computed
      /\ review' = Seen(p, "review", review)
  BY <1>1, <1>2 DEF Commit, Seen, Table, Laid
<1>4. txn' = [txn EXCEPT ![p] = Idle] /\ Computing'
      /\ \A q : IsLatest(q)' <=> IsLatest(q)
  <2>1. txn' = [txn EXCEPT ![p] = Idle]
    BY <1>1 DEF Commit
  <2> QED BY <1>1, <1>2, <1>3, <2>1, ComputingKept
<1>5. \A q \in Requests : txn'[q] = IF q = p THEN Idle ELSE txn[q]
  BY <1>1, <1>4
<1>6. Open' = Open \ {p}
  BY <1>5 DEF Open
<1>7. /\ review' \in [Orders -> Review \cup {NoReview}]
      /\ \A q \in Open \ {p} : Follows(txn[q], order', review')
  <2>1. order' = Seen(p, "order", order)
    BY DEF Commit
  <2> QED BY <1>1, <1>3, <2>1, Committing
<1>8. \A o \in Orders :
         review'[o].status = review[o].status /\ review'[o].rating = review[o].rating
  BY <1>1, <1>3 DEF Seen, Follows, Held
<1>9. \A c \in Figures : FigureOf(c, order, review)' = FigureOf(c, order, review)
  <2>1. \A o : Counts(order, o)' <=> Counts(order, o)
    BY <1>3 DEF Counts
  <2>2. Published(order, review)' = Published(order, review)
        /\ Published(order, review) \subseteq Orders
    BY <1>8, <2>1 DEF Published
  <2>3. [o \in Published(order, review) |-> review[o].rating]'
          = [o \in Published(order, review) |-> review[o].rating]
    BY <1>8, <2>2
  <2> QED BY <1>3, <2>1, <2>2, <2>3 DEF FigureOf, Figures
<1>10. RatingRows'
  <2>1. txn' = [q \in Requests |-> txn'[q]]
    BY <1>1, <1>4
  <2>2. \A q \in Open' : Held(txn'[q])
    BY <1>5, <1>6, OpenTransactions
  <2> QED BY <1>1, <1>3, <1>7, <2>1, <2>2 DEF RatingRows
<1>11. RowsApart'
  BY <1>5, <1>6, OpenTransactions DEF RatingInv, RowsApart
<1>12. RowsFollow'
  BY <1>5, <1>6, <1>7, OpenTransactions DEF RowsFollow
<1>13. FiguresCurrent'
  <2>1. SUFFICES ASSUME NEW q \in Open', txn'[q].kind # "respond", ~txn'[q].disturbed
                 PROVE  UpToDate(q)'
    BY DEF FiguresCurrent
  <2>2. q \in Open /\ txn'[q] = txn[q] /\ Held(txn[q])
    BY <1>5, <1>6, <2>1, OpenTransactions
  <2>3. UpToDate(q)
    BY <2>1, <2>2 DEF RatingInv, FiguresCurrent
  <2>4. DOMAIN review = Orders /\ DOMAIN review' = Orders
    BY <1>1, <1>7
  <2>5. \A c \in Figures : Measured(q, c)' = Measured(q, c)
    BY <1>3, <1>8, <2>2, <2>4, AnsweredOnly
  <2> QED BY <1>3, <1>4, <2>1, <2>2, <2>3, <2>5, UpToDateStays
<1>14. FiguresFollowRows'
  <2>1. [c \in Figures |-> FigureOf(c, order, review)]'
          = [c \in Figures |-> FigureOf(c, order, review)]
    BY <1>9
  <2> QED BY <1>3, <2>1 DEF RatingInv, FiguresFollowRows
<1> QED BY <1>4, <1>10, <1>11, <1>12, <1>13, <1>14 DEF RatingInv

\* A recomputation that nothing overlapped publishes what the rows give.
LEMMA FiguresCommitted ==
    ASSUME RatingInv, NEW p \in Open, Commit(p), txn[p].kind # "respond",
           ~txn[p].disturbed
    PROVE  FiguresFollowRows'
<1>. DEFINE t == txn[p]
<1>1. /\ Held(t) /\ UpToDate(p) /\ t.step = "commit"
      /\ agent = [c \in AgentColumns |-> agent[c]]
      /\ service = [c \in CounterColumns |-> service[c]]
  BY DEF RatingInv, RatingRows, FiguresCurrent, Commit
<1>2. /\ DOMAIN t.f = Figures /\ t.f = [c \in Figures |-> t.f[c]] /\ IsLatest(p)
      /\ \A c \in Figures : t.f[c] = Measured(p, c)
  BY <1>1 DEF Held, ReadBefore, UpToDate
<1>3. /\ snapshot' = [status |-> "published", f |-> t.f]
      /\ agent' = Laid(t.agentCols, t.agent, agent)
      /\ service' = Laid(t.serviceCols, t.service, service)
      /\ order' = Seen(p, "order", order) /\ review' = Seen(p, "review", review)
      /\ related' = related
  BY <1>2 DEF Commit
<1>4. \A c \in Figures : FigureOf(c, order, review)' = Measured(p, c)
  <2>1. \A o : Counts(order, o)' <=> Counts(Seen(p, "order", order), o)
    BY <1>3 DEF Counts
  <2>2. Published(order, review)'
          = Published(Seen(p, "order", order), Seen(p, "review", review))
    BY <1>3, <2>1 DEF Published
  <2>3. [o \in Published(order, review) |-> review[o].rating]'
          = [o \in Published(Seen(p, "order", order), Seen(p, "review", review)) |->
             Seen(p, "review", review)[o].rating]
    BY <1>3, <2>2
  <2> QED BY <1>3, <2>1, <2>2, <2>3 DEF Measured, FigureOf, Figures
<1>5. \A c \in AgentColumns : agent'[c] = Measured(p, c)
  BY <1>1, <1>3 DEF Laid, UpToDate
<1>6. \A c \in ServiceColumns : service'[c] = Measured(p, c)
  <2>1. \A c \in ServiceColumns : t.service[c] = Measured(p, c)
    BY <1>1 DEF UpToDate
  <2>2. \A c \in ServiceColumns \ t.serviceCols : t.service[c] = service[c]
    BY <1>1 DEF UpToDate
  <2>3. ServiceColumns \subseteq DOMAIN service
    BY <1>1 DEF CounterColumns
  <2> QED BY <1>3, <2>1, <2>2, <2>3 DEF Laid
<1>7. snapshot'.f = [c \in Figures |-> FigureOf(c, order, review)]'
  BY <1>2, <1>3, <1>4
<1>8. /\ \A c \in AgentColumns : agent'[c] = [d \in Figures |-> FigureOf(d, order, review)]'[c]
      /\ \A c \in ServiceColumns :
            service'[c] = [d \in Figures |-> FigureOf(d, order, review)]'[c]
  BY <1>4, <1>5, <1>6, FigureColumns
<1> QED BY <1>7, <1>8 DEF FiguresFollowRows

LEMMA OthersCommit ==
    ASSUME RatingInv, NEW p \in Requests, Commit(p), txn[p].kind # "respond"
    PROVE  RatingInv'
<1>. DEFINE t == txn[p]
<1>1. /\ p \in Open /\ Held(t) /\ Computing
      /\ order' = Seen(p, "order", order) /\ review' = Seen(p, "review", review)
      /\ service' = Laid(t.serviceCols, t.service, service)
      /\ agent' = Laid(t.agentCols, t.agent, agent)
      /\ service = [c \in CounterColumns |-> service[c]]
      /\ agent = [c \in AgentColumns |-> agent[c]]
      /\ dated' = t.disturbed
  BY OpenTransactions DEF Commit, RatingInv, RatingRows
<1>2. txn' = [q \in Requests |-> IF q \in {p} THEN Idle ELSE Marked(q)]
  BY DEF Commit, Marked
<1>3. /\ Open' = Open \ {p}
      /\ \A q \in Open \ {p} :
            /\ Held(txn'[q]) /\ txn'[q].disturbed /\ txn'[q] # Idle
            /\ txn'[q].kind = txn[q].kind /\ txn'[q].order = txn[q].order
            /\ txn'[q].row = txn[q].row /\ txn'[q].written = txn[q].written
            /\ txn'[q].step = txn[q].step
      /\ txn' = [q \in Requests |-> txn'[q]]
      /\ RowsApart' /\ FiguresCurrent'
  <2>1. {p} \in SUBSET Requests
    OBVIOUS
  <2> QED BY <1>2, <2>1, AllMarked
<1>4. /\ order' \in [Orders -> Row] /\ review' \in [Orders -> Review \cup {NoReview}]
      /\ \A q \in Open \ {p} : Follows(txn[q], order', review')
  BY <1>1, Committing
<1>5. RatingRows'
  <2>1. service' = [c \in CounterColumns |-> service'[c]]
        /\ agent' = [c \in AgentColumns |-> agent'[c]]
    BY <1>1 DEF Laid
  <2> QED BY <1>3, <1>4, <2>1 DEF RatingRows
<1>6. RowsFollow'
  BY <1>3, <1>4 DEF RowsFollow, Follows
<1>7. Computing'
  <2>1. computed \in Seq(Requests) /\ Len(computed) \in Nat
        /\ \A i, j \in 1 .. Len(computed) : computed[i] = computed[j] => i = j
    BY <1>1 DEF Computing
  <2>2. ASSUME NEW k \in 1 .. Len(computed), computed[k] # p
        PROVE  /\ txn'[computed[k]] # Idle /\ txn'[computed[k]].kind # "respond"
               /\ txn'[computed[k]].step \in {"publish", "commit"}
    <3>1. computed[k] \in Open \ {p}
      BY <1>1, <2>1, <2>2 DEF Computing, Open
    <3> QED BY <1>1, <1>3, <3>1 DEF Computing
  <2>3. CASE IsLatest(p)
    <3>1. /\ Place(p) \in 1 .. Len(computed) /\ computed[Place(p)] = p
          /\ Newer(p) \in Seq(Requests) /\ Len(Newer(p)) = Len(computed) - Place(p)
          /\ \A i \in 1 .. Len(Newer(p)) : Newer(p)[i] = computed[Place(p) + i]
      BY <1>1, <2>3, LaterSnapshots
    <3>2. computed' = Newer(p)
      BY <2>3 DEF Commit
    <3>3. \A i \in 1 .. Len(computed') :
             /\ Place(p) + i \in 1 .. Len(computed) /\ Place(p) + i # Place(p)
             /\ computed'[i] = computed[Place(p) + i]
      BY <2>1, <3>1, <3>2
    <3>. HIDE DEF Place
    <3>4. ASSUME NEW i \in 1 .. Len(computed'), NEW j \in 1 .. Len(computed'),
                 computed'[i] = computed'[j]
          PROVE  i = j
      <4>1. Place(p) + i = Place(p) + j
        BY <2>1, <3>3, <3>4
      <4> QED BY <3>1, <4>1
    <3>5. ASSUME NEW i \in 1 .. Len(computed')
          PROVE  /\ txn'[computed'[i]] # Idle /\ txn'[computed'[i]].kind # "respond"
                 /\ txn'[computed'[i]].step \in {"publish", "commit"}
      <4>1. /\ Place(p) + i \in 1 .. Len(computed) /\ computed'[i] = computed[Place(p) + i]
            /\ computed[Place(p) + i] # p
        BY <2>1, <3>1, <3>3
      <4> QED BY <2>2, <4>1
    <3> QED BY <3>1, <3>2, <3>4, <3>5 DEF Computing
  <2>4. CASE ~IsLatest(p)
    <3>1. computed' = computed
      BY <2>4 DEF Commit
    <3>2. \A k \in 1 .. Len(computed) : computed[k] # p
      <4>1. DOMAIN computed = 1 .. Len(computed)
        BY <2>1
      <4> QED BY <2>4, <4>1 DEF IsLatest
    <3> QED BY <2>1, <2>2, <3>1, <3>2 DEF Computing
  <2> QED BY <2>3, <2>4
<1>8. FiguresFollowRows'
  <2>1. CASE t.disturbed
    BY <1>1, <2>1 DEF FiguresFollowRows
  <2>2. CASE ~t.disturbed
    BY <1>1, <2>2, FiguresCommitted
  <2> QED BY <2>1, <2>2
<1> QED BY <1>3, <1>5, <1>6, <1>7, <1>8 DEF RatingInv

LEMMA ChangedKeeps ==
    ASSUME RatingInv, NEW orders \in [Orders -> Row], order' = orders,
           review' = review,
           UNCHANGED <<service, agent, snapshot, computed>>, dated' = TRUE,
           txn' = [q \in Requests |->
                     IF txn[q] = Idle THEN Idle ELSE [txn[q] EXCEPT !.disturbed = TRUE]],
           \A o \in Orders : orders[o].excluded = order[o].excluded
    PROVE  RatingInv'
<1>1. txn' = [q \in Requests |-> IF q \in {} THEN Idle ELSE Marked(q)]
  BY DEF Marked
<1>2. /\ Open' = Open
      /\ \A q \in Open :
            /\ Held(txn'[q]) /\ txn'[q].disturbed /\ txn'[q] # Idle
            /\ txn'[q].kind = txn[q].kind /\ txn'[q].order = txn[q].order
            /\ txn'[q].row = txn[q].row /\ txn'[q].written = txn[q].written
            /\ txn'[q].step = txn[q].step
      /\ txn' = [q \in Requests |-> txn'[q]]
      /\ RowsApart' /\ FiguresCurrent'
  <2>1. {} \in SUBSET Requests
    OBVIOUS
  <2>2. Open \ {} = Open
    OBVIOUS
  <2> QED BY <1>1, <2>1, <2>2, AllMarked
<1>3. RatingRows'
  BY <1>2 DEF RatingInv, RatingRows
<1>4. RowsFollow'
  <2>1. SUFFICES ASSUME NEW q \in Open PROVE Follows(txn'[q], order', review')
    BY <1>2 DEF RowsFollow
  <2>2. /\ Held(txn[q]) /\ Follows(txn[q], order, review)
        /\ txn'[q].kind = txn[q].kind /\ txn'[q].order = txn[q].order
        /\ txn'[q].row = txn[q].row /\ txn'[q].written = txn[q].written
    BY <1>2, <2>1, OpenTransactions DEF RatingInv, RowsFollow
  <2>3. txn[q].kind \in {"exclude", "settle"} => txn[q].order \in Orders
    BY <2>2 DEF Held
  <2>4. txn[q].kind \in {"exclude", "settle"} =>
           order'[txn[q].order].excluded = order[txn[q].order].excluded
    BY <2>3
  <2> QED BY <2>2, <2>4 DEF Follows
<1>5. Computing'
  <2>1. computed \in Seq(Requests) /\ DOMAIN computed = 1 .. Len(computed)
        /\ \A i, j \in 1 .. Len(computed) : computed[i] = computed[j] => i = j
    BY DEF RatingInv, Computing
  <2>2. ASSUME NEW i \in 1 .. Len(computed)
        PROVE  /\ txn'[computed[i]] # Idle /\ txn'[computed[i]].kind # "respond"
               /\ txn'[computed[i]].step \in {"publish", "commit"}
    <3>1. computed[i] \in Requests /\ txn[computed[i]] # Idle
      BY <2>1 DEF RatingInv, Computing
    <3>2. computed[i] \in Open
      BY <3>1 DEF Open
    <3>3. txn[computed[i]].kind # "respond" /\ txn[computed[i]].step \in {"publish", "commit"}
      BY DEF RatingInv, Computing
    <3> QED BY <1>2, <3>2, <3>3
  <2>3. computed' = computed
    OBVIOUS
  <2> QED BY <2>1, <2>2, <2>3 DEF Computing
<1>6. FiguresFollowRows'
  BY DEF FiguresFollowRows
<1> QED BY <1>2, <1>3, <1>4, <1>5, <1>6 DEF RatingInv

LEMMA CountByHandKeeps ==
    ASSUME RatingInv, CountByHand PROVE RatingInv'
<1>1. /\ order' = order /\ related' = related /\ review' = review /\ agent' = agent
      /\ snapshot' = snapshot /\ txn' = txn /\ computed' = computed /\ dated' = dated
      /\ service' = [service EXCEPT !.completed = service'["completed"]]
      /\ service = [c \in CounterColumns |-> service[c]]
  BY DEF CountByHand, RatingInv, RatingRows, CounterColumns
<1>2. /\ service' = [c \in CounterColumns |-> service'[c]]
      /\ \A c \in ServiceColumns : service'[c] = service[c]
  BY <1>1 DEF CounterColumns, ServiceColumns
<1>3. Open' = Open
  BY <1>1 DEF Open
<1>4. RatingRows' /\ RowsApart' /\ RowsFollow'
  BY <1>1, <1>2, <1>3 DEF RatingInv, RatingRows, RowsApart, RowsFollow
<1>5. Computing' /\ \A q : IsLatest(q)' <=> IsLatest(q)
  BY <1>1 DEF RatingInv, Computing, IsLatest
<1>6. FiguresCurrent'
  <2>1. SUFFICES ASSUME NEW q \in Open, txn[q].kind # "respond", ~txn[q].disturbed
                 PROVE  UpToDate(q)'
    BY <1>1, <1>3 DEF FiguresCurrent
  <2>2. UpToDate(q) /\ Held(txn[q]) /\ txn'[q] = txn[q]
    BY <1>1, <2>1, OpenTransactions DEF RatingInv, FiguresCurrent
  <2>3. \A c \in Figures : Measured(q, c)' = Measured(q, c)
    BY <1>1, MeasuredKept
  <2> QED BY <1>1, <1>2, <1>5, <2>1, <2>2, <2>3, UpToDateStays
<1>7. FiguresFollowRows'
  <2>1. [c \in Figures |-> FigureOf(c, order, review)]'
          = [c \in Figures |-> FigureOf(c, order, review)]
    <3>1. \A o : Counts(order, o)' <=> Counts(order, o)
      BY <1>1 DEF Counts
    <3>2. Published(order, review)' = Published(order, review)
      BY <1>1, <3>1 DEF Published
    <3>3. \A c \in Figures : FigureOf(c, order, review)' = FigureOf(c, order, review)
      BY <1>1, <3>1, <3>2 DEF FigureOf, Figures
    <3> QED BY <3>3
  <2> QED BY <1>1, <1>2, <2>1 DEF RatingInv, FiguresFollowRows
<1> QED BY <1>4, <1>5, <1>6, <1>7 DEF RatingInv

-----------------------------------------------------------------------------
(* The induction.                                                          *)

LEMMA RatingStart == ASSUME Init PROVE RatingInv
<1>1. Open = {}
  BY DEF Init, Open
<1>2. RatingRows
  <2>1. [outcome |-> "open", excluded |-> NotExcluded] \in Row
    BY DEF Row, Outcomes
  <2> QED BY <1>1, <2>1 DEF Init, RatingRows, CounterColumns
<1>3. RowsApart /\ RowsFollow /\ FiguresCurrent
  BY <1>1 DEF RowsApart, RowsFollow, FiguresCurrent
<1>4. Computing
  BY EmptySeq DEF Init, Computing
<1>5. FiguresFollowRows
  BY DEF Init, FiguresFollowRows
<1> QED BY <1>2, <1>3, <1>4, <1>5 DEF RatingInv

LEMMA RequestBegins ==
    ASSUME RatingInv, NEW p \in Requests, NEW o \in Orders,
           \/ \E r \in Ratings : CreateReview(p, o, r)
           \/ WithdrawReview(p, o) \/ RespondToReview(p, o) \/ ExcludeOrder(p, o)
           \/ \E outcome \in Outcomes : ApplySettlement(p, o, outcome)
    PROVE  RatingInv'
<1>1. order[o] \in Row /\ review[o] \in Review \cup {NoReview}
  BY DEF RatingInv, RatingRows
<1>2. CASE \E r \in Ratings : CreateReview(p, o, r)
  <2>1. PICK r \in Ratings :
           Begin(p, "review", o, [status |-> "published", rating |-> r, answered |-> FALSE],
                 "write")
    BY <1>2 DEF CreateReview
  <2>2. [status |-> "published", rating |-> r, answered |-> FALSE] \in Review
    BY DEF Review
  <2> QED BY <2>1, <2>2, BeginKeeps DEF RatingKinds
<1>3. CASE WithdrawReview(p, o)
  <2>1. review[o] # NoReview /\ Begin(p, "withdraw", o, review[o], "write")
    BY <1>3 DEF WithdrawReview, NoReview
  <2>2. review[o] \in Review
    BY <1>1, <2>1
  <2> QED BY <2>1, <2>2, BeginKeeps DEF RatingKinds
<1>4. CASE RespondToReview(p, o)
  <2>1. review[o] # NoReview /\ Begin(p, "respond", o, review[o], "write")
    BY <1>4 DEF RespondToReview
  <2>2. review[o] \in Review
    BY <1>1, <2>1
  <2> QED BY <2>1, <2>2, BeginKeeps DEF RatingKinds
<1>5. CASE ExcludeOrder(p, o)
  <2>1. Begin(p, "exclude", o, order[o], "write")
    BY <1>5 DEF ExcludeOrder
  <2> QED BY <1>1, <2>1, BeginKeeps DEF RatingKinds, OnReview
<1>6. CASE \E outcome \in Outcomes : ApplySettlement(p, o, outcome)
  <2>1. PICK outcome \in Outcomes :
           Begin(p, "settle", o, [order[o] EXCEPT !.outcome = outcome], "write")
    BY <1>6 DEF ApplySettlement
  <2>2. [order[o] EXCEPT !.outcome = outcome] \in Row
    BY <1>1 DEF Row
  <2> QED BY <2>1, <2>2, BeginKeeps DEF RatingKinds, OnReview
<1> QED BY <1>2, <1>3, <1>4, <1>5, <1>6

LEMMA RecomputeBegins ==
    ASSUME RatingInv, NEW p \in Requests, RecomputeAgent(p) PROVE RatingInv'
BY BeginKeeps DEF RecomputeAgent, RatingKinds, OnReview

LEMMA RatingStep == ASSUME RatingInv, [Next]_vars PROVE RatingInv'
<1>1. ASSUME NEW p \in Requests, Request(p) PROVE RatingInv'
  <2>1. CASE \E o \in Orders :
                \/ \E r \in Ratings : CreateReview(p, o, r)
                \/ WithdrawReview(p, o) \/ RespondToReview(p, o) \/ ExcludeOrder(p, o)
                \/ \E outcome \in Outcomes : ApplySettlement(p, o, outcome)
    BY <2>1, RequestBegins
  <2>2. CASE RecomputeAgent(p) \/ ReadReputation(p)
    BY <2>2, RecomputeBegins DEF ReadReputation
  <2>3. CASE WriteRow(p) \/ CountReview(p) \/ LoadAgent(p) \/ GatherInputs(p)
    BY <2>3, WriteRowKeeps, CountReviewKeeps, LoadAgentKeeps, GatherInputsKeeps
  <2>4. CASE TellAgent(p) \/ CountAll(p) \/ Publish(p) \/ Fail(p)
    BY <2>4, TellAgentKeeps, CountAllKeeps, PublishKeeps, RefuseKeeps DEF Fail
  <2>5. CASE Commit(p)
    BY <2>5, RespondCommits, OthersCommit
  <2> QED BY <1>1, <2>1, <2>2, <2>3, <2>4, <2>5 DEF Request
<1>2. ASSUME NEW o \in Orders, ApplyDispute(o) \/ ExpireUnfunded(o) \/ JoinOrLeave(o)
      PROVE RatingInv'
  <2>1. order \in [Orders -> Row]
    BY DEF RatingInv, RatingRows
  <2>2. /\ order' \in [Orders -> Row] /\ review' = review
        /\ \A x \in Orders : order'[x].excluded = order[x].excluded
    BY <1>2, <2>1
       DEF ApplyDispute, ExpireUnfunded, JoinOrLeave, Row, Outcomes, Cancelled,
                      Disputed
  <2>3. Changed
    BY <1>2 DEF ApplyDispute, ExpireUnfunded, JoinOrLeave
  <2> QED BY <2>2, <2>3, ChangedKeeps DEF Changed
<1>3. CASE CountByHand
  BY <1>3, CountByHandKeeps
<1>4. CASE UNCHANGED vars
  <2>1. /\ UNCHANGED <<order, related, review, service, agent, snapshot, txn, computed, dated>>
    BY <1>4 DEF vars
  <2>2. Open' = Open
    BY <2>1 DEF Open
  <2>3. RatingRows' /\ RowsApart' /\ RowsFollow'
    BY <2>1, <2>2 DEF RatingInv, RatingRows, RowsApart, RowsFollow
  <2>4. Computing' /\ \A q : IsLatest(q)' <=> IsLatest(q)
    BY <2>1 DEF RatingInv, Computing, IsLatest
  <2>5. FiguresCurrent'
    <3>1. SUFFICES ASSUME NEW q \in Open, txn[q].kind # "respond", ~txn[q].disturbed
                   PROVE  UpToDate(q)'
      BY <2>1, <2>2 DEF FiguresCurrent
    <3>2. UpToDate(q) /\ Held(txn[q]) /\ txn'[q] = txn[q]
      BY <2>1, <3>1, OpenTransactions DEF RatingInv, FiguresCurrent
    <3>3. \A c \in Figures : Measured(q, c)' = Measured(q, c)
      BY <2>1, MeasuredKept
    <3> QED BY <2>1, <2>4, <3>1, <3>2, <3>3, UpToDateStays
  <2>6. FiguresFollowRows'
    <3>1. [c \in Figures |-> FigureOf(c, order, review)]'
            = [c \in Figures |-> FigureOf(c, order, review)]
      <4>1. \A o : Counts(order, o)' <=> Counts(order, o)
        BY <2>1 DEF Counts
      <4>2. Published(order, review)' = Published(order, review)
        BY <2>1, <4>1 DEF Published
      <4>3. \A c \in Figures : FigureOf(c, order, review)' = FigureOf(c, order, review)
        BY <2>1, <4>1, <4>2 DEF FigureOf, Figures
      <4> QED BY <4>3
    <3> QED BY <2>1, <3>1 DEF RatingInv, FiguresFollowRows
  <2> QED BY <2>3, <2>4, <2>5, <2>6 DEF RatingInv
<1> QED BY <1>1, <1>2, <1>3, <1>4 DEF Next

\* Only a commit changes reviews; it and the environment change orders.
LEMMA VerdictsKept ==
    ASSUME RatingInv, [Next]_vars PROVE ExclusionSticks /\ ReviewStays
<1>1. CASE UNCHANGED <<order, review>>
  BY <1>1 DEF ExclusionSticks, ReviewStays
<1>2. ASSUME NEW p \in Requests, Commit(p) PROVE ExclusionSticks /\ ReviewStays
  <2>. DEFINE t == txn[p]
  <2>1. /\ p \in Open /\ Held(t) /\ Follows(t, order, review)
        /\ order \in [Orders -> Row] /\ review \in [Orders -> Review \cup {NoReview}]
        /\ order' = Seen(p, "order", order) /\ review' = Seen(p, "review", review)
    BY <1>2, OpenTransactions DEF Commit, RatingInv, RatingRows, RowsFollow
  <2>2. ExclusionSticks
    BY <2>1 DEF Seen, Table, Held, RatingKinds, Follows, ExclusionSticks
  <2>3. ReviewStays
    <3>1. SUFFICES ASSUME NEW o \in Orders, review[o] # NoReview
                   PROVE  /\ review'[o] # NoReview /\ review'[o].rating = review[o].rating
                          /\ review[o].status = "withdrawn" => review'[o].status = "withdrawn"
      BY DEF ReviewStays
    <3>2. CASE review'[o] = review[o]
      BY <3>1, <3>2
    <3>3. CASE review'[o] # review[o]
      <4>1. /\ t.written /\ Table(t.kind) = "review" /\ o = t.order /\ review'[o] = t.row
        BY <2>1, <3>3 DEF Seen
      <4>2. t.kind \in OnReview \cup {"recompute"}
        BY <2>1, <4>1 DEF Held, Table, RatingKinds, OnReview
      <4>3. t.kind \in {"withdraw", "respond"} /\ t.row \in Review
        BY <2>1, <3>1, <4>1, <4>2 DEF Held, Follows, OnReview
      <4>4. t.row # NoReview
        BY <4>3 DEF Review, NoReview
      <4> QED BY <2>1, <4>1, <4>3, <4>4 DEF Follows
    <3> QED BY <3>2, <3>3
  <2> QED BY <2>2, <2>3
<1>3. ASSUME NEW o \in Orders, ApplyDispute(o) \/ ExpireUnfunded(o)
      PROVE  ExclusionSticks /\ ReviewStays
  <2>1. order \in [Orders -> Row]
    BY DEF RatingInv, RatingRows
  <2>2. review' = review /\ \A x \in Orders : order'[x].excluded = order[x].excluded
    BY <1>3, <2>1 DEF ApplyDispute, ExpireUnfunded, Row
  <2> QED BY <2>2 DEF ExclusionSticks, ReviewStays
<1>4. ASSUME NEW p \in Requests, Request(p),
             ~Commit(p) PROVE UNCHANGED <<order, review>>
  BY <1>4 DEF Request, CreateReview, WithdrawReview, RespondToReview, ExcludeOrder,
       ApplySettlement, RecomputeAgent, ReadReputation, Begin, WriteRow, CountReview,
       FlushService, LoadAgent, GatherInputs, Select, TellAgent, CountAll, Publish, Fail,
       Proceed, Refuse, rows
<1>5. CASE CountByHand \/ UNCHANGED vars
  BY <1>1, <1>5 DEF CountByHand, vars
<1>6. ASSUME NEW o \in Orders, JoinOrLeave(o) PROVE UNCHANGED <<order, review>>
  BY <1>6 DEF JoinOrLeave
<1> QED BY <1>1, <1>2, <1>3, <1>4, <1>5, <1>6 DEF Next

-----------------------------------------------------------------------------
(* The counters.  A transaction computes its counters from what it loaded, *)
(* and others may change the row before its UPDATE is sent; the CHECK      *)
(* constraints look at the row the UPDATE makes of what is committed then. *)
(* They hold of what the commit leaves because the row is locked from the  *)
(* UPDATE on.  The column changed by hand keeps them because it never      *)
(* falls: it is a number of orders, of which none becomes uncompleted, as  *)
(* one settlement is under way at a time, and it finds its order open.     *)

CompletedOrders == {o \in Orders : order[o].outcome \in Completed}

\* What an open transaction has written or will write passes the CHECK
\* constraints, over the rows as they are now.
Carries(t, orders, services, agents) ==
    /\ t.service \in [CounterColumns -> Nat] /\ t.agent \in [AgentColumns -> Nat]
    /\ \A c \in DOMAIN t.f : t.f[c] \in Nat
    /\ t.step = "publish" => t.totals \in [ServiceColumns -> Nat]
    /\ t.step = "commit" /\ t.kind # "respond" => SnapshotChecks(t.f)
    /\ t.serviceCols # {} => ServiceChecks(Laid(t.serviceCols, t.service, services))
    /\ t.agentCols # {} => AgentChecks(Laid(t.agentCols, t.agent, agents))
    /\ t.kind = "settle" => orders[t.order].outcome \notin Completed
    /\ t.kind = "exclude" /\ t.written => t.row.outcome = orders[t.order].outcome

OneSettlement ==
    \A p, q \in Open : txn[p].kind = "settle" /\ txn[q].kind = "settle" => p = q

CountsInv ==
    /\ TypeOK
    /\ service.completed <= Cardinality(CompletedOrders)
    /\ \A p \in Open : Carries(txn[p], order, service, agent)
    /\ OneSettlement

-----------------------------------------------------------------------------
(* Figures are naturals.                                                   *)

LEMMA FigureNatural ==
    ASSUME ReputationAssumption, NEW orders,
           NEW reviews \in [Orders -> Review \cup {NoReview}], NEW c \in Figures
    PROVE  FigureOf(c, orders, reviews) \in Nat
<1>1. IsFiniteSet(Orders) /\ Ratings \subseteq Nat
  BY DEF ReputationAssumption
<1>2. \A P \in SUBSET Orders : IsFiniteSet(P) /\ Cardinality(P) \in Nat
  BY <1>1, FS_Subset, FS_CardinalityType
<1>3. Published(orders, reviews) \in SUBSET Orders
  BY DEF Published
<1>4. SumFunction([o \in Published(orders, reviews) |-> reviews[o].rating]) \in Nat
  <2>. DEFINE f == [o \in Published(orders, reviews) |-> reviews[o].rating]
  <2>1. \A o \in Published(orders, reviews) : reviews[o] \in Review
    BY <1>3 DEF Published, NoReview
  <2>2. \A o \in Published(orders, reviews) : reviews[o].rating \in Nat
    BY <1>1, <2>1 DEF Review
  <2>3. IsFiniteSet(DOMAIN f) /\ \A o \in DOMAIN f : f[o] \in Nat
    BY <1>2, <1>3, <2>2
  <2>. HIDE DEF f
  <2>4. SumFunction(f) \in Nat
    BY <2>3, SumType
  <2> QED BY <2>4 DEF f
<1>5. Cardinality(Published(orders, reviews)) \in Nat
  BY <1>2, <1>3
<1>6. /\ Cardinality({o \in Orders : orders[o].outcome \in Paid /\ Counts(orders, o)}) \in Nat
      /\ Cardinality({o \in Orders : orders[o].outcome \in Cancelled}) \in Nat
      /\ Cardinality({o \in Orders : orders[o].outcome \in Disputed}) \in Nat
      /\ Cardinality({o \in Orders : orders[o].outcome \in Lost}) \in Nat
  BY <1>2
<1> QED BY <1>4, <1>5, <1>6 DEF FigureOf, Figures

LEMMA MeasuredNatural ==
    ASSUME ReputationAssumption, RatingInv, NEW p \in Open, NEW c \in Figures
    PROVE  Measured(p, c) \in Nat
<1>1. /\ Held(txn[p]) /\ review \in [Orders -> Review \cup {NoReview}]
  BY DEF RatingInv, RatingRows
<1>2. txn[p].written /\ Table(txn[p].kind) = "review" => txn[p].row \in Review
  BY <1>1 DEF Held, Table, RatingKinds, OnReview
<1>3. Seen(p, "review", review) \in [Orders -> Review \cup {NoReview}]
  BY <1>1, <1>2 DEF Seen
<1> QED BY <1>3, FigureNatural DEF Measured

-----------------------------------------------------------------------------
(* Steps that commit nothing.                                              *)

\* The rows stay sound while one transaction moves on and carries what is sound.
LEMMA OwnCounts ==
    ASSUME RatingInv, CountsInv, NEW p \in Requests, NEW u,
           txn' = [txn EXCEPT ![p] = u], UNCHANGED rows,
           u # Idle =>
             /\ Carries(u, order, service, agent)
             /\ u.kind = "settle" => \A q \in Open \ {p} : txn[q].kind # "settle"
    PROVE  CountsInv'
<1>1. /\ txn = [q \in Requests |-> txn[q]] /\ txn'[p] = u
      /\ \A q \in Requests \ {p} : txn'[q] = txn[q]
  BY DEF RatingInv, RatingRows
<1>2. /\ order' = order /\ related' = related /\ review' = review /\ service' = service
      /\ agent' = agent /\ snapshot' = snapshot
  BY DEF rows
<1>3. \A q \in Open' : q \in Requests /\ (q = p => u # Idle) /\ (q # p => q \in Open)
  BY <1>1 DEF Open
<1>4. TypeOK' /\ CompletedOrders' = CompletedOrders
  BY <1>2 DEF CountsInv, TypeOK, CompletedOrders
<1>5. \A q \in Open' : Carries(txn'[q], order', service', agent')
  BY <1>1, <1>2, <1>3 DEF CountsInv
<1>6. OneSettlement'
  BY <1>1, <1>3 DEF CountsInv, OneSettlement
<1> QED BY <1>2, <1>4, <1>5, <1>6 DEF CountsInv

\* What it proceeds with must be sound; that it is the one settlement stays so.
LEMMA OwnCarries ==
    ASSUME RatingInv, CountsInv, NEW p \in Open, NEW u,
           txn' = [txn EXCEPT ![p] = u], UNCHANGED rows, u.kind = txn[p].kind,
           Carries(u, order, service, agent)
    PROVE  CountsInv'
<1>1. p \in Requests
  BY DEF Open
<1>2. u.kind = "settle" => \A q \in Open \ {p} : txn[q].kind # "settle"
  BY DEF CountsInv, OneSettlement
<1> QED BY <1>1, <1>2, OwnCounts

LEMMA RefuseCounts ==
    ASSUME RatingInv, CountsInv, NEW p \in Requests, Refuse(p) PROVE CountsInv'
BY OwnCounts DEF Refuse

LEMMA BeginCounts ==
    ASSUME RatingInv, CountsInv, NEW p \in Requests, NEW kind \in RatingKinds, NEW o,
           NEW row, NEW step \in {"write", "load"}, Begin(p, kind, o, row, step),
           kind = "settle" =>
              order[o].outcome \notin Completed /\ \A q \in Open : txn[q].kind # "settle"
    PROVE  CountsInv'
<1>. DEFINE u == [kind |-> kind, order |-> o, row |-> row, written |-> FALSE, step |-> step,
                  f |-> [c \in {} |-> 0], agent |-> agent, service |-> service,
                  agentCols |-> {}, serviceCols |-> {}, disturbed |-> FALSE]
<1>1. txn' = [txn EXCEPT ![p] = u] /\ UNCHANGED rows
  BY DEF Begin
<1>2. /\ service \in [CounterColumns -> Nat] /\ agent \in [AgentColumns -> Nat]
  BY DEF CountsInv, TypeOK, CounterColumns
<1>3. /\ u.kind = kind /\ u.order = o /\ ~u.written /\ u.step = step /\ DOMAIN u.f = {}
      /\ u.agent = agent /\ u.service = service /\ u.agentCols = {} /\ u.serviceCols = {}
  OBVIOUS
<1>. HIDE DEF u
<1>4. Carries(u, order, service, agent)
  BY <1>2, <1>3 DEF Carries
<1> QED BY <1>1, <1>3, <1>4, OwnCounts

LEMMA WriteRowCounts ==
    ASSUME RatingInv, CountsInv, NEW p \in Requests, WriteRow(p) PROVE CountsInv'
<1>. DEFINE t == txn[p]
            s == CASE t.kind \in {"review", "withdraw"} -> "count"
                   [] t.kind = "respond" -> "commit"
                   [] OTHER -> "load"
            changes == [row |-> RowWritten(p), written |-> TRUE, service |-> service, step |-> s]
            u == Over(changes, t)
<1>1. CASE ~Allowed(t)
  BY <1>1, RefuseCounts DEF WriteRow
<1>2. CASE Allowed(t)
  <2>1. p \in Open /\ t.step = "write" /\ Proceed(p, changes)
    BY <1>2 DEF WriteRow, Open
  <2>2. /\ DOMAIN changes = {"row", "written", "service", "step"}
        /\ {"kind", "order", "disturbed"} \cap DOMAIN changes = {}
        /\ changes["row"] = RowWritten(p) /\ changes["written"] = TRUE
        /\ changes["service"] = service /\ changes["step"] = s
    OBVIOUS
  <2>. HIDE DEF changes
  <2>3. /\ Held(t) /\ txn' = [txn EXCEPT ![p] = u] /\ UNCHANGED rows
        /\ TxnColumns \subseteq DOMAIN u
        /\ u.kind = t.kind /\ u.order = t.order
        /\ \A c \in DOMAIN changes : u[c] = changes[c]
        /\ \A c \in DOMAIN t \ DOMAIN changes : u[c] = t[c]
    BY <2>1, <2>2, Proceeding
  <2>4. TxnColumns \subseteq DOMAIN t
    BY <2>3 DEF Held
  <2>. HIDE DEF u
  <2>5. /\ u.row = RowWritten(p) /\ u.service = service /\ u.step = s
        /\ u.f = t.f /\ u.agent = t.agent /\ u.agentCols = t.agentCols
        /\ u.serviceCols = t.serviceCols
    BY <2>2, <2>3, <2>4 DEF TxnColumns
  <2>6. /\ t.serviceCols = {} /\ t.agentCols = {} /\ t.kind # "recompute"
        /\ t.order \in Orders
    BY <2>1, <2>3 DEF Held, Upkeep
  <2>7. /\ s \in {"count", "commit", "load"}
        /\ s = "commit" => t.kind = "respond"
    OBVIOUS
  <2>8. t.kind = "exclude" => u.row.outcome = order[t.order].outcome
    <3>1. t.order \in Orders /\ order[t.order] \in Row
      BY <2>6 DEF RatingInv, RatingRows
    <3>2. t.kind = "exclude" => u.row = [order[t.order] EXCEPT !.excluded = p]
      BY <2>5 DEF RowWritten
    <3> QED BY <3>1, <3>2 DEF Row
  <2>. HIDE DEF s
  <2>9. /\ Carries(t, order, service, agent) /\ service \in [CounterColumns -> Nat]
    BY <2>1 DEF CountsInv, TypeOK, CounterColumns
  <2>10. Carries(u, order, service, agent)
    BY <2>3, <2>5, <2>6, <2>7, <2>8, <2>9 DEF Carries
  <2> QED BY <2>1, <2>3, <2>10, OwnCarries
<1> QED BY <1>1, <1>2

\* The counters of the service are flushed, and pass its checks.
LEMMA FlushCounts ==
    ASSUME RatingInv, CountsInv, NEW p \in Open, NEW new \in [ServiceColumns -> Nat],
           NEW s \in {"load", "commit"}, FlushService(p, new, [step |-> s]),
           s = "commit" => SnapshotChecks(txn[p].f)
    PROVE  CountsInv'
<1>. DEFINE t == txn[p]
<1>1. SUFFICES ASSUME ~Refuse(p) PROVE CountsInv'
  <2>1. p \in Requests
    BY DEF Open
  <2> QED BY <2>1, RefuseCounts
<1>2. PICK u :
        /\ txn' = [txn EXCEPT ![p] = u] /\ UNCHANGED rows
        /\ u.kind = t.kind /\ u.order = t.order /\ u.row = t.row
        /\ u.written = t.written /\ u.f = t.f /\ u.agent = t.agent
        /\ u.agentCols = t.agentCols /\ u.step = s
        /\ \/ u.service = t.service /\ u.serviceCols = t.serviceCols
           \/ /\ u.service = Over(new, t.service)
              /\ ServiceChecks(Laid(u.serviceCols, u.service, service))
  BY <1>1, FlushServiceStep
<1>3. Carries(t, order, service, agent)
  BY DEF CountsInv
<1>4. Over(new, t.service) \in [CounterColumns -> Nat]
  <2>1. /\ DOMAIN new = ServiceColumns /\ DOMAIN t.service = CounterColumns
        /\ ServiceColumns \subseteq CounterColumns
        /\ \A c \in CounterColumns : t.service[c] \in Nat
    BY <1>3 DEF Carries, CounterColumns
  <2> QED BY <2>1 DEF Over
<1>5. Carries(u, order, service, agent)
  BY <1>2, <1>3, <1>4 DEF Carries
<1> QED BY <1>2, <1>5, OwnCarries

LEMMA CountReviewCounts ==
    ASSUME ReputationAssumption, RatingInv, CountsInv, NEW p \in Requests, CountReview(p)
    PROVE  CountsInv'
<1>. DEFINE t == txn[p]
<1>1. p \in Open /\ t.step = "count" /\ FlushService(p, Counted(t), [step |-> "load"])
  BY DEF CountReview, Open
<1>2. Held(t) /\ Carries(t, order, service, agent)
  BY <1>1, OpenTransactions DEF CountsInv
<1>3. t.kind \in {"review", "withdraw"} /\ t.row \in Review
  BY <1>1, <1>2 DEF Held, RatingKinds, Upkeep, OnReview
<1>4. t.row.rating \in Nat /\ t.service["reviews"] \in Nat /\ t.service["ratings"] \in Nat
  <2>1. t.row.rating \in Ratings /\ Ratings \subseteq Nat
    BY <1>3 DEF ReputationAssumption, Review
  <2>2. t.service \in [CounterColumns -> Nat] /\ {"reviews", "ratings"} \subseteq CounterColumns
    BY <1>2 DEF Carries, CounterColumns, ServiceColumns
  <2> QED BY <2>1, <2>2
<1>5. Counted(t) \in [ServiceColumns -> Nat]
  <2>1. \A a, b \in Nat : a - AtMost(b, a) \in Nat
    BY DEF AtMost
  <2>2. \A x, y \in Nat : [reviews |-> x, ratings |-> y] \in [ServiceColumns -> Nat]
    BY DEF ServiceColumns
  <2>3. CASE t.kind = "review"
    BY <1>4, <2>2, <2>3 DEF Counted
  <2>4. CASE t.kind # "review"
    <3>1. /\ t.service.reviews - AtMost(1, t.service.reviews) \in Nat
          /\ t.service.ratings - AtMost(t.row.rating, t.service.ratings) \in Nat
      BY <1>4, <2>1
    <3> QED BY <2>2, <2>4, <3>1 DEF Counted
  <2> QED BY <2>3, <2>4
<1> QED BY <1>1, <1>5, FlushCounts

LEMMA PublishCounts ==
    ASSUME RatingInv, CountsInv, NEW p \in Requests, Publish(p) PROVE CountsInv'
<1>. DEFINE t == txn[p]
<1>1. CASE Refuse(p)
  BY <1>1, RefuseCounts
<1>2. CASE ~Refuse(p)
  <2>1. /\ p \in Open /\ t.step = "publish" /\ SnapshotChecks(t.f)
        /\ FlushService(p, t.totals, [step |-> "commit"])
    BY <1>2 DEF Publish, Open
  <2>2. Held(t) /\ Carries(t, order, service, agent)
    BY <2>1, OpenTransactions DEF CountsInv
  <2>3. t.totals \in [ServiceColumns -> Nat]
    BY <2>1, <2>2 DEF Held, Carries
  <2> QED BY <2>1, <2>3, FlushCounts
<1> QED BY <1>1, <1>2

LEMMA LoadAgentCounts ==
    ASSUME RatingInv, CountsInv, NEW p \in Requests, LoadAgent(p) PROVE CountsInv'
<1>. DEFINE t == txn[p]
            changes == [agent |-> agent, step |-> "completed"]
            u == Over(changes, t)
<1>1. p \in Open /\ t.step = "load" /\ Proceed(p, changes)
  BY DEF LoadAgent, Open
<1>2. DOMAIN changes = {"agent", "step"} /\ changes["agent"] = agent
      /\ changes["step"] = "completed"
  OBVIOUS
<1>. HIDE DEF changes
<1>3. /\ Held(t) /\ txn' = [txn EXCEPT ![p] = u] /\ UNCHANGED rows
      /\ u.kind = t.kind /\ u.order = t.order
      /\ \A c \in DOMAIN changes : u[c] = changes[c]
      /\ \A c \in DOMAIN t \ DOMAIN changes : u[c] = t[c]
  BY <1>1, <1>2, Proceeding
<1>4. TxnColumns \subseteq DOMAIN t
  BY <1>3 DEF Held
<1>. HIDE DEF u
<1>5. /\ u.row = t.row /\ u.written = t.written /\ u.service = t.service
      /\ u.step = "completed" /\ u.f = t.f /\ u.agent = agent
      /\ u.agentCols = t.agentCols /\ u.serviceCols = t.serviceCols
  BY <1>2, <1>3, <1>4 DEF TxnColumns
<1>6. /\ t.agentCols = {} /\ Carries(t, order, service, agent)
      /\ agent \in [AgentColumns -> Nat]
  BY <1>1, <1>3 DEF Held, CountsInv, TypeOK
<1>7. Carries(u, order, service, agent)
  BY <1>3, <1>5, <1>6 DEF Carries
<1> QED BY <1>1, <1>3, <1>7, OwnCarries

LEMMA SelectCounts ==
    ASSUME ReputationAssumption, RatingInv, CountsInv, NEW p \in Requests, NEW at,
           NEW columns \in SUBSET Figures, NEW next, next \notin {"publish", "commit"},
           Select(p, at, columns, next)
    PROVE  CountsInv'
<1>. DEFINE t == txn[p]
            figures == [c \in columns |-> Measured(p, c)]
            all == Over(figures, t.f)
            changes == [step |-> next, f |-> all]
            u == Over(changes, t)
<1>1. p \in Open /\ t.step = at /\ Proceed(p, changes)
  BY DEF Select, Open
<1>2. DOMAIN changes = {"step", "f"} /\ changes["f"] = all /\ changes["step"] = next
  OBVIOUS
<1>. HIDE DEF changes
<1>3. /\ Held(t) /\ txn' = [txn EXCEPT ![p] = u] /\ UNCHANGED rows
      /\ u.kind = t.kind /\ u.order = t.order
      /\ \A c \in DOMAIN changes : u[c] = changes[c]
      /\ \A c \in DOMAIN t \ DOMAIN changes : u[c] = t[c]
  BY <1>1, <1>2, Proceeding
<1>4. TxnColumns \subseteq DOMAIN t
  BY <1>3 DEF Held
<1>. HIDE DEF u
<1>5. /\ u.row = t.row /\ u.written = t.written /\ u.service = t.service
      /\ u.step = next /\ u.f = all /\ u.agent = t.agent
      /\ u.agentCols = t.agentCols /\ u.serviceCols = t.serviceCols
  BY <1>2, <1>3, <1>4 DEF TxnColumns
<1>6. Carries(t, order, service, agent)
  BY <1>1 DEF CountsInv
<1>7. \A c \in DOMAIN all : all[c] \in Nat
  <2>1. \A c \in columns : Measured(p, c) \in Nat
    BY <1>1, MeasuredNatural
  <2>2. \A c \in DOMAIN t.f : t.f[c] \in Nat
    BY <1>6 DEF Carries
  <2> QED BY <2>1, <2>2 DEF Over
<1>. HIDE DEF all
<1>8. Carries(u, order, service, agent)
  BY <1>3, <1>5, <1>6, <1>7 DEF Carries
<1> QED BY <1>1, <1>3, <1>8, OwnCarries

LEMMA GatherInputsCounts ==
    ASSUME ReputationAssumption, RatingInv, CountsInv, NEW p \in Requests, GatherInputs(p)
    PROVE  CountsInv'
<1>1. {"completed", "cancelled", "disputed", "lost", "reviews", "ratings"} \subseteq Figures
  BY DEF Figures
<1>2. CASE Select(p, "completed", {"completed"}, "cancelled")
  BY <1>1, <1>2, SelectCounts
<1>3. CASE Select(p, "cancelled", {"cancelled"}, "disputed")
  BY <1>1, <1>3, SelectCounts
<1>4. CASE Select(p, "disputed", {"disputed"}, "lost")
  BY <1>1, <1>4, SelectCounts
<1>5. CASE Select(p, "lost", {"lost"}, "reviews")
  BY <1>1, <1>5, SelectCounts
<1>6. CASE Select(p, "reviews", {"reviews", "ratings"}, "tell")
  BY <1>1, <1>6, SelectCounts
<1> QED BY <1>2, <1>3, <1>4, <1>5, <1>6 DEF GatherInputs

\* The checks on the agent's row look at what the UPDATE leaves.
LEMMA TellAgentCounts ==
    ASSUME RatingInv, CountsInv, NEW p \in Requests, TellAgent(p) PROVE CountsInv'
<1>. DEFINE t == txn[p]
            mine == Over(t.f, t.agent)
            told == [c \in AgentColumns |-> mine[c]]
            columns == Dirty([c \in AgentColumns |-> t.f[c]], t.agent)
            changes == [agent |-> told, agentCols |-> columns, step |-> "totals"]
            u == Over(changes, t)
<1>1. SUFFICES ASSUME ~Refuse(p) PROVE CountsInv'
  BY RefuseCounts
<1>2. /\ p \in Open /\ t.step = "tell" /\ Proceed(p, changes)
      /\ columns = {} \/ AgentChecks(Laid(columns, mine, agent))
  BY <1>1 DEF TellAgent, Open
<1>3. /\ DOMAIN changes = {"agent", "agentCols", "step"} /\ changes["agent"] = told
      /\ changes["agentCols"] = columns /\ changes["step"] = "totals"
  OBVIOUS
<1>. HIDE DEF changes
<1>4. /\ Held(t) /\ txn' = [txn EXCEPT ![p] = u] /\ UNCHANGED rows
      /\ u.kind = t.kind /\ u.order = t.order
      /\ \A c \in DOMAIN changes : u[c] = changes[c]
      /\ \A c \in DOMAIN t \ DOMAIN changes : u[c] = t[c]
  BY <1>2, <1>3, Proceeding
<1>5. TxnColumns \subseteq DOMAIN t
  BY <1>4 DEF Held
<1>. HIDE DEF u
<1>6. /\ u.row = t.row /\ u.written = t.written /\ u.service = t.service
      /\ u.step = "totals" /\ u.f = t.f /\ u.agent = told
      /\ u.agentCols = columns /\ u.serviceCols = t.serviceCols
  BY <1>3, <1>4, <1>5 DEF TxnColumns
<1>7. /\ t.kind # "respond" /\ DOMAIN t.f = Figures /\ Carries(t, order, service, agent)
  BY <1>2, <1>4 DEF Held, ReadBefore, CountsInv
<1>8. \A c \in AgentColumns : mine[c] = t.f[c]
  BY <1>7, OverValue, FigureColumns
<1>9. columns \subseteq AgentColumns /\ DOMAIN agent = AgentColumns
  BY DEF Dirty, CountsInv, TypeOK
<1>. HIDE DEF mine
<1>10. told \in [AgentColumns -> Nat]
  <2>1. \A c \in AgentColumns : t.f[c] \in Nat
    BY <1>7, FigureColumns DEF Carries
  <2> QED BY <1>8, <2>1
<1>11. Laid(columns, told, agent) = Laid(columns, mine, agent)
  BY <1>9 DEF Laid
<1>. HIDE DEF told, columns
<1>12. Carries(u, order, service, agent)
  BY <1>2, <1>4, <1>6, <1>7, <1>10, <1>11 DEF Carries
<1> QED BY <1>2, <1>4, <1>12, OwnCarries

LEMMA CountAllCounts ==
    ASSUME ReputationAssumption, RatingInv, CountsInv, NEW p \in Requests, CountAll(p)
    PROVE  CountsInv'
<1>. DEFINE t == txn[p]
            kept == IF t.kind \in {"review", "withdraw"} THEN t.service ELSE service
            totals == [c \in ServiceColumns |-> Measured(p, c)]
            changes == [step |-> "publish", service |-> kept, totals |-> totals]
            u == Over(changes, t)
<1>1. /\ p \in Open /\ t.step = "totals" /\ Proceed(p, changes)
  BY DEF CountAll, Open
<1>2. /\ DOMAIN changes = {"step", "service", "totals"} /\ changes["service"] = kept
      /\ changes["totals"] = totals /\ changes["step"] = "publish"
  OBVIOUS
<1>. HIDE DEF changes
<1>3. /\ Held(t) /\ txn' = [txn EXCEPT ![p] = u] /\ UNCHANGED rows
      /\ u.kind = t.kind /\ u.order = t.order
      /\ \A c \in DOMAIN changes : u[c] = changes[c]
      /\ \A c \in DOMAIN t \ DOMAIN changes : u[c] = t[c]
  BY <1>1, <1>2, Proceeding
<1>4. TxnColumns \subseteq DOMAIN t
  BY <1>3 DEF Held
<1>. HIDE DEF u
<1>5. /\ u.row = t.row /\ u.written = t.written /\ u.service = kept /\ u.totals = totals
      /\ u.step = "publish" /\ u.f = t.f /\ u.agent = t.agent
      /\ u.agentCols = t.agentCols /\ u.serviceCols = t.serviceCols
  BY <1>2, <1>3, <1>4 DEF TxnColumns
<1>6. /\ Carries(t, order, service, agent) /\ service \in [CounterColumns -> Nat]
      /\ t.kind \notin {"review", "withdraw"} => t.serviceCols = {}
  BY <1>1, <1>3 DEF Held, CountsInv, TypeOK, CounterColumns
<1>7. kept \in [CounterColumns -> Nat]
  BY <1>6 DEF Carries
<1>8. t.serviceCols # {} => kept = t.service
  BY <1>6
<1>9. totals \in [ServiceColumns -> Nat]
  BY <1>1, MeasuredNatural, FigureColumns
<1>. HIDE DEF totals, kept
<1>10. Carries(u, order, service, agent)
  BY <1>3, <1>5, <1>6, <1>7, <1>8, <1>9 DEF Carries
<1> QED BY <1>1, <1>3, <1>10, OwnCarries

-----------------------------------------------------------------------------
(* Commits and the environment.                                            *)

LEMMA MarkedCarries ==
    ASSUME NEW t, Held(t), NEW orders, NEW services, NEW agents,
           Carries(t, orders, services, agents)
    PROVE  LET u == [t EXCEPT !.disturbed = TRUE] IN
           u.kind = t.kind /\ Carries(u, orders, services, agents)
<1>. DEFINE u == [t EXCEPT !.disturbed = TRUE]
<1>1. TxnColumns \subseteq DOMAIN t /\ (t.step = "publish" => "totals" \in DOMAIN t)
  BY DEF Held
<1>2. DOMAIN u = DOMAIN t /\ \A c \in DOMAIN t : c # "disturbed" => u[c] = t[c]
  OBVIOUS
<1>. HIDE DEF u
<1>3. /\ u.kind = t.kind /\ u.order = t.order /\ u.row = t.row /\ u.written = t.written
      /\ u.step = t.step /\ u.agentCols = t.agentCols /\ u.serviceCols = t.serviceCols
      /\ u.f = t.f /\ u.agent = t.agent /\ u.service = t.service
      /\ t.step = "publish" => u.totals = t.totals
  BY <1>1, <1>2 DEF TxnColumns
<1>4. Carries(u, orders, services, agents)
  BY <1>3 DEF Carries
<1> QED BY <1>3, <1>4 DEF u

\* Rows change and transactions end or are marked: those still open must carry
\* what is sound over the new rows.
LEMMA OthersCarry ==
    ASSUME RatingInv, CountsInv, \A q \in Requests : txn'[q] \in {Idle, txn[q], Marked(q)},
           TypeOK', service'.completed <= Cardinality(CompletedOrders'),
           \A q \in Open : txn'[q] # Idle => Carries(txn[q], order', service', agent')
    PROVE  CountsInv'
<1>1. ASSUME NEW q \in Open'
      PROVE  /\ q \in Open /\ txn'[q].kind = txn[q].kind
             /\ Carries(txn'[q], order', service', agent')
  <2>1. q \in Requests /\ txn'[q] # Idle /\ txn'[q] \in {txn[q], Marked(q)}
    BY <1>1 DEF Open
  <2>2. txn[q] # Idle /\ q \in Open
    BY <2>1 DEF Marked, Open
  <2>3. Held(txn[q]) /\ Carries(txn[q], order', service', agent')
    BY <2>1, <2>2, OpenTransactions
  <2>4. CASE txn'[q] = txn[q]
    BY <2>2, <2>3, <2>4
  <2>5. CASE txn'[q] = Marked(q)
    <3>1. txn'[q] = [txn[q] EXCEPT !.disturbed = TRUE]
      BY <2>2, <2>5 DEF Marked
    <3> QED BY <2>2, <2>3, <3>1, MarkedCarries
  <2> QED BY <2>1, <2>4, <2>5
<1>2. OneSettlement'
  BY <1>1 DEF CountsInv, OneSettlement
<1> QED BY <1>1, <1>2 DEF CountsInv

\* Orders that have completed once stay so.
LEMMA CompletedGrows ==
    ASSUME ReputationAssumption, CountsInv,
           \A o \in Orders : order[o].outcome \in Completed => order'[o].outcome \in Completed
    PROVE  /\ Cardinality(CompletedOrders) \in Nat /\ Cardinality(CompletedOrders') \in Nat
           /\ Cardinality(CompletedOrders) <= Cardinality(CompletedOrders')
<1>1. /\ CompletedOrders \subseteq CompletedOrders' /\ CompletedOrders' \subseteq Orders
      /\ IsFiniteSet(Orders)
  BY DEF CompletedOrders, ReputationAssumption
<1>2. IsFiniteSet(CompletedOrders')
  BY <1>1, FS_Subset
<1> QED BY <1>1, <1>2, FS_Subset, FS_CardinalityType

\* A commit changes the outcome of an order in a settlement only, and completes
\* none twice.
LEMMA OutcomesCommitted ==
    ASSUME RatingInv, CountsInv, NEW p \in Open, order' = Seen(p, "order", order)
    PROVE  /\ \A o \in Orders :
                 order[o].outcome \in Completed => order'[o].outcome \in Completed
           /\ \A q \in Open \ {p} :
                 /\ txn[q].kind = "settle" =>
                       order'[txn[q].order].outcome \notin Completed
                 /\ txn[q].kind = "exclude" /\ txn[q].written =>
                       txn[q].row.outcome = order'[txn[q].order].outcome
<1>. DEFINE t == txn[p]
<1>1. /\ Held(t) /\ Carries(t, order, service, agent) /\ order \in [Orders -> Row]
  BY OpenTransactions DEF CountsInv, RatingInv, RatingRows
<1>2. /\ \A o \in Orders :
            \/ order'[o] = order[o]
            \/ /\ t.written /\ t.order = o /\ order'[o] = t.row
               /\ t.kind \in {"exclude", "settle"}
  BY <1>1 DEF Seen, Table, Held, RatingKinds
<1>3. /\ t.kind = "settle" => order[t.order].outcome \notin Completed
      /\ t.kind = "exclude" /\ t.written => t.row.outcome = order[t.order].outcome
  BY <1>1 DEF Carries
<1>4. ASSUME NEW q \in Open \ {p}
      PROVE  /\ txn[q].kind = "settle" => order'[txn[q].order].outcome \notin Completed
             /\ txn[q].kind = "exclude" /\ txn[q].written =>
                   txn[q].row.outcome = order'[txn[q].order].outcome
  <2>1. /\ Held(txn[q]) /\ Carries(txn[q], order, service, agent) /\ Apart(t, txn[q])
        /\ txn[q].kind = "settle" => t.kind # "settle"
    BY <1>4, OpenTransactions DEF CountsInv, OneSettlement, RatingInv, RowsApart
  <2>2. txn[q].kind \in {"settle", "exclude"} => txn[q].order \in Orders
    BY <2>1 DEF Held
  <2>3. txn[q].kind = "settle" => order'[txn[q].order].outcome \notin Completed
    BY <1>2, <1>3, <2>1, <2>2 DEF Carries
  <2>4. txn[q].kind = "exclude" /\ txn[q].written =>
           order'[txn[q].order] = order[txn[q].order]
    BY <1>2, <2>1, <2>2 DEF Apart, Table
  <2> QED BY <2>1, <2>3, <2>4 DEF Carries
<1> QED BY <1>2, <1>3, <1>4

LEMMA CommitCounts ==
    ASSUME ReputationAssumption, RatingInv, CountsInv, NEW p \in Requests, Commit(p)
    PROVE  CountsInv'
<1>. DEFINE t == txn[p]
<1>1. /\ p \in Open /\ t.step = "commit"
      /\ order' = Seen(p, "order", order) /\ review' = Seen(p, "review", review)
      /\ service' = Laid(t.serviceCols, t.service, service)
      /\ agent' = Laid(t.agentCols, t.agent, agent)
      /\ related' = related
  BY DEF Commit, Open
<1>2. /\ Held(t) /\ Carries(t, order, service, agent) /\ TypeOK
      /\ service.completed <= Cardinality(CompletedOrders)
  BY <1>1, OpenTransactions DEF CountsInv
<1>3. /\ service \in [CounterColumns -> Nat] /\ t.service \in [CounterColumns -> Nat]
      /\ agent \in [AgentColumns -> Nat] /\ t.agent \in [AgentColumns -> Nat]
      /\ t.serviceCols \subseteq ServiceColumns /\ t.agentCols \subseteq AgentColumns
  BY <1>2 DEF TypeOK, Carries, Held, CounterColumns
<1>4. /\ service' \in [CounterColumns -> Nat] /\ service'["completed"] = service["completed"]
      /\ t.serviceCols = {} => service' = service
  BY <1>1, <1>3 DEF Laid, CounterColumns, ServiceColumns
<1>5. /\ agent' \in [AgentColumns -> Nat] /\ (t.agentCols = {} => agent' = agent)
  BY <1>1, <1>3 DEF Laid
<1>6. ServiceChecks(service') /\ AgentChecks(agent')
  BY <1>1, <1>2, <1>4, <1>5 DEF Carries, TypeOK
<1>7. snapshot' # NoSnapshot => snapshot'.f \in [Figures -> Nat] /\ SnapshotChecks(snapshot'.f)
  <2>1. CASE ~IsLatest(p)
    <3>1. snapshot' = snapshot
      BY <2>1 DEF Commit
    <3> QED BY <1>2, <3>1 DEF TypeOK
  <2>2. CASE IsLatest(p)
    <3>1. t.kind # "respond"
      BY <2>2 DEF RatingInv, Computing, IsLatest
    <3>2. DOMAIN t.f = Figures /\ t.f = [c \in DOMAIN t.f |-> t.f[c]]
      BY <1>1, <1>2, <3>1 DEF Held, ReadBefore
    <3>3. t.f \in [Figures -> Nat] /\ SnapshotChecks(t.f)
      BY <1>1, <1>2, <3>1, <3>2 DEF Carries
    <3>4. snapshot'.f = t.f
      BY <2>2 DEF Commit
    <3> QED BY <3>3, <3>4
  <2> QED BY <2>1, <2>2
<1>8. TypeOK'
  <2>1. order' \in [Orders -> Row] /\ review' \in [Orders -> Review \cup {NoReview}]
    BY <1>1, Committing
  <2> QED BY <1>1, <1>2, <1>4, <1>5, <1>6, <1>7, <2>1 DEF TypeOK, CounterColumns
<1>9. /\ \A o \in Orders : order[o].outcome \in Completed => order'[o].outcome \in Completed
      /\ \A q \in Open \ {p} :
            /\ txn[q].kind = "settle" => order'[txn[q].order].outcome \notin Completed
            /\ txn[q].kind = "exclude" /\ txn[q].written =>
                  txn[q].row.outcome = order'[txn[q].order].outcome
  BY <1>1, OutcomesCommitted
<1>10. service'.completed <= Cardinality(CompletedOrders')
  <2>1. /\ Cardinality(CompletedOrders) \in Nat /\ Cardinality(CompletedOrders') \in Nat
        /\ Cardinality(CompletedOrders) <= Cardinality(CompletedOrders')
    BY <1>9, CompletedGrows
  <2>2. service["completed"] \in Nat
    BY <1>3 DEF CounterColumns
  <2> QED BY <1>2, <1>4, <2>1, <2>2
<1>11. \A q \in Requests : txn'[q] \in {Idle, txn[q], Marked(q)}
  BY DEF Commit, Marked
<1>12. ASSUME NEW q \in Open, txn'[q] # Idle
       PROVE  Carries(txn[q], order', service', agent')
  <2>1. q # p
    BY <1>1, <1>12 DEF Commit
  <2>2. Carries(txn[q], order, service, agent) /\ Apart(t, txn[q])
    BY <1>1, <2>1 DEF CountsInv, RatingInv, RowsApart
  <2>3. /\ txn[q].serviceCols # {} => service' = service
        /\ txn[q].agentCols # {} => agent' = agent
    BY <1>4, <1>5, <2>2 DEF Apart
  <2> QED BY <1>9, <2>1, <2>2, <2>3 DEF Carries
<1> QED BY <1>8, <1>10, <1>11, <1>12, OthersCarry

LEMMA OutcomeMoves ==
    ASSUME ReputationAssumption, RatingInv, CountsInv, NEW o \in Orders, NEW outcome,
           outcome \in Outcomes \ Completed,
           order[o].outcome = "open", OrderFree(o),
           order' = [order EXCEPT ![o].outcome = outcome],
           Changed, UNCHANGED <<related, review>>
    PROVE  CountsInv'
<1>1. /\ order \in [Orders -> Row] /\ TypeOK
      /\ service' = service /\ agent' = agent /\ snapshot' = snapshot
      /\ related' = related /\ review' = review
  BY DEF RatingInv, RatingRows, CountsInv, Changed
<1>2. /\ order' \in [Orders -> Row]
      /\ \A x \in Orders : order'[x].outcome = IF x = o THEN outcome ELSE order[x].outcome
  BY <1>1 DEF Row
<1>3. order[o].outcome \notin Completed
  BY DEF Completed, Paid
<1>4. TypeOK'
  BY <1>1, <1>2 DEF TypeOK
<1>5. CompletedOrders' = CompletedOrders
  BY <1>2, <1>3 DEF CompletedOrders
<1>6. service'.completed <= Cardinality(CompletedOrders')
  BY <1>1, <1>5 DEF CountsInv
<1>7. \A q \in Requests : txn'[q] \in {Idle, txn[q], Marked(q)}
  BY DEF Changed, Marked
<1>8. ASSUME NEW q \in Open PROVE Carries(txn[q], order', service', agent')
  <2>1. Carries(txn[q], order, service, agent) /\ Held(txn[q])
    BY OpenTransactions DEF CountsInv
  <2>2. txn[q].kind \in {"exclude", "settle"} => txn[q].order \in Orders
    BY <2>1 DEF Held
  <2>3. txn[q].kind = "exclude" /\ txn[q].written => txn[q].order # o
    BY DEF OrderFree, Table
  <2> QED BY <1>1, <1>2, <2>1, <2>2, <2>3 DEF Carries
<1> QED BY <1>4, <1>6, <1>7, <1>8, OthersCarry

LEMMA JoinOrLeaveCounts ==
    ASSUME RatingInv, CountsInv, NEW o \in Orders, JoinOrLeave(o) PROVE CountsInv'
<1>1. /\ order' = order /\ review' = review /\ service' = service /\ agent' = agent
      /\ snapshot' = snapshot /\ related' \in {related \ {o}, related \cup {o}}
      /\ \A q \in Requests : txn'[q] \in {Idle, txn[q], Marked(q)}
  BY DEF JoinOrLeave, Changed, Marked
<1>2. TypeOK'
  BY <1>1 DEF CountsInv, TypeOK
<1>3. service'.completed <= Cardinality(CompletedOrders')
  BY <1>1 DEF CountsInv, CompletedOrders
<1>4. \A q \in Open : Carries(txn[q], order', service', agent')
  BY <1>1 DEF CountsInv
<1> QED BY <1>1, <1>2, <1>3, <1>4, OthersCarry

LEMMA CountByHandCounts ==
    ASSUME ReputationAssumption, RatingInv, CountsInv, CountByHand PROVE CountsInv'
<1>. DEFINE n == Cardinality(CompletedOrders)
<1>1. /\ order' = order /\ related' = related /\ review' = review /\ agent' = agent
      /\ snapshot' = snapshot /\ txn' = txn /\ service' = [service EXCEPT !.completed = n]
      /\ \A q \in Open : txn[q].serviceCols = {}
  BY DEF CountByHand, CompletedOrders
<1>2. n \in Nat
  BY <1>1, CompletedGrows
<1>3. /\ service \in [CounterColumns -> Nat] /\ ServiceChecks(service) /\ TypeOK
      /\ service.completed <= n
  BY DEF CountsInv, TypeOK, CounterColumns
<1>. HIDE DEF n
<1>4. /\ service' \in [CounterColumns -> Nat] /\ service'["completed"] = n
      /\ service'["reviews"] = service["reviews"] /\ service'["ratings"] = service["ratings"]
      /\ service["reviews"] \in Nat /\ service["completed"] \in Nat
  BY <1>1, <1>2, <1>3 DEF CounterColumns, ServiceColumns
<1>5. ServiceChecks(service')
  BY <1>2, <1>3, <1>4 DEF ServiceChecks
<1>6. TypeOK'
  BY <1>1, <1>3, <1>4, <1>5 DEF TypeOK, CounterColumns
<1>7. service'.completed <= Cardinality(CompletedOrders')
  BY <1>1, <1>2, <1>4 DEF CompletedOrders, n
<1>8. \A q \in Requests : txn'[q] \in {Idle, txn[q], Marked(q)}
  BY <1>1
<1>9. \A q \in Open : Carries(txn[q], order', service', agent')
  BY <1>1 DEF CountsInv, Carries
<1> QED BY <1>6, <1>7, <1>8, <1>9, OthersCarry

-----------------------------------------------------------------------------
(* The induction.                                                          *)

LEMMA CountsStart == ASSUME ReputationAssumption, Init PROVE CountsInv
<1>1. Open = {}
  BY DEF Init, Open
<1>2. RatingInv
  BY RatingStart
<1>3. /\ service \in [CounterColumns -> Nat] /\ agent \in [AgentColumns -> Nat]
      /\ service["completed"] = 0 /\ service["reviews"] = 0 /\ service["ratings"] = 0
      /\ agent["reviews"] = 0 /\ agent["ratings"] = 0
  BY DEF Init, CounterColumns, ServiceColumns, AgentColumns, Figures
<1>4. TypeOK
  BY <1>2, <1>3
     DEF TypeOK, Init, RatingInv, RatingRows, CounterColumns, ServiceChecks, AgentChecks
<1>5. CompletedOrders \subseteq Orders /\ IsFiniteSet(Orders)
  BY DEF CompletedOrders, ReputationAssumption
<1>6. Cardinality(CompletedOrders) \in Nat
  BY <1>5, FS_Subset, FS_CardinalityType
<1> QED BY <1>1, <1>3, <1>4, <1>6 DEF CountsInv, OneSettlement

LEMMA RequestBeginsCounts ==
    ASSUME RatingInv, CountsInv, NEW p \in Requests, NEW o \in Orders,
           \/ \E r \in Ratings : CreateReview(p, o, r)
           \/ WithdrawReview(p, o) \/ RespondToReview(p, o) \/ ExcludeOrder(p, o)
           \/ \E outcome \in Outcomes : ApplySettlement(p, o, outcome)
    PROVE  CountsInv'
<1>1. CASE \E r \in Ratings : CreateReview(p, o, r)
  BY <1>1, BeginCounts DEF CreateReview, RatingKinds
<1>2. CASE WithdrawReview(p, o)
  BY <1>2, BeginCounts DEF WithdrawReview, RatingKinds
<1>3. CASE RespondToReview(p, o)
  BY <1>3, BeginCounts DEF RespondToReview, RatingKinds
<1>4. CASE ExcludeOrder(p, o)
  BY <1>4, BeginCounts DEF ExcludeOrder, RatingKinds
<1>5. CASE \E outcome \in Outcomes : ApplySettlement(p, o, outcome)
  <2>1. PICK outcome \in Outcomes : ApplySettlement(p, o, outcome)
    BY <1>5
  <2>2. order[o].outcome \in {"open", "disputed"}
    BY <2>1 DEF ApplySettlement, Settlements
  <2>3. order[o].outcome \notin Completed
    BY <2>2 DEF Completed, Paid
  <2>4. \A q \in Open : txn[q].kind # "settle"
    BY <2>1 DEF ApplySettlement
  <2>5. Begin(p, "settle", o, [order[o] EXCEPT !.outcome = outcome], "write")
    BY <2>1 DEF ApplySettlement
  <2> QED BY <2>3, <2>4, <2>5, BeginCounts DEF RatingKinds
<1> QED BY <1>1, <1>2, <1>3, <1>4, <1>5

LEMMA CountsStep ==
    ASSUME ReputationAssumption, RatingInv, CountsInv, [Next]_vars PROVE CountsInv'
<1>1. ASSUME NEW p \in Requests, Request(p) PROVE CountsInv'
  <2>1. CASE \E o \in Orders :
                \/ \E r \in Ratings : CreateReview(p, o, r)
                \/ WithdrawReview(p, o) \/ RespondToReview(p, o) \/ ExcludeOrder(p, o)
                \/ \E outcome \in Outcomes : ApplySettlement(p, o, outcome)
    BY <2>1, RequestBeginsCounts
  <2>2. CASE RecomputeAgent(p) \/ ReadReputation(p)
    BY <2>2, BeginCounts DEF RecomputeAgent, ReadReputation, RatingKinds
  <2>3. CASE WriteRow(p) \/ CountReview(p) \/ LoadAgent(p) \/ GatherInputs(p)
    BY <2>3, WriteRowCounts, CountReviewCounts, LoadAgentCounts, GatherInputsCounts
  <2>4. CASE TellAgent(p) \/ CountAll(p) \/ Publish(p) \/ Fail(p)
    BY <2>4, TellAgentCounts, CountAllCounts, PublishCounts, RefuseCounts DEF Fail
  <2>5. CASE Commit(p)
    BY <2>5, CommitCounts
  <2> QED BY <1>1, <2>1, <2>2, <2>3, <2>4, <2>5 DEF Request
<1>2. ASSUME NEW o \in Orders, ApplyDispute(o) \/ ExpireUnfunded(o) PROVE CountsInv'
  <2>1. {"disputed", "cancelled"} \subseteq Outcomes \ Completed
    BY DEF Outcomes, Completed, Paid, Cancelled, Disputed
  <2> QED BY <1>2, <2>1, OutcomeMoves DEF ApplyDispute, ExpireUnfunded
<1>3. ASSUME NEW o \in Orders, JoinOrLeave(o) PROVE CountsInv'
  BY <1>3, JoinOrLeaveCounts
<1>4. CASE CountByHand
  BY <1>4, CountByHandCounts
<1>5. CASE UNCHANGED vars
  <2>1. /\ UNCHANGED <<order, related, review, service, agent, snapshot, txn>>
    BY <1>5 DEF vars
  <2> QED BY <2>1 DEF CountsInv, TypeOK, CompletedOrders, OneSettlement, Open
<1> QED BY <1>1, <1>2, <1>3, <1>4, <1>5 DEF Next
=============================================================================
