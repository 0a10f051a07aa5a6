----------------------------- MODULE WorkersProofs -----------------------------
(***************************************************************************)
(* What is proved of the two outboxes and their workers, for every number  *)
(* of endpoints, rows, attempts, batch sizes and interruptions: that their *)
(* rows are well formed, that an endpoint or an address that was withdrawn *)
(* gets the request under way at most, and that each outbox implements     *)
(* the abstract one.                                                       *)
(***************************************************************************)
EXTENDS MCWorkers, SequenceTheorems, FiniteSetTheorems, TLAPS

-----------------------------------------------------------------------------
(* Queues: sequences in which no element occurs twice.                     *)

Queues(S) == {s \in Seq(S) : IsInjective(s)}

LEMMA EmptyQueue ==
    ASSUME NEW S
    PROVE  <<>> \in Queues(S) /\ Range(<<>>) = {}
BY EmptySeq DEF Queues, IsInjective, Range

\* Taking one element out of a queue takes out nothing else (NotDue).
LEMMA OneTakenOut ==
    ASSUME NEW S, NEW s \in Queues(S), NEW i \in DOMAIN s
    PROVE  LET t == SubSeq(s, 1, i - 1) \o SubSeq(s, i + 1, Len(s)) IN
           t \in Queues(S) /\ Range(t) = Range(s) \ {s[i]}
<1> DEFINE f == SubSeq(s, 1, i - 1)
           g == SubSeq(s, i + 1, Len(s))
           t == f \o g
<1>1. s \in Seq(S) /\ IsInjective(s) BY DEF Queues
<1>2. Len(s) \in Nat /\ DOMAIN s = 1 .. Len(s) /\ i \in 1 .. Len(s) BY <1>1, LenProperties
<1>3. \A j \in 1 .. Len(s) : s[j] \in S BY <1>1, ElementOfSeq
<1>4. f \in Seq(S) /\ Len(f) = i - 1 /\ \A j \in 1 .. i - 1 : f[j] = s[j]
  <2>1. \A j \in 1 .. i - 1 : s[j] \in S BY <1>2, <1>3
  <2>2. /\ SubSeq(s, 1, i - 1) \in Seq(S)
        /\ Len(SubSeq(s, 1, i - 1)) = IF 1 <= i - 1 THEN i - 1 - 1 + 1 ELSE 0
        /\ \A j \in 1 .. i - 1 - 1 + 1 : SubSeq(s, 1, i - 1)[j] = s[1 + j - 1]
    BY <1>2, <2>1, SubSeqProperties
  <2> QED BY <1>2, <2>2
<1>5. g \in Seq(S) /\ Len(g) = Len(s) - i /\ \A j \in 1 .. Len(s) - i : g[j] = s[i + j]
  <2>1. \A j \in i + 1 .. Len(s) : s[j] \in S BY <1>2, <1>3
  <2>2. /\ SubSeq(s, i + 1, Len(s)) \in Seq(S)
        /\ Len(SubSeq(s, i + 1, Len(s))) = IF i + 1 <= Len(s) THEN Len(s) - (i + 1) + 1 ELSE 0
        /\ \A j \in 1 .. Len(s) - (i + 1) + 1 : SubSeq(s, i + 1, Len(s))[j] = s[i + 1 + j - 1]
    BY <1>2, <2>1, SubSeqProperties
  <2> QED BY <1>2, <2>2
<1> HIDE DEF f, g
<1>6. /\ t \in Seq(S)
      /\ Len(t) = Len(s) - 1
      /\ \A j \in 1 .. Len(s) - 1 : t[j] = IF j <= i - 1 THEN s[j] ELSE s[j + 1]
  <2>1. /\ t \in Seq(S)
        /\ Len(t) = Len(f) + Len(g)
        /\ \A j \in 1 .. Len(f) + Len(g) : t[j] = IF j <= Len(f) THEN f[j] ELSE g[j - Len(f)]
    BY <1>4, <1>5, ConcatProperties
  <2>2. \A j \in 1 .. Len(s) - 1 : ~(j <= i - 1) => j - Len(f) \in 1 .. Len(s) - i /\ i + (j - Len(f)) = j + 1
    BY <1>2, <1>4
  <2>3. ASSUME NEW j \in 1 .. Len(s) - 1
        PROVE  t[j] = IF j <= i - 1 THEN s[j] ELSE s[j + 1]
    <3>1. CASE j <= i - 1 BY <3>1, <1>2, <1>4, <1>5, <2>1
    <3>2. CASE ~(j <= i - 1)
      <4>1. t[j] = g[j - Len(f)] BY <3>2, <1>2, <1>4, <1>5, <2>1
      <4> QED BY <3>2, <4>1, <2>2, <1>5
    <3> QED BY <3>1, <3>2
  <2> QED BY <2>1, <2>3, <1>2, <1>4, <1>5
<1> HIDE DEF t
<1>7. DOMAIN t = 1 .. Len(s) - 1 BY <1>6, LenProperties
<1>8. IsInjective(t)
  <2> SUFFICES ASSUME NEW j \in 1 .. Len(s) - 1, NEW k \in 1 .. Len(s) - 1, t[j] = t[k]
               PROVE  j = k
    BY <1>7 DEF IsInjective
  <2>1. \A x, y \in 1 .. Len(s) : s[x] = s[y] => x = y BY <1>1, <1>2 DEF IsInjective
  <2> QED BY <2>1, <1>2, <1>6
<1>9. Range(t) = Range(s) \ {s[i]}
  <2>1. \A x, y \in 1 .. Len(s) : s[x] = s[y] => x = y BY <1>1, <1>2 DEF IsInjective
  <2>2. ASSUME NEW j \in 1 .. Len(s) - 1 PROVE t[j] \in Range(s) \ {s[i]}
    <3>1. CASE j <= i - 1 BY <3>1, <1>2, <1>6, <2>1 DEF Range
    <3>2. CASE ~(j <= i - 1) BY <3>2, <1>2, <1>6, <2>1 DEF Range
    <3> QED BY <3>1, <3>2
  <2>3. ASSUME NEW j \in 1 .. Len(s), j # i PROVE s[j] \in Range(t)
    <3>1. CASE j < i
      <4>1. j \in 1 .. Len(s) - 1 /\ j <= i - 1 BY <3>1, <1>2
      <4> QED BY <4>1, <1>6, <1>7 DEF Range
    <3>2. CASE j > i
      <4>1. j - 1 \in 1 .. Len(s) - 1 /\ ~(j - 1 <= i - 1) /\ j - 1 + 1 = j BY <3>2, <1>2
      <4>2. t[j - 1] = s[j] BY <4>1, <1>6
      <4> QED BY <4>1, <4>2, <1>7 DEF Range
    <3> QED BY <2>3, <3>1, <3>2, <1>2
  <2>4. Range(t) \subseteq Range(s) \ {s[i]} BY <2>2, <1>7 DEF Range
  <2>5. Range(s) \ {s[i]} \subseteq Range(t)
    <3> SUFFICES ASSUME NEW j \in 1 .. Len(s), s[j] # s[i] PROVE s[j] \in Range(t)
      BY <1>2 DEF Range
    <3> QED BY <2>3
  <2> QED BY <2>4, <2>5
<1> QED BY <1>6, <1>8, <1>9 DEF Queues, t, f, g

\* What is behind the head of a queue.
LEMMA HeadTakenOff ==
    ASSUME NEW S, NEW s \in Queues(S), s # <<>>
    PROVE  /\ Head(s) \in Range(s)
           /\ Head(s) \in S
           /\ Tail(s) \in Queues(S)
           /\ Range(Tail(s)) = Range(s) \ {Head(s)}
<1>1. s \in Seq(S) /\ IsInjective(s) BY DEF Queues
<1>2. Len(s) \in Nat \ {0} /\ DOMAIN s = 1 .. Len(s) BY <1>1, LenProperties, EmptySeq
<1>3. /\ Head(s) \in S /\ Tail(s) \in Seq(S) /\ Len(Tail(s)) = Len(s) - 1
      /\ \A i \in 1 .. Len(Tail(s)) : Tail(s)[i] = s[i + 1]
  BY <1>1, HeadTailProperties
<1>4. DOMAIN Tail(s) = 1 .. Len(s) - 1 BY <1>3, LenProperties
<1>5. Head(s) = s[1] /\ 1 \in 1 .. Len(s) BY <1>2
<1>6. \A x, y \in 1 .. Len(s) : s[x] = s[y] => x = y BY <1>1, <1>2 DEF IsInjective
<1>7. IsInjective(Tail(s))
  <2> SUFFICES ASSUME NEW j \in 1 .. Len(s) - 1, NEW k \in 1 .. Len(s) - 1, Tail(s)[j] = Tail(s)[k]
               PROVE  j = k
    BY <1>4 DEF IsInjective
  <2> QED BY <1>2, <1>3, <1>6
<1>8. Range(Tail(s)) \subseteq Range(s) \ {Head(s)}
  <2> SUFFICES ASSUME NEW j \in 1 .. Len(s) - 1 PROVE Tail(s)[j] \in Range(s) \ {Head(s)}
    BY <1>4 DEF Range
  <2> QED BY <1>2, <1>3, <1>5, <1>6 DEF Range
<1>9. Range(s) \ {Head(s)} \subseteq Range(Tail(s))
  <2> SUFFICES ASSUME NEW j \in 1 .. Len(s), s[j] # s[1] PROVE s[j] \in Range(Tail(s))
    BY <1>2, <1>5 DEF Range
  <2>1. j - 1 \in 1 .. Len(s) - 1 /\ j - 1 + 1 = j BY <1>2
  <2> QED BY <2>1, <1>3, <1>4 DEF Range
<1> QED BY <1>2, <1>3, <1>5, <1>7, <1>8, <1>9 DEF Queues, Range

\* The front of a queue, as a claim takes it.
LEMMA FrontOfQueue ==
    ASSUME NEW S, NEW s \in Queues(S), NEW n \in 0 .. Len(s)
    PROVE  SubSeq(s, 1, n) \in Queues(S) /\ Range(SubSeq(s, 1, n)) \subseteq Range(s)
<1>1. s \in Seq(S) /\ IsInjective(s) BY DEF Queues
<1>2. Len(s) \in Nat /\ DOMAIN s = 1 .. Len(s) BY <1>1, LenProperties
<1>3. \A j \in 1 .. n : s[j] \in S BY <1>1, <1>2, ElementOfSeq
<1>4. /\ SubSeq(s, 1, n) \in Seq(S)
      /\ Len(SubSeq(s, 1, n)) = IF 1 <= n THEN n - 1 + 1 ELSE 0
      /\ \A i \in 1 .. n - 1 + 1 : SubSeq(s, 1, n)[i] = s[1 + i - 1]
  BY <1>2, <1>3, SubSeqProperties
<1>5. Len(SubSeq(s, 1, n)) = n /\ \A i \in 1 .. n : SubSeq(s, 1, n)[i] = s[i] BY <1>2, <1>4
<1>6. DOMAIN SubSeq(s, 1, n) = 1 .. n BY <1>4, <1>5, LenProperties
<1>7. \A x, y \in 1 .. Len(s) : s[x] = s[y] => x = y BY <1>1, <1>2 DEF IsInjective
<1>8. IsInjective(SubSeq(s, 1, n)) BY <1>2, <1>5, <1>6, <1>7 DEF IsInjective
<1>9. Range(SubSeq(s, 1, n)) \subseteq Range(s) BY <1>2, <1>5, <1>6 DEF Range
<1> QED BY <1>4, <1>8, <1>9 DEF Queues

\* What is queued is not queued already.
LEMMA PutBehind ==
    ASSUME NEW S, NEW s \in Queues(S), NEW t \in Queues(S), Range(s) \cap Range(t) = {}
    PROVE  s \o t \in Queues(S) /\ Range(s \o t) = Range(s) \cup Range(t)
<1>1. s \in Seq(S) /\ IsInjective(s) /\ t \in Seq(S) /\ IsInjective(t) BY DEF Queues
<1>2. Len(s) \in Nat /\ DOMAIN s = 1 .. Len(s) BY <1>1, LenProperties
<1>3. Len(t) \in Nat /\ DOMAIN t = 1 .. Len(t) BY <1>1, LenProperties
<1>4. /\ s \o t \in Seq(S)
      /\ Len(s \o t) = Len(s) + Len(t)
      /\ \A i \in 1 .. Len(s) + Len(t) : (s \o t)[i] =
             IF i <= Len(s) THEN s[i] ELSE t[i - Len(s)]
  BY <1>1, ConcatProperties
<1>5. DOMAIN (s \o t) = 1 .. Len(s) + Len(t) BY <1>4, LenProperties
<1>6. ASSUME NEW j \in 1 .. Len(s) + Len(t), NEW k \in 1 .. Len(s) + Len(t), (s \o t)[j] = (s \o t)[k]
      PROVE  j = k
  <2>1. \A x, y \in 1 .. Len(s) : s[x] = s[y] => x = y BY <1>1, <1>2 DEF IsInjective
  <2>2. \A x, y \in 1 .. Len(t) : t[x] = t[y] => x = y BY <1>1, <1>3 DEF IsInjective
  <2>3. \A x \in 1 .. Len(s), y \in 1 .. Len(t) : s[x] # t[y] BY <1>2, <1>3 DEF Range
  <2>4. \A x \in 1 .. Len(s) + Len(t) : IF x <= Len(s) THEN x \in 1 .. Len(s) ELSE x - Len(s) \in 1 .. Len(t)
    BY <1>2, <1>3
  <2>5. CASE j <= Len(s) /\ k <= Len(s) BY <2>5, <1>6, <1>4, <2>1, <2>4
  <2>6. CASE ~(j <= Len(s)) /\ ~(k <= Len(s))
    <3>1. j - Len(s) = k - Len(s) BY <2>6, <1>6, <1>4, <2>2, <2>4
    <3> QED BY <3>1, <1>2, <1>3
  <2>7. CASE j <= Len(s) /\ ~(k <= Len(s)) BY <2>7, <1>6, <1>4, <2>3, <2>4
  <2>8. CASE ~(j <= Len(s)) /\ k <= Len(s) BY <2>8, <1>6, <1>4, <2>3, <2>4
  <2> QED BY <2>5, <2>6, <2>7, <2>8
<1>7. IsInjective(s \o t) BY <1>5, <1>6 DEF IsInjective
<1>8. Range(s \o t) = Range(s) \cup Range(t) BY <1>1, RangeConcatenation
<1> QED BY <1>4, <1>7, <1>8 DEF Queues

LEMMA PutLast ==
    ASSUME NEW S, NEW s \in Queues(S), NEW x \in S, x \notin Range(s)
    PROVE  Append(s, x) \in Queues(S) /\ Range(Append(s, x)) = Range(s) \cup {x}
<1>1. Append(s, x) = s \o <<x>> BY AppendIsConcat DEF Queues
<1>2. <<x>> \in Queues(S) /\ Range(<<x>>) = {x} BY DEF Queues, IsInjective, Range
<1> QED BY <1>1, <1>2, PutBehind
\* Numbering rows in the order in which they are written leaves no gap.
LEMMA FirstOnes ==
    ASSUME NEW n \in Nat
    PROVE  IsFiniteSet(1 .. n) /\ Cardinality(1 .. n) = n
BY FS_Interval

-----------------------------------------------------------------------------
(* The webhooks.  The invariant that its steps keep:                       *)

HookWriting ==
    {Hook!Idle} \cup {[op |-> "create"]}
        \cup [op : {"dispatch"}, targets : SUBSET Hook!Endpoints]

HookDoing ==
    {Hook!Down} \cup [at : {"ready", "posting"}, enabled : BOOLEAN]
        \cup [at : {"answered"}, enabled : BOOLEAN, ok : BOOLEAN]

\* The values are of their kinds.
HookTypes ==
    /\ endpoint \in [Hook!Endpoints -> {"absent", "active", "revoked"}]
    /\ hook \in [Deliveries -> Hook!Delivery \cup {Hook!NoRow}]
    /\ hookTxn \in [Requests -> HookWriting]
    /\ hookWorker \in HookDoing
    /\ hookReceived \in [Deliveries -> Nat]
    /\ hookAcked \in [Deliveries -> Nat]
    /\ hookLate \in [Hook!Endpoints -> Nat]
    /\ hookCrashes \in Nat

\* Rows are numbered from 1 on, without a gap.
HookNumbered ==
    /\ \E n \in 0 .. MaxCreated : \A e \in Hook!Endpoints : endpoint[e] # "absent" <=> e <= n
    /\ \E n \in 0 .. MaxDeliveries : \A d \in Deliveries : hook[d] # Hook!NoRow <=> d <= n

\* What is due is open, and what was claimed is still due: no other worker and
\* no request takes it away.
HookQueued ==
    /\ hookDue \in Queues(Deliveries)
    /\ \A d \in Range(hookDue) : hook[d].status \in Hook!Open
    /\ hookBatch \in Queues(Deliveries)
    /\ Range(hookBatch) \subseteq Range(hookDue)
    /\ hookWorker.at \in {"posting", "answered"} => hookBatch # <<>>

\* The row whose request was answered and whose outcome is not committed.
HookAnswered(d) == hookWorker.at = "answered" /\ d = Head(hookBatch)

\* Every copy was an attempt that is counted in its row, but for the one not
\* yet committed and those a crash kept from being committed.
HookCounted ==
    /\ \A d \in Deliveries : hook[d] = Hook!NoRow => hookReceived[d] = 0 /\ hookAcked[d] = 0
    /\ \A d \in Deliveries : hook[d].status \in Hook!Open =>
           /\ hook[d].attempts < MaxAttempts
           /\ hookReceived[d] <= hook[d].attempts + hookCrashes + (IF HookAnswered(d) THEN 1 ELSE 0)
           /\ hookAcked[d] <= hookCrashes + (IF HookAnswered(d) /\ hookWorker.ok THEN 1 ELSE 0)
    /\ hookWorker.at = "answered" /\ hookWorker.ok => hookAcked[Head(hookBatch)] > 0

\* The request under way goes to an endpoint that got nothing since it was
\* revoked.
HookWithdrawn ==
    /\ \A e \in Hook!Endpoints : hookLate[e] <= 1 /\ (endpoint[e] # "revoked" => hookLate[e] = 0)
    /\ hookWorker.at = "posting" => hookLate[hook[Head(hookBatch)].endpoint] = 0

HookInv == HookTypes /\ HookNumbered /\ HookQueued /\ HookCounted /\ HookWithdrawn

-----------------------------------------------------------------------------
(* The e-mails.                                                            *)

MailWriting == {Mail!Idle} \cup [op : {"notify"}, to : Addresses, passes : BOOLEAN]

MailDoing ==
    {Mail!Down} \cup [at : {"ready", "posting"}, available : BOOLEAN]
        \cup [at : {"answered"}, available : BOOLEAN, answer : {"accepted", "rejected", "later"}]

MailTypes ==
    /\ mail \in [Deliveries -> Mail!Delivery \cup {Mail!NoRow}]
    /\ suppressed \subseteq Addresses
    /\ mailTxn \in [Requests -> MailWriting]
    /\ mailWorker \in MailDoing
    /\ mailReceived \in [Deliveries -> Nat]
    /\ mailAcked \in [Deliveries -> Nat]
    /\ mailLate \in [Addresses -> Nat]
    /\ mailCrashes \in Nat
    /\ refusals \in Nat

\* No row breaks the CHECK of its table.
MailNumbered ==
    /\ \E n \in 0 .. MaxDeliveries : \A d \in Deliveries : mail[d] # Mail!NoRow <=> d <= n
    /\ \A d \in Deliveries : mail[d] # Mail!NoRow => Mail!Checks(mail[d])

MailQueued ==
    /\ mailDue \in Queues(Deliveries)
    /\ \A d \in Range(mailDue) : Mail!Queued(d)
    /\ mailBatch \in Queues(Deliveries)
    /\ Range(mailBatch) \subseteq Range(mailDue)
    /\ mailWorker.at \in {"posting", "answered"} => mailBatch # <<>>

MailAnswered(d) == mailWorker.at = "answered" /\ d = Head(mailBatch)

\* As for the webhooks; a row the table refuses interrupts the worker too.
MailCounted ==
    /\ \A d \in Deliveries : mail[d] = Mail!NoRow => mailReceived[d] = 0 /\ mailAcked[d] = 0
    /\ \A d \in Deliveries : Mail!Queued(d) =>
           /\ mail[d].attempts < MaxAttempts
           /\ mailReceived[d] <= mail[d].attempts + mailCrashes + refusals
                                     + (IF MailAnswered(d) THEN 1 ELSE 0)
           /\ mailAcked[d] <= mailCrashes + refusals
                                  + (IF MailAnswered(d) /\ mailWorker.answer = "accepted" THEN 1 ELSE 0)
    /\ mailWorker.at = "answered" /\ mailWorker.answer = "accepted" =>
           mailAcked[Head(mailBatch)] > 0

MailWithdrawn ==
    /\ \A a \in Addresses : mailLate[a] <= 1 /\ (a \notin suppressed => mailLate[a] = 0)
    /\ mailWorker.at = "posting" => mailLate[mail[Head(mailBatch)].to] = 0

MailInv == MailTypes /\ MailNumbered /\ MailQueued /\ MailCounted /\ MailWithdrawn

-----------------------------------------------------------------------------
(* Of both, with the one that does not run left alone.                     *)

WorkersInv ==
    /\ part \in {"webhooks", "e-mails"}
    /\ part = "webhooks" => HookInv
    /\ part = "e-mails" => MailInv

-----------------------------------------------------------------------------
(* Webhooks: every step keeps the invariant.                               *)

LEMMA HookConstants ==
    /\ MaxCreated \in Nat /\ MaxDeliveries \in Nat /\ MaxAttempts \in Nat \ {0}
    /\ BatchSize \in Nat \ {0}
    /\ Hook!Deliveries = Deliveries /\ Mail!Deliveries = Deliveries
    /\ Deliveries = 1 .. MaxDeliveries /\ Hook!Endpoints = 1 .. MaxCreated
BY WorkersAssumption
   DEF Hook!WebhooksAssumption, Mail!EmailsAssumption, Deliveries, Hook!Deliveries,
       Mail!Deliveries, Hook!Endpoints

LEMMA SameCounts ==
    ASSUME NEW S
    PROVE  Hook!Cardinality(S) = Cardinality(S) /\ Mail!Cardinality(S) = Cardinality(S)
BY DEF Hook!Cardinality, Mail!Cardinality, Cardinality

LEMMA HookInitial ==
    ASSUME Hook!Init
    PROVE  HookInv
<1> USE HookConstants
<1>1. HookTypes
  BY DEF Hook!Init, HookTypes, HookWriting, HookDoing
<1>2. HookNumbered
  <2>1. \A e \in Hook!Endpoints : endpoint[e] # "absent" <=> e <= 0 BY DEF Hook!Init
  <2>2. \A d \in Deliveries : hook[d] # Hook!NoRow <=> d <= 0 BY DEF Hook!Init
  <2>3. 0 \in 0 .. MaxCreated /\ 0 \in 0 .. MaxDeliveries OBVIOUS
  <2> QED BY <2>1, <2>2, <2>3 DEF HookNumbered
<1>3. HookQueued
  BY EmptyQueue DEF Hook!Init, HookQueued, Hook!Down
<1>4. HookCounted
  BY DEF Hook!Init, HookCounted, Hook!NoRow, Hook!Open, Hook!Down
<1>5. HookWithdrawn
  BY DEF Hook!Init, HookWithdrawn, Hook!Down
<1> QED BY <1>1, <1>2, <1>3, <1>4, <1>5 DEF HookInv

LEMMA HookOpenRow ==
    ASSUME HookInv, NEW d \in Deliveries, hook[d].status \in Hook!Open
    PROVE  /\ hook[d] \in Hook!Delivery
           /\ hook[d] # Hook!NoRow
           /\ hook[d].endpoint \in Hook!Endpoints
           /\ hook[d].attempts \in 0 .. MaxAttempts - 1
<1>1. hook[d] # Hook!NoRow BY DEF Hook!NoRow, Hook!Open
<1>2. hook[d] \in Hook!Delivery BY <1>1 DEF HookInv, HookTypes
<1>3. hook[d].attempts < MaxAttempts BY DEF HookInv, HookCounted
<1> QED BY <1>1, <1>2, <1>3, HookConstants DEF Hook!Delivery

LEMMA HookHead ==
    ASSUME HookInv, hookBatch # <<>>
    PROVE  /\ Head(hookBatch) \in Deliveries
           /\ Head(hookBatch) \in Range(hookDue)
           /\ hook[Head(hookBatch)].status \in Hook!Open
           /\ Tail(hookBatch) \in Queues(Deliveries)
           /\ Range(Tail(hookBatch)) = Range(hookBatch) \ {Head(hookBatch)}
BY HeadTakenOff DEF HookInv, HookQueued

LEMMA HookNotDue ==
    ASSUME HookInv, NEW d, Hook!NotDue(d)
    PROVE  hookDue' \in Queues(Deliveries) /\ Range(hookDue') = Range(hookDue) \ {d}
<1>1. PICK i \in DOMAIN hookDue : hookDue[i] = d /\ hookDue' = Hook!Without(i) BY DEF Hook!NotDue
<1>2. hookDue \in Queues(Deliveries) BY DEF HookInv, HookQueued
<1> QED BY <1>1, <1>2, OneTakenOut DEF Hook!Without

\* What only changes what requests are about to write.
LEMMA HookWrites ==
    ASSUME HookInv, hookTxn' \in [Requests -> HookWriting],
           UNCHANGED <<endpoint, hook, hookDue, hookWorker, hookBatch,
                       hookReceived, hookAcked, hookLate, hookCrashes>>
    PROVE  HookInv'
<1>1. HookTypes' BY DEF HookInv, HookTypes
<1>2. HookNumbered' BY DEF HookInv, HookNumbered
<1>3. HookQueued' BY DEF HookInv, HookQueued
<1>4. HookCounted' BY DEF HookInv, HookCounted, HookAnswered
<1>5. HookWithdrawn' BY DEF HookInv, HookWithdrawn
<1> QED BY <1>1, <1>2, <1>3, <1>4, <1>5 DEF HookInv

LEMMA HookFinish ==
    ASSUME HookInv, NEW r \in Requests, Hook!Finish(r)
    PROVE  hookTxn' \in [Requests -> HookWriting]
BY DEF HookInv, HookTypes, Hook!Finish, HookWriting

LEMMA HookCreates ==
    ASSUME HookInv, NEW r \in Requests, Hook!CommitCreate(r)
    PROVE  HookInv'
<1> USE HookConstants
<1> DEFINE n == Hook!Created
<1>1. PICK m \in 0 .. MaxCreated : \A e \in Hook!Endpoints : endpoint[e] # "absent" <=> e <= m
  BY DEF HookInv, HookNumbered
<1>2. n = m
  <2>1. {e \in Hook!Endpoints : endpoint[e] # "absent"} = 1 .. m BY <1>1
  <2>2. Hook!Created = Cardinality({e \in Hook!Endpoints : endpoint[e] # "absent"})
    BY SameCounts DEF Hook!Created
  <2>3. Cardinality(1 .. m) = m BY FirstOnes
  <2> QED BY <2>1, <2>2, <2>3
<1> HIDE DEF n
<1>3. n + 1 \in Hook!Endpoints /\ n + 1 \in 0 .. MaxCreated BY <1>2 DEF n, Hook!CommitCreate
<1>4. endpoint' = [endpoint EXCEPT ![n + 1] = "active"] BY DEF n, Hook!CommitCreate
<1>5. UNCHANGED <<hook, hookDue, hookWorker, hookBatch, hookReceived, hookAcked, hookLate, hookCrashes>>
  BY DEF Hook!CommitCreate, Hook!workerVars, Hook!historyVars
<1>6. HookTypes' BY <1>4, <1>5, HookFinish DEF HookInv, HookTypes, Hook!CommitCreate
<1>7. HookNumbered'
  <2>1. \A e \in Hook!Endpoints : endpoint'[e] # "absent" <=> e <= n + 1
    BY <1>1, <1>2, <1>3, <1>4 DEF HookInv, HookTypes
  <2>2. HookNumbered!2' BY <1>5 DEF HookInv, HookNumbered
  <2> QED BY <2>1, <2>2, <1>3 DEF HookNumbered
<1>8. HookQueued' BY <1>5 DEF HookInv, HookQueued
<1>9. HookCounted' BY <1>5 DEF HookInv, HookCounted, HookAnswered
<1>10. HookWithdrawn' BY <1>1, <1>2, <1>3, <1>4, <1>5 DEF HookInv, HookTypes, HookWithdrawn
<1> QED BY <1>6, <1>7, <1>8, <1>9, <1>10 DEF HookInv

LEMMA HookRevokes ==
    ASSUME HookInv, NEW e \in Hook!Endpoints, Hook!Revoke(e)
    PROVE  HookInv'
<1>1. endpoint[e] = "active" /\ endpoint' = [endpoint EXCEPT ![e] = "revoked"]
  BY DEF Hook!Revoke
<1>2. UNCHANGED <<hook, hookDue, hookTxn, hookWorker, hookBatch, hookReceived, hookAcked, hookLate, hookCrashes>>
  BY DEF Hook!Revoke, Hook!workerVars, Hook!historyVars
<1>3. HookTypes' BY <1>1, <1>2 DEF HookInv, HookTypes
<1>4. HookNumbered'
  <2>1. \A f \in Hook!Endpoints : endpoint'[f] # "absent" <=> endpoint[f] # "absent"
    BY <1>1 DEF HookInv, HookTypes
  <2> QED BY <2>1, <1>2 DEF HookInv, HookNumbered
<1>5. HookQueued' BY <1>2 DEF HookInv, HookQueued
<1>6. HookCounted' BY <1>2 DEF HookInv, HookCounted, HookAnswered
<1>7. HookWithdrawn' BY <1>1, <1>2 DEF HookInv, HookTypes, HookWithdrawn
<1> QED BY <1>3, <1>4, <1>5, <1>6, <1>7 DEF HookInv

HookFresh(e) == [status |-> "pending", endpoint |-> e, attempts |-> 0]

\* The rows for k targets are written behind the n that exist.
HookAppends(n, k, targets) ==
    /\ n + k \in 0 .. MaxDeliveries
    /\ \A d \in Deliveries : hook[d] # Hook!NoRow <=> d <= n
    /\ hook' = [d \in Deliveries |->
                   IF d \in n + 1 .. n + k THEN HookFresh(targets[d - n]) ELSE hook[d]]
    /\ hookDue' = hookDue \o [i \in 1 .. k |-> n + i]
    /\ UNCHANGED <<endpoint, hookWorker, hookBatch, hookReceived, hookAcked,
                   hookLate, hookCrashes>>

LEMMA HookDispatched ==
    ASSUME HookInv, NEW r \in Requests, NEW targets, NEW k \in Nat,
           targets \in [1 .. k -> Hook!Endpoints], Hook!CommitDispatch(r, targets)
    PROVE  /\ \E n \in 0 .. MaxDeliveries : HookAppends(n, k, targets)
           /\ Hook!Finish(r)
<1> USE HookConstants
<1>1. PICK n \in 0 .. MaxDeliveries : \A d \in Deliveries : hook[d] # Hook!NoRow <=> d <= n
  BY DEF HookInv, HookNumbered
<1>2. Hook!Written = n
  <2>1. {d \in Deliveries : hook[d] # Hook!NoRow} = 1 .. n BY <1>1
  <2>2. Hook!Written = Cardinality({d \in Deliveries : hook[d] # Hook!NoRow})
    BY SameCounts DEF Hook!Written
  <2>3. Cardinality(1 .. n) = n BY FirstOnes
  <2> QED BY <2>1, <2>2, <2>3
<1>3. targets \in Seq(Hook!Endpoints) /\ Len(targets) = k /\ DOMAIN targets = 1 .. k
  OBVIOUS
<1>4. n + 1 .. n + k \subseteq Deliveries BY <1>2, <1>3 DEF Hook!CommitDispatch
<1>5. n + k \in 0 .. MaxDeliveries
  <2>1. CASE k = 0 BY <2>1
  <2>2. CASE k # 0
    <3>1. n + k \in n + 1 .. n + k BY <2>2
    <3> QED BY <3>1, <1>4
  <2> QED BY <2>1, <2>2
<1>6. /\ hook' = [d \in Deliveries |->
              IF d \in n + 1 .. n + k
              THEN HookFresh(targets[d - n])
              ELSE hook[d]]
      /\ hookDue' = hookDue \o [i \in 1 .. k |-> n + i]
  BY <1>2, <1>3 DEF Hook!CommitDispatch, HookFresh
<1>7. /\ Hook!Finish(r)
      /\ UNCHANGED <<endpoint, hookWorker, hookBatch, hookReceived, hookAcked,
                     hookLate, hookCrashes>>
  BY DEF Hook!CommitDispatch, Hook!workerVars, Hook!historyVars
<1>8. HookAppends(n, k, targets) BY <1>1, <1>5, <1>6, <1>7 DEF HookAppends
<1> QED BY <1>7, <1>8

LEMMA HookDispatchKept ==
    ASSUME HookInv, NEW r \in Requests, NEW targets, NEW k \in Nat,
           targets \in [1 .. k -> Hook!Endpoints], Hook!CommitDispatch(r, targets)
    PROVE  HookInv'
<1> USE HookConstants
<1>1. PICK n \in 0 .. MaxDeliveries : HookAppends(n, k, targets) BY HookDispatched
<1> DEFINE New == n + 1 .. n + k
           new == [i \in 1 .. k |-> n + i]
<1>2. \A d \in New : d \in Deliveries /\ d - n \in 1 .. k /\ hook[d] = Hook!NoRow
  BY <1>1 DEF HookAppends
<1>3. \A d \in New : HookFresh(targets[d - n]) \in Hook!Delivery
  BY <1>2 DEF Hook!Delivery, Hook!Open, HookFresh
<1>4. /\ \A d \in New : hook'[d] = HookFresh(targets[d - n])
      /\ \A d \in Deliveries \ New : hook'[d] = hook[d]
  BY <1>1, <1>2 DEF HookAppends
<1>5. \A d \in New : hook'[d].status = "pending" /\ hook'[d].attempts = 0
  <2>1. \A e : HookFresh(e).status = "pending" /\ HookFresh(e).attempts = 0 BY DEF HookFresh
  <2> QED BY <2>1, <1>4
<1>6. \A d \in Deliveries : hook[d].status \in Hook!Open => d \notin New
  BY <1>2 DEF Hook!Open, Hook!NoRow
<1>7. UNCHANGED <<endpoint, hookWorker, hookBatch, hookReceived, hookAcked,
                  hookLate, hookCrashes>>
  BY <1>1 DEF HookAppends
<1>8. new \in Queues(Deliveries) /\ Range(new) = New
  <2>1. new \in [1 .. k -> Deliveries] BY <1>2
  <2>2. new \in Seq(Deliveries) BY <2>1
  <2>3. IsInjective(new) BY DEF IsInjective
  <2>4. Range(new) \subseteq New BY DEF Range
  <2>5. ASSUME NEW d \in New PROVE d \in Range(new)
    <3>1. d - n \in 1 .. k /\ n + (d - n) = d OBVIOUS
    <3> QED BY <3>1 DEF Range
  <2> QED BY <2>2, <2>3, <2>4, <2>5 DEF Queues
<1> HIDE DEF New
<1>9. HookTypes'
  <2>1. hook' \in [Deliveries -> Hook!Delivery \cup {Hook!NoRow}]
    BY <1>1, <1>3, <1>4 DEF HookInv, HookTypes, HookAppends
  <2>2. hookTxn' \in [Requests -> HookWriting] BY HookDispatched, HookFinish
  <2> QED BY <2>1, <2>2, <1>7 DEF HookInv, HookTypes
<1>10. HookNumbered'
  <2>1. \A d \in Deliveries : hook'[d] # Hook!NoRow <=> d <= n + k
    <3> SUFFICES ASSUME NEW d \in Deliveries PROVE hook'[d] # Hook!NoRow <=> d <= n + k
      OBVIOUS
    <3>1. CASE d \in New BY <3>1, <1>1, <1>4 DEF HookFresh, Hook!NoRow, HookAppends, New
    <3>2. CASE d \notin New
      <4>1. hook'[d] = hook[d] BY <3>2, <1>4
      <4>2. d <= n + k <=> d <= n BY <3>2 DEF New
      <4> QED BY <4>1, <4>2, <1>1 DEF HookAppends
    <3> QED BY <3>1, <3>2
  <2>2. n + k \in 0 .. MaxDeliveries BY <1>1 DEF HookAppends
  <2> QED BY <2>1, <2>2, <1>7 DEF HookInv, HookNumbered
<1>11. HookQueued'
  <2>1. \A d \in Range(hookDue) : d \in Deliveries /\ hook[d].status \in Hook!Open
    BY RangeOfSeq DEF HookInv, HookQueued, Queues
  <2>2. Range(hookDue) \cap Range(new) = {} BY <2>1, <1>6, <1>8
  <2>3. hookDue' \in Queues(Deliveries) /\ Range(hookDue') = Range(hookDue) \cup (New)
    <3>1. hookDue \in Queues(Deliveries) BY DEF HookInv, HookQueued
    <3>2. hookDue' = hookDue \o new BY <1>1 DEF HookAppends
    <3> HIDE DEF new
    <3> QED BY <3>1, <3>2, <2>2, <1>8, PutBehind
  <2>4. \A d \in Range(hookDue') : hook'[d].status \in Hook!Open
    BY <2>1, <2>3, <1>2, <1>4, <1>5, <1>6 DEF Hook!Open
  <2> QED BY <2>3, <2>4, <1>7 DEF HookInv, HookQueued
<1>12. ASSUME hookBatch # <<>>
       PROVE  Head(hookBatch) \in Deliveries /\ hook'[Head(hookBatch)] = hook[Head(hookBatch)]
  BY <1>12, <1>4, <1>6, HookHead
<1>13. HookCounted'
  <2>1. ASSUME NEW d \in Deliveries, hook'[d] = Hook!NoRow
        PROVE  hookReceived'[d] = 0 /\ hookAcked'[d] = 0
    <3>1. hook[d] = Hook!NoRow BY <2>1, <1>4, <1>5 DEF Hook!NoRow
    <3> QED BY <3>1, <1>7 DEF HookInv, HookCounted
  <2>2. ASSUME NEW d \in Deliveries, hook'[d].status \in Hook!Open
        PROVE  /\ hook'[d].attempts < MaxAttempts
               /\ hookReceived'[d] <= hook'[d].attempts + hookCrashes' + (IF HookAnswered(d)' THEN 1 ELSE 0)
               /\ hookAcked'[d] <= hookCrashes' + (IF HookAnswered(d)' /\ hookWorker'.ok THEN 1 ELSE 0)
    <3>1. CASE d \in New
      <4>1. hook'[d].attempts = 0 BY <3>1, <1>5
      <4>2. hookReceived'[d] = 0 /\ hookAcked'[d] = 0
        BY <3>1, <1>7, <1>2 DEF HookInv, HookCounted
      <4>3. hookCrashes' \in Nat BY <1>9 DEF HookTypes
      <4> QED BY <4>1, <4>2, <4>3
    <3>2. CASE d \notin New
      <4>1. hook'[d] = hook[d] BY <3>2, <1>4
      <4> QED BY <4>1, <2>2, <1>7 DEF HookInv, HookCounted, HookAnswered
    <3> QED BY <3>1, <3>2
  <2>3. HookCounted!3' BY <1>7 DEF HookInv, HookCounted
  <2> QED BY <2>1, <2>2, <2>3 DEF HookCounted
<1>14. HookWithdrawn'
  BY <1>7, <1>12 DEF HookInv, HookQueued, HookWithdrawn
<1> QED BY <1>9, <1>10, <1>11, <1>14, <1>13 DEF HookInv

\* The worker starts, claims or is about to post: nothing is written.
LEMMA HookWorks ==
    ASSUME HookInv, Hook!Start \/ Hook!Claim \/ Hook!Attempt
    PROVE  HookInv'
<1> USE HookConstants
<1>1. /\ UNCHANGED <<endpoint, hook, hookDue, hookTxn, hookReceived, hookAcked, hookLate, hookCrashes>>
      /\ hookWorker.at # "answered" /\ hookWorker'.at # "answered"
      /\ hookWorker' \in HookDoing
  <2> USE DEF Hook!rowVars, Hook!historyVars, HookInv, HookTypes, HookDoing
  <2>1. CASE Hook!Start BY <2>1 DEF Hook!Start, Hook!Down, Hook!Ready
  <2>2. CASE Hook!Claim BY <2>2 DEF Hook!Claim
  <2>3. CASE Hook!Attempt BY <2>3 DEF Hook!Attempt, Hook!Down
  <2> QED BY <2>1, <2>2, <2>3
<1>2. HookTypes' BY <1>1 DEF HookInv, HookTypes
<1>3. HookNumbered' BY <1>1 DEF HookInv, HookNumbered
<1>4. HookQueued'
  <2>1. CASE Hook!Start
    BY <2>1, <1>1 DEF Hook!Start, Hook!Ready, HookInv, HookQueued
  <2>2. CASE Hook!Claim
    <3> DEFINE n == IF Len(hookDue) < BatchSize THEN Len(hookDue) ELSE BatchSize
    <3>1. hookDue \in Queues(Deliveries) BY DEF HookInv, HookQueued
    <3>2. n \in 0 .. Len(hookDue) BY <3>1, LenProperties DEF Queues
    <3>3. hookBatch' = SubSeq(hookDue, 1, n) /\ UNCHANGED hookWorker BY <2>2 DEF Hook!Claim
    <3> HIDE DEF n
    <3>4. hookBatch' \in Queues(Deliveries) /\ Range(hookBatch') \subseteq Range(hookDue)
      BY <3>1, <3>2, <3>3, FrontOfQueue
    <3>5. hookWorker'.at \notin {"posting", "answered"} BY <2>2, <3>3 DEF Hook!Claim
    <3> QED BY <3>4, <3>5, <1>1 DEF HookInv, HookQueued
  <2>3. CASE Hook!Attempt
    BY <2>3, <1>1 DEF Hook!Attempt, HookInv, HookQueued
  <2> QED BY <2>1, <2>2, <2>3
<1>5. HookCounted' BY <1>1 DEF HookInv, HookCounted, HookAnswered
<1>6. HookWithdrawn'
  <2>1. CASE Hook!Start \/ Hook!Claim
    BY <2>1, <1>1 DEF Hook!Start, Hook!Claim, Hook!Ready, HookInv, HookWithdrawn
  <2>2. CASE Hook!Attempt
    <3>1. endpoint[hook[Head(hookBatch)].endpoint] = "active" /\ UNCHANGED hookBatch
      BY <2>2 DEF Hook!Attempt, Hook!Revoked
    <3>2. hook[Head(hookBatch)].endpoint \in Hook!Endpoints
      BY <2>2, HookHead, HookOpenRow DEF Hook!Attempt
    <3> QED BY <3>1, <3>2, <1>1 DEF HookInv, HookWithdrawn
  <2> QED BY <2>1, <2>2
<1> QED BY <1>2, <1>3, <1>4, <1>5, <1>6 DEF HookInv

LEMMA HookDies ==
    ASSUME HookInv, Hook!Crash
    PROVE  HookInv'
<1> USE HookConstants
<1>1. /\ UNCHANGED <<endpoint, hook, hookDue, hookTxn, hookReceived, hookAcked, hookLate>>
      /\ hookWorker' = Hook!Down /\ hookBatch' = <<>> /\ hookCrashes' = hookCrashes + 1
  BY DEF Hook!Crash, Hook!rowVars
<1>2. HookTypes' BY <1>1 DEF HookInv, HookTypes, HookDoing
<1>3. HookNumbered' BY <1>1 DEF HookInv, HookNumbered
<1>4. HookQueued' BY <1>1, EmptyQueue DEF HookInv, HookQueued, Hook!Down
<1>5. HookCounted'
  <2>1. HookCounted!1' BY <1>1 DEF HookInv, HookCounted
  <2>2. ASSUME NEW d \in Deliveries, hook[d].status \in Hook!Open
        PROVE  /\ hook[d].attempts < MaxAttempts
               /\ hookReceived[d] <= hook[d].attempts + (hookCrashes + 1)
               /\ hookAcked[d] <= hookCrashes + 1
    <3>1. hookReceived[d] \in Nat /\ hookAcked[d] \in Nat /\ hookCrashes \in Nat
      BY DEF HookInv, HookTypes
    <3>2. hook[d].attempts \in 0 .. MaxAttempts - 1 BY <2>2, HookOpenRow
    <3> QED BY <2>2, <3>1, <3>2 DEF HookInv, HookCounted
  <2>3. \A d \in Deliveries : ~HookAnswered(d)' BY <1>1 DEF HookAnswered, Hook!Down
  <2>4. HookCounted!2'
    <3> SUFFICES ASSUME NEW d \in Deliveries, hook[d].status \in Hook!Open
                 PROVE  /\ hook[d].attempts < MaxAttempts
                        /\ hookReceived[d] <= hook[d].attempts + (hookCrashes + 1) + 0
                        /\ hookAcked[d] <= (hookCrashes + 1) + 0
      BY <1>1, <2>3
    <3>1. hookCrashes \in Nat /\ hook[d].attempts \in 0 .. MaxAttempts - 1
      BY HookOpenRow DEF HookInv, HookTypes
    <3> QED BY <2>2, <3>1
  <2>5. HookCounted!3' BY <1>1 DEF Hook!Down
  <2> QED BY <2>1, <2>4, <2>5 DEF HookCounted
<1>6. HookWithdrawn' BY <1>1 DEF HookInv, HookWithdrawn, Hook!Down
<1> QED BY <1>2, <1>3, <1>4, <1>5, <1>6 DEF HookInv

LEMMA HookBacksOff ==
    ASSUME HookInv, NEW d \in Deliveries, Hook!BecomeDue(d)
    PROVE  HookInv'
<1> USE HookConstants
<1>1. /\ hookDue' = Append(hookDue, d) /\ d \notin Range(hookDue)
      /\ hook[d].status = "failed"
      /\ UNCHANGED <<endpoint, hook, hookTxn, hookWorker, hookBatch, hookReceived, hookAcked,
                     hookLate, hookCrashes>>
  BY DEF Hook!BecomeDue, Hook!TriedAgain, Hook!workerVars, Hook!historyVars, Range
<1>2. hookDue' \in Queues(Deliveries) /\ Range(hookDue') = Range(hookDue) \cup {d}
  BY <1>1, PutLast DEF HookInv, HookQueued
<1>3. HookTypes' BY <1>1 DEF HookInv, HookTypes
<1>4. HookNumbered' BY <1>1 DEF HookInv, HookNumbered
<1>5. HookQueued' BY <1>1, <1>2 DEF HookInv, HookQueued, Hook!Open
<1>6. HookCounted' BY <1>1 DEF HookInv, HookCounted, HookAnswered
<1>7. HookWithdrawn' BY <1>1 DEF HookInv, HookWithdrawn
<1> QED BY <1>3, <1>4, <1>5, <1>6, <1>7 DEF HookInv

LEMMA HookRowUpdated ==
    ASSUME NEW row \in Hook!Delivery, row.attempts \in 0 .. MaxAttempts - 1,
           NEW status \in {"succeeded", "exhausted", "suppressed", "failed"}
    PROVE  LET new == [row EXCEPT !.attempts = @ + 1, !.status = status] IN
           /\ new \in Hook!Delivery
           /\ new # Hook!NoRow
           /\ new.status = status
           /\ new.attempts = row.attempts + 1
<1> DEFINE new == [row EXCEPT !.attempts = @ + 1, !.status = status]
<1>1. row.attempts + 1 \in 0 .. MaxAttempts BY HookConstants
<1>2. status \in Hook!Open \cup Hook!Closed BY DEF Hook!Open, Hook!Closed
<1>3. new \in Hook!Delivery BY <1>1, <1>2 DEF Hook!Delivery
<1>4. new.status = status BY <1>1, <1>2 DEF Hook!Delivery
<1>5. new.attempts = row.attempts + 1 BY <1>1, <1>2 DEF Hook!Delivery
<1> HIDE DEF new
<1>6. new # Hook!NoRow BY <1>5, <1>3 DEF Hook!Delivery, Hook!NoRow, Hook!Open, Hook!Closed
<1> QED BY <1>3, <1>4, <1>5, <1>6 DEF new

\* The row at the head of the batch is closed, or its attempt is counted.
LEMMA HookClosesOrCounts ==
    ASSUME HookInv, hookBatch # <<>>,
           NEW status \in {"succeeded", "exhausted", "suppressed", "failed"}, NEW ok \in BOOLEAN,
           hook' = [hook EXCEPT ![Head(hookBatch)].attempts = @ + 1,
                                ![Head(hookBatch)].status = status],
           status = "failed" => hook[Head(hookBatch)].attempts + 1 < MaxAttempts /\ ~ok,
           Hook!NotDue(Head(hookBatch)),
           hookBatch' = Tail(hookBatch),
           \/ hookWorker.at = "ready" /\ status # "failed"
           \/ hookWorker.at = "answered" /\ hookWorker.ok = ok,
           hookWorker' \in HookDoing, hookWorker'.at = "ready",
           UNCHANGED <<endpoint, hookTxn, hookReceived, hookAcked, hookLate, hookCrashes>>
    PROVE  HookInv'
<1> USE HookConstants
<1> DEFINE h == Head(hookBatch)
<1>1. h \in Deliveries /\ h \in Range(hookDue) /\ hook[h].status \in Hook!Open
  BY HookHead
<1>2. hook[h] \in Hook!Delivery /\ hook[h] # Hook!NoRow /\ hook[h].attempts \in 0 .. MaxAttempts - 1
  BY <1>1, HookOpenRow
<1>3. /\ hook'[h] = [hook[h] EXCEPT !.attempts = @ + 1, !.status = status]
      /\ \A d \in Deliveries \ {h} : hook'[d] = hook[d]
      /\ hook' \in [Deliveries -> Hook!Delivery \cup {Hook!NoRow}]
  <2>1. [hook[h] EXCEPT !.attempts = @ + 1, !.status = status] \in Hook!Delivery
    BY <1>2, HookRowUpdated
  <2> QED BY <2>1, <1>1 DEF HookInv, HookTypes
<1>4. hook'[h] # Hook!NoRow /\ hook'[h].status = status /\ hook'[h].attempts = hook[h].attempts + 1
  <2>1. LET new == [hook[h] EXCEPT !.attempts = @ + 1, !.status = status] IN
        new # Hook!NoRow /\ new.status = status /\ new.attempts = hook[h].attempts + 1
    BY <1>2, HookRowUpdated
  <2> QED BY <2>1, <1>3
<1>5. hookDue' \in Queues(Deliveries) /\ Range(hookDue') = Range(hookDue) \ {h}
  BY HookNotDue
<1>6. hookBatch' \in Queues(Deliveries) /\ Range(hookBatch') = Range(hookBatch) \ {h}
  BY HookHead
<1> HIDE DEF h
<1>7. HookTypes' BY <1>3 DEF HookInv, HookTypes
<1>8. HookNumbered'
  <2>1. \A d \in Deliveries : hook'[d] # Hook!NoRow <=> hook[d] # Hook!NoRow
    BY <1>2, <1>3, <1>4
  <2> QED BY <2>1 DEF HookInv, HookNumbered
<1>9. HookQueued'
  <2>1. \A d \in Range(hookDue) : d \in Deliveries /\ hook[d].status \in Hook!Open
    BY RangeOfSeq DEF HookInv, HookQueued, Queues
  <2>2. \A d \in Range(hookDue') : hook'[d].status \in Hook!Open
    BY <2>1, <1>3, <1>5
  <2>3. Range(hookBatch') \subseteq Range(hookDue') BY <1>5, <1>6 DEF HookInv, HookQueued
  <2> QED BY <2>2, <2>3, <1>5, <1>6 DEF HookQueued
<1>10. HookCounted'
  <2>1. ASSUME NEW d \in Deliveries, hook'[d] = Hook!NoRow
        PROVE  hookReceived'[d] = 0 /\ hookAcked'[d] = 0
    <3>1. hook[d] = Hook!NoRow BY <2>1, <1>3, <1>4
    <3> QED BY <3>1 DEF HookInv, HookCounted
  <2>2. \A d \in Deliveries : ~HookAnswered(d)' BY DEF HookAnswered
  <2>3. ASSUME NEW d \in Deliveries, hook'[d].status \in Hook!Open
        PROVE  /\ hook'[d].attempts < MaxAttempts
               /\ hookReceived'[d] <= hook'[d].attempts + hookCrashes' + 0
               /\ hookAcked'[d] <= hookCrashes' + 0
    <3>1. hookReceived[d] \in Nat /\ hookAcked[d] \in Nat /\ hookCrashes \in Nat
      BY DEF HookInv, HookTypes
    <3>2. CASE d = h
      <4>1. status = "failed" BY <3>2, <2>3, <1>4 DEF Hook!Open
      <4>2. /\ hookReceived[h] <= hook[h].attempts + hookCrashes + 1
            /\ hookAcked[h] <= hookCrashes + 0
            /\ hook[h].attempts + 1 < MaxAttempts
        BY <4>1, <1>1, <1>2, <3>1, <3>2 DEF HookInv, HookCounted, HookAnswered, h
      <4> QED BY <4>2, <3>1, <3>2, <1>2, <1>4
    <3>3. CASE d # h
      <4>1. hook'[d] = hook[d] BY <3>3, <1>3
      <4>2. ~HookAnswered(d) BY <3>3 DEF HookAnswered, h
      <4> QED BY <4>1, <4>2, <2>3 DEF HookInv, HookCounted
    <3> QED BY <3>2, <3>3
  <2> QED BY <2>1, <2>2, <2>3 DEF HookCounted
<1>11. HookWithdrawn' BY DEF HookInv, HookWithdrawn
<1> QED BY <1>7, <1>8, <1>9, <1>10, <1>11 DEF HookInv

LEMMA HookSuppresses ==
    ASSUME HookInv, Hook!Suppress
    PROVE  HookInv'
<1>1. /\ hookBatch # <<>> /\ hookWorker.at = "ready" /\ hookWorker' = hookWorker
      /\ hook' = [hook EXCEPT ![Head(hookBatch)].status = "suppressed",
                              ![Head(hookBatch)].attempts = @ + 1]
      /\ Hook!NotDue(Head(hookBatch))
      /\ hookBatch' = Tail(hookBatch)
      /\ UNCHANGED <<endpoint, hookTxn, hookReceived, hookAcked, hookLate, hookCrashes>>
  BY DEF Hook!Suppress, Hook!historyVars
<1>2. hook' = [hook EXCEPT ![Head(hookBatch)].attempts = @ + 1,
                           ![Head(hookBatch)].status = "suppressed"]
  <2>1. Head(hookBatch) \in Deliveries /\ hook[Head(hookBatch)] \in Hook!Delivery
    BY <1>1, HookHead, HookOpenRow
  <2> QED BY <1>1, <2>1 DEF HookInv, HookTypes, Hook!Delivery
<1>3. hookWorker' \in HookDoing BY <1>1 DEF HookInv, HookTypes
<1> QED BY <1>1, <1>2, <1>3, HookClosesOrCounts

LEMMA HookRecords ==
    ASSUME HookInv, Hook!Record
    PROVE  HookInv'
<1> USE HookConstants
<1> DEFINE h == Head(hookBatch)
           status == Hook!Outcome(hookWorker.ok, hook[h].attempts + 1)
<1>1. /\ hookBatch # <<>> /\ hookWorker.at = "answered" /\ hookWorker' = Hook!Ready(hookWorker.enabled)
      /\ hook' = [hook EXCEPT ![h].attempts = hook[h].attempts + 1, ![h].status = status]
      /\ Hook!NotDue(h)
      /\ hookBatch' = Tail(hookBatch)
      /\ UNCHANGED <<endpoint, hookTxn, hookReceived, hookAcked, hookLate, hookCrashes>>
  BY DEF Hook!Record, Hook!historyVars, HookInv, HookQueued
<1>2. h \in Deliveries /\ hook[h].attempts \in 0 .. MaxAttempts - 1 BY <1>1, HookHead, HookOpenRow
<1>3. hookWorker.ok \in BOOLEAN /\ hookWorker.enabled \in BOOLEAN
  BY <1>1 DEF HookInv, HookTypes, HookDoing, Hook!Down
<1>4. hookWorker' \in HookDoing /\ hookWorker'.at = "ready" BY <1>1, <1>3 DEF HookDoing, Hook!Ready
<1>5. /\ status \in {"succeeded", "exhausted", "suppressed", "failed"}
      /\ status = "failed" => hook[h].attempts + 1 < MaxAttempts /\ ~hookWorker.ok
  BY <1>2, <1>3 DEF Hook!Outcome, Hook!GivesUp
<1> HIDE DEF status
<1>6. hook' = [hook EXCEPT ![h].attempts = @ + 1, ![h].status = status]
  BY <1>1, <1>2 DEF HookInv, HookTypes
<1> QED BY <1>1, <1>3, <1>4, <1>5, <1>6, HookClosesOrCounts

LEMMA HookPosts ==
    ASSUME HookInv, Hook!Post
    PROVE  HookInv'
<1> USE HookConstants
<1> DEFINE h == Head(hookBatch)
           e == hook[h].endpoint
<1>1. PICK arrives, ok \in BOOLEAN :
          /\ ok => arrives
          /\ hookWorker' = [at |-> "answered", enabled |-> hookWorker.enabled, ok |-> ok]
          /\ hookReceived' = IF arrives THEN [hookReceived EXCEPT ![h] = @ + 1] ELSE hookReceived
          /\ hookAcked' = IF ok THEN [hookAcked EXCEPT ![h] = @ + 1] ELSE hookAcked
          /\ hookLate' = IF arrives /\ endpoint[e] = "revoked"
                         THEN [hookLate EXCEPT ![e] = @ + 1] ELSE hookLate
  BY DEF Hook!Post
<1>2. /\ hookWorker.at = "posting" /\ hookBatch # <<>>
      /\ UNCHANGED <<endpoint, hook, hookDue, hookTxn, hookBatch, hookCrashes>>
  BY DEF Hook!Post, Hook!rowVars, HookInv, HookQueued
<1>3. h \in Deliveries /\ hook[h].status \in Hook!Open BY <1>2, HookHead
<1>4. e \in Hook!Endpoints /\ hook[h] # Hook!NoRow /\ hook[h].attempts \in 0 .. MaxAttempts - 1
  BY <1>3, HookOpenRow
<1>5. hookWorker' \in HookDoing /\ hookWorker'.at = "answered" /\ hookWorker'.ok = ok
  BY <1>1, <1>2 DEF HookInv, HookTypes, HookDoing, Hook!Down
<1>6. /\ hookReceived \in [Deliveries -> Nat] /\ hookAcked \in [Deliveries -> Nat]
      /\ hookLate \in [Hook!Endpoints -> Nat] /\ hookCrashes \in Nat
  BY DEF HookInv, HookTypes
<1> HIDE DEF h, e
<1>7. HookTypes'
  <2>1. hookReceived' \in [Deliveries -> Nat] BY <1>1, <1>3, <1>6
  <2>2. hookAcked' \in [Deliveries -> Nat] BY <1>1, <1>3, <1>6
  <2>3. hookLate' \in [Hook!Endpoints -> Nat]
    <3>1. CASE hookLate' = hookLate BY <3>1, <1>6
    <3>2. CASE hookLate' = [hookLate EXCEPT ![e] = @ + 1] BY <3>2, <1>4, <1>6
    <3> QED BY <3>1, <3>2, <1>1
  <2> QED BY <2>1, <2>2, <2>3, <1>2, <1>5 DEF HookInv, HookTypes
<1>8. HookNumbered' BY <1>2 DEF HookInv, HookNumbered
<1>9. HookQueued' BY <1>2 DEF HookInv, HookQueued
<1>10. HookCounted'
  <2>1. ASSUME NEW d \in Deliveries, hook[d] = Hook!NoRow
        PROVE  hookReceived'[d] = 0 /\ hookAcked'[d] = 0
    <3>1. d # h /\ hookReceived[d] = 0 /\ hookAcked[d] = 0 BY <2>1, <1>4 DEF HookInv, HookCounted
    <3> QED BY <3>1, <1>1, <1>6
  <2>2. ASSUME NEW d \in Deliveries, hook[d].status \in Hook!Open
        PROVE  /\ hook[d].attempts < MaxAttempts
               /\ hookReceived'[d] <= hook[d].attempts + hookCrashes + (IF HookAnswered(d)' THEN 1 ELSE 0)
               /\ hookAcked'[d] <= hookCrashes + (IF HookAnswered(d)' /\ hookWorker'.ok THEN 1 ELSE 0)
    <3>1. /\ hook[d].attempts < MaxAttempts
          /\ hookReceived[d] <= hook[d].attempts + hookCrashes + 0
          /\ hookAcked[d] <= hookCrashes + 0
      <4>1. ~HookAnswered(d) BY <1>2 DEF HookAnswered
      <4> QED BY <4>1, <2>2 DEF HookInv, HookCounted
    <3>2. hook[d].attempts \in Nat BY <2>2, HookOpenRow
    <3>3. HookAnswered(d)' <=> d = h BY <1>2, <1>5 DEF HookAnswered, h
    <3>4. CASE d = h
      <4>1. hookReceived'[d] <= hookReceived[d] + 1 BY <3>4, <1>1, <1>6
      <4>2. hookAcked'[d] <= hookAcked[d] + (IF ok THEN 1 ELSE 0) BY <3>4, <1>1, <1>6
      <4>3. hookReceived'[d] \in Nat /\ hookAcked'[d] \in Nat BY <1>7 DEF HookTypes
      <4>4. hookReceived[d] \in Nat /\ hookAcked[d] \in Nat BY <1>6
      <4>5. hookReceived'[d] <= hook[d].attempts + hookCrashes + 1
        <5>1. hookReceived[d] <= hook[d].attempts + hookCrashes BY <3>1, <3>2, <1>6
        <5>2. \A a, c, x, y \in Nat : x <= a + c /\ y <= x + 1 => y <= a + c + 1 OBVIOUS
        <5>3. hookCrashes \in Nat BY <1>6
        <5> QED BY <5>1, <5>2, <5>3, <4>1, <4>3, <4>4, <3>2
      <4>6. hookAcked'[d] <= hookCrashes + (IF ok THEN 1 ELSE 0)
        BY <4>2, <4>3, <4>4, <3>1, <1>6
      <4> QED BY <4>5, <4>6, <3>1, <3>3, <3>4, <1>5
    <3>5. CASE d # h
      <4>1. hookReceived'[d] = hookReceived[d] /\ hookAcked'[d] = hookAcked[d]
        BY <3>5, <1>1, <1>6
      <4> QED BY <4>1, <3>1, <3>3, <3>5
    <3> QED BY <3>4, <3>5
  <2>3. ok => hookAcked'[Head(hookBatch)] > 0 BY <1>1, <1>3, <1>6 DEF h
  <2> QED BY <2>1, <2>2, <2>3, <1>2, <1>5 DEF HookCounted
<1>11. HookWithdrawn'
  <2>1. hookLate[e] = 0 BY <1>2 DEF HookInv, HookWithdrawn, h, e
  <2> QED BY <2>1, <1>1, <1>2, <1>4, <1>5, <1>6 DEF HookInv, HookWithdrawn
<1> QED BY <1>7, <1>8, <1>9, <1>10, <1>11 DEF HookInv

LEMMA HookStep ==
    ASSUME HookInv, Hook!Next
    PROVE  HookInv'
<1>1. ASSUME NEW r \in Requests, Hook!Request(r) PROVE HookInv'
  <2>1. CASE Hook!Create(r) \/ (\E s \in SUBSET Hook!Endpoints : Hook!Dispatch(r, s)) \/ Hook!Rollback(r)
    <3>1. hookTxn' \in [Requests -> HookWriting]
      <4>1. CASE Hook!Create(r) BY <4>1 DEF Hook!Create, Hook!Begin, HookInv, HookTypes, HookWriting
      <4>2. ASSUME NEW s \in SUBSET Hook!Endpoints, Hook!Dispatch(r, s)
            PROVE  hookTxn' \in [Requests -> HookWriting]
        <5>1. [op |-> "dispatch", targets |-> Hook!Active \cap s] \in HookWriting
          BY DEF HookWriting
        <5> QED BY <4>2, <5>1 DEF Hook!Dispatch, Hook!Begin, HookInv, HookTypes
      <4>3. CASE Hook!Rollback(r) BY <4>3, HookFinish DEF Hook!Rollback
      <4> QED BY <2>1, <4>1, <4>2, <4>3
    <3>2. UNCHANGED <<endpoint, hook, hookDue, hookWorker, hookBatch,
                      hookReceived, hookAcked, hookLate, hookCrashes>>
      BY <2>1 DEF Hook!Create, Hook!Dispatch, Hook!Rollback, Hook!Begin, Hook!rowVars,
                  Hook!workerVars, Hook!historyVars
    <3> QED BY <3>1, <3>2, HookWrites
  <2>2. CASE Hook!CommitCreate(r) BY <2>2, HookCreates
  <2>3. ASSUME NEW n \in Hook!Endpoints, NEW targets \in [1 .. n -> Hook!Endpoints],
               Hook!CommitDispatch(r, targets)
        PROVE  HookInv'
    BY <2>3, HookConstants, HookDispatchKept
  <2> QED BY <1>1, <2>1, <2>2, <2>3 DEF Hook!Request
<1>2. ASSUME NEW e \in Hook!Endpoints, Hook!Revoke(e) PROVE HookInv' BY <1>2, HookRevokes
<1>3. CASE Hook!Work
  BY <1>3, HookWorks, HookSuppresses, HookPosts, HookRecords DEF Hook!Work
<1>4. CASE Hook!Crash BY <1>4, HookDies
<1>5. CASE Hook!Wait BY <1>5, HookBacksOff, HookConstants DEF Hook!Wait
<1> QED BY <1>1, <1>2, <1>3, <1>4, <1>5 DEF Hook!Next

-----------------------------------------------------------------------------
(* Webhooks: every step is a step of the abstract outbox, or none.         *)

\* What the abstract outbox sees.
Phases ==
    [d \in Deliveries |-> IF part = "webhooks" THEN Hook!Phase(hook[d]) ELSE Mail!Phase(d)]

Copies == IF part = "webhooks" THEN hookReceived ELSE mailReceived

Acks == IF part = "webhooks" THEN hookAcked ELSE mailAcked

Interruptions == IF part = "webhooks" THEN hookCrashes ELSE mailCrashes + refusals

LEMMA HookPhases ==
    ASSUME NEW row
    PROVE  /\ row.status = "none" => Hook!Phase(row) = "none"
           /\ row.status \in Hook!Open => Hook!Phase(row) = "queued"
           /\ row.status = "succeeded" => Hook!Phase(row) = "delivered"
           /\ row.status \in {"exhausted", "suppressed"} => Hook!Phase(row) = "dropped"
BY DEF Hook!Phase, Hook!Open

LEMMA HookSeen ==
    ASSUME part = "webhooks", part' = part
    PROVE  /\ Phases = [d \in Deliveries |-> Hook!Phase(hook[d])]
           /\ Phases' = [d \in Deliveries |-> Hook!Phase(hook'[d])]
           /\ Copies = hookReceived /\ Copies' = hookReceived'
           /\ Acks = hookAcked /\ Acks' = hookAcked'
           /\ Interruptions = hookCrashes /\ Interruptions' = hookCrashes'
BY DEF Phases, Copies, Acks, Interruptions, Hook!Phase

LEMMA HookSameRows ==
    ASSUME part = "webhooks", part' = part, UNCHANGED <<hook, hookReceived, hookAcked, hookCrashes>>
    PROVE  UNCHANGED <<Phases, Copies, Acks, Interruptions>>
BY HookSeen

LEMMA HookOutbox ==
    ASSUME HookInv, Hook!Next, part = "webhooks", part' = part
    PROVE  Abstract!Next \/ UNCHANGED Abstract!outboxVars
<1> USE HookConstants
<1> DEFINE Stays == UNCHANGED <<Phases, Copies, Acks, Interruptions>>
           h == Head(hookBatch)
<1>1. Stays => UNCHANGED Abstract!outboxVars
  BY DEF Abstract!outboxVars, Phases, Copies, Acks, Interruptions
<1> SUFFICES Abstract!Next \/ Stays BY <1>1
<1>2. ASSUME NEW r \in Requests, Hook!Request(r) PROVE Abstract!Next \/ Stays
  <2>1. CASE UNCHANGED <<hook, hookReceived, hookAcked, hookCrashes>>
    BY <2>1, HookSameRows
  <2>2. ASSUME NEW k \in Hook!Endpoints, NEW targets \in [1 .. k -> Hook!Endpoints],
               Hook!CommitDispatch(r, targets)
        PROVE  Abstract!Next
    <3>1. PICK n \in 0 .. MaxDeliveries : HookAppends(n, k, targets) BY <2>2, HookDispatched
    <3> DEFINE New == n + 1 .. n + k
    <3>2. \A d \in New : d \in Deliveries /\ hook[d] = Hook!NoRow /\ hook'[d] = HookFresh(targets[d - n])
      BY <3>1 DEF HookAppends
    <3>3. \A d \in Deliveries \ New : hook'[d] = hook[d]
      BY <3>1 DEF HookAppends
    <3>4. \A d \in New : Hook!Phase(hook[d]) = "none" /\ Hook!Phase(hook'[d]) = "queued"
      <4>1. \A e : HookFresh(e).status \in Hook!Open BY DEF HookFresh, Hook!Open
      <4>2. Hook!NoRow.status = "none" BY DEF Hook!NoRow
      <4> QED BY <4>1, <4>2, <3>2, HookPhases
    <3>5. New \in SUBSET Deliveries BY <3>2
    <3> HIDE DEF New
    <3>6. Phases' = [d \in Deliveries |-> IF d \in New THEN "queued" ELSE Phases[d]]
      <4>1. \A d \in Deliveries : Hook!Phase(hook'[d]) = IF d \in New THEN "queued" ELSE Phases[d]
        BY <3>3, <3>4, HookSeen
      <4> QED BY <4>1, HookSeen
    <3>7. \A d \in New : Phases[d] = "none" BY <3>4, <3>5, HookSeen
    <3>8. UNCHANGED <<Copies, Acks, Interruptions>> BY <3>1, HookSeen DEF HookAppends
    <3>9. Abstract!Queue(New)
      BY <3>6, <3>7, <3>8 DEF Abstract!Queue, Phases, Copies, Acks, Interruptions
    <3> QED BY <3>5, <3>9 DEF Abstract!Next
  <2>3. CASE Hook!Create(r) \/ Hook!CommitCreate(r) \/ Hook!Rollback(r)
             \/ (\E s \in SUBSET Hook!Endpoints : Hook!Dispatch(r, s))
    <3>1. UNCHANGED <<hook, hookReceived, hookAcked, hookCrashes>>
      BY <2>3 DEF Hook!Create, Hook!CommitCreate, Hook!Dispatch, Hook!Rollback, Hook!Begin,
                  Hook!rowVars, Hook!historyVars
    <3> QED BY <3>1, <2>1
  <2> QED BY <1>2, <2>2, <2>3 DEF Hook!Request
<1>3. CASE (\E e \in Hook!Endpoints : Hook!Revoke(e)) \/ Hook!Start \/ Hook!Claim \/ Hook!Attempt \/ Hook!Wait
  <2>1. UNCHANGED <<hook, hookReceived, hookAcked, hookCrashes>>
    BY <1>3 DEF Hook!Revoke, Hook!Start, Hook!Claim, Hook!Attempt, Hook!Wait, Hook!BecomeDue,
                Hook!rowVars, Hook!historyVars
  <2> QED BY <2>1, HookSameRows
<1>4. ASSUME NEW status \in {"succeeded", "exhausted", "suppressed", "failed"}, hookBatch # <<>>,
             hook' = [hook EXCEPT ![h].attempts = hook[h].attempts + 1, ![h].status = status],
             status = "succeeded" => hookAcked[h] > 0,
             UNCHANGED <<hookReceived, hookAcked, hookCrashes>>
      PROVE  Abstract!Next \/ Stays
  <2>1. /\ h \in Deliveries /\ hook[h] \in Hook!Delivery
        /\ hook[h].status \in Hook!Open /\ hook[h].attempts \in 0 .. MaxAttempts - 1
    BY <1>4, HookHead, HookOpenRow
  <2>2. hook'[h].status = status /\ \A d \in Deliveries \ {h} : hook'[d] = hook[d]
    <3>1. hook'[h] = [hook[h] EXCEPT !.attempts = hook[h].attempts + 1, !.status = status]
      BY <1>4, <2>1 DEF HookInv, HookTypes
    <3>2. LET new == [hook[h] EXCEPT !.attempts = @ + 1, !.status = status] IN new.status = status
      BY <2>1, HookRowUpdated
    <3>3. hook'[h].status = status BY <3>1, <3>2
    <3> QED BY <1>4, <3>3, <2>1 DEF HookInv, HookTypes
  <2>3. Phases[h] = "queued" BY <2>1, HookPhases, HookSeen
  <2>4. Phases' = [Phases EXCEPT ![h] = Hook!Phase(hook'[h])]
    <3>1. \A d \in Deliveries : Hook!Phase(hook'[d]) = IF d = h THEN Hook!Phase(hook'[h]) ELSE Phases[d]
      BY <2>2, HookSeen
    <3> QED BY <3>1, <2>1, HookSeen
  <2>5. UNCHANGED <<Copies, Acks, Interruptions>> BY <1>4, HookSeen
  <2>6. CASE status = "succeeded"
    <3>1. Phases' = [Phases EXCEPT ![h] = "delivered"] BY <2>6, <2>2, <2>4, HookPhases
    <3>2. Acks[h] > 0 BY <2>6, <1>4, HookSeen
    <3>3. Abstract!Deliver(h)
      BY <2>3, <2>5, <3>1, <3>2 DEF Abstract!Deliver, Phases, Copies, Acks, Interruptions
    <3> QED BY <3>3, <2>1 DEF Abstract!Next
  <2>7. CASE status \in {"exhausted", "suppressed"}
    <3>1. Phases' = [Phases EXCEPT ![h] = "dropped"] BY <2>7, <2>2, <2>4, HookPhases
    <3>2. Abstract!Drop(h)
      BY <2>3, <2>5, <3>1 DEF Abstract!Drop, Phases, Copies, Acks, Interruptions
    <3> QED BY <3>2, <2>1 DEF Abstract!Next
  <2>8. CASE status = "failed"
    <3>1. Hook!Phase(hook'[h]) = "queued" BY <2>8, <2>2, HookPhases DEF Hook!Open
    <3>2. Phases' = Phases BY <3>1, <2>3, <2>4, HookSeen
    <3> QED BY <3>2, <2>5
  <2> QED BY <2>6, <2>7, <2>8
<1>5. CASE Hook!Suppress
  <2>1. /\ hookBatch # <<>>
        /\ hook' = [hook EXCEPT ![h].status = "suppressed", ![h].attempts = @ + 1]
        /\ UNCHANGED <<hookReceived, hookAcked, hookCrashes>>
    BY <1>5 DEF Hook!Suppress, Hook!historyVars
  <2>2. h \in Deliveries /\ hook[h] \in Hook!Delivery BY <2>1, HookHead, HookOpenRow
  <2>3. hook' = [hook EXCEPT ![h].attempts = hook[h].attempts + 1, ![h].status = "suppressed"]
    BY <2>1, <2>2 DEF HookInv, HookTypes, Hook!Delivery
  <2> QED BY <2>1, <2>3, <1>4
<1>6. CASE Hook!Record
  <2> DEFINE status == Hook!Outcome(hookWorker.ok, hook[h].attempts + 1)
  <2>1. /\ hookBatch # <<>> /\ hookWorker.at = "answered"
        /\ hook' = [hook EXCEPT ![h].attempts = hook[h].attempts + 1, ![h].status = status]
        /\ UNCHANGED <<hookReceived, hookAcked, hookCrashes>>
    BY <1>6 DEF Hook!Record, Hook!historyVars, HookInv, HookQueued
  <2>2. hookWorker.ok \in BOOLEAN BY <2>1 DEF HookInv, HookTypes, HookDoing, Hook!Down
  <2>3. /\ status \in {"succeeded", "exhausted", "suppressed", "failed"}
        /\ status = "succeeded" => hookWorker.ok
    BY <2>2 DEF Hook!Outcome, Hook!GivesUp
  <2>4. hookWorker.ok => hookAcked[h] > 0 BY <2>1 DEF HookInv, HookCounted
  <2> HIDE DEF status
  <2> QED BY <2>1, <2>3, <2>4, <1>4
<1>7. CASE Hook!Post
  <2>1. PICK arrives, ok \in BOOLEAN :
            /\ ok => arrives
            /\ hookReceived' = IF arrives THEN [hookReceived EXCEPT ![h] = @ + 1] ELSE hookReceived
            /\ hookAcked' = IF ok THEN [hookAcked EXCEPT ![h] = @ + 1] ELSE hookAcked
    BY <1>7 DEF Hook!Post
  <2>2. /\ hookWorker.at = "posting" /\ hookBatch # <<>>
        /\ UNCHANGED <<hook, hookCrashes>>
    BY <1>7 DEF Hook!Post, Hook!rowVars, HookInv, HookQueued
  <2>3. CASE ~arrives
    <3>1. hookReceived' = hookReceived /\ hookAcked' = hookAcked BY <2>1, <2>3
    <3> QED BY <3>1, <2>2, HookSameRows
  <2>4. CASE arrives
    <3>1. h \in Deliveries /\ hook[h].status \in Hook!Open /\ hook[h].attempts \in 0 .. MaxAttempts - 1
      BY <2>2, HookHead, HookOpenRow
    <3>2. hookReceived[h] <= hook[h].attempts + hookCrashes + 0 /\ hookAcked[h] <= hookCrashes + 0
      <4>1. ~HookAnswered(h) BY <2>2 DEF HookAnswered
      <4> QED BY <4>1, <3>1 DEF HookInv, HookCounted
    <3>3. hookReceived[h] \in Nat /\ hookAcked[h] \in Nat /\ hookCrashes \in Nat
      BY <3>1 DEF HookInv, HookTypes
    <3>4. hookReceived[h] < MaxAttempts + hookCrashes /\ hookAcked[h] < 1 + hookCrashes
      <4>1. \A a, m, c, x \in Nat : x <= a + c /\ a < m => x < m + c OBVIOUS
      <4> QED BY <4>1, <3>1, <3>2, <3>3
    <3>5. Phases[h] = "queued" BY <3>1, HookPhases, HookSeen
    <3>6. UNCHANGED <<Phases, Interruptions>> BY <2>2, HookSeen
    <3>7. Copies' = [Copies EXCEPT ![h] = @ + 1] /\ Copies[h] < MaxAttempts + Interruptions
      BY <2>1, <2>4, <3>4, HookSeen
    <3>8. Acks' = Acks \/ (Acks[h] < 1 + Interruptions /\ Acks' = [Acks EXCEPT ![h] = @ + 1])
      BY <2>1, <3>4, HookSeen
    <3>9. Abstract!Send(h)
      BY <3>5, <3>6, <3>7, <3>8 DEF Abstract!Send, Phases, Copies, Acks, Interruptions
    <3> QED BY <3>9, <3>1 DEF Abstract!Next
  <2> QED BY <2>3, <2>4
<1>8. CASE Hook!Crash
  <2>1. UNCHANGED <<hook, hookReceived, hookAcked>> /\ hookCrashes' = hookCrashes + 1
    BY <1>8 DEF Hook!Crash, Hook!rowVars
  <2>2. UNCHANGED <<Phases, Copies, Acks>> /\ Interruptions' = Interruptions + 1 BY <2>1, HookSeen
  <2>3. Abstract!Interrupt BY <2>2 DEF Abstract!Interrupt, Phases, Copies, Acks, Interruptions
  <2> QED BY <2>3 DEF Abstract!Next
<1> QED BY <1>2, <1>3, <1>5, <1>6, <1>7, <1>8 DEF Hook!Next, Hook!Work

-----------------------------------------------------------------------------
(* E-mails: every step keeps the invariant.                                *)

LEMMA MailInitial ==
    ASSUME Mail!Init
    PROVE  MailInv
<1> USE HookConstants
<1>1. MailTypes BY DEF Mail!Init, MailTypes, MailWriting, MailDoing
<1>2. MailNumbered
  <2>1. \A d \in Deliveries : mail[d] = Mail!NoRow BY DEF Mail!Init
  <2>2. \A d \in Deliveries : mail[d] # Mail!NoRow <=> d <= 0 BY <2>1
  <2>3. 0 \in 0 .. MaxDeliveries OBVIOUS
  <2> QED BY <2>1, <2>2, <2>3 DEF MailNumbered
<1>3. MailQueued BY EmptyQueue DEF Mail!Init, MailQueued, Mail!Down
<1>4. MailCounted BY DEF Mail!Init, MailCounted, Mail!NoRow, Mail!Queued, Mail!Down
<1>5. MailWithdrawn BY DEF Mail!Init, MailWithdrawn, Mail!Down
<1> QED BY <1>1, <1>2, <1>3, <1>4, <1>5 DEF MailInv

LEMMA MailQueuedRow ==
    ASSUME MailInv, NEW d \in Deliveries, Mail!Queued(d)
    PROVE  /\ mail[d] \in Mail!Delivery
           /\ mail[d] # Mail!NoRow
           /\ mail[d].to \in Addresses
           /\ mail[d].attempts \in 0 .. MaxAttempts - 1
<1>1. mail[d] # Mail!NoRow BY DEF Mail!NoRow, Mail!Queued
<1>2. mail[d] \in Mail!Delivery BY <1>1 DEF MailInv, MailTypes
<1>3. mail[d].attempts < MaxAttempts BY DEF MailInv, MailCounted
<1> QED BY <1>1, <1>2, <1>3, HookConstants DEF Mail!Delivery

LEMMA MailHead ==
    ASSUME MailInv, mailBatch # <<>>
    PROVE  /\ Head(mailBatch) \in Deliveries
           /\ Head(mailBatch) \in Range(mailDue)
           /\ Mail!Queued(Head(mailBatch))
           /\ Tail(mailBatch) \in Queues(Deliveries)
           /\ Range(Tail(mailBatch)) = Range(mailBatch) \ {Head(mailBatch)}
BY HeadTakenOff DEF MailInv, MailQueued

LEMMA MailQuiet ==
    ASSUME MailInv, mailTxn' \in [Requests -> MailWriting],
           UNCHANGED <<mail, mailDue, suppressed, mailWorker, mailBatch,
                       mailReceived, mailAcked, mailLate, mailCrashes, refusals>>
    PROVE  MailInv'
<1>1. MailTypes' BY DEF MailInv, MailTypes
<1>2. MailNumbered' BY DEF MailInv, MailNumbered
<1>3. MailQueued' BY DEF MailInv, MailQueued, Mail!Queued
<1>4. MailCounted' BY DEF MailInv, MailCounted, MailAnswered, Mail!Queued
<1>5. MailWithdrawn' BY DEF MailInv, MailWithdrawn
<1> QED BY <1>1, <1>2, <1>3, <1>4, <1>5 DEF MailInv

MailFresh(a, passes) ==
    [status |-> IF passes THEN "pending" ELSE "suppressed", to |-> a,
     attempts |-> 0, scheduled |-> passes, failedAt |-> FALSE]

\* The row of a message is written behind the n that exist.
MailAppends(n, a, passes) ==
    /\ n + 1 \in Deliveries
    /\ \A d \in Deliveries : mail[d] # Mail!NoRow <=> d <= n
    /\ mail' = [mail EXCEPT ![n + 1] = MailFresh(a, passes)]
    /\ mailDue' = IF passes THEN Append(mailDue, n + 1) ELSE mailDue
    /\ UNCHANGED <<suppressed, mailWorker, mailBatch, mailReceived, mailAcked, mailLate,
                   mailCrashes, refusals>>

LEMMA MailNotified ==
    ASSUME MailInv, NEW r \in Requests, Mail!CommitNotify(r)
    PROVE  /\ \E n \in 0 .. MaxDeliveries, a \in Addresses, passes \in BOOLEAN :
                  MailAppends(n, a, passes)
           /\ mailTxn' \in [Requests -> MailWriting]
<1> USE HookConstants
<1>1. PICK n \in 0 .. MaxDeliveries : \A d \in Deliveries : mail[d] # Mail!NoRow <=> d <= n
  BY DEF MailInv, MailNumbered
<1>2. Mail!Written = n
  <2>1. {d \in Deliveries : mail[d] # Mail!NoRow} = 1 .. n BY <1>1
  <2>2. Mail!Written = Cardinality({d \in Deliveries : mail[d] # Mail!NoRow})
    BY SameCounts DEF Mail!Written
  <2>3. Cardinality(1 .. n) = n BY FirstOnes
  <2> QED BY <2>1, <2>2, <2>3
<1>3. n + 1 \in Deliveries BY <1>2 DEF Mail!CommitNotify
<1>4. mailTxn[r].to \in Addresses /\ mailTxn[r].passes \in BOOLEAN
  <2>1. mailTxn[r].op = "notify" BY DEF Mail!CommitNotify
  <2>2. mailTxn[r] \in MailWriting BY DEF MailInv, MailTypes
  <2> QED BY <2>1, <2>2 DEF MailWriting, Mail!Idle
<1>5. MailAppends(n, mailTxn[r].to, mailTxn[r].passes)
  BY <1>1, <1>2, <1>3 DEF Mail!CommitNotify, MailAppends, MailFresh, Mail!workerVars, Mail!historyVars
<1>6. mailTxn' \in [Requests -> MailWriting]
  BY DEF Mail!CommitNotify, MailInv, MailTypes, MailWriting
<1> QED BY <1>4, <1>5, <1>6

LEMMA MailNotifyKept ==
    ASSUME MailInv, NEW r \in Requests, Mail!CommitNotify(r)
    PROVE  MailInv'
<1> USE HookConstants
<1>1. PICK n \in 0 .. MaxDeliveries, a \in Addresses, passes \in BOOLEAN : MailAppends(n, a, passes)
  BY MailNotified
<1> DEFINE m == n + 1
           row == MailFresh(a, passes)
<1>2. m \in Deliveries /\ mail[m] = Mail!NoRow BY <1>1 DEF MailAppends
<1>3. row \in Mail!Delivery /\ Mail!Checks(row) /\ row # Mail!NoRow /\ row.attempts = 0
  <2>1. row.status \in {"pending", "suppressed"} BY DEF MailFresh
  <2>2. row \in Mail!Delivery /\ row.attempts = 0 BY <1>1 DEF MailFresh, Mail!Delivery
  <2>3. ~row.failedAt BY DEF MailFresh
  <2> QED BY <2>1, <2>2, <2>3 DEF Mail!Checks, Mail!NoRow
<1>4. row.scheduled = passes /\ (passes => row.status = "pending") BY DEF MailFresh
<1>5. /\ mail' = [mail EXCEPT ![m] = row]
      /\ mailDue' = IF passes THEN Append(mailDue, m) ELSE mailDue
      /\ UNCHANGED <<suppressed, mailWorker, mailBatch, mailReceived, mailAcked, mailLate,
                     mailCrashes, refusals>>
  BY <1>1 DEF MailAppends
<1> HIDE DEF row, m
<1>6. /\ mail'[m] = row
      /\ \A d \in Deliveries \ {m} : mail'[d] = mail[d]
      /\ mail' \in [Deliveries -> Mail!Delivery \cup {Mail!NoRow}]
  BY <1>2, <1>3, <1>5 DEF MailInv, MailTypes
<1>7. \A d \in Deliveries : Mail!Queued(d) => d # m BY <1>2 DEF Mail!Queued, Mail!NoRow
<1>8. MailTypes' BY <1>5, <1>6, MailNotified DEF MailInv, MailTypes
<1>9. MailNumbered'
  <2>1. \A d \in Deliveries : mail'[d] # Mail!NoRow <=> d <= m
    <3>1. \A d \in Deliveries : mail[d] # Mail!NoRow <=> d <= n BY <1>1 DEF MailAppends
    <3> QED BY <3>1, <1>2, <1>3, <1>6 DEF m
  <2>2. \A d \in Deliveries : mail'[d] # Mail!NoRow => Mail!Checks(mail'[d])
    BY <1>3, <1>6 DEF MailInv, MailNumbered
  <2>3. m \in 0 .. MaxDeliveries BY <1>2
  <2> QED BY <2>1, <2>2, <2>3 DEF MailNumbered
<1>10. MailQueued'
  <2>1. \A d \in Range(mailDue) : d \in Deliveries /\ Mail!Queued(d)
    BY RangeOfSeq DEF MailInv, MailQueued, Queues
  <2>2. \A d \in Range(mailDue) : Mail!Queued(d)' BY <2>1, <1>6, <1>7 DEF Mail!Queued
  <2>3. passes => Mail!Queued(m)' BY <1>4, <1>6 DEF Mail!Queued
  <2>4. CASE passes
    <3>1. mailDue' \in Queues(Deliveries) /\ Range(mailDue') = Range(mailDue) \cup {m}
      <4>1. m \notin Range(mailDue) BY <2>1, <1>7
      <4> QED BY <4>1, <2>4, <1>2, <1>5, PutLast DEF MailInv, MailQueued
    <3>2. \A d \in Range(mailDue') : Mail!Queued(d)' BY <3>1, <2>2, <2>3, <2>4
    <3> QED BY <3>1, <3>2, <1>5 DEF MailInv, MailQueued
  <2>5. CASE ~passes
    <3>1. mailDue' = mailDue BY <2>5, <1>5
    <3> QED BY <3>1, <2>2, <1>5 DEF MailInv, MailQueued
  <2> QED BY <2>4, <2>5
<1>11. MailCounted'
  <2>1. ASSUME NEW d \in Deliveries, mail'[d] = Mail!NoRow
        PROVE  mailReceived'[d] = 0 /\ mailAcked'[d] = 0
    <3>1. mail[d] = Mail!NoRow BY <2>1, <1>2, <1>6
    <3> QED BY <3>1, <1>5 DEF MailInv, MailCounted
  <2>2. ASSUME NEW d \in Deliveries, Mail!Queued(d)'
        PROVE  /\ mail'[d].attempts < MaxAttempts
               /\ mailReceived'[d] <= mail'[d].attempts + mailCrashes' + refusals'
                                          + (IF MailAnswered(d)' THEN 1 ELSE 0)
               /\ mailAcked'[d] <= mailCrashes' + refusals'
                                       + (IF MailAnswered(d)' /\ mailWorker'.answer = "accepted"
                                          THEN 1 ELSE 0)
    <3>1. CASE d = m
      <4>1. mail'[d].attempts = 0 BY <3>1, <1>3, <1>6
      <4>2. mailReceived'[d] = 0 /\ mailAcked'[d] = 0
        BY <3>1, <1>2, <1>5 DEF MailInv, MailCounted
      <4>3. mailCrashes' \in Nat /\ refusals' \in Nat BY <1>8 DEF MailTypes
      <4>4. /\ (IF MailAnswered(d)' THEN 1 ELSE 0) \in 0 .. 1
            /\ (IF MailAnswered(d)' /\ mailWorker'.answer = "accepted" THEN 1 ELSE 0) \in 0 .. 1
        OBVIOUS
      <4>5. \A c, k \in Nat, e \in 0 .. 1 : 0 <= 0 + c + k + e /\ 0 <= c + k + e OBVIOUS
      <4>6. 0 < MaxAttempts OBVIOUS
      <4>7. mailReceived'[d] <= mail'[d].attempts + mailCrashes' + refusals'
                                    + (IF MailAnswered(d)' THEN 1 ELSE 0)
        BY <4>1, <4>2, <4>3, <4>4, <4>5
      <4>8. mailAcked'[d] <= mailCrashes' + refusals'
                                 + (IF MailAnswered(d)' /\ mailWorker'.answer = "accepted"
                                    THEN 1 ELSE 0)
        BY <4>2, <4>3, <4>4, <4>5
      <4> QED BY <4>1, <4>6, <4>7, <4>8
    <3>2. CASE d # m
      <4>1. mail'[d] = mail[d] /\ Mail!Queued(d) BY <3>2, <2>2, <1>6 DEF Mail!Queued
      <4> QED BY <4>1, <1>5 DEF MailInv, MailCounted, MailAnswered
    <3> QED BY <3>1, <3>2
  <2>3. MailCounted!3' BY <1>5 DEF MailInv, MailCounted
  <2> QED BY <2>1, <2>2, <2>3 DEF MailCounted
<1>12. MailWithdrawn'
  <2>1. ASSUME mailBatch # <<>> PROVE mail'[Head(mailBatch)] = mail[Head(mailBatch)]
    BY <2>1, <1>6, <1>7, MailHead
  <2> QED BY <2>1, <1>5 DEF MailInv, MailQueued, MailWithdrawn
<1> QED BY <1>8, <1>9, <1>10, <1>11, <1>12 DEF MailInv

LEMMA MailListed ==
    ASSUME MailInv, NEW a \in Addresses, Mail!Report(a) \/ Mail!Unsuppress(a)
    PROVE  MailInv'
<1>1. UNCHANGED <<mail, mailDue, mailTxn, mailWorker, mailBatch, mailReceived, mailAcked,
                  mailCrashes, refusals>>
  BY DEF Mail!Report, Mail!Unsuppress, Mail!workerVars, Mail!historyVars
<1>2. MailTypes' BY <1>1 DEF MailInv, MailTypes, Mail!Report, Mail!Unsuppress, Mail!historyVars
<1>3. MailNumbered' BY <1>1 DEF MailInv, MailNumbered
<1>4. MailQueued' BY <1>1 DEF MailInv, MailQueued, Mail!Queued
<1>5. MailCounted' BY <1>1 DEF MailInv, MailCounted, MailAnswered, Mail!Queued
<1>6. MailWithdrawn'
  <2>1. CASE Mail!Report(a)
    BY <2>1, <1>1 DEF Mail!Report, Mail!historyVars, MailInv, MailWithdrawn
  <2>2. CASE Mail!Unsuppress(a)
    <3>1. mailLate' = [mailLate EXCEPT ![a] = 0] /\ suppressed' = suppressed \ {a}
      BY <2>2 DEF Mail!Unsuppress
    <3>2. \A b \in Addresses : mailLate'[b] = IF b = a THEN 0 ELSE mailLate[b]
      BY <3>1 DEF MailInv, MailTypes
    <3>3. mailWorker.at = "posting" => mail[Head(mailBatch)].to \in Addresses
      BY MailHead, MailQueuedRow DEF MailInv, MailQueued
    <3> QED BY <3>1, <3>2, <3>3, <1>1 DEF MailInv, MailWithdrawn
  <2> QED BY <2>1, <2>2
<1> QED BY <1>2, <1>3, <1>4, <1>5, <1>6 DEF MailInv

LEMMA MailWorks ==
    ASSUME MailInv, Mail!Start \/ Mail!Claim \/ Mail!Attempt
    PROVE  MailInv'
<1> USE HookConstants
<1>1. /\ UNCHANGED <<mail, mailDue, suppressed, mailTxn, mailReceived, mailAcked, mailLate,
                     mailCrashes, refusals>>
      /\ mailWorker.at # "answered" /\ mailWorker'.at # "answered"
      /\ mailWorker' \in MailDoing
  <2> USE DEF Mail!rowVars, Mail!historyVars, MailInv, MailTypes, MailDoing
  <2>1. CASE Mail!Start BY <2>1 DEF Mail!Start, Mail!Down, Mail!Ready
  <2>2. CASE Mail!Claim BY <2>2 DEF Mail!Claim
  <2>3. CASE Mail!Attempt BY <2>3 DEF Mail!Attempt, Mail!Down
  <2> QED BY <2>1, <2>2, <2>3
<1>2. MailTypes' BY <1>1 DEF MailInv, MailTypes
<1>3. MailNumbered' BY <1>1 DEF MailInv, MailNumbered
<1>4. MailQueued'
  <2>1. CASE Mail!Start
    BY <2>1, <1>1 DEF Mail!Start, Mail!Ready, MailInv, MailQueued, Mail!Queued
  <2>2. CASE Mail!Claim
    <3> DEFINE n == IF Len(mailDue) < BatchSize THEN Len(mailDue) ELSE BatchSize
    <3>1. mailDue \in Queues(Deliveries) BY DEF MailInv, MailQueued
    <3>2. n \in 0 .. Len(mailDue) BY <3>1, LenProperties DEF Queues
    <3>3. mailBatch' = SubSeq(mailDue, 1, n) /\ UNCHANGED mailWorker
      BY <2>2 DEF Mail!Claim, Mail!Oldest
    <3> HIDE DEF n
    <3>4. mailBatch' \in Queues(Deliveries) /\ Range(mailBatch') \subseteq Range(mailDue)
      BY <3>1, <3>2, <3>3, FrontOfQueue
    <3>5. mailWorker'.at \notin {"posting", "answered"} BY <2>2, <3>3 DEF Mail!Claim
    <3> QED BY <3>4, <3>5, <1>1 DEF MailInv, MailQueued, Mail!Queued
  <2>3. CASE Mail!Attempt
    BY <2>3, <1>1 DEF Mail!Attempt, MailInv, MailQueued, Mail!Queued
  <2> QED BY <2>1, <2>2, <2>3
<1>5. MailCounted' BY <1>1 DEF MailInv, MailCounted, MailAnswered, Mail!Queued
<1>6. MailWithdrawn'
  <2>1. CASE Mail!Start \/ Mail!Claim
    BY <2>1, <1>1 DEF Mail!Start, Mail!Claim, Mail!Ready, MailInv, MailWithdrawn
  <2>2. CASE Mail!Attempt
    <3>1. mail[Head(mailBatch)].to \notin suppressed /\ UNCHANGED mailBatch
      BY <2>2 DEF Mail!Attempt, Mail!MayMail
    <3>2. mail[Head(mailBatch)].to \in Addresses
      BY <2>2, MailHead, MailQueuedRow DEF Mail!Attempt
    <3> QED BY <3>1, <3>2, <1>1 DEF MailInv, MailWithdrawn
  <2> QED BY <2>1, <2>2
<1> QED BY <1>2, <1>3, <1>4, <1>5, <1>6 DEF MailInv

\* The worker is killed, or the table ends it.
LEMMA MailInterrupted ==
    ASSUME MailInv, mailWorker' = Mail!Down, mailBatch' = <<>>,
           mailCrashes' \in Nat, refusals' \in Nat,
           mailCrashes' + refusals' = mailCrashes + refusals + 1,
           UNCHANGED <<mail, mailDue, suppressed, mailTxn, mailReceived, mailAcked, mailLate>>
    PROVE  MailInv'
<1> USE HookConstants
<1>1. MailTypes' BY DEF MailInv, MailTypes, MailDoing
<1>2. MailNumbered' BY DEF MailInv, MailNumbered
<1>3. MailQueued' BY EmptyQueue DEF MailInv, MailQueued, Mail!Queued, Mail!Down
<1>4. MailCounted'
  <2>1. \A d \in Deliveries : ~MailAnswered(d)' BY DEF MailAnswered, Mail!Down
  <2>2. ASSUME NEW d \in Deliveries, Mail!Queued(d)
        PROVE  /\ mail[d].attempts < MaxAttempts
               /\ mailReceived[d] <= mail[d].attempts + mailCrashes' + refusals' + 0
               /\ mailAcked[d] <= mailCrashes' + refusals' + 0
    <3>1. /\ mailReceived[d] \in Nat /\ mailAcked[d] \in Nat
          /\ mailCrashes \in Nat /\ refusals \in Nat
      BY DEF MailInv, MailTypes
    <3>2. mail[d].attempts \in Nat BY <2>2, MailQueuedRow
    <3>3. /\ mail[d].attempts < MaxAttempts
          /\ mailReceived[d] <= mail[d].attempts + mailCrashes + refusals + 1
          /\ mailAcked[d] <= mailCrashes + refusals + 1
      <4>1. /\ mail[d].attempts < MaxAttempts
            /\ mailReceived[d] <= mail[d].attempts + mailCrashes + refusals
                                      + (IF MailAnswered(d) THEN 1 ELSE 0)
            /\ mailAcked[d] <= mailCrashes + refusals
                + (IF MailAnswered(d) /\ mailWorker.answer = "accepted" THEN 1 ELSE 0)
        BY <2>2 DEF MailInv, MailCounted
      <4>2. /\ (IF MailAnswered(d) THEN 1 ELSE 0) \in 0 .. 1
            /\ (IF MailAnswered(d) /\ mailWorker.answer = "accepted" THEN 1 ELSE 0) \in 0 .. 1
        OBVIOUS
      <4>3. \A p, c, r, x \in Nat, e \in 0 .. 1 : x <= p + c + r + e => x <= p + c + r + 1 OBVIOUS
      <4>4. \A c, r, x \in Nat, e \in 0 .. 1 : x <= c + r + e => x <= c + r + 1 OBVIOUS
      <4>5. mailReceived[d] <= mail[d].attempts + mailCrashes + refusals + 1
        BY <4>1, <4>2, <4>3, <3>1, <3>2
      <4>6. mailAcked[d] <= mailCrashes + refusals + 1 BY <4>1, <4>2, <4>4, <3>1
      <4> QED BY <4>1, <4>5, <4>6
    <3>4. \A p, c, r, b, s, x \in Nat :
              b + s = c + r + 1 => (x <= p + c + r + 1 => x <= p + b + s + 0)
      OBVIOUS
    <3>5. \A c, r, b, s, x \in Nat :
              b + s = c + r + 1 => (x <= c + r + 1 => x <= b + s + 0)
      OBVIOUS
    <3> QED BY <3>1, <3>2, <3>3, <3>4, <3>5
  <2>3. MailCounted!1' BY DEF MailInv, MailCounted
  <2>4. MailCounted!2' BY <2>1, <2>2 DEF Mail!Queued
  <2>5. MailCounted!3' BY DEF Mail!Down
  <2> QED BY <2>3, <2>4, <2>5 DEF MailCounted
<1>5. MailWithdrawn' BY DEF MailInv, MailWithdrawn, Mail!Down
<1> QED BY <1>1, <1>2, <1>3, <1>4, <1>5 DEF MailInv

LEMMA MailBacksOff ==
    ASSUME MailInv, NEW d \in Deliveries, Mail!BecomeDue(d)
    PROVE  MailInv'
<1> USE HookConstants
<1>1. /\ mailDue' = Append(mailDue, d) /\ d \notin Range(mailDue)
      /\ Mail!Queued(d)
      /\ UNCHANGED <<mail, suppressed, mailTxn, mailWorker, mailBatch, mailReceived, mailAcked,
                     mailLate, mailCrashes, refusals>>
  BY DEF Mail!BecomeDue, Mail!Queued, Mail!workerVars, Mail!historyVars, Range
<1>2. mailDue' \in Queues(Deliveries) /\ Range(mailDue') = Range(mailDue) \cup {d}
  BY <1>1, PutLast DEF MailInv, MailQueued
<1>3. MailTypes' BY <1>1 DEF MailInv, MailTypes
<1>4. MailNumbered' BY <1>1 DEF MailInv, MailNumbered
<1>5. MailQueued' BY <1>1, <1>2 DEF MailInv, MailQueued, Mail!Queued
<1>6. MailCounted' BY <1>1 DEF MailInv, MailCounted, MailAnswered, Mail!Queued
<1>7. MailWithdrawn' BY <1>1 DEF MailInv, MailWithdrawn
<1> QED BY <1>3, <1>4, <1>5, <1>6, <1>7 DEF MailInv

\* What send_one may write to the row it is at: closed or failed for good, or
\* failed with its attempt counted and another one due.
MailClosing(old, new) ==
    /\ new \in Mail!Delivery
    /\ new.status \in {"sent", "failed", "suppressed"}
    /\ new.status = "failed" /\ new.scheduled =>
           new.attempts = old.attempts + 1 /\ new.attempts < MaxAttempts

LEMMA MailSuppressedRow ==
    ASSUME NEW row \in Mail!Delivery
    PROVE  LET new == [row EXCEPT !.status = "suppressed", !.scheduled = FALSE] IN
           MailClosing(row, new) /\ new.status = "suppressed"
BY DEF MailClosing, Mail!Delivery

LEMMA MailOutcomes ==
    ASSUME NEW row \in Mail!Delivery, row.attempts \in 0 .. MaxAttempts - 1,
           NEW answer \in {"accepted", "rejected", "later"}
    PROVE  LET new == Mail!Outcome(row, answer) IN
           /\ MailClosing(row, new)
           /\ new.status = "sent" <=> answer = "accepted"
           /\ new.status = "failed" <=> answer # "accepted"
           /\ new.scheduled => new.status = "failed"
<1> USE HookConstants
<1> DEFINE counted == [row EXCEPT !.attempts = @ + 1]
           failed == [counted EXCEPT !.status = "failed", !.failedAt = TRUE]
           again == Mail!TriesAgain(failed.attempts)
<1>1. row.attempts + 1 \in 0 .. MaxAttempts OBVIOUS
<1>2. counted \in Mail!Delivery /\ counted.attempts = row.attempts + 1
  BY <1>1 DEF Mail!Delivery
<1> HIDE DEF counted
<1>3. failed \in Mail!Delivery /\ failed.attempts = row.attempts + 1 /\ failed.status = "failed"
  BY <1>2 DEF Mail!Delivery
<1> HIDE DEF failed
<1>4. again \in BOOLEAN /\ (again => failed.attempts < MaxAttempts)
  BY <1>3, <1>1 DEF Mail!TriesAgain
<1> HIDE DEF again
<1>5. CASE answer = "accepted"
  <2> DEFINE new == [counted EXCEPT !.status = "sent", !.scheduled = FALSE]
  <2>1. new \in Mail!Delivery /\ new.status = "sent" /\ ~new.scheduled BY <1>2 DEF Mail!Delivery
  <2>2. Mail!Outcome(row, answer) = new BY <1>5 DEF Mail!Outcome, counted
  <2> HIDE DEF new
  <2> QED BY <2>1, <2>2, <1>5 DEF MailClosing
<1>6. CASE answer = "rejected"
  <2> DEFINE new == [failed EXCEPT !.scheduled = FALSE]
  <2>1. new \in Mail!Delivery /\ new.status = "failed" /\ ~new.scheduled BY <1>3 DEF Mail!Delivery
  <2>2. Mail!Outcome(row, answer) = new BY <1>6 DEF Mail!Outcome, counted, failed
  <2> HIDE DEF new
  <2> QED BY <2>1, <2>2, <1>6 DEF MailClosing
<1>7. CASE answer = "later"
  <2> DEFINE new == [failed EXCEPT !.scheduled = again]
  <2>1. new \in Mail!Delivery /\ new.status = "failed" /\ new.attempts = row.attempts + 1
    BY <1>3, <1>4 DEF Mail!Delivery
  <2>2. new.scheduled = again BY <1>3 DEF Mail!Delivery
  <2>3. Mail!Outcome(row, answer) = new BY <1>7 DEF Mail!Outcome, counted, failed, again
  <2> HIDE DEF new
  <2> QED BY <2>1, <2>2, <2>3, <1>3, <1>4, <1>7 DEF MailClosing
<1> QED BY <1>5, <1>6, <1>7

\* The branch of Write in which the table takes the row.
MailTaken(row) ==
    LET h == Head(mailBatch) IN
    /\ Mail!Checks(row)
    /\ mail' = [mail EXCEPT ![h] = row]
    /\ \E i \in DOMAIN mailDue : mailDue[i] = h /\ mailDue' = Mail!Without(i)
    /\ mailWorker' = Mail!Ready(mailWorker.available)
    /\ mailBatch' = Tail(mailBatch)
    /\ UNCHANGED <<suppressed, mailTxn, mailReceived, mailAcked, mailLate, mailCrashes, refusals>>

\* The branch in which it refuses it.
MailRefused ==
    /\ UNCHANGED <<mail, mailDue, suppressed, mailTxn, mailReceived, mailAcked, mailLate, mailCrashes>>
    /\ mailWorker' = Mail!Down
    /\ mailBatch' = <<>>
    /\ refusals' = refusals + 1

\* Suppress and Record are one of these.
LEMMA MailWrites ==
    ASSUME MailInv, Mail!Suppress \/ Mail!Record
    PROVE  /\ mailBatch # <<>>
           /\ mailWorker.at \in {"ready", "answered"}
           /\ \/ MailRefused
              \/ \E row : /\ MailTaken(row)
                          /\ MailClosing(mail[Head(mailBatch)], row)
                          /\ row.status = "sent" =>
                                 mailWorker.at = "answered" /\ mailWorker.answer = "accepted"
                          /\ row.status = "failed" =>
                                 mailWorker.at = "answered" /\ mailWorker.answer # "accepted"
                          /\ row.status = "failed" \/ ~row.scheduled
<1> USE HookConstants
<1> DEFINE h == Head(mailBatch)
<1>1. mailBatch # <<>> /\ mailWorker.at \in {"ready", "answered"}
  BY DEF Mail!Suppress, Mail!Record, MailInv, MailQueued
<1>2. h \in Deliveries /\ mail[h] \in Mail!Delivery /\ mail[h].attempts \in 0 .. MaxAttempts - 1
  BY <1>1, MailHead, MailQueuedRow
<1>3. CASE Mail!Suppress
  <2> DEFINE row == [mail[h] EXCEPT !.status = "suppressed", !.scheduled = FALSE]
  <2>1. MailClosing(mail[h], row) /\ row.status = "suppressed" /\ ~row.scheduled
    <3>1. ~row.scheduled BY <1>2 DEF Mail!Delivery
    <3> QED BY <3>1, <1>2, MailSuppressedRow
  <2>2. Mail!Write(row) /\ UNCHANGED <<suppressed, mailTxn, mailReceived, mailAcked, mailLate, mailCrashes>>
    BY <1>3 DEF Mail!Suppress
  <2> HIDE DEF row
  <2>3. MailTaken(row) \/ MailRefused BY <2>2 DEF Mail!Write, MailTaken, MailRefused
  <2> QED BY <1>1, <2>1, <2>3
<1>4. CASE Mail!Record
  <2> DEFINE row == Mail!Outcome(mail[h], mailWorker.answer)
  <2>1. mailWorker.at = "answered" BY <1>4 DEF Mail!Record
  <2>2. mailWorker.answer \in {"accepted", "rejected", "later"}
    BY <2>1 DEF MailInv, MailTypes, MailDoing, Mail!Down
  <2>3. /\ MailClosing(mail[h], row)
        /\ row.status = "sent" <=> mailWorker.answer = "accepted"
        /\ row.status = "failed" <=> mailWorker.answer # "accepted"
        /\ row.scheduled => row.status = "failed"
    BY <1>2, <2>2, MailOutcomes
  <2>4. Mail!Write(row) /\ UNCHANGED <<suppressed, mailTxn, mailReceived, mailAcked, mailLate, mailCrashes>>
    BY <1>4 DEF Mail!Record
  <2> HIDE DEF row
  <2>5. MailTaken(row) \/ MailRefused BY <2>4 DEF Mail!Write, MailTaken, MailRefused
  <2> QED BY <1>1, <2>1, <2>3, <2>5
<1> QED BY <1>3, <1>4

LEMMA MailWritesKept ==
    ASSUME MailInv, Mail!Suppress \/ Mail!Record
    PROVE  MailInv'
<1> USE HookConstants
<1> DEFINE h == Head(mailBatch)
<1>1. /\ mailBatch # <<>> /\ mailWorker.at \in {"ready", "answered"}
      /\ h \in Deliveries /\ h \in Range(mailDue) /\ Mail!Queued(h)
      /\ mail[h] # Mail!NoRow /\ mail[h].attempts \in 0 .. MaxAttempts - 1
  BY MailWrites, MailHead, MailQueuedRow
<1>2. CASE MailRefused
  <2>1. mailCrashes \in Nat /\ refusals \in Nat BY DEF MailInv, MailTypes
  <2>2. /\ mailWorker' = Mail!Down /\ mailBatch' = <<>> /\ mailCrashes' = mailCrashes
        /\ refusals' = refusals + 1
        /\ UNCHANGED <<mail, mailDue, suppressed, mailTxn, mailReceived, mailAcked, mailLate>>
    BY <1>2 DEF MailRefused
  <2>3. mailCrashes' \in Nat /\ refusals' \in Nat
        /\ mailCrashes' + refusals' = mailCrashes + refusals + 1
    BY <2>1, <2>2
  <2> QED BY <2>2, <2>3, MailInterrupted
<1>3. ASSUME NEW row, MailTaken(row), MailClosing(mail[h], row),
             row.status = "failed" => mailWorker.at = "answered" /\ mailWorker.answer # "accepted",
             row.status = "failed" \/ ~row.scheduled
      PROVE  MailInv'
  <2>1. /\ Mail!Checks(row) /\ mail' = [mail EXCEPT ![h] = row]
        /\ mailWorker' = Mail!Ready(mailWorker.available)
        /\ mailBatch' = Tail(mailBatch)
        /\ UNCHANGED <<suppressed, mailTxn, mailReceived, mailAcked, mailLate, mailCrashes, refusals>>
    BY <1>3 DEF MailTaken
  <2>2. row \in Mail!Delivery /\ row # Mail!NoRow
    BY <1>3 DEF MailClosing, Mail!NoRow
  <2>3. mailDue' \in Queues(Deliveries) /\ Range(mailDue') = Range(mailDue) \ {h}
    <3>1. PICK i \in DOMAIN mailDue : mailDue[i] = h /\ mailDue' = Mail!Without(i)
      BY <1>3 DEF MailTaken
    <3>2. mailDue \in Queues(Deliveries) BY DEF MailInv, MailQueued
    <3> QED BY <3>1, <3>2, OneTakenOut DEF Mail!Without
  <2>4. mailBatch' \in Queues(Deliveries) /\ Range(mailBatch') = Range(mailBatch) \ {h}
    BY <2>1, <1>1, MailHead
  <2>5. mailWorker' \in MailDoing /\ mailWorker'.at = "ready"
    <3>1. mailWorker.available \in BOOLEAN
      BY <1>1 DEF MailInv, MailTypes, MailDoing, Mail!Down
    <3> QED BY <3>1, <2>1 DEF MailDoing, Mail!Ready
  <2> HIDE DEF h
  <2>6. /\ mail'[h] = row
        /\ \A d \in Deliveries \ {h} : mail'[d] = mail[d]
        /\ mail' \in [Deliveries -> Mail!Delivery \cup {Mail!NoRow}]
    BY <2>1, <2>2, <1>1 DEF MailInv, MailTypes
  <2>7. MailTypes' BY <2>1, <2>5, <2>6 DEF MailInv, MailTypes
  <2>8. MailNumbered'
    <3>1. \A d \in Deliveries : mail'[d] # Mail!NoRow <=> mail[d] # Mail!NoRow
      BY <1>1, <2>2, <2>6
    <3>2. \A d \in Deliveries : mail'[d] # Mail!NoRow => Mail!Checks(mail'[d])
      BY <2>1, <2>6 DEF MailInv, MailNumbered
    <3> QED BY <3>1, <3>2 DEF MailInv, MailNumbered
  <2>9. MailQueued'
    <3>1. \A d \in Range(mailDue) : d \in Deliveries /\ Mail!Queued(d)
      BY RangeOfSeq DEF MailInv, MailQueued, Queues
    <3>2. \A d \in Range(mailDue') : Mail!Queued(d)'
      BY <3>1, <2>3, <2>6 DEF Mail!Queued
    <3>3. Range(mailBatch') \subseteq Range(mailDue') BY <2>3, <2>4 DEF MailInv, MailQueued
    <3> QED BY <3>2, <3>3, <2>3, <2>4, <2>5 DEF MailQueued
  <2>10. MailCounted'
    <3>1. ASSUME NEW d \in Deliveries, mail'[d] = Mail!NoRow
          PROVE  mailReceived'[d] = 0 /\ mailAcked'[d] = 0
      <4>1. mail[d] = Mail!NoRow BY <3>1, <2>2, <2>6
      <4> QED BY <4>1, <2>1 DEF MailInv, MailCounted
    <3>2. \A d \in Deliveries : ~MailAnswered(d)' BY <2>5 DEF MailAnswered
    <3>3. ASSUME NEW d \in Deliveries, Mail!Queued(d)'
          PROVE  /\ mail'[d].attempts < MaxAttempts
                 /\ mailReceived'[d] <= mail'[d].attempts + mailCrashes' + refusals' + 0
                 /\ mailAcked'[d] <= mailCrashes' + refusals' + 0
      <4>1. /\ mailReceived[d] \in Nat /\ mailAcked[d] \in Nat
            /\ mailCrashes \in Nat /\ refusals \in Nat
        BY DEF MailInv, MailTypes
      <4>2. CASE d = h
        <5>1. /\ row.status \in {"pending", "failed"} /\ row.scheduled
          BY <4>2, <3>3, <2>6 DEF Mail!Queued
        <5>2. /\ row.status = "failed"
              /\ row.attempts = mail[h].attempts + 1 /\ row.attempts < MaxAttempts
          BY <5>1, <1>3 DEF MailClosing
        <5>3. mailWorker.at = "answered" /\ mailWorker.answer # "accepted" BY <5>2, <1>3
        <5>4. /\ mailReceived[h] <= mail[h].attempts + mailCrashes + refusals + 1
              /\ mailAcked[h] <= mailCrashes + refusals + 0
          BY <5>3, <1>1 DEF MailInv, MailCounted, MailAnswered, h
        <5>5. \A p, c, r, x \in Nat : x <= p + c + r + 1 => x <= (p + 1) + c + r + 0 OBVIOUS
        <5>6. mailReceived[h] <= (mail[h].attempts + 1) + mailCrashes + refusals + 0
          BY <5>4, <5>5, <4>1, <4>2, <1>1
        <5> QED BY <5>2, <5>4, <5>6, <4>2, <2>1, <2>6
      <4>3. CASE d # h
        <5>1. mail'[d] = mail[d] BY <4>3, <2>6
        <5>2. ~MailAnswered(d) /\ Mail!Queued(d)
          BY <4>3, <3>3, <5>1 DEF MailAnswered, Mail!Queued, h
        <5> QED BY <5>1, <5>2, <2>1 DEF MailInv, MailCounted
      <4> QED BY <4>2, <4>3
    <3> QED BY <3>1, <3>2, <3>3, <2>5 DEF MailCounted
  <2>11. MailWithdrawn' BY <2>1, <2>5 DEF MailInv, MailWithdrawn
  <2> QED BY <2>7, <2>8, <2>9, <2>10, <2>11 DEF MailInv
<1> QED BY <1>2, <1>3, MailWrites

LEMMA MailPosts ==
    ASSUME MailInv, Mail!Post
    PROVE  MailInv'
<1> USE HookConstants
<1> DEFINE h == Head(mailBatch)
           a == mail[h].to
<1>1. PICK answer \in {"accepted", "rejected", "later"}, taken \in BOOLEAN :
          /\ answer = "accepted" => taken
          /\ mailWorker' = [at |-> "answered", available |-> mailWorker.available, answer |-> answer]
          /\ mailReceived' = IF taken THEN [mailReceived EXCEPT ![h] = @ + 1] ELSE mailReceived
          /\ mailAcked' = IF answer = "accepted" THEN [mailAcked EXCEPT ![h] = @ + 1] ELSE mailAcked
          /\ mailLate' = IF taken /\ a \in suppressed THEN [mailLate EXCEPT ![a] = @ + 1] ELSE mailLate
  BY DEF Mail!Post
<1>2. /\ mailWorker.at = "posting" /\ mailBatch # <<>>
      /\ UNCHANGED <<mail, mailDue, suppressed, mailTxn, mailBatch, mailCrashes, refusals>>
  BY DEF Mail!Post, Mail!rowVars, MailInv, MailQueued
<1>3. h \in Deliveries /\ Mail!Queued(h) BY <1>2, MailHead
<1>4. a \in Addresses /\ mail[h] # Mail!NoRow /\ mail[h].attempts \in 0 .. MaxAttempts - 1
  BY <1>3, MailQueuedRow
<1>5. mailWorker' \in MailDoing /\ mailWorker'.at = "answered" /\ mailWorker'.answer = answer
  <2>1. mailWorker.available \in BOOLEAN BY <1>2 DEF MailInv, MailTypes, MailDoing, Mail!Down
  <2>2. [at |-> "answered", available |-> mailWorker.available, answer |-> answer] \in MailDoing
    BY <2>1 DEF MailDoing
  <2> QED BY <2>2, <1>1
<1>6. /\ mailReceived \in [Deliveries -> Nat] /\ mailAcked \in [Deliveries -> Nat]
      /\ mailLate \in [Addresses -> Nat] /\ mailCrashes \in Nat /\ refusals \in Nat
  BY DEF MailInv, MailTypes
<1> HIDE DEF h, a
<1>7. MailTypes'
  <2>1. mailReceived' \in [Deliveries -> Nat]
    <3>1. CASE mailReceived' = mailReceived BY <3>1, <1>6
    <3>2. CASE mailReceived' = [mailReceived EXCEPT ![h] = @ + 1] BY <3>2, <1>3, <1>6
    <3> QED BY <3>1, <3>2, <1>1
  <2>2. mailAcked' \in [Deliveries -> Nat]
    <3>1. CASE mailAcked' = mailAcked BY <3>1, <1>6
    <3>2. CASE mailAcked' = [mailAcked EXCEPT ![h] = @ + 1] BY <3>2, <1>3, <1>6
    <3> QED BY <3>1, <3>2, <1>1
  <2>3. mailLate' \in [Addresses -> Nat]
    <3>1. CASE mailLate' = mailLate BY <3>1, <1>6
    <3>2. CASE mailLate' = [mailLate EXCEPT ![a] = @ + 1] BY <3>2, <1>4, <1>6
    <3> QED BY <3>1, <3>2, <1>1
  <2> QED BY <2>1, <2>2, <2>3, <1>2, <1>5 DEF MailInv, MailTypes
<1>8. MailNumbered' BY <1>2 DEF MailInv, MailNumbered
<1>9. MailQueued' BY <1>2 DEF MailInv, MailQueued, Mail!Queued
<1>10. MailCounted'
  <2>1. ASSUME NEW d \in Deliveries, mail[d] = Mail!NoRow
        PROVE  mailReceived'[d] = 0 /\ mailAcked'[d] = 0
    <3>1. d # h /\ mailReceived[d] = 0 /\ mailAcked[d] = 0 BY <2>1, <1>4 DEF MailInv, MailCounted
    <3> QED BY <3>1, <1>1, <1>6
  <2>2. ASSUME NEW d \in Deliveries, Mail!Queued(d)
        PROVE  /\ mail[d].attempts < MaxAttempts
               /\ mailReceived'[d] <= mail[d].attempts + mailCrashes + refusals
                                          + (IF MailAnswered(d)' THEN 1 ELSE 0)
               /\ mailAcked'[d] <= mailCrashes + refusals
                                       + (IF MailAnswered(d)' /\ mailWorker'.answer = "accepted"
                                          THEN 1 ELSE 0)
    <3>1. /\ mail[d].attempts < MaxAttempts
          /\ mailReceived[d] <= mail[d].attempts + mailCrashes + refusals + 0
          /\ mailAcked[d] <= mailCrashes + refusals + 0
      <4>1. ~MailAnswered(d) BY <1>2 DEF MailAnswered
      <4> QED BY <4>1, <2>2 DEF MailInv, MailCounted
    <3>2. mail[d].attempts \in Nat BY <2>2, MailQueuedRow
    <3>3. MailAnswered(d)' <=> d = h BY <1>2, <1>5 DEF MailAnswered, h
    <3>4. CASE d = h
      <4>1. mailReceived'[d] <= mailReceived[d] + 1 BY <3>4, <1>1, <1>6
      <4>2. mailAcked'[d] <= mailAcked[d] + (IF answer = "accepted" THEN 1 ELSE 0)
        BY <3>4, <1>1, <1>6
      <4>3. /\ mailReceived'[d] \in Nat /\ mailAcked'[d] \in Nat
            /\ mailReceived[d] \in Nat /\ mailAcked[d] \in Nat
            /\ mailCrashes \in Nat /\ refusals \in Nat
        BY <1>6, <1>7 DEF MailTypes
      <4>4. mailReceived'[d] <= mail[d].attempts + mailCrashes + refusals + 1
        <5>1. \A p, c, r, x, y \in Nat : x <= p + c + r + 0 /\ y <= x + 1 => y <= p + c + r + 1 OBVIOUS
        <5> QED BY <5>1, <4>1, <4>3, <3>1, <3>2
      <4>5. mailAcked'[d] <= mailCrashes + refusals + (IF answer = "accepted" THEN 1 ELSE 0)
        <5>1. \A c, r, x, y \in Nat, e \in 0 .. 1 : x <= c + r + 0 /\ y <= x + e => y <= c + r + e OBVIOUS
        <5>2. (IF answer = "accepted" THEN 1 ELSE 0) \in 0 .. 1 OBVIOUS
        <5> QED BY <5>1, <5>2, <4>2, <4>3, <3>1
      <4> QED BY <4>4, <4>5, <3>1, <3>3, <3>4, <1>5
    <3>5. CASE d # h
      <4>1. mailReceived'[d] = mailReceived[d] /\ mailAcked'[d] = mailAcked[d]
        BY <3>5, <1>1, <1>6
      <4> QED BY <4>1, <3>1, <3>3, <3>5
    <3> QED BY <3>4, <3>5
  <2>3. answer = "accepted" => mailAcked'[Head(mailBatch)] > 0 BY <1>1, <1>3, <1>6 DEF h
  <2> QED BY <2>1, <2>2, <2>3, <1>2, <1>5 DEF MailCounted, Mail!Queued
<1>11. MailWithdrawn'
  <2>1. mailLate[a] = 0 BY <1>2 DEF MailInv, MailWithdrawn, h, a
  <2> QED BY <2>1, <1>1, <1>2, <1>4, <1>5, <1>6 DEF MailInv, MailWithdrawn
<1> QED BY <1>7, <1>8, <1>9, <1>10, <1>11 DEF MailInv

LEMMA MailStep ==
    ASSUME MailInv, Mail!Next
    PROVE  MailInv'
<1>1. ASSUME NEW r \in Requests, Mail!Request(r) PROVE MailInv'
  <2>1. CASE (\E a \in Addresses, passes \in BOOLEAN : Mail!Notify(r, a, passes)) \/ Mail!Rollback(r)
    <3>1. mailTxn' \in [Requests -> MailWriting]
      <4>1. ASSUME NEW a \in Addresses, NEW passes \in BOOLEAN, Mail!Notify(r, a, passes)
            PROVE  mailTxn' \in [Requests -> MailWriting]
        <5>1. [op |-> "notify", to |-> a, passes |-> passes /\ a \notin suppressed] \in MailWriting
          BY DEF MailWriting
        <5> QED BY <4>1, <5>1 DEF Mail!Notify, MailInv, MailTypes
      <4>2. CASE Mail!Rollback(r) BY <4>2 DEF Mail!Rollback, MailInv, MailTypes, MailWriting
      <4> QED BY <2>1, <4>1, <4>2
    <3>2. UNCHANGED <<mail, mailDue, suppressed, mailWorker, mailBatch,
                      mailReceived, mailAcked, mailLate, mailCrashes, refusals>>
      BY <2>1 DEF Mail!Notify, Mail!Rollback, Mail!rowVars, Mail!workerVars, Mail!historyVars
    <3> QED BY <3>1, <3>2, MailQuiet
  <2>2. CASE Mail!CommitNotify(r) BY <2>2, MailNotifyKept
  <2> QED BY <1>1, <2>1, <2>2 DEF Mail!Request
<1>2. ASSUME NEW a \in Addresses, Mail!Report(a) \/ Mail!Unsuppress(a) PROVE MailInv'
  BY <1>2, MailListed
<1>3. CASE Mail!Work
  BY <1>3, MailWorks, MailWritesKept, MailPosts DEF Mail!Work
<1>4. CASE Mail!Crash
  <2>1. mailCrashes \in Nat /\ refusals \in Nat BY DEF MailInv, MailTypes
  <2>2. /\ mailWorker' = Mail!Down /\ mailBatch' = <<>> /\ mailCrashes' = mailCrashes + 1
        /\ refusals' = refusals
        /\ UNCHANGED <<mail, mailDue, suppressed, mailTxn, mailReceived, mailAcked, mailLate>>
    BY <1>4 DEF Mail!Crash, Mail!rowVars
  <2>3. mailCrashes' \in Nat /\ refusals' \in Nat
        /\ mailCrashes' + refusals' = mailCrashes + refusals + 1
    BY <2>1, <2>2
  <2> QED BY <2>2, <2>3, MailInterrupted
<1>5. CASE Mail!Wait BY <1>5, MailBacksOff, HookConstants DEF Mail!Wait
<1> QED BY <1>1, <1>2, <1>3, <1>4, <1>5 DEF Mail!Next

-----------------------------------------------------------------------------
(* E-mails: every step is a step of the abstract outbox, or none.          *)

MailPhases == [d \in Deliveries |-> Mail!Phase(d)]

LEMMA MailSeen ==
    ASSUME part = "e-mails", part' = part
    PROVE  /\ Phases = MailPhases /\ Phases' = MailPhases'
           /\ Copies = mailReceived /\ Copies' = mailReceived'
           /\ Acks = mailAcked /\ Acks' = mailAcked'
           /\ Interruptions = mailCrashes + refusals
           /\ Interruptions' = mailCrashes' + refusals'
BY DEF Phases, MailPhases, Copies, Acks, Interruptions, Mail!Phase, Mail!Queued

LEMMA MailPhaseOf ==
    ASSUME NEW d
    PROVE  /\ mail[d] = Mail!NoRow => Mail!Phase(d) = "none"
           /\ Mail!Queued(d) => Mail!Phase(d) = "queued"
           /\ mail[d].status = "sent" => Mail!Phase(d) = "delivered"
           /\ /\ mail[d].status \in {"pending", "failed", "suppressed"}
              /\ ~Mail!Queued(d)
              => Mail!Phase(d) = "dropped"
BY DEF Mail!Phase, Mail!Queued, Mail!NoRow

LEMMA MailSameRows ==
    ASSUME part = "e-mails", part' = part,
           UNCHANGED <<mail, mailReceived, mailAcked, mailCrashes, refusals>>
    PROVE  UNCHANGED <<Phases, Copies, Acks, Interruptions>>
BY MailSeen DEF MailPhases, Mail!Phase, Mail!Queued

\* One row changes: so does its phase, and no other.
LEMMA MailOnePhase ==
    ASSUME part = "e-mails", part' = part, NEW h \in Deliveries,
           \A d \in Deliveries \ {h} : mail'[d] = mail[d]
    PROVE  Phases' = [Phases EXCEPT ![h] = Mail!Phase(h)'] /\ Phases[h] = Mail!Phase(h)
<1>1. \A d \in Deliveries \ {h} : Mail!Phase(d)' = Mail!Phase(d)
  BY DEF Mail!Phase, Mail!Queued
<1>2. MailPhases' = [MailPhases EXCEPT ![h] = Mail!Phase(h)'] BY <1>1 DEF MailPhases
<1>3. MailPhases[h] = Mail!Phase(h) BY DEF MailPhases
<1> QED BY <1>2, <1>3, MailSeen

LEMMA MailOutbox ==
    ASSUME MailInv, Mail!Next, part = "e-mails", part' = part
    PROVE  Abstract!Next \/ UNCHANGED Abstract!outboxVars
<1> USE HookConstants
<1> DEFINE Stays == UNCHANGED <<Phases, Copies, Acks, Interruptions>>
           h == Head(mailBatch)
<1>1. Stays => UNCHANGED Abstract!outboxVars
  BY DEF Abstract!outboxVars, Phases, Copies, Acks, Interruptions
<1> SUFFICES Abstract!Next \/ Stays BY <1>1
<1>2. CASE UNCHANGED <<mail, mailReceived, mailAcked, mailCrashes, refusals>>
  BY <1>2, MailSameRows
<1>3. ASSUME UNCHANGED <<mail, mailReceived, mailAcked>>,
             mailCrashes' + refusals' = mailCrashes + refusals + 1
      PROVE  Abstract!Next
  <2>1. UNCHANGED <<Phases, Copies, Acks>>
    BY <1>3, MailSeen DEF MailPhases, Mail!Phase, Mail!Queued
  <2>2. Interruptions' = Interruptions + 1 BY <1>3, MailSeen
  <2>3. Abstract!Interrupt BY <2>1, <2>2 DEF Abstract!Interrupt, Phases, Copies, Acks, Interruptions
  <2> QED BY <2>3 DEF Abstract!Next
<1>4. ASSUME NEW r \in Requests, Mail!Request(r) PROVE Abstract!Next \/ Stays
  <2>1. CASE Mail!CommitNotify(r)
    <3>1. PICK n \in 0 .. MaxDeliveries, a \in Addresses, passes \in BOOLEAN : MailAppends(n, a, passes)
      BY <2>1, MailNotified
    <3> DEFINE m == n + 1
    <3>2. m \in Deliveries /\ mail[m] = Mail!NoRow BY <3>1 DEF MailAppends
    <3>3. mail'[m] = MailFresh(a, passes) /\ \A d \in Deliveries \ {m} : mail'[d] = mail[d]
      BY <3>1, <3>2 DEF MailAppends, MailInv, MailTypes
    <3>4. UNCHANGED <<mailReceived, mailAcked, mailCrashes, refusals>> BY <3>1 DEF MailAppends
    <3> HIDE DEF m
    <3>5. UNCHANGED <<Copies, Acks, Interruptions>> BY <3>4, MailSeen
    <3>6. Phases' = [Phases EXCEPT ![m] = Mail!Phase(m)'] /\ Phases[m] = "none"
      BY <3>2, <3>3, MailOnePhase, MailPhaseOf
    <3>7. CASE passes
      <4>1. MailFresh(a, passes).status = "pending" /\ MailFresh(a, passes).scheduled
        BY <3>7 DEF MailFresh
      <4>2. Mail!Phase(m)' = "queued" BY <4>1, <3>3 DEF Mail!Phase, Mail!Queued
      <4>3. Phases' = [d \in Deliveries |-> IF d \in {m} THEN "queued" ELSE Phases[d]]
        BY <4>2, <3>6 DEF Phases
      <4>4. Abstract!Queue({m})
        BY <4>3, <3>5, <3>6 DEF Abstract!Queue, Phases, Copies, Acks, Interruptions
      <4>5. {m} \in SUBSET Deliveries BY <3>2
      <4> QED BY <4>4, <4>5 DEF Abstract!Next
    <3>8. CASE ~passes
      <4>1. MailFresh(a, passes).status = "suppressed" BY <3>8 DEF MailFresh
      <4>2. Mail!Phase(m)' = "dropped" BY <4>1, <3>3 DEF Mail!Phase, Mail!Queued
      <4>3. Abstract!Drop(m)
        BY <4>2, <3>5, <3>6 DEF Abstract!Drop, Phases, Copies, Acks, Interruptions
      <4> QED BY <4>3, <3>2 DEF Abstract!Next
    <3> QED BY <3>7, <3>8
  <2>2. CASE (\E a \in Addresses, passes \in BOOLEAN : Mail!Notify(r, a, passes)) \/ Mail!Rollback(r)
    <3>1. UNCHANGED <<mail, mailReceived, mailAcked, mailCrashes, refusals>>
      BY <2>2 DEF Mail!Notify, Mail!Rollback, Mail!rowVars, Mail!historyVars
    <3> QED BY <3>1, <1>2
  <2> QED BY <1>4, <2>1, <2>2 DEF Mail!Request
<1>5. CASE (\E a \in Addresses : Mail!Report(a) \/ Mail!Unsuppress(a))
           \/ Mail!Start \/ Mail!Claim \/ Mail!Attempt \/ Mail!Wait
  <2>1. UNCHANGED <<mail, mailReceived, mailAcked, mailCrashes, refusals>>
    BY <1>5 DEF Mail!Report, Mail!Unsuppress, Mail!Start, Mail!Claim, Mail!Attempt, Mail!Wait,
                Mail!BecomeDue, Mail!rowVars, Mail!historyVars
  <2> QED BY <2>1, <1>2
<1>6. CASE Mail!Suppress \/ Mail!Record
  <2>1. CASE MailRefused
    <3>1. mailCrashes \in Nat /\ refusals \in Nat BY DEF MailInv, MailTypes
    <3>2. mailCrashes' + refusals' = mailCrashes + refusals + 1 BY <3>1, <2>1 DEF MailRefused
    <3> QED BY <3>2, <2>1, <1>3 DEF MailRefused
  <2>2. ASSUME NEW row, MailTaken(row), MailClosing(mail[h], row),
               row.status = "sent" => mailWorker.at = "answered" /\ mailWorker.answer = "accepted",
               mailBatch # <<>>
        PROVE  Abstract!Next \/ Stays
    <3>1. PICK g \in Deliveries : g = h /\ Mail!Queued(g) BY <2>2, MailHead
    <3>2. mail'[g] = row /\ \A d \in Deliveries \ {g} : mail'[d] = mail[d]
      BY <2>2, <3>1 DEF MailTaken, MailInv, MailTypes
    <3>3. UNCHANGED <<mailReceived, mailAcked, mailCrashes, refusals>> BY <2>2 DEF MailTaken
    <3>4. UNCHANGED <<Copies, Acks, Interruptions>> BY <3>3, MailSeen
    <3>5. row.status = "sent" => mailAcked[g] > 0 BY <2>2, <3>1 DEF MailInv, MailCounted
    <3>6. row.status \in {"sent", "failed", "suppressed"} BY <2>2 DEF MailClosing
    <3>7. Phases' = [Phases EXCEPT ![g] = Mail!Phase(g)'] /\ Phases[g] = "queued"
      BY <3>1, <3>2, MailOnePhase, MailPhaseOf
    <3>8. CASE row.status = "sent"
      <4>1. Mail!Phase(g)' = "delivered" BY <3>8, <3>2 DEF Mail!Phase, Mail!Queued
      <4>2. Acks[g] > 0 BY <3>5, <3>8, MailSeen
      <4>3. Abstract!Deliver(g)
        BY <4>1, <4>2, <3>4, <3>7 DEF Abstract!Deliver, Phases, Copies, Acks, Interruptions
      <4> QED BY <4>3 DEF Abstract!Next
    <3>9. CASE row.status = "failed" /\ row.scheduled
      <4>1. Mail!Phase(g)' = "queued" BY <3>9, <3>2 DEF Mail!Phase, Mail!Queued
      <4>2. Phases' = Phases BY <4>1, <3>7 DEF Phases
      <4> QED BY <4>2, <3>4
    <3>10. CASE row.status = "suppressed" \/ (row.status = "failed" /\ ~row.scheduled)
      <4>1. Mail!Phase(g)' = "dropped" BY <3>10, <3>2 DEF Mail!Phase, Mail!Queued
      <4>2. Abstract!Drop(g)
        BY <4>1, <3>4, <3>7 DEF Abstract!Drop, Phases, Copies, Acks, Interruptions
      <4> QED BY <4>2 DEF Abstract!Next
    <3> QED BY <3>6, <3>8, <3>9, <3>10
  <2> QED BY <1>6, <2>1, <2>2, MailWrites
<1>7. CASE Mail!Post
  <2>1. PICK answer \in {"accepted", "rejected", "later"}, taken \in BOOLEAN :
            /\ answer = "accepted" => taken
            /\ mailReceived' = IF taken THEN [mailReceived EXCEPT ![h] = @ + 1] ELSE mailReceived
            /\ mailAcked' = IF answer = "accepted" THEN [mailAcked EXCEPT ![h] = @ + 1] ELSE mailAcked
    BY <1>7 DEF Mail!Post
  <2>2. /\ mailWorker.at = "posting" /\ mailBatch # <<>>
        /\ UNCHANGED <<mail, mailCrashes, refusals>>
    BY <1>7 DEF Mail!Post, Mail!rowVars, MailInv, MailQueued
  <2>3. CASE ~taken
    <3>1. mailReceived' = mailReceived /\ mailAcked' = mailAcked BY <2>1, <2>3
    <3> QED BY <3>1, <2>2, <1>2
  <2>4. CASE taken
    <3>1. h \in Deliveries /\ Mail!Queued(h) /\ mail[h].attempts \in 0 .. MaxAttempts - 1
      BY <2>2, MailHead, MailQueuedRow
    <3>2. /\ mailReceived[h] <= mail[h].attempts + mailCrashes + refusals + 0
          /\ mailAcked[h] <= mailCrashes + refusals + 0
      <4>1. ~MailAnswered(h) BY <2>2 DEF MailAnswered
      <4> QED BY <4>1, <3>1 DEF MailInv, MailCounted
    <3>3. /\ mailReceived[h] \in Nat /\ mailAcked[h] \in Nat
          /\ mailCrashes \in Nat /\ refusals \in Nat
      BY <3>1 DEF MailInv, MailTypes
    <3>4. /\ mailReceived[h] < MaxAttempts + (mailCrashes + refusals)
          /\ mailAcked[h] < 1 + (mailCrashes + refusals)
      <4>1. \A a, m, c, r, x \in Nat : x <= a + c + r + 0 /\ a < m => x < m + (c + r) OBVIOUS
      <4>2. \A c, r, x \in Nat : x <= c + r + 0 => x < 1 + (c + r) OBVIOUS
      <4>3. mail[h].attempts \in Nat /\ MaxAttempts \in Nat /\ mail[h].attempts < MaxAttempts BY <3>1
      <4>4. mailReceived[h] < MaxAttempts + (mailCrashes + refusals) BY <4>1, <4>3, <3>2, <3>3
      <4>5. mailAcked[h] < 1 + (mailCrashes + refusals) BY <4>2, <3>2, <3>3
      <4> QED BY <4>4, <4>5
    <3>5. Phases[h] = "queued" BY <3>1, MailPhaseOf, MailSeen DEF MailPhases
    <3>6. UNCHANGED <<Phases, Interruptions>>
      BY <2>2, MailSeen DEF MailPhases, Mail!Phase, Mail!Queued
    <3>7. Copies' = [Copies EXCEPT ![h] = @ + 1] /\ Copies[h] < MaxAttempts + Interruptions
      BY <2>1, <2>4, <3>4, MailSeen
    <3>8. Acks' = Acks \/ (Acks[h] < 1 + Interruptions /\ Acks' = [Acks EXCEPT ![h] = @ + 1])
      BY <2>1, <3>4, MailSeen
    <3>9. Abstract!Send(h)
      BY <3>5, <3>6, <3>7, <3>8 DEF Abstract!Send, Phases, Copies, Acks, Interruptions
    <3> QED BY <3>9, <3>1 DEF Abstract!Next
  <2> QED BY <2>3, <2>4
<1>8. CASE Mail!Crash
  <2>1. mailCrashes \in Nat /\ refusals \in Nat BY DEF MailInv, MailTypes
  <2>2. UNCHANGED <<mail, mailReceived, mailAcked>> /\ mailCrashes' = mailCrashes + 1
        /\ refusals' = refusals
    BY <1>8 DEF Mail!Crash, Mail!rowVars
  <2>3. mailCrashes' + refusals' = mailCrashes + refusals + 1 BY <2>1, <2>2
  <2> QED BY <2>2, <2>3, <1>3
<1> QED BY <1>4, <1>5, <1>6, <1>7, <1>8 DEF Mail!Next, Mail!Work

-----------------------------------------------------------------------------
(* The results.                                                            *)

LEMMA WorkersInitial ==
    ASSUME Init
    PROVE  WorkersInv
BY HookInitial, MailInitial DEF Init, WorkersInv

LEMMA WorkersStep ==
    ASSUME WorkersInv, [Next]_vars
    PROVE  WorkersInv'
<1>1. CASE Webhooks(Hook!Next) BY <1>1, HookStep DEF Webhooks, WorkersInv
<1>2. CASE EMails(Mail!Next) BY <1>2, MailStep DEF EMails, WorkersInv
<1>3. CASE UNCHANGED vars
  <2>1. part' = part BY <1>3 DEF vars
  <2>2. HookInv => HookInv'
    BY <1>3 DEF vars, hookVars, HookInv, HookTypes, HookNumbered, HookQueued, HookCounted,
                HookAnswered, HookWithdrawn
  <2>3. MailInv => MailInv'
    BY <1>3 DEF vars, mailVars, MailInv, MailTypes, MailNumbered, MailQueued, MailCounted,
                MailAnswered, MailWithdrawn, Mail!Queued
  <2> QED BY <2>1, <2>2, <2>3 DEF WorkersInv
<1> QED BY <1>1, <1>2, <1>3 DEF Next

LEMMA WorkersInvariant == Spec => []WorkersInv
BY WorkersInitial, WorkersStep, PTL DEF Spec

\* The rows, the queues and the workers of both outboxes are well formed: rows
\* claimed are due, rows due are open, and no e-mail row breaks the CHECK of
\* its table (webhooks/service.py, notifications/service.py).
THEOREM TypeCorrect == Spec => []TypeOK
<1>1. WorkersInv => TypeOK
  <2>1. HookInv => Hook!TypeOK
    <3> SUFFICES ASSUME HookInv PROVE Hook!TypeOK OBVIOUS
    <3>1. hookDue \in Seq(Deliveries) /\ hookBatch \in Seq(Deliveries)
      BY DEF HookInv, HookQueued, Queues
    <3>2. hookWorker.at \in {"down", "ready", "posting", "answered"}
      BY DEF HookInv, HookTypes, HookDoing, Hook!Down
    <3>3. ASSUME NEW r \in Requests PROVE hookTxn[r].op \in {"idle", "create", "dispatch"}
      <4>1. hookTxn[r] \in HookWriting BY DEF HookInv, HookTypes
      <4> QED BY <4>1 DEF HookWriting, Hook!Idle
    <3> QED BY <3>1, <3>2, <3>3, HookConstants DEF Hook!TypeOK, HookInv, HookTypes
  <2>2. MailInv => Mail!TypeOK
    <3> SUFFICES ASSUME MailInv PROVE Mail!TypeOK OBVIOUS
    <3>1. mailDue \in Seq(Deliveries) /\ mailBatch \in Seq(Deliveries)
      BY DEF MailInv, MailQueued, Queues
    <3>2. mailWorker.at \in {"down", "ready", "posting", "answered"}
      BY DEF MailInv, MailTypes, MailDoing, Mail!Down
    <3> QED BY <3>1, <3>2, HookConstants DEF Mail!TypeOK, MailInv, MailTypes, MailNumbered
  <2> QED BY <2>1, <2>2 DEF WorkersInv, TypeOK
<1> QED BY <1>1, WorkersInvariant, PTL

\* However many events are queued when an endpoint is revoked or an address is
\* suppressed, and however they are batched, retried and interrupted, at most
\* one request or message goes out afterwards (deliver_one, send_one).
THEOREM WithdrawnSafe == Spec => []WithdrawnLeftAlone
<1>1. WorkersInv => WithdrawnLeftAlone
  BY DEF WorkersInv, WithdrawnLeftAlone, HookInv, HookWithdrawn, MailInv, MailWithdrawn,
         Hook!AtMostOneInFlight, Mail!SuppressedLeftAlone
<1> QED BY <1>1, WorkersInvariant, PTL

\* Both outboxes deliver at least once: what is closed as delivered was
\* accepted, and no row is sent more often than its attempts and the worker's
\* interruptions account for (claim_due, claim_due_emails).
THEOREM WorkersRefine == Spec => ImplementsOutbox
<1> USE HookConstants
<1>1. Init => Abstract!Init
  <2>1. ASSUME part = "webhooks", Hook!Init PROVE Abstract!Init
    <3>1. \A d \in Deliveries : Hook!Phase(hook[d]) = "none"
      <4>1. \A d \in Deliveries : hook[d].status = "none" BY <2>1 DEF Hook!Init, Hook!NoRow
      <4> QED BY <4>1, HookPhases
    <3> QED BY <2>1, <3>1 DEF Hook!Init, Abstract!Init
  <2>2. ASSUME part = "e-mails", Mail!Init PROVE Abstract!Init
    <3>1. \A d \in Deliveries : Mail!Phase(d) = "none"
      <4>1. \A d \in Deliveries : mail[d] = Mail!NoRow BY <2>2 DEF Mail!Init
      <4> QED BY <4>1, MailPhaseOf
    <3> QED BY <2>2, <3>1 DEF Mail!Init, Abstract!Init
  <2> QED BY <2>1, <2>2 DEF Init
<1>2. WorkersInv /\ [Next]_vars => [Abstract!Next]_Abstract!outboxVars
  <2> SUFFICES ASSUME WorkersInv, [Next]_vars PROVE Abstract!Next \/ UNCHANGED Abstract!outboxVars
    OBVIOUS
  <2>1. CASE Webhooks(Hook!Next) BY <2>1, HookOutbox DEF Webhooks, WorkersInv
  <2>2. CASE EMails(Mail!Next) BY <2>2, MailOutbox DEF EMails, WorkersInv
  <2>3. CASE UNCHANGED vars
    BY <2>3 DEF vars, hookVars, mailVars, Abstract!outboxVars, Mail!Phase, Mail!Queued, Hook!Phase
  <2> QED BY <2>1, <2>2, <2>3 DEF Next
<1> QED BY <1>1, <1>2, WorkersInvariant, PTL DEF Spec, ImplementsOutbox, Abstract!Spec

=============================================================================
