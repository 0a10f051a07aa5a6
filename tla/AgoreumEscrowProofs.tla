------------------------ MODULE AgoreumEscrowProofs -------------------------
(***************************************************************************)
(* Proofs about the escrow contract, for every number of escrows, every    *)
(* set of accounts and tokens, every fee scale and every window: what the  *)
(* contract keeps, that it implements the ledger, and, at the end, what    *)
(* the API says of an escrow against it: the advice it gives the parties,  *)
(* and the row its events lead to.                                         *)
(***************************************************************************)
EXTENDS SettlementAdvice, SettlementMirror, WellFoundedInduction, TLAPS

-----------------------------------------------------------------------------
(* Facts about Total that the accounting needs.  Induction is carried out   *)
(* by taking the least counterexample, which is the form of induction the  *)
(* provers can instantiate.                                                *)

LessThanOnNat == {p \in Nat \X Nat : p[1] < p[2]}

\* Every non-empty set of naturals has a least element.
LEMMA LeastElement ==
    ASSUME NEW T \in SUBSET Nat, T # {}
    PROVE  \E x \in T : \A y \in T : x <= y
<1>1. IsWellFoundedOn(LessThanOnNat, Nat)
  BY NatLessThanWellFounded DEF LessThanOnNat, OpToRel
<1>2. PICK x \in T : \A y \in T : ~(<<y, x>> \in LessThanOnNat)
  BY <1>1, WFMin
<1>3. \A y \in T : ~(y < x)
  BY <1>2 DEF LessThanOnNat
<1>4. QED
  BY <1>3

\* Induction over 0 .. n for a property given as a set of indices.
LEMMA IntervalInduction ==
    ASSUME NEW n \in Nat, NEW P,
           0 \in P,
           \A i \in 1 .. n : i - 1 \in P => i \in P
    PROVE  \A i \in 0 .. n : i \in P
<1>1. DEFINE Bad == {i \in 0 .. n : i \notin P}
<1>2. SUFFICES ASSUME Bad # {} PROVE FALSE
  OBVIOUS
<1>3. Bad \in SUBSET Nat
  OBVIOUS
<1>4. PICK m \in Bad : \A y \in Bad : m <= y
  BY <1>2, <1>3, LeastElement
<1>5. m \in 1 .. n /\ m - 1 \in 0 .. n
  BY <1>4
<1>6. m - 1 \notin Bad
  BY <1>4, <1>5
<1>7. QED
  BY <1>4, <1>5, <1>6

RunningBody(s, h, n) == [i \in 0 .. n |-> IF i = 0 THEN 0 ELSE s[i - 1] + h[i]]

\* The recursive definition has a solution.
LEMMA RunningTotalExists ==
    ASSUME NEW n \in Nat, NEW h
    PROVE  \E s : s = RunningBody(s, h, n)
<1>1. DEFINE Solvable == {k \in 0 .. n : \E s : s = RunningBody(s, h, k)}
<1>2. 0 \in Solvable
  <2>1. [i \in 0 .. 0 |-> 0] = RunningBody([i \in 0 .. 0 |-> 0], h, 0)
    BY DEF RunningBody
  <2>2. QED
    BY <2>1
<1>3. \A k \in 1 .. n : k - 1 \in Solvable => k \in Solvable
  <2>1. SUFFICES ASSUME NEW k \in 1 .. n, k - 1 \in Solvable
                 PROVE  k \in Solvable
    OBVIOUS
  <2>2. PICK s : s = RunningBody(s, h, k - 1)
    BY <2>1
  <2>3. DEFINE t == [i \in 0 .. k |-> IF i = k THEN s[k - 1] + h[k] ELSE s[i]]
  <2>4. \A i \in 0 .. k : t[i] = IF i = 0 THEN 0 ELSE t[i - 1] + h[i]
    <3>1. SUFFICES ASSUME NEW i \in 0 .. k
                   PROVE  t[i] = IF i = 0 THEN 0 ELSE t[i - 1] + h[i]
      OBVIOUS
    <3>2. \A j \in 0 .. k - 1 : s[j] = IF j = 0 THEN 0 ELSE s[j - 1] + h[j]
      BY <2>2 DEF RunningBody
    <3>3. CASE i = k
      BY <3>3, <2>1
    <3>4. CASE i # k
      BY <3>4, <3>2, <2>1
    <3>5. QED
      BY <3>3, <3>4
  <2>5. t = RunningBody(t, h, k)
    BY <2>4 DEF RunningBody
  <2>6. QED
    BY <2>5
<1>4. \A k \in 0 .. n : k \in Solvable
  <2>1. HIDE DEF Solvable
  <2>2. QED
    BY <1>2, <1>3, IntervalInduction
<1>5. QED
  BY <1>4

\* RunningTotal satisfies its recursion equation.
LEMMA RunningTotalStep ==
    ASSUME NEW n \in Nat, NEW h
    PROVE  /\ RunningTotal(h, n)[0] = 0
           /\ \A i \in 1 .. n :
                 RunningTotal(h, n)[i] = RunningTotal(h, n)[i - 1] + h[i]
<1>1. RunningTotal(h, n) = RunningBody(RunningTotal(h, n), h, n)
  BY RunningTotalExists DEF RunningTotal, RunningBody
<1>2. \A r : r = RunningBody(r, h, n)
          => r[0] = 0 /\ \A i \in 1 .. n : r[i] = r[i - 1] + h[i]
  BY DEF RunningBody
<1>3. QED
  BY <1>1, <1>2

\* A running total of integers is an integer.
LEMMA RunningTotalType ==
    ASSUME NEW n \in Nat, NEW h \in [1 .. n -> Int]
    PROVE  \A i \in 0 .. n : RunningTotal(h, n)[i] \in Int
<1>1. DEFINE P == {i \in 0 .. n : RunningTotal(h, n)[i] \in Int}
<1>2. 0 \in P
  BY RunningTotalStep
<1>3. \A i \in 1 .. n : i - 1 \in P => i \in P
  BY RunningTotalStep
<1>4. \A i \in 0 .. n : i \in P
  <2>1. HIDE DEF P
  <2>2. QED
    BY <1>2, <1>3, IntervalInduction
<1>5. QED
  BY <1>4

\* The total of integers is an integer.
LEMMA TotalType ==
    ASSUME NEW n \in Nat, NEW h \in [1 .. n -> Int]
    PROVE  Total(h, n) \in Int
BY RunningTotalType DEF Total

\* Functions that agree on 1 .. n have the same total.
LEMMA TotalExtensional ==
    ASSUME NEW n \in Nat, NEW h, NEW g, \A i \in 1 .. n : g[i] = h[i]
    PROVE  Total(g, n) = Total(h, n)
<1>1. DEFINE P == {i \in 0 .. n : RunningTotal(g, n)[i] = RunningTotal(h, n)[i]}
<1>2. 0 \in P
  BY RunningTotalStep
<1>3. \A i \in 1 .. n : i - 1 \in P => i \in P
  BY RunningTotalStep
<1>4. \A i \in 0 .. n : i \in P
  <2>1. HIDE DEF P
  <2>2. QED
    BY <1>2, <1>3, IntervalInduction
<1>5. QED
  BY <1>4 DEF Total

\* The total of nothing but zeros is zero.
LEMMA TotalOfNothing ==
    ASSUME NEW n \in Nat, NEW h, \A i \in 1 .. n : h[i] = 0
    PROVE  Total(h, n) = 0
<1>1. DEFINE P == {i \in 0 .. n : RunningTotal(h, n)[i] = 0}
<1>2. 0 \in P
  BY RunningTotalStep
<1>3. \A i \in 1 .. n : i - 1 \in P => i \in P
  BY RunningTotalStep
<1>4. \A i \in 0 .. n : i \in P
  <2>1. HIDE DEF P
  <2>2. QED
    BY <1>2, <1>3, IntervalInduction
<1>5. QED
  BY <1>4 DEF Total

\* Changing one entry moves the total by the change in that entry.
LEMMA TotalUpdate ==
    ASSUME NEW n \in Nat, NEW h \in [1 .. n -> Int], NEW g \in [1 .. n -> Int],
           NEW k \in 1 .. n, \A i \in 1 .. n : i # k => g[i] = h[i]
    PROVE  Total(g, n) = Total(h, n) + (g[k] - h[k])
<1>1. DEFINE delta(i) == IF i < k THEN 0 ELSE g[k] - h[k]
             P == {i \in 0 .. n : RunningTotal(g, n)[i] = RunningTotal(h, n)[i] + delta(i)}
<1>2. \A i \in 0 .. n : RunningTotal(g, n)[i] \in Int /\ RunningTotal(h, n)[i] \in Int
  BY RunningTotalType
<1>3. 0 \in P
  <2>1. RunningTotal(g, n)[0] = 0 /\ RunningTotal(h, n)[0] = 0
    BY RunningTotalStep
  <2>2. delta(0) = 0
    OBVIOUS
  <2>3. QED
    BY <2>1, <2>2
<1>4. \A i \in 1 .. n : i - 1 \in P => i \in P
  <2>1. SUFFICES ASSUME NEW i \in 1 .. n, i - 1 \in P
                 PROVE  RunningTotal(g, n)[i] = RunningTotal(h, n)[i] + delta(i)
    OBVIOUS
  <2>2. /\ RunningTotal(g, n)[i] = RunningTotal(g, n)[i - 1] + g[i]
        /\ RunningTotal(h, n)[i] = RunningTotal(h, n)[i - 1] + h[i]
    BY RunningTotalStep
  <2>3. RunningTotal(g, n)[i - 1] = RunningTotal(h, n)[i - 1] + delta(i - 1)
    BY <2>1
  <2>4. i - 1 \in 0 .. n
    OBVIOUS
  <2>5. CASE i = k
    BY <2>2, <2>3, <2>4, <2>5, <1>2
  <2>6. CASE i # k
    BY <2>2, <2>3, <2>4, <2>6, <1>2
  <2>7. QED
    BY <2>5, <2>6
<1>5. \A i \in 0 .. n : i \in P
  <2>1. HIDE DEF P
  <2>2. QED
    BY <1>3, <1>4, IntervalInduction
<1>6. n \in P
  BY <1>5
<1>7. QED
  BY <1>6 DEF Total

\* A total of naturals is at least each of its entries.
LEMMA TotalBoundsEntry ==
    ASSUME NEW n \in Nat, NEW h \in [1 .. n -> Nat], NEW k \in 1 .. n
    PROVE  Total(h, n) >= h[k]
<1>1. DEFINE floor(i) == IF i < k THEN 0 ELSE h[k]
             P == {i \in 0 .. n : RunningTotal(h, n)[i] >= floor(i)}
<1>2. \A i \in 0 .. n : RunningTotal(h, n)[i] \in Int
  <2>1. h \in [1 .. n -> Int]
    OBVIOUS
  <2>2. QED
    BY <2>1, RunningTotalType
<1>3. 0 \in P
  BY RunningTotalStep
<1>4. \A i \in 1 .. n : i - 1 \in P => i \in P
  <2>1. SUFFICES ASSUME NEW i \in 1 .. n, i - 1 \in P
                 PROVE  RunningTotal(h, n)[i] >= floor(i)
    OBVIOUS
  <2>2. RunningTotal(h, n)[i] = RunningTotal(h, n)[i - 1] + h[i]
    BY RunningTotalStep
  <2>3. RunningTotal(h, n)[i - 1] >= floor(i - 1) /\ i - 1 \in 0 .. n
    BY <2>1
  <2>4. h[i] \in Nat /\ h[k] \in Nat
    OBVIOUS
  <2>5. CASE i = k
    BY <2>2, <2>3, <2>4, <2>5, <1>2
  <2>6. CASE i # k
    BY <2>2, <2>3, <2>4, <2>6, <1>2
  <2>7. QED
    BY <2>5, <2>6
<1>5. \A i \in 0 .. n : i \in P
  <2>1. HIDE DEF P
  <2>2. QED
    BY <1>3, <1>4, IntervalInduction
<1>6. QED
  BY <1>5 DEF Total

-----------------------------------------------------------------------------
(* The contract's invariant.                                               *)

USE DEF Escrows

Holders == Accounts \cup {Vault}

(***************************************************************************)
(* Solvency is not inductive by itself: that a payout takes from the vault *)
(* what its own escrow holds needs the escrow to be worth that much, with  *)
(* parties and a token that exist.                                         *)
(***************************************************************************)
Named ==
    \A e \in Escrows :
        escrow[e].status # "None" =>
            /\ escrow[e].buyer \in Accounts
            /\ escrow[e].provider \in Accounts
            /\ escrow[e].token \in Tokens

Inv == TypeOK /\ Named /\ FullyDivided /\ Solvent /\ FeesReconcile

-----------------------------------------------------------------------------
(* Fees.                                                                   *)

\* The fee on a value, at a rate within the cap, is at most the value.
LEMMA FeeBounded ==
    ASSUME NEW value \in Nat, NEW bps \in 0 .. MaxFeeBps
    PROVE  FeeOf(value, bps) \in 0 .. value
<1>1. BpsDenominator \in Nat \ {0} /\ bps \in Nat /\ bps <= BpsDenominator
  BY FeeAssumption
<1>2. value * bps \in Nat /\ value * bps <= value * BpsDenominator
  BY <1>1
<1>3. \A x, d \in Nat, v \in Nat : d # 0 /\ x <= v * d => x \div d \in 0 .. v
  OBVIOUS
<1>4. QED
  BY <1>1, <1>2, <1>3 DEF FeeOf

-----------------------------------------------------------------------------
(* Transfers.                                                              *)

\* A transfer between two different accounts moves v of token t and nothing else.
LEMMA MoveEffect ==
    ASSUME NEW w \in [Tokens -> [Holders -> Int]], NEW t \in Tokens,
           NEW from \in Holders, NEW to \in Holders, from # to, NEW v \in Int
    PROVE  /\ Move(w, t, from, to, v) \in [Tokens -> [Holders -> Int]]
           /\ Move(w, t, from, to, v)[t][from] = w[t][from] - v
           /\ Move(w, t, from, to, v)[t][to] = w[t][to] + v
           /\ \A a \in Holders \ {from, to} : Move(w, t, from, to, v)[t][a] = w[t][a]
           /\ \A u \in Tokens \ {t} : Move(w, t, from, to, v)[u] = w[u]
BY DEF Move

\* What a payment of v from the vault does to the balances.
Paid(before, after, t, v) ==
    /\ after \in [Tokens -> [Holders -> Int]]
    /\ after[t][Vault] = before[t][Vault] - v
    /\ \A a \in Accounts : after[t][a] >= before[t][a]
    /\ \A u \in Tokens \ {t} : after[u] = before[u]

\* A payment of v moves v out of the vault, and takes from nobody else.
LEMMA MovePays ==
    ASSUME NEW w \in [Tokens -> [Holders -> Int]], NEW t \in Tokens,
           NEW p \in Accounts, NEW v \in Nat
    PROVE  Paid(w, Move(w, t, Vault, p, v), t, v)
<1>. DEFINE m == Move(w, t, Vault, p, v)
<1>1. Vault \in Holders /\ p \in Holders /\ Vault # p /\ v \in Int
  BY ConstantsAssumption DEF Holders
<1>2. /\ m \in [Tokens -> [Holders -> Int]]
      /\ m[t][Vault] = w[t][Vault] - v
      /\ m[t][p] = w[t][p] + v
      /\ \A a \in Holders \ {Vault, p} : m[t][a] = w[t][a]
      /\ \A u \in Tokens \ {t} : m[u] = w[u]
  BY <1>1, MoveEffect
<1>. HIDE DEF m
<1>3. ASSUME NEW a \in Accounts PROVE m[t][a] >= w[t][a]
  <2>1. a \in Holders /\ a # Vault /\ w[t][a] \in Int
    BY ConstantsAssumption DEF Holders
  <2>2. CASE a = p
    BY <1>2, <2>1, <2>2
  <2>3. CASE a # p
    BY <1>2, <2>1, <2>3
  <2>4. QED
    BY <2>2, <2>3
<1>4. QED
  BY <1>2, <1>3 DEF Paid, m

\* A payout leaves every balance a natural number, and takes the sum of its
\* parts from the vault.
LEMMA PayOutEffect ==
    ASSUME wallet \in [Tokens -> [Holders -> Nat]], feeRecipient \in Accounts,
           NEW t \in Tokens, NEW payee \in Accounts, NEW buyer \in Accounts,
           NEW net \in Nat, NEW back \in Nat, NEW fee \in Nat,
           PayOut(t, payee, net, buyer, back, fee)
    PROVE  /\ wallet' \in [Tokens -> [Holders -> Nat]]
           /\ wallet'[t][Vault] = wallet[t][Vault] - (net + back + fee)
           /\ \A u \in Tokens \ {t} : wallet'[u] = wallet[u]
<1>. DEFINE w1 == Move(wallet, t, Vault, payee, net)
            w2 == Move(w1, t, Vault, buyer, back)
            w3 == Move(w2, t, Vault, feeRecipient, fee)
<1>2. Vault \in Holders /\ \A p \in Accounts : p \in Holders /\ p # Vault
  BY ConstantsAssumption DEF Holders
<1>3. wallet \in [Tokens -> [Holders -> Int]]
  OBVIOUS
<1>5. Paid(wallet, w1, t, net)
  BY <1>3, MovePays
<1>. HIDE DEF w1
<1>6. Paid(w1, w2, t, back)
  <2>1. w1 \in [Tokens -> [Holders -> Int]]
    BY <1>5 DEF Paid
  <2>2. QED
    BY <2>1, MovePays
<1>. HIDE DEF w2
<1>7. Paid(w2, w3, t, fee)
  <2>1. w2 \in [Tokens -> [Holders -> Int]]
    BY <1>6 DEF Paid
  <2>2. QED
    BY <2>1, MovePays
<1>. HIDE DEF w3
<1>8. wallet' = w3 /\ wallet[t][Vault] >= net + back + fee
  BY DEF PayOut, w1, w2, w3
<1>9. wallet'[t][Vault] = wallet[t][Vault] - (net + back + fee)
  BY <1>2, <1>3, <1>5, <1>6, <1>7, <1>8 DEF Paid
<1>10. \A u \in Tokens \ {t} : wallet'[u] = wallet[u]
  BY <1>5, <1>6, <1>7, <1>8 DEF Paid
<1>11. \A a \in Accounts : wallet'[t][a] >= wallet[t][a]
  <2>1. TAKE a \in Accounts
  <2>2. wallet[t][a] \in Int /\ w1[t][a] \in Int /\ w2[t][a] \in Int /\ w3[t][a] \in Int
    BY <1>2, <1>3, <1>5, <1>6, <1>7 DEF Paid
  <2>3. QED
    BY <2>2, <1>5, <1>6, <1>7, <1>8 DEF Paid
<1>12. \A u \in Tokens, a \in Holders : wallet'[u][a] \in Nat
  <2>1. TAKE u \in Tokens, a \in Holders
  <2>2. CASE u # t
    BY <2>2, <1>10
  <2>3. CASE u = t /\ a = Vault
    BY <2>3, <1>2, <1>8, <1>9
  <2>4. CASE u = t /\ a \in Accounts
    <3>1. wallet[t][a] \in Nat /\ wallet'[t][a] \in Int
      BY <2>4, <1>2, <1>7, <1>8 DEF Paid
    <3>2. QED
      BY <3>1, <2>4, <1>11
  <2>5. QED
    BY <2>2, <2>3, <2>4 DEF Holders
<1>13. QED
  BY <1>7, <1>8, <1>9, <1>10, <1>12 DEF Paid

-----------------------------------------------------------------------------
(* The totals when one escrow changes.                                     *)

\* What is held in token t changes by what escrow e holds of it.
LEMMA HeldAfter ==
    ASSUME TypeOK, escrow' \in [Escrows -> EscrowRecord], NEW e \in Escrows,
           \A x \in Escrows \ {e} : escrow'[x] = escrow[x], NEW t \in Tokens
    PROVE  /\ Total(Held(t), NEscrows) \in Int
           /\ Total(Held(t)', NEscrows)
                = Total(Held(t), NEscrows) + (Held(t)'[e] - Held(t)[e])
<1>1. NEscrows \in Nat
  BY ConstantsAssumption
<1>2. Held(t) \in [1 .. NEscrows -> Int]
  BY DEF Held, Outstanding, TypeOK, EscrowRecord
<1>3. Held(t)' \in [1 .. NEscrows -> Int]
  BY DEF Held, Outstanding, EscrowRecord
<1>4. \A x \in 1 .. NEscrows : x # e => Held(t)'[x] = Held(t)[x]
  BY DEF Held, Outstanding
<1>5. QED
  BY <1>1, <1>2, <1>3, <1>4, TotalUpdate, TotalType

\* No fee is due on nothing.
LEMMA FeeOnNothing == ASSUME NEW bps \in 0 .. MaxFeeBps PROVE FeeOf(0, bps) = 0
BY FeeBounded

\* The fees of the escrows in token t change by what escrow e's fee does.
LEMMA FeePaidAfter ==
    ASSUME TypeOK, escrow' \in [Escrows -> EscrowRecord], NEW e \in Escrows,
           \A x \in Escrows \ {e} : escrow'[x] = escrow[x], NEW t \in Tokens
    PROVE  /\ Total(FeePaid(t), NEscrows) \in Int
           /\ Total(FeePaid(t)', NEscrows)
                = Total(FeePaid(t), NEscrows) + (FeePaid(t)'[e] - FeePaid(t)[e])
<1>1. NEscrows \in Nat
  BY ConstantsAssumption
<1>2. FeePaid(t) \in [1 .. NEscrows -> Int]
  <2>1. ASSUME NEW x \in Escrows
        PROVE  FeeOf(escrow[x].released, escrow[x].feeBps) \in Int
    <3>1. escrow[x].released \in Nat /\ escrow[x].feeBps \in 0 .. MaxFeeBps
      BY DEF TypeOK, EscrowRecord
    <3>2. FeeOf(escrow[x].released, escrow[x].feeBps) \in 0 .. escrow[x].released
      BY <3>1, FeeBounded
    <3>3. QED
      BY <3>1, <3>2
  <2>2. QED
    BY <2>1 DEF FeePaid
<1>3. FeePaid(t)' \in [1 .. NEscrows -> Int]
  <2>1. ASSUME NEW x \in Escrows
        PROVE  FeeOf(escrow'[x].released, escrow'[x].feeBps) \in Int
    <3>1. escrow'[x].released \in Nat /\ escrow'[x].feeBps \in 0 .. MaxFeeBps
      BY DEF EscrowRecord
    <3>2. FeeOf(escrow'[x].released, escrow'[x].feeBps) \in 0 .. escrow'[x].released
      BY <3>1, FeeBounded
    <3>3. QED
      BY <3>1, <3>2
  <2>2. QED
    BY <2>1 DEF FeePaid
<1>4. \A x \in 1 .. NEscrows : x # e => FeePaid(t)'[x] = FeePaid(t)[x]
  BY DEF FeePaid
<1>5. QED
  BY <1>1, <1>2, <1>3, <1>4, TotalUpdate, TotalType

-----------------------------------------------------------------------------
(* Release, refund and settlement all close an escrow the same way.        *)

\* What the provider and the buyer get is what the record says they got.
ClosesAndPays(e) ==
    LET before == escrow[e]
        after == escrow'[e]
        fee == FeeOf(after.released, before.feeBps)
    IN
    /\ before.status \in Holding
    /\ escrow' \in [Escrows -> EscrowRecord]
    /\ \A x \in Escrows \ {e} : escrow'[x] = escrow[x]
    /\ after = [before EXCEPT !.status = after.status,
                              !.released = after.released,
                              !.refunded = after.refunded]
    /\ after.status \in Terminal
    /\ after.released + after.refunded = before.amount
    /\ PayOut(before.token, before.provider, after.released - fee,
              before.buyer, after.refunded, fee)
    /\ feesCollected' = [feesCollected EXCEPT ![before.token] = @ + fee]
    /\ UNCHANGED <<feeBps, feeRecipient, paused, arbiters, now>>

\* Whatever closes an escrow and pays it out in full preserves the invariant:
\* the one argument release, refund and settleDispute share.
LEMMA Closing ==
    ASSUME Inv, NEW e \in Escrows, ClosesAndPays(e)
    PROVE  Inv'
<1>. DEFINE d == escrow[e]
            c == escrow'[e]
            fee == FeeOf(c.released, d.feeBps)
            net == c.released - fee
            back == c.refunded
<1>. USE DEF ClosesAndPays
<1>1. d \in EscrowRecord /\ c \in EscrowRecord
  BY DEF Inv, TypeOK
<1>2. /\ d.buyer \in Accounts /\ d.provider \in Accounts /\ d.token \in Tokens
      /\ d.status # "None" /\ d.status \notin Terminal
  BY DEF Inv, Named, Holding, Terminal
<1>3. d.released = 0 /\ d.refunded = 0 /\ d.amount \in Nat
  BY <1>1, <1>2 DEF Inv, FullyDivided, EscrowRecord
<1>4. /\ c.buyer = d.buyer /\ c.provider = d.provider /\ c.token = d.token
      /\ c.amount = d.amount /\ c.feeBps = d.feeBps
  BY <1>1 DEF EscrowRecord
<1>41. /\ net \in Nat /\ back \in Nat /\ fee \in Nat
       /\ net + back + fee = d.amount
  <2>1. c.released \in Nat /\ c.refunded \in Nat /\ d.feeBps \in 0 .. MaxFeeBps
    BY <1>1 DEF EscrowRecord
  <2>2. fee \in 0 .. c.released
    BY <2>1, FeeBounded
  <2>3. c.released + c.refunded = d.amount
    OBVIOUS
  <2>. HIDE DEF fee
  <2>4. QED
    BY <2>1, <2>2, <2>3
<1>5. /\ wallet' \in [Tokens -> [Holders -> Nat]]
      /\ wallet'[d.token][Vault] = wallet[d.token][Vault] - (net + back + fee)
      /\ \A u \in Tokens \ {d.token} : wallet'[u] = wallet[u]
  <2>1. wallet \in [Tokens -> [Holders -> Nat]] /\ feeRecipient \in Accounts
    BY DEF Inv, TypeOK, Holders
  <2>2. QED
    BY <1>2, <1>41, <2>1, PayOutEffect
<1>51. feesCollected' = [feesCollected EXCEPT ![d.token] = @ + fee]
  OBVIOUS
<1>. HIDE DEF net, back, fee
<1>6. TypeOK'
  <2>1. feesCollected' \in [Tokens -> Nat]
    BY <1>2, <1>41, <1>51 DEF Inv, TypeOK
  <2>2. QED
    BY <1>5, <2>1 DEF Inv, TypeOK, Holders
<1>7. Named'
  BY <1>2, <1>4 DEF Inv, Named
<1>8. FullyDivided'
  <2>1. \A x \in Escrows \ {e} :
            /\ escrow'[x].status = "None" => escrow'[x].amount = 0
            /\ escrow'[x].status \in Holding => escrow'[x].amount > 0
            /\ escrow'[x].status \notin Terminal =>
                    escrow'[x].released = 0 /\ escrow'[x].refunded = 0
            /\ escrow'[x].status \in Terminal =>
                    escrow'[x].released + escrow'[x].refunded = escrow'[x].amount
    BY DEF Inv, FullyDivided
  <2>2. c.status # "None" /\ c.status \notin Holding
    BY DEF Terminal, Holding
  <2>3. QED
    BY <1>4, <2>1, <2>2 DEF FullyDivided
<1>9. Solvent'
  <2>1. SUFFICES ASSUME NEW t \in Tokens
                 PROVE  wallet'[t][Vault] = Total(Held(t)', NEscrows)
    BY DEF Solvent
  <2>2. /\ wallet[t][Vault] = Total(Held(t), NEscrows)
        /\ Total(Held(t), NEscrows) \in Int
        /\ Total(Held(t)', NEscrows) = Total(Held(t), NEscrows) + (Held(t)'[e] - Held(t)[e])
    BY HeldAfter DEF Inv, Solvent
  <2>3. Held(t)'[e] = 0
    BY <1>1, <1>4 DEF Held, Outstanding, EscrowRecord
  <2>4. Held(t)[e] = IF d.token = t THEN d.amount ELSE 0
    BY <1>3 DEF Held, Outstanding
  <2>5. CASE t = d.token
    BY <1>3, <1>41, <1>5, <2>2, <2>3, <2>4, <2>5
  <2>6. CASE t # d.token
    BY <1>5, <2>2, <2>3, <2>4, <2>6
  <2>7. QED
    BY <2>5, <2>6
<1>10. FeesReconcile'
  <2>1. SUFFICES ASSUME NEW t \in Tokens
                 PROVE  feesCollected'[t] = Total(FeePaid(t)', NEscrows)
    BY DEF FeesReconcile
  <2>2. /\ feesCollected[t] = Total(FeePaid(t), NEscrows)
        /\ Total(FeePaid(t), NEscrows) \in Int
        /\ Total(FeePaid(t)', NEscrows)
              = Total(FeePaid(t), NEscrows) + (FeePaid(t)'[e] - FeePaid(t)[e])
    BY FeePaidAfter DEF Inv, FeesReconcile
  <2>3. FeePaid(t)'[e] = IF d.token = t THEN fee ELSE 0
    BY <1>4 DEF FeePaid, fee
  <2>4. FeePaid(t)[e] = 0
    BY <1>1, <1>3, FeeOnNothing DEF FeePaid, EscrowRecord
  <2>5. feesCollected'[t] = IF d.token = t THEN feesCollected[t] + fee ELSE feesCollected[t]
    BY <1>51 DEF Inv, TypeOK
  <2>6. QED
    BY <1>41, <2>2, <2>3, <2>4, <2>5
<1>11. QED
  BY <1>6, <1>7, <1>8, <1>9, <1>10 DEF Inv

-----------------------------------------------------------------------------
(* Every action preserves the invariant; the closing ones by way of        *)
(* ClosesAndPays.                                                          *)

\* createEscrow: the deposit enters the vault as it enters the books.
LEMMA CreatePreserves ==
    ASSUME Inv, NEW caller \in Accounts, NEW e \in Escrows, Create(caller, e)
    PROVE  Inv'
<1>1. PICK provider \in Accounts \cup {Zero}, token \in Tokens \cup {Zero},
           amount \in 0 .. MaxAmount, deliveryWindow \in Windows, autoReleaseWindow \in Windows :
        CreateEscrow(caller, e, provider, token, amount, deliveryWindow, autoReleaseWindow)
  BY DEF Create
<1>. DEFINE c == escrow'[e]
<1>2. /\ provider \in Accounts /\ token \in Tokens /\ amount \in Nat \ {0}
      /\ deliveryWindow \in Nat /\ autoReleaseWindow \in Nat
  BY <1>1, ConstantsAssumption DEF CreateEscrow
<1>3. /\ escrow' = [escrow EXCEPT ![e] =
                    [buyer |-> caller, provider |-> provider, token |-> token,
                     amount |-> amount, released |-> 0, refunded |-> 0,
                     feeBps |-> feeBps, deliveryDeadline |-> now + deliveryWindow,
                     autoReleaseAt |-> now + deliveryWindow + autoReleaseWindow,
                     status |-> "Funded"]]
      /\ wallet' = Move(wallet, token, caller, Vault, amount)
      /\ wallet[token][caller] >= amount
      /\ UNCHANGED <<feeBps, feeRecipient, feesCollected, paused, arbiters, now>>
  BY <1>1 DEF CreateEscrow, AcceptsTransfer, Move
<1>4. escrow' \in [Escrows -> EscrowRecord]
  BY <1>2, <1>3 DEF Inv, TypeOK, EscrowRecord, Statuses, Time
<1>5. /\ c.buyer = caller /\ c.provider = provider /\ c.token = token
      /\ c.amount = amount /\ c.released = 0 /\ c.refunded = 0
      /\ c.feeBps = feeBps /\ c.status = "Funded"
      /\ \A x \in Escrows \ {e} : escrow'[x] = escrow[x]
  BY <1>3 DEF Inv, TypeOK
<1>6. /\ escrow[e].amount = 0 /\ escrow[e].released = 0 /\ escrow[e].refunded = 0
      /\ escrow[e].feeBps \in 0 .. MaxFeeBps
  BY <1>1 DEF CreateEscrow, Unused, Inv, TypeOK, FullyDivided, EscrowRecord, Terminal
<1>7. /\ wallet' \in [Tokens -> [Holders -> Int]]
      /\ wallet'[token][caller] = wallet[token][caller] - amount
      /\ wallet'[token][Vault] = wallet[token][Vault] + amount
      /\ \A a \in Holders \ {caller, Vault} : wallet'[token][a] = wallet[token][a]
      /\ \A u \in Tokens \ {token} : wallet'[u] = wallet[u]
  <2>1. wallet \in [Tokens -> [Holders -> Nat]]
    BY DEF Inv, TypeOK, Holders
  <2>2. wallet \in [Tokens -> [Holders -> Int]] /\ amount \in Int
    BY <1>2, <2>1
  <2>3. caller \in Holders /\ Vault \in Holders /\ caller # Vault
    BY ConstantsAssumption DEF Holders
  <2>. DEFINE m == Move(wallet, token, caller, Vault, amount)
  <2>4. /\ m \in [Tokens -> [Holders -> Int]]
        /\ m[token][caller] = wallet[token][caller] - amount
        /\ m[token][Vault] = wallet[token][Vault] + amount
        /\ \A a \in Holders \ {caller, Vault} : m[token][a] = wallet[token][a]
        /\ \A u \in Tokens \ {token} : m[u] = wallet[u]
    BY <1>2, <2>2, <2>3, MoveEffect, SMTT(30)
  <2>5. QED
    BY <1>3, <2>4
<1>8. wallet' \in [Tokens -> [Holders -> Nat]]
  <2>1. SUFFICES ASSUME NEW u \in Tokens, NEW a \in Holders
                 PROVE  wallet'[u][a] \in Nat
    BY <1>7
  <2>2. wallet \in [Tokens -> [Holders -> Nat]] /\ caller \in Holders /\ Vault \in Holders
    BY DEF Inv, TypeOK, Holders
  <2>3. CASE u # token
    BY <1>7, <2>2, <2>3
  <2>4. CASE u = token
    BY <1>2, <1>3, <1>7, <2>2, <2>4
  <2>5. QED
    BY <2>3, <2>4
<1>9. TypeOK'
  BY <1>3, <1>4, <1>8 DEF Inv, TypeOK, Holders
<1>10. Named'
  BY <1>2, <1>5 DEF Inv, Named
<1>11. FullyDivided'
  BY <1>2, <1>5 DEF Inv, FullyDivided, Holding, Terminal
<1>12. Solvent'
  <2>1. SUFFICES ASSUME NEW t \in Tokens
                 PROVE  wallet'[t][Vault] = Total(Held(t)', NEscrows)
    BY DEF Solvent
  <2>2. /\ wallet[t][Vault] = Total(Held(t), NEscrows)
        /\ Total(Held(t), NEscrows) \in Int
        /\ Total(Held(t)', NEscrows) = Total(Held(t), NEscrows) + (Held(t)'[e] - Held(t)[e])
    BY <1>4, <1>5, HeldAfter DEF Inv, Solvent
  <2>3. Held(t)'[e] = IF token = t THEN amount ELSE 0
    BY <1>2, <1>5 DEF Held, Outstanding
  <2>4. Held(t)[e] = 0
    BY <1>6 DEF Held, Outstanding
  <2>5. CASE t = token
    BY <1>2, <1>7, <2>2, <2>3, <2>4, <2>5
  <2>6. CASE t # token
    BY <1>7, <2>2, <2>3, <2>4, <2>6
  <2>7. QED
    BY <2>5, <2>6
<1>13. FeesReconcile'
  <2>1. SUFFICES ASSUME NEW t \in Tokens
                 PROVE  feesCollected'[t] = Total(FeePaid(t)', NEscrows)
    BY DEF FeesReconcile
  <2>2. /\ feesCollected[t] = Total(FeePaid(t), NEscrows)
        /\ Total(FeePaid(t), NEscrows) \in Int
        /\ Total(FeePaid(t)', NEscrows)
              = Total(FeePaid(t), NEscrows) + (FeePaid(t)'[e] - FeePaid(t)[e])
    BY <1>4, <1>5, FeePaidAfter DEF Inv, FeesReconcile
  <2>3. FeePaid(t)'[e] = 0 /\ FeePaid(t)[e] = 0
    <3>1. c.feeBps \in 0 .. MaxFeeBps
      BY <1>5 DEF Inv, TypeOK
    <3>2. QED
      BY <1>5, <1>6, <3>1, FeeOnNothing DEF FeePaid
  <2>4. QED
    BY <1>3, <2>2, <2>3
<1>14. QED
  BY <1>9, <1>10, <1>11, <1>12, <1>13 DEF Inv

\* Closing an escrow leaves a well-formed record.
LEMMA RecordUpdate ==
    ASSUME NEW d \in EscrowRecord, NEW released \in Nat, NEW refunded \in Nat,
           NEW status \in Statuses
    PROVE  [d EXCEPT !.released = released, !.refunded = refunded, !.status = status]
              \in EscrowRecord
BY DEF EscrowRecord

\* Changing the status of an escrow leaves a well-formed record.
LEMMA StatusUpdate ==
    ASSUME NEW d \in EscrowRecord, NEW status \in Statuses
    PROVE  [d EXCEPT !.status = status] \in EscrowRecord
BY DEF EscrowRecord

\* An escrow that is being closed, and what it is divided into.
LEMMA Divided ==
    ASSUME Inv, NEW e \in Escrows, escrow[e].status \in Holding,
           NEW share \in 0 .. escrow[e].amount
    PROVE  /\ FeeOf(share, escrow[e].feeBps) \in 0 .. share
           /\ escrow[e].released = 0 /\ escrow[e].refunded = 0
           /\ escrow[e].amount \in Nat
           /\ escrow[e].token \in Tokens
           /\ escrow[e] \in EscrowRecord
<1>1. escrow[e] \in EscrowRecord /\ escrow[e].amount \in Nat
      /\ escrow[e].feeBps \in 0 .. MaxFeeBps
  BY DEF Inv, TypeOK, EscrowRecord
<1>2. share \in Nat
  BY <1>1
<1>3. FeeOf(share, escrow[e].feeBps) \in 0 .. share
  BY <1>1, <1>2, FeeBounded
<1>4. escrow[e].status \notin Terminal /\ escrow[e].status # "None"
  BY DEF Holding, Terminal
<1>5. QED
  BY <1>1, <1>3, <1>4 DEF Inv, FullyDivided, Named

\* release closes the escrow in the provider's favour, less the fee.
LEMMA ReleaseCloses ==
    ASSUME Inv, NEW caller \in Accounts, NEW e \in Escrows, Release(caller, e)
    PROVE  ClosesAndPays(e)
<1>. DEFINE d == escrow[e]
            fee == FeeOf(d.amount, d.feeBps)
<1>1. d.status \in Holding
  BY DEF Release, Payable, Holding
<1>2. d.amount \in Nat /\ d.amount \in 0 .. d.amount
  BY DEF Inv, TypeOK, EscrowRecord
<1>3. /\ fee \in 0 .. d.amount /\ d.released = 0 /\ d.refunded = 0
      /\ d.token \in Tokens /\ d \in EscrowRecord
  BY <1>1, <1>2, Divided
<1>4. /\ escrow' = [escrow EXCEPT ![e].released = d.amount, ![e].status = "Released"]
      /\ feesCollected' = [feesCollected EXCEPT ![d.token] = @ + fee]
      /\ PayOut(d.token, d.provider, d.amount - fee, d.buyer, 0, fee)
      /\ UNCHANGED <<feeBps, feeRecipient, paused, arbiters, now>>
  BY DEF Release, FeeFor
<1>5. /\ escrow' \in [Escrows -> EscrowRecord]
      /\ \A x \in Escrows \ {e} : escrow'[x] = escrow[x]
      /\ escrow'[e] = [d EXCEPT !.released = d.amount, !.status = "Released"]
  BY <1>2, <1>3, <1>4 DEF Inv, TypeOK, EscrowRecord, Statuses
<1>6. /\ escrow'[e].status = "Released" /\ escrow'[e].released = d.amount
      /\ escrow'[e].refunded = 0
      /\ escrow'[e] = [d EXCEPT !.status = escrow'[e].status,
                                !.released = escrow'[e].released,
                                !.refunded = escrow'[e].refunded]
  BY <1>3, <1>5 DEF EscrowRecord
<1>7. QED
  BY <1>1, <1>2, <1>4, <1>5, <1>6 DEF ClosesAndPays, Terminal

\* refund closes the escrow in the buyer's favour, and takes no fee.
LEMMA RefundCloses ==
    ASSUME Inv, NEW caller \in Accounts, NEW e \in Escrows, Refund(caller, e)
    PROVE  ClosesAndPays(e)
<1>. DEFINE d == escrow[e]
<1>1. d.status \in Holding
  BY DEF Refund, Payable, Holding
<1>2. d.amount \in Nat /\ 0 \in 0 .. d.amount
  BY DEF Inv, TypeOK, EscrowRecord
<1>3. /\ FeeOf(0, d.feeBps) = 0 /\ d.released = 0 /\ d.refunded = 0
      /\ d.token \in Tokens /\ d \in EscrowRecord
  BY <1>1, <1>2, Divided
<1>4. /\ escrow' = [escrow EXCEPT ![e].refunded = d.amount, ![e].status = "Refunded"]
      /\ PayOut(d.token, d.provider, 0, d.buyer, d.amount, 0)
      /\ UNCHANGED <<feeBps, feeRecipient, feesCollected, paused, arbiters, now>>
  BY DEF Refund
<1>5. /\ escrow' \in [Escrows -> EscrowRecord]
      /\ \A x \in Escrows \ {e} : escrow'[x] = escrow[x]
      /\ escrow'[e] = [d EXCEPT !.refunded = d.amount, !.status = "Refunded"]
  BY <1>2, <1>3, <1>4 DEF Inv, TypeOK, EscrowRecord, Statuses
<1>6. /\ escrow'[e].status = "Refunded" /\ escrow'[e].released = 0
      /\ escrow'[e].refunded = d.amount
      /\ escrow'[e] = [d EXCEPT !.status = escrow'[e].status,
                                !.released = escrow'[e].released,
                                !.refunded = escrow'[e].refunded]
  BY <1>3, <1>5 DEF EscrowRecord
<1>7. feesCollected' = [feesCollected EXCEPT ![d.token] = @ + FeeOf(escrow'[e].released, d.feeBps)]
  BY <1>3, <1>4, <1>6 DEF Inv, TypeOK
<1>8. QED
  <2>1. PayOut(d.token, d.provider, escrow'[e].released - FeeOf(escrow'[e].released, d.feeBps),
               d.buyer, escrow'[e].refunded, FeeOf(escrow'[e].released, d.feeBps))
    BY <1>3, <1>4, <1>6
  <2>2. QED
    <3>1. escrow'[e].released + escrow'[e].refunded = d.amount
      BY <1>2, <1>6
    <3>2. escrow'[e].status \in Terminal
      BY <1>6 DEF Terminal
    <3>3. UNCHANGED <<feeBps, feeRecipient, paused, arbiters, now>>
      BY <1>4
    <3>4. QED
      BY <1>1, <1>5, <1>6, <1>7, <2>1, <3>1, <3>2, <3>3, Zenon DEF ClosesAndPays

\* settleDispute closes the escrow with a split.
LEMMA SettleCloses ==
    ASSUME Inv, NEW caller \in Accounts, NEW e \in Escrows, Settle(caller, e)
    PROVE  ClosesAndPays(e)
<1>1. PICK share \in 0 .. MaxAmount, buyerAmount \in 0 .. MaxAmount :
          SettleDispute(caller, e, share, buyerAmount)
  BY DEF Settle
<1>. DEFINE d == escrow[e]
            fee == FeeOf(share, d.feeBps)
<1>2. d.status \in Holding
  BY <1>1 DEF SettleDispute, Holding
<1>3. d.amount \in Nat /\ share \in Nat /\ share \in 0 .. d.amount
  BY <1>1, ConstantsAssumption DEF SettleDispute, Inv, TypeOK, EscrowRecord
<1>4. /\ fee \in 0 .. share /\ d.released = 0 /\ d.refunded = 0
      /\ d.token \in Tokens /\ d \in EscrowRecord
  BY <1>2, <1>3, Divided
<1>5. /\ escrow' = [escrow EXCEPT ![e] = [@ EXCEPT !.released = share,
                                                   !.refunded = d.amount - share,
                                                   !.status = "Settled"]]
      /\ feesCollected' = [feesCollected EXCEPT ![d.token] = @ + fee]
      /\ PayOut(d.token, d.provider, share - fee, d.buyer, d.amount - share, fee)
      /\ UNCHANGED <<feeBps, feeRecipient, paused, arbiters, now>>
  BY <1>1 DEF SettleDispute, FeeFor, BuyerTotal
<1>6. /\ escrow' \in [Escrows -> EscrowRecord]
      /\ \A x \in Escrows \ {e} : escrow'[x] = escrow[x]
      /\ escrow'[e] = [d EXCEPT !.released = share, !.refunded = d.amount - share,
                                !.status = "Settled"]
  <2>1. /\ \A x \in Escrows \ {e} : escrow'[x] = escrow[x]
        /\ escrow'[e] = [d EXCEPT !.released = share, !.refunded = d.amount - share,
                                  !.status = "Settled"]
        /\ escrow' = [x \in Escrows |-> escrow'[x]]
    BY <1>5 DEF Inv, TypeOK
  <2>2. escrow'[e] \in EscrowRecord
    <3>1. d.amount - share \in Nat /\ "Settled" \in Statuses
      BY <1>3 DEF Statuses
    <3>2. [d EXCEPT !.released = share, !.refunded = d.amount - share, !.status = "Settled"]
             \in EscrowRecord
      BY <1>3, <1>4, <3>1, RecordUpdate
    <3>3. QED
      BY <2>1, <3>2
  <2>3. QED
    BY <2>1, <2>2 DEF Inv, TypeOK
<1>7. /\ escrow'[e].status = "Settled" /\ escrow'[e].released = share
      /\ escrow'[e].refunded = d.amount - share
      /\ escrow'[e] = [d EXCEPT !.status = escrow'[e].status,
                                !.released = escrow'[e].released,
                                !.refunded = escrow'[e].refunded]
  BY <1>4, <1>6 DEF EscrowRecord
<1>8. QED
  BY <1>2, <1>3, <1>5, <1>6, <1>7 DEF ClosesAndPays, Terminal

\* Actions that leave the escrows, the fees collected and the balances alone.
LEMMA SettingsPreserve ==
    ASSUME Inv, UNCHANGED <<escrow, feesCollected, wallet>>,
           feeBps' \in 0 .. MaxFeeBps, feeRecipient' \in Accounts,
           paused' \in BOOLEAN, arbiters' \subseteq Accounts, now' \in Time
    PROVE  Inv'
<1>1. TypeOK' /\ Named' /\ FullyDivided'
  BY DEF Inv, TypeOK, Named, FullyDivided
<1>2. Solvent' /\ FeesReconcile'
  BY DEF Inv, Solvent, FeesReconcile, Held, FeePaid, Outstanding
<1>3. QED
  BY <1>1, <1>2 DEF Inv

\* dispute moves no money.
LEMMA DisputePreserves ==
    ASSUME Inv, NEW caller \in Accounts, NEW e \in Escrows, Dispute(caller, e)
    PROVE  Inv'
<1>1. /\ escrow[e].status = "Funded"
      /\ escrow' = [escrow EXCEPT ![e].status = "Disputed"]
      /\ UNCHANGED <<feeBps, feeRecipient, feesCollected, paused, arbiters, wallet, now>>
  BY DEF Dispute
<1>2. /\ \A x \in Escrows \ {e} : escrow'[x] = escrow[x]
      /\ escrow'[e] = [escrow[e] EXCEPT !.status = "Disputed"]
      /\ escrow' = [x \in Escrows |-> escrow'[x]]
  BY <1>1 DEF Inv, TypeOK
<1>3. escrow' \in [Escrows -> EscrowRecord]
  <2>1. escrow'[e] \in EscrowRecord
    <3>1. escrow[e] \in EscrowRecord
      BY DEF Inv, TypeOK
    <3>2. [escrow[e] EXCEPT !.status = "Disputed"] \in EscrowRecord
      BY <3>1, StatusUpdate DEF Statuses
    <3>3. QED
      BY <1>2, <3>2
  <2>2. QED
    BY <1>2, <2>1 DEF Inv, TypeOK
<1>4. \A x \in Escrows :
         /\ escrow'[x].status # escrow[x].status =>
                escrow'[x].status = "Disputed" /\ escrow[x].status = "Funded"
         /\ escrow'[x].buyer = escrow[x].buyer /\ escrow'[x].provider = escrow[x].provider
         /\ escrow'[x].token = escrow[x].token /\ escrow'[x].amount = escrow[x].amount
         /\ escrow'[x].released = escrow[x].released
         /\ escrow'[x].refunded = escrow[x].refunded
         /\ escrow'[x].feeBps = escrow[x].feeBps
  BY <1>1, <1>2 DEF Inv, TypeOK, EscrowRecord
<1>5. TypeOK' /\ Named'
  BY <1>1, <1>3, <1>4 DEF Inv, TypeOK, Named
<1>6. FullyDivided'
  BY <1>4 DEF Inv, FullyDivided, Holding, Terminal
<1>7. Solvent' /\ FeesReconcile'
  <2>1. \A t \in Tokens : Held(t)' = Held(t) /\ FeePaid(t)' = FeePaid(t)
    BY <1>4 DEF Held, FeePaid, Outstanding
  <2>2. QED
    BY <1>1, <2>1 DEF Inv, Solvent, FeesReconcile
<1>8. QED
  BY <1>5, <1>6, <1>7 DEF Inv

\* setFeeConfig, pause and unpause touch neither the books nor the balances.
LEMMA GovernPreserves ==
    ASSUME Inv, NEW caller \in Accounts, Govern(caller)
    PROVE  Inv'
<1>0. /\ feeBps \in 0 .. MaxFeeBps /\ feeRecipient \in Accounts
      /\ paused \in BOOLEAN /\ arbiters \subseteq Accounts /\ now \in Time
  BY DEF Inv, TypeOK
<1>1. ASSUME NEW bps \in FeeChoices, NEW recipient \in Accounts \cup {Zero},
             SetFeeConfig(caller, bps, recipient)
      PROVE  Inv'
  <2>1. bps \in 0 .. MaxFeeBps /\ recipient \in Accounts
    BY <1>1, ConstantsAssumption, FeeAssumption DEF SetFeeConfig, FeeWithinCap
  <2>2. QED
    BY <1>0, <1>1, <2>1, SettingsPreserve DEF SetFeeConfig
<1>2. CASE Pause(caller)
  BY <1>0, <1>2, SettingsPreserve DEF Pause
<1>3. CASE Unpause(caller)
  BY <1>0, <1>3, SettingsPreserve DEF Unpause
<1>4. QED
  BY <1>1, <1>2, <1>3 DEF Govern

\* Neither time nor the role table touches the books or the balances.
LEMMA EnvironmentPreserves ==
    ASSUME Inv,
           Tick \/ \E account \in ArbiterCandidates : GrantArbiter(account) \/ RevokeArbiter(account)
    PROVE  Inv'
<1>0. /\ feeBps \in 0 .. MaxFeeBps /\ feeRecipient \in Accounts
      /\ paused \in BOOLEAN /\ arbiters \subseteq Accounts /\ now \in Time
  BY DEF Inv, TypeOK
<1>1. CASE Tick
  <2>1. now' \in Time
    BY <1>0, <1>1, ConstantsAssumption DEF Tick, Time
  <2>2. QED
    BY <1>0, <1>1, <2>1, SettingsPreserve DEF Tick, contractVars
<1>2. ASSUME NEW account \in ArbiterCandidates,
             GrantArbiter(account) \/ RevokeArbiter(account)
      PROVE  Inv'
  <2>1. arbiters' \subseteq Accounts
    BY <1>0, <1>2, ConstantsAssumption DEF GrantArbiter, RevokeArbiter
  <2>2. QED
    BY <1>0, <1>2, <2>1, SettingsPreserve DEF GrantArbiter, RevokeArbiter
<1>3. QED
  BY <1>1, <1>2

-----------------------------------------------------------------------------
\* The freshly deployed contract satisfies the invariant.
LEMMA InitialInvariant == Init => Inv
<1>. SUFFICES ASSUME Init PROVE Inv
  OBVIOUS
<1>1. \A x \in Escrows : escrow[x] = NoEscrow
  BY DEF Init
<1>2. NoEscrow \in EscrowRecord
  BY FeeAssumption DEF NoEscrow, EscrowRecord, Statuses
<1>3. TypeOK
  <2>1. wallet \in [Tokens -> [Accounts \cup {Vault} -> Nat]]
    BY ConstantsAssumption DEF Init
  <2>2. feeBps \in 0 .. MaxFeeBps
    BY ConstantsAssumption, FeeAssumption DEF Init
  <2>3. escrow \in [Escrows -> EscrowRecord] /\ feesCollected \in [Tokens -> Nat]
    BY <1>2 DEF Init
  <2>4. feeRecipient \in Accounts /\ paused \in BOOLEAN /\ arbiters \subseteq Accounts
    BY ConstantsAssumption DEF Init
  <2>5. now \in Time
    BY ConstantsAssumption DEF Init, Time
  <2>6. QED
    BY <2>1, <2>2, <2>3, <2>4, <2>5 DEF TypeOK
<1>4. Named
  BY <1>1 DEF Named, NoEscrow
<1>5. FullyDivided
  BY <1>1 DEF FullyDivided, NoEscrow, Holding, Terminal
<1>6. Solvent /\ FeesReconcile
  <2>1. SUFFICES ASSUME NEW t \in Tokens
                 PROVE  /\ wallet[t][Vault] = Total(Held(t), NEscrows)
                        /\ feesCollected[t] = Total(FeePaid(t), NEscrows)
    BY DEF Solvent, FeesReconcile
  <2>2. wallet[t][Vault] = 0 /\ feesCollected[t] = 0
    BY DEF Init
  <2>3. \A i \in 1 .. NEscrows : Held(t)[i] = 0 /\ FeePaid(t)[i] = 0
    BY <1>1, ConstantsAssumption DEF Held, FeePaid, Outstanding, NoEscrow
  <2>4. QED
    BY <2>2, <2>3, TotalOfNothing, ConstantsAssumption
<1>7. QED
  BY <1>3, <1>4, <1>5, <1>6 DEF Inv

\* Every transaction, and every step of the environment, preserves it.
LEMMA StepPreserves == Inv /\ [Next]_vars => Inv'
<1>. SUFFICES ASSUME Inv, [Next]_vars PROVE Inv'
  OBVIOUS
<1>1. ASSUME NEW caller \in Accounts, NEW e \in Escrows,
             \/ Create(caller, e) \/ Release(caller, e) \/ Refund(caller, e)
             \/ Dispute(caller, e) \/ Settle(caller, e)
      PROVE  Inv'
  BY <1>1, CreatePreserves, ReleaseCloses, RefundCloses, SettleCloses, Closing,
     DisputePreserves
<1>2. ASSUME NEW caller \in Accounts, Govern(caller) PROVE Inv'
  BY <1>2, GovernPreserves
<1>3. CASE Tick \/ \E account \in ArbiterCandidates : GrantArbiter(account) \/ RevokeArbiter(account)
  BY <1>3, EnvironmentPreserves
<1>4. CASE UNCHANGED vars
  <2>1. /\ feeBps \in 0 .. MaxFeeBps /\ feeRecipient \in Accounts
        /\ paused \in BOOLEAN /\ arbiters \subseteq Accounts /\ now \in Time
    BY DEF Inv, TypeOK
  <2>2. QED
    BY <1>4, <2>1, SettingsPreserve DEF vars
<1>5. QED
  BY <1>1, <1>2, <1>3, <1>4 DEF Next

\* The invariant holds in every reachable state.
THEOREM InvariantHolds == Spec => []Inv
<1>1. QED
  BY InitialInvariant, StepPreserves, PTL DEF Spec

\* Storage, balances and roles are always well formed.
THEOREM TypeCorrect == Spec => []TypeOK
<1>1. Inv => TypeOK
  BY DEF Inv
<1>2. QED
  BY <1>1, InvariantHolds, PTL

\* A held escrow has paid out nothing, and a terminal one everything.
THEOREM EscrowsFullyDivided == Spec => []FullyDivided
<1>1. Inv => FullyDivided
  BY DEF Inv
<1>2. QED
  BY <1>1, InvariantHolds, PTL

\* The contract always holds exactly what its open escrows are owed, in every
\* token, for any number of escrows, accounts and tokens, any fee scale and
\* any interleaving of calls.
THEOREM ContractSolvent == Spec => []Solvent
<1>1. Inv => Solvent
  BY DEF Inv
<1>2. QED
  BY <1>1, InvariantHolds, PTL

\* The running total of fees reconciles with the rates frozen in the escrows.
THEOREM FeesAccountedFor == Spec => []FeesReconcile
<1>1. Inv => FeesReconcile
  BY DEF Inv
<1>2. QED
  BY <1>1, InvariantHolds, PTL

-----------------------------------------------------------------------------
(* Terms and terminal states, step by step.                                *)

\* What TermsFrozen asks of one escrow in one step.
Frozen(x) ==
    /\ escrow[x].status # "None" =>
          escrow'[x] = [escrow[x] EXCEPT !.status = escrow'[x].status,
                                         !.released = escrow'[x].released,
                                         !.refunded = escrow'[x].refunded]
    /\ escrow[x].status \in Terminal => escrow'[x] = escrow[x]

\* An escrow no function touched keeps its terms.
LEMMA UntouchedIsFrozen ==
    ASSUME TypeOK, NEW x \in Escrows, escrow'[x] = escrow[x]
    PROVE  Frozen(x)
<1>1. escrow[x] \in EscrowRecord
  BY DEF TypeOK
<1>2. \A d \in EscrowRecord :
          d = [d EXCEPT !.status = d.status, !.released = d.released, !.refunded = d.refunded]
  BY DEF EscrowRecord
<1>3. QED
  BY <1>1, <1>2 DEF Frozen

\* Closing an escrow keeps its terms, and those of the others.
LEMMA ClosingFreezes ==
    ASSUME Inv, NEW e \in Escrows, ClosesAndPays(e), NEW x \in Escrows
    PROVE  Frozen(x)
<1>1. CASE x = e
  BY <1>1 DEF ClosesAndPays, Frozen, Holding, Terminal
<1>2. CASE x # e
  <2>1. escrow'[x] = escrow[x]
    BY <1>2 DEF ClosesAndPays
  <2>2. QED
    BY <2>1, UntouchedIsFrozen DEF Inv
<1>3. QED
  BY <1>1, <1>2

\* createEscrow writes over no existing escrow.
LEMMA CreateFreezes ==
    ASSUME Inv, NEW caller \in Accounts, NEW e \in Escrows, Create(caller, e),
           NEW x \in Escrows
    PROVE  Frozen(x)
<1>1. PICK provider \in Accounts \cup {Zero}, token \in Tokens \cup {Zero},
           amount \in 0 .. MaxAmount, deliveryWindow \in Windows, autoReleaseWindow \in Windows :
        CreateEscrow(caller, e, provider, token, amount, deliveryWindow, autoReleaseWindow)
  BY DEF Create
<1>2. CASE x = e
  BY <1>1, <1>2 DEF CreateEscrow, Unused, Frozen, Terminal
<1>3. CASE x # e
  <2>1. escrow'[x] = escrow[x]
    BY <1>1, <1>3 DEF CreateEscrow, Inv, TypeOK
  <2>2. QED
    BY <2>1, UntouchedIsFrozen DEF Inv
<1>4. QED
  BY <1>2, <1>3

\* dispute keeps the terms of every escrow.
LEMMA DisputeFreezes ==
    ASSUME Inv, NEW caller \in Accounts, NEW e \in Escrows, Dispute(caller, e),
           NEW x \in Escrows
    PROVE  Frozen(x)
<1>1. escrow[e].status = "Funded" /\ escrow' = [escrow EXCEPT ![e].status = "Disputed"]
  BY DEF Dispute
<1>2. CASE x = e
  <2>1. escrow[e] \in EscrowRecord
    BY DEF Inv, TypeOK
  <2>2. escrow'[e] = [escrow[e] EXCEPT !.status = "Disputed"]
    BY <1>1 DEF Inv, TypeOK
  <2>3. \A d \in EscrowRecord : \A c : c = [d EXCEPT !.status = "Disputed"] =>
            c = [d EXCEPT !.status = c.status, !.released = c.released, !.refunded = c.refunded]
    BY DEF EscrowRecord
  <2>4. escrow'[e] = [escrow[e] EXCEPT !.status = escrow'[e].status,
                                      !.released = escrow'[e].released,
                                      !.refunded = escrow'[e].refunded]
    BY <2>1, <2>2, <2>3, Zenon
  <2>5. escrow[e].status \notin Terminal
    BY <1>1 DEF Terminal
  <2>6. QED
    BY <1>2, <2>4, <2>5 DEF Frozen
<1>3. CASE x # e
  <2>1. escrow'[x] = escrow[x]
    BY <1>1, <1>3 DEF Inv, TypeOK
  <2>2. QED
    BY <2>1, UntouchedIsFrozen DEF Inv
<1>4. QED
  BY <1>2, <1>3

\* No step changes an escrow's terms, or a terminal escrow.
LEMMA StepFreezes ==
    ASSUME Inv, [Next]_vars
    PROVE  \A x \in Escrows : Frozen(x)
<1>1. SUFFICES ASSUME NEW x \in Escrows PROVE Frozen(x)
  OBVIOUS
<1>2. ASSUME NEW caller \in Accounts, NEW e \in Escrows,
             \/ Create(caller, e) \/ Release(caller, e) \/ Refund(caller, e)
             \/ Dispute(caller, e) \/ Settle(caller, e)
      PROVE  Frozen(x)
  <2>1. CASE Create(caller, e)
    BY <2>1, CreateFreezes
  <2>2. CASE Dispute(caller, e)
    BY <2>2, DisputeFreezes
  <2>3. CASE Release(caller, e) \/ Refund(caller, e) \/ Settle(caller, e)
    <3>1. ClosesAndPays(e)
      BY <2>3, ReleaseCloses, RefundCloses, SettleCloses
    <3>2. QED
      BY <3>1, ClosingFreezes
  <2>4. QED
    BY <1>2, <2>1, <2>2, <2>3
<1>3. ASSUME UNCHANGED escrow PROVE Frozen(x)
  BY <1>3, UntouchedIsFrozen DEF Inv
<1>4. ASSUME NEW caller \in Accounts, Govern(caller) PROVE UNCHANGED escrow
  BY <1>4 DEF Govern, SetFeeConfig, Pause, Unpause
<1>5. ASSUME Tick \/ \E account \in ArbiterCandidates :
                        GrantArbiter(account) \/ RevokeArbiter(account)
      PROVE  UNCHANGED escrow
  BY <1>5 DEF Tick, contractVars, GrantArbiter, RevokeArbiter
<1>6. CASE UNCHANGED vars
  BY <1>3, <1>6 DEF vars
<1>7. QED
  BY <1>2, <1>3, <1>4, <1>5, <1>6 DEF Next

\* The terms of an escrow never change after its creation, and nothing about
\* it does once it is terminal: no second payout and no reuse of its id.
THEOREM TermsNeverChange == Spec => TermsFrozen
<1>1. Inv /\ [Next]_vars =>
        [\A e \in Escrows :
            LET before == escrow[e]
                after == escrow'[e]
            IN
            /\ before.status # "None" =>
                  after = [before EXCEPT !.status = after.status,
                                         !.released = after.released,
                                         !.refunded = after.refunded]
            /\ before.status \in Terminal => after = before]_vars
  BY StepFreezes DEF Frozen
<1>2. QED
  BY <1>1, InvariantHolds, PTL DEF Spec, TermsFrozen

-----------------------------------------------------------------------------
(* The contract implements the conditional payment of EscrowLedger.        *)

\* The ledger's view of the contract.
Phase == [e \in Escrows |-> PhaseOf(escrow[e].status)]
Terms == [e \in Escrows |->
            [buyer |-> escrow[e].buyer, provider |-> escrow[e].provider,
             token |-> escrow[e].token, amount |-> escrow[e].amount]]

LEMMA Phases ==
    /\ PhaseOf("None") = "absent" /\ PhaseOf("Funded") = "open" /\ PhaseOf("Disputed") = "frozen"
    /\ \A s \in Terminal : PhaseOf(s) = "closed"
BY DEF PhaseOf, Terminal

\* Rounding keeps a fee within the cap's share of what it is a fee on.
LEMMA FeeWithinShare ==
    ASSUME NEW value \in Nat, NEW bps \in 0 .. MaxFeeBps
    PROVE  FeeOf(value, bps) * BpsDenominator <= value * MaxFeeBps
<1>1. BpsDenominator \in Nat \ {0} /\ MaxFeeBps \in Nat /\ bps \in Nat
  BY FeeAssumption
<1>2. \A x \in Nat, d \in Nat \ {0} : (x \div d) * d <= x
  OBVIOUS
<1>3. value * bps \in Nat /\ (value * bps) \div BpsDenominator \in Nat
  BY <1>1
<1>4. value * bps <= value * MaxFeeBps
  BY <1>1
<1>5. FeeOf(value, bps) * BpsDenominator <= value * bps
  BY <1>1, <1>2, <1>3 DEF FeeOf
<1>6. FeeOf(value, bps) * BpsDenominator \in Int /\ value * MaxFeeBps \in Int
  BY <1>1, <1>3 DEF FeeOf
<1>7. QED
  BY <1>3, <1>4, <1>5, <1>6

-----------------------------------------------------------------------------
\* A change of one escrow, as the ledger sees it.
LEMMA View ==
    ASSUME NEW e \in Escrows, \A x \in Escrows \ {e} : escrow'[x] = escrow[x]
    PROVE  /\ Phase' = [Phase EXCEPT ![e] = PhaseOf(escrow'[e].status)]
           /\ Terms' = [Terms EXCEPT ![e] =
                  [buyer |-> escrow'[e].buyer, provider |-> escrow'[e].provider,
                   token |-> escrow'[e].token, amount |-> escrow'[e].amount]]
<1>1. Phase' = [Phase EXCEPT ![e] = PhaseOf(escrow'[e].status)]
  <2>1. \A x \in Escrows : Phase'[x] = IF x = e THEN PhaseOf(escrow'[e].status) ELSE Phase[x]
    BY DEF Phase
  <2>2. QED
    BY <2>1 DEF Phase
<1>2. Terms' = [Terms EXCEPT ![e] =
                  [buyer |-> escrow'[e].buyer, provider |-> escrow'[e].provider,
                   token |-> escrow'[e].token, amount |-> escrow'[e].amount]]
  BY DEF Terms
<1>3. QED
  BY <1>1, <1>2

LEMMA CreateDeposits ==
    ASSUME Inv, NEW caller \in Accounts, NEW e \in Escrows, Create(caller, e)
    PROVE  Ledger!Deposit(e)
<1>1. PICK provider \in Accounts \cup {Zero}, token \in Tokens \cup {Zero},
           amount \in 0 .. MaxAmount, deliveryWindow \in Windows, autoReleaseWindow \in Windows :
        CreateEscrow(caller, e, provider, token, amount, deliveryWindow, autoReleaseWindow)
  BY DEF Create
<1>2. /\ provider \in Accounts /\ token \in Tokens /\ amount \in Nat \ {0}
      /\ escrow[e].status = "None" /\ provider # caller
      /\ wallet[token][caller] >= amount /\ wallet[token][caller] \in Nat
      /\ wallet' = [wallet EXCEPT ![token][caller] = @ - amount, ![token][Vault] = @ + amount]
  <2>1. provider \in Accounts /\ token \in Tokens /\ amount \in Nat \ {0}
    BY <1>1, ConstantsAssumption DEF CreateEscrow
  <2>2. wallet[token][caller] \in Nat
    BY <2>1 DEF Inv, TypeOK
  <2>3. QED
    BY <1>1, <2>1, <2>2 DEF CreateEscrow, Unused, AcceptsTransfer
<1>3. /\ escrow'[e].buyer = caller /\ escrow'[e].provider = provider
      /\ escrow'[e].token = token /\ escrow'[e].amount = amount
      /\ escrow'[e].status = "Funded"
      /\ \A x \in Escrows \ {e} : escrow'[x] = escrow[x]
  BY <1>1 DEF CreateEscrow, Inv, TypeOK
<1>4. /\ Phase[e] = "absent" /\ Phase' = [Phase EXCEPT ![e] = "open"]
      /\ Terms' = [Terms EXCEPT ![e] = [buyer |-> caller, provider |-> provider,
                                        token |-> token, amount |-> amount]]
  BY <1>2, <1>3, View, Phases DEF Phase
<1>5. amount \in 1 .. wallet[token][caller]
  BY <1>2
<1>6. QED
  BY <1>2, <1>4, <1>5 DEF Ledger!Deposit, Ledger!Move, Phase, Terms

LEMMA DisputeFreezesDeposit ==
    ASSUME Inv, NEW caller \in Accounts, NEW e \in Escrows, Dispute(caller, e)
    PROVE  Ledger!Freeze(e)
<1>1. /\ escrow[e].status = "Funded" /\ escrow' = [escrow EXCEPT ![e].status = "Disputed"]
      /\ wallet' = wallet
  BY DEF Dispute
<1>2. escrow[e] \in EscrowRecord
  BY DEF Inv, TypeOK
<1>3. /\ escrow'[e].status = "Disputed"
      /\ escrow'[e].buyer = escrow[e].buyer /\ escrow'[e].provider = escrow[e].provider
      /\ escrow'[e].token = escrow[e].token /\ escrow'[e].amount = escrow[e].amount
      /\ \A x \in Escrows \ {e} : escrow'[x] = escrow[x]
  BY <1>1, <1>2 DEF Inv, TypeOK, EscrowRecord
<1>4. Phase[e] = "open" /\ Phase' = [Phase EXCEPT ![e] = "frozen"] /\ Terms' = Terms
  <2>1. Phase[e] = "open" /\ Phase' = [Phase EXCEPT ![e] = "frozen"]
    BY <1>1, <1>3, View, Phases DEF Phase
  <2>2. Terms' = Terms
    BY <1>3 DEF Terms
  <2>3. QED
    BY <2>1, <2>2
<1>5. QED
  BY <1>1, <1>4 DEF Ledger!Freeze, Phase, Terms

LEMMA ClosingPaysOut ==
    ASSUME Inv, NEW e \in Escrows, ClosesAndPays(e)
    PROVE  Ledger!Close(e)
<1>. DEFINE d == escrow[e]
            c == escrow'[e]
            fee == FeeOf(c.released, d.feeBps)
<1>1. /\ d \in EscrowRecord /\ c \in EscrowRecord
      /\ d.status \in Holding /\ c.status \in Terminal
      /\ \A x \in Escrows \ {e} : escrow'[x] = escrow[x]
      /\ c.released + c.refunded = d.amount
  BY DEF ClosesAndPays, Inv, TypeOK
<1>2. /\ c.buyer = d.buyer /\ c.provider = d.provider /\ c.token = d.token
      /\ c.amount = d.amount /\ c.feeBps = d.feeBps
  BY <1>1 DEF ClosesAndPays, EscrowRecord
<1>3. /\ c.released \in Nat /\ c.refunded \in Nat /\ d.amount \in Nat
      /\ d.feeBps \in 0 .. MaxFeeBps
  BY <1>1 DEF EscrowRecord
<1>4. fee \in 0 .. c.released /\ fee * BpsDenominator <= c.released * MaxFeeBps
  BY <1>3, FeeBounded, FeeWithinShare
<1>5. /\ wallet' = Move(Move(Move(wallet, d.token, Vault, d.provider, c.released - fee),
                                        d.token, Vault, d.buyer, c.refunded),
                                        d.token, Vault, feeRecipient, fee)
      /\ feeRecipient \in Accounts
  BY DEF ClosesAndPays, PayOut, Inv, TypeOK
<1>6. Phase[e] \in {"open", "frozen"} /\ Phase' = [Phase EXCEPT ![e] = "closed"]
  BY <1>1, View, Phases DEF Phase, Holding
<1>7. Terms' = Terms /\ Terms[e].token = d.token /\ Terms[e].provider = d.provider
      /\ Terms[e].buyer = d.buyer /\ Terms[e].amount = d.amount
  BY <1>1, <1>2 DEF Terms
<1>8. /\ c.refunded \in 0 .. d.amount /\ fee \in 0 .. d.amount
      /\ c.released = d.amount - c.refunded /\ c.refunded + fee <= d.amount
  <2>. HIDE DEF fee
  <2>1. QED
    BY <1>1, <1>3, <1>4
<1>. HIDE DEF fee
<1>9. QED
  BY <1>4, <1>5, <1>6, <1>7, <1>8 DEF Ledger!Close, Ledger!Move, Move, Phase, Terms

LEMMA StepRefines ==
    ASSUME Inv, [Next]_vars
    PROVE  [Ledger!Next]_(Ledger!ledgerVars)
<1>1. ASSUME NEW caller \in Accounts, NEW e \in Escrows,
             \/ Create(caller, e) \/ Release(caller, e) \/ Refund(caller, e)
             \/ Dispute(caller, e) \/ Settle(caller, e)
      PROVE  Ledger!Next
  <2>1. Ledger!Deposit(e) \/ Ledger!Freeze(e) \/ Ledger!Close(e)
    BY <1>1, CreateDeposits, DisputeFreezesDeposit, ClosingPaysOut,
       ReleaseCloses, RefundCloses, SettleCloses
  <2>2. QED
    BY <2>1 DEF Ledger!Next
<1>2. ASSUME UNCHANGED <<escrow, wallet>> PROVE UNCHANGED Ledger!ledgerVars
  BY <1>2 DEF Ledger!ledgerVars
<1>3. ASSUME NEW caller \in Accounts, Govern(caller) PROVE UNCHANGED <<escrow, wallet>>
  BY <1>3 DEF Govern, SetFeeConfig, Pause, Unpause
<1>4. ASSUME Tick \/ \E account \in ArbiterCandidates :
                        GrantArbiter(account) \/ RevokeArbiter(account)
      PROVE  UNCHANGED <<escrow, wallet>>
  BY <1>4 DEF Tick, contractVars, GrantArbiter, RevokeArbiter
<1>5. CASE UNCHANGED vars
  BY <1>2, <1>5 DEF vars
<1>6. QED
  BY <1>1, <1>2, <1>3, <1>4, <1>5 DEF Next

\* Every behaviour of the contract is one of the ledger's: a deposit leaves the
\* vault once, whole, to its provider, its buyer and the fee recipient, and the
\* fee is within the cap's share of what the provider earned.
THEOREM ContractImplementsLedger == Spec => ImplementsLedger
<1>1. Init => Ledger!Init
  BY Phases DEF Init, Ledger!Init, NoEscrow
<1>2. Inv /\ [Next]_vars => [Ledger!Next]_(Ledger!ledgerVars)
  BY StepRefines
<1>3. QED
  BY <1>1, <1>2, InvariantHolds, PTL DEF Spec, Ledger!Spec, ImplementsLedger

-----------------------------------------------------------------------------
(* The advice.  The API reads a moment of zero as no moment at all: the    *)
(* advice is right because no escrow's deadlines are zero, and because     *)
(* nobody is both parties of one.                                          *)

WellMade ==
    \A x \in Escrows :
        escrow[x].status # "None" =>
            /\ escrow[x].buyer # escrow[x].provider
            /\ escrow[x].deliveryDeadline # 0 /\ escrow[x].autoReleaseAt # 0

\* createEscrow is what first gives an escrow a status, its parties and both
\* deadlines.
LEMMA CreateDates ==
    ASSUME Inv, NEW caller \in Accounts, NEW e \in Escrows, Create(caller, e)
    PROVE  /\ \A x \in Escrows \ {e} : escrow'[x] = escrow[x]
           /\ escrow'[e].buyer # escrow'[e].provider
           /\ escrow'[e].deliveryDeadline # 0 /\ escrow'[e].autoReleaseAt # 0
<1>1. PICK provider \in Accounts \cup {Zero}, token \in Tokens \cup {Zero},
           amount \in 0 .. MaxAmount, deliveryWindow \in Windows, autoReleaseWindow \in Windows :
        CreateEscrow(caller, e, provider, token, amount, deliveryWindow, autoReleaseWindow)
  BY DEF Create
<1>2. /\ escrow'[e].buyer = caller /\ escrow'[e].provider = provider /\ provider # caller
      /\ escrow'[e].deliveryDeadline = now + deliveryWindow
      /\ escrow'[e].autoReleaseAt = now + deliveryWindow + autoReleaseWindow
      /\ \A x \in Escrows \ {e} : escrow'[x] = escrow[x]
  BY <1>1 DEF CreateEscrow, Inv, TypeOK
<1>3. now \in Nat /\ deliveryWindow \in Nat \ {0} /\ autoReleaseWindow \in Nat \ {0}
  <2>1. deliveryWindow \in MinWindow .. MaxWindow /\ autoReleaseWindow \in MinWindow .. MaxWindow
    BY <1>1 DEF CreateEscrow
  <2>2. QED
    BY <2>1, ConstantsAssumption DEF Inv, TypeOK, Time
<1>4. QED
  BY <1>2, <1>3

\* An escrow that has a status had it before, or is being created.
LEMMA StatusFromCreation ==
    ASSUME Inv, [Next]_vars, NEW x \in Escrows, escrow[x].status = "None",
           escrow'[x].status # "None"
    PROVE  \E caller \in Accounts : Create(caller, x)
<1>1. ASSUME NEW caller \in Accounts, NEW e \in Escrows,
             \/ Create(caller, e) \/ Release(caller, e) \/ Refund(caller, e)
             \/ Dispute(caller, e) \/ Settle(caller, e)
      PROVE  \E c \in Accounts : Create(c, x)
  <2>1. CASE Create(caller, e)
    BY <2>1, CreateDates
  <2>2. CASE Dispute(caller, e)
    BY <2>2 DEF Dispute, Inv, TypeOK
  <2>3. CASE Release(caller, e) \/ Refund(caller, e) \/ Settle(caller, e)
    BY <2>3, ReleaseCloses, RefundCloses, SettleCloses DEF ClosesAndPays, Holding
  <2>4. QED
    BY <1>1, <2>1, <2>2, <2>3
<1>2. ASSUME NEW caller \in Accounts, Govern(caller) PROVE UNCHANGED escrow
  BY <1>2 DEF Govern, SetFeeConfig, Pause, Unpause
<1>3. ASSUME Tick \/ \E account \in ArbiterCandidates :
                        GrantArbiter(account) \/ RevokeArbiter(account)
      PROVE  UNCHANGED escrow
  BY <1>3 DEF Tick, contractVars, GrantArbiter, RevokeArbiter
<1>4. CASE UNCHANGED vars
  BY <1>4 DEF vars
<1>5. QED
  BY <1>1, <1>2, <1>3, <1>4 DEF Next

LEMMA StepDates ==
    ASSUME Inv, WellMade, [Next]_vars
    PROVE  WellMade'
<1>1. SUFFICES ASSUME NEW x \in Escrows, escrow'[x].status # "None"
               PROVE  /\ escrow'[x].buyer # escrow'[x].provider
                      /\ escrow'[x].deliveryDeadline # 0 /\ escrow'[x].autoReleaseAt # 0
  BY DEF WellMade
<1>2. CASE escrow[x].status = "None"
  BY <1>1, <1>2, StatusFromCreation, CreateDates
<1>3. CASE escrow[x].status # "None"
  <2>1. escrow[x] \in EscrowRecord
    BY DEF Inv, TypeOK
  <2>2. escrow'[x] = [escrow[x] EXCEPT !.status = escrow'[x].status,
                                       !.released = escrow'[x].released,
                                       !.refunded = escrow'[x].refunded]
    BY <1>3, StepFreezes DEF Frozen
  <2>3. /\ escrow'[x].buyer = escrow[x].buyer /\ escrow'[x].provider = escrow[x].provider
        /\ escrow'[x].deliveryDeadline = escrow[x].deliveryDeadline
        /\ escrow'[x].autoReleaseAt = escrow[x].autoReleaseAt
    BY <2>1, <2>2 DEF EscrowRecord
  <2>4. QED
    BY <1>3, <2>3 DEF WellMade
<1>4. QED
  BY <1>2, <1>3

\* What is open to everybody, to the buyer and to the provider together, is what
\* the API's conditions say of the roles.
LEMMA RolesOpen ==
    ASSUME Inv, WellMade, NEW e \in Escrows, NEW a
    PROVE  LET d == escrow[e]
               bought == "buyer" \in RolesOf(a, e)
               provides == "provider" \in RolesOf(a, e)
           IN
           /\ OpenToRoles(e, a) \subseteq {"release", "refund", "dispute"}
           /\ "release" \in OpenToRoles(e, a) <=>
                  Payable(d) /\ (bought \/ now >= d.autoReleaseAt)
           /\ "refund" \in OpenToRoles(e, a) <=>
                  Payable(d) /\ (provides \/ (bought /\ now >= d.deliveryDeadline))
           /\ "dispute" \in OpenToRoles(e, a) <=>
                  Payable(d) /\ ~paused /\ (bought \/ provides)
<1>. DEFINE d == escrow[e]
            bought == "buyer" \in RolesOf(a, e)
            provides == "provider" \in RolesOf(a, e)
<1>1. \A p : p \in ActsAs(e, a) <=>
                \/ p = Zero
                \/ p = d.buyer /\ bought
                \/ p = d.provider /\ provides
  BY DEF ActsAs
<1>2. \A p : /\ Accepted(e, p) \subseteq {"release", "refund", "dispute"}
             /\ "release" \in Accepted(e, p) <=> Payable(d) /\ MayRelease(p, d)
             /\ "refund" \in Accepted(e, p) <=> Payable(d) /\ MayRefund(p, d)
             /\ "dispute" \in Accepted(e, p) <=>
                    Payable(d) /\ ~paused /\ p \in {d.buyer, d.provider}
  BY DEF Accepted
<1>3. \A action : action \in OpenToRoles(e, a) <=>
                      \E p \in ActsAs(e, a) : action \in Accepted(e, p)
  BY DEF OpenToRoles
<1>4. Payable(d) => d.buyer # Zero /\ d.provider # Zero /\ d.buyer # d.provider
  BY ConstantsAssumption DEF Payable, Inv, Named, WellMade
<1>. HIDE DEF d, bought, provides
<1>5. "release" \in OpenToRoles(e, a) <=> Payable(d) /\ (bought \/ now >= d.autoReleaseAt)
  BY <1>1, <1>2, <1>3, <1>4 DEF MayRelease
<1>6. "refund" \in OpenToRoles(e, a) <=>
          Payable(d) /\ (provides \/ (bought /\ now >= d.deliveryDeadline))
  BY <1>1, <1>2, <1>3, <1>4 DEF MayRefund
<1>7. "dispute" \in OpenToRoles(e, a) <=> Payable(d) /\ ~paused /\ (bought \/ provides)
  BY <1>1, <1>2, <1>3, <1>4
<1>8. OpenToRoles(e, a) \subseteq {"release", "refund", "dispute"}
  BY <1>2, <1>3
<1>9. QED
  BY <1>5, <1>6, <1>7, <1>8 DEF d, bought, provides

\* Where the roles are those of the person's address, the contract agrees.
LEMMA RolesHeld ==
    ASSUME Inv, WellMade, NEW e \in Escrows, NEW a \in Accounts, HoldsItsRoles(e, a)
    PROVE  OpenToRoles(e, a) = Accepted(e, a)
<1>. DEFINE d == escrow[e]
            A == Accepted(e, a)
            open == OpenToRoles(e, a)
<1>1. /\ A \subseteq {"release", "refund", "dispute"}
      /\ "release" \in A <=> Payable(d) /\ MayRelease(a, d)
      /\ "refund" \in A <=> Payable(d) /\ MayRefund(a, d)
      /\ "dispute" \in A <=> Payable(d) /\ ~paused /\ a \in {d.buyer, d.provider}
  BY DEF Accepted
<1>2. /\ "buyer" \in RolesOf(a, e) <=> a = d.buyer
      /\ "provider" \in RolesOf(a, e) <=> a = d.provider
  BY DEF HoldsItsRoles
<1>3. /\ open \subseteq {"release", "refund", "dispute"}
      /\ "release" \in open <=> Payable(d) /\ MayRelease(a, d)
      /\ "refund" \in open <=> Payable(d) /\ MayRefund(a, d)
      /\ "dispute" \in open <=> Payable(d) /\ ~paused /\ a \in {d.buyer, d.provider}
  BY <1>2, RolesOpen DEF MayRelease, MayRefund
<1>. HIDE DEF A, open
<1>4. A \subseteq open
  BY <1>1, <1>3
<1>5. open \subseteq A
  BY <1>1, <1>3
<1>6. QED
  BY <1>4, <1>5 DEF A, open

LEMMA AdviceIsRight ==
    ASSUME Inv, WellMade
    PROVE  AdviceMatchesContract
<1>1. SUFFICES ASSUME NEW e \in Escrows, NEW a \in Accounts
               PROVE  /\ Options(e, a, TRUE) = OpenToRoles(e, a)
                      /\ Options(e, a, FALSE) \ {"dispute"} = OpenToRoles(e, a) \ {"dispute"}
                      /\ OpenToRoles(e, a) \subseteq Options(e, a, FALSE)
  BY RolesHeld DEF AdviceMatchesContract
<1>. DEFINE d == escrow[e]
            chain == OnChain(d)
            roles == RolesOf(a, e)
            open == OpenToRoles(e, a)
            known == Options(e, a, TRUE)
            unknown == Options(e, a, FALSE)
<1>2. /\ open \subseteq {"release", "refund", "dispute"}
      /\ "release" \in open <=> Payable(d) /\ ("buyer" \in roles \/ now >= d.autoReleaseAt)
      /\ "refund" \in open <=>
             Payable(d) /\ ("provider" \in roles \/ ("buyer" \in roles /\ now >= d.deliveryDeadline))
      /\ "dispute" \in open <=> Payable(d) /\ ~paused /\ ("buyer" \in roles \/ "provider" \in roles)
  BY RolesOpen
<1>3. StillLive(chain) <=> Payable(d)
  BY DEF StillLive, OnChain, Payable
<1>4. Payable(d) => /\ Passed(chain.deadline) <=> now >= d.deliveryDeadline
                    /\ Passed(chain.autoRelease) <=> now >= d.autoReleaseAt
  BY DEF Payable, WellMade, OnChain, AsMoment, Passed
<1>5. ReadPaused(TRUE) = paused /\ ReadPaused(FALSE) = FALSE /\ paused \in BOOLEAN
  BY DEF ReadPaused, Inv, TypeOK
<1>6. /\ "release" \in known <=> ReleaseOffered(chain, roles)
      /\ "refund" \in known <=> RefundOffered(chain, roles)
      /\ "dispute" \in known <=> DisputeOffered(chain, roles, ReadPaused(TRUE))
      /\ known \subseteq {"release", "refund", "dispute"}
  BY DEF Options
<1>7. /\ "release" \in unknown <=> ReleaseOffered(chain, roles)
      /\ "refund" \in unknown <=> RefundOffered(chain, roles)
      /\ "dispute" \in unknown <=> DisputeOffered(chain, roles, ReadPaused(FALSE))
      /\ unknown \subseteq {"release", "refund", "dispute"}
  BY DEF Options
<1>. HIDE DEF d, chain, roles, open, known, unknown
<1>8. "release" \in open <=> ReleaseOffered(chain, roles)
  BY <1>2, <1>3, <1>4 DEF ReleaseOffered
<1>9. "refund" \in open <=> RefundOffered(chain, roles)
  BY <1>2, <1>3, <1>4 DEF RefundOffered
<1>10. \A p \in BOOLEAN : DisputeOffered(chain, roles, p) <=>
             Payable(d) /\ ~p /\ ("buyer" \in roles \/ "provider" \in roles)
  BY <1>3 DEF DisputeOffered
<1>11. /\ "dispute" \in known <=> "dispute" \in open
       /\ "dispute" \in open => "dispute" \in unknown
  BY <1>2, <1>5, <1>6, <1>7, <1>10
<1>12. /\ "release" \in known <=> "release" \in open
       /\ "refund" \in known <=> "refund" \in open
       /\ "release" \in unknown <=> "release" \in open
       /\ "refund" \in unknown <=> "refund" \in open
  BY <1>6, <1>7, <1>8, <1>9
<1>13. open \subseteq known /\ known \subseteq open
  BY <1>2, <1>6, <1>11, <1>12
<1>14. unknown \ {"dispute"} = open \ {"dispute"}
  BY <1>2, <1>7, <1>12
<1>15. open \subseteq unknown
  BY <1>2, <1>11, <1>12
<1>16. QED
  BY <1>13, <1>14, <1>15 DEF open, known, unknown

\* In every reachable state and at every moment, settlement_options offers what
\* the contract would accept of the parties whose roles its tables give the
\* person, whoever placed the order and whoever is in the team.
THEOREM AdviceAlwaysMatches == Spec => []AdviceMatchesContract
<1>1. Init => WellMade
  BY DEF Init, WellMade, NoEscrow
<1>2. Inv /\ WellMade /\ [Next]_vars => WellMade'
  BY StepDates
<1>3. Inv /\ WellMade => AdviceMatchesContract
  BY AdviceIsRight
<1>4. QED
  BY <1>1, <1>2, <1>3, InvariantHolds, PTL DEF Spec
-----------------------------------------------------------------------------
(* The row.  What each event makes of a row, when it comes in order.       *)

Row(status, r) ==
    /\ r.status = status
    /\ ~r.released_at /\ ~r.dispute_resolved_at
    /\ r.dispute_resolution = "null" /\ r.fee_amount = 0

\* What the row of an escrow says of it.
Fits(r, d) ==
    /\ RowChecks(r)
    /\ InSync(r, d.amount, d.released, d.refunded)
    /\ d.status = "None" => r.status = "absent"
    /\ d.status = "Funded" => Row("funded", r)
    /\ d.status = "Disputed" => Row("disputed", r) /\ r.disputed_at

Mirrored ==
    /\ row \in [Escrows -> EscrowRow]
    /\ \A x \in Escrows : Fits(row[x], escrow[x])

\* EscrowCreated inserts the row.
LEMMA CreatedRow ==
    ASSUME NEW r \in EscrowRow, r.status = "absent", NEW e, NEW amount \in Nat, NEW d,
           d.status = "Funded", d.amount = amount, d.released = 0, d.refunded = 0
    PROVE  /\ ApplyToEscrow(r, EscrowCreated(e, amount)) \in EscrowRow
           /\ Fits(ApplyToEscrow(r, EscrowCreated(e, amount)), d)
<1>1. ApplyToEscrow(r, EscrowCreated(e, amount))
         = [NoRow EXCEPT !.status = "funded", !.amount = amount]
  BY DEF ApplyToEscrow, ApplyCreated, EscrowCreated
<1>. DEFINE w == ApplyToEscrow(r, EscrowCreated(e, amount))
<1>2. /\ w.status = "funded" /\ w.amount = amount /\ w.released_amount = 0
      /\ w.fee_amount = 0 /\ ~w.released_at /\ w.refunded_amount = 0
      /\ w.dispute_resolution = "null" /\ ~w.dispute_resolved_at
  BY <1>1 DEF NoRow
<1>3. w \in EscrowRow
  <2>1. [NoRow EXCEPT !.status = "funded", !.amount = amount] \in EscrowRow
    BY DEF NoRow, EscrowRow
  <2>2. QED
    BY <1>1, <2>1
<1>. HIDE DEF w
<1>4. Fits(w, d)
  BY <1>2 DEF Fits, Row, RowChecks, InSync
<1>5. QED
  BY <1>3, <1>4 DEF w

\* The net and the fee an EscrowReleased names add up to the whole escrow.
LEMMA ReleasedRow ==
    ASSUME NEW r \in EscrowRow, NEW e, NEW amount \in Nat, NEW bps \in 0 .. MaxFeeBps,
           Row("funded", r), InSync(r, amount, 0, 0), NEW d, d.status = "Released",
           d.amount = amount, d.released = amount, d.refunded = 0
    PROVE  /\ ApplyToEscrow(r, EscrowReleased(e, amount, bps)) \in EscrowRow
           /\ Fits(ApplyToEscrow(r, EscrowReleased(e, amount, bps)), d)
<1>. DEFINE fee == FeeOf(amount, bps)
            event == EscrowReleased(e, amount, bps)
<1>1. fee \in 0 .. amount
  BY FeeBounded
<1>2. /\ event.name = "EscrowReleased" /\ event.feeAmount = fee
      /\ event.providerAmount = amount - fee
  BY DEF EscrowReleased
<1>. HIDE DEF fee, event
<1>3. ApplyToEscrow(r, event) = ApplyReleased(r, event)
  BY <1>2 DEF ApplyToEscrow, Row
<1>4. event.providerAmount + event.feeAmount = amount
  BY <1>1, <1>2
<1>5. ApplyReleased(r, event)
         = [r EXCEPT !.status = "released", !.amount = amount, !.released_amount = amount,
                     !.fee_amount = fee, !.released_at = TRUE]
  BY <1>2, <1>4 DEF ApplyReleased, InSync, EscrowRow
<1>. DEFINE w == ApplyToEscrow(r, event)
<1>6. /\ w.status = "released" /\ w.amount = amount /\ w.released_amount = amount
      /\ w.fee_amount = fee /\ w.released_at /\ w.refunded_amount = 0
      /\ w.dispute_resolution = "null" /\ ~w.dispute_resolved_at
  BY <1>3, <1>5 DEF EscrowRow, InSync, Row
<1>7. w \in EscrowRow
  <2>1. fee \in Nat
    BY <1>1
  <2>2. [r EXCEPT !.status = "released", !.amount = amount, !.released_amount = amount,
                  !.fee_amount = fee, !.released_at = TRUE] \in EscrowRow
    BY <2>1 DEF EscrowRow
  <2>3. QED
    BY <1>3, <1>5, <2>2
<1>. HIDE DEF w
<1>8. Fits(w, d)
  BY <1>1, <1>6 DEF Fits, RowChecks, InSync
<1>9. QED
  BY <1>7, <1>8 DEF w, event

\* EscrowRefunded names the whole escrow.
LEMMA RefundedRow ==
    ASSUME NEW r \in EscrowRow, NEW e, NEW amount \in Nat,
           Row("funded", r), InSync(r, amount, 0, 0), NEW d, d.status = "Refunded",
           d.amount = amount, d.released = 0, d.refunded = amount
    PROVE  /\ ApplyToEscrow(r, EscrowRefunded(e, amount)) \in EscrowRow
           /\ Fits(ApplyToEscrow(r, EscrowRefunded(e, amount)), d)
<1>. DEFINE event == EscrowRefunded(e, amount)
<1>1. event.name = "EscrowRefunded" /\ event.amount = amount
  BY DEF EscrowRefunded
<1>. HIDE DEF event
<1>2. ApplyToEscrow(r, event) = ApplyRefunded(r, event)
  BY <1>1 DEF ApplyToEscrow, Row
<1>3. ApplyRefunded(r, event)
         = [r EXCEPT !.status = "refunded", !.amount = amount,
                     !.refunded_amount = amount, !.refunded_at = TRUE]
  BY <1>1 DEF ApplyRefunded, InSync, EscrowRow
<1>. DEFINE w == ApplyToEscrow(r, event)
<1>4. /\ w.status = "refunded" /\ w.amount = amount /\ w.released_amount = 0
      /\ w.fee_amount = 0 /\ ~w.released_at /\ w.refunded_amount = amount
      /\ w.dispute_resolution = "null" /\ ~w.dispute_resolved_at
  BY <1>2, <1>3 DEF EscrowRow, InSync, Row
<1>5. w \in EscrowRow
  <2>1. [r EXCEPT !.status = "refunded", !.amount = amount,
                  !.refunded_amount = amount, !.refunded_at = TRUE] \in EscrowRow
    BY DEF EscrowRow
  <2>2. QED
    BY <1>2, <1>3, <2>1
<1>. HIDE DEF w
<1>6. Fits(w, d)
  BY <1>4 DEF Fits, RowChecks, InSync
<1>7. QED
  BY <1>5, <1>6 DEF w, event

\* EscrowDisputed moves no figure.
LEMMA DisputedRow ==
    ASSUME NEW r \in EscrowRow, NEW e, NEW amount \in Nat,
           Row("funded", r), InSync(r, amount, 0, 0), NEW d, d.status = "Disputed",
           d.amount = amount, d.released = 0, d.refunded = 0
    PROVE  /\ ApplyToEscrow(r, EscrowDisputed(e)) \in EscrowRow
           /\ Fits(ApplyToEscrow(r, EscrowDisputed(e)), d)
<1>. DEFINE w == ApplyToEscrow(r, EscrowDisputed(e))
<1>1. w = [r EXCEPT !.status = "disputed", !.disputed_at = TRUE]
  BY DEF ApplyToEscrow, ApplyDisputed, EscrowDisputed, Row
<1>2. /\ w.status = "disputed" /\ w.amount = amount /\ w.released_amount = 0
      /\ w.fee_amount = 0 /\ ~w.released_at /\ w.refunded_amount = 0 /\ w.disputed_at
      /\ w.dispute_resolution = "null" /\ ~w.dispute_resolved_at
      /\ w \in EscrowRow
  BY <1>1 DEF EscrowRow, InSync, Row
<1>. HIDE DEF w
<1>3. Fits(w, d)
  BY <1>2 DEF Fits, RowChecks, InSync, Row
<1>4. QED
  BY <1>2, <1>3 DEF w

LEMMA SettledWellFormed ==
    ASSUME NEW r \in EscrowRow, NEW share \in Nat, NEW rest \in Nat, NEW fee \in Nat,
           NEW resolution \in {"released_to_provider", "refunded_to_buyer", "split"}
    PROVE  [r EXCEPT !.status = "released", !.released_amount = share,
                     !.refunded_amount = rest, !.fee_amount = fee,
                     !.released_at = TRUE, !.dispute_resolved_at = TRUE,
                     !.dispute_resolution = resolution] \in EscrowRow
BY DEF EscrowRow

\* EscrowSettled names the provider's net and its fee; the row gets the gross.
LEMMA SettledRow ==
    ASSUME NEW r \in EscrowRow, NEW e, NEW amount \in Nat, NEW bps \in 0 .. MaxFeeBps,
           NEW share \in 0 .. amount, Row("disputed", r), r.disputed_at,
           InSync(r, amount, 0, 0), NEW d, d.status = "Settled",
           d.amount = amount, d.released = share, d.refunded = amount - share
    PROVE  /\ ApplyToEscrow(r, EscrowSettled(e, amount, share, bps)) \in EscrowRow
           /\ Fits(ApplyToEscrow(r, EscrowSettled(e, amount, share, bps)), d)
<1>. DEFINE fee == FeeOf(share, bps)
            event == EscrowSettled(e, amount, share, bps)
            resolution == SettlementResolution(share, amount - share)
<1>1. fee \in 0 .. share /\ share \in Nat /\ amount - share \in Nat
  BY FeeBounded
<1>2. /\ event.name = "EscrowSettled" /\ event.feeAmount = fee
      /\ event.providerAmount = share - fee /\ event.buyerAmount = amount - share
  BY DEF EscrowSettled
<1>. HIDE DEF fee, event
<1>3. ApplyToEscrow(r, event) = ApplySettled(r, event)
  BY <1>2 DEF ApplyToEscrow, Row
<1>4. SettledGross(event) = share
  BY <1>1, <1>2 DEF SettledGross
<1>5. resolution \in {"released_to_provider", "refunded_to_buyer", "split"}
  BY DEF SettlementResolution
<1>. HIDE DEF resolution
<1>6. ApplySettled(r, event)
         = [r EXCEPT !.status = "released", !.released_amount = share,
                     !.refunded_amount = amount - share, !.fee_amount = fee,
                     !.released_at = TRUE, !.dispute_resolved_at = TRUE,
                     !.dispute_resolution = resolution]
  BY <1>2, <1>4 DEF ApplySettled, resolution
<1>. DEFINE w == ApplyToEscrow(r, event)
<1>7. /\ w.status = "released" /\ w.amount = amount /\ w.released_amount = share
      /\ w.fee_amount = fee /\ w.released_at /\ w.refunded_amount = amount - share
      /\ w.dispute_resolution = resolution /\ w.dispute_resolved_at /\ w.disputed_at
  BY <1>3, <1>6 DEF EscrowRow, InSync
<1>8. w \in EscrowRow
  <2>1. fee \in Nat /\ share \in Nat /\ amount - share \in Nat
    BY <1>1
  <2>. HIDE DEF w
  <2>2. w = [r EXCEPT !.status = "released", !.released_amount = share,
                      !.refunded_amount = amount - share, !.fee_amount = fee,
                      !.released_at = TRUE, !.dispute_resolved_at = TRUE,
                      !.dispute_resolution = resolution]
    BY <1>3, <1>6 DEF w
  <2>3. [r EXCEPT !.status = "released", !.released_amount = share,
                  !.refunded_amount = amount - share, !.fee_amount = fee,
                  !.released_at = TRUE, !.dispute_resolved_at = TRUE,
                  !.dispute_resolution = resolution] \in EscrowRow
    <3>1. \A rest, net \in Nat :
            \A c \in {"released_to_provider", "refunded_to_buyer", "split"} :
                [r EXCEPT !.status = "released", !.released_amount = share,
                          !.refunded_amount = rest, !.fee_amount = net,
                          !.released_at = TRUE, !.dispute_resolved_at = TRUE,
                          !.dispute_resolution = c] \in EscrowRow
      BY <2>1, SettledWellFormed
    <3>2. QED
      BY <1>5, <2>1, <3>1
  <2>4. QED
    BY <2>2, <2>3
<1>. HIDE DEF w
<1>9. Fits(w, d)
  BY <1>1, <1>5, <1>7 DEF Fits, RowChecks, InSync
<1>10. QED
  BY <1>8, <1>9 DEF w, event

-----------------------------------------------------------------------------
\* A transaction on e whose event makes a row that fits.
LEMMA Recorded ==
    ASSUME Mirrored, NEW e \in Escrows, NEW r \in EscrowRow,
           row' = [row EXCEPT ![e] = r], Fits(r, escrow'[e]),
           \A x \in Escrows \ {e} : escrow'[x] = escrow[x]
    PROVE  Mirrored'
<1>1. row' \in [Escrows -> EscrowRow]
  BY DEF Mirrored
<1>2. ASSUME NEW x \in Escrows PROVE Fits(row'[x], escrow'[x])
  <2>1. CASE x = e
    BY <2>1 DEF Mirrored
  <2>2. CASE x # e
    <3>1. row'[x] = row[x] /\ escrow'[x] = escrow[x]
      BY <2>2 DEF Mirrored
    <3>2. Fits(row[x], escrow[x])
      BY DEF Mirrored
    <3>3. QED
      BY <3>1, <3>2
  <2>3. QED
    BY <2>1, <2>2
<1>3. QED
  BY <1>1, <1>2 DEF Mirrored

\* What the books and the row say of an escrow that holds its funds.
LEMMA BeforeClosing ==
    ASSUME Inv, Mirrored, NEW e \in Escrows, escrow[e].status \in Holding
    PROVE  /\ row[e] \in EscrowRow
           /\ escrow[e].amount \in Nat /\ escrow[e].feeBps \in 0 .. MaxFeeBps
           /\ InSync(row[e], escrow[e].amount, 0, 0)
           /\ escrow[e].status = "Funded" => Row("funded", row[e])
           /\ escrow[e].status = "Disputed" => Row("disputed", row[e]) /\ row[e].disputed_at
<1>1. escrow[e] \in EscrowRecord
  BY DEF Inv, TypeOK
<1>2. escrow[e].amount \in Nat /\ escrow[e].feeBps \in 0 .. MaxFeeBps
  BY <1>1 DEF EscrowRecord
<1>3. escrow[e].released = 0 /\ escrow[e].refunded = 0
  <2>1. 0 \in 0 .. escrow[e].amount
    BY <1>2
  <2>2. QED
    BY <2>1, Divided
<1>4. row[e] \in EscrowRow /\ Fits(row[e], escrow[e])
  BY DEF Mirrored
<1>5. QED
  BY <1>2, <1>3, <1>4 DEF Fits

LEMMA CreateMirrored ==
    ASSUME Inv, Mirrored, NEW caller \in Accounts, NEW e \in Escrows, MirrorCreate(caller, e)
    PROVE  Mirrored'
<1>1. Create(caller, e) /\ Record(e, EscrowCreated(e, escrow'[e].amount))
  BY DEF MirrorCreate
<1>2. PICK provider \in Accounts \cup {Zero}, token \in Tokens \cup {Zero},
           amount \in 0 .. MaxAmount, deliveryWindow \in Windows, autoReleaseWindow \in Windows :
        CreateEscrow(caller, e, provider, token, amount, deliveryWindow, autoReleaseWindow)
  BY <1>1 DEF Create
<1>3. amount \in Nat
  BY ConstantsAssumption
<1>4. /\ escrow[e].status = "None"
      /\ escrow'[e].status = "Funded" /\ escrow'[e].amount = amount
      /\ escrow'[e].released = 0 /\ escrow'[e].refunded = 0
      /\ \A x \in Escrows \ {e} : escrow'[x] = escrow[x]
  BY <1>2 DEF CreateEscrow, Unused, Inv, TypeOK
<1>5. row[e] \in EscrowRow /\ row[e].status = "absent"
  BY <1>4 DEF Mirrored, Fits
<1>. DEFINE r == ApplyToEscrow(row[e], EscrowCreated(e, amount))
<1>6. r \in EscrowRow /\ Fits(r, escrow'[e])
  BY <1>3, <1>4, <1>5, CreatedRow
<1>7. row' = [row EXCEPT ![e] = r]
  BY <1>1, <1>4 DEF Record
<1>. HIDE DEF r
<1>8. QED
  BY <1>4, <1>6, <1>7, Recorded

LEMMA ReleaseMirrored ==
    ASSUME Inv, Mirrored, NEW caller \in Accounts, NEW e \in Escrows, MirrorRelease(caller, e)
    PROVE  Mirrored'
<1>1. /\ Release(caller, e)
      /\ Record(e, EscrowReleased(e, escrow[e].amount, escrow[e].feeBps))
  BY DEF MirrorRelease
<1>2. escrow[e].status = "Funded"
  BY <1>1 DEF Release, Payable
<1>3. /\ row[e] \in EscrowRow /\ escrow[e].amount \in Nat
      /\ escrow[e].feeBps \in 0 .. MaxFeeBps
      /\ InSync(row[e], escrow[e].amount, 0, 0) /\ Row("funded", row[e])
  BY <1>2, BeforeClosing DEF Holding
<1>4. escrow' = [escrow EXCEPT ![e].released = escrow[e].amount, ![e].status = "Released"]
  BY <1>1 DEF Release
<1>5. escrow[e] \in EscrowRecord /\ escrow[e].refunded = 0
  <2>1. 0 \in 0 .. escrow[e].amount
    BY <1>3
  <2>2. QED
    BY <1>2, <2>1, Divided DEF Holding
<1>6. /\ escrow'[e].status = "Released" /\ escrow'[e].amount = escrow[e].amount
      /\ escrow'[e].released = escrow[e].amount /\ escrow'[e].refunded = 0
      /\ \A x \in Escrows \ {e} : escrow'[x] = escrow[x]
  BY <1>4, <1>5 DEF Inv, TypeOK, EscrowRecord
<1>. DEFINE r == ApplyToEscrow(row[e], EscrowReleased(e, escrow[e].amount, escrow[e].feeBps))
<1>7. r \in EscrowRow /\ Fits(r, escrow'[e])
  BY <1>3, <1>6, ReleasedRow
<1>8. row' = [row EXCEPT ![e] = r]
  BY <1>1 DEF Record
<1>. HIDE DEF r
<1>9. QED
  BY <1>6, <1>7, <1>8, Recorded

LEMMA RefundMirrored ==
    ASSUME Inv, Mirrored, NEW caller \in Accounts, NEW e \in Escrows, MirrorRefund(caller, e)
    PROVE  Mirrored'
<1>1. Refund(caller, e) /\ Record(e, EscrowRefunded(e, escrow[e].amount))
  BY DEF MirrorRefund
<1>2. escrow[e].status = "Funded"
  BY <1>1 DEF Refund, Payable
<1>3. /\ row[e] \in EscrowRow /\ escrow[e].amount \in Nat
      /\ InSync(row[e], escrow[e].amount, 0, 0) /\ Row("funded", row[e])
  BY <1>2, BeforeClosing DEF Holding
<1>4. escrow' = [escrow EXCEPT ![e].refunded = escrow[e].amount, ![e].status = "Refunded"]
  BY <1>1 DEF Refund
<1>5. escrow[e] \in EscrowRecord /\ escrow[e].released = 0
  <2>1. 0 \in 0 .. escrow[e].amount
    BY <1>3
  <2>2. QED
    BY <1>2, <2>1, Divided DEF Holding
<1>6. /\ escrow'[e].status = "Refunded" /\ escrow'[e].amount = escrow[e].amount
      /\ escrow'[e].released = 0 /\ escrow'[e].refunded = escrow[e].amount
      /\ \A x \in Escrows \ {e} : escrow'[x] = escrow[x]
  BY <1>4, <1>5 DEF Inv, TypeOK, EscrowRecord
<1>. DEFINE r == ApplyToEscrow(row[e], EscrowRefunded(e, escrow[e].amount))
<1>7. r \in EscrowRow /\ Fits(r, escrow'[e])
  BY <1>3, <1>6, RefundedRow
<1>8. row' = [row EXCEPT ![e] = r]
  BY <1>1 DEF Record
<1>. HIDE DEF r
<1>9. QED
  BY <1>6, <1>7, <1>8, Recorded

LEMMA DisputeMirrored ==
    ASSUME Inv, Mirrored, NEW caller \in Accounts, NEW e \in Escrows, MirrorDispute(caller, e)
    PROVE  Mirrored'
<1>1. Dispute(caller, e) /\ Record(e, EscrowDisputed(e))
  BY DEF MirrorDispute
<1>2. escrow[e].status = "Funded" /\ escrow' = [escrow EXCEPT ![e].status = "Disputed"]
  BY <1>1 DEF Dispute
<1>3. /\ row[e] \in EscrowRow /\ escrow[e].amount \in Nat
      /\ InSync(row[e], escrow[e].amount, 0, 0) /\ Row("funded", row[e])
  BY <1>2, BeforeClosing DEF Holding
<1>4. escrow[e] \in EscrowRecord /\ escrow[e].released = 0 /\ escrow[e].refunded = 0
  <2>1. 0 \in 0 .. escrow[e].amount
    BY <1>3
  <2>2. QED
    BY <1>2, <2>1, Divided DEF Holding
<1>5. /\ escrow'[e].status = "Disputed" /\ escrow'[e].amount = escrow[e].amount
      /\ escrow'[e].released = 0 /\ escrow'[e].refunded = 0
      /\ \A x \in Escrows \ {e} : escrow'[x] = escrow[x]
  BY <1>2, <1>4 DEF Inv, TypeOK, EscrowRecord
<1>. DEFINE r == ApplyToEscrow(row[e], EscrowDisputed(e))
<1>6. r \in EscrowRow /\ Fits(r, escrow'[e])
  BY <1>3, <1>5, DisputedRow
<1>7. row' = [row EXCEPT ![e] = r]
  BY <1>1 DEF Record
<1>. HIDE DEF r
<1>8. QED
  BY <1>5, <1>6, <1>7, Recorded

LEMMA SettleMirrored ==
    ASSUME Inv, Mirrored, NEW caller \in Accounts, NEW e \in Escrows, MirrorSettle(caller, e)
    PROVE  Mirrored'
<1>1. /\ Settle(caller, e)
      /\ Record(e, EscrowSettled(e, escrow[e].amount, escrow'[e].released, escrow[e].feeBps))
  BY DEF MirrorSettle
<1>2. PICK share \in 0 .. MaxAmount, buyerAmount \in 0 .. MaxAmount :
          SettleDispute(caller, e, share, buyerAmount)
  BY <1>1 DEF Settle
<1>3. escrow[e].status = "Disputed"
  BY <1>2 DEF SettleDispute
<1>4. /\ row[e] \in EscrowRow /\ escrow[e].amount \in Nat
      /\ escrow[e].feeBps \in 0 .. MaxFeeBps /\ row[e].disputed_at
      /\ InSync(row[e], escrow[e].amount, 0, 0) /\ Row("disputed", row[e])
  BY <1>3, BeforeClosing DEF Holding
<1>5. share \in 0 .. escrow[e].amount
  BY <1>2, <1>4, ConstantsAssumption DEF SettleDispute
<1>6. escrow' = [escrow EXCEPT ![e] = [@ EXCEPT !.released = share,
                                                !.refunded = escrow[e].amount - share,
                                                !.status = "Settled"]]
  BY <1>2 DEF SettleDispute, BuyerTotal
<1>7. escrow[e] \in EscrowRecord
  BY DEF Inv, TypeOK
<1>8. /\ escrow'[e].status = "Settled" /\ escrow'[e].amount = escrow[e].amount
      /\ escrow'[e].released = share /\ escrow'[e].refunded = escrow[e].amount - share
      /\ \A x \in Escrows \ {e} : escrow'[x] = escrow[x]
  BY <1>6, <1>7 DEF Inv, TypeOK, EscrowRecord
<1>. DEFINE r == ApplyToEscrow(row[e],
                     EscrowSettled(e, escrow[e].amount, share, escrow[e].feeBps))
<1>9. r \in EscrowRow /\ Fits(r, escrow'[e])
  BY <1>4, <1>5, <1>8, SettledRow
<1>10. row' = [row EXCEPT ![e] = r]
  BY <1>1, <1>8 DEF Record
<1>. HIDE DEF r
<1>11. QED
  BY <1>8, <1>9, <1>10, Recorded

\* Each step of the mirror is a step of the contract.
LEMMA MirrorStep == [MirrorNext]_mirrorVars => [Next]_vars
<1>1. MirrorNext => Next
  BY DEF MirrorNext, MirrorCreate, MirrorRelease, MirrorRefund, MirrorDispute, MirrorSettle, Next
<1>2. QED
  BY <1>1 DEF mirrorVars

LEMMA StepMirrored ==
    ASSUME Inv, Mirrored, [MirrorNext]_mirrorVars
    PROVE  Mirrored'
<1>1. ASSUME NEW caller \in Accounts, NEW e \in Escrows,
             \/ MirrorCreate(caller, e) \/ MirrorRelease(caller, e) \/ MirrorRefund(caller, e)
             \/ MirrorDispute(caller, e) \/ MirrorSettle(caller, e)
      PROVE  Mirrored'
  BY <1>1, CreateMirrored, ReleaseMirrored, RefundMirrored, DisputeMirrored, SettleMirrored
<1>2. ASSUME UNCHANGED row, UNCHANGED escrow PROVE Mirrored'
  BY <1>2 DEF Mirrored
<1>3. ASSUME NEW caller \in Accounts, Govern(caller) PROVE UNCHANGED escrow
  BY <1>3 DEF Govern, SetFeeConfig, Pause, Unpause
<1>4. ASSUME Tick \/ \E account \in ArbiterCandidates :
                        GrantArbiter(account) \/ RevokeArbiter(account)
      PROVE  UNCHANGED escrow
  BY <1>4 DEF Tick, contractVars, GrantArbiter, RevokeArbiter
<1>5. CASE UNCHANGED mirrorVars
  BY <1>2, <1>5 DEF mirrorVars, vars
<1>6. QED
  BY <1>1, <1>2, <1>3, <1>4, <1>5 DEF MirrorNext

LEMMA MirrorStart == MirrorInit => Mirrored
<1>1. SUFFICES ASSUME MirrorInit PROVE Mirrored
  OBVIOUS
<1>2. NoRow \in EscrowRow
  BY DEF NoRow, EscrowRow
<1>3. Fits(NoRow, NoEscrow)
  BY DEF Fits, NoRow, NoEscrow, RowChecks, InSync
<1>4. QED
  BY <1>1, <1>2, <1>3 DEF MirrorInit, Init, Mirrored

\* Events applied once and in order leave every row agreeing with the contract
\* and within the constraints of the escrows table (_apply_to_escrow), whatever
\* the amounts, the fees and the splits.
THEOREM RowsAlwaysReconcile == MirrorSpec => []RowsReconcile
<1>1. MirrorInit => Inv /\ Mirrored
  BY InitialInvariant, MirrorStart DEF MirrorInit
<1>2. Inv /\ Mirrored /\ [MirrorNext]_mirrorVars => Inv' /\ Mirrored'
  BY MirrorStep, StepPreserves, StepMirrored
<1>3. Mirrored => RowsReconcile
  BY DEF Mirrored, Fits, RowsReconcile
<1>4. QED
  BY <1>1, <1>2, <1>3, PTL DEF MirrorSpec
=============================================================================
