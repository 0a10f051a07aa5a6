------------------------------ MODULE DataFacts ------------------------------
(***************************************************************************)
(* Facts about data that more than one component needs: induction over an  *)
(* interval; a sequence of logs in the order of their blocks, how many of  *)
(* them are in blocks up to a given one, and what of that a new block or a *)
(* fork leaves alone; and the sum of a function over a finite set.         *)
(***************************************************************************)
EXTENDS Integers, SequencesExt, FiniteSetTheorems, SequenceTheorems,
        WellFoundedInduction, TLAPS

-----------------------------------------------------------------------------
(* Induction, by the least counterexample.                                 *)

LessThanOnNat == {p \in Nat \X Nat : p[1] < p[2]}

\* Every non-empty set of naturals has a least element.
LEMMA LeastElement ==
    ASSUME NEW T \in SUBSET Nat, T # {}
    PROVE  \E x \in T : \A y \in T : x <= y
<1>1. IsWellFoundedOn(LessThanOnNat, Nat)
  BY NatLessThanWellFounded DEF LessThanOnNat, OpToRel
<1>2. PICK x \in T : \A y \in T : ~(<<y, x>> \in LessThanOnNat)
  BY <1>1, WFMin
<1>3. \A y \in T : ~(y < x)
  BY <1>2 DEF LessThanOnNat
<1>4. QED
  BY <1>3

\* What holds of 0, and of i when it holds of i - 1, holds up to n.
LEMMA IntervalInduction ==
    ASSUME NEW n \in Nat, NEW P,
           0 \in P,
           \A i \in 1 .. n : i - 1 \in P => i \in P
    PROVE  \A i \in 0 .. n : i \in P
<1>1. DEFINE Bad == {i \in 0 .. n : i \notin P}
<1>2. SUFFICES ASSUME Bad # {} PROVE FALSE
  OBVIOUS
<1>3. Bad \in SUBSET Nat
  OBVIOUS
<1>4. PICK m \in Bad : \A y \in Bad : m <= y
  BY <1>2, <1>3, LeastElement
<1>5. m \in 1 .. n /\ m - 1 \in 0 .. n
  BY <1>4
<1>6. m - 1 \notin Bad
  BY <1>4, <1>5
<1>7. QED
  BY <1>4, <1>5, <1>6

\* A non-empty set of indices has a greatest one, and Max is it.
LEMMA MaxOfIndices ==
    ASSUME NEW n \in Nat, NEW S \in SUBSET (1 .. n), S # {}
    PROVE  Max(S) \in S /\ \A i \in S : i <= Max(S)
<1>1. DEFINE Above == {k \in 0 .. n : \A i \in S : i <= k}
<1>2. Above \in SUBSET Nat /\ n \in Above
  OBVIOUS
<1>3. PICK m \in Above : \A k \in Above : m <= k
  BY <1>2, LeastElement
<1>4. m \in S
  <2>1. SUFFICES ASSUME m \notin S PROVE FALSE
    OBVIOUS
  <2>2. \A i \in S : i <= m - 1
    BY <1>3, <2>1
  <2>3. m - 1 \in 0 .. n
    <3>1. PICK i \in S : TRUE
      OBVIOUS
    <3>2. i \in 1 .. n /\ i <= m - 1 /\ m \in 0 .. n
      BY <3>1, <2>2, <1>3
    <3>3. QED
      BY <3>2
  <2>4. m - 1 \in Above
    BY <2>2, <2>3
  <2>5. QED
    BY <1>3, <2>4
<1>5. \E x \in S : \A y \in S : x >= y
  BY <1>3, <1>4
<1>6. QED
  BY <1>5 DEF Max

-----------------------------------------------------------------------------
(* A sequence of logs ordered by block.                                    *)

\* Blocks are numbered from 1, and come in order.
Numbered(h) ==
    /\ DOMAIN h = 1 .. Len(h) /\ Len(h) \in Nat
    /\ \A i \in DOMAIN h : h[i].number \in Nat \ {0}
    /\ \A i, j \in DOMAIN h : i <= j => h[i].number <= h[j].number

\* How many logs are in blocks up to n.
Cut(h, n) == Cardinality({i \in DOMAIN h : h[i].number <= n})

\* The logs of blocks up to n are the first ones.
LEMMA CutSplits ==
    ASSUME NEW h, Numbered(h), NEW n \in Int
    PROVE  /\ Cut(h, n) \in 0 .. Len(h)
           /\ \A i \in DOMAIN h : h[i].number <= n <=> i <= Cut(h, n)
<1>1. DEFINE Late == {i \in 1 .. Len(h) + 1 : i = Len(h) + 1 \/ h[i].number > n}
<1>2. Late \in SUBSET Nat /\ Late # {}
  BY DEF Numbered
<1>3. PICK m \in Late : \A k \in Late : m <= k
  BY <1>2, LeastElement
<1>4. m \in 1 .. Len(h) + 1 /\ m - 1 \in 0 .. Len(h)
  BY <1>3 DEF Numbered
<1>5. \A i \in DOMAIN h : h[i].number <= n <=> i <= m - 1
  <2>1. SUFFICES ASSUME NEW i \in DOMAIN h
                 PROVE  h[i].number <= n <=> i <= m - 1
    OBVIOUS
  <2>2. i \in 1 .. Len(h) /\ h[i].number \in Int
    BY DEF Numbered
  <2>3. CASE i <= m - 1
    BY <2>2, <2>3, <1>3, <1>4
  <2>4. CASE ~(i <= m - 1)
    <3>1. m \in DOMAIN h /\ m <= i
      BY <2>2, <2>4, <1>4 DEF Numbered
    <3>2. h[m].number > n
      BY <3>1, <1>3 DEF Numbered
    <3>3. QED
      BY <3>1, <3>2, <2>2, <2>4 DEF Numbered
  <2>5. QED
    BY <2>3, <2>4
<1>6. {i \in DOMAIN h : h[i].number <= n} = 1 .. m - 1
  BY <1>4, <1>5 DEF Numbered
<1>7. Cut(h, n) = m - 1
  <2>1. Cardinality(1 .. m - 1) = m - 1
    BY <1>4, FS_Interval
  <2>2. QED
    BY <1>6, <2>1 DEF Cut
<1>8. QED
  BY <1>4, <1>5, <1>7

\* A later block has at least as many logs before it.
LEMMA CutMonotone ==
    ASSUME NEW h, Numbered(h), NEW m \in Int, NEW n \in Int, m <= n
    PROVE  Cut(h, m) <= Cut(h, n)
<1>1. /\ Cut(h, m) \in 0 .. Len(h)
      /\ \A i \in DOMAIN h : h[i].number <= m <=> i <= Cut(h, m)
  BY CutSplits
<1>2. /\ Cut(h, n) \in 0 .. Len(h)
      /\ \A i \in DOMAIN h : h[i].number <= n <=> i <= Cut(h, n)
  BY CutSplits
<1>3. CASE Cut(h, m) = 0
  BY <1>2, <1>3 DEF Numbered
<1>4. CASE Cut(h, m) # 0
  <2>1. Cut(h, m) \in DOMAIN h
    BY <1>1, <1>4 DEF Numbered
  <2>2. h[Cut(h, m)].number <= m /\ h[Cut(h, m)].number \in Int
    BY <2>1, <1>1 DEF Numbered
  <2>3. QED
    BY <2>1, <2>2, <1>2
<1>5. QED
  BY <1>3, <1>4

\* Two histories with the same beginning.
Agree(h, g, k) ==
    k \in 0 .. Len(h) /\ k \in 0 .. Len(g) /\ \A i \in 1 .. k : h[i] = g[i]

\* Blocks beyond n may be replaced: those up to n are counted alike.
LEMMA CutAgrees ==
    ASSUME NEW h, NEW g, Numbered(h), Numbered(g), NEW n \in Int,
           Agree(h, g, Cut(h, n)),
           \A i \in DOMAIN g : i > Cut(h, n) => g[i].number > n
    PROVE  Cut(g, n) = Cut(h, n)
<1>1. /\ Cut(h, n) \in 0 .. Len(h)
      /\ \A i \in DOMAIN h : h[i].number <= n <=> i <= Cut(h, n)
  BY CutSplits
<1>2. /\ Cut(g, n) \in 0 .. Len(g)
      /\ \A i \in DOMAIN g : g[i].number <= n <=> i <= Cut(g, n)
  BY CutSplits
<1>3. Cut(h, n) <= Cut(g, n)
  <2>1. SUFFICES ASSUME Cut(h, n) # 0 PROVE Cut(h, n) <= Cut(g, n)
    BY <1>1, <1>2 DEF Numbered
  <2>2. Cut(h, n) \in DOMAIN h /\ Cut(h, n) \in DOMAIN g /\ h[Cut(h, n)] = g[Cut(h, n)]
    BY <1>1, <2>1 DEF Agree, Numbered
  <2>3. g[Cut(h, n)].number <= n
    BY <2>2, <1>1
  <2>4. QED
    BY <2>2, <2>3, <1>2
<1>4. Cut(g, n) <= Cut(h, n)
  <2>1. SUFFICES ASSUME Cut(g, n) > Cut(h, n) PROVE FALSE
    BY <1>1, <1>2 DEF Numbered
  <2>2. Cut(g, n) \in DOMAIN g
    BY <1>1, <1>2, <2>1 DEF Numbered
  <2>3. g[Cut(g, n)].number <= n /\ g[Cut(g, n)].number \in Int
    BY <2>2, <1>2 DEF Numbered
  <2>4. QED
    BY <2>1, <2>2, <2>3
<1>5. QED
  BY <1>1, <1>2, <1>3, <1>4 DEF Numbered

\* g is h with the logs of block n at its end.
Extends(h, g, n) ==
    /\ Numbered(g) /\ Agree(h, g, Len(h))
    /\ \A i \in DOMAIN g : i > Len(h) => g[i].number = n

\* Two calls in one block are one and then the other.
LEMMA ExtendsTwice ==
    ASSUME NEW h, NEW g, NEW f, NEW n, Len(h) \in Nat, Extends(h, g, n), Extends(g, f, n)
    PROVE  Extends(h, f, n)
<1>1. Agree(h, f, Len(h))
  BY DEF Extends, Agree
<1>2. \A i \in DOMAIN f : i > Len(h) => f[i].number = n
  <2>1. SUFFICES ASSUME NEW i \in DOMAIN f, i > Len(h) PROVE f[i].number = n
    OBVIOUS
  <2>2. /\ DOMAIN f = 1 .. Len(f) /\ Len(f) \in Nat
        /\ DOMAIN g = 1 .. Len(g) /\ Len(g) \in Nat
    BY DEF Extends, Numbered
  <2>3. CASE i > Len(g)
    BY <2>3 DEF Extends
  <2>4. CASE ~(i > Len(g))
    BY <2>1, <2>2, <2>4 DEF Extends, Agree
  <2>5. QED
    BY <2>3, <2>4
<1>3. QED
  BY <1>1, <1>2 DEF Extends

\* Every block up to m keeps its logs.
Kept(h, g, m) == Cut(g, m) = Cut(h, m) /\ Agree(h, g, Cut(h, m))

\* A new block leaves the logs of the ones before it alone.
LEMMA ExtendsKeeps ==
    ASSUME NEW h, NEW g, NEW n \in Nat, Numbered(h), Extends(h, g, n),
           NEW m \in Nat, m < n
    PROVE  Kept(h, g, m)
<1>1. Numbered(h) /\ Numbered(g) /\ DOMAIN h = 1 .. Len(h) /\ Len(h) \in Nat
  BY DEF Extends, Numbered
<1>2. /\ Cut(h, m) \in 0 .. Len(h)
      /\ \A i \in DOMAIN h : h[i].number <= m <=> i <= Cut(h, m)
  <2>1. m \in Int
    OBVIOUS
  <2>2. QED
    BY <1>1, <2>1, CutSplits
<1>3. Agree(h, g, Cut(h, m))
  BY <1>1, <1>2 DEF Extends, Agree
<1>4. ASSUME NEW i \in DOMAIN g, i > Cut(h, m) PROVE g[i].number > m
  <2>1. i \in Nat \ {0}
    BY <1>1 DEF Numbered
  <2>2. CASE i > Len(h)
    BY <2>2 DEF Extends
  <2>3. CASE ~(i > Len(h))
    <3>1. i \in DOMAIN h /\ h[i] = g[i]
      BY <1>1, <2>1, <2>3 DEF Extends, Agree
    <3>2. h[i].number \in Nat
      BY <3>1, <1>1 DEF Numbered
    <3>3. QED
      BY <3>1, <3>2, <1>2, <1>4, <2>1
  <2>4. QED
    BY <2>2, <2>3
<1>5. m \in Int
  OBVIOUS
<1>6. Cut(g, m) = Cut(h, m)
  BY <1>1, <1>3, <1>4, <1>5, CutAgrees
<1>7. QED
  BY <1>3, <1>6 DEF Kept

\* What is left of h when the blocks after n are dropped.
LEMMA PrefixKeeps ==
    ASSUME NEW h, NEW g, NEW n \in Int, Numbered(h), Numbered(g),
           Len(g) = Cut(h, n), Agree(h, g, Cut(h, n)),
           NEW m \in Int, m <= n
    PROVE  Kept(h, g, m)
<1>1. Cut(h, m) <= Cut(h, n)
  BY CutMonotone
<1>2. /\ Cut(h, m) \in 0 .. Len(h)
      /\ \A i \in DOMAIN h : h[i].number <= m <=> i <= Cut(h, m)
  BY CutSplits
<1>3. Cut(h, n) \in Nat /\ Cut(h, n) <= Len(h) /\ Len(h) \in Nat
  <2>1. Cut(h, n) \in 0 .. Len(h) /\ Len(h) \in Nat
    BY CutSplits DEF Numbered
  <2>2. QED
    BY <2>1
<1>4. Agree(h, g, Cut(h, m))
  BY <1>1, <1>2, <1>3 DEF Agree
<1>5. ASSUME NEW i \in DOMAIN g, i > Cut(h, m)
      PROVE  g[i].number > m
  <2>1. i \in DOMAIN h /\ g[i] = h[i]
    BY <1>3 DEF Agree, Numbered
  <2>2. h[i].number \in Nat /\ i \in Nat
    BY <2>1 DEF Numbered
  <2>3. QED
    BY <1>5, <2>1, <2>2, <1>2
<1>6. Cut(g, m) = Cut(h, m)
  BY <1>4, <1>5, CutAgrees
<1>7. QED
  BY <1>4, <1>6 DEF Kept

-----------------------------------------------------------------------------
(* Sums.                                                                   *)

\* One equation of the recursion behind SumFunction, for a subset s.
SumAt(g, f, s) ==
    IF s = {} THEN 0 ELSE f[CHOOSE x \in s : TRUE] + g[s \ {CHOOSE x \in s : TRUE}]

SumBody(g, f) == [s \in SUBSET DOMAIN f |-> SumAt(g, f, s)]

\* The recursion has a solution over the subsets of a finite domain.
LEMMA SumSolvable ==
    ASSUME NEW f, IsFiniteSet(DOMAIN f)
    PROVE  \E g : g = SumBody(g, f)
<1>1. DEFINE S == DOMAIN f
             Upto(n) == {s \in SUBSET S : Cardinality(s) <= n}
             Solves(g, n) == \A s \in Upto(n) : g[s] = SumAt(g, f, s)
             Solvable == {n \in 0 .. Cardinality(S) : \E g : Solves(g, n)}
<1>2. Cardinality(S) \in Nat /\ \A s \in SUBSET S : IsFiniteSet(s) /\ Cardinality(s) \in Nat
  BY FS_Subset, FS_CardinalityType
<1>3. 0 \in Solvable
  <2>1. Solves([s \in SUBSET S |-> 0], 0)
    BY <1>2, FS_EmptySet DEF SumAt
  <2>2. QED
    BY <1>2, <2>1
<1>4. ASSUME NEW n \in 1 .. Cardinality(S), n - 1 \in Solvable PROVE n \in Solvable
  <2>1. PICK g : Solves(g, n - 1)
    BY <1>4
  <2>2. DEFINE h == [s \in SUBSET S |-> IF s \in Upto(n - 1) THEN g[s] ELSE SumAt(g, f, s)]
  <2>3. ASSUME NEW s \in Upto(n) PROVE h[s] = SumAt(h, f, s)
    <3>1. CASE s = {}
      <4>1. s \in Upto(n - 1)
        BY <1>4, <3>1, FS_EmptySet
      <4>2. QED
        BY <2>1, <3>1, <4>1 DEF SumAt
    <3>2. CASE s # {}
      <4>1. DEFINE x == CHOOSE x \in s : TRUE
      <4>2. x \in s
        BY <3>2
      <4> HIDE DEF x
      <4>3. Cardinality(s \ {x}) = Cardinality(s) - 1
        BY <1>2, <2>3, <4>2, FS_RemoveElement
      <4>4. s \ {x} \in Upto(n - 1)
        BY <1>2, <1>4, <2>3, <4>3
      <4>5. h[s \ {x}] = g[s \ {x}]
        BY <4>4
      <4>6. SumAt(h, f, s) = SumAt(g, f, s)
        BY <3>2, <4>5 DEF SumAt, x
      <4>7. h[s] = SumAt(g, f, s)
        BY <2>1, <2>3
      <4>8. QED
        BY <4>6, <4>7
    <3>3. QED
      BY <3>1, <3>2
  <2>4. Solves(h, n)
    BY <2>3
  <2>5. \E k : Solves(k, n)
    BY <2>4
  <2>6. n \in 0 .. Cardinality(S)
    BY <1>2, <1>4
  <2>7. QED
    BY <2>5, <2>6
<1>5. Cardinality(S) \in Solvable
  <2>1. \A n \in 1 .. Cardinality(S) : n - 1 \in Solvable => n \in Solvable
    BY <1>4
  <2> HIDE DEF Solvable
  <2>2. \A n \in 0 .. Cardinality(S) : n \in Solvable
    BY <1>2, <1>3, <2>1, IntervalInduction
  <2>3. QED
    BY <1>2, <2>2
<1>6. PICK g : Solves(g, Cardinality(S))
  BY <1>5
<1>7. DEFINE h == [s \in SUBSET S |-> g[s]]
<1>8. ASSUME NEW s \in SUBSET S PROVE h[s] = SumAt(h, f, s)
  <2>1. s \in Upto(Cardinality(S))
    BY <1>2, FS_Subset
  <2>2. g[s] = SumAt(g, f, s)
    BY <1>6, <2>1
  <2>3. s \ {CHOOSE x \in s : TRUE} \in SUBSET S
    OBVIOUS
  <2>4. SumAt(h, f, s) = SumAt(g, f, s)
    BY <2>3 DEF SumAt
  <2>5. QED
    BY <2>2, <2>4
<1>9. h = SumBody(h, f)
  BY <1>8 DEF SumBody
<1>10. QED
  BY <1>9

\* The sum of naturals is a natural.
LEMMA SumType ==
    ASSUME NEW f, IsFiniteSet(DOMAIN f), \A x \in DOMAIN f : f[x] \in Nat
    PROVE  SumFunction(f) \in Nat
<1>1. DEFINE S == DOMAIN f
             g == CHOOSE g : g = SumBody(g, f)
<1>2. SumFunction(f) = g[S]
  BY DEF SumFunction, SumFunctionOnSet, FoldFunctionOnSet, MapThenFoldSet, SumBody, SumAt
<1>3. g = SumBody(g, f)
  BY SumSolvable
<1> HIDE DEF g
<1>4. \A s \in SUBSET S : g[s] = SumAt(g, f, s)
  BY <1>3 DEF SumBody
<1>5. Cardinality(S) \in Nat /\ \A s \in SUBSET S : IsFiniteSet(s) /\ Cardinality(s) \in Nat
  BY FS_Subset, FS_CardinalityType
<1>6. DEFINE Good == {n \in 0 .. Cardinality(S) :
                        \A s \in SUBSET S : Cardinality(s) <= n => g[s] \in Nat}
<1>7. 0 \in Good
  <2>1. ASSUME NEW s \in SUBSET S, Cardinality(s) <= 0 PROVE g[s] \in Nat
    <3>1. s = {}
      BY <1>5, <2>1, FS_EmptySet
    <3>2. SumAt(g, f, s) = 0
      BY <3>1 DEF SumAt
    <3>3. g[s] = 0
      BY <1>4, <3>2
    <3>4. QED
      BY <3>3
  <2>2. QED
    BY <1>5, <2>1
<1>8. ASSUME NEW n \in 1 .. Cardinality(S), n - 1 \in Good,
             NEW s \in SUBSET S, Cardinality(s) <= n
      PROVE  g[s] \in Nat
  <2>1. CASE s = {}
    BY <1>4, <2>1 DEF SumAt
  <2>2. CASE s # {}
    <3>1. DEFINE x == CHOOSE x \in s : TRUE
    <3>2. x \in s /\ g[s] = f[x] + g[s \ {x}]
      BY <1>4, <2>2 DEF SumAt
    <3> HIDE DEF x
    <3>3. Cardinality(s \ {x}) = Cardinality(s) - 1
      BY <1>5, <3>2, FS_RemoveElement
    <3>4. Cardinality(s \ {x}) <= n - 1 /\ s \ {x} \in SUBSET S
      BY <1>5, <1>8, <3>3
    <3>5. f[x] \in Nat /\ g[s \ {x}] \in Nat
      BY <1>8, <3>2, <3>4
    <3>6. QED
      BY <3>2, <3>5
  <2>3. QED
    BY <2>1, <2>2
<1>9. \A n \in 1 .. Cardinality(S) : n - 1 \in Good => n \in Good
  BY <1>5, <1>8
<1>10. Cardinality(S) \in Good
  <2> HIDE DEF Good
  <2>1. \A n \in 0 .. Cardinality(S) : n \in Good
    BY <1>5, <1>7, <1>9, IntervalInduction
  <2>2. QED
    BY <1>5, <2>1
<1>11. Cardinality(S) <= Cardinality(S) /\ S \in SUBSET S
  BY <1>5
<1>12. QED
  BY <1>2, <1>10, <1>11
=============================================================================
