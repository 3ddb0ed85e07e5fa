--------------------------- MODULE Engines_proofs ---------------------------
(***************************************************************************)
(* The frontier portfolio for every number of candidates and rungs and every *)
(* scale of scores; the VectorForge goal for every number of runs; the     *)
(* brain's search for every budget and every scale of scores; and the types *)
(* of all engines that MCEngines puts together.                            *)
(***************************************************************************)
EXTENDS MCEngines, ResumableRun_proofs, WellFoundedInduction, TLAPS

-----------------------------------------------------------------------------
(* Induction and recursion over the natural numbers *)

LEMMA Induction ==
    ASSUME NEW S \in SUBSET Nat, 0 \in S, \A n \in S : n + 1 \in S
    PROVE  S = Nat
  <1> SUFFICES ASSUME Nat \ S # {} PROVE FALSE
    OBVIOUS
  <1>1. \E x \in Nat \ S : \A y \in Nat \ S : ~(<<y, x>> \in OpToRel(<, Nat))
    BY WFMin, NatLessThanWellFounded
  <1>2. PICK x \in Nat \ S : \A y \in Nat \ S : ~(<<y, x>> \in OpToRel(<, Nat))
    BY <1>1
  <1>3. x # 0 /\ x \in Nat
    OBVIOUS
  <1>4. x - 1 \in Nat /\ x - 1 \notin S /\ x - 1 < x
    BY <1>3
  <1>5. <<x - 1, x>> \in OpToRel(<, Nat)
    BY <1>4, <1>3 DEF OpToRel
  <1> QED
    BY <1>5, <1>2, <1>4

\* A start and a step define a function.
LEMMA Recursion ==
    ASSUME NEW S, NEW c \in S, NEW g \in [S -> S]
    PROVE  \E f \in [Nat -> S] : f[0] = c /\ \A n \in Nat : f[n + 1] = g[f[n]]
  <1> DEFINE Run(n, h) == /\ h \in [0..n -> S]
                          /\ h[0] = c
                          /\ \A i \in Nat : i < n => h[i + 1] = g[h[i]]
  <1>1. \A n \in Nat : \E h : Run(n, h)
    <2> DEFINE K == {n \in Nat : \E h : Run(n, h)}
    <2>1. 0 \in K
      <3>1. Run(0, [i \in 0..0 |-> c])
        OBVIOUS
      <3> QED
        BY <3>1
    <2>2. ASSUME NEW n \in K PROVE n + 1 \in K
      <3>1. PICK h : Run(n, h)
        BY <2>2
      <3> DEFINE e == [i \in 0..(n + 1) |-> IF i = n + 1 THEN g[h[n]] ELSE h[i]]
      <3>2. e \in [0..(n + 1) -> S]
        <4>1. n \in Nat /\ n \in 0..n /\ h[n] \in S
          BY <3>1
        <4>2. \A i \in 0..(n + 1) : i # n + 1 => i \in 0..n /\ h[i] \in S
          BY <3>1, <4>1
        <4> QED
          BY <4>1, <4>2
      <3>3. e[0] = c
        BY <3>1
      <3>4. ASSUME NEW i \in Nat, i < n + 1 PROVE e[i + 1] = g[e[i]]
        <4>1. CASE i = n
          BY <3>4, <4>1
        <4>2. CASE i < n
          BY <3>1, <3>4, <4>2
        <4> QED
          BY <3>4, <4>1, <4>2
      <3>5. Run(n + 1, e)
        BY <3>2, <3>3, <3>4
      <3> HIDE DEF e, Run
      <3> QED
        BY <3>5
    <2>3. K = Nat
      <3> HIDE DEF K
      <3>1. K \in SUBSET Nat
        BY DEF K
      <3> QED
        BY <2>1, <2>2, <3>1, Induction
    <2> QED
      BY <2>3
  <1>2. ASSUME NEW n \in Nat, NEW m \in Nat, NEW h, NEW e, Run(n, h), Run(m, e)
        PROVE  \A i \in Nat : i <= n /\ i <= m => h[i] = e[i]
    <2> DEFINE K == {i \in Nat : i <= n /\ i <= m => h[i] = e[i]}
    <2>1. 0 \in K
      BY <1>2
    <2>2. ASSUME NEW i \in K PROVE i + 1 \in K
      <3> SUFFICES ASSUME i + 1 <= n, i + 1 <= m PROVE h[i + 1] = e[i + 1]
        OBVIOUS
      <3>1. i < n /\ i < m /\ i \in Nat
        OBVIOUS
      <3>2. h[i] = e[i]
        BY <3>1
      <3> QED
        BY <1>2, <3>1, <3>2
    <2>3. K = Nat
      <3> HIDE DEF K
      <3>1. K \in SUBSET Nat
        BY DEF K
      <3> QED
        BY <2>1, <2>2, <3>1, Induction
    <2> QED
      BY <2>3
  <1> DEFINE R(n) == CHOOSE h : Run(n, h)
             f == [n \in Nat |-> R(n)[n]]
  <1>3. \A n \in Nat : Run(n, R(n))
    BY <1>1
  <1> HIDE DEF R
  <1>4. \A n \in Nat : R(n)[n] \in S
    BY <1>3
  <1>5. f \in [Nat -> S]
    BY <1>4
  <1>6. f[0] = c
    BY <1>3
  <1>7. ASSUME NEW n \in Nat PROVE f[n + 1] = g[f[n]]
    <2>1. n + 1 \in Nat /\ n < n + 1 /\ n <= n + 1 /\ n <= n
      OBVIOUS
    <2>2. R(n + 1)[n + 1] = g[R(n + 1)[n]]
      BY <1>3, <2>1
    <2>3. R(n + 1)[n] = R(n)[n]
      <3>1. Run(n + 1, R(n + 1)) /\ Run(n, R(n))
        BY <1>3, <2>1
      <3> HIDE DEF Run
      <3> QED
        BY <1>2, <2>1, <3>1
    <2> QED
      BY <2>1, <2>2, <2>3
  <1> QED
    BY <1>5, <1>6, <1>7

-----------------------------------------------------------------------------
(* The ladder of the portfolio *)

LEMMA Shapes ==
    /\ IsFiniteSet(Arms) /\ Cardinality(Arms) \in Nat
    /\ FullData \in Nat \ {0} /\ Eta \in Nat \ {0, 1}
    /\ \A s \in ArmScores \cup {0} : s \in Int
  <1>1. \A s \in ArmScores : s \in Int
    BY PortfolioAssumption DEF PortfolioAssumption
  <1>2. Cardinality(Arms) \in Nat
    BY PortfolioAssumption, FS_CardinalityType DEF PortfolioAssumption
  <1> QED
    BY <1>1, <1>2, PortfolioAssumption DEF PortfolioAssumption

\* A rung has a number of entrants.
LEMMA EnteringType == Entering \in [Nat -> Nat]
  <1> DEFINE More(n) == IF (n + Eta - 1) \div Eta > 1
                        THEN (n + Eta - 1) \div Eta ELSE 1
             g == [n \in Nat |-> More(n)]
             G(f) == [k \in Nat |-> IF k = 0 THEN Cardinality(Arms)
                                    ELSE More(f[k - 1])]
  <1>1. g \in [Nat -> Nat]
    <2> SUFFICES ASSUME NEW n \in Nat PROVE More(n) \in Nat
      OBVIOUS
    <2>1. (n + Eta - 1) \div Eta \in Int
      BY Shapes
    <2> QED
      BY <2>1
  <1>2. PICK f \in [Nat -> Nat] :
          f[0] = Cardinality(Arms) /\ \A n \in Nat : f[n + 1] = g[f[n]]
    <2> HIDE DEF g
    <2>0. \A c \in Nat, h \in [Nat -> Nat] :
            \E e \in [Nat -> Nat] :
              e[0] = c /\ \A n \in Nat : e[n + 1] = h[e[n]]
      <3> DEFINE S == Nat
      <3> HIDE DEF S
      <3>1. \A c \in S, h \in [S -> S] :
              \E e \in [Nat -> S] :
                e[0] = c /\ \A n \in Nat : e[n + 1] = h[e[n]]
        BY Recursion
      <3> QED
        BY <3>1 DEF S
    <2>1. Cardinality(Arms) \in Nat
      BY Shapes
    <2> QED
      BY <1>1, <2>1, <2>0
  <1>3. f = G(f)
    <2>1. ASSUME NEW k \in Nat
          PROVE  f[k] = IF k = 0 THEN Cardinality(Arms) ELSE More(f[k - 1])
      <3>1. CASE k = 0
        BY <1>2, <3>1
      <3>2. CASE k # 0
        <4>1. k - 1 \in Nat /\ (k - 1) + 1 = k
          BY <3>2
        <4>2. f[k] = g[f[k - 1]] /\ f[k - 1] \in Nat
          BY <1>2, <4>1
        <4> QED
          BY <3>2, <4>2
      <3> QED
        BY <3>1, <3>2
    <2> HIDE DEF More
    <2> QED
      BY <2>1
  <1>4. Entering = CHOOSE h : h = G(h)
    BY DEF Entering
  <1>5. Entering = G(Entering)
    BY <1>3, <1>4
  <1> DEFINE K == {k \in Nat : Entering[k] \in Nat}
  <1>6. \A n \in Nat : More(n) \in Nat
    BY <1>1
  <1> HIDE DEF More
  <1>7. \A k \in Nat : Entering[k] = IF k = 0 THEN Cardinality(Arms)
                                     ELSE More(Entering[k - 1])
    BY <1>5
  <1> HIDE DEF G, g
  <1>8. 0 \in K
    BY <1>7, Shapes
  <1>9. ASSUME NEW k \in K PROVE k + 1 \in K
    <2>1. k + 1 \in Nat /\ k + 1 # 0 /\ (k + 1) - 1 = k
      OBVIOUS
    <2> QED
      BY <1>6, <1>7, <2>1
  <1>10. K = Nat
    <2> HIDE DEF K
    <2>1. K \in SUBSET Nat
      BY DEF K
    <2> QED
      BY <1>8, <1>9, <2>1, Induction
  <1>11. Entering = [k \in Nat |-> Entering[k]]
    BY <1>5 DEF G
  <1> QED
    BY <1>10, <1>11

LEMMA SurvivorsType == \A k \in Nat : Survivors(k) \in Nat
  BY EnteringType DEF Survivors

LEMMA Ladder ==
    /\ Rungs \subseteq Nat /\ TopRung \in Nat /\ Rungs = 0..TopRung
    /\ \A k : Data(k) \in 1..FullData
  <1> DEFINE K == {k \in 0..FullData : LeastData * Eta^k <= FullData}
             n == Cardinality(K)
             t == IF n < 2 THEN 1 ELSE n - 1
  <1>1. n \in Nat
    <2>1. IsFiniteSet(0..FullData)
      BY Shapes, FS_Interval
    <2>2. IsFiniteSet(K)
      <3>1. K \in SUBSET (0..FullData)
        OBVIOUS
      <3> HIDE DEF K
      <3> QED
        BY <2>1, <3>1, FS_Subset
    <2> HIDE DEF K
    <2> QED
      BY <2>2, FS_CardinalityType
  <1>2. Rungs = 0..t
    BY DEF Rungs
  <1> HIDE DEF n
  <1>3. t \in Nat
    BY <1>1
  <1> HIDE DEF t
  <1>4. Cardinality(0..t) = t + 1
    BY <1>3, FS_Interval
  <1>5. TopRung = t
    BY <1>2, <1>3, <1>4 DEF TopRung
  <1>6. \A k : Data(k) \in 1..FullData
    BY Shapes DEF Data
  <1> QED
    BY <1>2, <1>3, <1>5, <1>6

-----------------------------------------------------------------------------
(* Kills *)

\* A candidate is pending, launched or settled, and what has settled is the
\* last that is known of it.
OneState ==
    /\ pending \cap flying = {}
    /\ pending \cap Scored = {}
    /\ flying \cap Scored = {}
    /\ \A q \in Scored : last[q] = [score |-> settled[q], rung |-> rung]

Banded == band \in [lo : Int, hi : Int, any : BOOLEAN]

PortInv == PortTypeOK /\ OneState /\ Banded /\ KillIsAdmissible

LEMMA SpanPositive == Banded => Span \in Nat \ {0}
  BY DEF Banded, Span

LEMMA ProductType == \A a, b \in Nat : a * b \in Nat
  OBVIOUS

\* The lower bound of a score is not above the score.
LEMMA LowerIsBelow ==
    ASSUME PortTypeOK, OneState, Banded, NEW q \in Scored
    PROVE  /\ Lower(q) \in Int /\ 2 * FullData * settled[q] \in Int
           /\ Lower(q) <= 2 * FullData * settled[q]
  <1>1. settled[q] \in Int /\ last[q].score = settled[q]
    <2>1. settled[q] \in ArmScores
      BY DEF PortTypeOK
    <2>2. last[q] = [score |-> settled[q], rung |-> rung]
      BY Zenon DEF OneState
    <2>3. last[q].score = settled[q]
      BY <2>2
    <2> QED
      BY <2>1, <2>3, Shapes
  <1> DEFINE d == FullData - Data(last[q].rung)
             m == 2 * FullData
  <1>2. d \in Nat /\ m \in Int
    <2>1. Data(last[q].rung) \in 1..FullData
      BY Ladder
    <2> QED
      BY <2>1, Shapes
  <1> HIDE DEF d, m
  <1>3. Span * d \in Nat
    BY <1>2, SpanPositive
  <1>4. Lower(q) = m * settled[q] - Span * d
    BY <1>1 DEF Lower, Bonus, d, m
  <1>5. m * settled[q] \in Int
    BY <1>1, <1>2
  <1>6. Lower(q) \in Int /\ Lower(q) <= m * settled[q]
    BY <1>3, <1>4, <1>5
  <1> QED
    BY <1>5, <1>6 DEF m

LEMMA UpperType ==
    ASSUME PortTypeOK, Banded, NEW a \in Arms
    PROVE  Upper(a) \in Int
  <1>1. last[a].score \in Int
    BY Shapes DEF PortTypeOK
  <1>2. Data(last[a].rung) \in Int /\ FullData \in Int /\ Span \in Int
    BY Ladder, Shapes, SpanPositive
  <1>3. Bonus(a) \in Int
    BY <1>2 DEF Bonus
  <1>4. 2 * FullData * last[a].score \in Int
    BY <1>1, <1>2
  <1> QED
    BY <1>3, <1>4 DEF Upper

\* How many candidates satisfy more is no less.
LEMMA MoreCandidates ==
    ASSUME NEW S, NEW T, IsFiniteSet(T), S \subseteq T,
           NEW n \in Nat, Cardinality(S) >= n
    PROVE  Cardinality(T) >= n
  <1>1. IsFiniteSet(S) /\ Cardinality(S) <= Cardinality(T)
    BY FS_Subset
  <1>2. Cardinality(S) \in Nat /\ Cardinality(T) \in Nat
    BY <1>1, FS_CardinalityType
  <1> QED
    BY <1>1, <1>2

Above(u) == {q \in Scored : 2 * FullData * settled[q] > u}

LEMMA AboveIsFinite == PortTypeOK => \A u : IsFiniteSet(Above(u))
  <1> SUFFICES ASSUME PortTypeOK, NEW u PROVE IsFiniteSet(Above(u))
    OBVIOUS
  <1>1. Above(u) \in SUBSET Arms
    BY DEF PortTypeOK, Above
  <1> QED
    BY <1>1, Shapes, FS_Subset

LEMMA KillsSeen ==
    KillIsAdmissible <=>
      \A a \in DOMAIN killed : Cardinality(Above(killed[a])) >= Survivors(rung)
  BY DEF KillIsAdmissible, Above, Quantify

\* Whoever is hopeless has that many above it.
LEMMA HopelessIsBeaten ==
    ASSUME PortTypeOK, OneState, Banded, NEW a \in pending, Hopeless(a)
    PROVE  Cardinality(Above(Upper(a))) >= Survivors(rung)
  <1> DEFINE L == {q \in Scored : Lower(q) >= Upper(a) + 1}
  <1>1. Cardinality(L) >= Survivors(rung)
    BY DEF Hopeless, Beaten, Quantify
  <1>2. Upper(a) \in Int
    BY UpperType DEF PortTypeOK
  <1>3. L \subseteq Above(Upper(a))
    BY <1>2, LowerIsBelow DEF Above
  <1>4. Survivors(rung) \in Nat
    BY Ladder, SurvivorsType DEF PortTypeOK
  <1> HIDE DEF L
  <1> QED
    BY <1>1, <1>3, <1>4, AboveIsFinite, MoreCandidates

LEMMA InitPort == PortInit => PortInv
  <1> SUFFICES ASSUME PortInit PROVE PortInv
    OBVIOUS
  <1>1. Scored = {} /\ DOMAIN killed = {}
    BY DEF PortInit, Scored
  <1>2. 0 \in Rungs
    BY Ladder
  <1>3. last \in [Arms -> [score : ArmScores \cup {0}, rung : Rungs \cup {-1}]]
    BY DEF PortInit, Never
  <1>4. settled \in [Scored -> ArmScores]
    BY <1>1 DEF PortInit
  <1>5. PortTypeOK
    BY <1>1, <1>2, <1>3, <1>4 DEF PortInit, PortTypeOK
  <1> QED
    BY <1>1, <1>5 DEF PortInit, PortInv, OneState, Banded, KillIsAdmissible

LEMMA SettleKeeps ==
    ASSUME PortInv, Settle
    PROVE  PortInv'
  <1>t. /\ PortTypeOK /\ OneState /\ Banded /\ KillIsAdmissible
        /\ Survivors(rung) \in Nat
    BY Ladder, SurvivorsType DEF PortInv, PortTypeOK
  <1>1. PICK a \in flying :
          /\ flying' = flying \ {a}
          /\ \/ UNCHANGED <<settled, last, band>>
             \/ \E s \in ArmScores : Observe(a, s)
    BY DEF Settle
  <1>2. fpc' = "batch" /\ UNCHANGED <<rung, alive, pending, killed, raceBest>>
    BY DEF Settle
  <1>3. CASE UNCHANGED <<settled, last, band>>
    <2>1. Scored' = Scored /\ \A u : Above(u)' = Above(u)
      BY <1>3 DEF Scored, Above
    <2>2. Survivors(rung)' = Survivors(rung)
      BY <1>2 DEF Survivors
    <2>3. KillIsAdmissible'
      BY <1>2, <1>3, <1>t, <2>1, <2>2 DEF KillIsAdmissible, Quantify
    <2> QED
      BY <1>t, <1>1, <1>2, <1>3, <2>1, <2>3
      DEF PortInv, PortTypeOK, OneState, Banded
  <1>4. ASSUME NEW s \in ArmScores, Observe(a, s) PROVE PortInv'
    <2>1. /\ settled' = [x \in Scored \cup {a} |-> IF x = a THEN s ELSE settled[x]]
          /\ last' = [last EXCEPT ![a] = [score |-> s, rung |-> rung]]
          /\ band' = IF ~band.any THEN [lo |-> s, hi |-> s, any |-> TRUE]
                     ELSE [band EXCEPT !.lo = IF s < @ THEN s ELSE @,
                                       !.hi = IF s > @ THEN s ELSE @]
      BY <1>4 DEF Observe
    <2>2. /\ a \in alive /\ a \in Arms /\ a \notin Scored /\ a \notin pending
          /\ s \in Int
      BY <1>1, <1>t, Shapes DEF PortTypeOK, OneState
    <2>3. /\ Scored' = Scored \cup {a} /\ settled'[a] = s
          /\ \A q \in Scored : settled'[q] = settled[q]
      BY <2>1, <2>2 DEF Scored
    <2>4. PortTypeOK'
      <3>1. settled' \in [Scored' -> ArmScores]
        BY <1>t, <2>1, <2>3 DEF PortTypeOK
      <3>2. last' \in
              [Arms -> [score : ArmScores \cup {0}, rung : Rungs \cup {-1}]]
        BY <1>t, <2>1 DEF PortTypeOK
      <3> QED
        BY <1>t, <1>1, <1>2, <2>2, <2>3, <3>1, <3>2 DEF PortTypeOK
    <2>5. OneState'
      BY <1>t, <1>1, <1>2, <2>1, <2>2, <2>3 DEF OneState, PortTypeOK
    <2>6. Banded'
      BY <1>t, <2>1, <2>2 DEF Banded
    <2>7. KillIsAdmissible'
      <3>1. \A u : Above(u) \subseteq Above(u)'
        BY <2>3 DEF Above
      <3>2. Survivors(rung)' = Survivors(rung) /\ killed' = killed
        BY <1>2 DEF Survivors
      <3>3. ASSUME NEW b \in DOMAIN killed
            PROVE  Cardinality(Above(killed[b])') >= Survivors(rung)
        <4>1. Cardinality(Above(killed[b])) >= Survivors(rung)
          BY <1>t, KillsSeen
        <4>2. IsFiniteSet(Above(killed[b])')
          <5>1. Above(killed[b])' \in SUBSET Arms
            BY <1>2, <2>4 DEF PortTypeOK, Above
          <5> QED
            BY <5>1, Shapes, FS_Subset
        <4> QED
          BY <1>t, <3>1, <3>2, <4>1, <4>2, MoreCandidates
      <3> QED
        BY <3>2, <3>3 DEF KillIsAdmissible, Quantify, Above
    <2> QED
      BY <2>4, <2>5, <2>6, <2>7 DEF PortInv
  <1> QED
    BY <1>1, <1>3, <1>4

LEMMA PruneKeeps ==
    ASSUME PortInv, Prune
    PROVE  PortInv'
  <1>t. PortTypeOK /\ OneState /\ Banded /\ KillIsAdmissible
    BY DEF PortInv
  <1> DEFINE k == IF Data(rung) = FullData THEN {}
                  ELSE {a \in pending : Hopeless(a)}
  <1>1. /\ pending' = pending \ k
        /\ killed' = [a \in DOMAIN killed \cup k |->
                        IF a \in k THEN Upper(a) ELSE killed[a]]
        /\ fpc' = "wait"
        /\ UNCHANGED <<rung, alive, flying, settled, last, band, raceBest>>
    BY DEF Prune
  <1>2. k \subseteq pending /\ \A a \in k : Hopeless(a)
    OBVIOUS
  <1> HIDE DEF k
  <1>3. /\ DOMAIN killed' = DOMAIN killed \cup k
        /\ \A a \in k : killed'[a] = Upper(a)
        /\ \A a \in DOMAIN killed \ k : killed'[a] = killed[a]
    BY <1>1
  <1>4. /\ Scored' = Scored /\ Survivors(rung)' = Survivors(rung)
        /\ \A u : Above(u)' = Above(u)
    BY <1>1 DEF Scored, Survivors, Above
  <1>5. ASSUME NEW b \in DOMAIN killed'
        PROVE  Cardinality(Above(killed'[b])) >= Survivors(rung)
    <2>1. CASE b \in k
      BY <1>t, <1>2, <1>3, <2>1, HopelessIsBeaten
    <2>2. CASE b \notin k
      <3>1. b \in DOMAIN killed /\ killed'[b] = killed[b]
        BY <1>3, <1>5, <2>2
      <3> QED
        BY <1>t, <3>1, KillsSeen
    <2> QED
      BY <2>1, <2>2
  <1>6. KillIsAdmissible'
    BY <1>1, <1>4, <1>5 DEF KillIsAdmissible, Quantify, Above
  <1> QED
    BY <1>t, <1>1, <1>2, <1>3, <1>4, <1>6
    DEF PortInv, PortTypeOK, OneState, Banded

LEMMA EndRungKeeps ==
    ASSUME PortInv, EndRung
    PROVE  PortInv'
  <1>t. PortTypeOK /\ OneState /\ Banded
    BY DEF PortInv
  <1>1. /\ pending = {} /\ flying = {} /\ rung < TopRung
        /\ alive' \in TopSets /\ pending' = alive' /\ rung' = rung + 1
        /\ settled' = << >> /\ killed' = << >>
        /\ UNCHANGED <<fpc, flying, last, band, raceBest>>
    BY DEF EndRung
  <1>2. alive' \subseteq Scored
    BY <1>1 DEF TopSets, kSubset
  <1>3. Scored' = {} /\ DOMAIN killed' = {}
    BY <1>1 DEF Scored
  <1>4. rung' \in Rungs
    BY <1>1, <1>t, Ladder DEF PortTypeOK
  <1>5. settled' \in [Scored' -> ArmScores]
    BY <1>1, <1>3
  <1>6. PortTypeOK'
    BY <1>t, <1>1, <1>2, <1>3, <1>4, <1>5 DEF PortTypeOK
  <1> QED
    BY <1>t, <1>1, <1>3, <1>6
    DEF PortInv, OneState, Banded, KillIsAdmissible

LEMMA StepPort == PortInv /\ [PortNext]_portVars => PortInv'
  <1> SUFFICES ASSUME PortInv, [PortNext]_portVars PROVE PortInv'
    OBVIOUS
  <1>t. PortTypeOK /\ OneState /\ Banded /\ KillIsAdmissible
    BY DEF PortInv
  <1>0. ASSUME UNCHANGED <<rung, settled, killed>> PROVE KillIsAdmissible'
    BY <1>t, <1>0 DEF KillIsAdmissible, Quantify, Survivors, Scored
  <1>1. CASE Launch
    <2>1. UNCHANGED <<fpc, rung, alive, settled, last, band, killed, raceBest>>
      BY <1>1 DEF Launch
    <2> QED
      BY <1>t, <1>0, <1>1, <2>1
      DEF Launch, PortInv, PortTypeOK, OneState, Banded, Scored
  <1>2. CASE EndRace
    <2>1. /\ UNCHANGED <<rung, alive, pending, flying, settled, last, band,
                         killed>>
          /\ fpc' = "over"
          /\ raceBest' = raceBest \/ raceBest'.arm \in Arms
      BY <1>t, <1>2 DEF EndRace, Leaders, PortTypeOK
    <2> QED
      BY <1>t, <1>0, <2>1 DEF PortInv, PortTypeOK, OneState, Banded, Scored
  <1>3. CASE UNCHANGED portVars
    BY <1>t, <1>0, <1>3
    DEF portVars, PortInv, PortTypeOK, OneState, Banded, Scored
  <1> QED
    BY <1>1, <1>2, <1>3, SettleKeeps, PruneKeeps, EndRungKeeps DEF PortNext

LEMMA PortInductive == PortSpec => []PortInv
  BY InitPort, StepPort, PTL DEF PortSpec

\* For every number of candidates, ladder and scale of scores, a candidate
\* killed in a rung could not have come within the survivors of it.
THEOREM KillsAreAdmissible == PortSpec => []KillIsAdmissible
  BY PortInductive, PTL DEF PortInv

-----------------------------------------------------------------------------
(* The brain's search *)

\* Every axis that the allowed levers and the score of the best so far make
\* worth a try has been found justified.
LookedAt ==
    /\ val < Bar =>
         {"model_class", "representation"} \cap setup.allowed \subseteq justified
    /\ setup.imbalanced => {"rebalance"} \cap setup.allowed \subseteq justified

\* Nothing was looked at, and a budget of one experiment allowed no look.
NoLook == triedAxes = {} /\ setup.budget = 1

BrainInv ==
    /\ setup.allowed \subseteq Axes /\ setup.budget \in Nat \ {0}
    /\ val \in Int /\ Bar \in Nat /\ StopMargin \in Nat
    /\ BrainRounds \in Nat \ {0} /\ brnd \in Nat
    /\ brnd = 0 => triedAxes = {} /\ experiments = 1
    /\ brnd > 0 => LookedAt
    /\ bpc = "over" => LookedAt \/ NoLook \/ val >= Bar
    /\ LabelsAskedWhenExhausted
    /\ advice # "none" => bpc = "over"

LEMMA InitBrain == BrainInit => BrainInv
  <1> SUFFICES ASSUME BrainInit PROVE BrainInv
    OBVIOUS
  <1> USE BrainAssumption DEF BrainAssumption
  <1>1. setup.allowed \subseteq Axes /\ setup.budget \in Nat \ {0}
    <2>1. /\ setup.allowed \in SUBSET Axes
          /\ setup.budget \in MaxExperiments
      BY DEF BrainInit
    <2> QED
      BY <2>1
  <1>2. val \in Int
    BY DEF BrainInit
  <1> QED
    BY <1>1, <1>2 DEF BrainInit, BrainInv, LabelsAskedWhenExhausted

LEMMA StepBrain == BrainInv /\ [BrainNext]_brainVars => BrainInv'
  <1> SUFFICES ASSUME BrainInv, [BrainNext]_brainVars PROVE BrainInv'
    OBVIOUS
  <1> USE BrainAssumption DEF BrainInv, BrainAssumption
  <1>1. CASE StopSearch
    <2>1. /\ bpc = "round" /\ bpc' = "over" /\ brnd # BrainRounds
          /\ UNCHANGED <<setup, brnd, val, triedAxes, experiments, advice>>
          /\ justified \subseteq justified'
      BY <1>1 DEF StopSearch, RoundsOver
    <2>2. CASE ClearsWithMargin
      BY <2>1, <2>2
      DEF ClearsWithMargin, LookedAt, LabelsAskedWhenExhausted
    <2>3. CASE experiments >= setup.budget
      <3>1. brnd > 0 \/ (triedAxes = {} /\ setup.budget = 1)
        BY <2>3
      <3> QED
        BY <2>1, <3>1 DEF LookedAt, NoLook, LabelsAskedWhenExhausted
    <2>4. CASE justified' = justified \cup Evidence
      <3>1. LookedAt'
        BY <2>1, <2>4 DEF LookedAt, Evidence
      <3> QED
        BY <2>1, <3>1 DEF LabelsAskedWhenExhausted
    <2> QED
      BY <1>1, <2>2, <2>3, <2>4 DEF StopSearch
  <1>2. CASE UseUpRounds
    BY <1>2
    DEF UseUpRounds, RoundsOver, LookedAt, LabelsAskedWhenExhausted
  <1>3. CASE TryAxis
    <2>1. PICK axis \in Untried :
            /\ justified' = justified \cup Evidence
            /\ triedAxes' = triedAxes \cup {axis}
      BY <1>3 DEF TryAxis, Justified
    <2>2. /\ bpc = "round" /\ brnd' = brnd + 1
          /\ UNCHANGED <<setup, bpc, stopped, advice>>
      BY <1>3 DEF TryAxis
    <2>3. val' \in Int /\ val' >= val
      BY <1>3 DEF TryAxis, Kept
    <2>4. LookedAt'
      BY <2>1, <2>2, <2>3 DEF LookedAt, Evidence
    <2> QED
      BY <2>2, <2>3, <2>4 DEF LabelsAskedWhenExhausted
  <1>4. CASE Recommend
    <2>1. /\ bpc = "over" /\ bpc' = bpc
          /\ UNCHANGED <<setup, brnd, val, justified, triedAxes, experiments>>
      BY <1>4 DEF Recommend
    <2>2. ASSUME advice' = "acquire_labels"
          PROVE  val < Bar /\ Levers \subseteq triedAxes
      BY <1>4, <2>2 DEF Recommend
    <2>3. LabelsAskedWhenExhausted'
      BY <2>1, <2>2
      DEF LookedAt, NoLook, Levers, LabelsAskedWhenExhausted
    <2> QED
      BY <2>1, <2>3 DEF LookedAt, NoLook
  <1>5. CASE UNCHANGED brainVars
    BY <1>5 DEF brainVars, LookedAt, NoLook, LabelsAskedWhenExhausted
  <1> QED
    BY <1>1, <1>2, <1>3, <1>4, <1>5 DEF BrainNext

\* For any scores, bar and budgets: whoever is told to acquire labels has had
\* every axis tried that could have closed the gap.
THEOREM LabelsAreLast == BrainSpec => []LabelsAskedWhenExhausted
  <1>1. BrainInv => LabelsAskedWhenExhausted
    BY DEF BrainInv
  <1> QED
    BY <1>1, InitBrain, StepBrain, PTL DEF BrainSpec

-----------------------------------------------------------------------------
(* The VectorForge goal *)

AfterSplit == {"few", "data_engine", "moved", "labels", "research", "found",
               "certify", "finalize"}
AfterMove == {"labels", "research", "found", "certify", "finalize"}

\* While a run goes on its goal is what is saved; between runs the file may be
\* torn instead.
SavedGoal ==
    /\ vpc # "idle" => saved = goal /\ goal.status = "running"
    /\ saved = goal \/ saved = Torn

\* Marks are made in order, and a run stands where its marks allow.
MarksInOrder ==
    /\ "data_engine" \in goal.marks => "split" \in goal.marks
    /\ "research" \in goal.marks => "data_engine" \in goal.marks
    /\ vpc \in AfterSplit => "split" \in goal.marks
    /\ vpc \in AfterMove => "data_engine" \in goal.marks
    /\ vpc = "moved" => "data_engine" \notin goal.marks
    /\ vpc \in {"certify", "finalize"} => "research" \in goal.marks

\* Moves without a mark are paid for by deaths.
MovesCounted ==
    /\ "split" \notin goal.marks => train.moves = 0
    /\ "data_engine" \notin goal.marks =>
         /\ goal.adopted = FALSE
         /\ vpc # "moved" => train.moves <= unmarked
    /\ vpc = "moved" => train.moves >= 1
    /\ MovesOnce

\* From the search on, the winner is the one of the stored rows.
WinnerOfRows ==
    /\ "research" \in goal.marks \/ vpc = "found" => winner.rows = train
    /\ vpc = "finalize" /\ promoted = TRUE =>
         goal.cert = "certified" /\ winner.clears = TRUE /\ train.sound = TRUE

ForgeInv ==
    /\ ForgeTypeOK
    /\ raw.split \in TrainSets /\ raw.split.moves = 0
    /\ SavedGoal
    /\ MarksInOrder
    /\ MovesCounted
    /\ WinnerOfRows
    /\ ServedIsCertified

\* What a goal may be, in memory or on disk.
Goals == [status : Statuses \cup {"torn"}, marks : SUBSET Stages,
          adopted : BOOLEAN, deployed : BOOLEAN,
          cert : {"none", "certified", "do_not_certify", "blocked"}]

LEMMA NoGoalType ==
    /\ NoGoal \in Goals /\ Torn \in Goals
    /\ Torn.status = "torn" /\ NoGoal.status = "draft"
  BY DEF NoGoal, Torn, Goals, Statuses, Stages

LEMMA InitForge == ForgeInit => ForgeInv
  <1> SUFFICES ASSUME ForgeInit PROVE ForgeInv
    OBVIOUS
  <1> USE VectorForgeAssumption DEF ForgeInit
  <1>1. raw.split \in TrainSets /\ raw.split.moves = 0
    OBVIOUS
  <1>2. NoWinner \in Winners
    BY DEF NoWinner, Winners, TrainSets
  <1>3. ForgeTypeOK
    <2>1. goal \in Goals /\ saved \in Goals
      BY NoGoalType
    <2>2. train \in TrainSets /\ winner \in Winners
      BY <1>1, <1>2
    <2>3. promoted \in BOOLEAN
      OBVIOUS
    <2>4. goalRuns \in 0..MaxGoalRuns
      OBVIOUS
    <2> QED
      BY <2>1, <2>2, <2>3, <2>4 DEF ForgeTypeOK, Goals, Stages
  <1> QED
    BY <1>1, <1>3
    DEF ForgeInv, SavedGoal, MarksInOrder, MovesCounted, MovesOnce,
        WinnerOfRows, ServedIsCertified, NoGoal, AfterSplit, AfterMove

LEMMA StepForge == ForgeInv /\ [ForgeNext]_forgeVars => ForgeInv'
  <1> SUFFICES ASSUME ForgeInv, [ForgeNext]_forgeVars PROVE ForgeInv'
    OBVIOUS
  <1> USE VectorForgeAssumption
      DEF ForgeInv, ForgeTypeOK, SavedGoal, MarksInOrder, MovesCounted,
          MovesOnce, WinnerOfRows, ServedIsCertified, AfterSplit, AfterMove,
          Stages, Statuses, Save, Marked, disk
  <1>t. train.moves \in Nat /\ unmarked \in Nat
    BY DEF TrainSets
  <1>1. CASE Begin
    <2>1. /\ saved = goal /\ goal \in Goals
          /\ goal' = [goal EXCEPT !.status = "running"] /\ saved' = goal'
          /\ vpc = "idle" /\ vpc' = "profile" /\ promoted' = FALSE
          /\ goalRuns' = goalRuns + 1 /\ goalRuns < MaxGoalRuns
          /\ UNCHANGED <<raw, train, winner, unmarked>>
      BY <1>1 DEF Begin, Begun, Goals
    <2>2. /\ goal' \in Goals /\ goal'.status = "running"
          /\ goal'.marks = goal.marks /\ goal'.adopted = goal.adopted
      BY <2>1 DEF Goals
    <2>3. MarksInOrder'
      BY <2>1, <2>2
    <2>4. MovesCounted'
      BY <2>1, <2>2
    <2>5. goalRuns' \in 0..MaxGoalRuns
      BY <2>1
    <2> QED
      BY <2>1, <2>2, <2>3, <2>4, <2>5 DEF Goals
  <1>2. CASE Profile
    BY <1>2 DEF Profile
  <1>3. CASE Audit
    BY <1>3 DEF Audit
  <1>4. CASE Split
    BY <1>4 DEF Split
  <1>5. CASE AdoptRows
    BY <1>t, <1>5 DEF AdoptRows, ToMove, Proposed
  <1>6. CASE MarkMove
    <2>1. /\ vpc = "moved" /\ vpc' = "research" /\ saved' = goal'
          /\ goal' = [Marked(goal, "data_engine") EXCEPT !.adopted = TRUE]
          /\ UNCHANGED <<raw, train, winner, promoted, goalRuns, unmarked>>
      BY <1>6 DEF MarkMove
    <2>2. /\ goal' \in Goals /\ goal'.status = goal.status
          /\ goal'.marks = goal.marks \cup {"data_engine"}
          /\ goal'.adopted = TRUE
      BY <2>1 DEF Goals
    <2>3. MovesCounted'
      BY <1>t, <2>1, <2>2
    <2> QED
      BY <2>1, <2>2, <2>3 DEF Goals
  <1>7. CASE LeaveRows
    BY <1>t, <1>7 DEF LeaveRows, ToMove
  <1>8. CASE Research
    BY <1>8 DEF Research, ToSearch, Winners
  <1>15. CASE MarkResearch
    BY <1>15 DEF MarkResearch
  <1>9. CASE CertifyWinner
    <2>1. PICK passed \in BOOLEAN, verdict \in
                 {"certified", "do_not_certify", "blocked"} :
            /\ passed = TRUE => /\ verdict = "certified"
                                /\ winner.clears = TRUE /\ train.sound = TRUE
            /\ promoted' = passed
            /\ goal' = [Marked(goal, "certify") EXCEPT !.cert = verdict]
      <3>1. PICK quick \in BOOLEAN :
              LET passed == winner.clears /\ quick /\ train.sound
              IN  /\ promoted' = passed
                  /\ goal' = [Marked(goal, "certify") EXCEPT !.cert =
                                IF passed THEN "certified"
                                ELSE IF train.sound THEN "do_not_certify"
                                ELSE "blocked"]
        BY <1>9 DEF CertifyWinner
      <3>2. winner.clears \in BOOLEAN /\ train.sound \in BOOLEAN
        BY DEF Winners, TrainSets
      <3>3. CASE winner.clears /\ quick /\ train.sound
        BY <3>1, <3>2, <3>3
      <3>4. CASE ~(winner.clears /\ quick /\ train.sound)
        BY <3>1, <3>2, <3>4
      <3> QED
        BY <3>3, <3>4
    <2>2. /\ vpc = "certify" /\ vpc' = "finalize" /\ saved' = goal'
          /\ UNCHANGED <<raw, train, winner, goalRuns, unmarked>>
      BY <1>9 DEF CertifyWinner
    <2>3. /\ goal' \in Goals /\ goal'.status = goal.status
          /\ goal'.marks = goal.marks \cup {"certify"}
          /\ goal'.adopted = goal.adopted /\ goal'.cert = verdict
      BY <2>1 DEF Goals
    <2> QED
      BY <2>1, <2>2, <2>3 DEF Goals
  <1>10. CASE Finalize
    <2>1. /\ vpc = "finalize" /\ vpc' = "idle" /\ saved' = goal'
          /\ UNCHANGED <<raw, train, winner, promoted, goalRuns, unmarked>>
      BY <1>10 DEF Finalize
    <2>2. /\ goal' \in Goals
          /\ goal'.marks = goal.marks /\ goal'.adopted = goal.adopted
          /\ goal'.cert = goal.cert
          /\ goal'.status = "passed" =>
               promoted = TRUE /\ goal'.deployed = TRUE
      <3>1. CASE promoted
        BY <1>10, <3>1 DEF Finalize, Goals
      <3>2. CASE ~promoted
        BY <1>10, <3>2 DEF Finalize, Goals
      <3> QED
        BY <3>1, <3>2
    <2>3. ServedIsCertified'
      BY <2>1, <2>2
    <2>4. MarksInOrder' /\ MovesCounted'
      BY <1>t, <2>1, <2>2
    <2> QED
      BY <2>1, <2>2, <2>3, <2>4 DEF Goals
  <1>11. CASE Die
    <2>1. /\ vpc # "idle" /\ vpc' = "idle" /\ saved' \in {saved, Torn}
          /\ saved = goal /\ goal.status = "running"
          /\ UNCHANGED <<raw, goal, promoted, goalRuns>>
      BY <1>11 DEF Die
    <2>6. winner' \in Winners /\ WinnerOfRows'
      <3>1. winner' = winner \/ "research" \notin goal.marks
        BY <1>11 DEF Die, ToSearch
      <3>2. NoWinner \in Winners
        BY DEF NoWinner, Winners, TrainSets
      <3>3. winner' \in Winners
        BY <1>11, <3>2 DEF Die
      <3>4. train' = train \/ "research" \notin goal.marks
        BY <1>11 DEF Die, CutRows, ToMove
      <3> QED
        BY <2>1, <3>1, <3>3, <3>4
    <2>2. saved' \in Goals /\ saved'.status # "passed"
      BY <2>1, NoGoalType DEF Goals
    <2>3. CASE train' = train /\ vpc # "moved"
      <3>1. unmarked' = unmarked
        BY <1>11, <2>3 DEF Die
      <3> QED
        BY <1>t, <2>1, <2>2, <2>3, <2>6, <3>1 DEF Goals
    <2>4. CASE train' = train /\ vpc = "moved"
      <3>1. unmarked' = unmarked + 1
        BY <1>11, <2>4 DEF Die
      <3> QED
        BY <1>t, <2>1, <2>2, <2>4, <2>6, <3>1 DEF Goals
    <2>5. CASE train' # train
      <3>1. /\ train' \in TrainSets /\ train'.moves = train.moves + 1
            /\ vpc = "data_engine" /\ "data_engine" \notin goal.marks
            /\ unmarked' = unmarked + 1
        BY <1>11, <2>5 DEF Die, CutRows, ToMove
      <3> QED
        BY <1>t, <2>1, <2>2, <2>6, <3>1 DEF Goals
    <2> QED
      BY <2>3, <2>4, <2>5
  <1>12. CASE \/ Pass("profile", "audit") \/ Pass("audit", "split")
              \/ Pass("split", "data_engine")
              \/ Pass("data_engine", "research")
              \/ Pass("research", "certify")
    BY <1>12 DEF Pass
  <1>13. CASE \/ Stop("leaks", "blocked") \/ Stop("few", "needs_input")
              \/ Stop("labels", "needs_input")
    BY <1>13 DEF Stop
  <1>14. CASE UNCHANGED forgeVars
    BY <1>14 DEF forgeVars
  <1> QED
    BY <1>1, <1>2, <1>3, <1>4, <1>5, <1>6, <1>7, <1>8, <1>9, <1>10, <1>11,
       <1>12, <1>13, <1>14, <1>15 DEF ForgeNext

\* For any number of runs of a goal, however they die: what is served is what
\* was certified, and data moves are counted.
THEOREM ForgeServesCertified == ForgeSpec => []ServedIsCertified
  <1>1. ForgeInv => ServedIsCertified
    BY DEF ForgeInv
  <1> QED
    BY <1>1, InitForge, StepForge, PTL DEF ForgeSpec

\* A goal moves its data once, and once more for each death that came between
\* a move and its mark.
THEOREM ForgeMovesOnce == ForgeSpec => []MovesOnce
  <1>1. ForgeInv => MovesOnce
    BY DEF ForgeInv, MovesCounted
  <1> QED
    BY <1>1, InitForge, StepForge, PTL DEF ForgeSpec

-----------------------------------------------------------------------------
(* The engines as a whole *)

LEMMA BrainTypeStep ==
    BrainTypeOK /\ BrainInv /\ [BrainNext]_brainVars => BrainTypeOK'
  <1> SUFFICES ASSUME BrainTypeOK, BrainInv, [BrainNext]_brainVars
               PROVE  BrainTypeOK'
    OBVIOUS
  <1>e. Evidence \subseteq Axes /\ Untried \subseteq Axes
    BY DEF BrainInv, Evidence, Untried
  <1>1. CASE StopSearch
    BY <1>e, <1>1 DEF BrainTypeOK, StopSearch
  <1>2. CASE TryAxis
    <2>1. PICK axis \in Untried, n \in 1..MaxFamily :
            /\ justified' = Justified(axis)
            /\ triedAxes' = triedAxes \cup {axis}
            /\ experiments' = experiments + n
            /\ val' \in ValScores \cup {val}
            /\ uncalibrated' \in BOOLEAN
      BY <1>2 DEF TryAxis, BrainTypeOK
    <2>2. brnd' \in 0..BrainRounds
      BY <1>2, BrainAssumption DEF BrainAssumption, BrainTypeOK, TryAxis,
         RoundsOver
    <2>3. experiments' \in Nat
      BY <2>1, BrainAssumption DEF BrainAssumption, BrainTypeOK
    <2> QED
      BY <1>e, <1>2, <2>1, <2>2, <2>3 DEF BrainTypeOK, TryAxis, Justified
  <1>3. CASE UseUpRounds \/ Recommend
    BY <1>3 DEF BrainTypeOK, UseUpRounds, Recommend
  <1>4. CASE UNCHANGED brainVars
    BY <1>4 DEF BrainTypeOK, brainVars
  <1> QED
    BY <1>1, <1>2, <1>3, <1>4 DEF BrainNext

LEMMA BrainTyped == BrainSpec => []BrainTypeOK
  <1>1. BrainInit => BrainTypeOK
    BY BrainAssumption DEF BrainAssumption, BrainInit, BrainTypeOK
  <1> QED
    BY <1>1, BrainTypeStep, InitBrain, StepBrain, PTL DEF BrainSpec

LEMMA ForgeTyped == ForgeSpec => []ForgeTypeOK
  <1>1. ForgeInv => ForgeTypeOK
    BY DEF ForgeInv
  <1> QED
    BY <1>1, InitForge, StepForge, PTL DEF ForgeSpec

\* A step of the whole is one of an engine, which leaves the others alone.
LEMMA EachEngine ==
    EngineSpec => Spec /\ PortSpec /\ ForgeSpec /\ BrainSpec
  <1>1. EngineInit => Init /\ PortInit /\ ForgeInit /\ BrainInit
    BY DEF EngineInit
  <1>2. [EngineNext]_<<part, EngineVars>> =>
          /\ [Next]_vars /\ [PortNext]_portVars /\ [ForgeNext]_forgeVars
          /\ [BrainNext]_brainVars
    BY DEF EngineNext, EngineVars
  <1> QED
    BY <1>1, <1>2, PTL DEF EngineSpec, Spec, PortSpec, ForgeSpec, BrainSpec

\* Every variable of the engines keeps its type, for any candidates, rounds,
\* rungs, budgets and scores.
THEOREM EnginesTypeCorrect == EngineSpec => []EnginesTypeOK
  <1>1. TypeOK /\ PortTypeOK /\ ForgeTypeOK /\ BrainTypeOK => EnginesTypeOK
    BY DEF EnginesTypeOK
  <1>2. PortInv => PortTypeOK
    BY DEF PortInv
  <1> QED
    BY <1>1, <1>2, EachEngine, TypeCorrect, PortInductive, ForgeTyped,
       BrainTyped, PTL

\* What is promised of the engines holds of the whole.
THEOREM EnginesPromises ==
    EngineSpec => /\ [](/\ WinnerIsChampion /\ KillIsAdmissible
                        /\ ServedIsCertified /\ MovesOnce
                        /\ LabelsAskedWhenExhausted)
                  /\ ResumesTheSearch
  BY EachEngine, WinnersAreChampions, KillsAreAdmissible,
     ForgeServesCertified, ForgeMovesOnce, LabelsAreLast, SearchResumed, PTL
=============================================================================
