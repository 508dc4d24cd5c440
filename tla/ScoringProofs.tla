---------------------------- MODULE ScoringProofs ----------------------------
(***************************************************************************)
(* Lemmas about Scoring that hold of every market, underlying and time:    *)
(* what rounding preserves, that the two queries of the futures price      *)
(* agree, and what a card near its expiry must have passed.                *)
(* DeskScoreProofs applies them to the markets a tick reads.               *)
(***************************************************************************)
EXTENDS Scoring, FiniteSetTheorems, WellFoundedInduction, TLAPS

-----------------------------------------------------------------------------
(* Numbers and lists of numbers.                                           *)

\* A nonempty set of natural numbers has a smallest one.
LEMMA Least ==
  ASSUME NEW S \in SUBSET Nat, S # {}
  PROVE  \E n \in S : \A m \in S : n <= m
<1> DEFINE R == OpToRel(<, Nat)
<1>1. IsWellFoundedOn(R, Nat)
  BY NatLessThanWellFounded
<1>2. \A m, n \in Nat : m < n => <<m, n>> \in R
  BY DEF OpToRel
<1> HIDE DEF R
<1>3. PICK n \in S : \A m \in S : ~(<<m, n>> \in R)
  BY <1>1, WFMin
<1>4. \A m \in S : ~(m < n)
  BY <1>2, <1>3
<1>5. QED
  BY <1>4

\* The minimum of natural numbers is one of them.
LEMMA MinInSet ==
  ASSUME NEW S \in SUBSET Nat, S # {}
  PROVE  Min(S) \in S
BY Least DEF Min

\* A list of numbers has a largest one.
LEMMA Largest ==
  ASSUME NEW n \in Nat \ {0}, NEW f \in [1 .. n -> Int]
  PROVE  \E i \in 1 .. n : \A j \in 1 .. n : f[j] <= f[i]
<1> DEFINE Best(k) == \E i \in 1 .. k : \A j \in 1 .. k : f[j] <= f[i]
           Without == {k \in 1 .. n : ~Best(k)}
<1>1. Best(1)
  BY SMT
<1>2. ASSUME NEW k \in 2 .. n, Best(k - 1) PROVE Best(k)
  <2>1. PICK i \in 1 .. k - 1 : \A j \in 1 .. k - 1 : f[j] <= f[i]
    BY <1>2
  <2>2. CASE f[k] <= f[i]
    BY <2>1, <2>2
  <2>3. CASE f[i] < f[k]
    <3>1. \A j \in 1 .. k : f[j] <= f[k]
      BY <2>1, <2>3
    <3>2. QED
      BY <3>1
  <2>4. QED
    BY <2>2, <2>3
<1>3. Without = {}
  <2> SUFFICES ASSUME Without # {} PROVE FALSE
    OBVIOUS
  <2>1. PICK k \in Without : \A m \in Without : k <= m
    <3>1. Without \in SUBSET Nat
      OBVIOUS
    <3> HIDE DEF Without
    <3>2. QED
      BY <3>1, Least
  <2> HIDE DEF Best
  <2>2. k \in 2 .. n /\ ~Best(k)
    BY <1>1
  <2>3. Best(k - 1)
    BY <2>1, <2>2
  <2>4. QED
    BY <1>2, <2>2, <2>3
<1>4. QED
  <2> HIDE DEF Best
  <2>1. Best(n)
    BY <1>3
  <2>2. QED
    BY <2>1 DEF Best

\* A list of numbers has a smallest one.
LEMMA Smallest ==
  ASSUME NEW n \in Nat \ {0}, NEW f \in [1 .. n -> Int]
  PROVE  \E i \in 1 .. n : \A j \in 1 .. n : f[i] <= f[j]
<1> DEFINE g == [j \in 1 .. n |-> 0 - f[j]]
<1>1. g \in [1 .. n -> Int]
  OBVIOUS
<1>2. PICK i \in 1 .. n : \A j \in 1 .. n : g[j] <= g[i]
  <2> HIDE DEF g
  <2>1. QED
    BY <1>1, Largest
<1>3. \A j \in 1 .. n : f[j] \in Int /\ g[j] = 0 - f[j]
  OBVIOUS
<1> HIDE DEF g
<1>4. \A j \in 1 .. n : f[i] <= f[j]
  BY <1>2, <1>3
<1>5. QED
  BY <1>4

-----------------------------------------------------------------------------
(* Ages and thresholds.                                                    *)

\* The snaps of the window.
LEMMA AgesAre == Ages = {0, 5, 10, 15, 20, 25, 30}
BY DEF Ages

\* A set of ages is finite.
LEMMA AgesFinite == ASSUME NEW S \in SUBSET Ages PROVE IsFiniteSet(S)
<1>1. S \in SUBSET Nat /\ \A s \in S : s <= 30
  BY AgesAre
<1>2. QED
  BY <1>1, FS_BoundedSetOfNaturals

\* A set of ages has an oldest and a youngest one.
LEMMA AgeExtremes ==
  ASSUME NEW S \in SUBSET Ages, S # {}
  PROVE  /\ Min(S) \in S /\ \A a \in S : Min(S) <= a
         /\ Max(S) \in S /\ \A a \in S : a <= Max(S)
<1>1. \A a \in S : a \in {0, 5, 10, 15, 20, 25, 30}
  BY AgesAre
<1>2. PICK x \in S : TRUE
  OBVIOUS
<1>3. \E l \in S : \A y \in S : l <= y
  <2>1. \/ 0 \in S \/ 5 \in S \/ 10 \in S \/ 15 \in S \/ 20 \in S \/ 25 \in S \/ 30 \in S
    BY <1>1, <1>2
  <2>2. QED
    BY <1>1, <2>1
<1>4. \E h \in S : \A y \in S : h >= y
  <2>1. \/ 0 \in S \/ 5 \in S \/ 10 \in S \/ 15 \in S \/ 20 \in S \/ 25 \in S \/ 30 \in S
    BY <1>1, <1>2
  <2>2. QED
    BY <1>1, <2>1
<1>5. Min(S) \in S /\ \A a \in S : Min(S) <= a
  BY <1>3 DEF Min
<1>6. Max(S) \in S /\ \A a \in S : Max(S) >= a
  BY <1>4 DEF Max
<1>7. \A a \in S : a \in Int
  BY <1>1
<1>8. QED
  BY <1>5, <1>6, <1>7

\* The thresholds of an underlying.
LEMMA Thresholds ==
  /\ VEX_THRESHOLDS[Underlying] \in Nat \ {0}
  /\ FUT_OBI_BEAR_THRESHOLD[Underlying] \in Int
  /\ FUT_OBI_BEAR_THRESHOLD[Underlying] < 0
BY ScoringAssumption DEF VEX_THRESHOLDS, FUT_OBI_BEAR_THRESHOLD

-----------------------------------------------------------------------------
(* Rounding.                                                               *)

\* A quotient of a positive number lies where the number does.
LEMMA Quotient ==
  ASSUME NEW n \in Nat \ {0}, NEW x \in Nat, NEW k \in Nat
  PROVE  /\ x \div n \in Nat
         /\ x \div n >= k <=> x >= k * n
<1>1. x \div n \in Nat /\ (x \div n) * n <= x /\ x < (x \div n) * n + n
  OBVIOUS
<1>2. ASSUME NEW q \in Nat, q * n <= x, x < q * n + n PROVE q >= k <=> x >= k * n
  <2>1. CASE q >= k
    <3>1. q * n >= k * n
      BY <2>1
    <3>2. QED
      BY <1>2, <2>1, <3>1
  <2>2. CASE q < k
    <3>1. (q + 1) * n <= k * n
      BY <2>2
    <3>2. QED
      BY <1>2, <2>2, <3>1
  <2>3. QED
    BY <2>1, <2>2
<1>3. QED
  BY <1>1, <1>2

\* Rounding reaches a number from half a unit below it on, on both sides of zero.
LEMMA Rounded ==
  ASSUME NEW n \in Nat \ {0}, NEW x \in Int
  PROVE  /\ RoundDiv(x, n) \in Int
         /\ RoundDiv(0 - x, n) = 0 - RoundDiv(x, n)
         /\ x >= 0 => RoundDiv(x, n) \in Nat
         /\ \A k \in Nat \ {0} :
              /\ RoundDiv(x, n) >= k <=> 2 * x + n >= k * (2 * n)
              /\ RoundDiv(x, n) <= 0 - k <=> n - 2 * x >= k * (2 * n)
<1> DEFINE size == (2 * Magnitude(x) + n) \div (2 * n)
<1>1. /\ 2 * Magnitude(x) + n \in Nat /\ 2 * n \in Nat \ {0}
      /\ Magnitude(0 - x) = Magnitude(x)
      /\ Magnitude(x) = IF x < 0 THEN 0 - x ELSE x
  BY DEF Magnitude
<1>2. size \in Nat /\ \A k \in Nat : size >= k <=> 2 * Magnitude(x) + n >= k * (2 * n)
  BY <1>1, Quotient
<1>3. /\ RoundDiv(x, n) = IF x < 0 THEN 0 - size ELSE size
      /\ RoundDiv(0 - x, n) = IF 0 - x < 0 THEN 0 - size ELSE size
  <2>1. -size = 0 - size
    BY <1>2
  <2>2. QED
    BY <1>1, <2>1 DEF RoundDiv
<1>4. x = 0 => size = 0
  <2>1. x = 0 => ~(size >= 1)
    BY <1>1, <1>2
  <2>2. QED
    BY <1>2, <2>1
<1> HIDE DEF size
<1>5. RoundDiv(0 - x, n) = 0 - RoundDiv(x, n)
  BY <1>2, <1>3, <1>4
<1>6. ASSUME NEW k \in Nat \ {0}
      PROVE  /\ RoundDiv(x, n) >= k <=> 2 * x + n >= k * (2 * n)
             /\ RoundDiv(x, n) <= 0 - k <=> n - 2 * x >= k * (2 * n)
  <2>1. k * (2 * n) \in Nat /\ k * (2 * n) >= 2 * n
    OBVIOUS
  <2>2. size >= k <=> 2 * Magnitude(x) + n >= k * (2 * n)
    BY <1>2
  <2> DEFINE bound == k * (2 * n)
  <2> HIDE DEF bound
  <2>3. QED
    BY <1>1, <1>2, <1>3, <2>1, <2>2 DEF bound
<1>7. QED
  BY <1>2, <1>3, <1>5, <1>6

-----------------------------------------------------------------------------
(* Velocity and spike: two queries of the futures price.                   *)

\* The rows of a window are a finite set of ages.
LEMMA RowsAre ==
  ASSUME NEW m, NEW young, NEW old
  PROVE  /\ RowsBetween(m, young, old) \in SUBSET Ages
         /\ IsFiniteSet(RowsBetween(m, young, old))
         /\ Cardinality(RowsBetween(m, young, old)) \in Nat
<1>1. RowsBetween(m, young, old) \in SUBSET Ages
  BY DEF RowsBetween
<1>2. QED
  BY <1>1, AgesFinite, FS_CardinalityType

\* The newest row is the youngest of a window, and not its oldest.
LEMMA WithNewest ==
  ASSUME NEW S \in SUBSET Ages, S # {}, \A a \in S : a >= 5
  PROVE  Min(S \union {0}) = 0 /\ Max(S \union {0}) = Max(S)
<1> DEFINE T == S \union {0}
<1>1. T \in SUBSET Ages /\ T # {} /\ 0 \in T
  BY AgesAre
<1>2. /\ Min(T) \in T /\ \A a \in T : Min(T) <= a
      /\ Max(T) \in T /\ \A a \in T : a <= Max(T)
  BY <1>1, AgeExtremes
<1>3. Max(S) \in S /\ \A a \in S : a <= Max(S)
  BY AgeExtremes
<1>4. \A a \in T \ {0} : a \in S /\ a >= 5
  BY Zenon
<1>5. \A a \in T : a \in Int
  BY <1>1, AgesAre
<1>6. Max(S) \in T
  BY <1>3
<1> HIDE DEF T
<1>7. Min(T) = 0
  BY <1>1, <1>2, <1>4, <1>5
<1>8. Max(T) = Max(S)
  BY <1>1, <1>2, <1>3, <1>4, <1>5, <1>6
<1>9. QED
  BY <1>7, <1>8 DEF T

\* A velocity beyond the threshold is a spike at the newest target.
LEMMA VelocityIsSpike ==
  ASSUME NEW m, IsMarket(m), Answers(m, "spike"),
         Magnitude(Velocity(m)) > VCOC_BULL_THRESHOLD
  PROVE  SpikeActive(m)
<1> DEFINE window == RowsBetween(m, 0, 15)
           before == RowsBetween(m, 5, 15)
           rows   == RowsBetween(m, 0, 30)
<1>1. /\ m.coc[0] # None /\ Velocity(m) = m.coc[Min(window)] - m.coc[Max(window)]
      /\ Cardinality(window) >= 2
  <2>1. Velocity(m) # 0
    BY DEF Magnitude, VCOC_BULL_THRESHOLD
  <2>2. m.coc[0] # None /\ Velocity(m) = ComputeVcoc(m)
    BY <2>1 DEF Velocity
  <2>3. ~(Cardinality(window) < 2)
    BY <2>1, <2>2 DEF ComputeVcoc
  <2>4. Cardinality(window) >= 2
    BY <2>3, RowsAre
  <2>5. QED
    BY <2>2, <2>3, <2>4 DEF ComputeVcoc
<1>2. 0 \in window /\ window = before \union {0} /\ \A a \in before : a >= 5
  BY <1>1, AgesAre DEF RowsBetween
<1>3. before # {}
  <2>1. Cardinality({0}) = 1
    BY FS_Singleton
  <2>2. QED
    BY <1>1, <1>2, <2>1
<1>4. Min(window) = 0 /\ Max(window) = Max(before)
  <2> HIDE DEF window, before
  <2>1. before \in SUBSET Ages /\ window = before \union {0}
    BY <1>2, RowsAre DEF before
  <2>2. QED
    BY <1>2, <1>3, <2>1, WithNewest
<1>5. Magnitude(m.coc[0] - m.coc[Max(before)]) > VCOC_BULL_THRESHOLD
  BY <1>1, <1>4
<1>6. 0 \in rows /\ Cardinality(rows) >= 2
  <2>1. window \in SUBSET rows
    BY AgesAre DEF RowsBetween
  <2>2. Cardinality(window) <= Cardinality(rows)
    BY <2>1, RowsAre, FS_Subset
  <2>3. QED
    BY <1>1, <1>2, <2>1, <2>2, RowsAre
<1>7. Cardinality(RowsBetween(m, 0, 0)) <= VCOC_SPIKE_EXPIRY_SNAPS
  <2>1. RowsBetween(m, 0, 0) = {0}
    BY <1>1, AgesAre DEF RowsBetween
  <2>2. Cardinality({0}) = 1
    BY FS_Singleton
  <2>3. QED
    BY <2>1, <2>2 DEF VCOC_SPIKE_EXPIRY_SNAPS
<1>8. before = RowsBetween(m, 0 + 5, Cap(0 + 15, 30))
  BY DEF Cap
<1> HIDE DEF before, window
<1>9. QED
  BY <1>3, <1>5, <1>6, <1>7, <1>8 DEF SpikeActive

-----------------------------------------------------------------------------
(* Cards on contracts near their expiry.                                   *)

\* A gate score is a number of points.
LEMMA GateScoreTyped ==
  ASSUME NEW m, NEW s, NEW t
  PROVE  GateScore(m, s, t) \in 0 .. GATE_MAX_SCORE
<1> DEFINE p == Points(m, s, t)
<1>1. /\ p.gex_declining \in 0 .. 1 /\ p.vcoc_signal \in 0 .. 1
      /\ p.fut_bs_ratio \in 0 .. 1 /\ p.pcr_divergence \in 0 .. 1
      /\ p.ivp_cheap \in 0 .. 1 /\ p.obi_negative \in 0 .. 1
      /\ p.term_structure_ok \in 0 .. 1 /\ p.session_ok \in 0 .. 1
      /\ p.vex_aligned \in 0 .. 2 /\ p.not_charm_distortion \in 0 .. 1
  BY DEF Points
<1> HIDE DEF p
<1>2. QED
  BY <1>1 DEF GateScore, SumOfPoints, Cap, GATE_MAX_SCORE, p

\* A margin and a number of signals are natural numbers.
LEMMA BiasTyped ==
  ASSUME NEW m
  PROVE  Bias(m).margin \in Nat /\ Bias(m).signals \in Nat
<1>1. \A side : Weight(m, side) \in Nat
  BY DEF Weight, SumOfVotes, VoteWeight
<1>2. IsFiniteSet({v \in DOMAIN VoteWeight : Votes(m)[v] # "NEUTRAL"})
  <2>1. IsFiniteSet({"vcoc", "fobi", "vex", "aobi", "pcr"})
    <3>1. IsFiniteSet({"vcoc"})
      BY FS_Singleton
    <3>2. IsFiniteSet({"vcoc"} \union {"fobi"})
      BY <3>1, FS_AddElement
    <3>3. IsFiniteSet({"vcoc"} \union {"fobi"} \union {"vex"})
      BY <3>2, FS_AddElement
    <3>4. IsFiniteSet({"vcoc"} \union {"fobi"} \union {"vex"} \union {"aobi"})
      BY <3>3, FS_AddElement
    <3>5. IsFiniteSet({"vcoc"} \union {"fobi"} \union {"vex"} \union {"aobi"} \union {"pcr"})
      BY <3>4, FS_AddElement
    <3>6. {"vcoc", "fobi", "vex", "aobi", "pcr"}
          = {"vcoc"} \union {"fobi"} \union {"vex"} \union {"aobi"} \union {"pcr"}
      BY Zenon
    <3>7. QED
      BY <3>5, <3>6
  <2>2. DOMAIN VoteWeight = {"vcoc", "fobi", "vex", "aobi", "pcr"}
    BY DEF VoteWeight
  <2>3. QED
    BY <2>1, <2>2, FS_Subset
<1>3. Cardinality({v \in DOMAIN VoteWeight : Votes(m)[v] # "NEUTRAL"}) \in Nat
  BY <1>2, FS_CardinalityType
<1>4. QED
  BY <1>1, <1>3 DEF Bias, Magnitude

\* A rounded quotient is a number.
LEMMA RoundedTyped ==
  ASSUME NEW n \in Nat \ {0}, NEW x \in Int
  PROVE  RoundDiv(x, n) \in Int
BY Rounded

\* Past trades earn a number of points.
LEMMA HistoryTyped ==
  ASSUME NEW m, IsMarket(m)
  PROVE  History(SessionStats(m)) \in Int
<1> DEFINE from == IF m.stats.bucket.total < 10 THEN m.stats.all ELSE m.stats.bucket
           rate == SessionStats(m).win_rate
<1>1. from.wins \in Nat /\ from.total \in Nat
  BY DEF IsMarket, Closed
<1>2. rate = IF from.total = 0 THEN None ELSE RoundDiv(1000 * from.wins, from.total)
  BY DEF SessionStats
<1> HIDE DEF from, rate
<1>3. ASSUME from.total # 0 PROVE RoundDiv(1000 * from.wins, from.total) \in Int
  <2>1. from.total \in Nat \ {0} /\ 1000 * from.wins \in Int
    BY <1>1, <1>3
  <2> DEFINE all  == from.total
             wins == 1000 * from.wins
  <2> HIDE DEF all, wins
  <2>2. RoundDiv(wins, all) \in Int
    BY <2>1, RoundedTyped DEF all, wins
  <2>3. QED
    BY <2>2 DEF all, wins
<1>4. IfNone(rate, 500) \in Int
  BY <1>2, <1>3 DEF IfNone
<1>5. QED
  BY <1>4 DEF History, Cap, rate

\* The confidence is between 0 and 100, and at most 60 after 14:30.
LEMMA ConfidenceTyped ==
  ASSUME NEW m, IsMarket(m), NEW score \in Nat, NEW strike, NEW t
  PROVE  /\ Confidence(m, score, strike, t) \in 0 .. 100
         /\ Session(t) = "CLOSING_CRUSH" => Confidence(m, score, strike, t) <= 60
<1> DEFINE bias == Bias(m)
           raw  == Cap(7 * bias.margin + 3 * bias.signals, 40)
                   + Cap((25 * score) \div GATE_MAX_SCORE, 25)
                   + Cap(Structure(m, bias.side, strike), 25)
                   + History(SessionStats(m))
<1>1. Cap(7 * bias.margin + 3 * bias.signals, 40) \in Int
  BY BiasTyped DEF Cap
<1>2. Cap((25 * score) \div GATE_MAX_SCORE, 25) \in Int
  BY DEF Cap, GATE_MAX_SCORE
<1>3. Cap(Structure(m, bias.side, strike), 25) \in Int
  BY DEF Cap, Structure
<1>4. raw \in Int
  BY <1>1, <1>2, <1>3, HistoryTyped
<1>5. Confidence(m, score, strike, t) = AtLeast(Cap(SessionAdjusted(raw, t), 100), 0)
  BY DEF Confidence
<1> HIDE DEF raw, bias
<1>6. /\ SessionAdjusted(raw, t) \in Int
      /\ Session(t) = "CLOSING_CRUSH" => SessionAdjusted(raw, t) <= 60
  BY <1>4 DEF SessionAdjusted, Cap, SESSION_MIDDAY_CONFIDENCE_PENALTY,
              SESSION_CLOSING_CONFIDENCE_CAP
<1>7. QED
  BY <1>5, <1>6 DEF AtLeast, Cap

\* A card whose contract expires today or tomorrow has passed rules 5 and 7.
LEMMA ExpiryCardIsStrong ==
  ASSUME NEW m, IsMarket(m), NEW t, NEW card \in Cards(m, t),
         card.strike.dte # None, card.strike.dte <= 1
  PROVE  card.verdict = "GO" /\ card.grade # "D" /\ Session(t) # "CLOSING_CRUSH"
<1> DEFINE score == GateScore(m, Bias(m).side, t)
           confidence == Confidence(m, score, card.strike, t)
<1>1. /\ card.verdict = VerdictOf(score)
      /\ card.grade = Grade(Quality(card.strike, score, confidence))
      /\ card.strike \in TopStrikes(m)
      /\ ~PreFlightFails(m, score, confidence, card.strike, t)
  BY DEF Cards
<1>2. card.strike.s_score \in Int
  BY <1>1 DEF TopStrikes, IsMarket, Strikes
<1>3. score \in 0 .. 11
  BY GateScoreTyped DEF GATE_MAX_SCORE
<1>4. /\ confidence \in 0 .. 100
      /\ Session(t) = "CLOSING_CRUSH" => confidence <= 60
  <2>1. score \in Nat
    BY <1>3
  <2> HIDE DEF score
  <2>2. QED
    BY <2>1, ConfidenceTyped
<1> HIDE DEF score, confidence
<1>5. card.strike.s_score >= 60 /\ score >= 7 /\ confidence >= 65
  BY <1>1, <1>2, <1>3, <1>4
     DEF PreFlightFails, NearExpiry, PREFLIGHT_MIN_SSCORE, PREFLIGHT_DTE1_MIN_GATE,
         PREFLIGHT_DTE1_MIN_CONFIDENCE
<1>6. Quality(card.strike, score, confidence) \in Int
      /\ Quality(card.strike, score, confidence) >= 50
  BY <1>2, <1>3, <1>4, <1>5 DEF Quality, Cap
<1>7. QED
  BY <1>1, <1>3, <1>4, <1>5, <1>6 DEF VerdictOf, GATE_GO_THRESHOLD, Grade

-----------------------------------------------------------------------------
(* Totals and payouts.                                                     *)

\* The recursion of Total has a solution, and Total is its last value.  Nothing
\* is computed by induction here: a least index where it fails is impossible.
LEMMA TotalIsSum ==
  ASSUME NEW n \in Nat, NEW f \in [1 .. n -> Int]
  PROVE  \E sum \in [0 .. n -> Int] :
            /\ Total(f) = sum[n] /\ sum[0] = 0
            /\ \A j \in 1 .. n : sum[j] = sum[j - 1] + f[j]
<1> DEFINE Sums(k, g) == /\ g \in [0 .. k -> Int] /\ g[0] = 0
                         /\ \A j \in 1 .. k : g[j] = g[j - 1] + f[j]
           without == {k \in 0 .. n : \A g : ~Sums(k, g)}
           Step(s) == [j \in 0 .. n |-> IF j = 0 THEN 0 ELSE s[j - 1] + f[j]]
           sum == CHOOSE s : s = Step(s)
<1>1. without = {}
  <2>1. SUFFICES ASSUME without # {} PROVE FALSE
    OBVIOUS
  <2>2. without \in SUBSET Nat
    OBVIOUS
  <2>3. PICK k \in without : \A l \in without : k <= l
    BY <2>1, <2>2, Least
  <2>4. k \in 0 .. n
    OBVIOUS
  <2>5. CASE k = 0
    <3>1. Sums(0, [j \in 0 .. 0 |-> 0])
      OBVIOUS
    <3>2. QED
      BY <2>5, <3>1
  <2>6. CASE k # 0
    <3>1. k - 1 \in 0 .. n /\ ~(k <= k - 1)
      BY <2>4, <2>6
    <3>2. k - 1 \notin without
      <4> HIDE DEF without
      <4>1. QED
        BY <2>3, <3>1
    <3>3. PICK g : Sums(k - 1, g)
      BY <3>1, <3>2
    <3> DEFINE h == [j \in 0 .. k |-> IF j = k THEN g[k - 1] + f[k] ELSE g[j]]
    <3>4. Sums(k, h)
      BY <3>1, <3>3
    <3>5. QED
      BY <3>4
  <2>7. QED
    BY <2>5, <2>6
<1>2. PICK g : Sums(n, g)
  <2>1. n \in 0 .. n
    OBVIOUS
  <2> HIDE DEF Sums
  <2>2. QED
    BY <1>1, <2>1
<1>3. g = Step(g)
  BY <1>2
<1>4. sum = Step(sum)
  BY <1>3, Zenon
<1>5. Len(f) = n
  OBVIOUS
<1>6. Total(f) = sum[n]
  BY <1>5 DEF Total
<1> HIDE DEF sum
<1>7. sum[0] = 0 /\ \A j \in 1 .. n : sum[j] = sum[j - 1] + f[j]
  BY <1>4
<1>8. \A j \in 0 .. n : sum[j] \in Int
  <2> DEFINE untyped == {j \in 0 .. n : sum[j] \notin Int}
  <2>1. SUFFICES ASSUME untyped # {} PROVE FALSE
    OBVIOUS
  <2>2. untyped \in SUBSET Nat
    OBVIOUS
  <2>3. PICK k \in untyped : \A l \in untyped : k <= l
    BY <2>1, <2>2, Least
  <2>4. k \in 1 .. n
    BY <1>7
  <2>5. k - 1 \in 0 .. n /\ ~(k <= k - 1)
    BY <2>4
  <2>6. sum[k - 1] \in Int
    BY <2>3, <2>5
  <2>7. sum[k] \in Int
    BY <1>7, <2>4, <2>6
  <2>8. QED
    BY <2>7
<1>9. sum \in [0 .. n -> Int]
  BY <1>4, <1>8
<1>10. QED
  BY <1>6, <1>7, <1>9

\* The total of a sum is the sum of the totals.
LEMMA TotalAdds ==
  ASSUME NEW n \in Nat, NEW f \in [1 .. n -> Int], NEW g \in [1 .. n -> Int],
         NEW h \in [1 .. n -> Int], \A j \in 1 .. n : h[j] = f[j] + g[j]
  PROVE  Total(f) \in Int /\ Total(g) \in Int /\ Total(h) = Total(f) + Total(g)
<1>1. PICK F \in [0 .. n -> Int] :
        Total(f) = F[n] /\ F[0] = 0 /\ \A j \in 1 .. n : F[j] = F[j - 1] + f[j]
  BY TotalIsSum
<1>2. PICK G \in [0 .. n -> Int] :
        Total(g) = G[n] /\ G[0] = 0 /\ \A j \in 1 .. n : G[j] = G[j - 1] + g[j]
  BY TotalIsSum
<1>3. PICK H \in [0 .. n -> Int] :
        Total(h) = H[n] /\ H[0] = 0 /\ \A j \in 1 .. n : H[j] = H[j - 1] + h[j]
  BY TotalIsSum
<1>4. \A j \in 0 .. n : H[j] = F[j] + G[j]
  <2> DEFINE wrong == {j \in 0 .. n : H[j] # F[j] + G[j]}
  <2>1. SUFFICES ASSUME wrong # {} PROVE FALSE
    OBVIOUS
  <2>2. wrong \in SUBSET Nat
    OBVIOUS
  <2>3. PICK k \in wrong : \A l \in wrong : k <= l
    BY <2>1, <2>2, Least
  <2>4. k \in 1 .. n
    BY <1>1, <1>2, <1>3
  <2>5. k - 1 \in 0 .. n /\ ~(k <= k - 1)
    BY <2>4
  <2>6. H[k - 1] = F[k - 1] + G[k - 1]
    BY <2>3, <2>5
  <2>7. QED
    BY <1>1, <1>2, <1>3, <2>4, <2>5, <2>6
<1>5. QED
  BY <1>1, <1>2, <1>3, <1>4

\* The total of a multiple is the multiple of the total.
LEMMA TotalScales ==
  ASSUME NEW n \in Nat, NEW f \in [1 .. n -> Int], NEW g \in [1 .. n -> Int],
         NEW d \in Int, \A j \in 1 .. n : g[j] = d * f[j]
  PROVE  Total(g) = d * Total(f)
<1>1. PICK F \in [0 .. n -> Int] :
        Total(f) = F[n] /\ F[0] = 0 /\ \A j \in 1 .. n : F[j] = F[j - 1] + f[j]
  BY TotalIsSum
<1>2. PICK G \in [0 .. n -> Int] :
        Total(g) = G[n] /\ G[0] = 0 /\ \A j \in 1 .. n : G[j] = G[j - 1] + g[j]
  BY TotalIsSum
<1>3. \A j \in 0 .. n : G[j] = d * F[j]
  <2> DEFINE wrong == {j \in 0 .. n : G[j] # d * F[j]}
  <2>1. SUFFICES ASSUME wrong # {} PROVE FALSE
    OBVIOUS
  <2>2. wrong \in SUBSET Nat
    OBVIOUS
  <2>3. PICK k \in wrong : \A l \in wrong : k <= l
    BY <2>1, <2>2, Least
  <2>4. k \in 1 .. n
    <3>1. d * 0 = 0
      OBVIOUS
    <3>2. QED
      BY <1>1, <1>2, <3>1
  <2>5. k - 1 \in 0 .. n /\ ~(k <= k - 1)
    BY <2>4
  <2>6. G[k - 1] = d * F[k - 1]
    BY <2>3, <2>5
  <2>7. F[k - 1] \in Int /\ f[k] \in Int
    BY <2>4, <2>5
  <2>8. \A x, y \in Int : d * (x + y) = d * x + d * y
    OBVIOUS
  <2>9. d * (F[k - 1] + f[k]) = d * F[k - 1] + d * f[k]
    BY <2>7, <2>8
  <2>10. F[k] = F[k - 1] + f[k] /\ G[k] = G[k - 1] + g[k] /\ g[k] = d * f[k]
    BY <1>1, <1>2, <2>4
  <2>11. G[k] = d * F[k]
    BY <2>6, <2>9, <2>10
  <2>12. QED
    BY <2>11
<1>4. QED
  BY <1>1, <1>2, <1>3

\* The columns of a chain.
LEMMA ChainTyped ==
  ASSUME NEW chain, IsChain(chain)
  PROVE  /\ Len(chain) \in Nat \ {0} /\ DOMAIN chain = 1 .. Len(chain)
         /\ \A j \in 1 .. Len(chain) :
              chain[j].strike \in Int /\ chain[j].ce \in Int /\ chain[j].pe \in Int
<1>1. /\ Len(chain) \in Nat \ {0} /\ DOMAIN chain = 1 .. Len(chain)
      /\ \A j \in 1 .. Len(chain) : chain[j] \in ChainRow
  BY DEF IsChain
<1>2. QED
  BY <1>1 DEF ChainRow

\* A payout is a number, and so is every row's part of it.
LEMMA PainTyped ==
  ASSUME NEW chain, IsChain(chain), NEW k \in Int
  PROVE  /\ [j \in 1 .. Len(chain) |-> AtLeast(k - chain[j].strike, 0) * chain[j].ce
                                       + AtLeast(chain[j].strike - k, 0) * chain[j].pe]
              \in [1 .. Len(chain) -> Int]
         /\ Pain(chain, k) \in Int
<1> DEFINE n == Len(chain)
           pays == [j \in 1 .. n |-> AtLeast(k - chain[j].strike, 0) * chain[j].ce
                                     + AtLeast(chain[j].strike - k, 0) * chain[j].pe]
<1>1. n \in Nat /\ DOMAIN chain = 1 .. n
  BY ChainTyped
<1>2. ASSUME NEW j \in 1 .. n PROVE pays[j] \in Int
  <2>1. chain[j].strike \in Int /\ chain[j].ce \in Int /\ chain[j].pe \in Int
    BY ChainTyped
  <2>2. AtLeast(k - chain[j].strike, 0) \in Int /\ AtLeast(chain[j].strike - k, 0) \in Int
    BY <2>1 DEF AtLeast
  <2>3. \A x, u, y, v \in Int : x * u + y * v \in Int
    OBVIOUS
  <2>4. AtLeast(k - chain[j].strike, 0) * chain[j].ce
        + AtLeast(chain[j].strike - k, 0) * chain[j].pe \in Int
    BY <2>1, <2>2, <2>3
  <2>5. QED
    BY <2>4, Zenon
<1>3. pays \in [1 .. n -> Int]
  BY <1>2
<1>4. Pain(chain, k) = Total(pays)
  BY <1>1 DEF Pain
<1> HIDE DEF pays
<1>5. Total(pays) \in Int
  <2>1. PICK sum \in [0 .. n -> Int] : Total(pays) = sum[n]
    BY <1>1, <1>3, TotalIsSum
  <2>2. QED
    BY <1>1, <2>1
<1>6. QED
  BY <1>3, <1>4, <1>5 DEF pays
=============================================================================
