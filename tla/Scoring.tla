------------------------------ MODULE Scoring -------------------------------
(***************************************************************************)
(* From the rows of one snap to a verdict and a recommendation card: the   *)
(* analytics queries (optdash/analytics), the direction vote, the 11-point *)
(* gate, the confidence and the pre-flight rules (optdash/ai).  All are    *)
(* functions of a market m, a record of what options_data holds for one    *)
(* underlying at the snap:                                                 *)
(*   coc      futures price - spot, by the age of the row in minutes; a    *)
(*            row without one of the two prices is a row with 0            *)
(*   tier1    the snap has rows of expiry tier TIER1                       *)
(*   gex, peak    net gamma exposure now, largest absolute value today     *)
(*   fobi, aobi   imbalance of the future, of the options at the money     *)
(*   vol, oi      put-call ratios by volume and by open interest           *)
(*   near, far    implied volatility of the nearest and farthest expiry    *)
(*   below, days  past days with a lower volatility, and all past days     *)
(*   vex, dte     vanna exposure, in thousandths, and days to expiry of    *)
(*                TIER1                                                    *)
(*   weekday      of the trade date                                        *)
(*   spot, chain  strikes of the nearest expiry not passed, in ascending   *)
(*                order, with their open interest; None if there is none   *)
(*   strikes  what passes the screener's filters                           *)
(*   stats    closed trades of the (session, direction), and of all        *)
(*   failed   queries that raise at this snap                              *)
(* Every query catches its own exceptions and returns its default.  One    *)
(* that raises does so whenever it is run at this snap.                    *)
(***************************************************************************)
EXTENDS Settings, Sequences, FiniteSetsExt

CONSTANTS
    Underlying,   \* one of settings.UNDERLYINGS
    None          \* a missing row or an absent value

ASSUME ScoringAssumption ==
    /\ Underlying \in DOMAIN VEX_THRESHOLDS
    /\ None \notin Int

Ages    == {5 * i : i \in 0 .. 6}       \* the snaps of the last 30 minutes
Sides   == {"CE", "PE"}
Queries == {"gex", "peak", "coc", "spike", "iv", "pcr", "vex", "aobi", "fobi", "pain",
            "strikes", "gate"}

Magnitude(x)    == IF x < 0 THEN -x ELSE x
\* Python's round; floats hardly ever meet a tie, which goes away from zero here.
RoundDiv(x, n) ==
    LET size == (2 * Magnitude(x) + n) \div (2 * n) IN IF x < 0 THEN -size ELSE size
OrElse(x, d)    == IF x \in {None, 0} THEN d ELSE x          \* Python's x or d
IfNone(x, d)    == IF x = None THEN d ELSE x
Cap(x, bound)   == IF x > bound THEN bound ELSE x
AtLeast(x, low) == IF x < low THEN low ELSE x
Lean(x, bull, bear) ==
    IF x > bull THEN "CE" ELSE IF x < bear THEN "PE" ELSE "NEUTRAL"
Answers(m, q)   == q \notin m.failed
HasRows(m)      == m.coc[0] # None \/ m.tier1

\* What the columns of a market can hold.
ChainRow == [strike : Nat \ {0}, ce : Nat, pe : Nat]
IsChain(chain) ==
    /\ chain \in Seq(ChainRow) /\ chain # <<>>
    /\ \A i, j \in DOMAIN chain : i < j => chain[i].strike < chain[j].strike
Strikes  == [side : Sides, s_score : Int, ltp : Int, theta : Int, dte : Nat \union {None}]
Closed   == [wins : Nat, total : Nat]

IsMarket(m) ==
    /\ m.chain # None => IsChain(m.chain)
    /\ m \in [coc : [Ages -> Int \union {None}], tier1 : BOOLEAN, gex : Int, peak : Int,
              fobi : Int, aobi : Int, vol : Int \union {None}, oi : Int \union {None},
              near : Int, far : Int, below : Nat, days : Nat, vex : Int \union {None},
              dte : Nat \union {None}, weekday : 0 .. 6, spot : Int, chain : {m.chain},
              strikes : SUBSET Strikes, stats : [bucket : Closed, all : Closed],
              failed : SUBSET Queries]

-----------------------------------------------------------------------------
(* Analytics.                                                              *)

ClassifyRegime(gex, pct) ==
    CASE gex < 0 -> "NEGATIVE_TREND"
      [] gex >= 0 /\ pct <= 100 * GEX_DECLINE_THRESHOLD -> "POSITIVE_DECLINING"
      [] OTHER -> "POSITIVE_CHOP"

\* A failure of the peak's own query is a peak of zero.
Peak(m) == IF Answers(m, "peak") THEN m.peak ELSE 0

\* Mutant: no answer counts as an exposure of zero.
NetGexOrZero(m) ==
    IF Answers(m, "gex") /\ HasRows(m) /\ Peak(m) # 0
    THEN [pct |-> 10 * RoundDiv((10000 * Magnitude(m.gex)) \div Peak(m), 10),
          regime |-> ClassifyRegime(m.gex, 0)]
    ELSE [pct |-> 0, regime |-> ""]

\* Hundredths of a per cent; the gate sees a tenth of a per cent, the regime not.
NetGex(m) ==
    IF ~Answers(m, "gex") \/ ~HasRows(m)
    THEN [pct |-> 10000, regime |-> ""]
    ELSE LET pct == IF Peak(m) # 0
                    THEN (10000 * Magnitude(m.gex)) \div Peak(m) ELSE 0
         IN [pct |-> 10 * RoundDiv(pct, 10), regime |-> ClassifyRegime(m.gex, pct)]

RowsBetween(m, young, old) ==
    {a \in Ages : young <= a /\ a <= old /\ m.coc[a] # None}

ComputeVcoc(m) ==
    LET window == RowsBetween(m, 0, 15) IN
    IF Cardinality(window) < 2 THEN 0
    ELSE m.coc[Min(window)] - m.coc[Max(window)]

Velocity(m) ==
    IF Answers(m, "coc") /\ m.coc[0] # None THEN ComputeVcoc(m) ELSE 0

\* Mutant: the anchor is the row just before the target.
SpikeFromLastRow(m) ==
    LET rows == RowsBetween(m, 0, 30) IN
    /\ Answers(m, "spike") /\ Cardinality(rows) >= 2
    /\ \E t \in {a \in rows : Cardinality(RowsBetween(m, 0, a)) <= VCOC_SPIKE_EXPIRY_SNAPS} :
         LET window == RowsBetween(m, t + 5, t + 15) IN
         window # {} /\ Magnitude(m.coc[t] - m.coc[Min(window)]) > VCOC_BULL_THRESHOLD

SpikeActive(m) ==
    LET rows == RowsBetween(m, 0, 30) IN
    /\ Answers(m, "spike") /\ Cardinality(rows) >= 2
    /\ \E t \in {a \in rows : Cardinality(RowsBetween(m, 0, a)) <= VCOC_SPIKE_EXPIRY_SNAPS} :
         LET window == RowsBetween(m, t + 5, Cap(t + 15, 30)) IN
         window # {} /\ Magnitude(m.coc[t] - m.coc[Max(window)]) > VCOC_BULL_THRESHOLD

FuturesObi(m) == IF Answers(m, "fobi") /\ m.coc[0] # None THEN m.fobi ELSE 0
AtmObi(m)     == IF Answers(m, "aobi") /\ m.tier1 THEN m.aobi ELSE 0

\* A ratio of zero is taken for a missing one.
PcrDivergence(m) ==
    IF Answers(m, "pcr") /\ m.tier1 THEN OrElse(m.vol, 100) - OrElse(m.oi, 100) ELSE 0

\* No volatility at the money is no answer at all.
HasIv(m) == Answers(m, "iv") /\ m.tier1 /\ m.near > 0

\* Tenths of a percentile; None with fewer than 20 days of history.
Ivp(m) ==
    IF HasIv(m) /\ m.days >= 20 THEN RoundDiv(1000 * m.below, m.days) ELSE None

TermShape(m) ==
    CASE ~HasIv(m) \/ m.far = 0        -> "FLAT"
      [] 100 * m.far > 105 * m.near    -> "CONTANGO"
      [] 100 * m.far < 95 * m.near     -> "BACKWARDATION"
      [] OTHER                         -> "FLAT"

VexRaw(m)   == IF Answers(m, "vex") /\ m.tier1 THEN IfNone(m.vex, 0) ELSE 0
VexTotal(m) == RoundDiv(VexRaw(m), 10)

\* vex_signal is classified before the total is rounded.
VexSignal(m) ==
    LET threshold == 10 * VEX_THRESHOLDS[Underlying] IN Lean(VexRaw(m), threshold, -threshold)

\* Zero days to expiry is taken for a missing number and becomes seven.
DealerOclock(m, now) ==
    /\ Answers(m, "vex") /\ m.tier1
    /\ OrElse(m.dte, 7) <= DEALER_OCLOCK_DTE
    /\ now >= DEALER_OCLOCK_START
    /\ m.weekday = EXPIRY_WEEKDAY[Underlying]

Total(f) ==
    LET sum[n \in 0 .. Len(f)] == IF n = 0 THEN 0 ELSE sum[n - 1] + f[n] IN sum[Len(f)]

\* Mutant: strikes and columns swapped.
PainTransposed(chain, k) ==
    Total([j \in DOMAIN chain |-> AtLeast(chain[j].strike - k, 0) * chain[j].ce
                                   + AtLeast(k - chain[j].strike, 0) * chain[j].pe])

\* What the writers of options expiring at strike k pay out.
Pain(chain, k) ==
    Total([j \in DOMAIN chain |-> AtLeast(k - chain[j].strike, 0) * chain[j].ce
                                   + AtLeast(chain[j].strike - k, 0) * chain[j].pe])

\* The first strike where they pay least.
MaxPain(chain) ==
    chain[Min({i \in DOMAIN chain :
                 \A j \in DOMAIN chain :
                     Pain(chain, chain[i].strike) <= Pain(chain, chain[j].strike)})].strike

\* Thousandths of a per cent.
MaxPainDistance(m) ==
    IF Answers(m, "pain")
    THEN LET k == MaxPain(m.chain) IN RoundDiv(100000 * Magnitude(m.spot - k), k)
    ELSE None

\* The best strikes of both sides together; the side is picked from them later.
TopStrikes(m) ==
    IF ~Answers(m, "strikes") THEN {}
    ELSE {s \in m.strikes :
            Cardinality({b \in m.strikes : b.s_score > s.s_score}) < SCREENER_TOP_N}

SessionStats(m) ==
    LET fallback == m.stats.bucket.total < 10
        from     == IF fallback THEN m.stats.all ELSE m.stats.bucket
    IN [is_fallback |-> fallback, total |-> from.total,
        win_rate |-> IF from.total = 0 THEN None
                     ELSE RoundDiv(1000 * from.wins, from.total)]

-----------------------------------------------------------------------------
(* get_directional_bias: five weighted votes, a tie is no edge.            *)

VcocVote(m) ==
    IF SpikeActive(m) THEN Lean(Velocity(m), 0, 0)
    ELSE Lean(Velocity(m), VCOC_BULL_THRESHOLD, VCOC_BEAR_THRESHOLD)

FutObiVote(m) ==
    LET bear == FUT_OBI_BEAR_THRESHOLD[Underlying] IN Lean(FuturesObi(m), -bear, bear)

\* Mutant: the code before Fix-E, any vanna exposure votes.
VexGhostVote(m) == Lean(VexTotal(m), 0, 0)

VexVote(m) ==
    LET threshold == VEX_THRESHOLDS[Underlying] IN Lean(VexTotal(m), threshold, -threshold)

\* Mutant: a bearish book of at-the-money options is never seen.
AtmObiVoteBullOnly(m) == IF AtmObi(m) > OBI_THRESHOLD THEN "CE" ELSE "NEUTRAL"

AtmObiVote(m) == Lean(AtmObi(m), OBI_THRESHOLD, -OBI_THRESHOLD)

PcrVote(m) == Lean(PcrDivergence(m), PCR_DIV_BULL_THRESHOLD, PCR_DIV_BEAR_THRESHOLD)

Votes(m) ==
    [vcoc |-> VcocVote(m), fobi |-> FutObiVote(m), vex |-> VexVote(m),
     aobi |-> AtmObiVote(m), pcr |-> PcrVote(m)]

VoteWeight == [vcoc |-> 3, fobi |-> 2, vex |-> 2, aobi |-> 1, pcr |-> 1]

SumOfVotes(w) == w.vcoc + w.fobi + w.vex + w.aobi + w.pcr

Weight(m, side) ==
    LET votes == Votes(m)
    IN SumOfVotes([v \in DOMAIN VoteWeight |-> IF votes[v] = side THEN VoteWeight[v] ELSE 0])

Bias(m) ==
    LET margin == Weight(m, "CE") - Weight(m, "PE") IN
    [side    |-> Lean(margin, 0, 0),
     margin  |-> Magnitude(margin),
     signals |-> Cardinality({v \in DOMAIN VoteWeight : Votes(m)[v] # "NEUTRAL"})]

-----------------------------------------------------------------------------
(* get_environment_score.                                                  *)

Session(now) ==
    IF now <= SESSION_OPENING_END THEN "OPENING"
    ELSE IF now <= SESSION_MIDDAY_START THEN "MIDMORNING"
    ELSE IF now <= SESSION_MIDDAY_END THEN "MIDDAY_CHOP"
    ELSE IF now <= SESSION_CLOSING_START THEN "AFTERNOON" ELSE "CLOSING_CRUSH"

\* What each condition earns; vex_aligned is worth two points.
Points(m, side, now) ==
    LET one(met)  == IF met THEN 1 ELSE 0
        fut       == FUT_OBI_BEAR_THRESHOLD[Underlying]
        threshold == VEX_THRESHOLDS[Underlying]
    IN [gex_declining        |-> one(NetGex(m).pct <= 100 * GEX_DECLINE_THRESHOLD),
        vcoc_signal          |-> one(Magnitude(Velocity(m)) > VCOC_BULL_THRESHOLD),
        fut_bs_ratio         |-> one(FuturesObi(m) < fut \/ FuturesObi(m) > -fut),
        pcr_divergence       |-> one(Magnitude(PcrDivergence(m)) > 15),
        ivp_cheap            |-> one(IfNone(Ivp(m), 1000) < 500),
        obi_negative         |-> one(Magnitude(AtmObi(m)) > OBI_THRESHOLD),
        term_structure_ok    |-> one(TermShape(m) # "BACKWARDATION"),
        session_ok           |-> one(Session(now) # "MIDDAY_CHOP"),
        vex_aligned          |-> 2 * one(\/ side = "CE" /\ VexTotal(m) > threshold
                                         \/ side = "PE" /\ VexTotal(m) < -threshold),
        not_charm_distortion |-> one(~DealerOclock(m, now))]

SumOfPoints(p) ==
    p.gex_declining + p.vcoc_signal + p.fut_bs_ratio + p.pcr_divergence + p.ivp_cheap
    + p.obi_negative + p.term_structure_ok + p.session_ok + p.vex_aligned
    + p.not_charm_distortion

\* An exception that gets this far scores 0.
GateScore(m, side, now) ==
    IF ~Answers(m, "gate") THEN 0
    ELSE Cap(SumOfPoints(Points(m, side, now)), GATE_MAX_SCORE)

VerdictOf(score) ==
    IF score >= GATE_GO_THRESHOLD THEN "GO"
    ELSE IF score >= GATE_WAIT_THRESHOLD THEN "WAIT" ELSE "NO_GO"

Verdict(m, side, now) == VerdictOf(GateScore(m, side, now))

-----------------------------------------------------------------------------
(* Confidence, pre-flight, quality and the card.                           *)

Structure(m, side, strike) ==
      (IF IfNone(Ivp(m), 1000) < 500 THEN 6 ELSE 0)
    + (IF TermShape(m) = "CONTANGO" THEN 4 ELSE 0)
    + (IF strike.s_score > 80 THEN 7 ELSE 0)
    + (IF NetGex(m).regime \in {"NEGATIVE_TREND", "POSITIVE_DECLINING"} THEN 5 ELSE 0)
    + (IF VexSignal(m) = side THEN 3 ELSE 0)

\* Thin or foreign history earns nothing.
History(stats) ==
    IF stats.is_fallback \/ stats.total < 5 THEN 0
    ELSE Cap((IfNone(stats.win_rate, 500) * 12) \div 1000, 10)

SessionAdjusted(raw, now) ==
    IF Session(now) = "MIDDAY_CHOP" THEN raw - SESSION_MIDDAY_CONFIDENCE_PENALTY
    ELSE IF Session(now) = "CLOSING_CRUSH" THEN Cap(raw, SESSION_CLOSING_CONFIDENCE_CAP)
    ELSE raw

Confidence(m, score, strike, now) ==
    LET bias == Bias(m)
        raw  == Cap(7 * bias.margin + 3 * bias.signals, 40)
                + Cap((25 * score) \div GATE_MAX_SCORE, 25)
                + Cap(Structure(m, bias.side, strike), 25)
                + History(SessionStats(m))
    IN AtLeast(Cap(SessionAdjusted(raw, now), 100), 0)

\* Mutant: the code before P4-F6, only the day before expiry is guarded.
NearExpiryDayBefore(strike) == strike.dte = 1

NearExpiry(strike) == strike.dte # None /\ strike.dte <= 1

\* The pre-flight rules that block: 1 to 5, 7 and 8 of the source.
PreFlightFails(m, score, confidence, strike, now) ==
    \/ score < PREFLIGHT_MIN_GATE_SCORE
    \/ confidence < PREFLIGHT_MIN_CONFIDENCE
    \/ 100 * Magnitude(strike.theta) > PREFLIGHT_MAX_THETA_RATIO * strike.ltp
    \/ IfNone(MaxPainDistance(m), 99000) < PREFLIGHT_MAX_PAIN_PROXIMITY
    \/ strike.s_score < PREFLIGHT_MIN_SSCORE
    \/ /\ NearExpiry(strike)
       /\ score < PREFLIGHT_DTE1_MIN_GATE \/ confidence < PREFLIGHT_DTE1_MIN_CONFIDENCE
    \/ NearExpiry(strike) /\ DealerOclock(m, now)

\* s_score/120 of 35, score/11 of 35, confidence/100 of 30, truncated.
Quality(strike, score, confidence) ==
    (385 * Cap(strike.s_score, 120) + 4200 * score + 396 * confidence) \div 1320

Grade(quality) ==
    IF quality >= 80 THEN "A" ELSE IF quality >= 65 THEN "B"
    ELSE IF quality >= 50 THEN "C" ELSE "D"

\* The cards generate_recommendation may issue: of equally good strikes, any.
Cards(m, now) ==
    LET side  == Bias(m).side
        score == GateScore(m, side, now)
        best  == {s \in TopStrikes(m) :
                    /\ s.side = side
                    /\ \A b \in TopStrikes(m) : b.side = side => b.s_score <= s.s_score}
        confidence(s) == Confidence(m, score, s, now)
        passing == {s \in best : s.ltp > 0 /\ ~PreFlightFails(m, score, confidence(s), s, now)}
    IN IF side = "NEUTRAL" \/ ~m.tier1 \/ m.chain = None THEN {}
       ELSE {[side |-> side, verdict |-> VerdictOf(score), confidence |-> confidence(s),
              grade |-> Grade(Quality(s, score, confidence(s))), strike |-> s] : s \in passing}
=============================================================================
