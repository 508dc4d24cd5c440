--------------------------- MODULE DeskScoreProofs ---------------------------
(***************************************************************************)
(* Proofs about Desk: what the scores promise on every market a tick can   *)
(* read, for every underlying, any figures, rows and failed queries.  The  *)
(* invariant, ReadInv, ties what the tick holds to the market it has read; *)
(* the rest are lemmas about the functions of Scoring.                     *)
(***************************************************************************)
EXTENDS DeskProofs

-----------------------------------------------------------------------------
(* Two pieces of code that agree.                                          *)

\* The total is the exposure, rounded: beyond a threshold only if the exposure is.
LEMMA VexTyped ==
  ASSUME NEW m, IsMarket(m)
  PROVE  /\ VexRaw(m) \in Int /\ VexTotal(m) \in Int
         /\ \A k \in Nat : /\ VexTotal(m) > k => VexRaw(m) > 10 * k
                           /\ VexTotal(m) < -k => VexRaw(m) < 10 * (-k)
<1>1. m.vex \in Int \union {None}
  BY DEF IsMarket
<1>2. VexRaw(m) \in Int
  BY <1>1 DEF VexRaw, IfNone
<1> DEFINE x == VexRaw(m)
           total == RoundDiv(x, 10)
<1>3. VexTotal(m) = total
  BY DEF VexTotal
<1> HIDE DEF x
<1>4. /\ total \in Int
      /\ \A k \in Nat \ {0} : /\ total >= k <=> 2 * x + 10 >= k * (2 * 10)
                              /\ total <= 0 - k <=> 10 - 2 * x >= k * (2 * 10)
  <2>1. x \in Int /\ 10 \in Nat \ {0}
    BY <1>2 DEF x
  <2>2. QED
    BY <2>1, Rounded
<1> HIDE DEF total
<1>5. ASSUME NEW k \in Nat
      PROVE  /\ total > k => x > 10 * k
             /\ total < -k => x < 10 * (-k)
  <2>1. k + 1 \in Nat \ {0}
    OBVIOUS
  <2>2. /\ total >= k + 1 <=> 2 * x + 10 >= (k + 1) * (2 * 10)
        /\ total <= 0 - (k + 1) <=> 10 - 2 * x >= (k + 1) * (2 * 10)
    BY <1>4, <2>1
  <2>3. x \in Int
    BY <1>2 DEF x
  <2>4. QED
    BY <1>4, <2>2, <2>3
<1>6. QED
  BY <1>2, <1>3, <1>4, <1>5 DEF x

\* The gate and the vote compare the total with the same threshold, and where it
\* is beyond it the unrounded exposure is classified likewise.
LEMMA GateAgrees ==
  ASSUME NEW m, IsMarket(m), NEW s \in Sides, NEW t
  PROVE  /\ VexVote(m) = s <=> Points(m, s, t).vex_aligned = 2
         /\ VexVote(m) = s => VexSignal(m) = s
<1> DEFINE threshold == VEX_THRESHOLDS[Underlying]
           total == VexTotal(m)
           raw == VexRaw(m)
<1>1. threshold \in Nat \ {0} /\ total \in Int /\ raw \in Int
  BY Thresholds, VexTyped
<1>2. total > threshold => raw > 10 * threshold
  BY <1>1, VexTyped
<1>3. total < -threshold => raw < 10 * (-threshold)
  BY <1>1, VexTyped
<1>4. Points(m, s, t).vex_aligned =
        IF \/ s = "CE" /\ total > threshold
           \/ s = "PE" /\ total < -threshold THEN 2 ELSE 0
  BY DEF Points
<1>5. /\ VexVote(m) = Lean(total, threshold, -threshold)
      /\ VexSignal(m) = Lean(raw, 10 * threshold, -(10 * threshold))
  BY DEF VexVote, VexSignal
<1> HIDE DEF threshold, total, raw
<1>6. QED
  BY <1>1, <1>2, <1>3, <1>4, <1>5 DEF Lean, Sides

-----------------------------------------------------------------------------
(* Queries that fail.                                                      *)

\* The same market with every query answered.
LEMMA SoundMarket ==
  ASSUME NEW m, IsMarket(m), NEW w, w = [m EXCEPT !.failed = {}]
  PROVE  /\ \A q : Answers(w, q)
         /\ HasRows(w) <=> HasRows(m)
         /\ w.coc = m.coc /\ w.tier1 = m.tier1 /\ w.gex = m.gex /\ w.peak = m.peak
         /\ w.fobi = m.fobi /\ w.aobi = m.aobi /\ w.vol = m.vol /\ w.oi = m.oi
         /\ w.near = m.near /\ w.far = m.far /\ w.below = m.below /\ w.days = m.days
         /\ w.vex = m.vex
BY DEF IsMarket, Answers, HasRows

\* A failed query is silent; one that answers says what it always says.
LEMMA FailedOrSound ==
  ASSUME NEW m, IsMarket(m), NEW w, w = [m EXCEPT !.failed = {}]
  PROVE  /\ Answers(m, "peak") => NetGex(m).pct \in {10000, NetGex(w).pct}
         /\ ~Answers(m, "gex") => NetGex(m).pct = 10000
         /\ Velocity(m) \in {0, Velocity(w)}
         /\ FuturesObi(m) \in {0, FuturesObi(w)}
         /\ AtmObi(m) \in {0, AtmObi(w)}
         /\ PcrDivergence(m) \in {0, PcrDivergence(w)}
         /\ Ivp(m) \in {None, Ivp(w)}
         /\ VexTotal(m) \in {0, VexTotal(w)}
<1>1. /\ Answers(m, "peak") => NetGex(m).pct \in {10000, NetGex(w).pct}
      /\ ~Answers(m, "gex") => NetGex(m).pct = 10000
  BY SoundMarket DEF NetGex, Peak
<1>2. Velocity(m) \in {0, Velocity(w)}
  <2>1. \A young, old : RowsBetween(w, young, old) = RowsBetween(m, young, old)
    BY SoundMarket DEF RowsBetween
  <2>2. ComputeVcoc(w) = ComputeVcoc(m)
    BY <2>1, SoundMarket DEF ComputeVcoc
  <2>3. QED
    BY <2>2, SoundMarket DEF Velocity
<1>3. FuturesObi(m) \in {0, FuturesObi(w)} /\ AtmObi(m) \in {0, AtmObi(w)}
  BY SoundMarket DEF FuturesObi, AtmObi
<1>4. PcrDivergence(m) \in {0, PcrDivergence(w)}
  BY SoundMarket DEF PcrDivergence
<1>5. Ivp(m) \in {None, Ivp(w)}
  BY SoundMarket DEF Ivp, HasIv
<1>6. VexTotal(m) \in {0, VexTotal(w)}
  <2>1. VexRaw(m) \in {0, VexRaw(w)}
    BY SoundMarket DEF VexRaw
  <2>2. RoundDiv(0, 10) = 0
    BY DEF RoundDiv, Magnitude
  <2>3. QED
    BY <2>1, <2>2 DEF VexTotal
<1>7. QED
  BY <1>1, <1>2, <1>3, <1>4, <1>5, <1>6

\* Silence earns no point but for the term structure, Dealer O'Clock and, if it is
\* the peak's alone, the exposure's share of the peak.
LEMMA SilenceEarnsNothing ==
  ASSUME NEW m, IsMarket(m), NEW w, w = [m EXCEPT !.failed = {}], NEW s, NEW t,
         NEW c \in DOMAIN Points(m, s, t) \ {"term_structure_ok", "not_charm_distortion"}
  PROVE  \/ Points(m, s, t)[c] <= Points(w, s, t)[c]
         \/ c = "gex_declining" /\ Answers(m, "gex") /\ ~Answers(m, "peak")
<1> DEFINE p == Points(m, s, t)
           q == Points(w, s, t)
<1>1. \/ p.gex_declining <= q.gex_declining
      \/ Answers(m, "gex") /\ ~Answers(m, "peak")
  BY FailedOrSound DEF Points, GEX_DECLINE_THRESHOLD
<1>2. p.vcoc_signal <= q.vcoc_signal
  BY FailedOrSound DEF Points, Magnitude, VCOC_BULL_THRESHOLD
<1>3. p.fut_bs_ratio <= q.fut_bs_ratio
  BY FailedOrSound, Thresholds DEF Points
<1>4. p.pcr_divergence <= q.pcr_divergence
  BY FailedOrSound DEF Points, Magnitude
<1>5. p.ivp_cheap <= q.ivp_cheap
  BY FailedOrSound DEF Points, IfNone
<1>6. p.obi_negative <= q.obi_negative
  BY FailedOrSound DEF Points, Magnitude, OBI_THRESHOLD
<1>7. p.session_ok <= q.session_ok
  BY DEF Points
<1>8. p.vex_aligned <= q.vex_aligned
  BY FailedOrSound, Thresholds DEF Points
<1>9. DOMAIN p = {"gex_declining", "vcoc_signal", "fut_bs_ratio", "pcr_divergence",
                  "ivp_cheap", "obi_negative", "term_structure_ok", "session_ok",
                  "vex_aligned", "not_charm_distortion"}
  BY DEF Points
<1> HIDE DEF p, q
<1>10. QED
  BY <1>1, <1>2, <1>3, <1>4, <1>5, <1>6, <1>7, <1>8, <1>9 DEF p, q

-----------------------------------------------------------------------------
(* The mirror image of a market.                                           *)

\* What the mirror turns round, and what it leaves.
LEMMA MirrorFields ==
  ASSUME NEW m, IsMarket(m), NEW w, w = Mirrored(m)
  PROVE  /\ \A q : Answers(w, q) <=> Answers(m, q)
         /\ HasRows(w) <=> HasRows(m)
         /\ \A a \in Ages :
              IF m.coc[a] = None THEN w.coc[a] = None
              ELSE m.coc[a] \in Int /\ w.coc[a] \in Int /\ w.coc[a] = -m.coc[a]
         /\ m.fobi \in Int /\ w.fobi = -m.fobi
         /\ m.aobi \in Int /\ w.aobi = -m.aobi
         /\ w.vol = m.oi /\ w.oi = m.vol
         /\ m.vex = None => w.vex = None
         /\ m.vex # None => m.vex \in Int /\ w.vex = -m.vex
         /\ w.tier1 = m.tier1 /\ w.gex = m.gex /\ w.peak = m.peak
         /\ w.near = m.near /\ w.far = m.far /\ w.below = m.below /\ w.days = m.days
         /\ w.dte = m.dte /\ w.weekday = m.weekday
<1>1. 0 \in Ages
  BY AgesAre
<1>2. DOMAIN m = {"coc", "tier1", "gex", "peak", "fobi", "aobi", "vol", "oi", "near", "far",
                  "below", "days", "vex", "dte", "weekday", "spot", "chain", "strikes",
                  "stats", "failed"}
  BY DEF IsMarket
<1>3. /\ m.coc \in [Ages -> Int \union {None}] /\ m.fobi \in Int /\ m.aobi \in Int
      /\ m.vex \in Int \union {None}
  BY DEF IsMarket
<1>4. /\ w.coc = [a \in Ages |-> IF m.coc[a] = None THEN None ELSE -m.coc[a]]
      /\ w.fobi = -m.fobi /\ w.aobi = -m.aobi /\ w.vol = m.oi /\ w.oi = m.vol
      /\ w.vex = IF m.vex = None THEN None ELSE -m.vex
      /\ w.tier1 = m.tier1 /\ w.gex = m.gex /\ w.peak = m.peak
      /\ w.near = m.near /\ w.far = m.far /\ w.below = m.below /\ w.days = m.days
      /\ w.dte = m.dte /\ w.weekday = m.weekday /\ w.failed = m.failed
  BY <1>2 DEF Mirrored
<1>5. \A a \in Ages :
        IF m.coc[a] = None THEN w.coc[a] = None
        ELSE m.coc[a] \in Int /\ w.coc[a] \in Int /\ w.coc[a] = -m.coc[a]
  BY <1>3, <1>4
<1>6. \A q : Answers(w, q) <=> Answers(m, q)
  BY <1>4 DEF Answers
<1>7. HasRows(w) <=> HasRows(m)
  <2>1. m.coc[0] = None <=> w.coc[0] = None
    <3>1. \A a \in Ages : m.coc[a] = None <=> w.coc[a] = None
      BY <1>5, ScoringAssumption
    <3>2. QED
      BY <1>1, <3>1
  <2>2. w.tier1 <=> m.tier1
    BY <1>4
  <2>3. QED
    BY <2>1, <2>2 DEF HasRows
<1>8. QED
  BY <1>3, <1>4, <1>5, <1>6, <1>7

\* The same rows are there.
LEMMA MirrorRows ==
  ASSUME NEW m, IsMarket(m), NEW w, w = Mirrored(m), NEW young, NEW old
  PROVE  RowsBetween(w, young, old) = RowsBetween(m, young, old)
<1>1. \A a \in Ages : m.coc[a] = None <=> w.coc[a] = None
  BY MirrorFields, ScoringAssumption
<1>2. QED
  BY <1>1 DEF RowsBetween

\* Velocities change their sign.
LEMMA MirrorVelocity ==
  ASSUME NEW m, IsMarket(m), NEW w, w = Mirrored(m)
  PROVE  Velocity(m) \in Int /\ Velocity(w) = -Velocity(m)
<1> SUFFICES Velocity(m) \in Int /\ Velocity(w) = 0 - Velocity(m)
  OBVIOUS
<1> DEFINE window == RowsBetween(m, 0, 15)
<1>1. Cardinality(window) \in Nat /\ Cardinality({}) = 0
  BY RowsAre, FS_EmptySet
<1>2. CASE Cardinality(window) < 2
  <2>1. RowsBetween(w, 0, 15) = window
    BY MirrorRows
  <2>2. ComputeVcoc(m) = 0 /\ ComputeVcoc(w) = 0
    BY <1>2, <2>1 DEF ComputeVcoc
  <2>3. Velocity(m) = 0 /\ Velocity(w) = 0
    BY <2>2 DEF Velocity
  <2>4. QED
    BY <2>3
<1>3. CASE ~(Cardinality(window) < 2)
  <2>1. Min(window) \in window /\ Max(window) \in window
    <3>1. window # {}
      BY <1>1, <1>3
    <3>2. QED
      BY <3>1, RowsAre, AgeExtremes
  <2>2. \A a \in window : m.coc[a] \in Int /\ w.coc[a] = -m.coc[a]
    BY MirrorFields DEF RowsBetween
  <2>3. /\ ComputeVcoc(m) = m.coc[Min(window)] - m.coc[Max(window)]
        /\ ComputeVcoc(w) = w.coc[Min(window)] - w.coc[Max(window)]
    BY <1>3, MirrorRows DEF ComputeVcoc
  <2> HIDE DEF window
  <2>4. ComputeVcoc(m) \in Int /\ ComputeVcoc(w) = -ComputeVcoc(m)
    BY <2>1, <2>2, <2>3
  <2>5. m.coc[0] = None <=> w.coc[0] = None
    BY MirrorFields, AgesAre, ScoringAssumption
  <2>6. Answers(w, "coc") <=> Answers(m, "coc")
    BY MirrorFields
  <2>7. QED
    BY <2>4, <2>5, <2>6 DEF Velocity
<1>4. QED
  BY <1>2, <1>3

\* The other figures a side depends on change their sign, too.
LEMMA MirrorFigures ==
  ASSUME NEW m, IsMarket(m), NEW w, w = Mirrored(m)
  PROVE  /\ FuturesObi(m) \in Int /\ FuturesObi(w) = -FuturesObi(m)
         /\ AtmObi(m) \in Int /\ AtmObi(w) = -AtmObi(m)
         /\ PcrDivergence(m) \in Int /\ PcrDivergence(w) = -PcrDivergence(m)
         /\ VexTotal(m) \in Int /\ VexTotal(w) = -VexTotal(m)
         /\ VexTotal(w) \in Int
<1>1. m.coc[0] = None <=> w.coc[0] = None
  BY MirrorFields, AgesAre, ScoringAssumption
<1>2. FuturesObi(m) \in Int /\ FuturesObi(w) = -FuturesObi(m)
  BY <1>1, MirrorFields DEF FuturesObi
<1>3. AtmObi(m) \in Int /\ AtmObi(w) = -AtmObi(m)
  BY MirrorFields DEF AtmObi
<1>4. PcrDivergence(m) \in Int /\ PcrDivergence(w) = -PcrDivergence(m)
  <2>1. m.vol \in Int \union {None} /\ m.oi \in Int \union {None}
    BY DEF IsMarket
  <2>2. OrElse(m.vol, 100) \in Int /\ OrElse(m.oi, 100) \in Int
    BY <2>1 DEF OrElse
  <2>3. QED
    BY <2>2, MirrorFields DEF PcrDivergence
<1>5. /\ VexTotal(m) \in Int /\ VexTotal(w) = -VexTotal(m)
      /\ VexTotal(w) \in Int
  <2>1. VexRaw(m) \in Int /\ VexRaw(w) = 0 - VexRaw(m)
    BY MirrorFields, ScoringAssumption DEF VexRaw, IfNone
  <2> DEFINE x == VexRaw(m)
  <2> HIDE DEF x
  <2>2. RoundDiv(x, 10) \in Int /\ RoundDiv(0 - x, 10) = 0 - RoundDiv(x, 10)
    BY <2>1, Rounded DEF x
  <2>3. VexTotal(m) = RoundDiv(x, 10) /\ VexTotal(w) = RoundDiv(0 - x, 10)
    BY <2>1 DEF VexTotal, x
  <2>4. QED
    BY <2>2, <2>3
<1>6. QED
  BY <1>2, <1>3, <1>4, <1>5

\* A spike is one in both directions.
LEMMA MirrorSpike ==
  ASSUME NEW m, IsMarket(m), NEW w, w = Mirrored(m)
  PROVE  SpikeActive(w) <=> SpikeActive(m)
<1> DEFINE rows == RowsBetween(m, 0, 30)
           Window(t) == RowsBetween(m, t + 5, Cap(t + 15, 30))
<1>1. ASSUME NEW t \in rows, Window(t) # {}
      PROVE  Magnitude(w.coc[t] - w.coc[Max(Window(t))])
               = Magnitude(m.coc[t] - m.coc[Max(Window(t))])
  <2>1. Max(Window(t)) \in Window(t)
    BY <1>1, RowsAre, AgeExtremes
  <2>2. /\ m.coc[t] \in Int /\ w.coc[t] = -m.coc[t]
        /\ m.coc[Max(Window(t))] \in Int /\ w.coc[Max(Window(t))] = -m.coc[Max(Window(t))]
    BY <2>1, MirrorFields DEF RowsBetween
  <2>3. QED
    BY <2>2 DEF Magnitude
<1>2. \A q : Answers(w, q) <=> Answers(m, q)
  BY MirrorFields
<1>3. \A young, old : RowsBetween(w, young, old) = RowsBetween(m, young, old)
  BY MirrorRows
<1>4. QED
  BY <1>1, <1>2, <1>3 DEF SpikeActive

\* Every vote changes sides; the one by the put-call ratios where its two
\* thresholds do not tell the directions apart.
LEMMA MirrorVotes ==
  ASSUME NEW m, IsMarket(m), NEW w, w = Mirrored(m),
         Magnitude(PcrDivergence(m)) \notin 21 .. 25
  PROVE  /\ VcocVote(w) = Flip(VcocVote(m))
         /\ FutObiVote(w) = Flip(FutObiVote(m))
         /\ VexVote(w) = Flip(VexVote(m))
         /\ AtmObiVote(w) = Flip(AtmObiVote(m))
         /\ PcrVote(w) = Flip(PcrVote(m))
<1>1. VcocVote(w) = Flip(VcocVote(m))
  BY MirrorVelocity, MirrorSpike
     DEF VcocVote, Lean, Flip, VCOC_BULL_THRESHOLD, VCOC_BEAR_THRESHOLD
<1>2. FutObiVote(w) = Flip(FutObiVote(m))
  BY MirrorFigures, Thresholds DEF FutObiVote, Lean, Flip
<1>3. VexVote(w) = Flip(VexVote(m))
  BY MirrorFigures, Thresholds DEF VexVote, Lean, Flip
<1>4. AtmObiVote(w) = Flip(AtmObiVote(m))
  BY MirrorFigures DEF AtmObiVote, Lean, Flip, OBI_THRESHOLD
<1>5. PcrVote(w) = Flip(PcrVote(m))
  BY MirrorFigures
     DEF PcrVote, Lean, Flip, Magnitude, PCR_DIV_BULL_THRESHOLD, PCR_DIV_BEAR_THRESHOLD
<1>6. QED
  BY <1>1, <1>2, <1>3, <1>4, <1>5

\* The direction changes sides, margin and number of signals stay.
LEMMA BiasMirrors ==
  ASSUME NEW m, IsMarket(m), Magnitude(PcrDivergence(m)) \notin 21 .. 25
  PROVE  Bias(Mirrored(m)) = [Bias(m) EXCEPT !.side = Flip(@)]
<1> DEFINE w == Mirrored(m)
           margin == Weight(m, "CE") - Weight(m, "PE")
           other  == Weight(w, "CE") - Weight(w, "PE")
           cast   == {v \in DOMAIN VoteWeight : Votes(m)[v] # "NEUTRAL"}
           reply  == {v \in DOMAIN VoteWeight : Votes(w)[v] # "NEUTRAL"}
<1>1. /\ VcocVote(w) = Flip(VcocVote(m)) /\ FutObiVote(w) = Flip(FutObiVote(m))
      /\ VexVote(w) = Flip(VexVote(m)) /\ AtmObiVote(w) = Flip(AtmObiVote(m))
      /\ PcrVote(w) = Flip(PcrVote(m))
  BY MirrorVotes
<1>2. /\ VcocVote(m) \in Sides \union {"NEUTRAL"} /\ FutObiVote(m) \in Sides \union {"NEUTRAL"}
      /\ VexVote(m) \in Sides \union {"NEUTRAL"} /\ AtmObiVote(m) \in Sides \union {"NEUTRAL"}
      /\ PcrVote(m) \in Sides \union {"NEUTRAL"}
  BY LeanIsSide DEF VcocVote, FutObiVote, VexVote, AtmObiVote, PcrVote
<1> HIDE DEF w
<1>3. /\ Weight(m, "CE") \in Nat /\ Weight(m, "PE") \in Nat
      /\ Weight(w, "CE") = Weight(m, "PE") /\ Weight(w, "PE") = Weight(m, "CE")
  BY <1>1, <1>2 DEF Weight, SumOfVotes, Votes, VoteWeight, Flip, Sides
<1>4. margin \in Int /\ other = 0 - margin
  BY <1>3
<1>5. \A v \in DOMAIN VoteWeight : Votes(w)[v] # "NEUTRAL" <=> Votes(m)[v] # "NEUTRAL"
  BY <1>1, <1>2 DEF VoteWeight, Votes, Flip, Sides
<1>6. reply = cast
  BY <1>5
<1>7. /\ Bias(m) = [side |-> Lean(margin, 0, 0), margin |-> Magnitude(margin),
                     signals |-> Cardinality(cast)]
      /\ Bias(w) = [side |-> Lean(other, 0, 0), margin |-> Magnitude(other),
                     signals |-> Cardinality(reply)]
  BY DEF Bias
<1> HIDE DEF margin, other, cast, reply
<1>8. Lean(other, 0, 0) = Flip(Lean(margin, 0, 0)) /\ Magnitude(other) = Magnitude(margin)
  BY <1>4 DEF Lean, Flip, Magnitude
<1>9. Bias(w) = [Bias(m) EXCEPT !.side = Flip(@)]
  BY <1>6, <1>7, <1>8
<1>10. QED
  BY <1>9 DEF w

\* The gate gives the mirror's other side the same points.
LEMMA GateMirrors ==
  ASSUME NEW m, IsMarket(m), NEW s \in Sides, NEW t
  PROVE  GateScore(Mirrored(m), Flip(s), t) = GateScore(m, s, t)
<1> DEFINE w == Mirrored(m)
           p == Points(m, s, t)
           q == Points(w, Flip(s), t)
<1>1. NetGex(w).pct = NetGex(m).pct
  BY MirrorFields DEF NetGex, Peak
<1>2. HasIv(w) <=> HasIv(m)
  BY MirrorFields DEF HasIv
<1>3. Ivp(w) = Ivp(m) /\ TermShape(w) = TermShape(m)
  BY <1>2, MirrorFields DEF Ivp, TermShape
<1>4. DealerOclock(w, t) <=> DealerOclock(m, t)
  BY MirrorFields DEF DealerOclock
<1>5. q.gex_declining = p.gex_declining
  BY <1>1 DEF Points
<1>6. q.vcoc_signal = p.vcoc_signal
  BY MirrorVelocity DEF Points, Magnitude
<1>7. q.fut_bs_ratio = p.fut_bs_ratio
  BY MirrorFigures, Thresholds DEF Points
<1>8. q.pcr_divergence = p.pcr_divergence /\ q.obi_negative = p.obi_negative
  BY MirrorFigures DEF Points, Magnitude
<1>9. q.ivp_cheap = p.ivp_cheap /\ q.term_structure_ok = p.term_structure_ok
  BY <1>3 DEF Points
<1>10. q.session_ok = p.session_ok
  BY DEF Points
<1>11. q.vex_aligned = p.vex_aligned
  BY MirrorFigures, Thresholds DEF Points, Flip, Sides
<1>12. q.not_charm_distortion = p.not_charm_distortion
  BY <1>4 DEF Points
<1>13. Answers(w, "gate") <=> Answers(m, "gate")
  BY MirrorFields
<1> HIDE DEF w, p, q
<1>14. GateScore(w, Flip(s), t) = GateScore(m, s, t)
  BY <1>5, <1>6, <1>7, <1>8, <1>9, <1>10, <1>11, <1>12, <1>13 DEF GateScore, SumOfPoints, p, q
<1>15. QED
  BY <1>14 DEF w

-----------------------------------------------------------------------------
(* Maximum pain.                                                           *)

\* From a strike to the next the payout grows by the calls up to the first and
\* shrinks by the puts from the second on.
LEMMA PainMoves ==
  ASSUME NEW chain, IsChain(chain), NEW i \in 1 .. Len(chain) - 1
  PROVE  LET a == chain[i].strike
             b == chain[i + 1].strike
         IN /\ a \in Int /\ b \in Int /\ a < b
            /\ Pain(chain, a) \in Int /\ Pain(chain, b) \in Int
            /\ CallsUpTo(chain, i) \in Int /\ PutsFrom(chain, i + 1) \in Int
            /\ Pain(chain, b)
                 = Pain(chain, a) + (b - a) * (CallsUpTo(chain, i) - PutsFrom(chain, i + 1))
<1> DEFINE n == Len(chain)
           a == chain[i].strike
           b == chain[i + 1].strike
           Pays(k) == [j \in 1 .. n |-> AtLeast(k - chain[j].strike, 0) * chain[j].ce
                                        + AtLeast(chain[j].strike - k, 0) * chain[j].pe]
           calls == [j \in 1 .. n |-> IF j <= i THEN chain[j].ce ELSE 0]
           puts  == [j \in 1 .. n |-> IF j >= i + 1 THEN chain[j].pe ELSE 0]
           tilt  == [j \in 1 .. n |-> IF j <= i THEN chain[j].ce ELSE 0 - chain[j].pe]
           gain  == [j \in 1 .. n |-> (b - a) * tilt[j]]
<1>1. n \in Nat /\ DOMAIN chain = 1 .. n /\ i \in 1 .. n /\ i + 1 \in 1 .. n
  BY ChainTyped
<1>2. \A j \in 1 .. n : chain[j].strike \in Int /\ chain[j].ce \in Int /\ chain[j].pe \in Int
  BY ChainTyped
<1>3. a \in Int /\ b \in Int /\ a < b
  BY <1>1, <1>2 DEF IsChain
<1>4. /\ \A j \in 1 .. n : j <= i => chain[j].strike <= a
      /\ \A j \in 1 .. n : ~(j <= i) => b <= chain[j].strike
  <2>1. \A j, k \in 1 .. n : j < k => chain[j].strike < chain[k].strike
    BY <1>1 DEF IsChain
  <2>2. \A j \in 1 .. n : j <= i => j = i \/ j < i
    BY <1>1
  <2>3. \A j \in 1 .. n : ~(j <= i) => j = i + 1 \/ i + 1 < j
    BY <1>1
  <2>4. \A j \in 1 .. n : j < i => chain[j].strike < a
    BY <1>1, <2>1
  <2>5. \A j \in 1 .. n : i + 1 < j => b < chain[j].strike
    BY <1>1, <2>1
  <2>6. \A j \in 1 .. n : j <= i => chain[j].strike <= a
    <3> HIDE DEF n
    <3>1. QED
      BY <1>2, <1>3, <2>2, <2>4
  <2>7. \A j \in 1 .. n : ~(j <= i) => b <= chain[j].strike
    <3> HIDE DEF n
    <3>1. QED
      BY <1>2, <1>3, <2>3, <2>5
  <2>8. QED
    BY <2>6, <2>7
<1>5. /\ Pain(chain, a) = Total(Pays(a)) /\ Pain(chain, b) = Total(Pays(b))
      /\ CallsUpTo(chain, i) = Total(calls) /\ PutsFrom(chain, i + 1) = Total(puts)
  BY <1>1 DEF Pain, CallsUpTo, PutsFrom
<1> HIDE DEF n, a, b
<1>6. Pays(a) \in [1 .. n -> Int] /\ Pays(b) \in [1 .. n -> Int]
  BY <1>3, PainTyped DEF n
<1>7. calls \in [1 .. n -> Int] /\ puts \in [1 .. n -> Int] /\ tilt \in [1 .. n -> Int]
  BY <1>2
<1>8. gain \in [1 .. n -> Int]
  <2>1. \A x \in Int : (b - a) * x \in Int
    BY <1>3
  <2> HIDE DEF tilt
  <2>2. QED
    BY <1>7, <2>1
<1>9. \A j \in 1 .. n : Pays(b)[j] = Pays(a)[j] + gain[j]
  <2> TAKE j \in 1 .. n
  <2> DEFINE s  == chain[j].strike
             ce == chain[j].ce
             pe == chain[j].pe
             One(k) == AtLeast(k - s, 0) * ce + AtLeast(s - k, 0) * pe
  <2>1. Pays(a)[j] = One(a) /\ Pays(b)[j] = One(b) /\ gain[j] = (b - a) * tilt[j]
    BY Zenon
  <2>2. s \in Int /\ ce \in Int /\ pe \in Int
    BY <1>2
  <2>3. One(b) = One(a) + (b - a) * tilt[j]
    <3>1. CASE j <= i
      <4>1. s <= a /\ tilt[j] = ce
        BY <1>4, <3>1
      <4> HIDE DEF tilt, s, ce, pe
      <4>2. /\ AtLeast(a - s, 0) = a - s /\ AtLeast(s - a, 0) = 0
            /\ AtLeast(b - s, 0) = b - s /\ AtLeast(s - b, 0) = 0
        BY <1>3, <2>2, <4>1 DEF AtLeast
      <4>3. (b - s) * ce + 0 * pe = (a - s) * ce + 0 * pe + (b - a) * ce
        BY <1>3, <2>2
      <4>4. One(b) = One(a) + (b - a) * ce
        BY <4>2, <4>3
      <4> HIDE DEF One
      <4>5. QED
        BY <4>1, <4>4
    <3>2. CASE ~(j <= i)
      <4>1. b <= s /\ tilt[j] = 0 - pe
        BY <1>4, <3>2
      <4> HIDE DEF tilt, s, ce, pe
      <4>2. /\ AtLeast(a - s, 0) = 0 /\ AtLeast(s - a, 0) = s - a
            /\ AtLeast(b - s, 0) = 0 /\ AtLeast(s - b, 0) = s - b
        BY <1>3, <2>2, <4>1 DEF AtLeast
      <4>3. 0 * ce + (s - b) * pe = 0 * ce + (s - a) * pe + (b - a) * (0 - pe)
        BY <1>3, <2>2
      <4>4. One(b) = One(a) + (b - a) * (0 - pe)
        BY <4>2, <4>3
      <4> HIDE DEF One
      <4>5. QED
        BY <4>1, <4>4
    <3>3. QED
      BY <3>1, <3>2
  <2> HIDE DEF One, Pays, gain, tilt
  <2>4. QED
    BY <2>1, <2>3
<1>10. \A j \in 1 .. n : calls[j] = puts[j] + tilt[j]
  BY <1>1, <1>2
<1> HIDE DEF Pays, calls, puts, tilt
<1>11. Total(calls) \in Int /\ Total(puts) \in Int /\ Total(tilt) = Total(calls) - Total(puts)
  <2>1. /\ Total(puts) \in Int /\ Total(tilt) \in Int
        /\ Total(calls) = Total(puts) + Total(tilt)
    BY <1>1, <1>7, <1>10, TotalAdds
  <2>2. QED
    BY <2>1
<1>12. Total(gain) = (b - a) * Total(tilt)
  <2>1. \A j \in 1 .. n : gain[j] = (b - a) * tilt[j]
    OBVIOUS
  <2>2. b - a \in Int
    BY <1>3
  <2> HIDE DEF gain
  <2>3. QED
    BY <1>1, <1>7, <1>8, <2>1, <2>2, TotalScales
<1> HIDE DEF gain
<1>13. /\ Total(Pays(a)) \in Int /\ Total(gain) \in Int
       /\ Total(Pays(b)) = Total(Pays(a)) + Total(gain)
  BY <1>1, <1>6, <1>8, <1>9, TotalAdds
<1>14. QED
  BY <1>3, <1>5, <1>11, <1>12, <1>13 DEF a, b

\* A step in one direction goes where its factor points.
LEMMA Pushed ==
  ASSUME NEW p \in Int, NEW q \in Int, NEW d \in Int, NEW x \in Int,
         d > 0, q = p + d * x
  PROVE  (p <= q => x >= 0) /\ (q < p => x < 0)
<1>1. x >= 0 => d * x >= 0
  OBVIOUS
<1>2. x < 0 => d * x < 0
  OBVIOUS
<1>3. QED
  BY <1>1, <1>2

\* The strike of maximum pain balances the open interest on its two sides.
LEMMA PainBalances ==
  ASSUME NEW chain, IsChain(chain)
  PROVE  \E i \in DOMAIN chain :
            /\ chain[i].strike = MaxPain(chain)
            /\ i < Len(chain) => CallsUpTo(chain, i) >= PutsFrom(chain, i + 1)
            /\ i > 1 => CallsUpTo(chain, i - 1) < PutsFrom(chain, i)
<1> DEFINE n == Len(chain)
           pain == [i \in 1 .. n |-> Pain(chain, chain[i].strike)]
           cheapest == {i \in 1 .. n : \A j \in 1 .. n : pain[i] <= pain[j]}
           i == Min(cheapest)
<1>1. n \in Nat \ {0} /\ DOMAIN chain = 1 .. n
  BY ChainTyped
<1>2. pain \in [1 .. n -> Int]
  <2>1. ASSUME NEW j \in 1 .. n PROVE Pain(chain, chain[j].strike) \in Int
    <3>1. chain[j].strike \in Int
      BY ChainTyped
    <3>2. QED
      BY <3>1, PainTyped
  <2>2. QED
    BY <2>1
<1>3. cheapest # {}
  BY <1>1, <1>2, Smallest
<1>4. i \in cheapest /\ \A j \in cheapest : i <= j
  <2>1. cheapest \in SUBSET Nat
    OBVIOUS
  <2> HIDE DEF cheapest
  <2>2. QED
    BY <1>3, <2>1, Least DEF Min
<1>5. MaxPain(chain) = chain[i].strike
  <2>1. cheapest = {h \in DOMAIN chain : \A j \in DOMAIN chain :
                      Pain(chain, chain[h].strike) <= Pain(chain, chain[j].strike)}
    BY <1>1
  <2>2. QED
    BY <2>1 DEF MaxPain
<1>6. i \in 1 .. n /\ \A j \in 1 .. n : pain[i] <= pain[j]
  BY <1>4
<1> HIDE DEF i
<1>7. ASSUME i < n
      PROVE  CallsUpTo(chain, i) >= PutsFrom(chain, i + 1)
  <2> DEFINE d == chain[i + 1].strike - chain[i].strike
             x == CallsUpTo(chain, i) - PutsFrom(chain, i + 1)
  <2>1. i \in 1 .. n - 1
    BY <1>1, <1>6, <1>7
  <2>2. /\ CallsUpTo(chain, i) \in Int /\ PutsFrom(chain, i + 1) \in Int
        /\ d \in Int /\ d > 0 /\ pain[i + 1] = pain[i] + d * x
    BY <2>1, PainMoves
  <2>3. pain[i] <= pain[i + 1]
    BY <1>6, <2>1
  <2> HIDE DEF pain
  <2>4. QED
    BY <1>2, <2>1, <2>2, <2>3, Pushed
<1>8. ASSUME i > 1
      PROVE  CallsUpTo(chain, i - 1) < PutsFrom(chain, i)
  <2> DEFINE h == i - 1
             d == chain[i].strike - chain[h].strike
             x == CallsUpTo(chain, h) - PutsFrom(chain, i)
  <2>1. h \in 1 .. n - 1 /\ i = h + 1
    BY <1>1, <1>6, <1>8
  <2> HIDE DEF h
  <2>2. /\ CallsUpTo(chain, h) \in Int /\ PutsFrom(chain, i) \in Int
        /\ d \in Int /\ d > 0 /\ pain[i] = pain[h] + d * x
    BY <2>1, PainMoves
  <2>3. h \in 1 .. n /\ ~(i <= h)
    BY <2>1
  <2>4. h \notin cheapest
    <3> HIDE DEF cheapest
    <3>1. QED
      BY <1>4, <2>3
  <2>5. pain[i] < pain[h]
    BY <1>2, <1>6, <2>3, <2>4
  <2> HIDE DEF pain, cheapest
  <2>6. QED
    BY <1>2, <1>6, <2>1, <2>2, <2>5, Pushed DEF h
<1>9. QED
  BY <1>1, <1>5, <1>6, <1>7, <1>8

-----------------------------------------------------------------------------
(* What the tick has read.                                                 *)

\* Until step 2 has run, the verdicts at hand are those of the market at hand.
ReadInv ==
    phase = "gate" =>
        /\ IsMarket(market)
        /\ noGo = {s \in Sides : Verdict(market, s, now) = "NO_GO"}

\* The start of a tick reads a market and judges both sides on it.
LEMMA ReadStart == TickStart => ReadInv'
<1> SUFFICES ASSUME TickStart PROVE ReadInv'
  OBVIOUS
<1>1. PICK m \in Opening \union {Dead} :
        market' = m /\ noGo' = {s \in Sides : Verdict(m, s, now) = "NO_GO"}
  BY DeskAssumption DEF TickStart
<1>2. IsMarket(m)
  BY DeskAssumption
<1>3. now' = now
  BY DEF TickStart
<1>4. QED
  BY <1>1, <1>2, <1>3 DEF ReadInv

\* Nothing else touches what was read before step 2 uses it.
LEMMA ReadStep == ReadInv /\ [Next]_vars => ReadInv'
<1> SUFFICES ASSUME ReadInv, [Next]_vars PROVE ReadInv'
  OBVIOUS
<1>1. CASE TickStart
  BY <1>1, ReadStart
<1>2. CASE phase' # "gate"
  BY <1>2 DEF ReadInv
<1>3. CASE UNCHANGED <<phase, market, noGo, now>>
  BY <1>3 DEF ReadInv
<1>4. ASSUME NEW t \in Trades, Track(t) \/ TrackFails(t) PROVE phase' # "gate"
  BY <1>4 DEF Track, TrackFails
<1>5. ASSUME NEW t \in Trades, Accept(t) \/ Reject(t) \/ Close(t)
      PROVE  UNCHANGED <<phase, market, noGo, now>>
  BY <1>5 DEF Accept, Reject, Close, clock, view
<1>6. CASE Advance \/ Sweep
  BY <1>6, <1>2 DEF Advance, Sweep
<1>7. CASE GateCache \/ Recommend \/ TrackNothing \/ TrackShadows \/ Crash
  BY <1>7, <1>2 DEF GateCache, Recommend, TrackNothing, TrackShadows, Crash
<1>8. CASE UNCHANGED vars
  BY <1>8, <1>3 DEF vars, clock, view
<1>9. QED
  BY <1>1, <1>2, <1>3, <1>4, <1>5, <1>6, <1>7, <1>8 DEF Next, Tick

\* What a tick has read is what it judges.
LEMMA ReadInvariant == Spec => []ReadInv
<1>1. Init => ReadInv
  BY DEF Init, ReadInv
<1>2. QED
  BY <1>1, ReadStep, PTL DEF Spec

-----------------------------------------------------------------------------
(* What the scores promise.                                                *)

\* Calls and puts are judged by the same measure, for any underlying and any
\* figures but put-call divergences between the two thresholds.
THEOREM SidesAreJudgedAlike == Spec => []MirrorBias
<1>1. ReadInv => MirrorBias
  BY BiasMirrors, GateMirrors DEF ReadInv, MirrorBias, Reading
<1>2. QED
  BY <1>1, ReadInvariant, PTL

\* The batch query of the direction vote sees every velocity beyond the
\* threshold, whichever rows of the last half hour are missing.
THEOREM SpikesCoverVelocity == Spec => []SpikeCoversVelocity
<1>1. ReadInv => SpikeCoversVelocity
  BY VelocityIsSpike DEF ReadInv, SpikeCoversVelocity, Reading
<1>2. QED
  BY <1>1, ReadInvariant, PTL

\* The gate's exposure points, the exposure's vote and the confidence's reading of
\* it go to the same side, with the thresholds of every underlying.
THEOREM GateAndVoteAgree == Spec => []GateAgreesWithVote
<1>1. ReadInv => GateAgreesWithVote
  BY GateAgrees DEF ReadInv, GateAgreesWithVote, Reading
<1>2. QED
  BY <1>1, ReadInvariant, PTL

\* Whichever queries fail silently, seven of the ten conditions can only be lost,
\* and an eighth, the exposure's decline, but for a failure of the peak alone.
THEOREM FailuresEarnLittle == Spec => []FailuresEarnThreePoints
<1>1. ReadInv => FailuresEarnThreePoints
  BY SilenceEarnsNothing DEF ReadInv, FailuresEarnThreePoints, Reading
<1>2. QED
  BY <1>1, ReadInvariant, PTL

\* Whatever the strikes and their open interest: the strike where the writers
\* pay least is where the calls from below and the puts from above balance.
THEOREM PainIsBalanced == Spec => []MaxPainBalances
<1>1. ReadInv => MaxPainBalances
  BY PainBalances DEF ReadInv, IsMarket, MaxPainBalances, Reading
<1>2. QED
  BY <1>1, ReadInvariant, PTL

\* A card that expires today or tomorrow has GO and a grade, and comes before
\* 14:30, whatever the votes, the conditions and the history say.
THEOREM ExpiryCardsPass == Spec => []ExpiryCardsAreStrong
<1>1. ReadInv => ExpiryCardsAreStrong
  BY ExpiryCardIsStrong DEF ReadInv, ExpiryCardsAreStrong, Reading
<1>2. QED
  BY <1>1, ReadInvariant, PTL
=============================================================================
