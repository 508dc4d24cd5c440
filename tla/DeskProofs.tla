----------------------------- MODULE DeskProofs -----------------------------
(***************************************************************************)
(* Proofs about Desk, for any number of cards, any premium and theta, any  *)
(* quotes and any markets: its types, and what it promises about exits,    *)
(* stops and shadows.  DeskScoreProofs has what the scores promise.        *)
(***************************************************************************)
EXTENDS Desk, ScoringProofs, SequenceTheorems

-----------------------------------------------------------------------------
(* Quotes and sides.                                                       *)

\* The highest quote of a position is that of one of its snaps.
LEMMA PeakIsQuoted ==
  ASSUME NEW s \in Seq(Snap), s # <<>>
  PROVE  \E i \in 1 .. Len(s) :
            /\ s[i].ltp = Max({s[j].ltp : j \in DOMAIN s})
            /\ \A j \in 1 .. Len(s) : s[j].ltp <= s[i].ltp
<1> DEFINE S == {s[j].ltp : j \in DOMAIN s}
           f == [j \in 1 .. Len(s) |-> s[j].ltp]
<1>1. DOMAIN s = 1 .. Len(s) /\ Len(s) \in Nat \ {0}
  BY LenProperties
<1>2. f \in [1 .. Len(s) -> Nat]
  <2>1. \A j \in 1 .. Len(s) : s[j] \in Snap
    BY ElementOfSeq
  <2>2. QED
    BY <2>1 DEF Snap
<1>3. PICK i \in 1 .. Len(s) : \A j \in 1 .. Len(s) : f[j] <= f[i]
  <2> HIDE DEF f
  <2>1. f \in [1 .. Len(s) -> Int]
    BY <1>2
  <2>2. QED
    BY <1>1, <2>1, Largest
<1>4. f[i] \in S /\ \A x \in S : x \in Nat /\ f[i] >= x
  BY <1>2, <1>3
<1>5. Max(S) \in S /\ \A x \in S : Max(S) >= x
  BY <1>4 DEF Max
<1>6. f[i] = Max(S)
  <2> HIDE DEF S
  <2>1. f[i] \in Nat /\ Max(S) \in Nat /\ f[i] >= Max(S) /\ Max(S) >= f[i]
    BY <1>4, <1>5
  <2>2. QED
    BY <2>1
<1>7. QED
  BY <1>1, <1>2, <1>3, <1>6

\* A vote is for a side or for none.
LEMMA LeanIsSide ==
  ASSUME NEW x, NEW bull, NEW bear
  PROVE  Lean(x, bull, bear) \in Sides \union {"NEUTRAL"}
BY DEF Lean, Sides

\* A card has a side.
LEMMA CardSides == ASSUME NEW m, NEW t, NEW c \in Cards(m, t) PROVE c.side \in Sides
<1>1. Bias(m).side \in Sides \union {"NEUTRAL"}
  BY LeanIsSide DEF Bias
<1>2. QED
  BY <1>1 DEF Cards

-----------------------------------------------------------------------------
(* Types.                                                                  *)

\* Every time of the session is a natural number.
LEMMA TimesAreNat == Times \subseteq Nat /\ EOD_SWEEP_TIME \in Times
BY DeskAssumption

\* A gain is a number.
LEMMA PnlTyped == ASSUME NEW ltp \in Int PROVE Pnl(ltp) \in Int
BY DeskAssumption, Rounded DEF Pnl

\* A stop is a price, and the theta stop of a past card is not above the premium.
LEMMA ThetaStopTyped ==
  ASSUME TypeOK, NEW t \in Trades
  PROVE  /\ ThetaStop(t) \in Nat
         /\ trade[t].time <= now => ThetaStop(t) <= Premium
<1> DEFINE minutes == MinutesSince(trade[t].time)
           decay   == (Theta * minutes) \div 390
           decayed == AtLeast(Premium - decay, 1)
<1>1. minutes \in Int /\ (trade[t].time <= now => minutes \in Nat)
  <2>1. now \in Times /\ trade[t].time \in Times
    BY DEF TypeOK, TradeRecord
  <2>2. now \in Nat /\ trade[t].time \in Nat
    BY <2>1, TimesAreNat
  <2>3. QED
    BY <2>2 DEF MinutesSince
<1>2. decay \in Int /\ (trade[t].time <= now => decay >= 0)
  <2> HIDE DEF minutes
  <2>1. Theta * minutes \in Int
    BY <1>1, DeskAssumption
  <2>2. minutes \in Nat => Theta * minutes \in Nat
    BY DeskAssumption
  <2>3. \A x \in Int : x \div 390 \in Int /\ (x \in Nat => x \div 390 >= 0)
    OBVIOUS
  <2>4. QED
    BY <1>1, <2>1, <2>2, <2>3
<1> HIDE DEF decay, minutes
<1>3. decayed \in Nat \ {0} /\ (trade[t].time <= now => decayed <= Premium)
  BY <1>2, DeskAssumption DEF AtLeast
<1> HIDE DEF decayed
<1>4. ASSUME NEW x \in Nat \ {0}
      PROVE  RoundDiv(x * 65, 100) \in Nat /\ RoundDiv(x * 65, 100) <= x
  <2>1. RoundDiv(x * 65, 100) = (2 * (x * 65) + 100) \div 200
    BY DEF RoundDiv, Magnitude
  <2>2. QED
    BY <2>1
<1>5. ThetaStop(t) = RoundDiv(decayed * 65, 100)
  BY DEF ThetaStop, decayed, decay, minutes, AI_SL_PCT
<1>6. /\ RoundDiv(decayed * 65, 100) \in Nat
      /\ RoundDiv(decayed * 65, 100) <= decayed /\ Premium \in Nat
  BY <1>3, <1>4, DeskAssumption
<1>7. ThetaStop(t) \in Nat /\ ThetaStop(t) <= decayed /\ decayed \in Nat
  BY <1>3, <1>5, <1>6
<1>8. QED
  BY <1>3, <1>6, <1>7

\* What the scheduler sees is a list of snaps.
LEMMA SeenTyped ==
  ASSUME TypeOK, NEW t \in Trades
  PROVE  Seen(t) \in Seq(Snap) /\ Flushed[t] = Seen(t)
BY DEF Seen, Flushed, TypeOK

\* The trail is a price; inside the gain it is nine tenths of the highest quote,
\* truncated: not above that of one earlier quote, not below that of any.
LEMMA TrailTyped ==
  ASSUME TypeOK, NEW t \in Trades, NEW ltp
  PROVE  /\ Trail(t, ltp) \in Nat
         /\ \/ Trail(t, ltp) = 0
            \/ \E i \in 1 .. Len(Seen(t)) : 10 * Trail(t, ltp) <= 9 * Seen(t)[i].ltp
         /\ InGain(ltp) => \A i \in 1 .. Len(Seen(t)) :
                              (9 * Seen(t)[i].ltp) \div 10 <= Trail(t, ltp)
<1>0. Seen(t) \in Seq(Snap)
  BY SeenTyped
<1>1. CASE InGain(ltp) /\ Seen(t) # <<>>
  <2>1. PICK i \in 1 .. Len(Seen(t)) :
               /\ Seen(t)[i].ltp = Max({Seen(t)[j].ltp : j \in DOMAIN Seen(t)})
               /\ \A j \in 1 .. Len(Seen(t)) : Seen(t)[j].ltp <= Seen(t)[i].ltp
    BY <1>0, <1>1, PeakIsQuoted
  <2>2. \A j \in 1 .. Len(Seen(t)) : Seen(t)[j].ltp \in Nat
    <3>1. \A j \in 1 .. Len(Seen(t)) : Seen(t)[j] \in Snap
      BY <1>0, ElementOfSeq
    <3>2. QED
      BY <3>1 DEF Snap
  <2>3. Trail(t, ltp) = (9 * Seen(t)[i].ltp) \div 10
    BY <1>1, <2>1 DEF Trail
  <2>4. \A x, y \in Nat : /\ (9 * x) \div 10 \in Nat /\ 10 * ((9 * x) \div 10) <= 9 * x
                          /\ x <= y => (9 * x) \div 10 <= (9 * y) \div 10
    OBVIOUS
  <2>5. QED
    BY <2>1, <2>2, <2>3, <2>4
<1>2. CASE ~(InGain(ltp) /\ Seen(t) # <<>>)
  <2>1. Trail(t, ltp) = 0
    BY <1>2 DEF Trail
  <2>2. InGain(ltp) => 1 .. Len(Seen(t)) = {}
    BY <1>2
  <2>3. QED
    BY <2>1, <2>2
<1>3. QED
  BY <1>1, <1>2

\* A quoted contract has a price.
LEMMA QuoteTyped ==
  ASSUME TypeOK, NEW t \in Trades, quote[t] # None
  PROVE  quote[t].ltp \in Nat
<1>1. quote[t] \in Quotes \union {Par}
  BY DEF TypeOK
<1>2. Quotes \subseteq [ltp : Nat, crush : BOOLEAN] /\ Premium \in Nat
  BY DeskAssumption
<1>3. QED
  BY <1>1, <1>2 DEF Par

\* The tracker's row is a snap.
LEMMA SnapTyped ==
  ASSUME TypeOK, NEW t \in Trades, quote[t] # None
  PROVE  NewSnap(t) \in Snap
<1>1. JudgedNoGo(t) \in BOOLEAN
  <2>1. gateCache \in BOOLEAN \union {None}
    BY DEF TypeOK
  <2>2. CASE gateCache = None
    BY <2>2 DEF JudgedNoGo
  <2>3. CASE gateCache # None
    <3>1. gateCache \in BOOLEAN
      BY <2>1, <2>3
    <3>2. QED
      BY <2>3, <3>1 DEF JudgedNoGo
  <2>4. QED
    BY <2>2, <2>3
<1>2. Trail(t, quote[t].ltp) \in Nat /\ ThetaStop(t) \in Nat
  BY TrailTyped, ThetaStopTyped
<1>3. now \in Times
  BY DEF TypeOK
<1>4. QED
  BY <1>1, <1>2, <1>3, QuoteTyped DEF NewSnap, Snap, AtLeast

\* The tracker exits for a reason of its own, or not at all.
LEMMA ReasonTyped ==
  ASSUME NEW t, NEW snap, NEW sustained
  PROVE  ExitReason(t, snap, sustained) \in TrackerReasons \union {""}
BY DEF ExitReason, TrackerReasons

\* Every closed shadow has an outcome.
LEMMA OutcomeTyped == ASSUME NEW ltp PROVE Outcome(ltp) \in Outcomes
BY DEF Outcome, Outcomes

\* Buffered rows become journal rows.
LEMMA CommitTyped ==
  ASSUME TypeOK
  PROVE  Flushed \in [Trades -> Seq(Snap)] /\ [t \in Trades |-> <<>>] \in [Trades -> Seq(Snap)]
<1>1. Flushed \in [Trades -> Seq(Snap)]
  BY SeenTyped DEF Flushed
<1>2. QED
  BY <1>1

\* The initial state is typed.
LEMMA TypeInit == Init => TypeOK
<1> SUFFICES ASSUME Init PROVE TypeOK
  OBVIOUS
<1>1. trade \in [Trades -> TradeRecord]
  BY TimesAreNat DEF Init, NoTrade, Sides, TradeRecord
<1>2. snaps \in [Trades -> Seq(Snap)] /\ buffer \in [Trades -> Seq(Snap)]
  BY DEF Init
<1>3. QED
  BY <1>1, <1>2 DEF Init, TypeOK

\* A trade that moves on, or is closed, stays a trade.
LEMMA RecordTyped ==
  ASSUME NEW r \in TradeRecord,
         NEW s \in {"GENERATED", "ACCEPTED", "REJECTED", "EXPIRED", "CLOSED"},
         NEW why \in TrackerReasons \union {"", "MANUAL_EXIT", "EOD_FORCE"},
         NEW price \in Nat
  PROVE  /\ [r EXCEPT !.status = s] \in TradeRecord
         /\ [r EXCEPT !.status = s, !.reason = why, !.exit = price] \in TradeRecord
BY DEF TradeRecord

\* Variables keep their types.
LEMMA TypeStep == TypeOK /\ [Next]_vars => TypeOK'
<1> SUFFICES ASSUME TypeOK, [Next]_vars PROVE TypeOK'
  OBVIOUS
<1>1. CASE Advance
  <2> DEFINE Coming == {s \in Snaps : s > now}
  <2>1. now \in Times /\ now # EOD_SWEEP_TIME
    BY <1>1 DEF Advance, TypeOK
  <2>2. Snaps \subseteq Times /\ EOD_SWEEP_TIME \in Snaps
    BY DeskAssumption DEF Snaps
  <2>3. Coming \in SUBSET Nat
    BY <2>2, TimesAreNat
  <2>4. EOD_SWEEP_TIME \in Coming
    BY <2>1, <2>2, DeskAssumption
  <2>5. Min(Coming) \in Coming
    BY <2>3, <2>4, MinInSet
  <2>6. now' \in Times
    BY <1>1, <2>2, <2>5 DEF Advance
  <2>7. QED
    BY <1>1, <2>6 DEF Advance, view, journal, TypeOK
<1>2. CASE TickStart
  <2>1. market' \in Opening \union {Dead}
    BY <1>2, DeskAssumption DEF TickStart
  <2>2. market' # None => IsMarket(market')
    BY <2>1, DeskAssumption
  <2>3. trade' \in [Trades -> TradeRecord]
    <3>1. \A t \in Trades : [trade[t] EXCEPT !.status = "EXPIRED"] \in TradeRecord
      BY RecordTyped DEF TypeOK
    <3>2. QED
      BY <1>2, <3>1 DEF TickStart, TypeOK
  <2>4. snaps' \in [Trades -> Seq(Snap)] /\ buffer' \in [Trades -> Seq(Snap)]
    BY <1>2, CommitTyped DEF TickStart, Commit, TypeOK
  <2>5. QED
    BY <1>2, <2>2, <2>3, <2>4 DEF TickStart, TypeOK
<1>3. CASE GateCache
  BY <1>3 DEF GateCache, clock, journal, TypeOK
<1>4. CASE Recommend
  <2>1. CASE Decline
    BY <1>4, <2>1 DEF Recommend, Decline, clock, TypeOK
  <2>2. ASSUME NEW t \in Trades, Issue(t) PROVE TypeOK'
    <3>1. PICK card \in Cards(market, now) :
            trade' = [trade EXCEPT ![t] = [NoTrade EXCEPT !.status = "GENERATED",
                         !.side = card.side, !.time = now]]
      BY <2>2 DEF Issue
    <3>2. card.side \in Sides
      BY CardSides
    <3>3. trade' \in [Trades -> TradeRecord]
      BY <3>1, <3>2 DEF NoTrade, TradeRecord, TypeOK
    <3>4. snaps' \in [Trades -> Seq(Snap)] /\ buffer' \in [Trades -> Seq(Snap)]
      BY <2>2, CommitTyped DEF Issue, Commit
    <3>5. quote' \in [Trades -> Quotes \union {Par, None}]
      BY <2>2 DEF Issue, TypeOK
    <3>6. QED
      BY <1>4, <3>3, <3>4, <3>5 DEF Recommend, clock, TypeOK
  <2>3. QED
    BY <1>4, <2>1, <2>2 DEF Recommend
<1>5. ASSUME NEW t \in Trades, Track(t) PROVE TypeOK'
  <2> DEFINE snap == NewSnap(t)
             reason == ExitReason(t, snap, Sustained(Append(Seen(t), snap)))
  <2>1. snap \in Snap
    BY <1>5, SnapTyped DEF Track
  <2>2. reason \in TrackerReasons \union {""}
    BY ReasonTyped
  <2>3. Tracked(t, snap, reason) /\ phase' = "shadows"
    BY <1>5 DEF Track
  <2> HIDE DEF snap, reason
  <2>4. trade' \in [Trades -> TradeRecord]
    <3>1. snap.ltp \in Nat
      BY <2>1 DEF Snap
    <3>2. /\ trade[t] \in TradeRecord /\ trade[t].exit \in Nat
          /\ trade[t].status
               \in {"FREE", "GENERATED", "ACCEPTED", "REJECTED", "EXPIRED", "CLOSED"}
      BY DEF TypeOK, TradeRecord
    <3>3. trade'[t] \in TradeRecord
      BY <2>2, <2>3, <3>1, <3>2 DEF Tracked, TypeOK, TradeRecord
    <3>4. QED
      BY <2>3, <3>3 DEF Tracked, TypeOK
  <2>5. snaps' \in [Trades -> Seq(Snap)]
    <3>1. Append(Flushed[t], snap) \in Seq(Snap)
      BY <2>1, CommitTyped
    <3>2. QED
      BY <2>3, <3>1, CommitTyped DEF Tracked
  <2>6. buffer' \in [Trades -> Seq(Snap)]
    BY <2>3, CommitTyped DEF Tracked, Commit
  <2>7. QED
    BY <1>5, <2>4, <2>5, <2>6 DEF Track, clock, view, TypeOK
<1>6. ASSUME NEW t \in Trades, TrackFails(t) PROVE TypeOK'
  <2>1. NewSnap(t) \in Snap
    BY <1>6, SnapTyped DEF TrackFails
  <2>2. Append(buffer[t], NewSnap(t)) \in Seq(Snap)
    BY <2>1 DEF TypeOK
  <2>3. buffer' \in [Trades -> Seq(Snap)]
    BY <1>6, <2>2 DEF TrackFails, TypeOK
  <2>4. QED
    BY <1>6, <2>3 DEF TrackFails, clock, TypeOK
<1>7. CASE TrackNothing
  BY <1>7, CommitTyped DEF TrackNothing, Commit, clock, view, TypeOK
<1>8. CASE TrackShadows
  <2>1. shadow' \in [Trades -> {"none", "open"} \union Outcomes]
    BY <1>8, OutcomeTyped DEF TrackShadows, TypeOK
  <2>2. QED
    BY <1>8, <2>1 DEF TrackShadows, clock, TypeOK
<1>9. CASE Sweep
  <2>1. \A t \in Trades : quote[t] # None => quote[t].ltp \in Nat
    BY QuoteTyped
  <2>2. trade' \in [Trades -> TradeRecord]
    <3> DEFINE price(t) == IF quote[t] = None THEN Premium ELSE quote[t].ltp
    <3>1. \A t \in Trades : price(t) \in Nat
      BY <2>1, DeskAssumption
    <3>2. \A t \in Trades :
            /\ [trade[t] EXCEPT !.status = "EXPIRED"] \in TradeRecord
            /\ [trade[t] EXCEPT !.status = "CLOSED", !.reason = "EOD_FORCE",
                                !.exit = price(t)] \in TradeRecord
      BY <3>1, RecordTyped DEF TypeOK
    <3>3. QED
      BY <1>9, <3>2 DEF Sweep, TypeOK
  <2>3. snaps' \in [Trades -> Seq(Snap)] /\ buffer' \in [Trades -> Seq(Snap)]
    BY <1>9, CommitTyped DEF Sweep, Commit, TypeOK
  <2>4. shadow' \in [Trades -> {"none", "open"} \union Outcomes]
    <3>1. \A t \in Trades :
            Outcome(IF quote[t] = None THEN Premium ELSE quote[t].ltp) \in Outcomes
      BY OutcomeTyped
    <3>2. QED
      BY <1>9, <3>1 DEF Sweep, TypeOK
  <2>5. QED
    BY <1>9, <2>2, <2>3, <2>4 DEF Sweep, view, TypeOK
<1>10. CASE Crash
  BY <1>10 DEF Crash, Commit, clock, journal, TypeOK
<1>11. ASSUME NEW t \in Trades, Accept(t) \/ Reject(t) \/ Close(t) PROVE TypeOK'
  <2>1. quote[t] # None => quote[t].ltp \in Nat
    BY QuoteTyped
  <2>2. trade' \in [Trades -> TradeRecord]
    <3> DEFINE price == IF quote[t] = None THEN Premium ELSE quote[t].ltp
    <3>1. price \in Nat
      BY <2>1, DeskAssumption
    <3>2. /\ [trade[t] EXCEPT !.status = "ACCEPTED"] \in TradeRecord
          /\ [trade[t] EXCEPT !.status = "REJECTED"] \in TradeRecord
          /\ [trade[t] EXCEPT !.status = "CLOSED", !.reason = "MANUAL_EXIT",
                              !.exit = price] \in TradeRecord
      BY <3>1, RecordTyped DEF TypeOK
    <3>3. QED
      BY <1>11, <3>2 DEF Accept, Reject, Close, TypeOK
  <2>3. QED
    BY <1>11, <2>2 DEF Accept, Reject, Close, clock, view, TypeOK
<1>12. CASE UNCHANGED vars
  BY <1>12 DEF vars, clock, view, journal, TypeOK
<1>13. QED
  BY <1>1, <1>2, <1>3, <1>4, <1>5, <1>6, <1>7, <1>8, <1>9, <1>10, <1>11, <1>12
     DEF Next, Tick

\* Every variable keeps its type, for any market and any number of cards.
THEOREM DeskTypes == Spec => []TypeOK
BY TypeInit, TypeStep, PTL DEF Spec
-----------------------------------------------------------------------------
(* Exits.                                                                  *)

\* What is said about an exit concerns one trade and its rows.
Recorded(t) ==
    trade[t].reason \in TrackerReasons =>
        /\ snaps[t] # <<>> /\ Last(snaps[t]).ltp = trade[t].exit
        /\ buffer[t] = <<>>

Sustains(t) ==
    trade[t].reason = "GATE_NO_GO" =>
        /\ Len(snaps[t]) >= 2
        /\ snaps[t][Len(snaps[t])].noGo /\ snaps[t][Len(snaps[t]) - 1].noGo

ExitSound(t) == Recorded(t) /\ Sustains(t)

\* A reason is given with the exit, and only then.
OnlyClosedHaveReason == \A t \in Trades : trade[t].reason # "" => trade[t].status = "CLOSED"

ExitInv ==
    /\ TypeOK
    /\ OnlyClosedHaveReason
    /\ \A t \in Trades : ExitSound(t)

\* No step but a trade's own exit gives it a tracker's reason, and a trade that
\* has one is left alone together with its rows.
Kept(t) ==
    trade'[t].reason \in TrackerReasons =>
        trade'[t] = trade[t] /\ snaps'[t] = snaps[t] /\ buffer'[t] = buffer[t]

\* A trade that is left alone stays sound.
LEMMA KeptIsSound ==
  ASSUME NEW t \in Trades, ExitSound(t), Kept(t)
  PROVE  ExitSound(t)'
<1>1. CASE trade'[t].reason \in TrackerReasons
  BY <1>1 DEF Kept, ExitSound, Recorded, Sustains
<1>2. CASE trade'[t].reason \notin TrackerReasons
  BY <1>2 DEF ExitSound, Recorded, Sustains, TrackerReasons
<1>3. QED
  BY <1>1, <1>2

\* A commit leaves the rows of a closed trade as they are.
LEMMA CommitKeeps ==
  ASSUME ExitInv, NEW t \in Trades, trade[t].reason \in TrackerReasons
  PROVE  buffer[t] = <<>> /\ Flushed[t] = snaps[t] /\ trade[t].status = "CLOSED"
<1>1. buffer[t] = <<>> /\ trade[t].status = "CLOSED"
  BY DEF ExitInv, ExitSound, Recorded, OnlyClosedHaveReason,
         TrackerReasons
<1>2. snaps[t] \in Seq(Snap)
  BY DEF ExitInv, TypeOK
<1>3. QED
  BY <1>1, <1>2, ConcatEmptySeq DEF Flushed

\* A reason comes with the status CLOSED.
Consistent(r) == r.reason # "" => r.status = "CLOSED"

\* Steps other than an exit leave closed trades alone.
LEMMA OthersKeep ==
  ASSUME ExitInv, [Next]_vars, \A u \in Trades : ~Track(u), NEW t \in Trades
  PROVE  Kept(t) /\ Consistent(trade'[t])
<1>0. /\ trade \in [Trades -> TradeRecord]
      /\ buffer \in [Trades -> Seq(Snap)] /\ snaps \in [Trades -> Seq(Snap)]
      /\ Consistent(trade[t])
  BY DEF ExitInv, TypeOK, OnlyClosedHaveReason, Consistent
<1>1. trade[t].reason \in TrackerReasons =>
        buffer[t] = <<>> /\ Flushed[t] = snaps[t] /\ trade[t].status = "CLOSED"
  BY CommitKeeps
<1>2. CASE Advance \/ GateCache \/ TrackShadows \/ UNCHANGED vars
  BY <1>0, <1>2 DEF Advance, GateCache, TrackShadows, journal, vars, Kept
<1>3. CASE TickStart
  BY <1>0, <1>1, <1>3
     DEF TickStart, InStatus, Commit, TradeRecord, Kept, Consistent
<1>4. CASE Recommend
  <2>1. CASE Decline
    BY <1>0, <2>1 DEF Decline, Kept
  <2>2. ASSUME NEW u \in Trades, Issue(u) PROVE Kept(t) /\ Consistent(trade'[t])
    <3>1. snaps' = Flushed /\ buffer'[t] = <<>>
      BY <2>2 DEF Issue, Commit
    <3>2. CASE t = u
      <4>1. trade'[t].reason = ""
        BY <1>0, <2>2, <3>2 DEF Issue, NoTrade
      <4>2. QED
        BY <4>1 DEF Kept, Consistent, TrackerReasons
    <3>3. CASE t # u
      <4>1. trade'[t] = trade[t]
        BY <2>2, <3>3 DEF Issue
      <4>2. QED
        BY <1>0, <1>1, <3>1, <4>1 DEF Kept
    <3>4. QED
      BY <3>2, <3>3
  <2>3. QED
    BY <1>4, <2>1, <2>2 DEF Recommend
<1>5. ASSUME NEW u \in Trades, TrackFails(u) PROVE Kept(t) /\ Consistent(trade'[t])
  BY <1>0, <1>1, <1>5 DEF TrackFails, InStatus, Kept
<1>6. CASE TrackNothing
  BY <1>0, <1>1, <1>6 DEF TrackNothing, Commit, Kept
<1>7. CASE Sweep
  <2>1. buffer'[t] = <<>> /\ (snaps' = Flushed \/ snaps' = snaps)
    BY <1>7 DEF Sweep, Commit
  <2>2. \/ trade'[t] = trade[t]
        \/ trade[t].status = "GENERATED" /\ trade'[t] = [trade[t] EXCEPT !.status = "EXPIRED"]
        \/ trade'[t].reason = "EOD_FORCE" /\ trade'[t].status = "CLOSED"
    <3>1. CASE trade' = trade
      BY <3>1
    <3>2. CASE trade' # trade
      <4>1. trade[t] \in TradeRecord
        BY <1>0
      <4>2. trade'[t] =
              IF trade[t].status = "GENERATED" THEN [trade[t] EXCEPT !.status = "EXPIRED"]
              ELSE IF trade[t].status = "ACCEPTED"
              THEN [trade[t] EXCEPT !.status = "CLOSED", !.reason = "EOD_FORCE",
                      !.exit = IF quote[t] = None THEN Premium ELSE quote[t].ltp]
              ELSE trade[t]
        BY <1>7, <3>2 DEF Sweep
      <4>3. CASE trade[t].status = "ACCEPTED"
        BY <4>1, <4>2, <4>3 DEF TradeRecord
      <4>4. CASE trade[t].status # "ACCEPTED"
        BY <4>2
      <4>5. QED
        BY <4>3, <4>4
    <3>3. QED
      BY <3>2
  <2>3. CASE trade'[t] = trade[t]
    BY <1>0, <1>1, <2>1, <2>3 DEF Kept
  <2>4. CASE /\ trade[t].status = "GENERATED"
             /\ trade'[t] = [trade[t] EXCEPT !.status = "EXPIRED"]
    <3>1. trade'[t].reason = ""
      BY <1>0, <2>4 DEF Consistent, TradeRecord
    <3>2. QED
      BY <3>1 DEF Kept, Consistent, TrackerReasons
  <2>5. CASE trade'[t].reason = "EOD_FORCE" /\ trade'[t].status = "CLOSED"
    BY <2>5 DEF Kept, Consistent, TrackerReasons
  <2>6. QED
    BY <2>2, <2>3, <2>4, <2>5
<1>8. CASE Crash
  BY <1>0, <1>1, <1>8 DEF Crash, Commit, journal, Kept
<1>9. ASSUME NEW u \in Trades, Accept(u) \/ Reject(u) \/ Close(u)
      PROVE  Kept(t) /\ Consistent(trade'[t])
  <2>1. snaps' = snaps /\ buffer' = buffer
    BY <1>9 DEF Accept, Reject, Close
  <2>2. CASE t = u
    <3>1. CASE Accept(t) \/ Reject(t)
      <4>1. trade[t].reason = ""
        BY <1>0, <3>1 DEF Accept, Reject, Consistent
      <4>2. trade'[t].reason = ""
        BY <1>0, <3>1, <4>1 DEF Accept, Reject, TradeRecord
      <4>3. QED
        BY <4>2 DEF Kept, Consistent, TrackerReasons
    <3>2. CASE Close(t)
      <4>1. trade'[t].reason = "MANUAL_EXIT" /\ trade'[t].status = "CLOSED"
        BY <1>0, <3>2 DEF Close, TradeRecord
      <4>2. QED
        BY <4>1 DEF Kept, Consistent, TrackerReasons
    <3>3. QED
      BY <1>9, <2>2, <3>1, <3>2
  <2>3. CASE t # u
    <3>1. trade'[t] = trade[t]
      BY <1>0, <1>9, <2>3 DEF Accept, Reject, Close
    <3>2. QED
      BY <1>0, <2>1, <3>1 DEF Kept
  <2>4. QED
    BY <2>2, <2>3
<1>10. QED
  BY <1>2, <1>3, <1>4, <1>5, <1>6, <1>7, <1>8, <1>9 DEF Next, Tick

\* The tracker's step leaves the other trades alone.
LEMMA TrackKeepsOthers ==
  ASSUME ExitInv, NEW u \in Trades, Track(u), NEW t \in Trades, t # u
  PROVE  Kept(t) /\ Consistent(trade'[t])
<1>1. /\ trade \in [Trades -> TradeRecord]
      /\ Consistent(trade[t])
  BY DEF ExitInv, TypeOK, OnlyClosedHaveReason, Consistent
<1>2. trade'[t] = trade[t] /\ snaps'[t] = Flushed[t] /\ buffer'[t] = <<>>
  BY <1>1 DEF Track, Tracked, Commit, Flushed
<1>3. QED
  BY <1>1, <1>2, CommitKeeps DEF Kept

\* The tracker's exit is sound: it is recorded, and a NO_GO that causes it sustained.
LEMMA TrackIsSound ==
  ASSUME ExitInv, NEW t \in Trades, Track(t)
  PROVE  ExitSound(t)' /\ Consistent(trade'[t])
<1> DEFINE snap == NewSnap(t)
           rows == Append(Seen(t), snap)
           reason == ExitReason(t, snap, Sustained(rows))
<1>1. TypeOK /\ trade \in [Trades -> TradeRecord] /\ quote[t] # None
      /\ trade[t].reason = ""
  BY DEF ExitInv, TypeOK, OnlyClosedHaveReason, Track, InStatus
<1>2. snap \in Snap
  BY <1>1, SnapTyped
<1>3. /\ Seen(t) \in Seq(Snap)
      /\ rows \in Seq(Snap) /\ rows # <<>> /\ Len(rows) = Len(Seen(t)) + 1
      /\ Last(rows) = snap /\ \A i \in 1 .. Len(Seen(t)) : rows[i] = Seen(t)[i]
  <2>1. Seen(t) \in Seq(Snap)
    BY <1>1, SeenTyped
  <2>2. QED
    BY <1>2, <2>1, AppendProperties DEF Last
<1>4. snaps'[t] = rows /\ buffer'[t] = <<>>
  BY <1>1, SeenTyped DEF Track, Tracked, Commit, Flushed
<1>5. reason \in TrackerReasons \union {""}
  BY ReasonTyped
<1>6. /\ trade'[t].reason = reason
      /\ reason # "" => trade'[t].exit = snap.ltp /\ trade'[t].status = "CLOSED"
  BY <1>1 DEF Track, Tracked, TradeRecord
<1> HIDE DEF snap, rows
<1>7. ASSUME reason = "GATE_NO_GO"
      PROVE  Len(rows) >= 2 /\ rows[Len(rows)].noGo /\ rows[Len(rows) - 1].noGo
  <2>1. Sustained(rows)
    BY <1>7 DEF ExitReason
  <2>2. QED
    BY <2>1 DEF Sustained, GATE_SUSTAINED_NO_GO_SNAPS
<1> HIDE DEF reason
<1>8. Recorded(t)'
  BY <1>3, <1>4, <1>5, <1>6 DEF Recorded, TrackerReasons
<1>9. Sustains(t)'
  BY <1>4, <1>6, <1>7 DEF Sustains
<1>10. QED
  BY <1>5, <1>6, <1>8, <1>9 DEF ExitSound, Consistent

\* Nothing is closed at first.
LEMMA ExitInit == Init => ExitInv
<1> SUFFICES ASSUME Init PROVE ExitInv
  OBVIOUS
<1>1. \A t \in Trades : trade[t].reason = ""
  BY DEF Init, NoTrade
<1>2. \A t \in Trades : ExitSound(t)
  BY <1>1 DEF ExitSound, Recorded, Sustains, TrackerReasons
<1>3. QED
  BY <1>1, <1>2, TypeInit DEF ExitInv, OnlyClosedHaveReason

\* Every step keeps exits sound.
LEMMA ExitStep == ExitInv /\ [Next]_vars => ExitInv'
<1> SUFFICES ASSUME ExitInv, [Next]_vars PROVE ExitInv'
  OBVIOUS
<1>1. TypeOK'
  BY TypeStep DEF ExitInv
<1>2. ASSUME NEW t \in Trades PROVE ExitSound(t)' /\ Consistent(trade'[t])
  <2>1. ExitSound(t)
    BY DEF ExitInv
  <2>2. CASE \A u \in Trades : ~Track(u)
    BY <2>1, <2>2, OthersKeep, KeptIsSound
  <2>3. ASSUME NEW u \in Trades, Track(u) PROVE ExitSound(t)' /\ Consistent(trade'[t])
    <3>1. CASE t = u
      BY <2>3, <3>1, TrackIsSound
    <3>2. CASE t # u
      BY <2>1, <2>3, <3>2, TrackKeepsOthers, KeptIsSound
    <3>3. QED
      BY <3>1, <3>2
  <2>4. QED
    BY <2>2, <2>3
<1>3. QED
  BY <1>1, <1>2 DEF ExitInv, OnlyClosedHaveReason, Consistent

\* Exits are sound in every behaviour.
LEMMA ExitsAreSound == Spec => []ExitInv
BY ExitInit, ExitStep, PTL DEF Spec

\* The tracker's exit is in the journal with its snap, for any market, any
\* requests, failures and crashes.
THEOREM ExitsRecorded == Spec => []ExitIsRecorded
<1>1. ExitInv => ExitIsRecorded
  BY DEF ExitInv, ExitSound, Recorded, ExitIsRecorded, OnlyClosedHaveReason,
         TrackerReasons
<1>2. QED
  BY <1>1, ExitsAreSound, PTL

\* Two NO_GO snaps of the position itself precede an exit for NO_GO.
THEOREM NoGoIsSustained == Spec => []SustainedNoGo
<1>1. ExitInv => SustainedNoGo
  BY DEF ExitInv, ExitSound, Sustains, SustainedNoGo, ClosedBy
<1>2. QED
  BY <1>1, ExitsAreSound, PTL

-----------------------------------------------------------------------------
(* Stops.  The rows the scheduler sees of a trade, committed or not, are   *)
(* appended one by one, and a crash takes the last ones away: what each    *)
(* row was computed from are exactly the rows before it.                   *)

\* No card comes from a later time.
CardsArePast == \A t \in Trades : trade[t].status # "FREE" => trade[t].time <= now

\* A stop is at most the premium, or nine tenths of an earlier quote.
Bounded(rows) ==
    \A j \in DOMAIN rows :
        \/ rows[j].stop <= Premium
        \/ \E i \in DOMAIN rows : i < j /\ 10 * rows[j].stop <= 9 * rows[i].ltp

Rising(rows) ==
    \A i, j \in DOMAIN rows :
        i < j /\ InGain(rows[i].ltp) /\ InGain(rows[j].ltp) => rows[i].stop <= rows[j].stop

StopInv ==
    /\ TypeOK
    /\ CardsArePast
    /\ \A t \in Trades : Bounded(Seen(t)) /\ Rising(Seen(t))

\* A gain that lets the stop trail is more than a ninth of the premium.
LEMMA GainIsLarge ==
  ASSUME NEW ltp \in Nat, InGain(ltp)
  PROVE  (9 * ltp) \div 10 >= Premium
<1>1. Premium \in Nat \ {0}
  BY DeskAssumption
<1>2. Pnl(ltp) >= 2000
  BY DEF InGain, TRAILING_STOP_ACTIVATION
<1>3. 2 * (10000 * (ltp - Premium)) + Premium >= 2000 * (2 * Premium)
  BY <1>1, <1>2, Rounded DEF Pnl
<1>4. 9 * ltp >= 10 * Premium
  BY <1>1, <1>3
<1>5. QED
  BY <1>1, <1>4

\* Taking rows away from the end keeps the rest as it was.
LEMMA PrefixIsSound ==
  ASSUME NEW s \in Seq(Snap), NEW r \in Seq(Snap), Bounded(s \o r), Rising(s \o r)
  PROVE  Bounded(s) /\ Rising(s)
<1>1. /\ DOMAIN s = 1 .. Len(s) /\ Len(s) \in Nat /\ Len(r) \in Nat
      /\ DOMAIN (s \o r) = 1 .. Len(s) + Len(r)
      /\ \A i \in DOMAIN s : i \in DOMAIN (s \o r) /\ (s \o r)[i] = s[i]
  BY ConcatProperties, LenProperties
<1>2. \A i \in DOMAIN (s \o r) : \A j \in DOMAIN s : i < j => i \in DOMAIN s
  BY <1>1
<1>3. Bounded(s)
  BY <1>1, <1>2 DEF Bounded
<1>4. Rising(s)
  BY <1>1 DEF Rising
<1>5. QED
  BY <1>3, <1>4

\* The tracker's next row keeps stops bounded and rising.
LEMMA NextRowIsSound ==
  ASSUME StopInv, NEW t \in Trades, quote[t] # None, trade[t].status # "FREE"
  PROVE  LET rows == Append(Seen(t), NewSnap(t)) IN Bounded(rows) /\ Rising(rows)
<1> DEFINE old  == Seen(t)
           snap == NewSnap(t)
           rows == Append(old, snap)
           n    == Len(old)
           ltp  == quote[t].ltp
<1>1. TypeOK /\ Bounded(old) /\ Rising(old) /\ trade[t].time <= now
  BY DEF StopInv, CardsArePast
<1>2. old \in Seq(Snap) /\ snap \in Snap
  BY <1>1, SeenTyped, SnapTyped
<1>3. /\ n \in Nat /\ DOMAIN old = 1 .. n /\ DOMAIN rows = 1 .. n + 1
      /\ rows[n + 1] = snap /\ \A i \in 1 .. n : rows[i] = old[i]
  BY <1>2, AppendProperties, LenProperties
<1>4. \A i \in 1 .. n : old[i].ltp \in Nat /\ old[i].stop \in Nat
  <2>1. \A i \in 1 .. n : old[i] \in Snap
    BY <1>2, ElementOfSeq
  <2>2. QED
    BY <2>1 DEF Snap
<1>5. /\ snap.ltp = ltp /\ snap.stop = AtLeast(Trail(t, ltp), ThetaStop(t))
      /\ ltp \in Nat /\ Premium \in Nat
  BY <1>1, QuoteTyped, DeskAssumption DEF NewSnap
<1>6. /\ Trail(t, ltp) \in Nat
      /\ \/ Trail(t, ltp) = 0
         \/ \E i \in 1 .. n : 10 * Trail(t, ltp) <= 9 * old[i].ltp
      /\ InGain(ltp) => \A i \in 1 .. n : (9 * old[i].ltp) \div 10 <= Trail(t, ltp)
  BY <1>1, TrailTyped
<1>7. ThetaStop(t) \in Nat /\ ThetaStop(t) <= Premium
  BY <1>1, ThetaStopTyped
<1> HIDE DEF old, snap, rows, n, ltp
<1>8. /\ snap.stop \in Nat /\ Trail(t, ltp) <= snap.stop
      /\ \/ snap.stop <= Premium
         \/ \E i \in 1 .. n : 10 * snap.stop <= 9 * old[i].ltp
  BY <1>5, <1>6, <1>7 DEF AtLeast
<1>9. Bounded(rows)
  <2>1. ASSUME NEW j \in 1 .. n
        PROVE  \/ rows[j].stop <= Premium
               \/ \E i \in DOMAIN rows : i < j /\ 10 * rows[j].stop <= 9 * rows[i].ltp
    <3>1. \/ old[j].stop <= Premium
          \/ \E i \in 1 .. n : i < j /\ 10 * old[j].stop <= 9 * old[i].ltp
      BY <1>1, <1>3 DEF Bounded
    <3>2. QED
      BY <1>3, <3>1
  <2>2. \/ rows[n + 1].stop <= Premium
        \/ \E i \in DOMAIN rows : i < n + 1 /\ 10 * rows[n + 1].stop <= 9 * rows[i].ltp
    BY <1>3, <1>8
  <2>3. QED
    BY <1>3, <2>1, <2>2 DEF Bounded
<1>10. ASSUME NEW i \in 1 .. n, InGain(old[i].ltp), InGain(ltp)
       PROVE  old[i].stop <= snap.stop
  <2>1. CASE old[i].stop <= Premium
    <3>1. (9 * old[i].ltp) \div 10 >= Premium
      BY <1>4, <1>10, GainIsLarge
    <3>2. (9 * old[i].ltp) \div 10 <= Trail(t, ltp) /\ (9 * old[i].ltp) \div 10 \in Int
      BY <1>4, <1>6, <1>10
    <3>3. QED
      BY <1>4, <1>5, <1>6, <1>8, <2>1, <3>1, <3>2
  <2>2. CASE ~(old[i].stop <= Premium)
    <3>1. PICK k \in 1 .. n : 10 * old[i].stop <= 9 * old[k].ltp
      BY <1>1, <1>3, <2>2 DEF Bounded
    <3>2. \A x, y \in Nat : 10 * x <= 9 * y => x <= (9 * y) \div 10 /\ (9 * y) \div 10 \in Int
      OBVIOUS
    <3>3. old[i].stop <= (9 * old[k].ltp) \div 10 /\ (9 * old[k].ltp) \div 10 \in Int
      BY <1>4, <3>1, <3>2
    <3>4. (9 * old[k].ltp) \div 10 <= Trail(t, ltp)
      BY <1>6, <1>10
    <3>5. QED
      BY <1>4, <1>6, <1>8, <3>3, <3>4
  <2>3. QED
    BY <2>1, <2>2
<1>11. Rising(rows)
  <2> SUFFICES ASSUME NEW i \in DOMAIN rows, NEW j \in DOMAIN rows, i < j,
                      InGain(rows[i].ltp), InGain(rows[j].ltp)
               PROVE  rows[i].stop <= rows[j].stop
    BY DEF Rising
  <2>1. i \in 1 .. n
    BY <1>3
  <2>2. CASE j = n + 1
    BY <1>3, <1>5, <1>10, <2>1, <2>2
  <2>3. CASE j # n + 1
    <3>1. j \in 1 .. n
      BY <1>3, <2>3
    <3>2. QED
      BY <1>1, <1>3, <2>1, <3>1 DEF Rising
  <2>4. QED
    BY <2>2, <2>3
<1>12. QED
  BY <1>9, <1>11 DEF old, snap, rows

\* The rows that are seen stay, lose the uncommitted ones or get the next one.
LEMMA SeenMoves ==
  ASSUME TypeOK, [Next]_vars, NEW t \in Trades
  PROVE  \/ Seen(t)' = Seen(t)
         \/ Seen(t)' = snaps[t]
         \/ /\ Seen(t)' = Append(Seen(t), NewSnap(t))
            /\ quote[t] # None /\ trade[t].status # "FREE"
<1>0. /\ snaps[t] \in Seq(Snap) /\ buffer[t] \in Seq(Snap)
      /\ Seen(t) \in Seq(Snap) /\ Flushed[t] = Seen(t)
      /\ Seen(t) = snaps[t] \o buffer[t] /\ Seen(t)' = snaps'[t] \o buffer'[t]
  BY SeenTyped DEF TypeOK, Seen
<1>1. CASE snaps'[t] = snaps[t] /\ buffer'[t] = buffer[t]
  BY <1>0, <1>1
<1>2. CASE snaps' = Flushed /\ Commit
  BY <1>0, <1>2, ConcatEmptySeq DEF Commit
<1>3. CASE snaps' = snaps /\ Commit
  BY <1>0, <1>3, ConcatEmptySeq DEF Commit
<1>4. CASE Advance \/ GateCache \/ TrackShadows \/ UNCHANGED vars
  BY <1>1, <1>4 DEF Advance, GateCache, TrackShadows, journal, vars
<1>5. CASE TickStart
  BY <1>1, <1>2, <1>5 DEF TickStart
<1>6. CASE Recommend
  BY <1>1, <1>2, <1>6 DEF Recommend, Decline, Issue
<1>7. ASSUME NEW u \in Trades, Track(u)
      PROVE  \/ Seen(t)' = Seen(t)
             \/ /\ Seen(t)' = Append(Seen(t), NewSnap(t))
                /\ quote[t] # None /\ trade[t].status # "FREE"
  <2> DEFINE snap == NewSnap(u)
             reason == ExitReason(u, snap, Sustained(Append(Seen(u), snap)))
  <2>1. Tracked(u, snap, reason) /\ quote[u] # None /\ trade[u].status # "FREE"
    BY <1>7 DEF Track, InStatus
  <2> HIDE DEF reason
  <2>2. snaps' = [Flushed EXCEPT ![u] = Append(@, snap)] /\ buffer'[t] = <<>>
    BY <2>1 DEF Tracked, Commit
  <2>3. snaps'[t] = IF t = u THEN Append(Seen(t), NewSnap(t)) ELSE Seen(t)
    BY <1>0, <2>2 DEF Flushed
  <2>4. snaps'[t] \in Seq(Snap)
    BY <1>0, <2>1, <2>3, SnapTyped
  <2>5. Seen(t)' = snaps'[t]
    BY <1>0, <2>2, <2>4, ConcatEmptySeq
  <2>6. QED
    BY <2>1, <2>3, <2>5
<1>8. ASSUME NEW u \in Trades, TrackFails(u)
      PROVE  \/ Seen(t)' = Seen(t)
             \/ /\ Seen(t)' = Append(Seen(t), NewSnap(t))
                /\ quote[t] # None /\ trade[t].status # "FREE"
  <2>1. snaps' = snaps /\ quote[u] # None /\ trade[u].status # "FREE"
        /\ buffer' = [buffer EXCEPT ![u] = Append(@, NewSnap(u))]
    BY <1>8 DEF TrackFails, InStatus
  <2>2. CASE t = u
    <3>1. NewSnap(t) \in Snap
      BY <2>1, <2>2, SnapTyped
    <3>2. buffer'[t] = Append(buffer[t], NewSnap(t))
      BY <2>1, <2>2 DEF TypeOK
    <3> DEFINE new == NewSnap(t)
    <3> HIDE DEF new
    <3>3. snaps[t] \o Append(buffer[t], new) = Append(snaps[t] \o buffer[t], new)
      <4>1. new \in Snap /\ <<new>> \in Seq(Snap) /\ snaps[t] \o buffer[t] \in Seq(Snap)
        BY <1>0, <3>1 DEF new
      <4>2. /\ Append(buffer[t], new) = buffer[t] \o <<new>>
            /\ Append(snaps[t] \o buffer[t], new) = (snaps[t] \o buffer[t]) \o <<new>>
        BY <1>0, <4>1, AppendIsConcat
      <4>3. (snaps[t] \o buffer[t]) \o <<new>> = snaps[t] \o (buffer[t] \o <<new>>)
        <5>1. \A a, b, c \in Seq(Snap) : (a \o b) \o c = a \o (b \o c)
          BY ConcatAssociative
        <5>2. QED
          BY <1>0, <4>1, <5>1, Zenon
      <4>4. QED
        BY <4>2, <4>3
    <3>4. QED
      BY <1>0, <2>1, <2>2, <3>2, <3>3 DEF new
  <2>3. CASE t # u
    BY <1>0, <2>1, <2>3 DEF TypeOK
  <2>4. QED
    BY <2>2, <2>3
<1>9. CASE TrackNothing
  BY <1>2, <1>9 DEF TrackNothing
<1>10. CASE Sweep
  BY <1>2, <1>3, <1>10 DEF Sweep
<1>11. CASE Crash
  BY <1>3, <1>11 DEF Crash, journal
<1>12. ASSUME NEW u \in Trades, Accept(u) \/ Reject(u) \/ Close(u)
       PROVE  Seen(t)' = Seen(t)
  BY <1>0, <1>12 DEF Accept, Reject, Close
<1>13. QED
  BY <1>4, <1>5, <1>6, <1>7, <1>8, <1>9, <1>10, <1>11, <1>12 DEF Next, Tick

\* The clock does not go back, and a card is issued now.
LEMMA CardsStayPast == TypeOK /\ CardsArePast /\ [Next]_vars => CardsArePast'
<1> SUFFICES ASSUME TypeOK, CardsArePast, [Next]_vars, NEW t \in Trades,
                    trade'[t].status # "FREE"
             PROVE  trade'[t].time <= now'
  BY DEF CardsArePast
<1>1. /\ trade \in [Trades -> TradeRecord] /\ trade[t].time \in Nat /\ now \in Nat
      /\ trade[t].status # "FREE" => trade[t].time <= now
  <2>1. trade[t].time \in Times /\ now \in Times
    BY DEF TypeOK, TradeRecord
  <2>2. QED
    BY <2>1, TimesAreNat DEF TypeOK, CardsArePast
<1>2. CASE now' = now /\ trade'[t].time = trade[t].time
            /\ (trade[t].status = "FREE" => trade'[t].status = "FREE")
  BY <1>1, <1>2
<1>3. CASE Advance
  <2> DEFINE Coming == {s \in Snaps : s > now}
  <2>1. now # EOD_SWEEP_TIME /\ now \in Times
    BY <1>3 DEF Advance, TypeOK
  <2>2. EOD_SWEEP_TIME \in Coming /\ Coming \in SUBSET Nat
    BY <2>1, TimesAreNat, DeskAssumption DEF Snaps
  <2>3. now' \in Coming
    BY <1>3, <2>2, MinInSet DEF Advance
  <2>4. now' > now /\ now' \in Nat /\ trade' = trade
    BY <1>3, <2>2, <2>3 DEF Advance, journal
  <2>5. QED
    BY <1>1, <2>4
<1>4. CASE TickStart
  <2>1. /\ now' = now
        /\ \/ trade'[t] = trade[t]
           \/ /\ trade[t].status = "GENERATED"
              /\ trade'[t] = [trade[t] EXCEPT !.status = "EXPIRED"]
    <3>1. trade' = [u \in Trades |-> IF u \in {w \in InStatus("GENERATED") : Stale(w)}
                                     THEN [trade[u] EXCEPT !.status = "EXPIRED"] ELSE trade[u]]
      BY <1>4 DEF TickStart
    <3>2. now' = now
      BY <1>4 DEF TickStart
    <3>3. QED
      BY <3>1, <3>2 DEF InStatus
  <2>2. trade'[t].time = trade[t].time
    BY <1>1, <2>1 DEF TradeRecord
  <2>3. QED
    BY <1>2, <2>1, <2>2
<1>5. CASE GateCache \/ TrackNothing \/ TrackShadows \/ Crash \/ UNCHANGED vars
  BY <1>2, <1>5 DEF GateCache, TrackNothing, TrackShadows, Crash, clock, journal, vars
<1>6. CASE Recommend
  <2>1. now' = now
    BY <1>6 DEF Recommend, clock
  <2>2. CASE trade' = trade
    BY <1>2, <2>1, <2>2
  <2>3. ASSUME NEW u \in Trades, Issue(u) PROVE trade'[t].time <= now'
    <3>1. CASE t = u
      <4>1. trade'[t].time = now
        BY <1>1, <2>3, <3>1 DEF Issue, NoTrade
      <4>2. QED
        BY <1>1, <2>1, <4>1
    <3>2. CASE t # u
      <4>1. trade'[t] = trade[t]
        BY <1>1, <2>3, <3>2 DEF Issue
      <4>2. QED
        BY <1>2, <2>1, <4>1
    <3>3. QED
      BY <3>1, <3>2
  <2>4. QED
    BY <1>6, <2>2, <2>3 DEF Recommend, Decline
<1>7. ASSUME NEW u \in Trades, Track(u) \/ TrackFails(u)
      PROVE  trade'[t].time <= now'
  <2>1. now' = now /\ trade[u].status = "ACCEPTED"
    BY <1>7 DEF Track, TrackFails, clock, InStatus
  <2>2. t # u => trade'[t] = trade[t]
    BY <1>1, <1>7 DEF Track, Tracked, TrackFails
  <2>3. trade'[t].time = trade[t].time
    <3>1. trade[u] \in TradeRecord
      BY <1>1
    <3>2. CASE Track(u)
      <4> DEFINE snap == NewSnap(u)
                 reason == ExitReason(u, snap, Sustained(Append(Seen(u), snap)))
      <4>1. Tracked(u, snap, reason)
        BY <3>2 DEF Track
      <4> HIDE DEF snap, reason
      <4>2. trade'[u].time = trade[u].time
        BY <1>1, <3>1, <4>1 DEF Tracked, TradeRecord
      <4>3. QED
        BY <2>2, <4>2
    <3>3. CASE TrackFails(u)
      BY <3>3 DEF TrackFails
    <3>4. QED
      BY <1>7, <3>2, <3>3
  <2>4. QED
    BY <1>2, <2>1, <2>2, <2>3
<1>8. CASE Sweep
  <2>1. now' = now
    BY <1>8 DEF Sweep
  <2>2. CASE trade' = trade
    BY <1>2, <2>1, <2>2
  <2>3. CASE trade' # trade
    <3>1. trade'[t] =
            IF trade[t].status = "GENERATED" THEN [trade[t] EXCEPT !.status = "EXPIRED"]
            ELSE IF trade[t].status = "ACCEPTED"
            THEN [trade[t] EXCEPT !.status = "CLOSED", !.reason = "EOD_FORCE",
                    !.exit = IF quote[t] = None THEN Premium ELSE quote[t].ltp]
            ELSE trade[t]
      BY <1>8, <2>3 DEF Sweep
    <3>2. trade[t] \in TradeRecord
      BY <1>1
    <3>3. trade'[t].time = trade[t].time
      BY <3>1, <3>2 DEF TradeRecord
    <3>4. trade[t].status = "FREE" => trade'[t] = trade[t]
      BY <3>1
    <3>5. QED
      BY <1>2, <2>1, <3>3, <3>4
  <2>4. QED
    BY <2>2, <2>3
<1>9. ASSUME NEW u \in Trades, Accept(u) \/ Reject(u) \/ Close(u)
      PROVE  trade'[t].time <= now'
  <2>1. now' = now /\ trade[u].status \in {"GENERATED", "ACCEPTED"}
    BY <1>9 DEF Accept, Reject, Close, clock
  <2>2. t # u => trade'[t] = trade[t]
    BY <1>1, <1>9 DEF Accept, Reject, Close
  <2>3. trade'[t].time = trade[t].time
    <3>1. trade[u] \in TradeRecord
      BY <1>1
    <3>2. CASE Accept(u)
      BY <1>1, <2>2, <3>1, <3>2 DEF Accept, TradeRecord
    <3>3. CASE Reject(u)
      BY <1>1, <2>2, <3>1, <3>3 DEF Reject, TradeRecord
    <3>4. CASE Close(u)
      BY <1>1, <2>2, <3>1, <3>4 DEF Close, TradeRecord
    <3>5. QED
      BY <1>9, <3>2, <3>3, <3>4
  <2>4. QED
    BY <1>2, <2>1, <2>2, <2>3
<1>10. QED
  BY <1>3, <1>4, <1>5, <1>6, <1>7, <1>8, <1>9 DEF Next, Tick

\* At first no card and no row is there.
LEMMA StopInit == Init => StopInv
<1> SUFFICES ASSUME Init PROVE StopInv
  OBVIOUS
<1>1. CardsArePast
  BY DEF Init, CardsArePast, NoTrade
<1>2. ASSUME NEW t \in Trades PROVE Bounded(Seen(t)) /\ Rising(Seen(t))
  <2>1. snaps[t] = <<>> /\ buffer[t] = <<>>
    BY DEF Init
  <2>2. Seen(t) = <<>>
    BY <2>1 DEF Seen
  <2>3. DOMAIN Seen(t) = {}
    BY <2>2
  <2>4. QED
    BY <2>3 DEF Bounded, Rising
<1>3. QED
  BY <1>1, <1>2, TypeInit DEF StopInv

\* Every step keeps the stops bounded and rising.
LEMMA StopStep == StopInv /\ [Next]_vars => StopInv'
<1> SUFFICES ASSUME StopInv, [Next]_vars PROVE StopInv'
  OBVIOUS
<1>1. TypeOK' /\ CardsArePast'
  BY TypeStep, CardsStayPast DEF StopInv
<1>2. ASSUME NEW t \in Trades PROVE Bounded(Seen(t)') /\ Rising(Seen(t)')
  <2>1. TypeOK /\ Bounded(Seen(t)) /\ Rising(Seen(t))
    BY DEF StopInv
  <2>2. CASE Seen(t)' = Seen(t)
    BY <2>1, <2>2
  <2>3. CASE Seen(t)' = snaps[t]
    <3>1. snaps[t] \in Seq(Snap) /\ buffer[t] \in Seq(Snap) /\ Seen(t) = snaps[t] \o buffer[t]
      BY <2>1 DEF TypeOK, Seen
    <3>2. Bounded(snaps[t]) /\ Rising(snaps[t])
      BY <2>1, <3>1, PrefixIsSound
    <3>3. QED
      BY <2>3, <3>2
  <2>4. CASE Seen(t)' = Append(Seen(t), NewSnap(t))
               /\ quote[t] # None /\ trade[t].status # "FREE"
    BY <2>4, NextRowIsSound
  <2>5. QED
    BY <2>1, <2>2, <2>3, <2>4, SeenMoves
<1>3. \A t \in Trades : (Bounded(Seen(t)) /\ Rising(Seen(t)))'
  BY <1>2 DEF Bounded, Rising, InGain, Pnl
<1>4. QED
  BY <1>1, <1>3 DEF StopInv

\* Inside the gain that lets it trail, the stop of a position never sinks, for any
\* premium, theta and quotes, and whatever ticks fail or crash.
THEOREM StopsRise == Spec => []StopRisesInGain
<1>1. StopInv => StopRisesInGain
  <2> SUFFICES ASSUME StopInv, NEW t \in Trades PROVE Rising(snaps[t])
    BY DEF StopRisesInGain, Rising
  <2>1. /\ snaps[t] \in Seq(Snap) /\ buffer[t] \in Seq(Snap) /\ Seen(t) = snaps[t] \o buffer[t]
        /\ Bounded(Seen(t)) /\ Rising(Seen(t))
    BY DEF StopInv, TypeOK, Seen
  <2>2. QED
    BY <2>1, PrefixIsSound
<1>2. QED
  BY <1>1, StopInit, StopStep, PTL DEF Spec

-----------------------------------------------------------------------------
(* Shadows.                                                                *)

\* A gain beyond the target, a loss beyond the stop-loss.
LEMMA HitGains ==
  ASSUME NEW ltp \in Nat, Premium > 1
  PROVE  /\ ltp >= CardTarget => Pnl(ltp) >= 3001
         /\ ltp <= CardStop => Pnl(ltp) <= 0 - 2001
<1>1. Premium \in Nat /\ Premium >= 2
  BY DeskAssumption
<1>2. /\ CardTarget \in Int /\ 2 * CardTarget >= 3 * Premium
      /\ CardStop \in Int /\ 200 * CardStop <= 130 * Premium + 100
  BY <1>1 DEF CardTarget, CardStop, RoundDiv, Magnitude, AI_TARGET_MULT, AI_SL_PCT
<1>3. /\ Pnl(ltp) \in Int
      /\ Pnl(ltp) >= 3001
           <=> 2 * (10000 * (ltp - Premium)) + Premium >= 3001 * (2 * Premium)
      /\ Pnl(ltp) <= 0 - 2001
           <=> Premium - 2 * (10000 * (ltp - Premium)) >= 2001 * (2 * Premium)
  BY <1>1, Rounded DEF Pnl
<1>4. QED
  BY <1>1, <1>2, <1>3

\* A shadow that hits its card's stop or target is told apart, whatever the
\* premium: the rounding of the stop matters to a contract of one paisa only.
THEOREM ShadowsToldApart ==
  ASSUME Premium > 1
  PROVE  Spec => ShadowsDecisive
<1>1. ASSUME TypeOK, [Next]_vars, phase = "shadows",
             NEW t \in Trades, shadow[t] = "open"
      PROVE  shadow'[t] \in {"open", "CLEAN_MISS", "GOOD_SKIP"}
  <2>1. CASE TrackShadows
    <3>1. CASE quote[t] # None /\ ShadowHit(t)
      <4>1. shadow'[t] = Outcome(quote[t].ltp)
        BY <1>1, <2>1, <3>1 DEF TrackShadows
      <4>2. quote[t].ltp \in Nat
        BY <1>1, <3>1, QuoteTyped
      <4>3. Pnl(quote[t].ltp) >= 3001 \/ Pnl(quote[t].ltp) <= 0 - 2001
        BY <3>1, <4>2, HitGains DEF ShadowHit
      <4>4. QED
        BY <4>1, <4>2, <4>3, PnlTyped DEF Outcome
    <3>2. CASE ~(quote[t] # None /\ ShadowHit(t))
      BY <1>1, <2>1, <3>2 DEF TrackShadows
    <3>3. QED
      BY <3>1, <3>2
  <2>2. CASE Crash \/ UNCHANGED vars
    BY <1>1, <2>2 DEF Crash, journal, vars
  <2>3. ASSUME NEW u \in Trades, Accept(u) \/ Reject(u) \/ Close(u)
        PROVE  shadow'[t] \in {"open", "CLEAN_MISS", "GOOD_SKIP"}
    BY <1>1, <2>3 DEF Accept, Reject, Close, TypeOK
  <2>4. QED
    BY <1>1, <2>1, <2>2, <2>3
       DEF Next, Tick, Advance, TickStart, GateCache, Recommend, Track,
           TrackFails, TrackNothing, Sweep
<1>2. TypeOK /\ [Next]_vars =>
        [phase = "shadows" => \A t \in Trades :
          shadow[t] = "open" => shadow'[t] \in {"open", "CLEAN_MISS", "GOOD_SKIP"}]_vars
  BY <1>1
<1>3. QED
  BY <1>2, DeskTypes, PTL DEF Spec, ShadowsDecisive
=============================================================================
