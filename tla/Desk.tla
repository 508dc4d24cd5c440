-------------------------------- MODULE Desk --------------------------------
(***************************************************************************)
(* One session of one underlying's desk: the recommender, the tracker of   *)
(* open positions and the shadows of rejected cards, driven by the tick of *)
(* optdash/scheduler.py on a market that changes from tick to tick.        *)
(* What TradeLifecycle leaves open, the reason for a card and for an exit, *)
(* is decided here, with the functions of Scoring.  A read and its write   *)
(* are one step here; their interleavings are in TradeLifecycle.           *)
(*                                                                         *)
(* A premium is in paise.  Every card has the same entry premium and       *)
(* theta, and is accepted at that premium; the market moves the quotes     *)
(* that follow.  What one session leaves to the next is in TradeLifecycle. *)
(***************************************************************************)
EXTENDS Scoring, SequencesExt

CONSTANTS
    Times,        \* bound: the five-minute snaps of a session that are visited
    Watched,      \* bound: those that are visited once a card is out
    MaxTrades,    \* bound: number of cards that can be issued
    MaxSnaps,     \* bound: number of snaps tracked, of all trades together
    Premium,      \* entry premium of every card
    Theta,        \* its decay per day of 6.5 hours
    Quotes,       \* [ltp, crush] a contract can be quoted at
    Opening,      \* the markets of the ticks before the first card
    Later,        \* the markets of the ticks after it
    Dead          \* the market of a snap without rows

ASSUME DeskAssumption ==
    /\ Times \subseteq 0 .. EOD_SWEEP_TIME /\ IsFiniteSet(Times)
    /\ Watched \subseteq Times /\ EOD_SWEEP_TIME \in Watched
    /\ MaxTrades \in Nat \ {0}
    /\ MaxSnaps \in Nat \ {0}
    /\ Premium \in Nat \ {0}
    /\ Theta \in Nat
    /\ Quotes \subseteq [ltp : Nat, crush : BOOLEAN]
    /\ None \notin Quotes
    /\ \A m \in Opening \union {Dead} : IsMarket(m)
    /\ ~HasRows(Dead)
    /\ Later \subseteq Opening

Trades == 1 .. MaxTrades
Par    == [ltp |-> Premium, crush |-> FALSE]     \* the quote a card is issued at

VARIABLES
    now,         \* the snap of the clock
    ticked,      \* this snap has had its tick
    swept,       \* done_flags[today]
    phase,       \* the step of the tick that comes next; "idle" between ticks
    market,      \* the rows of this snap, until the recommender has read them
    noGo,        \* the sides the gate judges NO_GO at this snap
    gateCache,   \* the verdict of step 2: NO_GO or not; None without position
    \* Journal: trades, position_snaps, shadow_trades.
    trade,       \* one record per id
    snaps,       \* committed rows of position_snaps, in order of insertion
    shadow,      \* "none", "open" or the outcome
    \* Rows inserted by the scheduler's connection and not committed.
    buffer,
    \* The newest row of each contract today; None if there is none.
    quote

clock   == <<now, ticked, swept>>
view    == <<market, noGo, gateCache>>
journal == <<trade, snaps, shadow>>
vars    == <<clock, phase, view, journal, buffer, quote>>

Outcomes == {"CLEAN_MISS", "GOOD_SKIP", "BREAK_EVEN", "RISKY_MISS"}
TrackerReasons == {"THETA_SL_HIT", "TRAILING_STOP_HIT", "SL_HIT", "TARGET_HIT",
                   "GATE_NO_GO", "IV_CRUSH"}
Snap == [time : Times, ltp : Nat, noGo : BOOLEAN, trailing : BOOLEAN, stop : Nat]
TradeRecord ==
    [status : {"FREE", "GENERATED", "ACCEPTED", "REJECTED", "EXPIRED", "CLOSED"},
     side : Sides, time : Times,
     reason : TrackerReasons \union {"", "MANUAL_EXIT", "EOD_FORCE"}, exit : Nat]
NoTrade == [status |-> "FREE", side |-> "CE", time |-> EOD_SWEEP_TIME,
            reason |-> "", exit |-> 0]

TypeOK ==
    /\ now \in Times
    /\ ticked \in BOOLEAN
    /\ swept \in BOOLEAN
    /\ phase \in {"idle", "gate", "recommend", "track", "shadows"}
    /\ market # None => IsMarket(market)
    /\ noGo \subseteq Sides
    /\ gateCache \in BOOLEAN \union {None}
    /\ trade \in [Trades -> TradeRecord]
    /\ snaps \in [Trades -> Seq(Snap)]
    /\ shadow \in [Trades -> {"none", "open"} \union Outcomes]
    /\ buffer \in [Trades -> Seq(Snap)]
    /\ quote \in [Trades -> Quotes \union {Par, None}]

InStatus(s) == {t \in Trades : trade[t].status = s}
NothingBuffered == \A t \in Trades : buffer[t] = <<>>

Init ==
    /\ now \in Times \ {EOD_SWEEP_TIME}
    /\ ticked = FALSE
    /\ swept = FALSE
    /\ phase = "idle"
    /\ market = None
    /\ noGo = {}
    /\ gateCache = None
    /\ trade = [t \in Trades |-> NoTrade]
    /\ snaps = [t \in Trades |-> <<>>]
    /\ shadow = [t \in Trades |-> "none"]
    /\ buffer = [t \in Trades |-> <<>>]
    /\ quote = [t \in Trades |-> None]

-----------------------------------------------------------------------------
(* Prices, stops and exits.                                                *)

MinutesSince(time) == now - time

\* Hundredths of a per cent.
Pnl(ltp) == RoundDiv(10000 * (ltp - Premium), Premium)

\* The stop-loss and the target of a card, rounded to the paisa.
CardStop   == RoundDiv(Premium * (100 - AI_SL_PCT), 100)
CardTarget == RoundDiv(Premium * AI_TARGET_MULT, 100)

\* The stop sinks with the decay of the entry premium.
ThetaStop(t) ==
    LET decayed == AtLeast(Premium - (Theta * MinutesSince(trade[t].time)) \div 390, 1)
    IN RoundDiv(decayed * (100 - AI_SL_PCT), 100)

\* What the scheduler's connection sees of the trade's snaps.
Seen(t) == snaps[t] \o buffer[t]

\* The gain is large enough for the stop to trail.
InGain(ltp) == Pnl(ltp) >= 100 * TRAILING_STOP_ACTIVATION

\* Mutant: the newest snap instead of the peak.
TrailLastSnap(t, ltp) ==
    IF InGain(ltp) /\ Seen(t) # <<>> THEN (9 * Last(Seen(t)).ltp) \div 10 ELSE 0

\* Nine tenths of the peak of the earlier snaps, while the gain is large enough.
Trail(t, ltp) ==
    IF InGain(ltp) /\ Seen(t) # <<>>
    THEN (9 * Max({Seen(t)[i].ltp : i \in DOMAIN Seen(t)})) \div 10 ELSE 0

\* Mutant: a position accepted since step 2 is not in its cache.
CachedNoGo(t) == gateCache

\* The verdict of step 2 if it found a position, else one computed now.
JudgedNoGo(t) == IF gateCache # None THEN gateCache ELSE trade[t].side \in noGo

\* The row the tracker inserts for t.
NewSnap(t) ==
    LET ltp == quote[t].ltp IN
    [time |-> now, ltp |-> ltp, noGo |-> JudgedNoGo(t),
     trailing |-> Trail(t, ltp) > ThetaStop(t),
     stop |-> AtLeast(Trail(t, ltp), ThetaStop(t))]

\* Mutant: one NO_GO among the newest rows is enough.
OneNoGo(rows) == \E i \in DOMAIN rows : rows[i].noGo

\* The newest rows, the one of this snap among them.  The rows of one session are
\* inserted in the order of the snap times by which the code sorts them.
Sustained(rows) ==
    LET n == GATE_SUSTAINED_NO_GO_SNAPS IN
    /\ Len(rows) >= n
    /\ \A i \in Len(rows) - n + 1 .. Len(rows) : rows[i].noGo

\* The first rule that fires; "" if none does.
ExitReason(t, snap, sustained) ==
    IF snap.ltp <= snap.stop
    THEN IF snap.ltp < ThetaStop(t) THEN "THETA_SL_HIT"
         ELSE IF snap.trailing THEN "TRAILING_STOP_HIT" ELSE "SL_HIT"
    ELSE IF snap.ltp >= CardTarget THEN "TARGET_HIT"
    ELSE IF sustained /\ snap.noGo THEN "GATE_NO_GO"
    ELSE IF quote[t].crush /\ Pnl(snap.ltp) < -1500 THEN "IV_CRUSH" ELSE ""

\* Mutant: the thresholds of the code doubled.
OutcomeByHalves(ltp) ==
    IF Pnl(ltp) > 6000 THEN "CLEAN_MISS"
    ELSE IF Pnl(ltp) < -4000 THEN "GOOD_SKIP" ELSE "RISKY_MISS"

Outcome(ltp) ==
    IF Pnl(ltp) > 3000 THEN "CLEAN_MISS"
    ELSE IF Pnl(ltp) < -2000 THEN "GOOD_SKIP"
    ELSE IF Magnitude(Pnl(ltp)) < 500 THEN "BREAK_EVEN" ELSE "RISKY_MISS"

-----------------------------------------------------------------------------
(* The clock.                                                              *)

\* The snaps that are visited; the ticks between them are missed.
Snaps == IF InStatus("FREE") = Trades THEN Times ELSE Watched

Advance ==
    /\ phase = "idle" /\ now # EOD_SWEEP_TIME
    /\ now' = Min({s \in Snaps : s > now})
    /\ ticked' = FALSE
    /\ UNCHANGED <<swept, phase, view, journal, buffer, quote>>

-----------------------------------------------------------------------------
(* The tick.                                                               *)

Commit == buffer' = [t \in Trades |-> <<>>]
Flushed == [t \in Trades |-> snaps[t] \o buffer[t]]

Stale(t) == MinutesSince(trade[t].time) \div 5 >= AI_EXPIRY_MAX_SNAPS

\* bound: after MaxSnaps snaps an open position waits for the sweep.
RoomForSnaps ==
    InStatus("ACCEPTED") # {} => Len(FlattenSeq([t \in Trades |-> Seen(t)])) < MaxSnaps

\* Contracts that are still looked up in the market.
Quoted == InStatus("ACCEPTED") \union {t \in Trades : shadow[t] = "open"}

\* No code looks up the contract of a finished trade again.
Forgotten(t) == trade[t].status \in {"CLOSED", "EXPIRED"} \/ shadow[t] \in Outcomes

\* Steps 0 and 1: the pull brings new rows or none, stale cards expire.
TickStart ==
    /\ phase = "idle" /\ ~ticked /\ now < EOD_SWEEP_TIME /\ ~swept
    /\ RoomForSnaps
    /\ ticked' = TRUE
    /\ \E m \in (IF InStatus("FREE") = Trades THEN Opening ELSE Later) \union {Dead} :
         /\ market' = m
         /\ noGo' = {s \in Sides : Verdict(m, s, now) = "NO_GO"}
         /\ \E fresh \in [Quoted -> IF HasRows(m) THEN Quotes ELSE {None}] :
              quote' = [t \in Trades |-> IF t \in Quoted /\ fresh[t] # None THEN fresh[t]
                                         ELSE IF Forgotten(t) THEN None ELSE quote[t]]
    /\ LET old == {t \in InStatus("GENERATED") : Stale(t)} IN
       /\ trade' = [t \in Trades |-> IF t \in old
                                     THEN [trade[t] EXCEPT !.status = "EXPIRED"] ELSE trade[t]]
       /\ IF old = {} THEN UNCHANGED <<snaps, buffer>>
          ELSE snaps' = Flushed /\ Commit
    /\ phase' = "gate"
    /\ UNCHANGED <<now, swept, gateCache, shadow>>

\* Step 2: the verdict on the open position, if there is one.
GateCache ==
    /\ phase = "gate"
    /\ gateCache' = IF InStatus("ACCEPTED") = {} THEN None
                    ELSE \E t \in InStatus("ACCEPTED") : trade[t].side \in noGo
    /\ phase' = "recommend"
    /\ UNCHANGED <<clock, market, noGo, journal, buffer, quote>>

\* Step 3: a card, unless one is pending or a position is open.  That the guards,
\* the analytics and the insert are moments of their own is in TradeLifecycle.
Issue(t) ==
    /\ trade[t] = NoTrade /\ \A u \in 1 .. t - 1 : trade[u] # NoTrade
    /\ InStatus("ACCEPTED") = {} /\ InStatus("GENERATED") = {}
    /\ \E card \in Cards(market, now) :
         trade' = [trade EXCEPT ![t] = [NoTrade EXCEPT !.status = "GENERATED",
                      !.side = card.side, !.time = now]]
    /\ quote' = [quote EXCEPT ![t] = Par]
    /\ snaps' = Flushed
    /\ Commit

Decline ==
    /\ \/ InStatus("ACCEPTED") # {} \/ InStatus("GENERATED") # {}
       \/ Cards(market, now) = {}
       \/ InStatus("FREE") = {}           \* bound: no id left
    /\ UNCHANGED <<trade, quote, snaps, buffer>>

Recommend ==
    /\ phase = "recommend"
    /\ Decline \/ \E t \in Trades : Issue(t)
    /\ market' = None
    /\ phase' = "track"
    /\ UNCHANGED <<clock, noGo, gateCache, shadow>>

\* Mutant: the exit is committed before the snap is inserted.
TrackedUnsaved(t, snap, reason) ==
    /\ trade' = [trade EXCEPT ![t].status = IF reason = "" THEN @ ELSE "CLOSED",
                              ![t].reason = reason,
                              ![t].exit = IF reason = "" THEN @ ELSE snap.ltp]
    /\ snaps' = Flushed
    /\ buffer' = [u \in Trades |-> IF u = t /\ reason # "" THEN <<snap>> ELSE <<>>]

\* The snap and the exit it leads to are committed together.
Tracked(t, snap, reason) ==
    /\ trade' = [trade EXCEPT ![t].status = IF reason = "" THEN @ ELSE "CLOSED",
                              ![t].reason = reason,
                              ![t].exit = IF reason = "" THEN @ ELSE snap.ltp]
    /\ snaps' = [Flushed EXCEPT ![t] = Append(@, snap)]
    /\ Commit

\* Step 4, for a position that is quoted today.
Track(t) ==
    /\ phase = "track"
    /\ t \in InStatus("ACCEPTED") /\ quote[t] # None
    /\ LET snap == NewSnap(t)
           rows == Append(Seen(t), snap)
       IN Tracked(t, snap, ExitReason(t, snap, Sustained(rows)))
    /\ phase' = "shadows"
    /\ UNCHANGED <<clock, view, shadow, quote>>

\* Step 4 raises after the insert, here or at another underlying's position.
TrackFails(t) ==
    /\ phase = "track"
    /\ t \in InStatus("ACCEPTED") /\ quote[t] # None
    /\ buffer' = [buffer EXCEPT ![t] = Append(@, NewSnap(t))]
    /\ phase' = "idle"
    /\ noGo' = {} /\ gateCache' = None
    /\ UNCHANGED <<clock, market, trade, snaps, shadow, quote>>

\* Nothing to track; the commit comes all the same.
TrackNothing ==
    /\ phase = "track"
    /\ \A t \in InStatus("ACCEPTED") : quote[t] = None
    /\ snaps' = Flushed
    /\ Commit
    /\ phase' = "shadows"
    /\ UNCHANGED <<clock, view, trade, shadow, quote>>

\* One of the card's own two.
ShadowHit(t) ==
    quote[t].ltp <= CardStop \/ quote[t].ltp >= CardTarget

\* Step 5: the shadows of today's rejected cards.
TrackShadows ==
    /\ phase = "shadows"
    /\ shadow' = [t \in Trades |->
                    IF shadow[t] = "open" /\ quote[t] # None /\ ShadowHit(t)
                    THEN Outcome(quote[t].ltp) ELSE shadow[t]]
    /\ phase' = "idle"
    /\ noGo' = {} /\ gateCache' = None
    /\ UNCHANGED <<clock, market, trade, snaps, buffer, quote>>

\* The end-of-day sweep: each of its two parts takes place or is rolled back,
\* and it counts as done in any case.
Sweep ==
    /\ phase = "idle" /\ now = EOD_SWEEP_TIME /\ ~swept
    /\ \/ /\ trade' = [t \in Trades |->
                IF trade[t].status = "GENERATED" THEN [trade[t] EXCEPT !.status = "EXPIRED"]
                ELSE IF trade[t].status = "ACCEPTED"
                THEN [trade[t] EXCEPT !.status = "CLOSED", !.reason = "EOD_FORCE",
                        !.exit = IF quote[t] = None THEN Premium ELSE quote[t].ltp]
                ELSE trade[t]]
          /\ snaps' = Flushed
       \/ UNCHANGED <<trade, snaps>>
    /\ Commit
    /\ \/ shadow' = [t \in Trades |->
                IF shadow[t] # "open" THEN shadow[t]
                ELSE Outcome(IF quote[t] = None THEN Premium ELSE quote[t].ltp)]
       \/ UNCHANGED shadow
    /\ swept' = TRUE
    /\ UNCHANGED <<now, ticked, phase, view, quote>>

\* The process dies: uncommitted rows and the tick are gone.
\* bound: a crash after the sweep, which is then repeated, is in TradeLifecycle.
Crash ==
    /\ phase # "idle" \/ ~NothingBuffered
    /\ phase' = "idle"
    /\ market' = None
    /\ noGo' = {} /\ gateCache' = None
    /\ Commit
    /\ UNCHANGED <<clock, journal, quote>>

-----------------------------------------------------------------------------
(* The trader.  A scheduler connection with uncommitted rows holds the     *)
(* write lock, and the request is answered with an error.                  *)

Accept(t) ==
    /\ trade[t].status = "GENERATED" /\ NothingBuffered
    /\ trade' = [trade EXCEPT ![t].status = "ACCEPTED"]
    /\ UNCHANGED <<clock, phase, view, snaps, shadow, buffer, quote>>

Reject(t) ==
    /\ trade[t].status = "GENERATED" /\ NothingBuffered
    /\ trade' = [trade EXCEPT ![t].status = "REJECTED"]
    /\ shadow' = [shadow EXCEPT ![t] = "open"]
    /\ UNCHANGED <<clock, phase, view, snaps, buffer, quote>>

Close(t) ==
    /\ trade[t].status = "ACCEPTED" /\ NothingBuffered
    /\ trade' = [trade EXCEPT ![t].status = "CLOSED", ![t].reason = "MANUAL_EXIT",
                              ![t].exit = IF quote[t] = None THEN Premium ELSE quote[t].ltp]
    /\ UNCHANGED <<clock, phase, view, snaps, shadow, buffer, quote>>

Tick ==
    \/ TickStart \/ GateCache \/ Recommend
    \/ \E t \in Trades : Track(t) \/ TrackFails(t)
    \/ TrackNothing \/ TrackShadows \/ Sweep

Next ==
    \/ Advance \/ Tick \/ Crash
    \/ \E t \in Trades : Accept(t) \/ Reject(t) \/ Close(t)

Spec == Init /\ [][Next]_vars

-----------------------------------------------------------------------------
(* What the scores promise, on every market of a tick.  They are functions *)
(* of the market and the time, and Opening has every market there is.      *)

Reading == phase = "gate" /\ InStatus("FREE") = Trades

Flip(side) == IF side = "CE" THEN "PE" ELSE IF side = "PE" THEN "CE" ELSE side

Mirrored(m) ==
    [m EXCEPT !.coc = [a \in Ages |-> IF m.coc[a] = None THEN None ELSE -m.coc[a]],
              !.fobi = -m.fobi, !.aobi = -m.aobi, !.vol = m.oi, !.oi = m.vol,
              !.vex = IF m.vex = None THEN None ELSE -m.vex]

\* Calls and puts are judged by the same measure: the mirror image of a market
\* has the opposite direction, the same margin and the same gate scores, but for
\* the put-call divergences between the two thresholds of different size.
MirrorBias ==
    Reading /\ Magnitude(PcrDivergence(market)) \notin 21 .. 25 =>
        LET mirror == Mirrored(market) IN
        /\ Bias(mirror) = [Bias(market) EXCEPT !.side = Flip(@)]
        /\ \A s \in Sides : GateScore(mirror, Flip(s), now) = GateScore(market, s, now)

\* The direction vote's batch query and the gate's velocity query, two pieces of
\* code, agree: a velocity beyond the threshold is always a spike.
SpikeCoversVelocity ==
    Reading /\ Answers(market, "spike")
        /\ Magnitude(Velocity(market)) > VCOC_BULL_THRESHOLD => SpikeActive(market)

\* The gate gives its two exposure points to the side the exposure voted for, and
\* the confidence, which reads a classification made before the total is rounded,
\* counts it for that side too.
GateAgreesWithVote ==
    Reading => \A s \in Sides :
        /\ VexVote(market) = s <=> Points(market, s, now).vex_aligned = 2
        /\ VexVote(market) = s => VexSignal(market) = s

\* Queries that fail silently can gain a market three of the conditions at most:
\* no backwardation, no Dealer O'Clock and, if only the query of the day's peak
\* fails, an exposure far below its peak.
FailuresEarnThreePoints ==
    Reading => \A s \in Sides :
        LET earned == Points(market, s, now)
            sound  == Points([market EXCEPT !.failed = {}], s, now)
        IN \A c \in DOMAIN earned \ {"term_structure_ok", "not_charm_distortion"} :
               \/ earned[c] <= sound[c]
               \/ /\ c = "gex_declining" /\ Answers(market, "gex")
                  /\ ~Answers(market, "peak")

CallsUpTo(chain, i) == Total([j \in DOMAIN chain |-> IF j <= i THEN chain[j].ce ELSE 0])
PutsFrom(chain, i)  == Total([j \in DOMAIN chain |-> IF j >= i THEN chain[j].pe ELSE 0])

\* The strike of maximum pain balances the open interest of calls below it with
\* that of puts above it: moving either way does not pay the writers more.
MaxPainBalances ==
    Reading /\ market.chain # None =>
        LET chain == market.chain IN
        \E i \in DOMAIN chain :
            /\ chain[i].strike = MaxPain(chain)
            /\ i < Len(chain) => CallsUpTo(chain, i) >= PutsFrom(chain, i + 1)
            /\ i > 1 => CallsUpTo(chain, i - 1) < PutsFrom(chain, i)

\* A card on a contract that expires today or tomorrow has a GO verdict, is of
\* grade C at least and is never issued after 14:30, where the cap on the
\* confidence is below what such a card needs.
ExpiryCardsAreStrong ==
    Reading => \A card \in Cards(market, now) :
        card.strike.dte # None /\ card.strike.dte <= 1 =>
            /\ card.verdict = "GO" /\ card.grade # "D"
            /\ Session(now) # "CLOSING_CRUSH"

(* What the exits promise, whatever the market and the trader do.          *)

ClosedBy(reason) == {t \in Trades : trade[t].reason = reason}

\* A position the tracker closed has the snap of its exit in the journal, as its
\* last one: the two are one commit, and nothing tracks it afterwards.
ExitIsRecorded ==
    \A t \in Trades : trade[t].reason \in TrackerReasons =>
        /\ trade[t].status = "CLOSED"
        /\ snaps[t] # <<>> /\ Last(snaps[t]).ltp = trade[t].exit
        /\ buffer[t] = <<>>

\* An exit for a sustained NO_GO has the last two snaps of this position behind it:
\* neither the row of another trade nor a verdict computed for another position
\* (the cache of step 2) can close this one at its first NO_GO.
SustainedNoGo ==
    \A t \in ClosedBy("GATE_NO_GO") : LET rows == snaps[t] IN
        Len(rows) >= 2 /\ rows[Len(rows)].noGo /\ rows[Len(rows) - 1].noGo

\* A stop that trails does not give way: from any snap of a position to any later
\* one, both of them inside the gain that activates it, the stop does not sink,
\* whatever snaps a failed tick left to be committed later or a crash has lost.
\* (Outside that gain it sinks back to the theta stop, tracker.py:94.)
StopRisesInGain ==
    \A t \in Trades : \A i, j \in DOMAIN snaps[t] :
        i < j /\ InGain(snaps[t][i].ltp) /\ InGain(snaps[t][j].ltp) =>
            snaps[t][i].stop <= snaps[t][j].stop

\* A shadow that hits the stop-loss or the target of its card is told apart as a
\* good skip or a clean miss: the classes of shadow_tracker.py, set apart from the
\* stop and the target of config.py, fit them.
ShadowsDecisive ==
    [][phase = "shadows" => \A t \in Trades :
          shadow[t] = "open" => shadow'[t] \in {"open", "CLEAN_MISS", "GOOD_SKIP"}]_vars
=============================================================================
