------------------------------- MODULE MCDesk -------------------------------
(* Instances of Desk for TLC, for NIFTY.                                   *)
EXTENDS Desk

Flat == [a \in Ages |-> 100]

\* Three strikes with the given open interest.
Chain(oi) == [i \in 1 .. 3 |-> [strike |-> 23900 + 100 * i, ce |-> oi[i].ce, pe |-> oi[i].pe]]

\* A market that favours calls in every way, on a day without expiry.
Bull == [coc |-> [Flat EXCEPT ![0] = 115], tier1 |-> TRUE,
         gex |-> 50, peak |-> 100, fobi |-> 25, aobi |-> 15, vol |-> 130, oi |-> 100,
         near |-> 100, far |-> 110, below |-> 5, days |-> 30,
         vex |-> 600, dte |-> 3, weekday |-> 0,
         spot |-> 24300, chain |-> Chain([i \in 1 .. 3 |-> [ce |-> 1, pe |-> 1]]),
         strikes |-> {[side |-> s, s_score |-> 100, ltp |-> 10000, theta |-> 300, dte |-> 3] :
                      s \in Sides},
         stats |-> [bucket |-> [wins |-> 8, total |-> 10], all |-> [wins |-> 8, total |-> 12]],
         failed |-> {}]

Gone == [Bull EXCEPT !.coc = [a \in Ages |-> IF a < 10 THEN None ELSE 5 * a],
                     !.tier1 = FALSE, !.chain = None, !.strikes = {}]

\* Rising, falling, spiking and missing futures rows, one of them without a price.
Carries == {Flat,
            [Flat EXCEPT ![0] = 111],
            [Flat EXCEPT ![0] = 110, ![5] = 98, ![15] = 100],
            [Flat EXCEPT ![0] = 88],
            [Flat EXCEPT ![0] = 0],
            [Flat EXCEPT ![0] = 112, ![5] = 108, ![10] = 104],
            [Flat EXCEPT ![0] = 101, ![10] = 120],
            [Flat EXCEPT ![0] = None, ![5] = 80],
            [[a \in Ages |-> None] EXCEPT ![0] = 130, ![20] = 100]}

ExpiryStrikes(n, score) ==
    {[side |-> s, s_score |-> score, ltp |-> 10000, theta |-> 300, dte |-> n] : s \in Sides}

\* Every combination of the votes and of the exposure points.
VoteMarkets ==
    {[Bull EXCEPT !.coc = c, !.fobi = f, !.aobi = a, !.vol = v, !.vex = x,
                  !.dte = 1, !.weekday = 3, !.strikes = ExpiryStrikes(1, 90)] :
        c \in Carries, f \in {-25, 0, 21}, a \in {-15, 10, 15},
        v \in {0, 78, 123, 130}, x \in {-600, None, 504, 600}}

\* Every combination of the conditions without a direction.
QuietMarkets ==
    {[Bull EXCEPT !.gex = g, !.near = n, !.below = b, !.days = y, !.stats = st,
                  !.strikes = k, !.dte = d, !.weekday = 3] :
        g \in {-90, 0, 71, 90}, n \in {0, 100, 120}, b \in {10, 15}, y \in {19, 30},
        st \in {Bull.stats, [Bull.stats EXCEPT !.bucket.total = 9]},
        k \in {Bull.strikes, ExpiryStrikes(1, 60), ExpiryStrikes(0, 90)},
        d \in {0, 1, 3}}

Chains == {Chain(oi) : oi \in [1 .. 3 -> [ce : {0, 1, 3}, pe : {0, 2}]]}
ChainMarkets == {[Bull EXCEPT !.chain = c, !.spot = s] : c \in Chains, s \in {24000, 24119}}

\* Queries that raise, in markets where they would have spoken against the card.
FailedMarkets ==
    {[Bull EXCEPT !.failed = f, !.near = n, !.dte = 1, !.weekday = 3, !.gex = g] :
        f \in SUBSET {"gex", "peak", "coc", "iv", "vex"} \union {{q} : q \in Queries}
              \union {Queries},
        n \in {100, 120}, g \in {50, 90}}

\* No card, and a NO_GO for either side.
Dull == [Bull EXCEPT !.coc = Flat, !.fobi = 0, !.aobi = 0, !.vol = 100, !.vex = 0,
                     !.gex = 100, !.below = 30]
LaterMarkets == {Bull, Dull}
AllMarkets == VoteMarkets \union QuietMarkets \union ChainMarkets \union FailedMarkets
              \union {Bull, Mirrored(Bull), Dull}

\* Both sides of the expiry of a card, of Dealer O'Clock and of the closing crush.
DeskTimes == {HHMM(10, 10), HHMM(10, 20), HHMM(14, 0), HHMM(14, 35), EOD_SWEEP_TIME}
DeskWatched == {HHMM(10, 20), HHMM(14, 0), HHMM(14, 35), EOD_SWEEP_TIME}

\* A crush, past the stop in the morning and above it when the stop has sunk; two
\* gains that let the stop trail; the target.
AllQuotes == {[ltp |-> 6480, crush |-> TRUE], [ltp |-> 12500, crush |-> FALSE],
              [ltp |-> 13500, crush |-> FALSE], [ltp |-> 15000, crush |-> FALSE]}
=============================================================================
