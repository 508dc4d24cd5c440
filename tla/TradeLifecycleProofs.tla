------------------------ MODULE TradeLifecycleProofs ------------------------
(***************************************************************************)
(* Proofs about TradeLifecycle, for any number of underlyings, trades,     *)
(* concurrent requests and any setting of the time limits.                 *)
(***************************************************************************)
EXTENDS TradeLifecycle, TLAPS

-----------------------------------------------------------------------------
(* The inductive invariant, in named parts.                                *)

\* An id not inserted yet is known to nobody: it carries no data, no list of
\* rows read contains it and no request is about it.
FreshIds ==
    \A t \in Trades : status[t] = "FREE" =>
        /\ age[t] = 0
        /\ t \notin pendingRead \union openRead
        /\ \A r \in Requests : req[r] = NoRequest \/ req[r].id # t

\* From the recommender's second read to its insert the underlying has no
\* pending trade: only the scheduler itself could add one.
SlotEmptyBeforeIssue == phase = "recIssue" => ~HasPending(cur)

\* Rows that are going to be closed were accepted when they were read, and the
\* mark of the acceptance is never taken back.
OnlyAcceptedAreClosed ==
    /\ \A t \in Trades : status[t] = "ACCEPTED" => accepted[t]
    /\ \A t \in openRead : accepted[t]
    /\ \A r \in Requests : req[r].op = "close" => accepted[req[r].id]

\* Nothing stale is left once the expiry step is over.
NothingStale == phase \in PastExpiry => \A t \in PendingTrades : ~Stale(t)

\* During the expiry step the stale trades not expired yet are among those read.
StaleAreBeingExpired ==
    phase = "expire" => \A t \in PendingTrades : Stale(t) => t \in pendingRead

\* A sweep covers every pending trade, and the session is over once it started.
SweepCoversPending ==
    /\ phase \in Sweeping => IsEod
    /\ phase \in {"eodOpen", "eodWrite"} => PendingTrades \subseteq pendingRead

\* After a committed sweep the scheduler never gets to its expiry step again.
SweptStaysOver ==
    swept => IsEod /\ phase \notin PastExpiry \union {"expire"}

IInv ==
    /\ TypeOK
    /\ FreshIds
    /\ OnePendingPerUnderlying
    /\ SlotEmptyBeforeIssue
    /\ ClosedWasAccepted
    /\ OnlyAcceptedAreClosed
    /\ NothingStale
    /\ StaleAreBeingExpired
    /\ SweepCoversPending
    /\ SweptStaysOver
    /\ NothingPendingAfterSweep

-----------------------------------------------------------------------------
(* Facts about the constants, and the steps.                               *)

\* The value of fields not in use is an underlying.
LEMMA SomeoneIsUnderlying == Someone \in Underlyings
BY ConstantsAssumption DEF Someone

\* An idle thread's record has the type of a busy one's.
LEMMA NoRequestIsTyped == NoRequest \in [op : Ops, id : Trades]
BY ConstantsAssumption DEF NoRequest, Ops, Trades

\* The limits the clock and the ages are compared with.
LEMMA LimitsAreNumbers == LastSnap \in Nat /\ MaxAge \in Nat /\ Gaps \subseteq Nat
BY ConstantsAssumption DEF MaxAge

\* Closing shadows keeps the counters of shadow rows natural numbers.
LEMMA ClosedShadowsAreTyped ==
  ASSUME shadows \in [Trades -> [open : Nat, closed : Nat]], NEW T, CloseShadows(T)
  PROVE  shadows' \in [Trades -> [open : Nat, closed : Nat]]
BY DEF CloseShadows

\* Every step keeps the types.
LEMMA TypeStep == TypeOK /\ [Next]_vars => TypeOK'
<1> SUFFICES ASSUME TypeOK, [Next]_vars PROVE TypeOK'
  OBVIOUS
<1>1. CASE AdvanceSnap
  <2>1. snapNow' \in 0 .. LastSnap + 1
    BY <1>1, LimitsAreNumbers DEF AdvanceSnap, TypeOK
  <2>2. QED
    BY <1>1, <2>1 DEF AdvanceSnap, TypeOK, journal, tick
<1>2. CASE NewDay
  <2>1. PICK gap \in Gaps : age' = [t \in Trades |->
                               IF status[t] = "FREE" THEN age[t]
                               ELSE IF age[t] + gap > MaxAge THEN MaxAge ELSE age[t] + gap]
    BY <1>2 DEF NewDay
  <2>2. age' \in [Trades -> 0 .. MaxAge]
    BY <2>1, LimitsAreNumbers DEF TypeOK
  <2>3. snapNow' \in 0 .. LastSnap + 1
    BY <1>2, LimitsAreNumbers DEF NewDay
  <2>4. QED
    BY <1>2, <2>2, <2>3 DEF NewDay, TypeOK, tick
<1>3. CASE TickStart
  BY <1>3 DEF TickStart, journal, TypeOK, Phases
<1>4. CASE SweepDone
  BY <1>4, SomeoneIsUnderlying, LimitsAreNumbers
     DEF SweepDone, Return, journal, clock, TypeOK, Phases
<1>5. CASE SweepReadPending
  BY <1>5
     DEF SweepReadPending, Goto, journal, clock, TypeOK, Phases, Sweeping,
         PendingTrades
<1>6. CASE SweepReadOpen
  BY <1>6
     DEF SweepReadOpen, Goto, journal, clock, TypeOK, Phases, Sweeping,
         OpenTrades
<1>7. CASE SweepCommit
  BY <1>7 DEF SweepCommit, Goto, clock, TypeOK, Status, Phases, Sweeping
<1>8. CASE FinalizeShadows
  <2>1. shadows' \in [Trades -> [open : Nat, closed : Nat]]
    BY <1>8, ClosedShadowsAreTyped DEF FinalizeShadows, TypeOK
  <2>2. txn' \in BOOLEAN
    BY <1>8 DEF FinalizeShadows, TypeOK
  <2>3. QED
    BY <1>8, <2>1, <2>2, SomeoneIsUnderlying, LimitsAreNumbers
       DEF FinalizeShadows, Return, TypeOK, Phases, clock
<1>9. CASE ExpireRead
  BY <1>9 DEF ExpireRead, Goto, journal, clock, TypeOK, Phases, PendingTrades
<1>10. CASE ExpireEnd
  BY <1>10 DEF ExpireEnd, Goto, journal, clock, TypeOK, Phases, PastExpiry
<1>11. CASE RecReadPending
  BY <1>11, SomeoneIsUnderlying
     DEF RecReadPending, journal, clock, TypeOK, Phases, PastExpiry
<1>12. CASE RecDecline
  BY <1>12, SomeoneIsUnderlying
     DEF RecDecline, Goto, journal, clock, TypeOK, Phases, PastExpiry
<1>13. CASE TrackRead
  BY <1>13
     DEF TrackRead, Goto, journal, clock, TypeOK, Phases, PastExpiry,
         OpenTrades
<1>14. CASE TrackEnd
  BY <1>14 DEF TrackEnd, Goto, journal, clock, TypeOK, Phases, PastExpiry
<1>15. CASE TrackShadows
  BY <1>15, ClosedShadowsAreTyped, SomeoneIsUnderlying, LimitsAreNumbers
     DEF TrackShadows, Return, clock, TypeOK, Phases
<1>16. CASE SweepFails
  BY <1>16 DEF SweepFails, Goto, journal, clock, TypeOK, Phases, Sweeping
<1>17. CASE TickFails
  BY <1>17, SomeoneIsUnderlying, LimitsAreNumbers
     DEF TickFails, Return, journal, clock, TypeOK, Phases
<1>18. CASE Crash
  <2>1. req' \in [Requests -> [op : Ops, id : Trades]]
    BY <1>18, NoRequestIsTyped DEF Crash
  <2>2. /\ phase' \in Phases
        /\ cur' \in Underlyings
        /\ tickSnap' \in 0 .. LastSnap
    BY <1>18, SomeoneIsUnderlying, LimitsAreNumbers DEF Crash, Return, Phases
  <2>3. QED
    BY <1>18, <2>1, <2>2 DEF Crash, Return, TypeOK, journal
<1>19. ASSUME NEW u \in Underlyings, RecReadOpen(u) PROVE TypeOK'
  BY <1>19 DEF RecReadOpen, journal, clock, TypeOK, Phases, PastExpiry
<1>20. ASSUME NEW t \in Trades, ExpireOne(t) PROVE TypeOK'
  BY <1>20 DEF ExpireOne, clock, TypeOK, Status
<1>21. ASSUME NEW t \in Trades, RecIssue(t) PROVE TypeOK'
  BY <1>21, SomeoneIsUnderlying
     DEF RecIssue, Goto, clock, TypeOK, Status, Phases, PastExpiry
<1>22. ASSUME NEW t \in Trades, TrackKeep(t) PROVE TypeOK'
  BY <1>22 DEF TrackKeep, journal, clock, TypeOK
<1>23. ASSUME NEW t \in Trades, TrackClose(t) PROVE TypeOK'
  BY <1>23 DEF TrackClose, clock, TypeOK, Status
<1>24. ASSUME NEW r \in Requests, AcceptWrite(r) PROVE TypeOK'
  BY <1>24, NoRequestIsTyped
     DEF AcceptWrite, Write, clock, tick, TypeOK, Status
<1>25. ASSUME NEW r \in Requests, RejectWrite(r) PROVE TypeOK'
  BY <1>25, NoRequestIsTyped
     DEF RejectWrite, Write, clock, tick, TypeOK, Status
<1>26. ASSUME NEW r \in Requests, CloseWrite(r) PROVE TypeOK'
  BY <1>26, NoRequestIsTyped DEF CloseWrite, Write, clock, tick, TypeOK, Status
<1>27. ASSUME NEW r \in Requests, RequestFails(r) PROVE TypeOK'
  BY <1>27, NoRequestIsTyped DEF RequestFails, journal, clock, tick, TypeOK
<1>28. ASSUME NEW r \in Requests, NEW t \in Trades, AcceptCheck(r, t)
       PROVE  TypeOK'
  BY <1>28 DEF AcceptCheck, Checked, journal, clock, tick, TypeOK, Ops
<1>29. ASSUME NEW r \in Requests, NEW t \in Trades, RejectCheck(r, t)
       PROVE  TypeOK'
  BY <1>29 DEF RejectCheck, Checked, journal, clock, tick, TypeOK, Ops
<1>30. ASSUME NEW r \in Requests, NEW t \in Trades, CloseCheck(r, t)
       PROVE  TypeOK'
  BY <1>30 DEF CloseCheck, Checked, journal, clock, tick, TypeOK, Ops
<1>31. CASE UNCHANGED vars
  BY <1>31 DEF vars, journal, clock, tick, TypeOK
<1>32. QED
  BY <1>1, <1>2, <1>3, <1>4, <1>5, <1>6, <1>7, <1>8, <1>9, <1>10, <1>11,
     <1>12, <1>13, <1>14, <1>15, <1>16, <1>17, <1>18, <1>19, <1>20, <1>21,
     <1>22, <1>23, <1>24, <1>25, <1>26, <1>27, <1>28, <1>29, <1>30, <1>31
     DEF Next, Scheduler, Trader, Answer

\* The tick issues a recommendation.
Issues == \E t \in Trades : RecIssue(t)

\* What every other step may do to the rows: they grow older and leave the
\* status GENERATED; none is inserted.
RowsMoveOn ==
    /\ row' = row
    /\ \A t \in Trades :
        /\ age'[t] >= age[t]
        /\ status[t] = "FREE" => status'[t] = "FREE" /\ age'[t] = age[t]
        /\ status'[t] = status[t] \/ status'[t] \notin {"FREE", "GENERATED"}
        /\ accepted[t] => accepted'[t]

\* Only RecIssue makes a trade pending: requests, ticks, sweeps and nights move
\* rows on, whatever stale ids they hold.
LEMMA RowStep ==
  ASSUME TypeOK, FreshIds, [Next]_vars
  PROVE  RowsMoveOn \/ Issues
<1>1. CASE AdvanceSnap
  BY <1>1 DEF AdvanceSnap, journal, RowsMoveOn, TypeOK
<1>2. CASE NewDay
  BY <1>2, LimitsAreNumbers DEF NewDay, RowsMoveOn, TypeOK
<1>3. CASE TickStart
  BY <1>3 DEF TickStart, journal, RowsMoveOn, TypeOK
<1>4. CASE SweepDone
  BY <1>4 DEF SweepDone, journal, RowsMoveOn, TypeOK
<1>5. CASE SweepReadPending
  BY <1>5 DEF SweepReadPending, journal, RowsMoveOn, TypeOK
<1>6. CASE SweepReadOpen
  BY <1>6 DEF SweepReadOpen, journal, RowsMoveOn, TypeOK
<1>7. CASE SweepCommit
  BY <1>7 DEF SweepCommit, RowsMoveOn, TypeOK, FreshIds
<1>8. CASE FinalizeShadows
  BY <1>8 DEF FinalizeShadows, RowsMoveOn, TypeOK
<1>9. CASE ExpireRead
  BY <1>9 DEF ExpireRead, journal, RowsMoveOn, TypeOK
<1>10. CASE ExpireEnd
  BY <1>10 DEF ExpireEnd, journal, RowsMoveOn, TypeOK
<1>11. CASE RecReadPending
  BY <1>11 DEF RecReadPending, journal, RowsMoveOn, TypeOK
<1>12. CASE RecDecline
  BY <1>12 DEF RecDecline, journal, RowsMoveOn, TypeOK
<1>13. CASE TrackRead
  BY <1>13 DEF TrackRead, journal, RowsMoveOn, TypeOK
<1>14. CASE TrackEnd
  BY <1>14 DEF TrackEnd, journal, RowsMoveOn, TypeOK
<1>15. CASE TrackShadows
  BY <1>15 DEF TrackShadows, RowsMoveOn, TypeOK
<1>16. CASE SweepFails
  BY <1>16 DEF SweepFails, journal, RowsMoveOn, TypeOK
<1>17. CASE TickFails
  BY <1>17 DEF TickFails, journal, RowsMoveOn, TypeOK
<1>18. CASE Crash
  BY <1>18 DEF Crash, journal, RowsMoveOn, TypeOK
<1>19. ASSUME NEW u \in Underlyings, RecReadOpen(u) PROVE RowsMoveOn \/ Issues
  BY <1>19 DEF RecReadOpen, journal, RowsMoveOn, TypeOK
<1>20. ASSUME NEW t \in Trades, ExpireOne(t) PROVE RowsMoveOn \/ Issues
  BY <1>20 DEF ExpireOne, RowsMoveOn, TypeOK, FreshIds
<1>21. ASSUME NEW t \in Trades, RecIssue(t) PROVE RowsMoveOn \/ Issues
  BY <1>21 DEF Issues
<1>22. ASSUME NEW t \in Trades, TrackKeep(t) PROVE RowsMoveOn \/ Issues
  BY <1>22 DEF TrackKeep, journal, RowsMoveOn, TypeOK
<1>23. ASSUME NEW t \in Trades, TrackClose(t) PROVE RowsMoveOn \/ Issues
  BY <1>23 DEF TrackClose, RowsMoveOn, TypeOK, FreshIds
<1>24. ASSUME NEW r \in Requests, AcceptWrite(r) PROVE RowsMoveOn \/ Issues
  BY <1>24 DEF AcceptWrite, Write, NoRequest, RowsMoveOn, TypeOK, FreshIds
<1>25. ASSUME NEW r \in Requests, RejectWrite(r) PROVE RowsMoveOn \/ Issues
  BY <1>25 DEF RejectWrite, Write, NoRequest, RowsMoveOn, TypeOK, FreshIds
<1>26. ASSUME NEW r \in Requests, CloseWrite(r) PROVE RowsMoveOn \/ Issues
  BY <1>26 DEF CloseWrite, Write, NoRequest, RowsMoveOn, TypeOK, FreshIds
<1>27. ASSUME NEW r \in Requests, RequestFails(r) PROVE RowsMoveOn \/ Issues
  BY <1>27 DEF RequestFails, journal, RowsMoveOn, TypeOK
<1>28. ASSUME NEW r \in Requests, NEW t \in Trades, AcceptCheck(r, t)
       PROVE  RowsMoveOn \/ Issues
  BY <1>28 DEF AcceptCheck, Checked, journal, RowsMoveOn, TypeOK
<1>29. ASSUME NEW r \in Requests, NEW t \in Trades, RejectCheck(r, t)
       PROVE  RowsMoveOn \/ Issues
  BY <1>29 DEF RejectCheck, Checked, journal, RowsMoveOn, TypeOK
<1>30. ASSUME NEW r \in Requests, NEW t \in Trades, CloseCheck(r, t)
       PROVE  RowsMoveOn \/ Issues
  BY <1>30 DEF CloseCheck, Checked, journal, RowsMoveOn, TypeOK
<1>31. CASE UNCHANGED vars
  BY <1>31 DEF vars, journal, RowsMoveOn, TypeOK
<1>32. QED
  BY <1>1, <1>2, <1>3, <1>4, <1>5, <1>6, <1>7, <1>8, <1>9, <1>10, <1>11,
     <1>12, <1>13, <1>14, <1>15, <1>16, <1>17, <1>18, <1>19, <1>20, <1>21,
     <1>22, <1>23, <1>24, <1>25, <1>26, <1>27, <1>28, <1>29, <1>30, <1>31
     DEF Next, Scheduler, Trader, Answer

\* Nobody gets to know an id before it is inserted.
LEMMA FreshStep ==
  ASSUME TypeOK, FreshIds, [Next]_vars
  PROVE  FreshIds'
<1>1. CASE AdvanceSnap
  BY <1>1 DEF AdvanceSnap, journal, tick, FreshIds
<1>2. CASE NewDay
  BY <1>2 DEF NewDay, tick, FreshIds
<1>3. CASE TickStart
  BY <1>3 DEF TickStart, journal, FreshIds
<1>4. CASE SweepDone
  BY <1>4 DEF SweepDone, Return, journal, FreshIds
<1>5. CASE SweepReadPending
  BY <1>5
     DEF SweepReadPending, journal, FreshIds, PendingTrades, VisiblePending
<1>6. CASE SweepReadOpen
  BY <1>6 DEF SweepReadOpen, journal, FreshIds, OpenTrades, VisibleOpen
<1>7. CASE SweepCommit
  BY <1>7 DEF SweepCommit, FreshIds
<1>8. CASE FinalizeShadows
  BY <1>8 DEF FinalizeShadows, Return, FreshIds
<1>9. CASE ExpireRead
  BY <1>9 DEF ExpireRead, journal, FreshIds, PendingTrades, VisiblePending
<1>10. CASE ExpireEnd
  BY <1>10 DEF ExpireEnd, journal, FreshIds
<1>11. CASE RecReadPending
  BY <1>11 DEF RecReadPending, journal, FreshIds
<1>12. CASE RecDecline
  BY <1>12 DEF RecDecline, journal, FreshIds
<1>13. CASE TrackRead
  BY <1>13 DEF TrackRead, journal, FreshIds, OpenTrades, VisibleOpen
<1>14. CASE TrackEnd
  BY <1>14 DEF TrackEnd, journal, FreshIds
<1>15. CASE TrackShadows
  BY <1>15 DEF TrackShadows, Return, FreshIds
<1>16. CASE SweepFails
  BY <1>16 DEF SweepFails, journal, FreshIds
<1>17. CASE TickFails
  BY <1>17 DEF TickFails, Return, journal, FreshIds
<1>18. CASE Crash
  BY <1>18 DEF Crash, Return, journal, FreshIds
<1>19. ASSUME NEW u \in Underlyings, RecReadOpen(u) PROVE FreshIds'
  BY <1>19 DEF RecReadOpen, journal, FreshIds
<1>20. ASSUME NEW t \in Trades, ExpireOne(t) PROVE FreshIds'
  BY <1>20 DEF ExpireOne, FreshIds
<1>21. ASSUME NEW t \in Trades, RecIssue(t) PROVE FreshIds'
  BY <1>21 DEF RecIssue, FreshIds
<1>22. ASSUME NEW t \in Trades, TrackKeep(t) PROVE FreshIds'
  BY <1>22 DEF TrackKeep, journal, FreshIds
<1>23. ASSUME NEW t \in Trades, TrackClose(t) PROVE FreshIds'
  BY <1>23 DEF TrackClose, FreshIds
<1>24. ASSUME NEW r \in Requests, AcceptWrite(r) PROVE FreshIds'
  BY <1>24 DEF AcceptWrite, Write, tick, FreshIds
<1>25. ASSUME NEW r \in Requests, RejectWrite(r) PROVE FreshIds'
  BY <1>25 DEF RejectWrite, Write, tick, FreshIds
<1>26. ASSUME NEW r \in Requests, CloseWrite(r) PROVE FreshIds'
  BY <1>26 DEF CloseWrite, Write, tick, FreshIds
<1>27. ASSUME NEW r \in Requests, RequestFails(r) PROVE FreshIds'
  BY <1>27 DEF RequestFails, journal, tick, FreshIds
<1>28. ASSUME NEW r \in Requests, NEW t \in Trades, AcceptCheck(r, t)
       PROVE  FreshIds'
  BY <1>28 DEF AcceptCheck, Checked, journal, tick, FreshIds
<1>29. ASSUME NEW r \in Requests, NEW t \in Trades, RejectCheck(r, t)
       PROVE  FreshIds'
  BY <1>29 DEF RejectCheck, Checked, journal, tick, FreshIds
<1>30. ASSUME NEW r \in Requests, NEW t \in Trades, CloseCheck(r, t)
       PROVE  FreshIds'
  BY <1>30 DEF CloseCheck, Checked, journal, tick, FreshIds
<1>31. CASE UNCHANGED vars
  BY <1>31 DEF vars, journal, tick, FreshIds
<1>32. QED
  BY <1>1, <1>2, <1>3, <1>4, <1>5, <1>6, <1>7, <1>8, <1>9, <1>10, <1>11,
     <1>12, <1>13, <1>14, <1>15, <1>16, <1>17, <1>18, <1>19, <1>20, <1>21,
     <1>22, <1>23, <1>24, <1>25, <1>26, <1>27, <1>28, <1>29, <1>30, <1>31
     DEF Next, Scheduler, Trader, Answer

\* A step that moves rows on adds nothing to the pending trades.
LEMMA PendingShrinks ==
  ASSUME TypeOK, TypeOK', RowsMoveOn
  PROVE  \A t \in PendingTrades' : t \in PendingTrades /\ row'[t] = row[t]
BY ConstantsAssumption DEF RowsMoveOn, PendingTrades, VisiblePending, TypeOK

\* Stale, in the terms of StaleExpiredBeforeIssue.
LEMMA NotStale ==
  ASSUME TypeOK, NEW t \in Trades
  PROVE  ~Stale(t) <=> age[t] = 0 /\ tickSnap < row[t].snap + ExpirySnaps
BY ConstantsAssumption DEF Stale, SnapsSince, TypeOK

\* The insert goes into an empty slot; nothing else adds a pending trade.
LEMMA OnePendingStep ==
  ASSUME TypeOK, TypeOK', FreshIds, OnePendingPerUnderlying,
         SlotEmptyBeforeIssue, [Next]_vars
  PROVE  OnePendingPerUnderlying'
<1>1. CASE RowsMoveOn
  BY <1>1, PendingShrinks DEF OnePendingPerUnderlying
<1>2. ASSUME NEW t \in Trades, RecIssue(t) PROVE OnePendingPerUnderlying'
  <2>1. /\ PendingTrades' \subseteq PendingTrades \union {t}
        /\ \A s \in PendingTrades : s # t /\ row'[s] = row[s]
        /\ row'[t].ul = cur
    BY <1>2 DEF RecIssue, PendingTrades, VisiblePending, TypeOK
  <2>2. \A s \in PendingTrades : row[s].ul # cur
    BY <1>2 DEF RecIssue, SlotEmptyBeforeIssue, HasPending
  <2>3. QED
    BY <2>1, <2>2 DEF OnePendingPerUnderlying
<1>3. QED
  BY <1>1, <1>2, RowStep DEF Issues

\* A step beside the control flow of the tick.
Aside ==
    /\ UNCHANGED <<phase, tickSnap, pendingRead, cur, row, age, swept>>
    /\ snapNow' >= snapNow

\* A step to where a tick has read nothing yet.
AtRest ==
    /\ phase' \in {"idle", "pull"}
    /\ swept' => swept /\ snapNow' = snapNow

Advances ==
    \/ SweepReadPending \/ SweepReadOpen \/ SweepCommit \/ SweepFails
    \/ ExpireRead \/ ExpireEnd \/ RecReadPending \/ RecDecline
    \/ TrackRead \/ TrackEnd
    \/ \E u \in Underlyings : RecReadOpen(u)
    \/ \E t \in Trades : ExpireOne(t) \/ RecIssue(t)

\* The steps by what they do to the control flow of the tick.
LEMMA StepKinds ==
  ASSUME TypeOK, [Next]_vars
  PROVE  Aside \/ AtRest \/ Advances
<1>1. CASE AdvanceSnap
  BY <1>1 DEF AdvanceSnap, journal, tick, Aside, TypeOK
<1>2. CASE NewDay
  BY <1>2 DEF NewDay, tick, AtRest
<1>3. CASE TickStart
  BY <1>3 DEF TickStart, AtRest
<1>4. CASE SweepDone
  BY <1>4 DEF SweepDone, Return, clock, AtRest
<1>5. CASE SweepReadPending
  BY <1>5 DEF Advances
<1>6. CASE SweepReadOpen
  BY <1>6 DEF Advances
<1>7. CASE SweepCommit
  BY <1>7 DEF Advances
<1>8. CASE FinalizeShadows
  BY <1>8 DEF FinalizeShadows, Return, clock, AtRest
<1>9. CASE ExpireRead
  BY <1>9 DEF Advances
<1>10. CASE ExpireEnd
  BY <1>10 DEF Advances
<1>11. CASE RecReadPending
  BY <1>11 DEF Advances
<1>12. CASE RecDecline
  BY <1>12 DEF Advances
<1>13. CASE TrackRead
  BY <1>13 DEF Advances
<1>14. CASE TrackEnd
  BY <1>14 DEF Advances
<1>15. CASE TrackShadows
  BY <1>15 DEF TrackShadows, Return, clock, AtRest
<1>16. CASE SweepFails
  BY <1>16 DEF Advances
<1>17. CASE TickFails
  BY <1>17 DEF TickFails, Return, clock, AtRest
<1>18. CASE Crash
  BY <1>18 DEF Crash, Return, AtRest
<1>19. ASSUME NEW u \in Underlyings, RecReadOpen(u)
       PROVE  Aside \/ AtRest \/ Advances
  BY <1>19 DEF Advances
<1>20. ASSUME NEW t \in Trades, ExpireOne(t) PROVE Aside \/ AtRest \/ Advances
  BY <1>20 DEF Advances
<1>21. ASSUME NEW t \in Trades, RecIssue(t) PROVE Aside \/ AtRest \/ Advances
  BY <1>21 DEF Advances
<1>22. ASSUME NEW t \in Trades, TrackKeep(t) PROVE Aside \/ AtRest \/ Advances
  BY <1>22 DEF TrackKeep, journal, clock, Aside, TypeOK
<1>23. ASSUME NEW t \in Trades, TrackClose(t) PROVE Aside \/ AtRest \/ Advances
  BY <1>23 DEF TrackClose, clock, Aside, TypeOK
<1>24. ASSUME NEW r \in Requests, AcceptWrite(r)
       PROVE  Aside \/ AtRest \/ Advances
  BY <1>24 DEF AcceptWrite, Write, clock, tick, Aside, TypeOK
<1>25. ASSUME NEW r \in Requests, RejectWrite(r)
       PROVE  Aside \/ AtRest \/ Advances
  BY <1>25 DEF RejectWrite, Write, clock, tick, Aside, TypeOK
<1>26. ASSUME NEW r \in Requests, CloseWrite(r)
       PROVE  Aside \/ AtRest \/ Advances
  BY <1>26 DEF CloseWrite, Write, clock, tick, Aside, TypeOK
<1>27. ASSUME NEW r \in Requests, RequestFails(r)
       PROVE  Aside \/ AtRest \/ Advances
  BY <1>27 DEF RequestFails, journal, clock, tick, Aside, TypeOK
<1>28. ASSUME NEW r \in Requests, NEW t \in Trades, AcceptCheck(r, t)
       PROVE  Aside \/ AtRest \/ Advances
  BY <1>28 DEF AcceptCheck, Checked, journal, clock, tick, Aside, TypeOK
<1>29. ASSUME NEW r \in Requests, NEW t \in Trades, RejectCheck(r, t)
       PROVE  Aside \/ AtRest \/ Advances
  BY <1>29 DEF RejectCheck, Checked, journal, clock, tick, Aside, TypeOK
<1>30. ASSUME NEW r \in Requests, NEW t \in Trades, CloseCheck(r, t)
       PROVE  Aside \/ AtRest \/ Advances
  BY <1>30 DEF CloseCheck, Checked, journal, clock, tick, Aside, TypeOK
<1>31. CASE UNCHANGED vars
  BY <1>31 DEF vars, journal, clock, tick, Aside, TypeOK
<1>32. QED
  BY <1>1, <1>2, <1>3, <1>4, <1>5, <1>6, <1>7, <1>8, <1>9, <1>10, <1>11,
     <1>12, <1>13, <1>14, <1>15, <1>16, <1>17, <1>18, <1>19, <1>20, <1>21,
     <1>22, <1>23, <1>24, <1>25, <1>26, <1>27, <1>28, <1>29, <1>30, <1>31
     DEF Next, Scheduler, Trader, Answer

\* Requests between the recommender's reads and its insert only empty slots.
LEMMA SlotEmptyStep ==
  ASSUME TypeOK, TypeOK', FreshIds, SlotEmptyBeforeIssue, [Next]_vars
  PROVE  SlotEmptyBeforeIssue'
<1> SUFFICES ASSUME phase' = "recIssue" PROVE ~HasPending(cur)'
  BY DEF SlotEmptyBeforeIssue
<1>1. (phase = "recIssue" /\ cur' = cur) \/ RecReadPending
  <2>1. CASE Aside
    BY <2>1 DEF Aside
  <2>2. CASE AtRest
    BY <2>2 DEF AtRest
  <2>3. CASE Advances
    BY <2>3
       DEF Advances, SweepReadPending, SweepReadOpen, SweepCommit, SweepFails,
           ExpireRead, ExpireEnd, ExpireOne, RecReadOpen, RecIssue,
           RecDecline, TrackRead, TrackEnd, Goto
  <2>4. QED
    BY <2>1, <2>2, <2>3, StepKinds
<1>2. cur' = cur /\ ~HasPending(cur)
  BY <1>1 DEF RecReadPending, SlotEmptyBeforeIssue
<1>3. ~Issues
  BY DEF Issues, RecIssue, Goto
<1>4. QED
  BY <1>2, <1>3, RowStep, PendingShrinks DEF HasPending

\* Staleness does not change within a tick.
LEMMA StaleIsSteady ==
  ASSUME UNCHANGED <<row, age, tickSnap>>, NEW t \in Trades
  PROVE  Stale(t)' <=> Stale(t)
BY DEF Stale

\* What the expiry step has read covers the stale trades until it has expired
\* them, and no step of the tick makes a trade stale.
LEMMA StaleStep ==
  ASSUME TypeOK, TypeOK', FreshIds, NothingStale, StaleAreBeingExpired, [Next]_vars
  PROVE  NothingStale' /\ StaleAreBeingExpired'
<1>1. CASE AtRest
  BY <1>1 DEF AtRest, NothingStale, StaleAreBeingExpired, PastExpiry
<1>2. ASSUME NEW t \in Trades, RecIssue(t)
      PROVE  NothingStale' /\ StaleAreBeingExpired'
  <2>1. UNCHANGED <<age, tickSnap>> /\ phase = "recIssue" /\ phase' = "recommend"
    BY <1>2 DEF RecIssue, Goto
  <2>2. \A s \in PendingTrades' : s = t \/ (s \in PendingTrades /\ row'[s] = row[s])
    BY <1>2 DEF RecIssue, PendingTrades, VisiblePending
  <2>3. ~Stale(t)'
    <3>1. age'[t] = 0 /\ row'[t].snap = tickSnap'
      BY <1>2, <2>1 DEF RecIssue, FreshIds, TypeOK
    <3>2. tickSnap' \in Nat
      BY DEF TypeOK
    <3>3. ~(tickSnap' > row'[t].snap)
      BY <3>1, <3>2
    <3>4. QED
      BY <3>1, <3>3, ConstantsAssumption DEF Stale, SnapsSince
  <2>4. \A s \in PendingTrades : row'[s] = row[s] => ~Stale(s)'
    BY <2>1 DEF NothingStale, PastExpiry, Stale
  <2>5. QED
    BY <2>2, <2>3, <2>4 DEF NothingStale, StaleAreBeingExpired
<1>3. ASSUME ~Issues, Aside \/ Advances
      PROVE  NothingStale' /\ StaleAreBeingExpired'
  <2>1. \A t \in PendingTrades' : t \in PendingTrades
    BY <1>3, RowStep, PendingShrinks
  <2>2. \A t \in Trades : Stale(t)' <=> Stale(t)
    <3>1. UNCHANGED <<row, age, tickSnap>>
      BY <1>3
         DEF Issues, Aside, Advances, SweepReadPending, SweepReadOpen, SweepCommit,
             SweepFails, ExpireRead, ExpireEnd, ExpireOne, RecReadOpen,
             RecReadPending, RecDecline, TrackRead, TrackEnd, Goto, journal
    <3>2. QED
      BY <3>1, StaleIsSteady
  <2>3. PendingTrades \subseteq Trades
    BY DEF PendingTrades
  <2>4. CASE Aside
    BY <2>1, <2>2, <2>3, <2>4 DEF Aside, NothingStale, StaleAreBeingExpired
  <2>5. CASE SweepReadPending \/ SweepReadOpen \/ SweepCommit \/ SweepFails
    BY <2>5
       DEF SweepReadPending, SweepReadOpen, SweepCommit, SweepFails, Goto,
           NothingStale, StaleAreBeingExpired, PastExpiry
  <2>6. CASE ExpireRead
    <3>1. phase' = "expire" /\ PendingTrades' = PendingTrades
      BY <2>6 DEF ExpireRead, Goto, journal, PendingTrades, VisiblePending
    <3>2. \A t \in PendingTrades : Stale(t) => t \in pendingRead'
      BY <2>6 DEF ExpireRead
    <3>3. QED
      BY <2>2, <2>3, <3>1, <3>2
         DEF NothingStale, StaleAreBeingExpired, PastExpiry
  <2>7. ASSUME NEW t \in Trades, ExpireOne(t)
        PROVE  NothingStale' /\ StaleAreBeingExpired'
    <3>1. t \notin PendingTrades'
      BY <2>7 DEF ExpireOne, PendingTrades, VisiblePending, TypeOK
    <3>2. QED
      BY <2>1, <2>2, <2>3, <2>7, <3>1
         DEF ExpireOne, NothingStale, StaleAreBeingExpired
  <2>8. CASE ExpireEnd
    BY <2>1, <2>2, <2>3, <2>8 DEF ExpireEnd, NothingStale, StaleAreBeingExpired
  <2>9. CASE \/ RecReadPending \/ RecDecline \/ TrackRead \/ TrackEnd
             \/ \E u \in Underlyings : RecReadOpen(u)
    <3>1. phase \in PastExpiry /\ phase' \in PastExpiry
      BY <2>9
         DEF RecReadPending, RecDecline, TrackRead, TrackEnd, RecReadOpen,
             Goto, PastExpiry
    <3>2. QED
      BY <2>1, <2>2, <2>3, <3>1 DEF NothingStale, StaleAreBeingExpired
  <2>10. QED
    BY <1>3, <2>4, <2>5, <2>6, <2>7, <2>8, <2>9 DEF Issues, Advances
<1>4. QED
  BY <1>1, <1>2, <1>3, StepKinds DEF Issues

\* A sweep covers the pending trades, and ends the session for good.
LEMMA SweepStep ==
  ASSUME TypeOK, TypeOK', FreshIds, SweepCoversPending, SweptStaysOver,
         NothingPendingAfterSweep, [Next]_vars
  PROVE  SweepCoversPending' /\ SweptStaysOver' /\ NothingPendingAfterSweep'
<1>1. ASSUME ~Issues PROVE PendingTrades' \subseteq PendingTrades
  BY <1>1, RowStep, PendingShrinks
<1>2. CASE AtRest
  <2>1. ~Issues
    BY <1>2 DEF AtRest, Issues, RecIssue, Goto
  <2>2. QED
    BY <1>1, <1>2, <2>1
       DEF AtRest, SweepCoversPending, SweptStaysOver,
           NothingPendingAfterSweep, Sweeping, PastExpiry, IsEod
<1>3. CASE Aside
  <2>1. ~Issues
    BY <1>3 DEF Aside, Issues, RecIssue, Goto
  <2>2. IsEod => IsEod'
    BY <1>3, ConstantsAssumption DEF Aside, IsEod, TypeOK
  <2>3. QED
    BY <1>1, <1>3, <2>1, <2>2
       DEF Aside, SweepCoversPending, SweptStaysOver, NothingPendingAfterSweep
<1>4. CASE Advances
  <2>1. UNCHANGED snapNow
    BY <1>4
       DEF Advances, SweepReadPending, SweepReadOpen, SweepCommit, SweepFails,
           ExpireRead, ExpireEnd, ExpireOne, RecReadOpen, RecReadPending,
           RecIssue, RecDecline, TrackRead, TrackEnd, clock
  <2>2. IsEod' = IsEod
    BY <2>1 DEF IsEod
  <2>3. CASE SweepReadPending
    BY <2>2, <2>3
       DEF SweepReadPending, Goto, SweepCoversPending, SweptStaysOver,
           NothingPendingAfterSweep, PastExpiry, PendingTrades,
           VisiblePending, journal
  <2>4. CASE SweepReadOpen \/ SweepFails
    <3>1. ~Issues
      BY <2>4 DEF SweepReadOpen, SweepFails, Issues, RecIssue
    <3>2. PendingTrades' \subseteq PendingTrades
      BY <1>1, <3>1
    <3>3. CASE SweepReadOpen
      BY <2>2, <3>2, <3>3
         DEF SweepReadOpen, Goto, SweepCoversPending, SweptStaysOver,
             NothingPendingAfterSweep, Sweeping, PastExpiry
    <3>4. CASE SweepFails
      BY <2>2, <3>2, <3>4
         DEF SweepFails, Goto, SweepCoversPending, SweptStaysOver,
             NothingPendingAfterSweep, Sweeping, PastExpiry
    <3>5. QED
      BY <2>4, <3>3, <3>4
  <2>5. CASE SweepCommit
    <3>1. PendingTrades' = {}
      <4>1. \A t \in PendingTrades : t \in pendingRead
        BY <2>5 DEF SweepCommit, SweepCoversPending
      <4>2. QED
        BY <2>5, <4>1 DEF SweepCommit, PendingTrades, VisiblePending
    <3>2. QED
      BY <2>2, <2>5, <3>1
         DEF SweepCommit, Goto, SweepCoversPending, SweptStaysOver,
             NothingPendingAfterSweep, Sweeping, PastExpiry
  <2>6. CASE \/ ExpireRead \/ ExpireEnd \/ RecReadPending \/ RecDecline
             \/ TrackRead \/ TrackEnd
             \/ \E u \in Underlyings : RecReadOpen(u)
             \/ \E t \in Trades : ExpireOne(t) \/ RecIssue(t)
    <3>1. phase' \in PastExpiry \union {"expire"} /\ swept' = swept /\ ~swept
      BY <2>6
         DEF ExpireRead, ExpireEnd, ExpireOne, RecReadOpen, RecReadPending,
             RecIssue, RecDecline, TrackRead, TrackEnd, Goto, PastExpiry,
             SweptStaysOver
    <3>2. QED
      BY <3>1
         DEF SweepCoversPending, SweptStaysOver, NothingPendingAfterSweep,
             Sweeping, PastExpiry
  <2>7. QED
    BY <1>4, <2>3, <2>4, <2>5, <2>6 DEF Advances
<1>5. QED
  BY <1>2, <1>3, <1>4, StepKinds

\* What is closed was accepted when it was read.
LEMMA AcceptedStep ==
  ASSUME TypeOK, FreshIds, ClosedWasAccepted, OnlyAcceptedAreClosed, [Next]_vars
  PROVE  ClosedWasAccepted' /\ OnlyAcceptedAreClosed'
<1>1. CASE AdvanceSnap
  BY <1>1
     DEF AdvanceSnap, journal, tick, ClosedWasAccepted, OnlyAcceptedAreClosed
<1>2. CASE NewDay
  BY <1>2 DEF NewDay, tick, ClosedWasAccepted, OnlyAcceptedAreClosed
<1>3. CASE TickStart
  BY <1>3 DEF TickStart, journal, ClosedWasAccepted, OnlyAcceptedAreClosed
<1>4. CASE SweepDone
  BY <1>4
     DEF SweepDone, Return, journal, ClosedWasAccepted, OnlyAcceptedAreClosed
<1>5. CASE SweepReadPending
  BY <1>5
     DEF SweepReadPending, journal, ClosedWasAccepted, OnlyAcceptedAreClosed
<1>6. CASE SweepReadOpen
  BY <1>6
     DEF SweepReadOpen, journal, ClosedWasAccepted, OnlyAcceptedAreClosed,
         OpenTrades, VisibleOpen
<1>7. CASE SweepCommit
  BY <1>7 DEF SweepCommit, ClosedWasAccepted, OnlyAcceptedAreClosed
<1>8. CASE FinalizeShadows
  BY <1>8 DEF FinalizeShadows, Return, ClosedWasAccepted, OnlyAcceptedAreClosed
<1>9. CASE ExpireRead
  BY <1>9 DEF ExpireRead, journal, ClosedWasAccepted, OnlyAcceptedAreClosed
<1>10. CASE ExpireEnd
  BY <1>10 DEF ExpireEnd, journal, ClosedWasAccepted, OnlyAcceptedAreClosed
<1>11. CASE RecReadPending
  BY <1>11
     DEF RecReadPending, journal, ClosedWasAccepted, OnlyAcceptedAreClosed
<1>12. CASE RecDecline
  BY <1>12 DEF RecDecline, journal, ClosedWasAccepted, OnlyAcceptedAreClosed
<1>13. CASE TrackRead
  BY <1>13
     DEF TrackRead, journal, ClosedWasAccepted, OnlyAcceptedAreClosed,
         OpenTrades, VisibleOpen
<1>14. CASE TrackEnd
  BY <1>14 DEF TrackEnd, journal, ClosedWasAccepted, OnlyAcceptedAreClosed
<1>15. CASE TrackShadows
  BY <1>15 DEF TrackShadows, Return, ClosedWasAccepted, OnlyAcceptedAreClosed
<1>16. CASE SweepFails
  BY <1>16 DEF SweepFails, journal, ClosedWasAccepted, OnlyAcceptedAreClosed
<1>17. CASE TickFails
  BY <1>17
     DEF TickFails, Return, journal, ClosedWasAccepted, OnlyAcceptedAreClosed
<1>18. CASE Crash
  BY <1>18
     DEF Crash, Return, journal, ClosedWasAccepted, OnlyAcceptedAreClosed,
         NoRequest
<1>19. ASSUME NEW u \in Underlyings, RecReadOpen(u)
       PROVE  ClosedWasAccepted' /\ OnlyAcceptedAreClosed'
  BY <1>19 DEF RecReadOpen, journal, ClosedWasAccepted, OnlyAcceptedAreClosed
<1>20. ASSUME NEW t \in Trades, ExpireOne(t)
       PROVE  ClosedWasAccepted' /\ OnlyAcceptedAreClosed'
  BY <1>20 DEF ExpireOne, ClosedWasAccepted, OnlyAcceptedAreClosed
<1>21. ASSUME NEW t \in Trades, RecIssue(t)
       PROVE  ClosedWasAccepted' /\ OnlyAcceptedAreClosed'
  BY <1>21 DEF RecIssue, ClosedWasAccepted, OnlyAcceptedAreClosed
<1>22. ASSUME NEW t \in Trades, TrackKeep(t)
       PROVE  ClosedWasAccepted' /\ OnlyAcceptedAreClosed'
  BY <1>22 DEF TrackKeep, journal, ClosedWasAccepted, OnlyAcceptedAreClosed
<1>23. ASSUME NEW t \in Trades, TrackClose(t)
       PROVE  ClosedWasAccepted' /\ OnlyAcceptedAreClosed'
  BY <1>23 DEF TrackClose, ClosedWasAccepted, OnlyAcceptedAreClosed, TypeOK
<1>24. ASSUME NEW r \in Requests, AcceptWrite(r)
       PROVE  ClosedWasAccepted' /\ OnlyAcceptedAreClosed'
  BY <1>24
     DEF AcceptWrite, Write, NoRequest, tick, ClosedWasAccepted,
         OnlyAcceptedAreClosed, TypeOK
<1>25. ASSUME NEW r \in Requests, RejectWrite(r)
       PROVE  ClosedWasAccepted' /\ OnlyAcceptedAreClosed'
  BY <1>25
     DEF RejectWrite, Write, NoRequest, tick, ClosedWasAccepted,
         OnlyAcceptedAreClosed
<1>26. ASSUME NEW r \in Requests, CloseWrite(r)
       PROVE  ClosedWasAccepted' /\ OnlyAcceptedAreClosed'
  BY <1>26
     DEF CloseWrite, Write, NoRequest, tick, ClosedWasAccepted,
         OnlyAcceptedAreClosed, TypeOK
<1>27. ASSUME NEW r \in Requests, RequestFails(r)
       PROVE  ClosedWasAccepted' /\ OnlyAcceptedAreClosed'
  BY <1>27
     DEF RequestFails, NoRequest, journal, tick, ClosedWasAccepted,
         OnlyAcceptedAreClosed
<1>28. ASSUME NEW r \in Requests, NEW t \in Trades, AcceptCheck(r, t)
       PROVE  ClosedWasAccepted' /\ OnlyAcceptedAreClosed'
  BY <1>28
     DEF AcceptCheck, Checked, journal, tick, ClosedWasAccepted,
         OnlyAcceptedAreClosed
<1>29. ASSUME NEW r \in Requests, NEW t \in Trades, RejectCheck(r, t)
       PROVE  ClosedWasAccepted' /\ OnlyAcceptedAreClosed'
  BY <1>29
     DEF RejectCheck, Checked, journal, tick, ClosedWasAccepted,
         OnlyAcceptedAreClosed
<1>30. ASSUME NEW r \in Requests, NEW t \in Trades, CloseCheck(r, t)
       PROVE  ClosedWasAccepted' /\ OnlyAcceptedAreClosed'
  BY <1>30
     DEF CloseCheck, Checked, journal, tick, ClosedWasAccepted,
         OnlyAcceptedAreClosed
<1>31. CASE UNCHANGED vars
  BY <1>31 DEF vars, journal, tick, ClosedWasAccepted, OnlyAcceptedAreClosed
<1>32. QED
  BY <1>1, <1>2, <1>3, <1>4, <1>5, <1>6, <1>7, <1>8, <1>9, <1>10, <1>11,
     <1>12, <1>13, <1>14, <1>15, <1>16, <1>17, <1>18, <1>19, <1>20, <1>21,
     <1>22, <1>23, <1>24, <1>25, <1>26, <1>27, <1>28, <1>29, <1>30, <1>31
     DEF Next, Scheduler, Trader, Answer

-----------------------------------------------------------------------------
(* The theorems.                                                           *)

\* The inductive invariant holds at first.
LEMMA InitIInv == Init => IInv
<1> SUFFICES ASSUME Init PROVE IInv
  OBVIOUS
<1>1. TypeOK
  <2>1. /\ req \in [Requests -> [op : Ops, id : Trades]]
        /\ age \in [Trades -> 0 .. MaxAge]
        /\ row \in [Trades -> [ul : Underlyings, snap : 0 .. LastSnap]]
    BY SomeoneIsUnderlying, NoRequestIsTyped, LimitsAreNumbers DEF Init
  <2>2. /\ cur \in Underlyings
        /\ snapNow \in 0 .. LastSnap + 1
        /\ tickSnap \in 0 .. LastSnap
    BY SomeoneIsUnderlying, LimitsAreNumbers DEF Init
  <2>3. QED
    BY <2>1, <2>2 DEF Init, TypeOK, Status, Phases
<1>2. PendingTrades = {}
  BY DEF Init, PendingTrades, VisiblePending
<1>3. FreshIds /\ ClosedWasAccepted /\ OnlyAcceptedAreClosed
  BY DEF Init, FreshIds, ClosedWasAccepted, OnlyAcceptedAreClosed, NoRequest
<1>4. QED
  BY <1>1, <1>2, <1>3
     DEF IInv, Init, OnePendingPerUnderlying, SlotEmptyBeforeIssue,
         NothingStale, StaleAreBeingExpired, SweepCoversPending,
         SweptStaysOver, NothingPendingAfterSweep, Sweeping

\* Every step keeps the inductive invariant.
LEMMA StepIInv == IInv /\ [Next]_vars => IInv'
BY TypeStep, FreshStep, OnePendingStep, SlotEmptyStep, StaleStep, SweepStep,
   AcceptedStep
   DEF IInv

\* Every reachable state satisfies the inductive invariant.
THEOREM Invariance == Spec => []IInv
BY InitIInv, StepIInv, PTL DEF Spec

\* Variables keep their types: ticks, requests, faults and nights in any number.
THEOREM TypeCorrect == Spec => []TypeOK
<1>1. IInv => TypeOK
  BY DEF IInv
<1>2. QED
  BY <1>1, Invariance, PTL

\* No underlying ever has two recommendations on display.
THEOREM OnePending == Spec => []OnePendingPerUnderlying
<1>1. IInv => OnePendingPerUnderlying
  BY DEF IInv
<1>2. QED
  BY <1>1, Invariance, PTL

\* Whatever is closed was accepted, by however many requests at once.
THEOREM ClosedAccepted == Spec => []ClosedWasAccepted
<1>1. IInv => ClosedWasAccepted
  BY DEF IInv
<1>2. QED
  BY <1>1, Invariance, PTL

\* The expiry step leaves no recommendation the queries return that is of an
\* earlier session or beyond the expiry window.
THEOREM StaleExpired == Spec => []StaleExpiredBeforeIssue
<1>1. IInv => StaleExpiredBeforeIssue
  <2> SUFFICES ASSUME IInv, phase \in PastExpiry, NEW t \in PendingTrades
               PROVE  age[t] = 0 /\ tickSnap < row[t].snap + ExpirySnaps
    BY DEF StaleExpiredBeforeIssue
  <2>1. TypeOK /\ t \in Trades /\ ~Stale(t)
    BY DEF IInv, NothingStale, PendingTrades
  <2>2. QED
    BY <2>1, NotStale
<1>2. QED
  BY <1>1, Invariance, PTL

\* A committed sweep ends the session for recommendations, crashes included.
THEOREM SweepIsFinal == Spec => []NothingPendingAfterSweep
<1>1. IInv => NothingPendingAfterSweep
  BY DEF IInv
<1>2. QED
  BY <1>1, Invariance, PTL

\* The slots of RecommendationSlot, as seen in the journal.
CardsOf(u) == {t \in PendingTrades : row[t].ul = u}
Issued     == {t \in Trades : status[t] # "FREE"}

\* A step of the journal is a step of the slots: RecIssue is Issue, every other
\* step resolves the slots it empties, or is a stutter.
LEMMA SlotStep ==
  ASSUME IInv, IInv', [Next]_vars
  PROVE  [Slot!Next]_<<[u \in Underlyings |-> CardsOf(u)], Issued>>
<1>0. TypeOK /\ TypeOK' /\ FreshIds /\ OnePendingPerUnderlying /\ SlotEmptyBeforeIssue
  BY DEF IInv
<1>1. ASSUME NEW t \in Trades, RecIssue(t) PROVE Slot!Next
  <2>1. /\ \A s \in PendingTrades : s # t /\ row[s].ul # cur
        /\ status[t] = "FREE" /\ cur \in Underlyings
    BY <1>0, <1>1
       DEF RecIssue, PendingTrades, VisiblePending, SlotEmptyBeforeIssue,
           HasPending, TypeOK
  <2>2. /\ PendingTrades' = PendingTrades \union {t}
        /\ \A s \in Trades : row'[s] = IF s = t THEN [ul |-> cur, snap |-> tickSnap]
                                        ELSE row[s]
    BY <1>0, <1>1, ConstantsAssumption
       DEF RecIssue, FreshIds, PendingTrades, VisiblePending, TypeOK
  <2>3. Issued' = Issued \union {t}
    BY <1>0, <1>1 DEF RecIssue, Issued, TypeOK
  <2>4. CardsOf(cur) = {} /\ t \notin Issued
    BY <2>1 DEF CardsOf, Issued
  <2>5. \A u \in Underlyings : CardsOf(u)' = IF u = cur THEN {t} ELSE CardsOf(u)
    BY <2>1, <2>2 DEF CardsOf, PendingTrades
  <2>6. PICK v \in Underlyings : v = cur
    BY <2>1
  <2>7. Slot!Issue(v, t)
    BY <2>3, <2>4, <2>5, <2>6 DEF Slot!Issue, CardsOf, Issued
  <2>8. QED
    BY <2>7 DEF Slot!Next
<1>2. ASSUME RowsMoveOn PROVE Slot!Next
  <2>1. \A t \in PendingTrades' : t \in PendingTrades /\ row'[t] = row[t]
    BY <1>0, <1>2, PendingShrinks
  <2>2. Issued' = Issued
    BY <1>2 DEF RowsMoveOn, Issued
  <2>3. ASSUME NEW u \in Underlyings
        PROVE  CardsOf(u)' = CardsOf(u) \/ CardsOf(u)' = {}
    <3>1. CardsOf(u)' \subseteq CardsOf(u)
      BY <2>1 DEF CardsOf
    <3>2. \A c, d \in CardsOf(u) : c = d
      BY <1>0 DEF CardsOf, OnePendingPerUnderlying
    <3>3. ASSUME NEW c \in CardsOf(u)' PROVE CardsOf(u) \subseteq CardsOf(u)'
      BY <3>1, <3>2
    <3>4. CASE CardsOf(u)' = {}
      BY <3>4
    <3>5. CASE \E c \in CardsOf(u)' : TRUE
      <4>1. CardsOf(u) \subseteq CardsOf(u)'
        BY <3>3, <3>5
      <4>2. QED
        BY <3>1, <4>1
    <3>6. QED
      BY <3>5
  <2>4. PICK U \in SUBSET Underlyings :
              \A u \in Underlyings : u \in U <=> CardsOf(u)' = {}
    <3>1. {u \in Underlyings : CardsOf(u)' = {}} \in SUBSET Underlyings
      OBVIOUS
    <3>2. QED
      BY <3>1
  <2>5. \A u \in Underlyings : CardsOf(u)' = IF u \in U THEN {} ELSE CardsOf(u)
    BY <2>3, <2>4
  <2>6. Slot!Resolve(U)
    BY <2>2, <2>5 DEF Slot!Resolve, CardsOf, Issued
  <2>7. QED
    BY <2>6 DEF Slot!Next
<1>3. QED
  BY <1>0, <1>1, <1>2, RowStep DEF Issues

\* The journal under the scheduler and any number of requests implements the
\* slots promised to the trader.
THEOREM ImplementsSlots == Spec => SlotSpec
<1>1. Init => Slot!Init
  BY DEF Init, Slot!Init, PendingTrades, VisiblePending
<1>2. IInv /\ IInv' /\ [Next]_vars
      => [Slot!Next]_<<[u \in Underlyings |-> CardsOf(u)], Issued>>
  BY SlotStep
<1>3. QED
  BY <1>1, <1>2, Invariance, PTL DEF Spec, SlotSpec, Slot!Spec, CardsOf, Issued
==============================================================================
