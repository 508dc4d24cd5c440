---------------------------- MODULE CommentProofs ----------------------------
(***************************************************************************)
(* Where comments of the code are right after all: three of the statements *)
(* that TradeLifecycle violates are proved here under the condition that   *)
(* excludes the one cause of the violation, for any number of underlyings, *)
(* trades and concurrent requests.                                         *)
(***************************************************************************)
EXTENDS TradeLifecycleProofs

-----------------------------------------------------------------------------
(* The transaction of the scheduler's connection.                          *)

\* The scheduler keeps a transaction open only while it tracks positions.
OpenOnlyInTrack == txn => phase = "track"

\* A tick that does not fail commits what it has buffered.
LEMMA OpenOnlyInTrackStep ==
  ASSUME "tick" \notin Faults, OpenOnlyInTrack, [Next]_vars
  PROVE  OpenOnlyInTrack'
<1>1. CASE AdvanceSnap \/ NewDay
  BY <1>1 DEF AdvanceSnap, NewDay, tick, OpenOnlyInTrack
<1>2. CASE TickStart \/ SweepDone \/ SweepReadPending \/ SweepReadOpen
  BY <1>2
     DEF TickStart, SweepDone, SweepReadPending, SweepReadOpen, Goto, OpenOnlyInTrack
<1>3. CASE SweepCommit \/ SweepFails \/ FinalizeShadows
  BY <1>3 DEF SweepCommit, SweepFails, FinalizeShadows, OpenOnlyInTrack
<1>4. CASE ExpireRead \/ ExpireEnd \/ \E t \in Trades : ExpireOne(t)
  BY <1>4 DEF ExpireRead, ExpireEnd, ExpireOne, OpenOnlyInTrack
<1>5. CASE \/ RecReadPending \/ RecDecline \/ \E u \in Underlyings : RecReadOpen(u)
           \/ \E t \in Trades : RecIssue(t)
  BY <1>5 DEF RecReadPending, RecDecline, RecReadOpen, RecIssue, OpenOnlyInTrack
<1>6. CASE TrackRead \/ TrackEnd \/ TrackShadows
  BY <1>6 DEF TrackRead, TrackEnd, TrackShadows, Goto, OpenOnlyInTrack
<1>7. CASE \E t \in Trades : TrackKeep(t) \/ TrackClose(t)
  BY <1>7 DEF TrackKeep, TrackClose, OpenOnlyInTrack
<1>8. CASE TickFails \/ Crash
  BY <1>8 DEF TickFails, Crash, OpenOnlyInTrack
<1>9. CASE Trader
  BY <1>9
     DEF Trader, Answer, AcceptWrite, RejectWrite, CloseWrite, Write, RequestFails,
         AcceptCheck, RejectCheck, CloseCheck, Checked, tick, OpenOnlyInTrack
<1>10. CASE UNCHANGED vars
  BY <1>10 DEF vars, tick, OpenOnlyInTrack
<1>11. QED
  BY <1>1, <1>2, <1>3, <1>4, <1>5, <1>6, <1>7, <1>8, <1>9, <1>10
     DEF Next, Scheduler

\* As long as no tick fails, the commit of tracker.py (P6-E) does flush all snaps of
\* the tick: no transaction outlives it, whatever sweeps, requests and crashes do.
THEOREM TransactionsEndWithTheTick ==
  ASSUME "tick" \notin Faults PROVE Spec => []NoTransactionBetweenTicks
<1>1. Init => OpenOnlyInTrack
  BY DEF Init, OpenOnlyInTrack
<1>2. OpenOnlyInTrack /\ [Next]_vars => OpenOnlyInTrack'
  BY OpenOnlyInTrackStep
<1>3. OpenOnlyInTrack => NoTransactionBetweenTicks
  BY DEF OpenOnlyInTrack, NoTransactionBetweenTicks
<1>4. QED
  BY <1>1, <1>2, <1>3, PTL DEF Spec

-----------------------------------------------------------------------------
(* The course of a session.                                                *)

Session == <<snapNow, ticked, doneToday, swept>>
Working == PastExpiry \union {"expire"}

\* The tick, if any, stays where it is, or goes on after its expiry step.
GoesOn ==
    /\ UNCHANGED Session
    /\ phase' = phase \/ (phase \in Working /\ phase' \in PastExpiry)

\* The steps by what they do to the session.
LEMMA SessionSteps ==
  ASSUME TypeOK, [Next]_vars
  PROVE  \/ GoesOn \/ AdvanceSnap \/ NewDay \/ TickStart \/ SweepDone
         \/ SweepReadPending \/ SweepReadOpen \/ SweepCommit \/ SweepFails
         \/ FinalizeShadows \/ ExpireRead \/ TrackShadows \/ TickFails \/ Crash
<1>1. CASE \/ ExpireEnd \/ RecReadPending \/ RecDecline \/ TrackRead \/ TrackEnd
           \/ \E u \in Underlyings : RecReadOpen(u)
  BY <1>1
     DEF ExpireEnd, RecReadPending, RecDecline, TrackRead, TrackEnd, RecReadOpen, Goto,
         clock, GoesOn, Session, Working, PastExpiry
<1>2. CASE \E t \in Trades : ExpireOne(t) \/ RecIssue(t) \/ TrackKeep(t) \/ TrackClose(t)
  BY <1>2
     DEF ExpireOne, RecIssue, TrackKeep, TrackClose, Goto, clock, GoesOn, Session,
         Working, PastExpiry
<1>3. CASE Trader
  BY <1>3
     DEF Trader, Answer, AcceptWrite, RejectWrite, CloseWrite, Write, RequestFails,
         AcceptCheck, RejectCheck, CloseCheck, Checked, clock, tick, GoesOn, Session
<1>4. CASE UNCHANGED vars
  BY <1>4 DEF vars, clock, tick, GoesOn, Session
<1>5. QED
  BY <1>1, <1>2, <1>3, <1>4 DEF Next, Scheduler

\* Rows grow older overnight only.
LEMMA AgesStand == ASSUME [Next]_vars, ~NewDay PROVE age' = age
<1>1. CASE AdvanceSnap \/ TickStart \/ SweepDone \/ SweepReadPending \/ SweepReadOpen
  BY <1>1
     DEF AdvanceSnap, TickStart, SweepDone, SweepReadPending, SweepReadOpen, journal
<1>2. CASE SweepCommit \/ SweepFails \/ FinalizeShadows \/ TickFails \/ Crash
  BY <1>2 DEF SweepCommit, SweepFails, FinalizeShadows, TickFails, Crash, journal
<1>3. CASE \/ ExpireRead \/ ExpireEnd \/ RecReadPending \/ RecDecline
           \/ TrackRead \/ TrackEnd \/ TrackShadows
           \/ \E u \in Underlyings : RecReadOpen(u)
  BY <1>3
     DEF ExpireRead, ExpireEnd, RecReadPending, RecDecline, TrackRead, TrackEnd,
         TrackShadows, RecReadOpen, journal
<1>4. CASE \E t \in Trades : ExpireOne(t) \/ RecIssue(t) \/ TrackKeep(t) \/ TrackClose(t)
  BY <1>4 DEF ExpireOne, RecIssue, TrackKeep, TrackClose, journal
<1>5. CASE Trader
  BY <1>5
     DEF Trader, Answer, AcceptWrite, RejectWrite, CloseWrite, Write, RequestFails,
         AcceptCheck, RejectCheck, CloseCheck, Checked, journal
<1>6. CASE UNCHANGED vars
  BY <1>6 DEF vars, journal
<1>7. QED
  BY <1>1, <1>2, <1>3, <1>4, <1>5, <1>6 DEF Next, Scheduler

-----------------------------------------------------------------------------
(* Recommendations of earlier sessions.                                    *)

Generated == {t \in Trades : status[t] = "GENERATED"}

\* All recommendations are of this session.
OnlyToday == \A t \in Generated : age[t] = 0

\* Only a night makes a recommendation older; new ones are of today.
LEMMA AgesOfGenerated ==
  ASSUME IInv, IInv', [Next]_vars, ~NewDay
  PROVE  \A t \in Generated' : \/ t \in Generated /\ age'[t] = age[t]
                               \/ age'[t] = 0
<1>1. age' = age /\ TypeOK /\ FreshIds
  BY AgesStand DEF IInv
<1>2. CASE RowsMoveOn
  BY <1>1, <1>2 DEF RowsMoveOn, Generated
<1>3. ASSUME NEW t \in Trades, RecIssue(t)
      PROVE  \A s \in Generated' : s \in Generated \/ age'[s] = 0
  BY <1>1, <1>3 DEF RecIssue, Generated, FreshIds, TypeOK
<1>4. QED
  BY <1>1, <1>2, <1>3, RowStep DEF Issues

-----------------------------------------------------------------------------
(* Sessions that are swept.                                                *)

\* Every session is swept with its first tick from the sweep's time on.
SweptInTime ==
    /\ phase \in Working => snapNow < EodSnap
    /\ (phase = "idle" /\ (snapNow > EodSnap \/ (snapNow = EodSnap /\ ticked))) => swept
    /\ (doneToday \/ phase = "eodShadows") => swept

SweptInv == OnlyToday /\ SweptInTime

\* A session goes by its sweep, and a night finds no recommendation.
LEMMA SweptInvStep ==
  ASSUME Punctual, Faults \subseteq {"tick"}, IInv, IInv', SweptInv, [Next]_vars
  PROVE  SweptInv'
<1>0. /\ EodSnap \in Nat /\ LastSnap \in Nat /\ EodSnap <= LastSnap
      /\ snapNow \in Nat /\ TypeOK
  BY ConstantsAssumption DEF IInv, TypeOK
<1>1. ASSUME ~NewDay PROVE OnlyToday'
  BY <1>1, AgesOfGenerated DEF SweptInv, OnlyToday
<1>2. CASE NewDay
  <2>1. swept /\ status' = status
    BY <1>0, <1>2 DEF NewDay, SweptInv, SweptInTime
  <2>2. Generated = {}
    <3>1. PendingTrades = {}
      BY <2>1 DEF IInv, NothingPendingAfterSweep
    <3>2. Generated \subseteq PendingTrades
      BY ConstantsAssumption
         DEF SweptInv, OnlyToday, Generated, PendingTrades, VisiblePending
    <3>3. QED
      BY <3>1, <3>2
  <2>3. OnlyToday'
    BY <2>1, <2>2 DEF OnlyToday, Generated
  <2>4. SweptInTime'
    BY <1>0, <1>2 DEF NewDay, tick, SweptInTime, Working, PastExpiry
  <2>5. QED
    BY <2>3, <2>4 DEF SweptInv
<1>3. CASE AdvanceSnap
  <2>1. ticked /\ phase = "idle" /\ phase' = "idle" /\ snapNow' = snapNow + 1
        /\ ticked' = FALSE /\ UNCHANGED <<doneToday, swept>>
    BY <1>3 DEF AdvanceSnap, tick
  <2>2. SweptInTime'
    BY <1>0, <2>1 DEF SweptInv, SweptInTime, Working, PastExpiry
  <2>3. ~NewDay
    BY <1>0, <1>3 DEF AdvanceSnap, NewDay
  <2>4. QED
    BY <1>1, <2>2, <2>3 DEF SweptInv
<1>4. ASSUME ~NewDay, ~AdvanceSnap PROVE SweptInTime'
  <2>1. CASE GoesOn
    BY <2>1
       DEF GoesOn, Session, SweptInv, SweptInTime, Working, PastExpiry
  <2>2. CASE TickStart
    BY <2>2 DEF TickStart, SweptInv, SweptInTime, Working, PastExpiry
  <2>3. CASE SweepDone
    BY <2>3 DEF SweepDone, Return, clock, SweptInv, SweptInTime, Working, PastExpiry
  <2>4. CASE SweepReadPending \/ SweepReadOpen \/ SweepCommit
    BY <2>4
       DEF SweepReadPending, SweepReadOpen, SweepCommit, Goto, clock, SweptInv,
           SweptInTime, Working, PastExpiry
  <2>5. CASE SweepFails \/ Crash
    BY <2>5 DEF SweepFails, Crash
  <2>6. CASE FinalizeShadows
    BY <2>6
       DEF FinalizeShadows, Return, clock, SweptInv, SweptInTime, Working, PastExpiry
  <2>7. CASE ExpireRead
    BY <1>0, <2>7
       DEF ExpireRead, IsEod, Goto, clock, SweptInv, SweptInTime, Working, PastExpiry
  <2>8. CASE TrackShadows \/ TickFails
    <3>1. phase \in Working /\ phase' = "idle" /\ UNCHANGED Session
      BY <2>8
         DEF TrackShadows, TickFails, Return, clock, Session, Working, PastExpiry
    <3>2. QED
      BY <1>0, <3>1 DEF Session, SweptInv, SweptInTime, Working, PastExpiry
  <2>9. QED
    BY <1>0, <1>4, <2>1, <2>2, <2>3, <2>4, <2>5, <2>6, <2>7, <2>8, SessionSteps
<1>5. QED
  BY <1>1, <1>2, <1>3, <1>4 DEF SweptInv

\* The comment P0-2 of tracker.py is right if no session misses its sweep: neither
\* weekends, failed ticks nor racing requests leave a recommendation to the next one.
THEOREM SweptSessionsLeaveNothing ==
  ASSUME Punctual, Faults \subseteq {"tick"} PROVE Spec => []PriorSessionExpired
<1>1. Init => SweptInv
  BY ConstantsAssumption
     DEF Init, SweptInv, OnlyToday, Generated, SweptInTime, Working, PastExpiry
<1>2. IInv /\ IInv' /\ SweptInv /\ [Next]_vars => SweptInv'
  BY SweptInvStep
<1>3. SweptInv => PriorSessionExpired
  BY DEF SweptInv, OnlyToday, Generated, PriorSessionExpired
<1>4. QED
  BY <1>1, <1>2, <1>3, Invariance, PTL DEF Spec

-----------------------------------------------------------------------------
(* Sessions that follow each other within the age limit.                   *)

\* No recommendation is out of the queries' sight, and the first tick of the
\* session leaves none of an earlier one.
FirstTickExpires ==
    /\ \A t \in Generated : age[t] <= PendingDays
    /\ (snapNow > 0 \/ (ticked /\ phase = "idle")) => OnlyToday
    /\ doneToday => IsEod

\* After the expiry step all recommendations are of today.
LEMMA ExpiryLeavesToday ==
  ASSUME IInv, FirstTickExpires, phase \in PastExpiry
  PROVE  OnlyToday
<1>1. Generated \subseteq PendingTrades
  BY DEF FirstTickExpires, Generated, PendingTrades, VisiblePending
<1>2. \A t \in PendingTrades : ~Stale(t)
  BY DEF IInv, NothingStale
<1>3. \A t \in Generated : age[t] \in Nat /\ ~(age[t] > 0)
  BY <1>1, <1>2, ConstantsAssumption DEF IInv, TypeOK, Stale, Generated, MaxAge
<1>4. QED
  BY <1>3 DEF OnlyToday

\* The first tick of a session sees every recommendation there is.
LEMMA FirstTickStep ==
  ASSUME Punctual, Faults \subseteq {"sweep"}, EodSnap > 0,
         \A gap \in Gaps : gap <= PendingDays,
         IInv, IInv', FirstTickExpires, [Next]_vars
  PROVE  FirstTickExpires'
<1>0. /\ EodSnap \in Nat /\ LastSnap \in Nat /\ PendingDays \in Nat /\ OpenDays \in Nat
      /\ Gaps \subseteq Nat /\ PendingDays <= OpenDays /\ snapNow \in Nat /\ TypeOK
  BY ConstantsAssumption DEF IInv, TypeOK
<1>1. CASE NewDay
  <2>1. OnlyToday
    BY <1>0, <1>1 DEF NewDay, FirstTickExpires
  <2>2. PICK gap \in Gaps : age' = [t \in Trades |->
                               IF status[t] = "FREE" THEN age[t]
                               ELSE IF age[t] + gap > MaxAge THEN MaxAge ELSE age[t] + gap]
    BY <1>1 DEF NewDay
  <2>3. \A t \in Generated' : age'[t] = gap
    <3>1. Generated' = Generated
      BY <1>1 DEF NewDay, Generated
    <3>2. \A t \in Generated : age[t] = 0 /\ t \in Trades /\ status[t] = "GENERATED"
      BY <2>1 DEF OnlyToday, Generated
    <3>3. gap \in Nat /\ ~(0 + gap > MaxAge) /\ 0 + gap = gap
      BY <1>0 DEF MaxAge
    <3>4. QED
      BY <2>2, <3>1, <3>2, <3>3
  <2>4. snapNow' = 0 /\ ~ticked' /\ ~doneToday'
    BY <1>1 DEF NewDay
  <2>5. QED
    BY <2>3, <2>4 DEF FirstTickExpires
<1>2. ASSUME ~NewDay PROVE FirstTickExpires'
  <2>1. \A t \in Generated' : age'[t] <= PendingDays
    BY <1>0, <1>2, AgesOfGenerated DEF FirstTickExpires
  <2>2. OnlyToday => OnlyToday'
    BY <1>2, AgesOfGenerated DEF OnlyToday
  <2>3. phase \in Sweeping => IsEod
    BY DEF IInv, SweepCoversPending
  <2>4. CASE GoesOn
    BY <1>2, <2>1, <2>2, <2>4 DEF GoesOn, Session, FirstTickExpires, IsEod,
       PastExpiry
  <2>5. CASE AdvanceSnap
    BY <1>0, <2>1, <2>2, <2>5 DEF AdvanceSnap, FirstTickExpires, IsEod
  <2>6. CASE TickStart \/ SweepReadPending \/ SweepReadOpen \/ ExpireRead
    BY <2>1, <2>2, <2>6
       DEF TickStart, SweepReadPending, SweepReadOpen, ExpireRead, Goto, clock,
           FirstTickExpires, IsEod
  <2>7. CASE SweepCommit \/ SweepFails
    <3>1. phase' = "eodShadows" /\ UNCHANGED clock /\ UNCHANGED doneToday
      BY <2>7, Zenon DEF SweepCommit, SweepFails, Goto
    <3>2. phase = "eodWrite"
      BY <2>7, Zenon DEF SweepCommit, SweepFails
    <3>3. QED
      BY <2>1, <2>2, <3>1, <3>2 DEF clock, FirstTickExpires, IsEod
  <2>8. CASE SweepDone \/ FinalizeShadows
    <3>1. IsEod /\ UNCHANGED snapNow
      BY <2>3, <2>8 DEF SweepDone, FinalizeShadows, clock, FirstTickExpires, Sweeping
    <3>2. snapNow > 0
      BY <1>0, <3>1 DEF IsEod
    <3>3. QED
      BY <2>1, <2>2, <3>1, <3>2 DEF FirstTickExpires, IsEod
  <2>9. CASE TrackShadows
    <3>1. OnlyToday
      BY <2>9, ExpiryLeavesToday DEF TrackShadows, PastExpiry
    <3>2. QED
      BY <2>1, <2>2, <2>9, <3>1 DEF TrackShadows, clock, FirstTickExpires, IsEod
  <2>10. CASE TickFails \/ Crash
    BY <2>10 DEF TickFails, Crash
  <2>11. QED
    BY <1>0, <1>2, <2>4, <2>5, <2>6, <2>7, <2>8, <2>9, <2>10, SessionSteps
<1>3. QED
  BY <1>1, <1>2

\* The comment P0-2 is right even after failed sweeps, if no two sessions lie
\* further apart than get_pending_trades looks back and every session has its first
\* tick: it is the weekend that hides the recommendation.
THEOREM ShortGapsAreExpired ==
  ASSUME Punctual, Faults \subseteq {"sweep"}, EodSnap > 0,
         \A gap \in Gaps : gap <= PendingDays
  PROVE  Spec => []PriorSessionExpired
<1>1. Init => FirstTickExpires
  BY DEF Init, FirstTickExpires, Generated
<1>2. IInv /\ IInv' /\ FirstTickExpires /\ [Next]_vars => FirstTickExpires'
  BY FirstTickStep
<1>3. IInv /\ FirstTickExpires => PriorSessionExpired
  BY ExpiryLeavesToday DEF OnlyToday, Generated, PriorSessionExpired
<1>4. QED
  BY <1>1, <1>2, <1>3, Invariance, PTL DEF Spec
==============================================================================
