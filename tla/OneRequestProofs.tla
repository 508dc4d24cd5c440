-------------------------- MODULE OneRequestProofs --------------------------
(***************************************************************************)
(* What holds of TradeLifecycle as long as requests come one at a time:    *)
(* then a row whose check has passed is touched by nobody but the          *)
(* scheduler, which only expires it.                                       *)
(***************************************************************************)
EXTENDS TradeLifecycleProofs

OneRequestAtATime == \A q, r \in Requests : q = r

ShadowRows(t) == shadows[t].open + shadows[t].closed

\* A row that carries nothing but its recommendation.
Untouched(t) == ~accepted[t] /\ ~exited[t] /\ ShadowRows(t) = 0

NewAreUntouched ==
    \A t \in Trades : status[t] \in {"FREE", "GENERATED"} => Untouched(t)

\* What a request has checked for acceptance or rejection is at most expired since.
CheckedAreUntouched ==
    \A r \in Requests : req[r].op \in {"accept", "reject"} =>
        status[req[r].id] \in {"GENERATED", "EXPIRED"} /\ Untouched(req[r].id)

RowsInv ==
    /\ NewAreUntouched
    /\ CheckedAreUntouched
    /\ ShadowOnlyOfSkipped
    /\ NeverReopened

-----------------------------------------------------------------------------

\* Steps that leave statuses, marks and requests alone, and at most close shadows.
Quiet ==
    /\ UNCHANGED <<status, accepted, exited, req>>
    /\ \A t \in Trades : ShadowRows(t)' = ShadowRows(t)

\* Closing shadows keeps their number.
LEMMA ClosedStillCounted ==
  ASSUME TypeOK, NEW T, CloseShadows(T)
  PROVE  \A t \in Trades : ShadowRows(t)' = ShadowRows(t)
BY DEF CloseShadows, ShadowRows, TypeOK

\* Quiet steps keep what is said about the rows.
LEMMA QuietStep == TypeOK /\ RowsInv /\ Quiet => RowsInv'
<1> SUFFICES ASSUME TypeOK, RowsInv, Quiet PROVE RowsInv'
  OBVIOUS
<1>1. \A t \in Trades : Untouched(t) => Untouched(t)'
  BY DEF Untouched, Quiet
<1>2. NewAreUntouched' /\ NeverReopened'
  BY <1>1 DEF RowsInv, NewAreUntouched, NeverReopened, Quiet
<1>3. CheckedAreUntouched'
  BY <1>1 DEF RowsInv, CheckedAreUntouched, Quiet, TypeOK
<1>4. ShadowOnlyOfSkipped'
  BY DEF RowsInv, ShadowOnlyOfSkipped, ShadowRows, Quiet
<1>5. QED
  BY <1>2, <1>3, <1>4 DEF RowsInv

\* Every step is quiet, is one that changes a status, or ends or begins a request.
LEMMA KindsOfSteps ==
  ASSUME TypeOK, [Next]_vars
  PROVE  \/ Quiet \/ SweepCommit \/ Crash
         \/ \E t \in Trades : ExpireOne(t) \/ RecIssue(t) \/ TrackClose(t)
         \/ Trader
<1>1. CASE AdvanceSnap \/ NewDay
  BY <1>1 DEF AdvanceSnap, NewDay, journal, Quiet, ShadowRows
<1>2. CASE \/ TickStart \/ SweepDone \/ SweepReadPending \/ SweepReadOpen
           \/ ExpireRead \/ ExpireEnd \/ RecReadPending \/ RecDecline
           \/ TrackRead \/ TrackEnd
  BY <1>2
     DEF TickStart, SweepDone, SweepReadPending, SweepReadOpen, ExpireRead, ExpireEnd,
         RecReadPending, RecDecline, TrackRead, TrackEnd, journal, Quiet, ShadowRows
<1>3. CASE FinalizeShadows
  BY <1>3, ClosedStillCounted DEF FinalizeShadows, Quiet, ShadowRows
<1>4. CASE TrackShadows
  BY <1>4, ClosedStillCounted DEF TrackShadows, Quiet
<1>5. CASE SweepFails \/ TickFails \/ UNCHANGED vars
  BY <1>5 DEF SweepFails, TickFails, vars, journal, Quiet, ShadowRows
<1>6. CASE \/ \E u \in Underlyings : RecReadOpen(u)
           \/ \E t \in Trades : TrackKeep(t)
  BY <1>6 DEF RecReadOpen, TrackKeep, journal, Quiet, ShadowRows
<1>7. QED
  BY <1>1, <1>2, <1>3, <1>4, <1>5, <1>6 DEF Next, Scheduler

\* The scheduler only expires rows that a request may have checked, and closes
\* only rows that were accepted.
LEMMA SchedulerStep ==
  ASSUME IInv, RowsInv, NEW t \in Trades,
         SweepCommit \/ ExpireOne(t) \/ RecIssue(t) \/ TrackClose(t)
  PROVE  RowsInv'
<1>0. TypeOK /\ FreshIds /\ OnlyAcceptedAreClosed
  BY DEF IInv
<1> USE <1>0 DEF RowsInv, NewAreUntouched, CheckedAreUntouched, ShadowOnlyOfSkipped,
            NeverReopened, Untouched, ShadowRows, TypeOK, OnlyAcceptedAreClosed, FreshIds
<1>1. CASE SweepCommit
  BY <1>1 DEF SweepCommit
<1>2. CASE ExpireOne(t)
  BY <1>2 DEF ExpireOne
<1>3. CASE RecIssue(t)
  BY <1>3 DEF RecIssue, NoRequest
<1>4. CASE TrackClose(t)
  BY <1>4 DEF TrackClose
<1>5. QED
  BY <1>1, <1>2, <1>3, <1>4

\* A request writes what its check allows.
LEMMA RequestStep ==
  ASSUME OneRequestAtATime, IInv, RowsInv, Trader
  PROVE  RowsInv'
<1>0. TypeOK /\ OnlyAcceptedAreClosed
  BY DEF IInv
<1> USE <1>0 DEF RowsInv, NewAreUntouched, CheckedAreUntouched, ShadowOnlyOfSkipped,
            NeverReopened, Untouched, ShadowRows, TypeOK, OnlyAcceptedAreClosed,
            OneRequestAtATime
<1>1. ASSUME NEW r \in Requests, AcceptWrite(r) PROVE RowsInv'
  BY <1>1 DEF AcceptWrite, Write, NoRequest
<1>2. ASSUME NEW r \in Requests, RejectWrite(r) PROVE RowsInv'
  BY <1>2 DEF RejectWrite, Write, NoRequest
<1>3. ASSUME NEW r \in Requests, CloseWrite(r) PROVE RowsInv'
  BY <1>3 DEF CloseWrite, Write, NoRequest
<1>4. ASSUME NEW r \in Requests, RequestFails(r) PROVE RowsInv'
  BY <1>4 DEF RequestFails, NoRequest, journal
<1>5. ASSUME NEW r \in Requests, NEW t \in Trades,
             AcceptCheck(r, t) \/ RejectCheck(r, t) \/ CloseCheck(r, t)
      PROVE  RowsInv'
  BY <1>5 DEF AcceptCheck, RejectCheck, CloseCheck, Checked, journal
<1>6. QED
  BY <1>1, <1>2, <1>3, <1>4, <1>5 DEF Trader, Answer

\* With one request at a time, every step keeps the rows consistent.
LEMMA RowsStep ==
  ASSUME OneRequestAtATime
  PROVE  IInv /\ RowsInv /\ [Next]_vars => RowsInv'
<1> SUFFICES ASSUME IInv, RowsInv, [Next]_vars PROVE RowsInv'
  OBVIOUS
<1>1. TypeOK
  BY DEF IInv
<1>2. CASE Crash
  BY <1>2
     DEF Crash, NoRequest, journal, RowsInv, NewAreUntouched, CheckedAreUntouched,
         ShadowOnlyOfSkipped, NeverReopened, Untouched, ShadowRows
<1>3. Trades # {}
  BY ConstantsAssumption DEF Trades
<1>4. QED
  BY <1>1, <1>2, <1>3, KindsOfSteps, QuietStep, SchedulerStep, RequestStep

\* The first rows are still to come.
LEMMA RowsInit == Init => RowsInv
BY DEF Init, RowsInv, NewAreUntouched, CheckedAreUntouched, ShadowOnlyOfSkipped,
       NeverReopened, Untouched, ShadowRows, NoRequest

\* As long as requests come one at a time, a trade with a shadow was skipped and
\* is counted once, however its rejection races with the tick and the sweep.
THEOREM ShadowsOfSkipped ==
  ASSUME OneRequestAtATime
  PROVE  Spec => []ShadowOnlyOfSkipped
<1>1. IInv /\ RowsInv /\ [Next]_vars => RowsInv'
  BY RowsStep
<1>2. RowsInv => ShadowOnlyOfSkipped
  BY DEF RowsInv
<1>3. QED
  BY <1>1, <1>2, RowsInit, Invariance, PTL DEF Spec

\* As long as requests come one at a time, no closed position is opened again,
\* however its acceptance races with the tick and the sweep.
THEOREM ClosedStayClosed ==
  ASSUME OneRequestAtATime
  PROVE  Spec => []NeverReopened
<1>1. IInv /\ RowsInv /\ [Next]_vars => RowsInv'
  BY RowsStep
<1>2. RowsInv => NeverReopened
  BY DEF RowsInv
<1>3. QED
  BY <1>1, <1>2, RowsInit, Invariance, PTL DEF Spec
=============================================================================
