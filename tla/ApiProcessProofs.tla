-------------------------- MODULE ApiProcessProofs --------------------------
(***************************************************************************)
(* Proofs about ApiProcess, for any number of worker threads and trades,   *)
(* any lookback, and all failures.                                         *)
(***************************************************************************)
EXTENDS ApiProcess, TLAPS

Refreshing == {"refresh", "wait", "swap"}

\* A thread that executes or replaces the view holds the lock.
HoldersHaveLock ==
    \A th \in Threads : pc[th] \in {"execute", "swap"} => lock = th

\* Refreshes do not overlap: the pull's follows the first rows of a day, the
\* event loop's the end of its pulls.
OneRefresh ==
    /\ pc[Loop] \in Refreshing => eod = "tried" /\ pc[Puller] \notin Refreshing
    /\ pc[Puller] \in Refreshing => 0 \in dirs

\* What has been listed for the next view is what there is.
GlobsCurrent ==
    \A th \in {Loop, Puller} : pc[th] \in {"wait", "swap"} =>
        globs # None /\ (0 \in dirs => 0 \in globs)

\* Today's partition is in the view, or about to be.
TodayComes ==
    0 \in dirs /\ ~excused =>
        pc[Puller] \in Refreshing \/ (view # None /\ 0 \in view)

ViewInv == TypeOK /\ OneRefresh /\ GlobsCurrent /\ TodayComes

\* What is settled in the committed journal is settled in the endpoints' view.
SettledIsSeen ==
    \A t \in Trades : base.status[t] # "GENERATED" => work.status[t] # "GENERATED"

\* The trades the websocket has read as open were settled by then.
OpenWereSettled ==
    payload["ACCEPTED"] # None =>
        \A t \in payload["ACCEPTED"] \intersect Trades : base.status[t] # "GENERATED"

PayloadInv == TypeOK /\ SettledIsSeen /\ OpenWereSettled /\ PayloadShowsOnce

\* A request that has written has a trade it is about to settle.
WritersSettle ==
    \A w \in Writers : pc[w] \in {"update", "commit", "save"} => doing[w] # None

CleanInv == TypeOK /\ WritersSettle /\ NothingLeftUncommitted

-----------------------------------------------------------------------------
(* Types.                                                                  *)

\* Partitions that grow older stay in the window, and none is today's.
LEMMA OlderStays ==
  ASSUME NEW ages \in SUBSET Ages
  PROVE  Older(ages) \subseteq Ages /\ 0 \notin Older(ages)
BY DEF Older, Ages

\* The initial state is typed.
LEMMA TypeInit == Init => TypeOK
<1> SUFFICES ASSUME Init PROVE TypeOK
  OBVIOUS
<1>1. base \in Journals
  BY DEF Init, Journals
<1>2. QED
  BY <1>1 DEF Init, TypeOK, Steps

\* Variables keep their types.
LEMMA TypeStep == TypeOK /\ [Next]_vars => TypeOK'
<1> SUFFICES ASSUME TypeOK, [Next]_vars PROVE TypeOK'
  OBVIOUS
<1> USE ApiAssumption
<1>1. ASSUME NEW th \in Threads \ {Puller}, Query(th) PROVE TypeOK'
  BY <1>1 DEF Query, Execute, Executed, Fetch, Goto, day, sqlite, TypeOK, Steps
<1>2. ASSUME NEW th \in {Loop, Puller}, Refresh(th) PROVE TypeOK'
  <2>1. CASE RefreshNothing(th) \/ RefreshList(th) \/ RefreshStart(th)
    BY <2>1
       DEF RefreshNothing, RefreshList, RefreshStart, Goto, gateway, day,
           sqlite, TypeOK, Steps, Threads
  <2>2. CASE RefreshDone(th) \/ RefreshFails(th)
    <3>1. view' = view \/ view' = globs
      BY <2>2 DEF RefreshDone, RefreshFails
    <3>2. QED
      BY <2>2, <3>1
         DEF RefreshDone, RefreshFails, RefreshEnd, Goto, day, sqlite, TypeOK,
             Steps
  <2>3. QED
    BY <1>2, <2>1, <2>2 DEF Refresh
<1>3. CASE Pull \/ PullFails \/ OtherProcessWrites \/ EodRefresh
  <2>1. 0 \in Ages
    BY DEF Ages
  <2>2. CASE Pull
    BY <2>1, <2>2 DEF Pull, Goto, gateway, sqlite, TypeOK, Steps
  <2>3. CASE PullFails \/ OtherProcessWrites
    BY <2>1, <2>3 DEF PullFails, OtherProcessWrites, gateway, sqlite, TypeOK
  <2>4. CASE EodRefresh
    BY <2>4 DEF EodRefresh, Goto, gateway, sqlite, TypeOK, Steps
  <2>5. QED
    BY <1>3, <2>2, <2>3, <2>4
<1>4. CASE NewDay
  <2>1. dirs' \subseteq Ages /\ (view' = None \/ view' \subseteq Ages)
    BY <1>4, OlderStays DEF NewDay, TypeOK
  <2>2. QED
    BY <1>4, <2>1 DEF NewDay, sqlite, TypeOK
<1>5. ASSUME NEW w \in Writers, NEW t \in Trades, RejectInsert(w, t) \/ AcceptUpdate(w, t)
      PROVE  TypeOK'
  <2>1. work' \in Journals
    BY <1>5 DEF RejectInsert, AcceptUpdate, TypeOK, Journals
  <2>2. QED
    BY <1>5, <2>1
       DEF RejectInsert, AcceptUpdate, Goto, day, gateway, TypeOK, Steps
<1>6. ASSUME NEW w \in Writers, RejectUpdate(w) \/ Commit(w) \/ Rollback(w)
      PROVE  TypeOK'
  <2>1. work' \in Journals
    BY <1>6 DEF RejectUpdate, Commit, Rollback, TypeOK, Journals
  <2>2. QED
    BY <1>6, <2>1
       DEF RejectUpdate, Commit, Rollback, Answered, Goto, day, gateway,
           TypeOK, Steps
<1>7. ASSUME NEW t \in Trades, ExpireTrade(t) \/ CloseTrade(t) PROVE TypeOK'
  <2>1. base' \in Journals /\ work' \in Journals
    BY <1>7 DEF ExpireTrade, CloseTrade, Settle, TypeOK, Journals
  <2>2. QED
    BY <1>7, <2>1 DEF ExpireTrade, CloseTrade, Settle, day, gateway, TypeOK
<1>8. CASE WsBegin \/ WsSend
  BY <1>8 DEF WsBegin, WsSend, InStatus, day, gateway, sqlite, TypeOK
<1>9. CASE Restart
  BY <1>9 DEF Restart, TypeOK, Steps
<1>10. CASE UNCHANGED vars
  BY <1>10 DEF vars, day, gateway, sqlite, TypeOK
<1>11. QED
  BY <1>1, <1>2, <1>3, <1>4, <1>5, <1>6, <1>7, <1>8, <1>9, <1>10 DEF Next

\* Every variable keeps its type, for any pool, journal and window.
THEOREM ApiTypes == Spec => []TypeOK
BY TypeInit, TypeStep, PTL DEF Spec

-----------------------------------------------------------------------------
(* The lock.                                                               *)

\* Who executes or replaces the view has the lock, and keeps it meanwhile.
LEMMA LockStep == TypeOK /\ HoldersHaveLock /\ [Next]_vars => HoldersHaveLock'
<1> SUFFICES ASSUME TypeOK, HoldersHaveLock, [Next]_vars PROVE HoldersHaveLock'
  OBVIOUS
<1> USE ApiAssumption DEF HoldersHaveLock
<1>1. ASSUME NEW th \in Threads \ {Puller}, Query(th) PROVE HoldersHaveLock'
  BY <1>1 DEF Query, Execute, Executed, Fetch, Goto, TypeOK
<1>2. ASSUME NEW th \in {Loop, Puller}, Refresh(th) PROVE HoldersHaveLock'
  BY <1>2
     DEF Refresh, RefreshNothing, RefreshList, RefreshStart, RefreshDone,
         RefreshFails, RefreshEnd, Goto, gateway, TypeOK, Threads
<1>3. CASE Pull \/ PullFails \/ OtherProcessWrites \/ EodRefresh \/ NewDay
  BY <1>3
     DEF Pull, PullFails, OtherProcessWrites, EodRefresh, NewDay, Goto,
         gateway, TypeOK
<1>4. ASSUME NEW w \in Writers,
             \/ \E t \in Trades : RejectInsert(w, t) \/ AcceptUpdate(w, t)
             \/ RejectUpdate(w) \/ Commit(w) \/ Rollback(w)
      PROVE  HoldersHaveLock'
  BY <1>4
     DEF RejectInsert, AcceptUpdate, RejectUpdate, Commit, Rollback, Answered,
         Goto, gateway, TypeOK
<1>5. CASE \/ \E t \in Trades : ExpireTrade(t) \/ CloseTrade(t)
           \/ WsBegin \/ WsSend \/ UNCHANGED vars
  BY <1>5 DEF ExpireTrade, CloseTrade, Settle, WsBegin, WsSend, gateway, vars
<1>6. CASE Restart
  BY <1>6 DEF Restart
<1>7. QED
  BY <1>1, <1>2, <1>3, <1>4, <1>5, <1>6 DEF Next

\* No query runs while the view is replaced, however many threads there are.
THEOREM QueriesOutsideSwap == Spec => []NoQueryInSwap
<1>1. Init => HoldersHaveLock
  BY DEF Init, HoldersHaveLock
<1>2. TypeOK /\ HoldersHaveLock => NoQueryInSwap
  BY DEF HoldersHaveLock, NoQueryInSwap
<1>3. QED
  BY <1>1, <1>2, LockStep, ApiTypes, PTL DEF Spec

-----------------------------------------------------------------------------
(* The view.                                                               *)

\* Refreshes do not overlap.
LEMMA OneRefreshStep == TypeOK /\ OneRefresh /\ [Next]_vars => OneRefresh'
<1> SUFFICES ASSUME TypeOK, OneRefresh, [Next]_vars PROVE OneRefresh'
  OBVIOUS
<1> USE ApiAssumption DEF OneRefresh, Refreshing
<1>1. ASSUME NEW th \in Threads \ {Puller}, Query(th) PROVE OneRefresh'
  BY <1>1 DEF Query, Execute, Executed, Fetch, Goto, day, TypeOK, Threads
<1>2. ASSUME NEW th \in {Loop, Puller}, Refresh(th) PROVE OneRefresh'
  BY <1>2
     DEF Refresh, RefreshNothing, RefreshList, RefreshStart, RefreshDone,
         RefreshFails, RefreshEnd, Goto, day, TypeOK, Threads
<1>3. CASE Pull \/ PullFails \/ OtherProcessWrites \/ EodRefresh \/ NewDay
  BY <1>3
     DEF Pull, PullFails, OtherProcessWrites, EodRefresh, NewDay, Goto,
         TypeOK, Threads
<1>4. ASSUME NEW w \in Writers,
             \/ \E t \in Trades : RejectInsert(w, t) \/ AcceptUpdate(w, t)
             \/ RejectUpdate(w) \/ Commit(w) \/ Rollback(w)
      PROVE  OneRefresh'
  BY <1>4
     DEF RejectInsert, AcceptUpdate, RejectUpdate, Commit, Rollback, Answered,
         Goto, day, TypeOK, Threads
<1>5. CASE \/ \E t \in Trades : ExpireTrade(t) \/ CloseTrade(t)
           \/ WsBegin \/ WsSend \/ UNCHANGED vars
  BY <1>5 DEF ExpireTrade, CloseTrade, Settle, WsBegin, WsSend, day, vars
<1>6. CASE Restart
  BY <1>6 DEF Restart, Threads
<1>7. QED
  BY <1>1, <1>2, <1>3, <1>4, <1>5, <1>6 DEF Next

\* What a refresh has listed stays current until the view is replaced.
LEMMA GlobsStep ==
  TypeOK /\ OneRefresh /\ GlobsCurrent /\ [Next]_vars => GlobsCurrent'
<1> SUFFICES ASSUME TypeOK, OneRefresh, GlobsCurrent, [Next]_vars PROVE GlobsCurrent'
  OBVIOUS
<1> USE ApiAssumption DEF OneRefresh, GlobsCurrent, Refreshing
<1>1. ASSUME NEW th \in Threads \ {Puller}, Query(th) PROVE GlobsCurrent'
  BY <1>1 DEF Query, Execute, Executed, Fetch, Goto, day, TypeOK, Threads
<1>2. ASSUME NEW th \in {Loop, Puller}, Refresh(th) PROVE GlobsCurrent'
  BY <1>2
     DEF Refresh, RefreshNothing, RefreshList, RefreshStart, RefreshDone,
         RefreshFails, RefreshEnd, Goto, day, TypeOK, Threads
<1>3. CASE Pull \/ PullFails \/ OtherProcessWrites \/ EodRefresh \/ NewDay
  BY <1>3
     DEF Pull, PullFails, OtherProcessWrites, EodRefresh, NewDay, Goto,
         TypeOK, Threads
<1>4. ASSUME NEW w \in Writers,
             \/ \E t \in Trades : RejectInsert(w, t) \/ AcceptUpdate(w, t)
             \/ RejectUpdate(w) \/ Commit(w) \/ Rollback(w)
      PROVE  GlobsCurrent'
  BY <1>4
     DEF RejectInsert, AcceptUpdate, RejectUpdate, Commit, Rollback, Answered,
         Goto, day, gateway, TypeOK, Threads
<1>5. CASE \/ \E t \in Trades : ExpireTrade(t) \/ CloseTrade(t)
           \/ WsBegin \/ WsSend \/ UNCHANGED vars
  BY <1>5
     DEF ExpireTrade, CloseTrade, Settle, WsBegin, WsSend, day, gateway, vars
<1>6. CASE Restart
  BY <1>6 DEF Restart, Threads
<1>7. QED
  BY <1>1, <1>2, <1>3, <1>4, <1>5, <1>6 DEF Next

\* Today's partition stays in the view, or a refresh that will find it goes on.
LEMMA TodayStep == ViewInv /\ [Next]_vars => TodayComes'
<1> SUFFICES ASSUME ViewInv, [Next]_vars PROVE TodayComes'
  OBVIOUS
<1> USE ApiAssumption DEF ViewInv, OneRefresh, GlobsCurrent, TodayComes, Refreshing
<1>1. ASSUME NEW th \in Threads \ {Puller}, Query(th) PROVE TodayComes'
  BY <1>1 DEF Query, Execute, Executed, Fetch, Goto, day, TypeOK, Threads
<1>2. ASSUME NEW th \in {Loop, Puller}, Refresh(th) PROVE TodayComes'
  BY <1>2
     DEF Refresh, RefreshNothing, RefreshList, RefreshStart, RefreshDone,
         RefreshFails, RefreshEnd, Goto, day, TypeOK
<1>3. CASE Pull
  BY <1>3 DEF Pull, NewPartition, Goto, gateway, TypeOK, Threads
<1>4. CASE PullFails \/ OtherProcessWrites \/ EodRefresh
  BY <1>4 DEF PullFails, OtherProcessWrites, EodRefresh, gateway
<1>5. CASE NewDay
  BY <1>5, OlderStays DEF NewDay, TypeOK
<1>6. ASSUME NEW w \in Writers,
             \/ \E t \in Trades : RejectInsert(w, t) \/ AcceptUpdate(w, t)
             \/ RejectUpdate(w) \/ Commit(w) \/ Rollback(w)
      PROVE  TodayComes'
  BY <1>6
     DEF RejectInsert, AcceptUpdate, RejectUpdate, Commit, Rollback, Answered,
         Goto, day, gateway, TypeOK, Threads
<1>7. CASE \/ \E t \in Trades : ExpireTrade(t) \/ CloseTrade(t)
           \/ WsBegin \/ WsSend \/ UNCHANGED vars
  BY <1>7
     DEF ExpireTrade, CloseTrade, Settle, WsBegin, WsSend, day, gateway, vars
<1>8. CASE Restart
  <2>1. dirs # None
    BY DEF TypeOK
  <2>2. QED
    BY <1>8, <2>1 DEF Restart
<1>9. QED
  BY <1>1, <1>2, <1>3, <1>4, <1>5, <1>6, <1>7, <1>8 DEF Next

\* After the pull the partition of today is in the view, unless something has
\* failed or the other process was first.
THEOREM TodayIsVisible == Spec => []TodayInView
<1>1. Init => ViewInv
  BY TypeInit
     DEF Init, ViewInv, OneRefresh, GlobsCurrent, TodayComes, Refreshing,
         Threads
<1>2. ViewInv /\ [Next]_vars => ViewInv'
  BY TypeStep, OneRefreshStep, GlobsStep, TodayStep DEF ViewInv
<1>3. ViewInv => TodayInView
  BY DEF ViewInv, TodayComes, Refreshing, TodayInView
<1>4. QED
  BY <1>1, <1>2, <1>3, PTL DEF Spec

-----------------------------------------------------------------------------
(* The payload.                                                            *)

\* A trade that is settled stays so, in the committed journal and in the
\* endpoints' view of it.
LEMMA SettledStep ==
  TypeOK /\ SettledIsSeen /\ [Next]_vars =>
    /\ SettledIsSeen'
    /\ \A t \in Trades : base.status[t] # "GENERATED" => base'.status[t] # "GENERATED"
<1> SUFFICES ASSUME TypeOK, SettledIsSeen, [Next]_vars
             PROVE  /\ SettledIsSeen'
                    /\ \A t \in Trades : base.status[t] # "GENERATED"
                                            => base'.status[t] # "GENERATED"
  OBVIOUS
<1> USE DEF SettledIsSeen
<1>1. CASE UNCHANGED <<base, work>>
  BY <1>1
<1>2. ASSUME NEW w \in Writers, NEW u \in Trades,
             RejectInsert(w, u) \/ AcceptUpdate(w, u)
      PROVE  /\ UNCHANGED base
             /\ \A t \in Trades : work.status[t] # "GENERATED" => work'.status[t] # "GENERATED"
  BY <1>2 DEF RejectInsert, AcceptUpdate, TypeOK, Journals
<1>3. ASSUME NEW w \in Writers, RejectUpdate(w)
      PROVE  /\ UNCHANGED base
             /\ \A t \in Trades : work.status[t] # "GENERATED" => work'.status[t] # "GENERATED"
  BY <1>3 DEF RejectUpdate
<1>4. ASSUME NEW w \in Writers, Commit(w) \/ Rollback(w)
      PROVE  work' \in {base, work} /\ base' \in {base, work'}
  BY <1>4 DEF Commit, Rollback
<1>5. ASSUME NEW u \in Trades, ExpireTrade(u) \/ CloseTrade(u)
      PROVE  /\ work' = base'
             /\ \A t \in Trades : base.status[t] # "GENERATED" => base'.status[t] # "GENERATED"
  BY <1>5 DEF ExpireTrade, CloseTrade, Settle, TypeOK, Journals
<1>6. CASE Restart
  BY <1>6 DEF Restart
<1>7. CASE \/ \E th \in Threads \ {Puller} : Query(th)
           \/ \E th \in {Loop, Puller} : Refresh(th)
  BY <1>7
     DEF Query, Execute, Executed, Fetch, Refresh, RefreshNothing,
         RefreshList, RefreshStart, RefreshDone, RefreshFails, sqlite
<1>8. CASE \/ Pull \/ PullFails \/ OtherProcessWrites \/ EodRefresh \/ NewDay
           \/ WsBegin \/ WsSend \/ UNCHANGED vars
  BY <1>8
     DEF Pull, PullFails, OtherProcessWrites, EodRefresh, NewDay, WsBegin,
         WsSend, sqlite, vars
<1>9. QED
  BY <1>2, <1>3, <1>4, <1>5, <1>6, <1>7, <1>8 DEF Next

\* The websocket's reads stay consistent.
LEMMA PayloadStep == PayloadInv /\ [Next]_vars => PayloadInv'
<1> SUFFICES ASSUME PayloadInv, [Next]_vars PROVE PayloadInv'
  OBVIOUS
<1> USE DEF PayloadInv
<1>1. TypeOK' /\ SettledIsSeen'
  BY TypeStep, SettledStep
<1>2. CASE UNCHANGED payload
  BY <1>1, <1>2, SettledStep DEF OpenWereSettled, PayloadShowsOnce
<1>3. CASE WsBegin
  BY <1>1, <1>3
     DEF WsBegin, InStatus, sqlite, OpenWereSettled, PayloadShowsOnce, TypeOK,
         Shown
<1>4. CASE WsSend
  BY <1>1, <1>4
     DEF WsSend, ReadFirst, InStatus, sqlite, OpenWereSettled,
         PayloadShowsOnce, Shown
<1>5. CASE Restart
  BY <1>1, <1>5 DEF Restart, OpenWereSettled, PayloadShowsOnce, Shown
<1>6. WsBegin \/ WsSend \/ Restart \/ UNCHANGED payload
  BY DEF Next, Query, Execute, Executed, Fetch, Refresh, RefreshNothing,
         RefreshList, RefreshStart, RefreshDone, RefreshFails, Pull,
         PullFails, OtherProcessWrites, EodRefresh, NewDay, RejectInsert,
         AcceptUpdate, RejectUpdate, Commit, Rollback, Answered, ExpireTrade,
         CloseTrade, Settle, vars
<1>7. QED
  BY <1>2, <1>3, <1>4, <1>5, <1>6

\* No payload shows a trade twice, whatever the endpoints commit between its reads.
THEOREM PayloadsConsistent == Spec => []PayloadShowsOnce
<1>1. Init => PayloadInv
  BY TypeInit
     DEF Init, PayloadInv, SettledIsSeen, OpenWereSettled, PayloadShowsOnce,
         Shown
<1>2. PayloadInv => PayloadShowsOnce
  BY DEF PayloadInv
<1>3. QED
  BY <1>1, <1>2, PayloadStep, PTL DEF Spec

-----------------------------------------------------------------------------
(* What the endpoints leave uncommitted.                                   *)

\* Requests that end leave a transaction only to requests that go on.
LEMMA CleanStep == CleanInv /\ [Next]_vars => CleanInv'
<1> SUFFICES ASSUME CleanInv, [Next]_vars PROVE CleanInv'
  OBVIOUS
<1> USE ApiAssumption DEF CleanInv
<1>1. TypeOK'
  BY TypeStep
<1> USE DEF WritersSettle, NothingLeftUncommitted, InTransaction
<1>2. ASSUME UNCHANGED <<base, work, doing>>,
             \A w \in Writers : pc'[w] = pc[w] \/ pc'[w] \notin {"update", "commit", "save"}
      PROVE  CleanInv'
  BY <1>1, <1>2
<1>3. ASSUME NEW th \in Threads \ {Puller}, Query(th) PROVE CleanInv'
  BY <1>2, <1>3
     DEF Query, Execute, Executed, Fetch, Goto, sqlite, TypeOK, Threads
<1>4. ASSUME NEW th \in {Loop, Puller}, Refresh(th) PROVE CleanInv'
  BY <1>2, <1>4
     DEF Refresh, RefreshNothing, RefreshList, RefreshStart, RefreshDone,
         RefreshFails, RefreshEnd, Goto, sqlite, TypeOK, Threads
<1>5. CASE \/ Pull \/ PullFails \/ OtherProcessWrites \/ EodRefresh \/ NewDay
           \/ WsBegin \/ WsSend \/ UNCHANGED vars
  BY <1>2, <1>5
     DEF Pull, PullFails, OtherProcessWrites, EodRefresh, NewDay, WsBegin,
         WsSend, Goto, sqlite, vars, TypeOK, Threads
<1>6. ASSUME NEW w \in Writers, NEW u \in Trades,
             RejectInsert(w, u) \/ AcceptUpdate(w, u)
      PROVE  CleanInv'
  <2>1. doing' = [doing EXCEPT ![w] = u] /\ doing \in [Workers -> Trades \union {None}]
    BY <1>6 DEF RejectInsert, AcceptUpdate, TypeOK
  <2>2. doing'[w] # None /\ w \in Workers
    BY <2>1
  <2>3. \A v \in Writers : v # w => pc'[v] = pc[v]
    BY <1>6 DEF RejectInsert, AcceptUpdate, Goto, TypeOK, Threads
  <2>4. \A v \in Writers : v # w => doing'[v] = doing[v]
    BY <2>1
  <2>5. QED
    BY <1>1, <2>2, <2>3, <2>4
<1>7. ASSUME NEW w \in Writers, RejectUpdate(w) PROVE CleanInv'
  <2>1. doing[w] # None /\ w \in Workers /\ UNCHANGED doing
    BY <1>7 DEF RejectUpdate
  <2>2. \A v \in Writers : v # w => pc'[v] = pc[v]
    BY <1>7 DEF RejectUpdate, Goto, TypeOK
  <2>3. QED
    BY <1>1, <2>1, <2>2
<1>8. ASSUME NEW w \in Writers, Commit(w) \/ Rollback(w) PROVE CleanInv'
  <2>1. work' = base'
    BY <1>8 DEF Commit, Rollback
  <2>2. pc'[w] = "idle" /\ \A v \in Writers : v # w => pc'[v] = pc[v] /\ doing'[v] = doing[v]
    BY <1>8 DEF Commit, Rollback, Answered, Goto, TypeOK, Threads
  <2>3. QED
    BY <1>1, <2>1, <2>2
<1>9. ASSUME NEW u \in Trades, ExpireTrade(u) \/ CloseTrade(u) PROVE CleanInv'
  BY <1>1, <1>9 DEF ExpireTrade, CloseTrade, Settle
<1>10. CASE Restart
  BY <1>1, <1>10 DEF Restart, Threads
<1>11. QED
  BY <1>3, <1>4, <1>5, <1>6, <1>7, <1>8, <1>9, <1>10 DEF Next

\* However many requests share the connection and however their statements end up in
\* each other's transactions, nothing is left uncommitted once all are answered.
THEOREM RequestsEndClean == Spec => []NothingLeftUncommitted
<1>1. Init => CleanInv
  BY TypeInit, ApiAssumption
     DEF Init, CleanInv, WritersSettle, NothingLeftUncommitted, InTransaction, Threads
<1>2. CleanInv => NothingLeftUncommitted
  BY DEF CleanInv
<1>3. QED
  BY <1>1, <1>2, CleanStep, PTL DEF Spec
=============================================================================
