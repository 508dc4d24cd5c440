--------------------------- MODULE TradeLifecycle ---------------------------
(***************************************************************************)
(* The life of a trade row in OptDash's SQLite journal.                    *)
(*                                                                         *)
(* Two kinds of actors write the journal without coordinating with each    *)
(* other: the scheduler tick, a coroutine of the event loop that expires,  *)
(* issues, tracks and sweeps trades (optdash/scheduler.py), and the        *)
(* /accept, /reject and /close-trade endpoints, which FastAPI runs on a    *)
(* thread pool (optdash/api/routers/ai.py).  Both read the rows they act   *)
(* on first and write them later with UPDATE ... WHERE id=?, so every read *)
(* and every commit is a step of its own here.                             *)
(*                                                                         *)
(* A trade's date is kept as its age in calendar days, so that the session *)
(* calendar needs no bound.  The snap is the number of the five-minute     *)
(* bucket of the day: 0 .. LastSnap are market hours, LastSnap + 1 is the  *)
(* time until the next session.                                            *)
(***************************************************************************)
EXTENDS Naturals

CONSTANTS
    Underlyings,   \* settings.UNDERLYINGS
    Requests,      \* the worker threads that can be inside a journal endpoint
    MaxTrades,     \* bound: number of trade rows the journal can ever hold
    LastSnap,      \* the 15:30 bucket, the last one in market hours
    EodSnap,       \* settings.EOD_SWEEP_TIME
    ExpirySnaps,   \* settings.AI_EXPIRY_MAX_SNAPS
    PendingDays,   \* max_age_days of get_pending_trades
    OpenDays,      \* max_age_days of get_open_trades
    Gaps,          \* calendar days from one session to the next
    Faults,        \* faults that may happen, a subset of FaultKinds
    Punctual       \* TRUE: no bucket of a session passes without its tick

FaultKinds == {"crash", "tick", "sweep"}

ASSUME ConstantsAssumption ==
    /\ Underlyings # {}
    /\ MaxTrades \in Nat \ {0}
    /\ LastSnap \in Nat
    /\ EodSnap \in 0 .. LastSnap
    /\ ExpirySnaps \in Nat \ {0}
    /\ PendingDays \in Nat
    /\ OpenDays \in Nat
    /\ PendingDays <= OpenDays
    /\ Gaps \subseteq Nat \ {0}
    /\ Faults \subseteq FaultKinds
    /\ Punctual \in BOOLEAN

Trades == 1 .. MaxTrades
MaxAge == OpenDays + 1     \* every age from here on is treated alike

VARIABLES
    \* Journal, table trades.
    status,        \* status of a row; "FREE" is an id not inserted yet
    row,           \* fields fixed by INSERT: the underlying and the snap
    age,           \* calendar days since trade_date
    accepted,      \* accept_snap_time IS NOT NULL
    exited,        \* exit_reason IS NOT NULL
    \* Journal, table shadow_trades.
    shadows,       \* shadow rows of a trade: still open, and closed
    txn,           \* the scheduler's connection has uncommitted rows
    \* Wall clock.
    snapNow,       \* current bucket
    ticked,        \* this bucket has had its tick
    \* Scheduler: done_flags[today], and the locals of the running tick.
    doneToday,
    phase,         \* where the tick is; "idle" between ticks
    tickSnap,      \* snap_time
    pendingRead,   \* rows of get_pending_trades still to be expired
    openRead,      \* rows of get_open_trades still to be handled
    todo,          \* underlyings still to be considered
    cur,           \* underlying inside generate_recommendation
    \* Endpoints: the row a thread has read and found in the status it needs.
    req,
    \* History: an end-of-day sweep of this session has been committed.
    swept

journal == <<status, row, age, accepted, exited, shadows>>
clock   == <<snapNow, ticked>>
tick    == <<phase, tickSnap, pendingRead, openRead, todo, cur>>
vars    == <<journal, txn, clock, doneToday, tick, req, swept>>

Status    == {"FREE", "GENERATED", "ACCEPTED", "REJECTED", "EXPIRED", "CLOSED"}
Sweeping  == {"eodOpen", "eodWrite", "eodShadows"}
PastExpiry == {"recommend", "recPending", "recIssue", "track", "shadows"}
Phases    == {"idle", "pull", "expire"} \union Sweeping \union PastExpiry
Ops       == {"none", "accept", "reject", "close"}

TypeOK ==
    /\ status \in [Trades -> Status]
    /\ row \in [Trades -> [ul : Underlyings, snap : 0 .. LastSnap]]
    /\ age \in [Trades -> 0 .. MaxAge]
    /\ accepted \in [Trades -> BOOLEAN]
    /\ exited \in [Trades -> BOOLEAN]
    /\ shadows \in [Trades -> [open : Nat, closed : Nat]]
    /\ txn \in BOOLEAN
    /\ snapNow \in 0 .. LastSnap + 1
    /\ ticked \in BOOLEAN
    /\ doneToday \in BOOLEAN
    /\ phase \in Phases
    /\ tickSnap \in 0 .. LastSnap
    /\ pendingRead \subseteq Trades
    /\ openRead \subseteq Trades
    /\ todo \subseteq Underlyings
    /\ cur \in Underlyings
    /\ req \in [Requests -> [op : Ops, id : Trades]]
    /\ swept \in BOOLEAN

-----------------------------------------------------------------------------
(* The queries of the journal.  Both hide rows older than a few days.      *)

\* Mutant: the open trades get the age limit of the pending ones.
VisibleForADay(t) == status[t] = "ACCEPTED" /\ age[t] <= PendingDays

VisiblePending(t) == status[t] = "GENERATED" /\ age[t] <= PendingDays
VisibleOpen(t)    == status[t] = "ACCEPTED" /\ age[t] <= OpenDays

PendingTrades == {t \in Trades : VisiblePending(t)}
OpenTrades    == {t \in Trades : VisibleOpen(t)}

\* Mutant: only a recommendation of the same snap blocks the next one.
HasPendingOfThisSnap(u) ==
    \E t \in PendingTrades : row[t].ul = u /\ row[t].snap = tickSnap

HasOpen(u)    == \E t \in OpenTrades : row[t].ul = u
HasPending(u) == \E t \in PendingTrades : row[t].ul = u

\* Differences of HH:MM snaps are cut at zero and know nothing of the date.
SnapsSince(entry, now) == IF now > entry THEN now - entry ELSE 0

\* Mutant: the code before P0-2.
StaleBySnapOnly(t) == SnapsSince(row[t].snap, tickSnap) >= ExpirySnaps

Stale(t) == age[t] > 0 \/ SnapsSince(row[t].snap, tickSnap) >= ExpirySnaps

IsEod == snapNow >= EodSnap

NoRequest == [op |-> "none", id |-> 1]
Someone == CHOOSE u \in Underlyings : TRUE     \* fills fields not in use

-----------------------------------------------------------------------------
Init ==
    /\ status = [t \in Trades |-> "FREE"]
    /\ row = [t \in Trades |-> [ul |-> Someone, snap |-> 0]]
    /\ age = [t \in Trades |-> 0]
    /\ accepted = [t \in Trades |-> FALSE]
    /\ exited = [t \in Trades |-> FALSE]
    /\ shadows = [t \in Trades |-> [open |-> 0, closed |-> 0]]
    /\ txn = FALSE
    /\ snapNow = 0
    /\ ticked = FALSE
    /\ doneToday = FALSE
    /\ phase = "idle"
    /\ tickSnap = 0
    /\ pendingRead = {}
    /\ openRead = {}
    /\ todo = {}
    /\ cur = Someone
    /\ req = [r \in Requests |-> NoRequest]
    /\ swept = FALSE

-----------------------------------------------------------------------------
(* Wall clock.                                                             *)

AdvanceSnap ==
    /\ snapNow <= LastSnap
    /\ Punctual => ticked /\ phase = "idle"
    /\ snapNow' = snapNow + 1
    /\ ticked' = FALSE
    /\ UNCHANGED <<journal, txn, doneToday, tick, req, swept>>

\* The next session.  Ticks and requests do not last overnight.
NewDay ==
    /\ snapNow = LastSnap + 1
    /\ phase = "idle"
    /\ \A r \in Requests : req[r] = NoRequest
    /\ \E gap \in Gaps :
          age' = [t \in Trades |->
                    IF status[t] = "FREE" THEN age[t]
                    ELSE IF age[t] + gap > MaxAge THEN MaxAge ELSE age[t] + gap]
    /\ snapNow' = 0
    /\ ticked' = FALSE
    /\ doneToday' = FALSE
    /\ swept' = FALSE
    /\ UNCHANGED <<status, row, accepted, exited, shadows, txn, tick, req>>

-----------------------------------------------------------------------------
(* The scheduler tick: at most one runs at a time (max_instances=1).       *)

\* The locals of tick() are gone when it returns.
Return ==
    /\ phase' = "idle"
    /\ pendingRead' = {}
    /\ openRead' = {}
    /\ todo' = {}
    /\ cur' = Someone
    /\ tickSnap' = 0

Goto(p) == phase' = p /\ UNCHANGED tickSnap

\* Mutant: no market-hours guard.
TickStartAtAnyTime ==
    /\ phase = "idle"
    /\ ~ticked
    /\ ticked' = TRUE
    /\ tickSnap' = snapNow
    /\ phase' = "pull"
    /\ UNCHANGED <<journal, txn, snapNow, doneToday, pendingRead, openRead,
                   todo, cur, req, swept>>

\* The market-hours guard, and snap_time as of the start of the tick.
TickStart ==
    /\ phase = "idle"
    /\ snapNow <= LastSnap
    /\ ~ticked
    /\ ticked' = TRUE
    /\ tickSnap' = snapNow
    /\ phase' = "pull"
    /\ UNCHANGED <<journal, txn, snapNow, doneToday, pendingRead, openRead,
                   todo, cur, req, swept>>

\* Step 0 awaits the BigQuery pull; the clock is read again after it.
SweepDone ==
    /\ phase = "pull"
    /\ doneToday
    /\ Return
    /\ UNCHANGED <<journal, txn, clock, doneToday, req, swept>>

\* Mutant: the code before Fix-J, which left pending trades alone.
SweepReadNoPending ==
    /\ phase = "pull"
    /\ IsEod /\ ~doneToday
    /\ Goto("eodOpen")
    /\ UNCHANGED <<journal, txn, clock, doneToday, pendingRead, openRead, todo, cur,
                   req, swept>>

\* eod_force_close reads the pending trades, the open trades and their prices,
\* and only then writes.
SweepReadPending ==
    /\ phase = "pull"
    /\ IsEod /\ ~doneToday
    /\ pendingRead' = PendingTrades
    /\ Goto("eodOpen")
    /\ UNCHANGED <<journal, txn, clock, doneToday, openRead, todo, cur, req, swept>>

SweepReadOpen ==
    /\ phase = "eodOpen"
    /\ openRead' = OpenTrades
    /\ Goto("eodWrite")
    /\ UNCHANGED <<journal, txn, clock, doneToday, pendingRead, todo, cur, req, swept>>

\* All expirations, then all closes, in one transaction.
SweepCommit ==
    /\ phase = "eodWrite"
    /\ status' = [t \in Trades |-> CASE t \in openRead    -> "CLOSED"
                                     [] t \in pendingRead \ openRead -> "EXPIRED"
                                     [] OTHER -> status[t]]
    /\ exited' = [t \in Trades |-> exited[t] \/ t \in openRead]
    /\ txn' = FALSE
    /\ swept' = TRUE
    /\ Goto("eodShadows")
    /\ pendingRead' = {} /\ openRead' = {}
    /\ UNCHANGED <<row, age, accepted, shadows, clock, doneToday, todo, cur, req>>

\* The prices could not be read, or the transaction is rolled back.
SweepFails ==
    /\ "sweep" \in Faults
    /\ phase = "eodWrite"
    /\ txn' \in {txn, FALSE}
    /\ Goto("eodShadows")
    /\ pendingRead' = {} /\ openRead' = {}
    /\ UNCHANGED <<journal, clock, doneToday, todo, cur, req, swept>>

CloseShadows(T) ==
    shadows' = [t \in Trades |->
                  IF t \in T
                  THEN [open |-> 0, closed |-> shadows[t].closed + shadows[t].open]
                  ELSE shadows[t]]

OpenShadows == {t \in Trades : shadows[t].open > 0}

\* Mutant: the code before P4-F10.
FinalizeShadowsOfToday ==
    /\ phase = "eodShadows"
    /\ CloseShadows({t \in OpenShadows : age[t] = 0})
    /\ txn' = (OpenShadows = {} /\ txn)
    /\ doneToday' = TRUE
    /\ Return
    /\ UNCHANGED <<status, row, age, accepted, exited, clock, req, swept>>

\* finalize_all_shadows closes the shadows of every date and commits, unless
\* there is none; or it fails, with or without a rollback.  done_flags is set in
\* every case.
FinalizeShadows ==
    /\ phase = "eodShadows"
    /\ \/ /\ CloseShadows(OpenShadows)
          /\ txn' = (OpenShadows = {} /\ txn)
       \/ /\ "sweep" \in Faults
          /\ UNCHANGED shadows
          /\ txn' \in {txn, FALSE}
    /\ doneToday' = TRUE
    /\ Return
    /\ UNCHANGED <<status, row, age, accepted, exited, clock, req, swept>>

\* Mutant: the code before F8.
ExpireReadAfterSweep ==
    /\ phase = "pull"
    /\ ~(IsEod /\ ~doneToday)
    /\ pendingRead' = {t \in PendingTrades : Stale(t)}
    /\ Goto("expire")
    /\ UNCHANGED <<journal, txn, clock, doneToday, openRead, todo, cur, req, swept>>

\* Step 1, expire_stale_recommendations: one read, one commit per expired row.
ExpireRead ==
    /\ phase = "pull"
    /\ ~IsEod /\ ~doneToday
    /\ pendingRead' = {t \in PendingTrades : Stale(t)}
    /\ Goto("expire")
    /\ UNCHANGED <<journal, txn, clock, doneToday, openRead, todo, cur, req, swept>>

ExpireOne(t) ==
    /\ phase = "expire"
    /\ t \in pendingRead
    /\ status' = [status EXCEPT ![t] = "EXPIRED"]
    /\ txn' = FALSE
    /\ pendingRead' = pendingRead \ {t}
    /\ UNCHANGED <<row, age, accepted, exited, shadows, clock, doneToday,
                   phase, tickSnap, openRead, todo, cur, req, swept>>

ExpireEnd ==
    /\ phase = "expire"
    /\ pendingRead = {}
    /\ todo' = Underlyings
    /\ Goto("recommend")
    /\ UNCHANGED <<journal, txn, clock, doneToday, pendingRead, openRead, cur,
                   req, swept>>

\* Step 3, generate_recommendation.  Its first guard reads the open trades ...
RecReadOpen(u) ==
    /\ phase = "recommend"
    /\ u \in todo
    /\ todo' = todo \ {u}
    /\ IF HasOpen(u) THEN UNCHANGED <<phase, cur>>
                     ELSE phase' = "recPending" /\ cur' = u
    /\ UNCHANGED <<journal, txn, clock, doneToday, tickSnap, pendingRead, openRead,
                   req, swept>>

\* Mutant: no second guard.
RecSkipPending ==
    /\ phase = "recPending"
    /\ phase' = "recIssue"
    /\ UNCHANGED <<journal, txn, clock, doneToday, tickSnap, pendingRead, openRead,
                   todo, cur, req, swept>>

\* ... its second one the pending trades ...
RecReadPending ==
    /\ phase = "recPending"
    /\ IF HasPending(cur) THEN phase' = "recommend" /\ cur' = Someone
                          ELSE phase' = "recIssue" /\ UNCHANGED cur
    /\ UNCHANGED <<journal, txn, clock, doneToday, tickSnap, pendingRead, openRead,
                   todo, req, swept>>

\* ... and after the analytics the row is inserted, if every rule passes.
RecIssue(t) ==
    /\ phase = "recIssue"
    /\ status[t] = "FREE"
    /\ \A s \in Trades : s < t => status[s] # "FREE"
    /\ status' = [status EXCEPT ![t] = "GENERATED"]
    /\ row' = [row EXCEPT ![t] = [ul |-> cur, snap |-> tickSnap]]
    /\ txn' = FALSE
    /\ cur' = Someone
    /\ Goto("recommend")
    /\ UNCHANGED <<age, accepted, exited, shadows, clock, doneToday, pendingRead,
                   openRead, todo, req, swept>>

\* No card, or an insert that fails: SQLite rolls back a commit that it cannot write,
\* with whatever else the connection has not committed.
RecDecline ==
    /\ phase = "recIssue"
    /\ txn' \in {txn, FALSE}
    /\ cur' = Someone
    /\ Goto("recommend")
    /\ UNCHANGED <<journal, clock, doneToday, pendingRead, openRead, todo, req, swept>>

\* Step 4, track_open_positions: one read, then one pass over the rows read.
TrackRead ==
    /\ phase = "recommend"
    /\ todo = {}
    /\ openRead' = OpenTrades
    /\ Goto("track")
    /\ UNCHANGED <<journal, txn, clock, doneToday, pendingRead, todo, cur, req, swept>>

\* No price in this bucket (txn is left alone), or a snap that waits for a commit.
TrackKeep(t) ==
    /\ phase = "track"
    /\ t \in openRead
    /\ txn' \in {txn, TRUE}
    /\ openRead' = openRead \ {t}
    /\ UNCHANGED <<journal, clock, doneToday, phase, tickSnap, pendingRead, todo, cur,
                   req, swept>>

\* A stop, the target, the gate or an IV crush: snap and close are committed.
TrackClose(t) ==
    /\ phase = "track"
    /\ t \in openRead
    /\ status' = [status EXCEPT ![t] = "CLOSED"]
    /\ exited' = [exited EXCEPT ![t] = TRUE]
    /\ txn' = FALSE
    /\ openRead' = openRead \ {t}
    /\ UNCHANGED <<row, age, accepted, shadows, clock, doneToday, phase, tickSnap,
                   pendingRead, todo, cur, req, swept>>

TrackEnd ==
    /\ phase = "track"
    /\ openRead = {}
    /\ txn' = FALSE
    /\ Goto("shadows")
    /\ UNCHANGED <<journal, clock, doneToday, pendingRead, openRead, todo, cur, req,
                   swept>>

\* Step 5, track_shadow_positions: only today's shadows can hit a stop or target.
TrackShadows ==
    /\ phase = "shadows"
    /\ \E T \in SUBSET {t \in OpenShadows : age[t] = 0} : CloseShadows(T)
    /\ Return
    /\ UNCHANGED <<status, row, age, accepted, exited, txn, clock, doneToday, req, swept>>

\* An exception inside tick() is logged; nothing is rolled back.
TickFails ==
    /\ "tick" \in Faults
    /\ phase \in PastExpiry \union {"expire"}
    /\ Return
    /\ UNCHANGED <<journal, txn, clock, doneToday, req, swept>>

-----------------------------------------------------------------------------
(* The endpoints.  A check that fails answers 4xx and changes nothing.     *)

Checked(r, op, t, needs) ==
    /\ req[r] = NoRequest
    /\ status[t] = needs
    /\ req' = [req EXCEPT ![r] = [op |-> op, id |-> t]]
    /\ UNCHANGED <<journal, txn, clock, doneToday, tick, swept>>

\* Mutants: a status check is missing, or lets one status too many pass.
AcceptAnyStatus(r, t) ==
    \E s \in Status \ {"FREE"} : Checked(r, "accept", t, s)
RejectLive(r, t) ==
    \E s \in {"GENERATED", "ACCEPTED"} : Checked(r, "reject", t, s)
CloseNotYetOpen(r, t) ==
    \E s \in {"GENERATED", "ACCEPTED"} : Checked(r, "close", t, s)

AcceptCheck(r, t) == Checked(r, "accept", t, "GENERATED")
RejectCheck(r, t) == Checked(r, "reject", t, "GENERATED")
CloseCheck(r, t)  == Checked(r, "close", t, "ACCEPTED")

\* SQLite has one writer: an UPDATE waits for the scheduler's transaction.
Write(r, op) ==
    /\ req[r].op = op
    /\ ~txn
    /\ req' = [req EXCEPT ![r] = NoRequest]
    /\ UNCHANGED <<row, age, txn, clock, doneToday, tick, swept>>

AcceptWrite(r) ==
    LET t == req[r].id IN
    /\ Write(r, "accept")
    /\ status' = [status EXCEPT ![t] = "ACCEPTED"]
    /\ accepted' = [accepted EXCEPT ![t] = TRUE]
    /\ UNCHANGED <<exited, shadows>>

\* The shadow row and the status share a transaction.
RejectWrite(r) ==
    LET t == req[r].id IN
    /\ Write(r, "reject")
    /\ status' = [status EXCEPT ![t] = "REJECTED"]
    /\ shadows' = [shadows EXCEPT ![t] = [open |-> @.open + 1, closed |-> @.closed]]
    /\ UNCHANGED <<accepted, exited>>

CloseWrite(r) ==
    LET t == req[r].id IN
    /\ Write(r, "close")
    /\ status' = [status EXCEPT ![t] = "CLOSED"]
    /\ exited' = [exited EXCEPT ![t] = TRUE]
    /\ UNCHANGED <<accepted, shadows>>

\* sqlite3 gives up, and the endpoint answers 500: after its busy timeout, or at once
\* when an earlier failure has left the endpoints' connection in a transaction, of
\* which no write is possible once the scheduler has committed something else.
RequestFails(r) ==
    /\ req[r] # NoRequest
    /\ req' = [req EXCEPT ![r] = NoRequest]
    /\ UNCHANGED <<journal, txn, clock, doneToday, tick, swept>>

-----------------------------------------------------------------------------
\* The process dies and is started again.  Uncommitted rows and done_flags are
\* lost, and the first tick comes a whole interval later.
Crash ==
    /\ "crash" \in Faults
    /\ Return
    /\ req' = [r \in Requests |-> NoRequest]
    /\ txn' = FALSE
    /\ doneToday' = FALSE
    /\ ticked' = TRUE
    /\ UNCHANGED <<journal, snapNow, swept>>

Scheduler ==
    \/ TickStart \/ SweepDone
    \/ SweepReadPending \/ SweepReadOpen \/ SweepCommit \/ FinalizeShadows
    \/ ExpireRead \/ ExpireEnd \/ RecReadPending \/ RecDecline
    \/ TrackRead \/ TrackEnd \/ TrackShadows
    \/ \E u \in Underlyings : RecReadOpen(u)
    \/ \E t \in Trades : ExpireOne(t) \/ RecIssue(t) \/ TrackKeep(t) \/ TrackClose(t)

Answer(r) == AcceptWrite(r) \/ RejectWrite(r) \/ CloseWrite(r) \/ RequestFails(r)

Trader ==
    \E r \in Requests :
        \/ Answer(r)
        \/ \E t \in Trades : AcceptCheck(r, t) \/ RejectCheck(r, t) \/ CloseCheck(r, t)

Next ==
    \/ AdvanceSnap \/ NewDay
    \/ Scheduler \/ SweepFails \/ TickFails
    \/ Trader
    \/ Crash

Spec == Init /\ [][Next]_vars

\* Ticks, requests and the calendar make progress; the trader owes nothing, and
\* faults need not happen.  Requests may keep the journal busy after hours, hence
\* the strong fairness of the calendar.
Fairness ==
    /\ WF_vars(AdvanceSnap)
    /\ SF_vars(NewDay)
    /\ WF_vars(Scheduler)
    /\ \A r \in Requests : WF_vars(Answer(r))

FairSpec == Spec /\ Fairness

-----------------------------------------------------------------------------
(* Safety.                                                                 *)

\* The trader never sees two live recommendations for one underlying, whatever
\* the endpoints do to the rows between the recommender's reads and its insert.
OnePendingPerUnderlying ==
    \A s, t \in PendingTrades : row[s].ul = row[t].ul => s = t

\* No row is closed, by a stop, a sweep or a request, that was not a position
\* first: the exit record always has an entry to be measured against.
ClosedWasAccepted ==
    \A t \in Trades : status[t] = "CLOSED" => accepted[t] /\ exited[t]

\* Once a tick is past its expiry step, every recommendation the queries return
\* is of this session and younger than the expiry window, also after sessions
\* that were not swept (the comparison of snaps knows no dates).
StaleExpiredBeforeIssue ==
    phase \in PastExpiry =>
        \A t \in PendingTrades : age[t] = 0 /\ tickSnap < row[t].snap + ExpirySnaps

\* After a committed sweep no recommendation is on display until the next
\* session: the last tick of the day issues none, not even after a restart that
\* lost done_flags.
NothingPendingAfterSweep == swept => PendingTrades = {}

\* A trade that has a shadow was skipped: it is neither a position nor was it
\* one, and it is counted once in the statistics of skipped trades.
ShadowOnlyOfSkipped ==
    \A t \in Trades :
        shadows[t].open + shadows[t].closed > 0 =>
            /\ shadows[t].open + shadows[t].closed = 1
            /\ status[t] \in {"REJECTED", "EXPIRED"}
            /\ ~accepted[t]

\* A position that was closed is not opened again: an open position has no exit
\* record, not even one an expired or rejected row carries along.
NeverReopened == \A t \in Trades : status[t] = "ACCEPTED" => ~exited[t]

\* Each underlying has one slot for a recommendation, as RecommendationSlot says.
Slot == INSTANCE RecommendationSlot WITH
            slot   <- [u \in Underlyings |-> {t \in PendingTrades : row[t].ul = u}],
            issued <- {t \in Trades : status[t] # "FREE"}

SlotSpec == Slot!Spec

-----------------------------------------------------------------------------
(* What comments of the code say, and the code does not guarantee.         *)

\* scheduler.py, F9: at most one ACCEPTED trade per underlying at any time.
OneOpenPerUnderlying ==
    \A s, t \in OpenTrades : row[s].ul = row[t].ul => s = t

\* tracker.py, P0-2: the first tick of a session expires every recommendation of
\* an earlier one.
PriorSessionExpired ==
    phase \in PastExpiry => \A t \in Trades : status[t] = "GENERATED" => age[t] = 0

\* tracker.py, P6-E: one commit flushes all snaps buffered during a tick, so that
\* the scheduler holds no transaction (nor SQLite's write lock) between ticks.
NoTransactionBetweenTicks == phase = "idle" => ~txn

-----------------------------------------------------------------------------
(* Liveness, when no session misses its sweep.                             *)

\* A position that is there before the sweep of some session, while it is no more
\* than OpenDays old, is closed in the end: no acceptance, however late, falls
\* between two sweeps.  One that is written after a sweep, with a longer gap before
\* the next session (a weekend and a holiday), is older than that and stays open.
PositionsClose ==
    \A t \in Trades :
        status[t] = "ACCEPTED" /\ age[t] <= OpenDays /\ ~IsEod ~> status[t] # "ACCEPTED"

\* Every recommendation is acted upon, expired or swept in the end.
RecommendationsResolve ==
    \A t \in Trades : status[t] = "GENERATED" ~> status[t] # "GENERATED"

\* Every shadow is given its outcome in the end.
ShadowsClose == \A t \in Trades : shadows[t].open > 0 ~> shadows[t].open = 0
=============================================================================
