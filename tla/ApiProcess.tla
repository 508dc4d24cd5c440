----------------------------- MODULE ApiProcess -----------------------------
(***************************************************************************)
(* What the threads of the API process share: one DuckDB connection behind *)
(* LockedConn (optdash/pipeline/duckdb_gateway.py) with its view over the  *)
(* day partitions, and one SQLite connection for all the endpoints         *)
(* (optdash/api/deps.py).  The threads are the event loop, which runs the  *)
(* websocket and the end-of-day refresh, the thread of the tick's pull,    *)
(* and the workers of FastAPI's pool, which run the endpoints.             *)
(*                                                                         *)
(* A partition is its age in days, so that the calendar needs no bound; a  *)
(* new file in a directory of the view is seen without a refresh.  Which   *)
(* rows a query asks for and returns is left out: only whose they are      *)
(* counts.                                                                 *)
(***************************************************************************)
EXTENDS Naturals, FiniteSets

CONSTANTS
    Loop,        \* the thread of the event loop
    Puller,      \* the thread of run_incremental_pull
    Workers,     \* the pool's threads
    Writers,     \* bound: those of them that can be inside /accept or /reject
    Trades,      \* the recommendations that are pending at first
    Lookback,    \* settings.DUCK_VIEW_LOOKBACK_DAYS
    Punctual,    \* TRUE: no session passes without its end-of-day tick
    None

Threads == Workers \union {Loop, Puller}
Ages    == 0 .. Lookback - 1

ASSUME ApiAssumption ==
    /\ Loop # Puller /\ {Loop, Puller} \intersect Workers = {}
    /\ Writers \subseteq Workers
    /\ Lookback \in Nat \ {0}
    /\ Punctual \in BOOLEAN
    /\ None \notin Threads \union Trades
    /\ \A ages \in SUBSET Ages : None # ages

VARIABLES
    \* Disk: the partitions of the window, at least one file in each.
    dirs,
    \* The gateway.
    view,        \* the partitions the view was built over; None without a view
    lock,        \* the thread that holds _view_lock, or None
    globs,       \* the partitions listed for the view that replaces it, or None:
                 \* a local, but the tick awaits its pull, so that one refresh runs at a time
    result,      \* the thread whose query's rows the connection holds, or None
    pc,          \* where each thread is
    \* The tick and the day.
    eod,         \* today's end-of-day refresh: due, tried, or none without a session
    excused,     \* history: why today's partition may be out of view
    \* SQLite.
    base,        \* the committed journal: [status, shadow]
    work,        \* the journal as the endpoints' connection sees it
    doing,       \* the trade a worker is about to settle, or None
    \* The websocket.
    payload      \* what it has read for the payload; None for what is still to be read

gateway == <<view, lock, globs, result>>
day     == <<dirs, eod, excused>>
sqlite  == <<base, work, doing>>
vars    == <<day, gateway, pc, sqlite, payload>>

Steps == {"idle", "execute", "fetch", "refresh", "wait", "swap", "update", "commit", "save"}
Shown == {"GENERATED", "ACCEPTED"}
Journals == [status : [Trades -> {"GENERATED", "ACCEPTED", "REJECTED", "EXPIRED", "CLOSED"}],
             shadow : SUBSET Trades]

TypeOK ==
    /\ dirs \subseteq Ages
    /\ view = None \/ view \subseteq Ages
    /\ lock \in Threads \union {None}
    /\ globs = None \/ globs \subseteq Ages
    /\ result \in Threads \union {None}
    /\ pc \in [Threads -> Steps]
    /\ eod \in {"due", "tried", "none"}
    /\ excused \in BOOLEAN
    /\ base \in Journals
    /\ work \in Journals
    /\ doing \in [Workers -> Trades \union {None}]
    /\ payload \in [Shown -> {None} \union SUBSET Trades]

\* The process has started: the view is over what there is on disk.
Init ==
    /\ dirs \in {{}, Ages \ {0}}
    /\ view = IF dirs = {} THEN None ELSE dirs
    /\ lock = None
    /\ globs = None
    /\ result = None
    /\ pc = [th \in Threads |-> "idle"]
    /\ eod = "due"
    /\ excused = FALSE
    /\ base = [status |-> [t \in Trades |-> "GENERATED"], shadow |-> {}]
    /\ work = base
    /\ doing = [w \in Workers |-> None]
    /\ payload = [s \in Shown |-> None]

Goto(th, step) == pc' = [pc EXCEPT ![th] = step]
InTransaction == work # base

-----------------------------------------------------------------------------
(* LockedConn: execute() under the lock, fetch without it.                 *)

\* Mutant: a query that does not go through LockedConn.
ExecuteUnlocked(th) ==
    /\ pc[th] = "idle" /\ view # None
    /\ lock' = IF lock = None THEN th ELSE lock
    /\ Goto(th, "execute")
    /\ UNCHANGED <<day, view, globs, result, sqlite, payload>>

\* Without a view the query raises, and its caller returns a default.
Execute(th) ==
    /\ pc[th] = "idle" /\ view # None
    /\ lock = None
    /\ lock' = th
    /\ Goto(th, "execute")
    /\ UNCHANGED <<day, view, globs, result, sqlite, payload>>

\* The connection keeps the rows of the last query that was executed on it.
Executed(th) ==
    /\ pc[th] = "execute"
    /\ result' = th
    /\ lock' = IF lock = th THEN None ELSE lock
    /\ Goto(th, "fetch")
    /\ UNCHANGED <<day, view, globs, sqlite, payload>>

\* fetchone() and fetchall() are delegated as they are.
Fetch(th) ==
    /\ pc[th] = "fetch"
    /\ result' = None
    /\ Goto(th, "idle")
    /\ UNCHANGED <<day, view, lock, globs, sqlite, payload>>

-----------------------------------------------------------------------------
(* refresh_views, of the pull's thread and of the event loop.              *)

\* No directory in the window: it returns at once.
RefreshNothing(th) ==
    /\ pc[th] = "refresh" /\ dirs = {}
    /\ Goto(th, "idle")
    /\ UNCHANGED <<day, gateway, sqlite, payload>>

\* The directories are listed before the lock is taken.
RefreshList(th) ==
    /\ pc[th] = "refresh" /\ dirs # {}
    /\ globs' = dirs
    /\ Goto(th, "wait")
    /\ UNCHANGED <<day, view, lock, result, sqlite, payload>>

\* CREATE OR REPLACE VIEW begins: the old view is dropped.
RefreshStart(th) ==
    /\ pc[th] = "wait"
    /\ lock = None
    /\ lock' = th
    /\ Goto(th, "swap")
    /\ UNCHANGED <<day, view, globs, result, sqlite, payload>>

\* The schema is read on the same connection, which loses other threads' rows.
RefreshEnd(th) ==
    /\ pc[th] = "swap"
    /\ lock' = None
    /\ globs' = None
    /\ result' = None
    /\ Goto(th, "idle")

RefreshDone(th) ==
    /\ RefreshEnd(th)
    /\ view' = globs
    /\ UNCHANGED <<day, sqlite, payload>>

\* A file that cannot be read: logged, and the old view stays.
RefreshFails(th) ==
    /\ RefreshEnd(th)
    /\ excused' = TRUE
    /\ UNCHANGED <<dirs, view, eod, sqlite, payload>>

-----------------------------------------------------------------------------
(* The partitions.  The first rows of a day come before its sweep, and the *)
(* tick that sweeps has finished its own pull.                             *)

\* Mutant: the directory is looked for after write_snap has made it.
NewPartitionAfterWrite == 0 \notin dirs'

NewPartition == 0 \notin dirs

\* Step 0 of a tick, or the gap fill: the first rows of a day make its directory.
Pull ==
    /\ pc[Puller] = "idle" /\ eod = "due"
    /\ dirs' = dirs \union {0}
    /\ Goto(Puller, IF NewPartition THEN "refresh" ELSE "idle")
    /\ UNCHANGED <<eod, excused, gateway, sqlite, payload>>

\* write_snap raises once the directory is made: there is no refresh.
PullFails ==
    /\ pc[Puller] = "idle" /\ eod = "due" /\ 0 \notin dirs
    /\ dirs' = dirs \union {0}
    /\ excused' = TRUE
    /\ UNCHANGED <<eod, gateway, pc, sqlite, payload>>

\* run_pipeline.py is another process, and writes without a DuckDB connection.
OtherProcessWrites ==
    /\ eod = "due" /\ 0 \notin dirs
    /\ dirs' = dirs \union {0}
    /\ excused' = TRUE
    /\ UNCHANGED <<eod, gateway, pc, sqlite, payload>>

\* Mutant: the view of the day is taken to be up to date.
EodRefreshIfMissing ==
    /\ pc[Loop] = "idle" /\ pc[Puller] = "idle" /\ eod = "due"
    /\ eod' = "tried"
    /\ Goto(Loop, IF view = None THEN "refresh" ELSE "idle")
    /\ UNCHANGED <<dirs, excused, gateway, sqlite, payload>>

\* The end of the sweep, after the tick's own pull.
EodRefresh ==
    /\ pc[Loop] = "idle" /\ pc[Puller] = "idle" /\ eod = "due"
    /\ eod' = "tried"
    /\ Goto(Loop, "refresh")
    /\ UNCHANGED <<dirs, excused, gateway, sqlite, payload>>

\* Mutant: no partition ever leaves the window.
OlderUnbounded(ages) == {a + 1 : a \in ages}

Older(ages) == {a + 1 : a \in ages} \intersect Ages

\* Midnight, long after the last tick.  The view keeps its partitions until the
\* next refresh, which weekends and holidays put off.
NewDay ==
    /\ Punctual => eod # "due"
    /\ \A th \in {Loop, Puller} : pc[th] \notin {"refresh", "wait", "swap"}
    /\ dirs' = Older(dirs)
    /\ view' = IF view = None THEN None ELSE Older(view)
    /\ eod' \in {"due", "none"}
    /\ excused' = FALSE
    /\ UNCHANGED <<lock, globs, result, pc, sqlite, payload>>

-----------------------------------------------------------------------------
(* The endpoints of one SQLite connection.  What one thread has written    *)
(* without a commit, the others see, commit and roll back.                 *)

Sees(w, t) == pc[w] = "idle" /\ work.status[t] = "GENERATED"

\* The shadow row, and the transaction it opens.
RejectInsert(w, t) ==
    /\ Sees(w, t)
    /\ work' = [work EXCEPT !.shadow = @ \union {t}]
    /\ doing' = [doing EXCEPT ![w] = t]
    /\ Goto(w, "update")
    /\ UNCHANGED <<day, gateway, base, payload>>

RejectUpdate(w) ==
    /\ pc[w] = "update"
    /\ work' = [work EXCEPT !.status[doing[w]] = "REJECTED"]
    /\ Goto(w, "commit")
    /\ UNCHANGED <<day, gateway, base, doing, payload>>

AcceptUpdate(w, t) ==
    /\ Sees(w, t)
    /\ work' = [work EXCEPT !.status[t] = "ACCEPTED"]
    /\ doing' = [doing EXCEPT ![w] = t]
    /\ Goto(w, "save")
    /\ UNCHANGED <<day, gateway, base, payload>>

Answered(w) ==
    /\ doing' = [doing EXCEPT ![w] = None]
    /\ Goto(w, "idle")
    /\ UNCHANGED <<day, gateway, payload>>

Commit(w) ==
    /\ pc[w] \in {"commit", "save"}
    /\ base' = work
    /\ UNCHANGED work
    /\ Answered(w)

\* Mutant: a /reject that fails answers without a rollback.
GiveUp(w) ==
    /\ pc[w] \in {"update", "commit", "save"}
    /\ UNCHANGED <<base, work>>
    /\ Answered(w)

\* /reject rolls back whatever is not committed; SQLite does so itself when a commit
\* cannot be written, which is how /accept fails here.
Rollback(w) ==
    /\ pc[w] \in {"update", "commit", "save"}
    /\ work' = base
    /\ UNCHANGED base
    /\ Answered(w)

\* The scheduler, on its own connection: an open transaction keeps it out.
Settle(t, from, to) ==
    /\ pc[Loop] = "idle" /\ ~InTransaction
    /\ base.status[t] = from
    /\ base' = [base EXCEPT !.status[t] = to]
    /\ work' = base'
    /\ UNCHANGED <<day, gateway, pc, doing, payload>>

ExpireTrade(t) == Settle(t, "GENERATED", "EXPIRED")
CloseTrade(t)  == Settle(t, "ACCEPTED", "CLOSED")

-----------------------------------------------------------------------------
(* The websocket, on the scheduler's connection: the open trades first, as *)
(* the gate needs their direction, the pending ones last, and between them *)
(* queries and awaits that let every other handler run.                    *)

InStatus(s) == {t \in Trades : base.status[t] = s}

\* Mutant: in the order in which the payload lists them.
PendingFirst == "GENERATED"

ReadFirst == "ACCEPTED"
ReadLast  == IF ReadFirst = "ACCEPTED" THEN "GENERATED" ELSE "ACCEPTED"

WsBegin ==
    /\ pc[Loop] = "idle"
    /\ payload' = [payload EXCEPT ![ReadFirst] = InStatus(ReadFirst), ![ReadLast] = None]
    /\ UNCHANGED <<day, gateway, pc, sqlite>>

WsSend ==
    /\ pc[Loop] = "idle"
    /\ payload[ReadFirst] # None /\ payload[ReadLast] = None
    /\ payload' = [payload EXCEPT ![ReadLast] = InStatus(ReadLast)]
    /\ UNCHANGED <<day, gateway, pc, sqlite>>

-----------------------------------------------------------------------------
\* The process dies and is started again, with a fresh view or not at all.
Restart ==
    /\ lock' = None /\ globs' = None /\ result' = None
    /\ view' = IF dirs = {} THEN None ELSE dirs
    /\ pc' = [th \in Threads |-> "idle"]
    /\ eod' = IF eod = "none" THEN "none" ELSE "due"
    /\ work' = base
    /\ doing' = [w \in Workers |-> None]
    /\ payload' = [s \in Shown |-> None]
    /\ UNCHANGED <<dirs, excused, base>>

Query(th)   == Execute(th) \/ Executed(th) \/ Fetch(th)
Refresh(th) ==
    \/ RefreshNothing(th) \/ RefreshList(th) \/ RefreshStart(th)
    \/ RefreshDone(th) \/ RefreshFails(th)

Next ==
    \/ \E th \in Threads \ {Puller} : Query(th)
    \/ \E th \in {Loop, Puller} : Refresh(th)
    \/ Pull \/ PullFails \/ OtherProcessWrites \/ EodRefresh \/ NewDay
    \/ \E w \in Writers, t \in Trades : RejectInsert(w, t) \/ AcceptUpdate(w, t)
    \/ \E w \in Writers : RejectUpdate(w) \/ Commit(w) \/ Rollback(w)
    \/ \E t \in Trades : ExpireTrade(t) \/ CloseTrade(t)
    \/ WsBegin \/ WsSend
    \/ Restart

Spec == Init /\ [][Next]_vars

\* The event loop and the threads make progress, days follow one another, no
\* session is without its end-of-day tick, and no file stays unreadable for ever.
Fairness ==
    /\ \A th \in Threads \ {Puller} : WF_vars(Executed(th) \/ Fetch(th))
    /\ \A th \in {Loop, Puller} : SF_vars(Refresh(th))
    /\ \A w \in Writers : WF_vars(RejectUpdate(w) \/ Commit(w) \/ Rollback(w))
    /\ SF_vars(EodRefresh)
    /\ SF_vars(RefreshDone(Loop))
    /\ WF_vars(NewDay)

FairSpec == Spec /\ Fairness

-----------------------------------------------------------------------------
(* Properties.                                                             *)

\* No query runs while a refresh has dropped the view and not yet created it
\* again, from whatever thread it comes: the module comment's P1-P2-4.
NoQueryInSwap ==
    (\E th \in Threads : pc[th] = "swap") => \A th \in Threads : pc[th] # "execute"

\* Once the pull has returned, the partition of today is in the view the rest of
\* the tick reads, unless one of three things has happened today: write_snap or a
\* refresh failed, or another process made the directory first.
TodayInView ==
    0 \in dirs /\ pc[Puller] = "idle" /\ ~excused => view # None /\ 0 \in view

\* However the statements of several requests fall into each other's transactions,
\* none is left behind: once every request is answered nothing is uncommitted, and
\* the scheduler, which a transaction would keep out of the journal, can write.
NothingLeftUncommitted == (\A w \in Workers : doing[w] = None) => ~InTransaction

\* A payload never shows one trade as pending and as open, although endpoints
\* commit between its two reads.
PayloadShowsOnce ==
    None \notin {payload[s] : s \in Shown} =>
        payload["GENERATED"] \intersect payload["ACCEPTED"] = {}

InView == dirs = {} \/ (view # None /\ dirs \subseteq view)

\* A partition the view has missed does not stay invisible: the end-of-day
\* refresh of that day or of a later one finds it, or it leaves the window.
PartitionsSurface == ~InView ~> InView

\* LockedConn, "THREAD SAFETY OF _real": "the connection is never accessed
\* concurrently by two threads", so what a thread fetches is what it executed.
FetchesOwnRows == \A th \in Threads : pc[th] = "fetch" => result = th
=============================================================================
