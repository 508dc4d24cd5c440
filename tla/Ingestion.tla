------------------------------ MODULE Ingestion ------------------------------
(***************************************************************************)
(* How market data gets from BigQuery into the Parquet files.              *)
(*                                                                         *)
(* BigQuery holds the rows of the running day in a live table and those of *)
(* earlier days in an archive; a job moves them early in the morning.  Two *)
(* processes copy rows: the API (deps.startup, then the scheduler's tick)  *)
(* and run_pipeline.py.  Each backfills past days from the archive, fills  *)
(* the gap up to now from the live table, and then pulls what is newer     *)
(* than the watermark, a file they share.  A file lock makes the rewrite   *)
(* of one Parquet file atomic; nothing protects the watermark file, whose  *)
(* three system calls are steps of their own here.                         *)
(*                                                                         *)
(* Days count trading days.  A time is the record_time of rows within a    *)
(* day; SnapOf cuts times into the five-minute snaps that files are merged *)
(* by.                                                                     *)
(*                                                                         *)
(* Two things are left out.  Every underlying here has a lot size: rows of *)
(* one that has none are skipped and still move the watermark              *)
(* (processor.py:93), so they are never copied.  Record times are whole    *)
(* seconds: of finer ones the watermark loses the fraction, and the rows   *)
(* of its second are pulled and merged once more.                          *)
(***************************************************************************)
EXTENDS Naturals, FiniteSetsExt

CONSTANTS
    Procs,          \* the processes that ingest
    Api,            \* the one of run_api.py; the others are run_pipeline.py
    NumUnderlyings, \* underlyings are numbered in the order of df.groupby
    Sentinel,       \* NIFTY, whose file stands for the whole day
    LastDay,        \* bound: number of trading days
    LastTime,       \* bound: number of record times in a day
    SnapOf,         \* the snap of a record time
    WholeSnaps,     \* TRUE: the rows of a snap become visible together
    Faults          \* faults that may happen, a subset of FaultKinds

FaultKinds == {"crash", "io"}

Underlyings == 1 .. NumUnderlyings
Days        == 1 .. LastDay
Times       == 1 .. LastTime

ASSUME ConstantsAssumption ==
    /\ Api \in Procs
    /\ NumUnderlyings \in Nat /\ Sentinel \in Underlyings
    /\ LastDay \in Nat \ {0} /\ LastTime \in Nat \ {0}
    /\ SnapOf \in [Times -> Nat]
    /\ \A s, t \in Times : s <= t => SnapOf[s] <= SnapOf[t]
    /\ WholeSnaps \in BOOLEAN
    /\ Faults \subseteq FaultKinds

Rows       == [u : Underlyings, d : Days, t : Times]
Watermarks == [d : 0 .. LastDay, t : 0 .. LastTime]
InitialWatermark == [d |-> 0, t |-> 0]    \* the sentinel of _initial_watermark

VARIABLES
    \* BigQuery and the calendar.
    today,
    synced,      \* today's move of rows to the archive has happened
    published,   \* published[d]: latest record time that is visible
    \* Disk.
    store,       \* rows in the Parquet files
    wmFile,      \* watermark.json: readable or torn, and its value
    tmp,         \* watermark.tmp: the same, and whether it exists
    \* The processes.
    stage,       \* off, backfill, gapfill or live
    step,        \* where the stage's loop is
    todo,        \* days still to be handled
    wm,          \* the stage's copy of the watermark
    batch,       \* rows pulled and not yet written
    newWm,       \* latest record time of the rows pulled
    handle       \* what the file handle inside save() refers to

bigquery == <<today, synced, published>>
disk     == <<store, wmFile, tmp>>
files    == <<wmFile, tmp>>
job      == <<todo, wm, batch, newWm>>
vars     == <<bigquery, disk, stage, step, job, handle>>

Stages  == {"off", "backfill", "gapfill", "live"}
Steps   == {"load", "pull", "write", "open", "fill", "rename"}
Handles == {"none", "tmp", "file", "gone"}

TypeOK ==
    /\ today \in Days
    /\ synced \in BOOLEAN
    /\ published \in [Days -> 0 .. LastTime]
    /\ store \subseteq Rows
    /\ wmFile \in [ok : BOOLEAN, wm : Watermarks]
    /\ tmp \in [there : BOOLEAN, ok : BOOLEAN, wm : Watermarks]
    /\ stage \in [Procs -> Stages]
    /\ step \in [Procs -> Steps]
    /\ todo \in [Procs -> SUBSET Days]
    /\ wm \in [Procs -> Watermarks]
    /\ batch \in [Procs -> SUBSET Rows]
    /\ newWm \in [Procs -> Watermarks]
    /\ handle \in [Procs -> Handles]

-----------------------------------------------------------------------------
(* Times and queries.                                                      *)

\* Watermarks are compared as strings, that is by day and then by time.
Newer(x, y) == x.d > y.d \/ (x.d = y.d /\ x.t > y.t)

TimeOf(r) == [d |-> r.d, t |-> r.t]

PublishedRows == {r \in Rows : r.t <= published[r.d]}

LiveDays    == {today} \union (IF synced THEN {} ELSE {today - 1})
ArchiveDays == {d \in Days : d < today /\ d \notin LiveDays}

PullFullDay(d)       == {r \in PublishedRows : r.d = d /\ d \in ArchiveDays}
PullIncremental(w)   ==
    {r \in PublishedRows : r.d \in LiveDays /\ Newer(TimeOf(r), w)}
PullDayGap(d, w)     == {r \in PullIncremental(w) : r.d = d}

\* Mutant: the earliest record time instead of the latest.
Earliest(r, R) == \A s \in R : ~Newer(TimeOf(r), TimeOf(s))

\* The record time of such a row is the watermark the rows lead to.
Latest(r, R) == \A s \in R : ~Newer(TimeOf(s), TimeOf(r))

\* The order of the three groupby loops.
NotAfter(r, s) ==
    \/ r.u < s.u
    \/ r.u = s.u /\ ~Newer(TimeOf(r), TimeOf(s))

SameSnap(r, s) == r.u = s.u /\ r.d = s.d /\ SnapOf[r.t] = SnapOf[s.t]

Slice(r, R) == {s \in R : SameSnap(r, s)}

DayComplete(d) == \E r \in store : r.u = Sentinel /\ r.d = d

-----------------------------------------------------------------------------
Init ==
    /\ today = 1
    /\ synced = TRUE
    /\ published = [d \in Days |-> 0]
    /\ store = {}
    /\ wmFile = [ok |-> TRUE, wm |-> InitialWatermark]    \* no file reads alike
    /\ tmp = [there |-> FALSE, ok |-> FALSE, wm |-> InitialWatermark]
    /\ stage = [p \in Procs |-> "off"]
    /\ step = [p \in Procs |-> "load"]
    /\ todo = [p \in Procs |-> {}]
    /\ wm = [p \in Procs |-> InitialWatermark]
    /\ batch = [p \in Procs |-> {}]
    /\ newWm = [p \in Procs |-> InitialWatermark]
    /\ handle = [p \in Procs |-> "none"]

-----------------------------------------------------------------------------
(* The feed.                                                               *)

Publish ==
    /\ synced
    /\ \E t \in Times :
          /\ t > published[today]
          /\ IF WholeSnaps
             THEN \A s \in Times : s > t => SnapOf[s] > SnapOf[t]
             ELSE t = published[today] + 1
          /\ \A s \in Times : published[today] < s /\ s < t => SnapOf[s] = SnapOf[t]
          /\ published' = [published EXCEPT ![today] = t]
    /\ UNCHANGED <<today, synced, disk, stage, step, job, handle>>

NewDay ==
    /\ synced
    /\ today < LastDay
    /\ today' = today + 1
    /\ synced' = FALSE
    /\ UNCHANGED <<published, disk, stage, step, job, handle>>

\* 06:35: the live table is emptied into the archive.
Sync ==
    /\ ~synced
    /\ synced' = TRUE
    /\ UNCHANGED <<today, published, disk, stage, step, job, handle>>

-----------------------------------------------------------------------------
(* A process.                                                              *)

Set(f, p, x) == f' = [f EXCEPT ![p] = x]

\* Locals of a stage that has ended.
Forget(p) ==
    /\ Set(batch, p, {})
    /\ Set(newWm, p, InitialWatermark)
    /\ Set(handle, p, "none")

Enter(p, s) ==
    /\ Set(stage, p, s)
    /\ Set(step, p, "load")
    /\ Set(todo, p, {})
    /\ Set(wm, p, InitialWatermark)
    /\ Forget(p)

\* run_backfill, unless it is disabled, asks which days have no file of the
\* sentinel.
Start(p) ==
    /\ stage[p] = "off"
    /\ \E days \in {{}, {d \in Days : d < today /\ ~DayComplete(d)}} :
       /\ Set(stage, p, IF days = {} THEN "gapfill" ELSE "backfill")
       /\ Set(todo, p, days)
    /\ UNCHANGED <<bigquery, disk, step, wm, batch, newWm, handle>>

\* Mutant: one day too many.
GapDaysBeyond(w) == (w.d + 1) .. (today + 1)

\* The days after the watermark's, and always today.
GapDays(w) == {d \in Days : w.d < d /\ d <= today} \union {today}

\* wm_load(), and the days of a gap fill.  Live pulls happen in market hours.
Load(p) ==
    /\ step[p] = "load"
    /\ stage[p] # "off"
    /\ stage[p] = "live" => synced
    /\ wmFile.ok
    /\ Set(wm, p, wmFile.wm)
    /\ Set(step, p, "pull")
    /\ Set(todo, p, IF stage[p] = "gapfill" THEN GapDays(wmFile.wm) ELSE todo[p])
    /\ UNCHANGED <<bigquery, disk, stage, batch, newWm, handle>>

Pulled(p) ==
    CASE stage[p] = "backfill" -> PullFullDay(Min(todo[p]))
      [] stage[p] = "gapfill"  -> PullDayGap(Min(todo[p]), wm[p])
      [] stage[p] = "live"     -> PullIncremental(wm[p])

\* The day, or the live pull, is over; the stage goes on.
Proceed(p) ==
    /\ Set(step, p, IF stage[p] = "live" THEN "load" ELSE "pull")
    /\ Set(todo, p, IF stage[p] = "live" THEN {} ELSE todo[p] \ {Min(todo[p])})
    /\ Forget(p)
    /\ UNCHANGED <<stage, wm>>

DaysLeft(p) == stage[p] = "live" \/ todo[p] # {}

Pull(p) ==
    /\ stage[p] # "off"
    /\ step[p] = "pull"
    /\ DaysLeft(p)
    /\ \E r \in Pulled(p) : Latest(r, Pulled(p)) /\ Set(newWm, p, TimeOf(r))
    /\ Set(batch, p, Pulled(p))
    /\ Set(step, p, "write")
    /\ UNCHANGED <<bigquery, disk, stage, todo, wm, handle>>

\* No rows: the watermark stays where it is, for whatever reason there are none.
PullNothing(p) ==
    /\ stage[p] # "off"
    /\ step[p] = "pull"
    /\ DaysLeft(p)
    /\ Pulled(p) = {}
    /\ Proceed(p)
    /\ UNCHANGED <<bigquery, disk>>

EndOfStage(p) ==
    /\ stage[p] \in {"backfill", "gapfill"}
    /\ step[p] = "pull"
    /\ todo[p] = {}
    /\ Enter(p, IF stage[p] = "backfill" THEN "gapfill" ELSE "live")
    /\ UNCHANGED <<bigquery, disk>>

\* Mutant: the rows of the other snaps of the file are not carried over.
WriteSnapAlone(p) ==
    /\ step[p] = "write"
    /\ \E r \in batch[p] :
          /\ \A s \in batch[p] : NotAfter(r, s)
          /\ store' = {s \in store : s.u # r.u \/ s.d # r.d} \union Slice(r, batch[p])
          /\ Set(batch, p, batch[p] \ Slice(r, batch[p]))
    /\ UNCHANGED <<bigquery, files, stage, step, todo, wm, newWm, handle>>

\* write_snap(): one snap of one underlying replaces the rows of that snap, under
\* the lock of the file.
WriteSnap(p) ==
    /\ step[p] = "write"
    /\ \E r \in batch[p] :
          /\ \A s \in batch[p] : NotAfter(r, s)
          /\ store' = {s \in store : ~SameSnap(r, s)} \union Slice(r, batch[p])
          /\ Set(batch, p, batch[p] \ Slice(r, batch[p]))
    /\ UNCHANGED <<bigquery, files, stage, step, todo, wm, newWm, handle>>

\* process_and_write() returns; only a newer watermark is saved.
Written(p) ==
    /\ step[p] = "write"
    /\ batch[p] = {}
    /\ IF Newer(newWm[p], wm[p])
       THEN Set(step, p, "open") /\ UNCHANGED <<stage, job, handle>>
       ELSE Proceed(p)
    /\ UNCHANGED <<bigquery, disk>>

-----------------------------------------------------------------------------
(* save(): tmp.write_text() opens and truncates, then writes, then closes; *)
(* tmp.replace() renames whatever file has that name by then.              *)

OpenTmp(p) ==
    /\ step[p] = "open"
    /\ tmp' = [there |-> TRUE, ok |-> FALSE, wm |-> InitialWatermark]
    /\ Set(handle, p, "tmp")
    /\ Set(step, p, "fill")
    /\ UNCHANGED <<bigquery, store, wmFile, stage, job>>

FillTmp(p) ==
    /\ step[p] = "fill"
    /\ tmp' = IF handle[p] = "tmp" THEN [tmp EXCEPT !.ok = TRUE, !.wm = newWm[p]]
                                   ELSE tmp
    /\ wmFile' = IF handle[p] = "file" THEN [ok |-> TRUE, wm |-> newWm[p]]
                                       ELSE wmFile
    /\ Set(handle, p, "none")
    /\ Set(step, p, "rename")
    /\ UNCHANGED <<bigquery, store, stage, job>>

\* A handle open on the renamed file follows it, one on the replaced file is lost.
AfterRename(h) ==
    [q \in Procs |-> CASE h[q] = "tmp"  -> "file"
                       [] h[q] = "file" -> "gone"
                       [] OTHER         -> h[q]]

Rename(p) ==
    /\ step[p] = "rename"
    /\ tmp.there
    /\ wmFile' = [ok |-> tmp.ok, wm |-> tmp.wm]
    /\ tmp' = [there |-> FALSE, ok |-> FALSE, wm |-> InitialWatermark]
    /\ handle' = AfterRename(handle)
    /\ Set(wm, p, newWm[p])
    /\ Set(step, p, IF stage[p] = "live" THEN "load" ELSE "pull")
    /\ Set(todo, p, IF stage[p] = "live" THEN {} ELSE todo[p] \ {Min(todo[p])})
    /\ Set(batch, p, {})
    /\ Set(newWm, p, InitialWatermark)
    /\ UNCHANGED <<bigquery, store, stage>>

-----------------------------------------------------------------------------
(* Failures.                                                               *)

\* Who catches the exception: the loop of gap_fill (only within a day) and the
\* live loop go on; the API's startup goes on with the next stage after logging
\* it; run_pipeline.py ends.
Raise(p) ==
    CASE stage[p] = "live" \/ (stage[p] = "gapfill" /\ step[p] # "load") -> Proceed(p)
      [] OTHER -> Enter(p, IF p # Api THEN "off"
                           ELSE IF stage[p] = "backfill" THEN "gapfill" ELSE "live")

\* The watermark file does not parse.
LoadTorn(p) ==
    /\ step[p] = "load"
    /\ stage[p] # "off"
    /\ ~wmFile.ok
    /\ Raise(p)
    /\ UNCHANGED <<bigquery, disk>>

\* Another process has renamed the file first.
RenameLost(p) ==
    /\ step[p] = "rename"
    /\ ~tmp.there
    /\ Raise(p)
    /\ UNCHANGED <<bigquery, disk>>

\* Mutant: an underlying that cannot be written is logged and left out.
SkipUnderlying(p) ==
    /\ "io" \in Faults
    /\ step[p] = "write"
    /\ \E r \in batch[p] : Set(batch, p, {s \in batch[p] : s.u # r.u})
    /\ UNCHANGED <<bigquery, disk, stage, step, todo, wm, newWm, handle>>

\* BigQuery fails four times, the file lock times out, or a write fails.
IOFails(p) ==
    /\ "io" \in Faults
    /\ stage[p] # "off"
    /\ \/ step[p] = "pull" /\ DaysLeft(p)
       \/ step[p] = "write" /\ batch[p] # {}
    /\ Raise(p)
    /\ UNCHANGED <<bigquery, disk>>

\* The process is killed, or stopped: run_pipeline --once ends like this, too.
Crash(p) ==
    /\ "crash" \in Faults
    /\ stage[p] # "off"
    /\ Enter(p, "off")
    /\ UNCHANGED <<bigquery, disk>>

-----------------------------------------------------------------------------
Feed == Publish \/ NewDay \/ Sync

Ingest(p) ==
    \/ Start(p) \/ Load(p) \/ Pull(p) \/ PullNothing(p) \/ EndOfStage(p)
    \/ WriteSnap(p) \/ Written(p) \/ OpenTmp(p) \/ FillTmp(p) \/ Rename(p)
    \/ LoadTorn(p) \/ RenameLost(p)

Next ==
    \/ Feed
    \/ \E p \in Procs : Ingest(p) \/ IOFails(p) \/ Crash(p)

Spec == Init /\ [][Next]_vars

-----------------------------------------------------------------------------
(* Safety.                                                                 *)

\* On the watermark's day every row up to the watermark, of every underlying, is
\* in a file: nothing that later pulls will leave out as old is missing.
NothingMissingBehindWatermark ==
    wmFile.ok =>
        \A r \in Rows : r.d = wmFile.wm.d /\ r.t <= wmFile.wm.t => r \in store

\* Rows in the files stay there, although each pull replaces whole snaps and two
\* processes with different watermarks do so.
RowsStay == [][store \subseteq store']_vars

-----------------------------------------------------------------------------
(* What comments of the code say, and the code does not guarantee.         *)

\* backfill.py, _day_complete: the sentinel's file means that the day is complete.
\* Checked where a backfill leaves days out because of it.
SentinelMeansComplete ==
    \A p \in Procs : stage[p] \in {"backfill", "gapfill"} =>
        \A d \in ArchiveDays \ todo[p] :
            DayComplete(d) => PullFullDay(d) \subseteq store

\* watermark.py: a reader always sees a complete file.
WatermarkReadable == wmFile.ok
=============================================================================
