--------------------------- MODULE IngestionProofs ---------------------------
(***************************************************************************)
(* Proofs about Ingestion, for any number of processes, underlyings, days  *)
(* and record times, and for all faults.  The first part assumes that the  *)
(* feed makes the rows of a snap visible together, the last that there is  *)
(* one process.                                                            *)
(***************************************************************************)
EXTENDS Ingestion, TLAPS

\* Every row of the watermark's day up to the watermark is in a file.
Covered(w) == \A r \in Rows : r.d = w.d /\ r.t <= w.t => r \in store

\* A watermark does not cut a snap in two.
EndsSnap(w) == \A s, t \in Times : SnapOf[s] = SnapOf[t] /\ s <= w.t => t <= w.t

Sound(w) == Covered(w) /\ EndsSnap(w)

\* Snaps become visible whole.
WholeSnapsPublished ==
    \A d \in Days : \A s, t \in Times :
        SnapOf[s] = SnapOf[t] /\ s <= published[d] => t <= published[d]

\* Rows pulled and not yet written are whole snaps.
BatchesWhole ==
    \A p \in Procs : \A r \in batch[p] : \A s \in Rows :
        SameSnap(r, s) => s \in batch[p]

\* Whatever a watermark is read from is sound.
WatermarksSound ==
    /\ wmFile.ok => Sound(wmFile.wm)
    /\ tmp.ok => Sound(tmp.wm)
    /\ \A p \in Procs : Sound(wm[p])

\* The watermark to be saved is sound once the batch is written.
NewWatermarksSound ==
    \A p \in Procs :
        /\ EndsSnap(newWm[p])
        /\ step[p] = "write" =>
              \A r \in Rows : r.d = newWm[p].d /\ r.t <= newWm[p].t =>
                                  r \in store \union batch[p]
        /\ step[p] \in {"open", "fill", "rename"} => Covered(newWm[p])

IInv ==
    /\ TypeOK
    /\ WholeSnapsPublished
    /\ BatchesWhole
    /\ WatermarksSound
    /\ NewWatermarksSound

-----------------------------------------------------------------------------
(* Types.                                                                  *)

\* The initial watermark is one.
LEMMA InitialIsTyped == InitialWatermark \in Watermarks
BY ConstantsAssumption DEF InitialWatermark, Watermarks

\* The record time of a row is a watermark.
LEMMA TimesAreTyped == \A r \in Rows : TimeOf(r) \in Watermarks
BY DEF TimeOf, Rows, Watermarks, Days, Times

\* A pull returns rows.
LEMMA PulledAreRows ==
  \A p \in Procs : stage[p] \in Stages \ {"off"} => Pulled(p) \subseteq Rows
BY DEF Pulled, PullFullDay, PullDayGap, PullIncremental, PublishedRows, Stages

\* Variables keep their types.
LEMMA TypeStep == TypeOK /\ [Next]_vars => TypeOK'
<1> SUFFICES ASSUME TypeOK, [Next]_vars PROVE TypeOK'
  OBVIOUS
<1> USE InitialIsTyped, ConstantsAssumption
<1>1. CASE Publish
  BY <1>1
     DEF Publish, bigquery, disk, files, job, Set, TypeOK, Steps, Handles,
         Times
<1>2. CASE NewDay
  <2>1. today' \in Days
    BY <1>2 DEF NewDay, TypeOK, Days
  <2>2. QED
    BY <1>2, <2>1 DEF NewDay, TypeOK, disk, job
<1>3. CASE Sync
  BY <1>3 DEF Sync, disk, job, TypeOK
<1>4. ASSUME NEW p \in Procs, Start(p) PROVE TypeOK'
  BY <1>4 DEF Start, bigquery, disk, Set, TypeOK, Stages
<1>5. ASSUME NEW p \in Procs, Load(p) PROVE TypeOK'
  BY <1>5 DEF Load, bigquery, disk, Set, TypeOK, Steps, GapDays
<1>6. ASSUME NEW p \in Procs, Pull(p) PROVE TypeOK'
  BY <1>6, TimesAreTyped, PulledAreRows
     DEF Pull, bigquery, disk, Set, TypeOK, Steps
<1>7. ASSUME NEW p \in Procs, PullNothing(p) PROVE TypeOK'
  BY <1>7
     DEF PullNothing, Proceed, Forget, bigquery, disk, Set, TypeOK, Steps,
         Handles
<1>8. ASSUME NEW p \in Procs, EndOfStage(p) PROVE TypeOK'
  BY <1>8
     DEF EndOfStage, Enter, Forget, bigquery, disk, Set, TypeOK, Stages,
         Steps, Handles
<1>9. ASSUME NEW p \in Procs, WriteSnap(p) PROVE TypeOK'
  BY <1>9 DEF WriteSnap, Slice, bigquery, files, Set, TypeOK
<1>10. ASSUME NEW p \in Procs, Written(p) PROVE TypeOK'
  BY <1>10
     DEF Written, Proceed, Forget, bigquery, disk, files, job, Set, TypeOK,
         Steps, Handles
<1>11. ASSUME NEW p \in Procs, OpenTmp(p) PROVE TypeOK'
  BY <1>11 DEF OpenTmp, bigquery, job, Set, TypeOK, Steps, Handles
<1>12. ASSUME NEW p \in Procs, FillTmp(p) PROVE TypeOK'
  <2>1. tmp' \in [there : BOOLEAN, ok : BOOLEAN, wm : Watermarks]
    BY <1>12 DEF FillTmp, TypeOK
  <2>2. wmFile' \in [ok : BOOLEAN, wm : Watermarks]
    BY <1>12 DEF FillTmp, TypeOK
  <2>3. QED
    BY <1>12 DEF FillTmp, TypeOK, Set, bigquery, job, Steps, Handles
<1>13. ASSUME NEW p \in Procs, Rename(p) PROVE TypeOK'
  BY <1>13 DEF Rename, bigquery, Set, TypeOK, Steps, Handles, AfterRename
<1>14. ASSUME NEW p \in Procs, LoadTorn(p) PROVE TypeOK'
  BY <1>14
     DEF LoadTorn, Raise, Proceed, Enter, Forget, bigquery, disk, files, job,
         Set, TypeOK, Stages, Steps, Handles
<1>15. ASSUME NEW p \in Procs, RenameLost(p) PROVE TypeOK'
  BY <1>15
     DEF RenameLost, Raise, Proceed, Enter, Forget, bigquery, disk, job, Set,
         TypeOK, Stages, Steps, Handles
<1>16. ASSUME NEW p \in Procs, IOFails(p) PROVE TypeOK'
  BY <1>16
     DEF IOFails, Raise, Proceed, Enter, Forget, bigquery, disk, files, job,
         Set, TypeOK, Stages, Steps, Handles
<1>17. ASSUME NEW p \in Procs, Crash(p) PROVE TypeOK'
  BY <1>17
     DEF Crash, Enter, Forget, bigquery, disk, Set, TypeOK, Stages, Steps,
         Handles
<1>18. CASE UNCHANGED vars
  BY <1>18 DEF vars, bigquery, disk, job, TypeOK
<1>19. QED
  BY <1>1, <1>2, <1>3, <1>4, <1>5, <1>6, <1>7, <1>8, <1>9, <1>10, <1>11,
     <1>12, <1>13, <1>14, <1>15, <1>16, <1>17, <1>18
     DEF Next, Feed, Ingest

-----------------------------------------------------------------------------
(* Batches are whole snaps.                                                *)

\* The feed only ever completes snaps.
LEMMA SnapsStep ==
  ASSUME WholeSnaps, TypeOK, WholeSnapsPublished, [Next]_vars
  PROVE  WholeSnapsPublished'
<1>1. CASE Publish
  BY <1>1, ConstantsAssumption DEF Publish, WholeSnapsPublished, Times
<1>2. CASE UNCHANGED published
  BY <1>2 DEF WholeSnapsPublished
<1>3. QED
  BY <1>1, <1>2
     DEF Next, Feed, Ingest, NewDay, Sync, Start, Load, Pull, PullNothing,
         EndOfStage, WriteSnap, Written, OpenTmp, FillTmp, Rename, LoadTorn,
         RenameLost, IOFails, Crash, vars, bigquery

\* What is pulled is whole snaps, because neither what is visible nor what the
\* watermark hides ends inside of one.
LEMMA PulledWhole ==
  ASSUME TypeOK, WholeSnapsPublished, WatermarksSound, NEW p \in Procs,
         stage[p] # "off", NEW r \in Pulled(p), NEW s \in Rows, SameSnap(r, s)
  PROVE  s \in Pulled(p)
<1>1. r \in Rows /\ r.t <= published[r.d]
  BY DEF TypeOK, Pulled, PullFullDay, PullDayGap, PullIncremental,
         PublishedRows, Stages
<1>2. s \in PublishedRows
  BY <1>1 DEF WholeSnapsPublished, SameSnap, PublishedRows, Rows
<1>3. ASSUME Newer(TimeOf(r), wm[p])
      PROVE  Newer(TimeOf(s), wm[p])
  <2>1. r.d = s.d /\ SnapOf[r.t] = SnapOf[s.t] /\ r.t \in Times /\ s.t \in Times
    BY <1>1 DEF SameSnap, Rows
  <2>2. r.d > wm[p].d \/ (r.d = wm[p].d /\ r.t > wm[p].t)
    BY <1>3 DEF Newer, TimeOf
  <2>3. CASE r.d > wm[p].d
    BY <2>1, <2>3 DEF Newer, TimeOf
  <2>4. CASE r.d = wm[p].d /\ r.t > wm[p].t
    <3>1. EndsSnap(wm[p])
      BY DEF WatermarksSound, Sound
    <3>2. wm[p].t \in Nat /\ r.t \in Nat /\ s.t \in Nat
      BY <2>1 DEF TypeOK, Watermarks, Times
    <3>3. s.t > wm[p].t
      <4>1. s.t <= wm[p].t => r.t <= wm[p].t
        BY <2>1, <3>1 DEF EndsSnap
      <4>2. QED
        BY <2>4, <3>2, <4>1
    <3>4. QED
      BY <2>1, <2>4, <3>3 DEF Newer, TimeOf
  <2>5. QED
    BY <2>2, <2>3, <2>4
<1>4. QED
  BY <1>2, <1>3
     DEF Pulled, PullFullDay, PullDayGap, PullIncremental, SameSnap, TypeOK,
         Stages

\* Writing a snap leaves the others whole, and a pull brings whole ones.
LEMMA BatchStep ==
  ASSUME TypeOK, WholeSnapsPublished, BatchesWhole, WatermarksSound, [Next]_vars
  PROVE  BatchesWhole'
<1>1. CASE Publish
  BY <1>1 DEF Publish, job, BatchesWhole
<1>2. CASE NewDay
  BY <1>2 DEF NewDay, job, BatchesWhole
<1>3. CASE Sync
  BY <1>3 DEF Sync, job, BatchesWhole
<1>4. ASSUME NEW p \in Procs, Start(p) PROVE BatchesWhole'
  BY <1>4 DEF Start, BatchesWhole
<1>5. ASSUME NEW p \in Procs, Load(p) PROVE BatchesWhole'
  BY <1>5 DEF Load, BatchesWhole
<1>6. ASSUME NEW p \in Procs, Pull(p) PROVE BatchesWhole'
  BY <1>6, PulledWhole DEF Pull, Set, BatchesWhole
<1>7. ASSUME NEW p \in Procs, PullNothing(p) PROVE BatchesWhole'
  BY <1>7 DEF PullNothing, Proceed, Forget, Set, BatchesWhole
<1>8. ASSUME NEW p \in Procs, EndOfStage(p) PROVE BatchesWhole'
  BY <1>8 DEF EndOfStage, Enter, Forget, Set, BatchesWhole
<1>9. ASSUME NEW p \in Procs, WriteSnap(p) PROVE BatchesWhole'
  BY <1>9 DEF WriteSnap, Slice, SameSnap, Set, BatchesWhole
<1>10. ASSUME NEW p \in Procs, Written(p) PROVE BatchesWhole'
  BY <1>10 DEF Written, Proceed, Forget, job, Set, BatchesWhole, TypeOK
<1>11. ASSUME NEW p \in Procs, OpenTmp(p) PROVE BatchesWhole'
  BY <1>11 DEF OpenTmp, job, BatchesWhole
<1>12. ASSUME NEW p \in Procs, FillTmp(p) PROVE BatchesWhole'
  BY <1>12 DEF FillTmp, job, BatchesWhole
<1>13. ASSUME NEW p \in Procs, Rename(p) PROVE BatchesWhole'
  BY <1>13 DEF Rename, Set, BatchesWhole
<1>14. ASSUME NEW p \in Procs, LoadTorn(p) PROVE BatchesWhole'
  BY <1>14
     DEF LoadTorn, Raise, Proceed, Enter, Forget, Set, BatchesWhole, TypeOK
<1>15. ASSUME NEW p \in Procs, RenameLost(p) PROVE BatchesWhole'
  BY <1>15
     DEF RenameLost, Raise, Proceed, Enter, Forget, Set, BatchesWhole, TypeOK
<1>16. ASSUME NEW p \in Procs, IOFails(p) PROVE BatchesWhole'
  BY <1>16
     DEF IOFails, Raise, Proceed, Enter, Forget, Set, BatchesWhole, TypeOK
<1>17. ASSUME NEW p \in Procs, Crash(p) PROVE BatchesWhole'
  BY <1>17 DEF Crash, Enter, Forget, Set, BatchesWhole
<1>18. CASE UNCHANGED vars
  BY <1>18 DEF vars, job, BatchesWhole
<1>19. QED
  BY <1>1, <1>2, <1>3, <1>4, <1>5, <1>6, <1>7, <1>8, <1>9, <1>10, <1>11,
     <1>12, <1>13, <1>14, <1>15, <1>16, <1>17, <1>18
     DEF Next, Feed, Ingest

-----------------------------------------------------------------------------
(* Files only grow, and watermarks stay sound.                             *)

\* No row leaves the files: the rows a snap is replaced by include the old ones.
LEMMA StoreGrows ==
  ASSUME TypeOK, BatchesWhole, [Next]_vars
  PROVE  store \subseteq store'
<1>1. ASSUME NEW p \in Procs, WriteSnap(p) PROVE store \subseteq store'
  BY <1>1 DEF WriteSnap, Slice, BatchesWhole, TypeOK
<1>2. CASE UNCHANGED store
  BY <1>2
<1>3. QED
  BY <1>1, <1>2
     DEF Next, Feed, Ingest, Publish, NewDay, Sync, Start, Load, Pull,
         PullNothing, EndOfStage, Written, OpenTmp, FillTmp, Rename, LoadTorn,
         RenameLost, IOFails, Crash, vars, disk

\* Nothing is behind the initial watermark.
LEMMA InitialIsSound ==
  /\ \A r \in Rows : ~(r.d = InitialWatermark.d /\ r.t <= InitialWatermark.t)
  /\ EndsSnap(InitialWatermark)
BY DEF InitialWatermark, Rows, Times, EndsSnap

\* The watermarks a process reads or saves are sound.
LEMMA WatermarkStep ==
  ASSUME TypeOK, TypeOK', BatchesWhole, WatermarksSound, NewWatermarksSound,
         [Next]_vars
  PROVE  WatermarksSound'
<1> USE StoreGrows, InitialIsSound
<1>1. CASE Publish
  BY <1>1 DEF Publish, disk, job, WatermarksSound, Sound, Covered
<1>2. CASE NewDay
  BY <1>2 DEF NewDay, disk, job, WatermarksSound, Sound, Covered
<1>3. CASE Sync
  BY <1>3 DEF Sync, disk, job, WatermarksSound, Sound, Covered
<1>4. ASSUME NEW p \in Procs, Start(p) PROVE WatermarksSound'
  BY <1>4 DEF Start, disk, WatermarksSound, Sound, Covered
<1>5. ASSUME NEW p \in Procs, Load(p) PROVE WatermarksSound'
  BY <1>5 DEF Load, disk, Set, WatermarksSound, Sound, Covered
<1>6. ASSUME NEW p \in Procs, Pull(p) PROVE WatermarksSound'
  BY <1>6 DEF Pull, disk, WatermarksSound, Sound, Covered
<1>7. ASSUME NEW p \in Procs, PullNothing(p) PROVE WatermarksSound'
  BY <1>7 DEF PullNothing, Proceed, disk, WatermarksSound, Sound, Covered
<1>8. ASSUME NEW p \in Procs, EndOfStage(p) PROVE WatermarksSound'
  BY <1>8 DEF EndOfStage, Enter, disk, Set, WatermarksSound, Sound, Covered
<1>9. ASSUME NEW p \in Procs, WriteSnap(p) PROVE WatermarksSound'
  BY <1>9 DEF WriteSnap, files, WatermarksSound, Sound, Covered
<1>10. ASSUME NEW p \in Procs, Written(p) PROVE WatermarksSound'
  BY <1>10 DEF Written, Proceed, disk, job, WatermarksSound, Sound, Covered
<1>11. ASSUME NEW p \in Procs, OpenTmp(p) PROVE WatermarksSound'
  BY <1>11 DEF OpenTmp, job, WatermarksSound, Sound, Covered
<1>12. ASSUME NEW p \in Procs, FillTmp(p) PROVE WatermarksSound'
  BY <1>12
     DEF FillTmp, job, WatermarksSound, Sound, Covered, NewWatermarksSound
<1>13. ASSUME NEW p \in Procs, Rename(p) PROVE WatermarksSound'
  BY <1>13 DEF Rename, Set, WatermarksSound, Sound, Covered, NewWatermarksSound
<1>14. ASSUME NEW p \in Procs, LoadTorn(p) PROVE WatermarksSound'
  BY <1>14
     DEF LoadTorn, Raise, Proceed, Enter, disk, Set, WatermarksSound, Sound,
         Covered, TypeOK
<1>15. ASSUME NEW p \in Procs, RenameLost(p) PROVE WatermarksSound'
  BY <1>15
     DEF RenameLost, Raise, Proceed, Enter, disk, Set, WatermarksSound, Sound,
         Covered, TypeOK
<1>16. ASSUME NEW p \in Procs, IOFails(p) PROVE WatermarksSound'
  BY <1>16
     DEF IOFails, Raise, Proceed, Enter, disk, Set, WatermarksSound, Sound,
         Covered, TypeOK
<1>17. ASSUME NEW p \in Procs, Crash(p) PROVE WatermarksSound'
  BY <1>17 DEF Crash, Enter, disk, Set, WatermarksSound, Sound, Covered
<1>18. CASE UNCHANGED vars
  BY <1>18 DEF vars, disk, job, WatermarksSound, Sound, Covered
<1>19. QED
  BY <1>1, <1>2, <1>3, <1>4, <1>5, <1>6, <1>7, <1>8, <1>9, <1>10, <1>11,
     <1>12, <1>13, <1>14, <1>15, <1>16, <1>17, <1>18
     DEF Next, Feed, Ingest

\* When a pull returns, every row up to its latest record time is in a file or
\* in the batch, and that time ends a snap.
LEMMA PullSound ==
  ASSUME TypeOK, WholeSnapsPublished, WatermarksSound, NEW p \in Procs,
         stage[p] # "off", NEW r \in Pulled(p), Latest(r, Pulled(p))
  PROVE  /\ EndsSnap(TimeOf(r))
         /\ \A s \in Rows :
               s.d = r.d /\ s.t <= r.t => s \in store \union Pulled(p)
<1>1. r \in Rows /\ r.t <= published[r.d]
  BY DEF TypeOK, Pulled, PullFullDay, PullDayGap, PullIncremental,
         PublishedRows, Stages
<1>2. EndsSnap(TimeOf(r))
  <2>1. SUFFICES ASSUME NEW s \in Times, NEW t \in Times,
                        SnapOf[s] = SnapOf[t], s <= r.t, r.t < t
                 PROVE  FALSE
    BY <1>1 DEF EndsSnap, TimeOf, Times, Rows
  <2>2. SnapOf[r.t] = SnapOf[t]
    BY <1>1, <2>1, ConstantsAssumption DEF Rows, Times
  <2>3. [r EXCEPT !.t = t] \in Pulled(p)
    BY <1>1, <2>2, PulledWhole DEF SameSnap, Rows
  <2>4. QED
    BY <1>1, <2>1, <2>3 DEF Latest, Newer, TimeOf, Rows
<1>3. ASSUME NEW s \in Rows, s.d = r.d, s.t <= r.t
      PROVE  s \in store \union Pulled(p)
  <2>1. s \in PublishedRows
    BY <1>1, <1>3 DEF PublishedRows, TypeOK, Rows, Times
  <2>2. CASE stage[p] = "backfill"
    BY <1>3, <2>1, <2>2 DEF Pulled, PullFullDay
  <2>3. CASE stage[p] # "backfill"
    <3>1. r \in PullIncremental(wm[p])
      BY <2>3 DEF Pulled, PullDayGap, TypeOK, Stages
    <3>2. CASE Newer(TimeOf(s), wm[p])
      BY <1>3, <2>1, <2>3, <3>2
         DEF Pulled, PullDayGap, PullIncremental, TypeOK, Stages
    <3>3. CASE ~Newer(TimeOf(s), wm[p])
      <4>1. Newer(TimeOf(r), wm[p])
        BY <3>1 DEF PullIncremental
      <4>2. s.d = wm[p].d /\ ~(s.t > wm[p].t)
        BY <1>3, <3>3, <4>1 DEF Newer, TimeOf
      <4>3. s.t \in Nat /\ wm[p].t \in Nat
        BY DEF Rows, Times, TypeOK, Watermarks
      <4>4. s.t <= wm[p].t
        BY <4>2, <4>3
      <4>5. QED
        BY <4>2, <4>4 DEF WatermarksSound, Sound, Covered
    <3>4. QED
      BY <3>2, <3>3
  <2>4. QED
    BY <2>2, <2>3
<1>4. QED
  BY <1>2, <1>3

\* The watermark to be saved becomes sound.
LEMMA NewWatermarkStep ==
  ASSUME TypeOK, TypeOK', WholeSnapsPublished, BatchesWhole, WatermarksSound,
         NewWatermarksSound, [Next]_vars
  PROVE  NewWatermarksSound'
<1> USE StoreGrows, InitialIsSound
<1>1. CASE Publish
  BY <1>1 DEF Publish, job, NewWatermarksSound, Covered
<1>2. CASE NewDay
  BY <1>2 DEF NewDay, job, NewWatermarksSound, Covered
<1>3. CASE Sync
  BY <1>3 DEF Sync, job, NewWatermarksSound, Covered
<1>4. ASSUME NEW p \in Procs, Start(p) PROVE NewWatermarksSound'
  BY <1>4 DEF Start, NewWatermarksSound, Covered
<1>5. ASSUME NEW p \in Procs, Load(p) PROVE NewWatermarksSound'
  BY <1>5 DEF Load, Set, NewWatermarksSound, Covered
<1>6. ASSUME NEW p \in Procs, Pull(p) PROVE NewWatermarksSound'
  BY <1>6, PullSound DEF Pull, Set, NewWatermarksSound, Covered, TypeOK, TimeOf
<1>7. ASSUME NEW p \in Procs, PullNothing(p) PROVE NewWatermarksSound'
  BY <1>7 DEF PullNothing, Proceed, Forget, Set, NewWatermarksSound, Covered
<1>8. ASSUME NEW p \in Procs, EndOfStage(p) PROVE NewWatermarksSound'
  BY <1>8 DEF EndOfStage, Enter, Forget, Set, NewWatermarksSound, Covered
<1>9. ASSUME NEW p \in Procs, WriteSnap(p) PROVE NewWatermarksSound'
  BY <1>9 DEF WriteSnap, Set, NewWatermarksSound, Covered
<1>10. ASSUME NEW p \in Procs, Written(p) PROVE NewWatermarksSound'
  BY <1>10
     DEF Written, Proceed, Forget, job, Set, NewWatermarksSound, Covered,
         TypeOK
<1>11. ASSUME NEW p \in Procs, OpenTmp(p) PROVE NewWatermarksSound'
  BY <1>11 DEF OpenTmp, job, Set, NewWatermarksSound, Covered
<1>12. ASSUME NEW p \in Procs, FillTmp(p) PROVE NewWatermarksSound'
  BY <1>12 DEF FillTmp, job, Set, NewWatermarksSound, Covered
<1>13. ASSUME NEW p \in Procs, Rename(p) PROVE NewWatermarksSound'
  BY <1>13 DEF Rename, Set, NewWatermarksSound, Covered
<1>14. ASSUME NEW p \in Procs, LoadTorn(p) PROVE NewWatermarksSound'
  BY <1>14
     DEF LoadTorn, Raise, Proceed, Enter, Forget, disk, Set,
         NewWatermarksSound, Covered, TypeOK
<1>15. ASSUME NEW p \in Procs, RenameLost(p) PROVE NewWatermarksSound'
  BY <1>15
     DEF RenameLost, Raise, Proceed, Enter, Forget, bigquery, job, Set,
         NewWatermarksSound, Covered, TypeOK
<1>16. ASSUME NEW p \in Procs, IOFails(p) PROVE NewWatermarksSound'
  BY <1>16
     DEF IOFails, Raise, Proceed, Enter, Forget, Set, NewWatermarksSound,
         Covered, EndsSnap, TypeOK
<1>17. ASSUME NEW p \in Procs, Crash(p) PROVE NewWatermarksSound'
  BY <1>17 DEF Crash, Enter, Forget, Set, NewWatermarksSound, Covered, TypeOK
<1>18. CASE UNCHANGED vars
  BY <1>18 DEF vars, job, NewWatermarksSound, Covered
<1>19. QED
  BY <1>1, <1>2, <1>3, <1>4, <1>5, <1>6, <1>7, <1>8, <1>9, <1>10, <1>11,
     <1>12, <1>13, <1>14, <1>15, <1>16, <1>17, <1>18
     DEF Next, Feed, Ingest

-----------------------------------------------------------------------------
(* The theorems.                                                           *)

\* The inductive invariant holds at first.
LEMMA InitIInv == Init => IInv
BY InitialIsTyped, InitialIsSound, ConstantsAssumption
   DEF Init, IInv, TypeOK, Stages, Steps, Handles, Days, Times,
       WholeSnapsPublished, BatchesWhole, WatermarksSound, Sound, Covered,
       NewWatermarksSound

\* Every step keeps the inductive invariant.
LEMMA StepIInv == WholeSnaps /\ IInv /\ [Next]_vars => IInv'
BY TypeStep, SnapsStep, BatchStep, WatermarkStep, NewWatermarkStep DEF IInv

\* Variables keep their types, also when snaps become visible in parts.
THEOREM IngestionTypes == Spec => []TypeOK
<1>1. Init => TypeOK
  BY InitialIsTyped, ConstantsAssumption
     DEF Init, TypeOK, Stages, Steps, Handles, Days
<1>2. QED
  BY <1>1, TypeStep, PTL DEF Spec

\* Every reachable state satisfies the inductive invariant.
THEOREM IngestionInvariance == ASSUME WholeSnaps PROVE Spec => []IInv
<1>1. IInv /\ [Next]_vars => IInv'
  BY StepIInv
<1>2. QED
  BY InitIInv, <1>1, PTL DEF Spec

\* Nothing is missing behind the watermark, whichever processes are killed and
\* wherever that is.
THEOREM NothingMissing ==
  ASSUME WholeSnaps PROVE Spec => []NothingMissingBehindWatermark
<1>1. IInv => NothingMissingBehindWatermark
  BY DEF IInv, WatermarksSound, Sound, Covered, NothingMissingBehindWatermark
<1>2. QED
  BY <1>1, IngestionInvariance, PTL

\* No row that is in a file leaves it.
THEOREM RowsAreKept == ASSUME WholeSnaps PROVE Spec => RowsStay
<1>1. IInv /\ [Next]_vars => [store \subseteq store']_vars
  BY StoreGrows DEF IInv
<1>2. QED
  BY <1>1, IngestionInvariance, PTL DEF Spec, RowsStay

-----------------------------------------------------------------------------
(* One process.                                                            *)

OneProcess == \A p, q \in Procs : p = q

\* A process on its own fills the file it has opened, and renames a filled one.
ReadableInv ==
    /\ wmFile.ok
    /\ \A p \in Procs :
          /\ step[p] = "fill" => handle[p] = "tmp"
          /\ step[p] = "rename" => tmp.ok

\* Nobody else opens, fills or renames in between.
LEMMA ReadableStep ==
  ASSUME OneProcess, TypeOK, TypeOK', ReadableInv, [Next]_vars
  PROVE  ReadableInv'
<1> USE DEF OneProcess
<1>1. CASE Feed
  BY <1>1 DEF Feed, Publish, NewDay, Sync, disk, ReadableInv
<1>2. ASSUME NEW p \in Procs, Start(p) PROVE ReadableInv'
  BY <1>2 DEF Start, disk, ReadableInv
<1>3. ASSUME NEW p \in Procs, \/ Load(p) \/ Pull(p)
      PROVE  ReadableInv'
  BY <1>3 DEF Load, Pull, disk, Set, TypeOK, ReadableInv
<1>4. ASSUME NEW p \in Procs, PullNothing(p) PROVE ReadableInv'
  BY <1>4 DEF PullNothing, Proceed, Forget, disk, Set, TypeOK, ReadableInv
<1>5. ASSUME NEW p \in Procs, EndOfStage(p) \/ Crash(p) PROVE ReadableInv'
  BY <1>5 DEF EndOfStage, Crash, Enter, Forget, disk, Set, TypeOK, ReadableInv
<1>6. ASSUME NEW p \in Procs, WriteSnap(p) PROVE ReadableInv'
  BY <1>6 DEF WriteSnap, files, ReadableInv
<1>7. ASSUME NEW p \in Procs, Written(p) PROVE ReadableInv'
  BY <1>7 DEF Written, Proceed, Forget, disk, Set, TypeOK, ReadableInv
<1>8. ASSUME NEW p \in Procs, OpenTmp(p) PROVE ReadableInv'
  BY <1>8 DEF OpenTmp, Set, TypeOK, ReadableInv
<1>9. ASSUME NEW p \in Procs, FillTmp(p) PROVE ReadableInv'
  BY <1>9 DEF FillTmp, Set, TypeOK, ReadableInv
<1>10. ASSUME NEW p \in Procs, Rename(p) PROVE ReadableInv'
  BY <1>10 DEF Rename, Set, TypeOK, ReadableInv
<1>11. ASSUME NEW p \in Procs, LoadTorn(p) \/ RenameLost(p) \/ IOFails(p)
       PROVE  ReadableInv'
  BY <1>11
     DEF LoadTorn, RenameLost, IOFails, Raise, Proceed, Enter, Forget, disk, Set,
         TypeOK, ReadableInv
<1>12. CASE UNCHANGED vars
  BY <1>12 DEF vars, disk, ReadableInv
<1>13. QED
  BY <1>1, <1>2, <1>3, <1>4, <1>5, <1>6, <1>7, <1>8, <1>9, <1>10, <1>11, <1>12
     DEF Next, Ingest

\* What watermark.py says of its readers holds while one process ingests, also when
\* it is killed in the middle of save(): the second process is the only thing that
\* tears the file.
THEOREM AloneAlwaysReadable ==
  ASSUME OneProcess PROVE Spec => []WatermarkReadable
<1>1. Init => ReadableInv
  BY DEF Init, ReadableInv
<1>2. TypeOK /\ TypeOK' /\ ReadableInv /\ [Next]_vars => ReadableInv'
  BY ReadableStep
<1>3. ReadableInv => WatermarkReadable
  BY DEF ReadableInv, WatermarkReadable
<1>4. QED
  BY <1>1, <1>2, <1>3, IngestionTypes, PTL DEF Spec
=============================================================================
