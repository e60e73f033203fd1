-------------------------- MODULE PollerJobsProofs --------------------------
(***************************************************************************)
(* PollerJobs for every number of days, weeks, charts, faults and manual    *)
(* calls: what the daily export, the weekly retrain and the weekly recap    *)
(* promise, whatever fails or dies on the way.  That they get done at all   *)
(* (JobGetsDone) is liveness and stays with the run.                        *)
(***************************************************************************)
EXTENDS PollerJobs, FiniteSetTheorems, SequenceTheorems, TLAPS

-----------------------------------------------------------------------------
(* The daily export.                                                       *)

Contents == {"live", "scrubbed", "nothing"}
Stages == {"idle", "backup", "scrub", "compact", "zipCompact", "zipSnapshot", "zipping", "thread",
           "upload", "store"}
AFile == {NoFile} \cup [by : Exporters, holds : Contents]
AnArchive == {NoFile} \cup [by : Exporters, holds : Contents \cup {"part"}]
AnExport == [at : Stages, day : 0 .. (Days - 1), holds : Contents \cup {"none"}]
DayFiles == [snapshot : AFile, compact : AFile, zip : AnArchive]

ExportTyped ==
  /\ hour \in 0 .. (2 * Days - 1)
  /\ saved \in -1 .. (Days - 1)
  /\ daily \in [at : {"idle", "check"}, day : 0 .. (Days - 1)]
  /\ export \in [Exporters -> AnExport] /\ files \in [0 .. (Days - 1) -> DayFiles]
  /\ uploads \subseteq Exporters \X (0 .. (Days - 1)) \X (Contents \cup {"part"})
  /\ overlapped \in BOOLEAN

\* An archive that was begun is there until the end, whoever overwrites it.
Begun(e, f) ==
  /\ e.at = "zipping" => e.holds \in Contents
  /\ e.at \in {"zipping", "thread", "upload"} => f.zip # NoFile

ArchivesStay == \A w \in Exporters : Begun(export[w], files[export[w].day])

\* Exports that do not overlap are not of one day, and so never share a file ...
DaysApart ==
  ~overlapped => \A v, w \in Exporters :
    v # w /\ export[v].at # "idle" /\ export[w].at # "idle" => export[v].day # export[w].day

\* ... and each finds what it has left itself: a snapshot, then a scrubbed one and its copies.
Own(w, e, f) ==
  /\ e.at = "scrub" => f.snapshot.by = w
  /\ e.at = "compact" => f.snapshot = [by |-> w, holds |-> "scrubbed"]
  /\ e.at = "zipCompact" => f.compact.holds = "scrubbed"
  /\ e.at = "zipSnapshot" => f.snapshot.holds = "scrubbed"
  /\ e.at = "zipping" => e.holds = "scrubbed" /\ f.zip.by = w
  /\ e.at \in {"thread", "upload"} => f.zip.holds = "scrubbed"

FilesAreOwn == ~overlapped => \A w \in Exporters : Own(w, export[w], files[export[w].day])

UploadBeforeStore ==
  \A w \in Exporters : export[w].at = "store" => \E u \in uploads : u[2] = export[w].day

ExportInv ==
  /\ ExportTyped /\ ArchivesStay /\ DaysApart /\ FilesAreOwn
  /\ UploadBeforeStore /\ UploadsAreScrubbed /\ DoneWasUploaded

LEMMA DayInRange == ExportTyped => Day \in 0 .. (Days - 1)
<1> SUFFICES ASSUME ExportTyped PROVE Day \in 0 .. (Days - 1)
  OBVIOUS
<1>1. Days \in Nat /\ hour \in 0 .. (2 * Days - 1)
  BY ExportAssumption DEF ExportTyped
<1> QED BY <1>1 DEF Day

\* An export goes from one stage to the next and leaves its files: whatever it does to the
\* other's of the same day, it takes no archive away.
LEMMA StageStep ==
  ASSUME ExportInv, NEW w \in Exporters, export[w].at # "idle",
         NEW e \in AnExport, e.day = export[w].day, export' = [export EXCEPT ![w] = e],
         NEW f \in DayFiles, files' = [files EXCEPT ![export[w].day] = f],
         f.zip = NoFile => files[export[w].day].zip = NoFile,
         UNCHANGED <<hour, saved, daily, overlapped>>,
         Begun(e, f), ~overlapped => Own(w, e, f),
         uploads \subseteq uploads',
         uploads' \subseteq Exporters \X (0 .. (Days - 1)) \X (Contents \cup {"part"}),
         overlapped \/ \A u \in uploads' : u[3] = "scrubbed",
         e.at = "store" => \E u \in uploads' : u[2] = e.day
  PROVE  ExportInv'
<1> USE DEF ExportInv
<1>1. ExportTyped'
  BY DEF ExportTyped
<1>2. /\ export'[w] = e /\ \A v \in Exporters : v # w => export'[v] = export[v]
      /\ files'[export[w].day] = f /\ export[w].day \in 0 .. (Days - 1)
      /\ \A d \in 0 .. (Days - 1) : d # export[w].day => files'[d] = files[d]
      /\ \A v \in Exporters : export[v].day \in 0 .. (Days - 1)
  BY DEF ExportTyped, AnExport
<1>3. ArchivesStay'
  <2> SUFFICES ASSUME NEW v \in Exporters PROVE Begun(export'[v], files'[export'[v].day])
    BY DEF ArchivesStay, Begun
  <2>1. CASE v = w
    BY <1>2, <2>1
  <2>2. CASE v # w
    <3>1. Begun(export[v], files[export[v].day]) /\ export'[v] = export[v]
      BY <1>2, <2>2 DEF ArchivesStay
    <3>2. files'[export[v].day].zip = NoFile => files[export[v].day].zip = NoFile
      BY <1>2
    <3> QED BY <3>1, <3>2 DEF Begun
  <2> QED BY <2>1, <2>2
<1>4. DaysApart'
  BY <1>2 DEF DaysApart
<1>5. FilesAreOwn'
  <2> SUFFICES ASSUME ~overlapped, NEW v \in Exporters
               PROVE  Own(v, export'[v], files'[export'[v].day])
    BY DEF FilesAreOwn, Own
  <2>1. CASE v = w
    BY <1>2, <2>1
  <2>2. CASE v # w /\ export[v].at = "idle"
    BY <1>2, <2>2 DEF Own
  <2>3. CASE v # w /\ export[v].at # "idle"
    <3>1. export[v].day # export[w].day
      BY <2>3 DEF DaysApart
    <3> QED BY <1>2, <2>3, <3>1 DEF FilesAreOwn
  <2> QED BY <2>1, <2>2, <2>3
<1>6. UploadBeforeStore'
  BY <1>2 DEF UploadBeforeStore
<1>7. UploadsAreScrubbed' /\ DoneWasUploaded'
  BY DEF UploadsAreScrubbed, DoneWasUploaded
<1> QED BY <1>1, <1>3, <1>4, <1>5, <1>6, <1>7

\* An export ends; only one that was uploaded is stored.
LEMMA EndStep ==
  ASSUME ExportInv, NEW w \in Exporters, export' = [export EXCEPT ![w] = Idle],
         UNCHANGED <<hour, files, uploads, overlapped>>,
         saved' = saved \/ (saved' = export[w].day /\ export[w].at = "store"),
         daily' \in [at : {"idle", "check"}, day : 0 .. (Days - 1)]
  PROVE  ExportInv'
<1> USE DEF ExportInv
<1>1. /\ Idle \in AnExport /\ export[w].day \in 0 .. (Days - 1) /\ export[w].day \in -1 .. (Days - 1)
      /\ Idle.at = "idle"
  BY ExportAssumption DEF ExportTyped, Idle, AnExport, Stages
<1>2. ExportTyped'
  BY <1>1 DEF ExportTyped
<1>3. export'[w] = Idle /\ \A v \in Exporters : v # w => export'[v] = export[v]
  BY DEF ExportTyped
<1>4. \A v \in Exporters : export'[v].at # "idle" => export'[v] = export[v]
  BY <1>1, <1>3
<1>5. ArchivesStay' /\ FilesAreOwn'
  <2>1. \A v \in Exporters : Begun(export'[v], files[export'[v].day])
    BY <1>4 DEF ArchivesStay, Begun
  <2>2. ASSUME ~overlapped, NEW v \in Exporters
        PROVE  Own(v, export'[v], files[export'[v].day])
    <3>1. CASE export'[v].at = "idle"
      BY <3>1 DEF Own
    <3>2. CASE export'[v].at # "idle"
      BY <1>4, <2>2, <3>2 DEF FilesAreOwn
    <3> QED BY <3>1, <3>2
  <2> QED BY <2>1, <2>2 DEF ArchivesStay, FilesAreOwn, Begun, Own
<1>6. DaysApart' /\ UploadBeforeStore'
  BY <1>3, <1>4 DEF DaysApart, UploadBeforeStore
<1>7. UploadsAreScrubbed' /\ DoneWasUploaded'
  BY DEF UploadsAreScrubbed, DoneWasUploaded, UploadBeforeStore
<1> QED BY <1>2, <1>5, <1>6, <1>7

LEMMA BeginStep ==
  ASSUME ExportInv, NEW w \in Exporters, export[w].at = "idle", NEW day \in 0 .. (Days - 1),
         Begins(w, day), UNCHANGED <<hour, saved, files, uploads>>,
         daily' \in [at : {"idle", "check"}, day : 0 .. (Days - 1)]
  PROVE  ExportInv'
<1> USE DEF ExportInv
<1> DEFINE e == [Idle EXCEPT !.at = "backup", !.day = day]
<1>1. e \in AnExport /\ e.at = "backup" /\ e.day = day
  BY DEF Idle, AnExport, Stages
<1>2. /\ export' = [export EXCEPT ![w] = e]
      /\ overlapped' = (overlapped \/ \E o \in Exporters : export[o].at # "idle" /\ export[o].day = day)
  BY DEF Begins
<1> HIDE DEF e
<1>3. /\ overlapped' \in BOOLEAN /\ (~overlapped' => ~overlapped)
      /\ ~overlapped' => \A o \in Exporters : export[o].at # "idle" => export[o].day # day
  BY <1>2 DEF ExportTyped
<1>4. ExportTyped'
  BY <1>1, <1>2, <1>3 DEF ExportTyped
<1>5. export'[w] = e /\ \A v \in Exporters : v # w => export'[v] = export[v]
  BY <1>2 DEF ExportTyped
<1>6. ArchivesStay' /\ FilesAreOwn'
  <2>1. \A v \in Exporters : Begun(export'[v], files[export'[v].day])
    BY <1>1, <1>5 DEF ArchivesStay, Begun
  <2>2. ASSUME ~overlapped', NEW v \in Exporters
        PROVE  Own(v, export'[v], files[export'[v].day])
    <3>1. CASE v = w
      BY <1>1, <1>5, <3>1 DEF Own
    <3>2. CASE v # w
      BY <1>3, <1>5, <2>2, <3>2 DEF FilesAreOwn
    <3> QED BY <3>1, <3>2
  <2> QED BY <2>1, <2>2 DEF ArchivesStay, FilesAreOwn, Begun, Own
<1>7. DaysApart'
  BY <1>1, <1>3, <1>5 DEF DaysApart
<1>8. UploadBeforeStore'
  BY <1>1, <1>5 DEF UploadBeforeStore
<1>9. UploadsAreScrubbed' /\ DoneWasUploaded'
  BY <1>3 DEF UploadsAreScrubbed, DoneWasUploaded
<1> QED BY <1>4, <1>6, <1>7, <1>8, <1>9

LEMMA Moved ==
  ASSUME NEW e \in AnExport, NEW at \in Stages
  PROVE  /\ [e EXCEPT !.at = at] \in AnExport /\ [e EXCEPT !.at = at].at = at
         /\ [e EXCEPT !.at = at].day = e.day /\ [e EXCEPT !.at = at].holds = e.holds
BY DEF AnExport

\* The stages; what each finds of its own files is what the one before has left.
LEMMA WorkKeepsExports ==
  ASSUME ExportInv, NEW w \in Exporters,
         Backup(w) \/ Scrub(w) \/ Compact(w) \/ BeginZip(w) \/ EndZip(w) \/ OpenThread(w) \/ Upload(w)
  PROVE  ExportInv'
<1> DEFINE e == export[w]
           f == files[export[w].day]
<1>1. /\ e \in AnExport /\ f \in DayFiles /\ Begun(e, f) /\ (~overlapped => Own(w, e, f))
      /\ uploads \subseteq Exporters \X (0 .. (Days - 1)) \X (Contents \cup {"part"})
      /\ overlapped \/ \A u \in uploads : u[3] = "scrubbed"
  <2>1. e \in AnExport /\ files \in [0 .. (Days - 1) -> DayFiles]
    BY DEF ExportInv, ExportTyped
  <2>2. e.day \in 0 .. (Days - 1)
    BY <2>1 DEF AnExport
  <2>3. f \in DayFiles
    BY <2>1, <2>2
  <2>4. Begun(e, f) /\ (~overlapped => Own(w, e, f))
    BY DEF ExportInv, ArchivesStay, FilesAreOwn
  <2>5. /\ uploads \subseteq Exporters \X (0 .. (Days - 1)) \X (Contents \cup {"part"})
        /\ overlapped \/ \A u \in uploads : u[3] = "scrubbed"
    BY DEF ExportInv, ExportTyped, UploadsAreScrubbed
  <2> QED BY <2>1, <2>3, <2>4, <2>5
<1>2. /\ f.zip \in AnArchive /\ f.snapshot \in AFile /\ f.compact \in AFile
      /\ e.day \in 0 .. (Days - 1) /\ e.holds \in Contents \cup {"none"}
  BY <1>1 DEF DayFiles, AnExport
<1>3. /\ UNCHANGED <<hour, saved, daily, overlapped>> /\ e.at # "idle"
      /\ ~Upload(w) => uploads' = uploads
  BY DEF Backup, Scrub, Compact, BeginZip, EndZip, OpenThread, Upload, At
<1>4. \A x \in Contents : [by |-> w, holds |-> x] \in AFile /\ [by |-> w, holds |-> x] \in AnArchive
  BY DEF AFile, AnArchive
<1>5. ASSUME NEW n \in AnExport, NEW g \in DayFiles, export' = [export EXCEPT ![w] = n],
             files' = [files EXCEPT ![e.day] = g], uploads' = uploads, n.day = e.day, n.at # "store",
             g.zip = NoFile => f.zip = NoFile, Begun(n, g), ~overlapped => Own(w, n, g)
      PROVE  ExportInv'
  BY <1>1, <1>3, <1>5, StageStep
<1>6. ASSUME NEW at \in Stages \ {"store"}, NEW g \in DayFiles, export' = [export EXCEPT ![w].at = at],
             files' = [files EXCEPT ![e.day] = g], uploads' = uploads,
             g.zip = NoFile => f.zip = NoFile,
             at = "zipping" => e.holds \in Contents,
             at \in {"zipping", "thread", "upload"} => g.zip # NoFile,
             ~overlapped => Own(w, [e EXCEPT !.at = at], g)
      PROVE  ExportInv'
  <2> DEFINE n == [e EXCEPT !.at = at]
  <2>1. n \in AnExport /\ n.at = at /\ n.day = e.day /\ n.holds = e.holds
    BY <1>1, Moved
  <2>2. export' = [export EXCEPT ![w] = n]
    BY <1>6
  <2> HIDE DEF n
  <2>3. Begun(n, g)
    BY <1>6, <2>1 DEF Begun
  <2>4. ~overlapped => Own(w, n, g)
    BY <1>6 DEF n
  <2> QED BY <1>5, <1>6, <2>1, <2>2, <2>3, <2>4
<1> DEFINE m(at) == [e EXCEPT !.at = at]
<1>7. \A at \in Stages : m(at).at = at /\ m(at).day = e.day /\ m(at).holds = e.holds
  BY <1>1, Moved
<1> HIDE DEF e, f
<1>8. CASE Backup(w)
  <2> DEFINE g == [f EXCEPT !.snapshot = [by |-> w, holds |-> "live"]]
  <2>1. g \in DayFiles /\ g.zip = f.zip /\ g.snapshot.by = w
    BY <1>1, <1>4 DEF DayFiles, Contents
  <2>2. /\ export' = [export EXCEPT ![w].at = "scrub"] /\ files' = [files EXCEPT ![e.day] = g]
        /\ uploads' = uploads
    BY <1>8 DEF Backup, Leaves, Goes, Files, e, f
  <2>3. "scrub" \in Stages \ {"store"}
    BY DEF Stages
  <2> HIDE DEF g
  <2>4. Own(w, m("scrub"), g)
    BY <1>7, <2>1, <2>3 DEF Own
  <2> QED BY <1>6, <2>1, <2>2, <2>3, <2>4
<1>9. CASE Scrub(w)
  <2> DEFINE g == IF f.snapshot.by = w THEN [f EXCEPT !.snapshot.holds = "scrubbed"] ELSE f
  <2>1. g \in DayFiles /\ g.zip = f.zip
    <3>1. CASE f.snapshot.by = w
      <4>1. f.snapshot \in [by : Exporters, holds : Contents]
        BY <1>2, <3>1 DEF AFile, NoFile, Exporters
      <4>2. [f.snapshot EXCEPT !.holds = "scrubbed"] \in AFile
        BY <4>1 DEF AFile, Contents
      <4>3. g = [f EXCEPT !.snapshot = [f.snapshot EXCEPT !.holds = "scrubbed"]]
        BY <3>1
      <4> QED BY <1>1, <4>2, <4>3 DEF DayFiles
    <3>2. CASE f.snapshot.by # w
      BY <1>1, <3>2
    <3> QED BY <3>1, <3>2
  <2>2. /\ export' = [export EXCEPT ![w].at = "compact"] /\ files' = [files EXCEPT ![e.day] = g]
        /\ uploads' = uploads /\ e.at = "scrub"
    BY <1>9 DEF Scrub, Leaves, Goes, Files, e, f, At
  <2>3. "compact" \in Stages \ {"store"}
    BY DEF Stages
  <2>4. ~overlapped => g.snapshot = [by |-> w, holds |-> "scrubbed"]
    <3>1. ~overlapped => f.snapshot.by = w
      BY <1>1, <2>2 DEF Own
    <3>2. CASE f.snapshot.by = w
      <4>1. f.snapshot \in [by : Exporters, holds : Contents]
        BY <1>2, <3>2 DEF AFile, NoFile, Exporters
      <4>2. [f.snapshot EXCEPT !.holds = "scrubbed"] = [by |-> w, holds |-> "scrubbed"]
        BY <3>2, <4>1
      <4> QED BY <1>1, <3>2, <4>2 DEF DayFiles
    <3> QED BY <3>1, <3>2
  <2> HIDE DEF g
  <2>5. ~overlapped => Own(w, m("compact"), g)
    BY <1>7, <2>3, <2>4 DEF Own
  <2> QED BY <1>6, <2>1, <2>2, <2>3, <2>5
<1>10. CASE Compact(w)
  <2> DEFINE opened == Opened(w)
             g == [f EXCEPT !.snapshot = opened, !.compact = [by |-> w, holds |-> opened.holds]]
             h == [f EXCEPT !.snapshot = opened, !.compact = NoFile]
  <2>1. opened \in AFile /\ opened.holds \in Contents
    BY <1>2, <1>4 DEF Opened, Files, f, e, AFile, Contents, NoFile
  <2>2. ~overlapped => opened.holds = "scrubbed"
    <3>1. ~overlapped => f.snapshot = [by |-> w, holds |-> "scrubbed"]
      BY <1>1, <1>10 DEF Own, Compact, At, e
    <3>2. f.snapshot = [by |-> w, holds |-> "scrubbed"] => f.snapshot # NoFile
      BY DEF NoFile
    <3> QED BY <3>1, <3>2 DEF Opened, Files, f, e
  <2>3. \/ export' = [export EXCEPT ![w].at = "zipCompact"] /\ files' = [files EXCEPT ![e.day] = g]
        \/ export' = [export EXCEPT ![w].at = "zipSnapshot"] /\ files' = [files EXCEPT ![e.day] = h]
    BY <1>10 DEF Compact, Leaves, Goes, Files, e, f
  <2>4. uploads' = uploads
    BY <1>10 DEF Compact
  <2>5. {"zipCompact", "zipSnapshot"} \subseteq Stages \ {"store"}
    BY DEF Stages
  <2> HIDE DEF opened
  <2>6. /\ g \in DayFiles /\ g.zip = f.zip /\ g.compact.holds = opened.holds
        /\ h \in DayFiles /\ h.zip = f.zip /\ h.snapshot = opened
    <3>1. [by |-> w, holds |-> opened.holds] \in AFile /\ NoFile \in AFile
      BY <1>4, <2>1 DEF AFile
    <3> QED BY <1>1, <2>1, <3>1 DEF DayFiles
  <2> HIDE DEF g, h
  <2>7. ~overlapped => Own(w, m("zipCompact"), g) /\ Own(w, m("zipSnapshot"), h)
    BY <1>7, <2>2, <2>5, <2>6 DEF Own
  <2> QED BY <1>6, <2>3, <2>4, <2>5, <2>6, <2>7
<1>11. CASE BeginZip(w)
  <2> DEFINE g == [f EXCEPT !.zip = [by |-> w, holds |-> "part"]]
             n == [e EXCEPT !.at = "zipping", !.holds = Archived(w).holds]
  <2>1. Archived(w) \in AFile /\ Archived(w) # NoFile
    BY <1>2, <1>11 DEF BeginZip, Archived, Files, f, e
  <2>2. Archived(w).holds \in Contents
    BY <2>1 DEF AFile, NoFile
  <2>3. ~overlapped => Archived(w).holds = "scrubbed"
    BY <1>1, <1>11 DEF BeginZip, Archived, Files, f, e, At, Own
  <2>4. export' = [export EXCEPT ![w] = n] /\ files' = [files EXCEPT ![e.day] = g] /\ uploads' = uploads
    BY <1>11 DEF BeginZip, Leaves, Files, e, f
  <2>5. n \in AnExport /\ n.at = "zipping" /\ n.day = e.day /\ n.holds = Archived(w).holds
    BY <1>1, <2>2 DEF AnExport, Stages
  <2>6. g \in DayFiles /\ g.zip.by = w /\ g.zip # NoFile
    <3>1. [by |-> w, holds |-> "part"] \in AnArchive /\ [by |-> w, holds |-> "part"] # NoFile
      BY DEF AnArchive, NoFile
    <3> QED BY <1>1, <3>1 DEF DayFiles
  <2> HIDE DEF n, g
  <2>7. Begun(n, g) /\ (~overlapped => Own(w, n, g))
    BY <2>2, <2>3, <2>5, <2>6 DEF Begun, Own
  <2> QED BY <1>5, <2>4, <2>5, <2>6, <2>7
<1>12. CASE EndZip(w)
  <2> DEFINE zip == IF f.zip.by = w THEN [by |-> w, holds |-> e.holds] ELSE f.zip
             g == [NoFiles EXCEPT !.zip = zip]
  <2>1. e.at = "zipping" /\ uploads' = uploads
    BY <1>12 DEF EndZip, At, e
  <2>2. e.holds \in Contents /\ f.zip # NoFile /\ (~overlapped => e.holds = "scrubbed" /\ f.zip.by = w)
    BY <1>1, <2>1 DEF Begun, Own
  <2>3. zip \in AnArchive /\ zip # NoFile /\ (~overlapped => zip.holds = "scrubbed")
    <3>1. [by |-> w, holds |-> e.holds] # NoFile
      BY <2>2 DEF NoFile, Contents
    <3> QED BY <1>2, <1>4, <2>2, <3>1
  <2>4. export' = [export EXCEPT ![w].at = "thread"] /\ files' = [files EXCEPT ![e.day] = g]
    BY <1>12 DEF EndZip, Leaves, Goes, Files, e, f
  <2> HIDE DEF zip
  <2>5. g \in DayFiles /\ g.zip = zip
    BY <2>3 DEF DayFiles, NoFiles, AFile
  <2>6. "thread" \in Stages \ {"store"}
    BY DEF Stages
  <2> HIDE DEF g
  <2>7. ~overlapped => Own(w, m("thread"), g)
    BY <1>7, <2>3, <2>5, <2>6 DEF Own
  <2> QED BY <1>6, <2>1, <2>2, <2>3, <2>4, <2>5, <2>6, <2>7
<1>13. CASE OpenThread(w)
  <2>1. /\ e.at = "thread" /\ uploads' = uploads /\ files' = files
        /\ export' = [export EXCEPT ![w].at = "upload"]
    BY <1>13 DEF OpenThread, At, Goes, e
  <2>2. files' = [files EXCEPT ![e.day] = f]
    BY <2>1 DEF ExportInv, ExportTyped, e, f
  <2>3. "upload" \in Stages \ {"store"}
    BY DEF Stages
  <2>4. f.zip # NoFile /\ (~overlapped => Own(w, m("upload"), f))
    BY <1>1, <1>7, <2>1, <2>3 DEF Begun, Own
  <2> QED BY <1>1, <1>6, <2>1, <2>2, <2>3, <2>4
<1>14. CASE Upload(w)
  <2> DEFINE n == [e EXCEPT !.at = "store"]
             u == <<w, e.day, f.zip.holds>>
  <2>1. /\ e.at = "upload" /\ uploads' = uploads \cup {u} /\ files' = files
        /\ export' = [export EXCEPT ![w] = n]
    BY <1>14 DEF Upload, At, Goes, Files, e, f
  <2>2. files' = [files EXCEPT ![e.day] = f]
    BY <2>1 DEF ExportInv, ExportTyped, e, f
  <2>3. n \in AnExport /\ n.at = "store" /\ n.day = e.day
    BY <1>1, Moved DEF Stages
  <2>4. f.zip.holds \in Contents \cup {"part"} /\ (~overlapped => f.zip.holds = "scrubbed")
    BY <1>1, <1>2, <2>1 DEF Begun, Own, AnArchive, NoFile
  <2>5. /\ uploads' \subseteq Exporters \X (0 .. (Days - 1)) \X (Contents \cup {"part"})
        /\ uploads \subseteq uploads' /\ u \in uploads' /\ u[2] = e.day /\ u[3] = f.zip.holds
    BY <1>1, <1>2, <2>1, <2>4
  <2> HIDE DEF n, u
  <2>6. Begun(n, f) /\ Own(w, n, f)
    BY <2>3 DEF Begun, Own
  <2>7. overlapped \/ \A x \in uploads' : x[3] = "scrubbed"
    BY <1>1, <2>1, <2>4, <2>5
  <2>8. \E x \in uploads' : x[2] = n.day
    BY <2>3, <2>5
  <2> QED BY <1>1, <1>3, <2>1, <2>2, <2>3, <2>5, <2>6, <2>7, <2>8, StageStep DEF e, f
<1> QED BY <1>8, <1>9, <1>10, <1>11, <1>12, <1>13, <1>14

LEMMA ExportNextStep ==
  ASSUME ExportInv, [ExportNext]_exportVars
  PROVE  ExportInv'
<1> USE ExportAssumption
<1>1. CASE HourPasses
  <2>1. ExportTyped'
    BY <1>1 DEF HourPasses, ExportInv, ExportTyped
  <2> QED BY <1>1, <2>1 DEF HourPasses, ExportInv, ArchivesStay, DaysApart, FilesAreOwn, Begun, Own,
                            UploadBeforeStore, UploadsAreScrubbed, DoneWasUploaded
<1>2. CASE ReadExportState
  <2>1. daily' \in [at : {"idle", "check"}, day : 0 .. (Days - 1)]
    BY <1>2, DayInRange DEF ReadExportState, ExportInv
  <2>2. ExportTyped'
    BY <1>2, <2>1 DEF ReadExportState, ExportInv, ExportTyped
  <2> QED BY <1>2, <2>2 DEF ReadExportState, ExportInv, ArchivesStay, DaysApart, FilesAreOwn, Begun, Own,
                            UploadBeforeStore, UploadsAreScrubbed, DoneWasUploaded
<1>3. CASE StartDaily
  <2>1. daily' \in [at : {"idle", "check"}, day : 0 .. (Days - 1)] /\ daily.day \in 0 .. (Days - 1)
    BY <1>3 DEF StartDaily, ExportInv, ExportTyped
  <2>2. CASE ThreadAlive
    <3>1. UNCHANGED <<hour, saved, export, files, uploads, overlapped>>
      BY <1>3, <2>2 DEF StartDaily
    <3>2. ExportTyped'
      BY <2>1, <3>1 DEF ExportInv, ExportTyped
    <3> QED BY <3>1, <3>2 DEF ExportInv, ArchivesStay, DaysApart, FilesAreOwn, Begun, Own,
                              UploadBeforeStore, UploadsAreScrubbed, DoneWasUploaded
  <2>3. CASE ~ThreadAlive
    BY <1>3, <2>1, <2>3, BeginStep DEF StartDaily, ThreadAlive, Exporters
  <2> QED BY <2>2, <2>3
<1>4. CASE StartManual
  <2>1. daily' \in [at : {"idle", "check"}, day : 0 .. (Days - 1)]
    BY <1>4 DEF StartManual, ExportInv, ExportTyped
  <2> QED BY <1>4, <2>1, DayInRange, BeginStep DEF StartManual, ExportInv, Exporters
<1>5. CASE ExportPollerDies
  <2>1. daily' \in [at : {"idle", "check"}, day : 0 .. (Days - 1)]
    BY <1>5 DEF ExportPollerDies, ExportInv, ExportTyped
  <2> QED BY <1>5, <2>1, EndStep DEF ExportPollerDies, Exporters
<1>6. ASSUME NEW w \in Exporters, StoreExport(w) \/ ExportFails(w)
      PROVE  ExportInv'
  <2>1. daily' \in [at : {"idle", "check"}, day : 0 .. (Days - 1)]
    BY <1>6 DEF StoreExport, ExportFails, ExportInv, ExportTyped
  <2> QED BY <1>6, <2>1, EndStep DEF StoreExport, ExportFails, At
<1>7. CASE UNCHANGED exportVars
  <2>1. ExportTyped'
    BY <1>7 DEF exportVars, ExportInv, ExportTyped
  <2> QED BY <1>7, <2>1 DEF exportVars, ExportInv, ArchivesStay, DaysApart, FilesAreOwn, Begun, Own,
                            UploadBeforeStore, UploadsAreScrubbed, DoneWasUploaded
<1> QED BY <1>1, <1>2, <1>3, <1>4, <1>5, <1>6, <1>7, WorkKeepsExports
        DEF ExportNext, ExportMain, ExportStep

LEMMA ExportInitInv == ExportInit => ExportInv
<1> SUFFICES ASSUME ExportInit PROVE ExportInv
  OBVIOUS
<1> USE ExportAssumption DEF ExportInit
<1>1. Idle \in AnExport /\ Idle.at = "idle" /\ NoFiles \in DayFiles
  BY DEF Idle, AnExport, Stages, NoFiles, DayFiles, AFile, AnArchive
<1>2. \A w \in Exporters : export[w].at = "idle"
  BY <1>1
<1>3. ExportTyped
  <2>1. hour \in 0 .. (2 * Days - 1) /\ saved \in -1 .. (Days - 1) /\ 0 \in 0 .. (Days - 1)
    OBVIOUS
  <2>2. daily \in [at : {"idle", "check"}, day : 0 .. (Days - 1)]
    BY <2>1
  <2>3. overlapped \in BOOLEAN
    BY Zenon
  <2> QED BY <1>1, <2>1, <2>2, <2>3 DEF ExportTyped
<1> QED BY <1>2, <1>3 DEF ExportInv, ArchivesStay, DaysApart, FilesAreOwn, Begun, Own,
                          UploadBeforeStore, UploadsAreScrubbed, DoneWasUploaded
-----------------------------------------------------------------------------
(* The weekly retrain.                                                     *)

ARun == [is : {"none", "running", "overdue", "ended", "reaped"}, ok : BOOLEAN, week : 0 .. (Weeks - 1)]
ALook == [at : {"idle", "read", "check", "launch", "lock", "note", "activate"},
          seen : -1 .. (Weeks - 1), week : 0 .. (Weeks - 1), run : Runs \cup {NoRun}]

RetrainTyped ==
  /\ weekHour \in 0 .. (2 * Weeks - 1)
  /\ lastRun \in -1 .. (Weeks - 1)
  /\ lockFile \in Runs \cup {NoRun} /\ active \in Runs \cup {NoRun}
  /\ run \in [Runs -> ARun]
  /\ watchers \in SUBSET Runs
  /\ retrain \in ALook
  /\ retrainSpent \in [faults : Nat, early : Nat]
  /\ unlocked \in BOOLEAN

\* The main thread holds a run from its launch to its activation.
HeldRun ==
  IF retrain.at \in {"lock", "note", "activate"}
  THEN retrain.run \in Runs /\ run[retrain.run].is # "none" ELSE retrain.run = NoRun

\* A run is a success only when it has ended, and the recorded weeks are those of successes.
Succeeded(week) == \E c \in Runs : run[c].ok /\ run[c].week = week

WeeksAreEarned ==
  /\ \A c \in Runs : run[c].ok => run[c].is \in {"ended", "reaped"}
  /\ lastRun # -1 => Succeeded(lastRun)
  /\ retrain.seen # -1 => Succeeded(retrain.seen)

\* Nobody clears the lock of a run that goes on: as long as none ended behind the main thread's
\* back, the active run is what the lock says, and it runs while the main thread looks around.
LockIsKept ==
  retrainSpent.early = 0 /\ ~unlocked =>
    /\ \A c \in Runs : Running(c) => lockFile = c \/ (retrain.at = "lock" /\ retrain.run = c)
    /\ retrain.at \in {"launch", "lock"} => lockFile = NoRun
    /\ retrain.at \in {"note", "activate"} => lockFile = retrain.run
    /\ retrain.at \in {"launch", "lock", "note", "activate"} => active = NoRun
    /\ retrain.at # "idle" /\ active # NoRun => Running(active)
    /\ active # NoRun => lockFile = active

\* Without faults, every run but the one under way has succeeded, and weeks are run in order.
UnderWay == {active, retrain.run}

WeeksInOrder ==
  retrainSpent.faults = 0 /\ retrainSpent.early = 0 =>
    /\ ~unlocked
    /\ lastRun <= Week /\ retrain.week <= Week
    /\ \A c \in Runs : run[c].is # "overdue" /\ (run[c].is \in {"ended", "reaped"} => run[c].ok)
    /\ \A c \in Runs : run[c].is # "none" => run[c].week <= Week
    /\ \A c \in Runs \ UnderWay : run[c].is # "none" => run[c].is = "reaped" /\ run[c].week <= lastRun
    /\ \A c \in Runs \cap UnderWay : run[c].is # "none" /\ lastRun < run[c].week
    /\ retrain.at \in {"check", "launch", "lock", "note", "activate"} =>
         retrain.seen = lastRun /\ lastRun < retrain.week
    /\ retrain.at \in {"lock", "note", "activate"} => run[retrain.run].week = retrain.week
    /\ \A c, d \in Runs : run[c].is # "none" /\ run[d].is # "none" /\ run[c].week = run[d].week => c = d

RetrainInv == RetrainTyped /\ HeldRun /\ WeeksAreEarned /\ LockIsKept /\ WeeksInOrder

USE DEF ARun, ALook

LEMMA WeekInRange == RetrainTyped => Week \in 0 .. (Weeks - 1)
<1> SUFFICES ASSUME RetrainTyped PROVE Week \in 0 .. (Weeks - 1)
  OBVIOUS
<1>1. Weeks \in Nat /\ weekHour \in 0 .. (2 * Weeks - 1)
  BY RetrainAssumption DEF RetrainTyped
<1> QED BY <1>1 DEF Week

LEMMA RunsArePositive == Runs \subseteq Nat \ {0} /\ NoRun \notin Runs
BY RetrainAssumption DEF Runs, NoRun

LEMMA Looked ==
  ASSUME RetrainTyped, NEW place, Looks(place)
  PROVE  /\ retrain'.at = place /\ retrain'.seen = retrain.seen /\ retrain'.week = retrain.week
         /\ retrain'.run = retrain.run
BY DEF RetrainTyped, Looks

LEMMA IdleRetrain ==
  /\ RetrainIdle.at = "idle" /\ RetrainIdle.seen = -1 /\ RetrainIdle.week = 0 /\ RetrainIdle.run = NoRun
  /\ RetrainIdle \in ALook
BY RetrainAssumption DEF RetrainIdle

\* What a step does to one run.
LEMMA RunMoves ==
  ASSUME RetrainTyped, NEW c \in Runs, NEW is \in {"none", "running", "overdue", "ended", "reaped"},
         run' = [run EXCEPT ![c].is = is]
  PROVE  /\ run' \in [Runs -> ARun]
         /\ run'[c].is = is /\ run'[c].ok = run[c].ok /\ run'[c].week = run[c].week
         /\ \A d \in Runs : d # c => run'[d] = run[d]
BY DEF RetrainTyped

LEMMA ClockKeepsRetrain ==
  ASSUME RetrainInv, WeekHourPasses
  PROVE  RetrainInv'
<1> USE DEF RetrainInv, WeekHourPasses
<1>1. RetrainTyped'
  BY RetrainAssumption DEF RetrainTyped
<1>2. Week \in Int /\ Week' \in Int /\ Week <= Week'
  <2>1. Week \in 0 .. (Weeks - 1)
    BY WeekInRange
  <2>2. weekHour \in Int /\ weekHour' = weekHour + 1
    BY DEF RetrainTyped
  <2>3. Week' = (weekHour + 1) \div 2
    BY <2>2 DEF Week
  <2> QED BY <2>1, <2>2, <2>3 DEF Week
<1>3. HeldRun' /\ WeeksAreEarned' /\ LockIsKept'
  BY DEF HeldRun, WeeksAreEarned, Succeeded, LockIsKept, Running
<1>4. WeeksInOrder'
  BY <1>2 DEF WeeksInOrder, UnderWay, RetrainTyped
<1> QED BY <1>1, <1>3, <1>4

\* A fault voids what holds without faults; the rest is about one run that hangs.
LEMMA HangKeepsRetrain ==
  ASSUME RetrainInv, NEW c \in Runs, RunsOverTime(c)
  PROVE  RetrainInv'
<1> USE DEF RetrainInv, RunsOverTime
<1>1. /\ run' = [run EXCEPT ![c].is = "overdue"] /\ run[c].is = "running"
      /\ retrainSpent'.faults > 0 /\ retrainSpent'.faults \in Nat /\ retrainSpent'.early = retrainSpent.early
      /\ retrainSpent' \in [faults : Nat, early : Nat]
  BY DEF RetrainTyped
<1>2. /\ run' \in [Runs -> ARun]
      /\ run'[c].is = "overdue" /\ run'[c].ok = run[c].ok /\ run'[c].week = run[c].week
      /\ \A d \in Runs : d # c => run'[d] = run[d]
  BY <1>1, RunMoves
<1>3. RetrainTyped'
  BY <1>1, <1>2 DEF RetrainTyped
<1>4. HeldRun' /\ WeeksAreEarned'
  BY <1>1, <1>2 DEF HeldRun, WeeksAreEarned, Succeeded
<1>5. LockIsKept'
  BY <1>1, <1>2 DEF LockIsKept, Running, RetrainTyped
<1>6. WeeksInOrder'
  BY <1>1 DEF WeeksInOrder
<1> QED BY <1>3, <1>4, <1>5, <1>6

LEMMA EndKeepsRetrain ==
  ASSUME RetrainInv, NEW c \in Runs, RunEnds(c)
  PROVE  RetrainInv'
<1> USE DEF RetrainInv
<1>1. PICK ok \in BOOLEAN :
        /\ run' = [run EXCEPT ![c].is = AfterEnd(c), ![c].ok = ok]
        /\ retrainSpent' = [faults |-> retrainSpent.faults + (IF ok THEN 0 ELSE 1),
                            early |-> retrainSpent.early + (IF retrain.at = "idle" THEN 0 ELSE 1)]
  BY DEF RunEnds
<1>2. /\ Running(c) /\ UNCHANGED <<weekHour, lastRun, lockFile, active, watchers, retrain, unlocked>>
      /\ AfterEnd(c) \in {"ended", "reaped"}
      /\ ~IsOrphan(c) => AfterEnd(c) = "ended"
  BY DEF RunEnds, AfterEnd
<1>3. /\ run' \in [Runs -> ARun]
      /\ run'[c].is = AfterEnd(c) /\ run'[c].ok = ok /\ run'[c].week = run[c].week
      /\ \A d \in Runs : d # c => run'[d] = run[d]
  BY <1>1, <1>2 DEF RetrainTyped
<1>4. /\ retrainSpent' \in [faults : Nat, early : Nat] /\ retrainSpent \in [faults : Nat, early : Nat]
      /\ retrainSpent'.faults = 0 => retrainSpent.faults = 0 /\ ok = TRUE
      /\ retrainSpent'.early = 0 => retrainSpent.early = 0 /\ retrain.at = "idle"
  BY <1>1 DEF RetrainTyped
<1>5. RetrainTyped'
  BY <1>2, <1>3, <1>4 DEF RetrainTyped
<1>6. ~run[c].ok
  BY <1>2 DEF WeeksAreEarned, Running
<1>7. HeldRun' /\ WeeksAreEarned'
  BY <1>2, <1>3, <1>6 DEF HeldRun, WeeksAreEarned, Succeeded
<1>8. LockIsKept'
  <2>1. \A d \in Runs : Running(d)' => Running(d)
    BY <1>2, <1>3 DEF Running
  <2> QED BY <1>2, <1>4, <2>1 DEF LockIsKept
<1>9. WeeksInOrder'
  <2> SUFFICES ASSUME retrainSpent'.faults = 0, retrainSpent'.early = 0
               PROVE  WeeksInOrder'
    BY DEF WeeksInOrder
  <2>1. Week' = Week /\ UnderWay' = UnderWay
    BY <1>2 DEF Week, UnderWay
  <2>2. /\ retrainSpent.faults = 0 /\ retrainSpent.early = 0 /\ retrain.at = "idle" /\ run'[c].ok
    BY <1>3, <1>4
  <2>3. c \in UnderWay
    BY <1>2, <2>2 DEF WeeksInOrder, Running
  <2>4. ~IsOrphan(c)
    BY <2>3 DEF IsOrphan, UnderWay
  <2>5. \A d \in Runs : run'[d].week = run[d].week /\ (run'[d].is = "none" <=> run[d].is = "none")
    BY <1>2, <1>3 DEF Running
  <2>6. \A d \in Runs \ UnderWay : run'[d] = run[d]
    BY <1>3, <2>3
  <2> QED BY <1>2, <1>3, <2>1, <2>2, <2>3, <2>4, <2>5, <2>6 DEF WeeksInOrder
<1> QED BY <1>5, <1>7, <1>8, <1>9

LEMMA WatcherKeepsRetrain ==
  ASSUME RetrainInv, NEW c \in Runs, RetrainWatcher(c)
  PROVE  RetrainInv'
<1> USE DEF RetrainInv
<1>1. CASE WatcherWaits(c)
  <2>1. /\ run' = [run EXCEPT ![c].is = "reaped"] /\ run[c].is = "ended"
        /\ UNCHANGED <<weekHour, lastRun, lockFile, active, watchers, retrain, retrainSpent, unlocked>>
    BY <1>1 DEF WatcherWaits
  <2>2. /\ run' \in [Runs -> ARun]
        /\ run'[c].is = "reaped" /\ run'[c].ok = run[c].ok /\ run'[c].week = run[c].week
        /\ \A d \in Runs : d # c => run'[d] = run[d]
    BY <2>1, RunMoves
  <2>3. RetrainTyped'
    BY <2>1, <2>2 DEF RetrainTyped
  <2>4. HeldRun' /\ WeeksAreEarned'
    BY <2>1, <2>2 DEF HeldRun, WeeksAreEarned, Succeeded
  <2>5. LockIsKept'
    BY <2>1, <2>2 DEF LockIsKept, Running, RetrainTyped
  <2>6. WeeksInOrder'
    <3>1. Week' = Week /\ UnderWay' = UnderWay
      BY <2>1 DEF Week, UnderWay
    <3>2. \A d \in Runs : /\ run'[d].week = run[d].week /\ run'[d].ok = run[d].ok
                          /\ run'[d].is = "none" <=> run[d].is = "none"
      BY <2>1, <2>2
    <3> QED BY <2>1, <2>2, <3>1, <3>2 DEF WeeksInOrder, HeldRun
  <2> QED BY <2>3, <2>4, <2>5, <2>6
<1>2. CASE WatcherEnds(c) /\ active # c
  <2>1. /\ UNCHANGED <<weekHour, lastRun, lockFile, active, run, retrain, retrainSpent, unlocked>>
        /\ watchers' = watchers \ {c}
    BY <1>2 DEF WatcherEnds
  <2>2. RetrainTyped'
    BY <2>1 DEF RetrainTyped
  <2>3. HeldRun' /\ WeeksAreEarned' /\ LockIsKept' /\ WeeksInOrder'
    BY <2>1 DEF HeldRun, WeeksAreEarned, Succeeded, LockIsKept, Running, WeeksInOrder, Week, UnderWay
  <2> QED BY <2>2, <2>3
<1>3. CASE WatcherEnds(c) /\ active = c
  <2>1. /\ UNCHANGED <<weekHour, run, retrain, retrainSpent, unlocked>> /\ watchers' = watchers \ {c}
        /\ lastRun' = IF run[c].ok THEN run[c].week ELSE lastRun
        /\ lockFile' = NoRun /\ active' = NoRun /\ run[c].is = "reaped"
    BY <1>3 DEF WatcherEnds, Finalises
  <2>2. RetrainTyped'
    <3>1. run[c].week \in -1 .. (Weeks - 1)
      BY DEF RetrainTyped
    <3> QED BY <2>1, <3>1 DEF RetrainTyped
  <2>3. HeldRun' /\ WeeksAreEarned'
    BY <2>1 DEF HeldRun, WeeksAreEarned, Succeeded
  <2>4. /\ retrainSpent.early = 0 /\ ~unlocked => retrain.at = "idle"
        /\ active \in Runs /\ active # NoRun /\ ~Running(active)
    BY <1>3, <2>1, RunsArePositive DEF LockIsKept, Running
  <2>5. LockIsKept'
    <3> SUFFICES ASSUME retrainSpent.early = 0, ~unlocked PROVE LockIsKept'
      BY <2>1 DEF LockIsKept
    <3>1. \A d \in Runs : ~Running(d)'
      BY <2>1, <2>4 DEF LockIsKept, Running
    <3> QED BY <2>1, <2>4, <3>1 DEF LockIsKept
  <2>6. WeeksInOrder'
    <3> SUFFICES ASSUME retrainSpent.faults = 0, retrainSpent.early = 0 PROVE WeeksInOrder'
      BY <2>1 DEF WeeksInOrder
    <3>1. Week' = Week /\ retrain.at = "idle" /\ ~unlocked
      BY <2>1, <2>4 DEF Week, WeeksInOrder
    <3>2. retrain.run = NoRun
      BY <3>1 DEF HeldRun
    <3>3. UnderWay = {c, NoRun} /\ UnderWay' = {NoRun} /\ c \in UnderWay
      BY <1>3, <2>1, <3>2 DEF UnderWay
    <3>4. run[c].ok /\ lastRun' = run[c].week /\ lastRun < run[c].week /\ run[c].week <= Week
      BY <2>1, <3>3 DEF WeeksInOrder
    <3>5. \A d \in Runs \ UnderWay' : run[d].is # "none" => run[d].is = "reaped" /\ run[d].week <= lastRun'
      <4> SUFFICES ASSUME NEW d \in Runs, run[d].is # "none"
                   PROVE  run[d].is = "reaped" /\ run[d].week <= lastRun'
        OBVIOUS
      <4>1. CASE d = c
        BY <2>1, <3>4, <4>1 DEF RetrainTyped
      <4>2. CASE d # c
        <5>1. run[d].is = "reaped" /\ run[d].week <= lastRun
          BY <3>3, <4>2, RunsArePositive DEF WeeksInOrder
        <5> QED BY <3>4, <5>1 DEF RetrainTyped
      <4> QED BY <4>1, <4>2
    <3>6. Runs \cap UnderWay' = {}
      BY <3>3, RunsArePositive
    <3> QED BY <2>1, <3>1, <3>4, <3>5, <3>6 DEF WeeksInOrder
  <2> QED BY <2>2, <2>3, <2>5, <2>6
<1> QED BY <1>1, <1>2, <1>3 DEF RetrainWatcher

LEMMA RefreshKeepsRetrain ==
  ASSUME RetrainInv, Refresh
  PROVE  RetrainInv'
<1> USE DEF RetrainInv
<1>1. /\ retrain.at = "idle" /\ UNCHANGED <<weekHour, watchers, unlocked>> /\ Looks("read")
      /\ retrain.run = NoRun
  BY DEF Refresh, HeldRun
<1>2. /\ retrain'.at = "read" /\ retrain'.seen = retrain.seen /\ retrain'.week = retrain.week
      /\ retrain'.run = NoRun
      /\ retrain' \in ALook
  BY <1>1, Looked DEF RetrainTyped, Looks
<1>3. Week' = Week
  BY <1>1 DEF Week
<1>4. CASE /\ active # NoRun => Running(active) /\ ~IsOverdue(active)
           /\ UNCHANGED <<lastRun, lockFile, active, run, retrainSpent>>
  <2>1. RetrainTyped'
    BY <1>1, <1>2, <1>4 DEF RetrainTyped
  <2>2. HeldRun' /\ WeeksAreEarned' /\ LockIsKept'
    BY <1>1, <1>2, <1>4 DEF HeldRun, WeeksAreEarned, Succeeded, LockIsKept, Running
  <2>3. WeeksInOrder'
    BY <1>1, <1>2, <1>3, <1>4 DEF WeeksInOrder, UnderWay
  <2> QED BY <2>1, <2>2, <2>3
<1>5. CASE /\ active # NoRun /\ IsOverdue(active) /\ retrainSpent.early < MaxEarlyEnds
           /\ run' = [run EXCEPT ![active].is = "ended"]
           /\ retrainSpent' = [retrainSpent EXCEPT !.early = @ + 1]
           /\ UNCHANGED <<lastRun, lockFile, active>>
  <2>1. active \in Runs /\ run[active].is = "overdue"
    BY <1>5 DEF RetrainTyped, IsOverdue
  <2>2. /\ run' \in [Runs -> ARun]
        /\ run'[active].is = "ended" /\ run'[active].ok = run[active].ok
        /\ run'[active].week = run[active].week
        /\ \A d \in Runs : d # active => run'[d] = run[d]
    BY <1>5, <2>1, RunMoves
  <2>3. retrainSpent' \in [faults : Nat, early : Nat] /\ retrainSpent'.early # 0
    BY <1>5 DEF RetrainTyped
  <2>4. RetrainTyped'
    BY <1>1, <1>2, <1>5, <2>2, <2>3 DEF RetrainTyped
  <2>5. HeldRun' /\ WeeksAreEarned'
    BY <1>1, <1>2, <1>5, <2>1, <2>2 DEF HeldRun, WeeksAreEarned, Succeeded
  <2> QED BY <2>3, <2>4, <2>5 DEF LockIsKept, WeeksInOrder
<1>6. CASE /\ active # NoRun /\ (IsOverdue(active) \/ run[active].is \in {"ended", "reaped"})
           /\ run' = [run EXCEPT ![active].is = "reaped"]
           /\ Finalises(active)
           /\ UNCHANGED retrainSpent
  <2>1. active \in Runs /\ run[active].is \in {"overdue", "ended", "reaped"}
    BY <1>6 DEF RetrainTyped, IsOverdue
  <2>2. /\ run' \in [Runs -> ARun]
        /\ run'[active].is = "reaped" /\ run'[active].ok = run[active].ok
        /\ run'[active].week = run[active].week
        /\ \A d \in Runs : d # active => run'[d] = run[d]
    BY <1>6, <2>1, RunMoves
  <2>3. /\ lastRun' = IF run[active].ok THEN run[active].week ELSE lastRun
        /\ lockFile' = NoRun /\ active' = NoRun /\ retrainSpent' = retrainSpent
    BY <1>6 DEF Finalises
  <2>4. RetrainTyped'
    <3>1. run[active].week \in -1 .. (Weeks - 1)
      BY <2>1 DEF RetrainTyped
    <3> QED BY <1>1, <1>2, <2>2, <2>3, <3>1 DEF RetrainTyped
  <2>5. HeldRun' /\ WeeksAreEarned'
    BY <1>1, <1>2, <2>1, <2>2, <2>3 DEF HeldRun, WeeksAreEarned, Succeeded
  <2>6. LockIsKept'
    <3> SUFFICES ASSUME retrainSpent.early = 0, ~unlocked PROVE LockIsKept'
      BY <1>1, <2>3 DEF LockIsKept
    <3>1. \A d \in Runs : ~Running(d)'
      BY <1>1, <1>6, <2>1, <2>2 DEF LockIsKept, Running
    <3> QED BY <1>1, <1>2, <2>3, <3>1 DEF LockIsKept
  <2>7. WeeksInOrder'
    <3> SUFFICES ASSUME retrainSpent.faults = 0, retrainSpent.early = 0 PROVE WeeksInOrder'
      BY <2>3 DEF WeeksInOrder
    <3>1. UnderWay = {active, NoRun} /\ UnderWay' = {NoRun}
      BY <1>1, <1>2, <2>3 DEF UnderWay
    <3>2. /\ run[active].ok /\ lastRun' = run[active].week /\ lastRun < run[active].week
          /\ run[active].week <= Week /\ ~unlocked
      BY <2>1, <2>3, <3>1 DEF WeeksInOrder
    <3>3. \A d \in Runs : run'[d].week = run[d].week /\ run'[d].ok = run[d].ok
                          /\ (run'[d].is = "none" <=> run[d].is = "none")
      BY <2>1, <2>2
    <3>4. \A d \in Runs : run'[d].is # "none" => run'[d].is = "reaped" /\ run'[d].week <= lastRun'
      <4> SUFFICES ASSUME NEW d \in Runs, run'[d].is # "none"
                   PROVE  run'[d].is = "reaped" /\ run'[d].week <= lastRun'
        OBVIOUS
      <4>1. CASE d = active
        BY <2>2, <2>4, <3>2, <4>1 DEF RetrainTyped
      <4>2. CASE d # active
        <5>1. run[d].is = "reaped" /\ run[d].week <= lastRun /\ run'[d] = run[d]
          BY <2>2, <3>1, <3>3, <4>2, RunsArePositive DEF WeeksInOrder
        <5>2. run[d].week \in Int /\ lastRun \in Int /\ lastRun' \in Int
          BY <2>1, <3>2 DEF RetrainTyped
        <5>3. run[d].week <= lastRun'
          BY <3>2, <5>1, <5>2
        <5> QED BY <5>1, <5>3
      <4> QED BY <4>1, <4>2
    <3>5. Runs \cap UnderWay' = {}
      BY <3>1, RunsArePositive
    <3>6. \A d \in Runs : /\ run'[d].is # "overdue" /\ (run'[d].is \in {"ended", "reaped"} => run'[d].ok)
                          /\ run'[d].is # "none" => run'[d].week <= Week
      BY <2>1, <2>2, <3>2, <3>3 DEF WeeksInOrder
    <3>7. unlocked' = unlocked /\ lastRun' <= Week' /\ retrain'.week <= Week'
      BY <1>1, <1>2, <1>3, <3>2 DEF WeeksInOrder
    <3>8. \A d, e \in Runs : run'[d].is # "none" /\ run'[e].is # "none" /\ run'[d].week = run'[e].week => d = e
      BY <3>3 DEF WeeksInOrder
    <3> QED BY <1>2, <1>3, <3>2, <3>4, <3>5, <3>6, <3>7, <3>8 DEF WeeksInOrder
  <2> QED BY <2>4, <2>5, <2>6, <2>7
<1> QED BY <1>4, <1>5, <1>6 DEF Refresh

LEMMA ScheduleKeepsRetrain ==
  ASSUME RetrainInv, ReadRetrainState
  PROVE  RetrainInv'
<1> USE DEF RetrainInv
<1>1. /\ retrain.at = "read" /\ retrain.run = NoRun
      /\ UNCHANGED <<weekHour, lastRun, lockFile, active, run, watchers, retrainSpent, unlocked>>
  BY DEF ReadRetrainState, HeldRun
<1>2. Week' = Week /\ Week \in 0 .. (Weeks - 1)
  BY <1>1, WeekInRange DEF Week
<1>3. /\ retrain' \in ALook
      /\ retrain'.run = NoRun
      /\ \/ retrain'.at = "idle" /\ retrain'.seen = -1 /\ retrain'.week = 0
         \/ retrain'.at = "check" /\ retrain'.seen = lastRun /\ retrain'.week = Week /\ lastRun # Week
  <2>1. CASE retrain' = RetrainIdle
    BY <2>1, IdleRetrain
  <2>2. CASE /\ retrain' = [retrain EXCEPT !.at = "check", !.seen = lastRun, !.week = Week]
             /\ lastRun # Week
    BY <1>1, <1>2, <2>2 DEF RetrainTyped
  <2> QED BY <2>1, <2>2 DEF ReadRetrainState
<1>4. RetrainTyped'
  BY <1>1, <1>3 DEF RetrainTyped
<1>5. HeldRun' /\ WeeksAreEarned' /\ LockIsKept'
  BY <1>1, <1>3 DEF HeldRun, WeeksAreEarned, Succeeded, LockIsKept, Running
<1>6. WeeksInOrder'
  <2> SUFFICES ASSUME retrainSpent.faults = 0, retrainSpent.early = 0 PROVE WeeksInOrder'
    BY <1>1 DEF WeeksInOrder
  <2>1. UnderWay' = UnderWay
    BY <1>1, <1>3 DEF UnderWay
  <2>2. retrain'.week <= Week /\ (retrain'.at = "check" => lastRun < retrain'.week)
    BY <1>2, <1>3 DEF WeeksInOrder, RetrainTyped
  <2> QED BY <1>1, <1>2, <1>3, <2>1, <2>2 DEF WeeksInOrder
<1> QED BY <1>4, <1>5, <1>6

LEMMA LockKeepsRetrain ==
  ASSUME RetrainInv, CheckLock
  PROVE  RetrainInv'
<1> USE DEF RetrainInv
<1>1. /\ retrain.at = "check" /\ retrain.run = NoRun
      /\ UNCHANGED <<weekHour, lastRun, active, run, watchers, retrainSpent, unlocked>>
  BY DEF CheckLock, HeldRun
<1>2. Week' = Week
  BY <1>1 DEF Week
<1>3. CASE LockHeld /\ retrain' = RetrainIdle /\ UNCHANGED lockFile
  <2>1. RetrainTyped'
    BY <1>1, <1>3, IdleRetrain DEF RetrainTyped
  <2>2. HeldRun' /\ WeeksAreEarned' /\ LockIsKept'
    BY <1>1, <1>3, IdleRetrain DEF HeldRun, WeeksAreEarned, Succeeded, LockIsKept, Running
  <2>3. 0 <= Week
    BY WeekInRange, RetrainAssumption
  <2>4. UnderWay' = UnderWay
    BY <1>1, <1>3, IdleRetrain DEF UnderWay
  <2>5. WeeksInOrder'
    BY <1>1, <1>2, <1>3, <2>3, <2>4, IdleRetrain DEF WeeksInOrder
  <2> QED BY <2>1, <2>2, <2>5
<1>4. CASE ~LockHeld /\ Looks("launch") /\ lockFile' = NoRun
  <2>1. /\ retrain'.at = "launch" /\ retrain'.seen = retrain.seen /\ retrain'.week = retrain.week
        /\ retrain'.run = NoRun
        /\ retrain' \in ALook
    BY <1>1, <1>4, Looked DEF RetrainTyped, Looks
  <2>2. RetrainTyped'
    BY <1>1, <1>4, <2>1 DEF RetrainTyped
  <2>3. HeldRun' /\ WeeksAreEarned'
    BY <1>1, <2>1 DEF HeldRun, WeeksAreEarned, Succeeded
  <2>4. LockIsKept'
    <3> SUFFICES ASSUME retrainSpent.early = 0, ~unlocked PROVE LockIsKept'
      BY <1>1 DEF LockIsKept
    <3>1. \A d \in Runs : ~Running(d)
      BY <1>1, <1>4, RunsArePositive DEF LockIsKept, LockHeld, PidAlive
    <3>2. active = NoRun
      BY <1>1, <3>1 DEF LockIsKept, RetrainTyped
    <3> QED BY <1>1, <1>4, <2>1, <3>1, <3>2, RunsArePositive DEF LockIsKept, Running
  <2>5. UnderWay' = UnderWay
    BY <1>1, <2>1 DEF UnderWay
  <2>6. WeeksInOrder'
    BY <1>1, <1>2, <2>1, <2>5 DEF WeeksInOrder
  <2> QED BY <2>2, <2>3, <2>4, <2>6
<1> QED BY <1>3, <1>4 DEF CheckLock

LEMMA LaunchKeepsRetrain ==
  ASSUME RetrainInv, Launch
  PROVE  RetrainInv'
<1> USE DEF RetrainInv
<1>1. /\ retrain.at = "launch" /\ retrain.run = NoRun
      /\ UNCHANGED <<weekHour, lastRun, lockFile, active, watchers, retrainSpent, unlocked>>
  BY DEF Launch, HeldRun
<1>2. PICK c \in Runs :
        /\ run[c].is = "none"
        /\ run' = [run EXCEPT ![c].is = "running", ![c].week = retrain.week]
        /\ retrain' = [retrain EXCEPT !.at = "lock", !.run = c]
  BY DEF Launch
<1>3. /\ run' \in [Runs -> ARun]
      /\ run'[c].is = "running" /\ run'[c].ok = run[c].ok /\ run'[c].week = retrain.week
      /\ \A d \in Runs : d # c => run'[d] = run[d]
  BY <1>2 DEF RetrainTyped
<1>4. /\ retrain'.at = "lock" /\ retrain'.seen = retrain.seen /\ retrain'.week = retrain.week
      /\ retrain'.run = c
      /\ retrain' \in ALook
  BY <1>2 DEF RetrainTyped
<1>5. Week' = Week /\ ~run[c].ok
  BY <1>1, <1>2 DEF Week, WeeksAreEarned
<1>6. RetrainTyped'
  BY <1>1, <1>3, <1>4 DEF RetrainTyped
<1>7. HeldRun'
  BY <1>3, <1>4 DEF HeldRun
<1>8. WeeksAreEarned'
  BY <1>1, <1>3, <1>4, <1>5 DEF WeeksAreEarned, Succeeded
<1>9. LockIsKept'
  BY <1>1, <1>3, <1>4, RunsArePositive DEF LockIsKept, Running
<1>10. WeeksInOrder'
  <2> SUFFICES ASSUME retrainSpent.faults = 0, retrainSpent.early = 0 PROVE WeeksInOrder'
    BY <1>1 DEF WeeksInOrder
  <2>1. active = NoRun /\ ~unlocked
    BY <1>1 DEF WeeksInOrder, LockIsKept
  <2>2. UnderWay = {NoRun} /\ UnderWay' = {NoRun, c}
    BY <1>1, <1>4, <2>1 DEF UnderWay
  <2>3. \A d \in Runs \ {c} : run[d].is # "none" => run[d].is = "reaped" /\ run[d].week <= lastRun
    BY <2>2, RunsArePositive DEF WeeksInOrder
  <2>4. retrain.seen = lastRun /\ lastRun < retrain.week /\ retrain.week <= Week /\ lastRun <= Week
    BY <1>1 DEF WeeksInOrder
  <2>5. \A d \in Runs \ {c} : run[d].is # "none" => run[d].week # retrain.week
    BY <2>3, <2>4 DEF RetrainTyped
  <2>6. \A d, e \in Runs : run'[d].is # "none" /\ run'[e].is # "none" /\ run'[d].week = run'[e].week => d = e
    <3> SUFFICES ASSUME NEW d \in Runs, NEW e \in Runs, run'[d].is # "none", run'[e].is # "none",
                        run'[d].week = run'[e].week
                 PROVE  d = e
      OBVIOUS
    <3>1. CASE d # c /\ e # c
      BY <1>3, <3>1 DEF WeeksInOrder
    <3>2. CASE d = c \/ e = c
      BY <1>3, <2>5, <3>2
    <3> QED BY <3>1, <3>2
  <2>7. \A d \in Runs : /\ run'[d].is # "overdue" /\ (run'[d].is \in {"ended", "reaped"} => run'[d].ok)
                        /\ (run'[d].is # "none" => run'[d].week <= Week)
    BY <1>3, <2>4 DEF WeeksInOrder
  <2>8. \A d \in Runs \ UnderWay' : run'[d].is # "none" => run'[d].is = "reaped" /\ run'[d].week <= lastRun
    BY <1>3, <2>2, <2>3
  <2>9. \A d \in Runs \cap UnderWay' : run'[d].is # "none" /\ lastRun < run'[d].week
    BY <1>3, <2>2, <2>4, RunsArePositive
  <2> QED BY <1>1, <1>3, <1>4, <1>5, <2>1, <2>4, <2>6, <2>7, <2>8, <2>9 DEF WeeksInOrder
<1> QED BY <1>6, <1>7, <1>8, <1>9, <1>10

LEMMA AfterLaunchKeepsRetrain ==
  ASSUME RetrainInv, WriteLock \/ NoteRunning \/ Activate
  PROVE  RetrainInv'
<1> USE DEF RetrainInv
<1>1. /\ UNCHANGED <<weekHour, run, retrainSpent, unlocked>> /\ retrain.run \in Runs
      /\ retrain.run # NoRun /\ retrain.at \in {"lock", "note", "activate"} /\ run[retrain.run].is # "none"
  BY RunsArePositive DEF WriteLock, NoteRunning, Activate, HeldRun
<1>2. Week' = Week
  BY <1>1 DEF Week
<1>3. CASE WriteLock \/ NoteRunning
  <2>1. /\ UNCHANGED <<active, watchers>>
        /\ \/ Looks("note") /\ retrain.at = "lock" /\ lockFile' = retrain.run /\ lastRun' = lastRun
           \/ Looks("activate") /\ retrain.at = "note" /\ lockFile' = lockFile /\ lastRun' = retrain.seen
    BY <1>3 DEF WriteLock, NoteRunning
  <2>2. /\ retrain'.seen = retrain.seen /\ retrain'.week = retrain.week /\ retrain'.run = retrain.run
        /\ retrain'.at \in {"note", "activate"}
        /\ retrain' \in ALook
    BY <2>1, Looked DEF RetrainTyped, Looks
  <2>3. RetrainTyped'
    BY <1>1, <2>1, <2>2 DEF RetrainTyped
  <2>4. HeldRun' /\ WeeksAreEarned' /\ LockIsKept'
    BY <1>1, <2>1, <2>2, RunsArePositive DEF HeldRun, WeeksAreEarned, Succeeded, LockIsKept, Running
  <2>5. UnderWay' = UnderWay
    BY <2>1, <2>2 DEF UnderWay
  <2>6. WeeksInOrder'
    <3> SUFFICES ASSUME retrainSpent.faults = 0, retrainSpent.early = 0 PROVE WeeksInOrder'
      BY <1>1 DEF WeeksInOrder
    <3>1. lastRun' = lastRun
      BY <1>1, <2>1 DEF WeeksInOrder
    <3> QED BY <1>1, <1>2, <2>2, <2>5, <3>1 DEF WeeksInOrder
  <2> QED BY <2>3, <2>4, <2>6
<1>4. CASE Activate
  <2>1. /\ UNCHANGED <<lastRun, lockFile>> /\ retrain.at = "activate" /\ retrain' = RetrainIdle
        /\ active' = retrain.run /\ watchers' = watchers \cup {retrain.run}
    BY <1>4 DEF Activate
  <2>2. RetrainTyped'
    BY <1>1, <2>1, IdleRetrain DEF RetrainTyped
  <2>3. HeldRun' /\ WeeksAreEarned' /\ LockIsKept'
    BY <1>1, <2>1, IdleRetrain DEF HeldRun, WeeksAreEarned, Succeeded, LockIsKept, Running
  <2>4. WeeksInOrder'
    <3> SUFFICES ASSUME retrainSpent.faults = 0, retrainSpent.early = 0 PROVE WeeksInOrder'
      BY <1>1 DEF WeeksInOrder
    <3>1. active = NoRun /\ 0 <= Week
      BY <2>1, WeekInRange, RetrainAssumption DEF WeeksInOrder, LockIsKept
    <3>2. UnderWay' = UnderWay
      BY <2>1, <3>1, IdleRetrain DEF UnderWay
    <3> QED BY <1>1, <1>2, <2>1, <3>1, <3>2, IdleRetrain DEF WeeksInOrder
  <2> QED BY <2>2, <2>3, <2>4
<1> QED BY <1>3, <1>4

\* A launch that fails and the end of the poller are faults, and leave the main thread idle.
LEMMA FaultKeepsRetrain ==
  ASSUME RetrainInv, LaunchFails \/ RetrainPollerDies
  PROVE  RetrainInv'
<1> USE DEF RetrainInv
<1>1. /\ retrainSpent' = [retrainSpent EXCEPT !.faults = @ + 1] /\ retrain' = RetrainIdle
      /\ UNCHANGED <<weekHour, lockFile>>
  BY DEF LaunchFails, RetrainPollerDies
<1>2. /\ retrainSpent' \in [faults : Nat, early : Nat] /\ retrainSpent'.faults # 0
      /\ retrainSpent'.early = retrainSpent.early
  BY <1>1 DEF RetrainTyped
<1>3. CASE LaunchFails
  <2>1. /\ retrain.at = "launch" /\ lastRun' = retrain.seen
        /\ UNCHANGED <<active, run, watchers, unlocked>>
    BY <1>3 DEF LaunchFails
  <2>2. RetrainTyped'
    BY <1>1, <1>2, <2>1, IdleRetrain DEF RetrainTyped
  <2>3. HeldRun' /\ WeeksAreEarned' /\ LockIsKept'
    BY <1>1, <1>2, <2>1, IdleRetrain DEF HeldRun, WeeksAreEarned, Succeeded, LockIsKept, Running
  <2> QED BY <1>2, <2>2, <2>3 DEF WeeksInOrder
<1>4. CASE RetrainPollerDies
  <2>1. PICK survive \in BOOLEAN :
          /\ run' = [c \in Runs |->
                       IF run[c].is = "ended" \/ (Running(c) /\ ~survive)
                         THEN [run[c] EXCEPT !.is = "reaped"] ELSE run[c]]
          /\ unlocked' = (unlocked \/ (survive /\ retrain.at = "lock" /\ Running(retrain.run)))
    BY <1>4 DEF RetrainPollerDies
  <2>2. lastRun' = lastRun /\ active' = NoRun /\ watchers' = {}
    BY <1>4 DEF RetrainPollerDies
  <2>3. \A c \in Runs :
          /\ run'[c] \in ARun
          /\ run'[c].ok = run[c].ok /\ run'[c].week = run[c].week
          /\ run'[c].is = IF run[c].is = "ended" \/ (Running(c) /\ ~survive) THEN "reaped" ELSE run[c].is
    BY <2>1 DEF RetrainTyped
  <2>4. run' \in [Runs -> ARun]
    BY <2>1, <2>3
  <2>5. unlocked' \in BOOLEAN
    BY <2>1, Zenon DEF RetrainTyped
  <2>6. RetrainTyped'
    BY <1>1, <1>2, <2>2, <2>4, <2>5, IdleRetrain DEF RetrainTyped
  <2>7. HeldRun' /\ WeeksAreEarned'
    BY <1>1, <2>2, <2>3, IdleRetrain DEF HeldRun, WeeksAreEarned, Succeeded
  <2>8. LockIsKept'
    <3> SUFFICES ASSUME retrainSpent.early = 0, ~unlocked' PROVE LockIsKept'
      BY <1>2 DEF LockIsKept
    <3>1. \A c \in Runs : Running(c)' => Running(c) /\ survive
      BY <2>3 DEF Running
    <3>2. \A c \in Runs : Running(c)' => lockFile = c
      BY <2>1, <3>1 DEF LockIsKept
    <3> QED BY <1>1, <2>2, <3>2, IdleRetrain DEF LockIsKept
  <2> QED BY <1>2, <2>6, <2>7, <2>8 DEF WeeksInOrder
<1> QED BY <1>3, <1>4

LEMMA RetrainNextStep ==
  ASSUME RetrainInv, [RetrainNext]_retrainVars
  PROVE  RetrainInv'
<1>1. CASE UNCHANGED retrainVars
  <2>1. Week' = Week /\ UnderWay' = UnderWay
    BY <1>1 DEF retrainVars, Week, UnderWay
  <2>2. RetrainTyped'
    BY <1>1 DEF retrainVars, RetrainInv, RetrainTyped
  <2> QED BY <1>1, <2>1, <2>2 DEF retrainVars, RetrainInv, HeldRun, WeeksAreEarned, Succeeded, LockIsKept,
                                  Running, WeeksInOrder
<1> QED BY <1>1, ClockKeepsRetrain, HangKeepsRetrain, EndKeepsRetrain, WatcherKeepsRetrain,
           RefreshKeepsRetrain, ScheduleKeepsRetrain, LockKeepsRetrain, LaunchKeepsRetrain,
           AfterLaunchKeepsRetrain, FaultKeepsRetrain DEF RetrainNext, RetrainMain

LEMMA RetrainInitInv == RetrainInit => RetrainInv
<1> SUFFICES ASSUME RetrainInit PROVE RetrainInv
  OBVIOUS
<1> USE RetrainAssumption DEF RetrainInit
<1>1. /\ retrain = RetrainIdle /\ retrainSpent.faults = 0 /\ retrainSpent.early = 0
      /\ \A c \in Runs : run[c].is = "none" /\ ~run[c].ok /\ run[c].week = 0
  OBVIOUS
<1>2. unlocked \in BOOLEAN
  BY Zenon
<1>3. RetrainTyped
  BY <1>1, <1>2, IdleRetrain DEF RetrainTyped
<1>4. Week = 0
  BY DEF Week
<1>5. HeldRun /\ WeeksAreEarned /\ LockIsKept
  BY <1>1, IdleRetrain DEF HeldRun, WeeksAreEarned, LockIsKept, Running
<1>6. WeeksInOrder
  BY <1>1, <1>4, IdleRetrain, RunsArePositive DEF WeeksInOrder, UnderWay
<1> QED BY <1>3, <1>5, <1>6 DEF RetrainInv

LEMMA RetrainInvSound == RetrainInv => RetrainsAreSound
<1> SUFFICES ASSUME RetrainInv PROVE RetrainsAreSound
  OBVIOUS
<1> USE DEF RetrainInv
<1>1. RetrainTypeOK
  BY DEF RetrainTyped, RetrainTypeOK
<1>2. OneRetrainAtATime
  <2> SUFFICES ASSUME retrainSpent.early = 0, ~unlocked
               PROVE  Cardinality({c \in Runs : Running(c)}) <= 1
    BY DEF OneRetrainAtATime
  <2> DEFINE B == {c \in Runs : Running(c)}
  <2>1. \A c, d \in B : c = d
    BY RunsArePositive DEF LockIsKept
  <2>2. CASE B = {}
    BY <2>2, FS_EmptySet
  <2>3. CASE B # {}
    <3>1. PICK c : B = {c}
      BY <2>1, <2>3
    <3> QED BY <3>1, FS_Singleton
  <2> QED BY <2>2, <2>3
<1>3. RetrainedOncePerWeek
  <2> SUFFICES ASSUME retrainSpent = [faults |-> 0, early |-> 0], NEW c \in Runs, NEW d \in Runs,
                      run[c].ok, run[d].ok, run[c].week = run[d].week
               PROVE  c = d
    BY DEF RetrainedOncePerWeek
  <2>1. retrainSpent.faults = 0 /\ retrainSpent.early = 0
    OBVIOUS
  <2>2. run[c].is # "none" /\ run[d].is # "none"
    BY DEF WeeksAreEarned
  <2> QED BY <2>1, <2>2 DEF WeeksInOrder
<1>4. RecordedWasRun
  BY DEF WeeksAreEarned, Succeeded, RecordedWasRun
<1> QED BY <1>1, <1>2, <1>3, <1>4 DEF RetrainsAreSound
HIDE DEF ARun, ALook
-----------------------------------------------------------------------------
(* The weekly recap.                                                       *)

AThread == [by : Senders, week : 0 .. (RecapWeeks - 1), messages : 1 .. Complete]

RecapTyped ==
  /\ recapHour \in 0 .. (2 * RecapWeeks - 1)
  /\ sentWeek \in -1 .. (RecapWeeks - 1) /\ sentWeek <= RecapWeek
  /\ recap \in [Senders -> [at : {"idle", "post", "fill"}, week : 0 .. (RecapWeeks - 1), thread : Nat]]
  /\ \A s \in Senders : recap[s].week <= RecapWeek /\ recap[s].thread <= Len(threads)
  /\ threads \in Seq(AThread)
  /\ slipped \in BOOLEAN

\* A recap that is being filled has a thread of its own.
Fills(s, i) == recap[s].at = "fill" /\ recap[s].thread = i

ThreadIsOwn ==
  \A s \in Senders : recap[s].at = "fill" =>
    /\ recap[s].thread \in DOMAIN threads
    /\ threads[recap[s].thread].by = s /\ threads[recap[s].thread].week = recap[s].week

\* What the poller has completed.
DoneByPoller == {i \in DOMAIN threads : threads[i].by = "poller" /\ threads[i].messages = Complete}

\* Its week is stored, or is about to be, and no call is for a week that was completed before.
DoneIsStored ==
  ~slipped =>
    /\ \A i \in DoneByPoller : ~Fills("poller", i) =>
         /\ threads[i].week <= sentWeek
         /\ recap["poller"].at # "idle" => threads[i].week < recap["poller"].week
    /\ \A i, j \in DoneByPoller : threads[i].week = threads[j].week => i = j

RecapInv == RecapTyped /\ ThreadIsOwn /\ DoneIsStored /\ SentIsComplete

LEMMA RecapWeekInRange == RecapTyped => RecapWeek \in 0 .. (RecapWeeks - 1)
<1> SUFFICES ASSUME RecapTyped PROVE RecapWeek \in 0 .. (RecapWeeks - 1)
  OBVIOUS
<1>1. RecapWeeks \in Nat /\ recapHour \in 0 .. (2 * RecapWeeks - 1)
  BY RecapAssumption DEF RecapTyped
<1> QED BY <1>1 DEF RecapWeek

LEMMA CompleteIsSeveral == Complete \in Nat /\ Complete >= 2
BY RecapAssumption DEF Complete

ARecap == [at : {"idle", "post", "fill"}, week : 0 .. (RecapWeeks - 1), thread : Nat]

LEMMA IdleRecap ==
  RecapIdle \in ARecap /\ RecapIdle.at = "idle" /\ RecapIdle.week = 0 /\ RecapIdle.thread = 0
BY RecapAssumption DEF RecapIdle, ARecap

LEMMA WeeksOfThreads ==
  RecapTyped => /\ \A i \in DOMAIN threads : threads[i] \in AThread /\ threads[i].week \in Int
                /\ DoneByPoller \subseteq DOMAIN threads
                /\ sentWeek \in Int /\ \A s \in Senders : recap[s].week \in Int
<1> SUFFICES ASSUME RecapTyped
             PROVE  /\ \A i \in DOMAIN threads : threads[i] \in AThread /\ threads[i].week \in Int
                    /\ DoneByPoller \subseteq DOMAIN threads
                    /\ sentWeek \in Int /\ \A s \in Senders : recap[s].week \in Int
  OBVIOUS
<1>1. \A i \in DOMAIN threads : threads[i] \in AThread
  BY DEF RecapTyped
<1>2. \A i \in DOMAIN threads : threads[i].week \in Int
  BY <1>1 DEF AThread
<1>3. DoneByPoller \subseteq DOMAIN threads
  BY DEF DoneByPoller
<1>4. sentWeek \in Int /\ \A s \in Senders : recap[s].week \in Int
  BY DEF RecapTyped
<1> QED BY <1>1, <1>2, <1>3, <1>4

LEMMA RecapClockStep ==
  ASSUME RecapInv, RecapHourPasses
  PROVE  RecapInv'
<1> USE DEF RecapInv, RecapHourPasses
<1>1. RecapWeek \in Int /\ RecapWeek' \in Int /\ RecapWeek <= RecapWeek'
  <2>1. RecapWeek \in 0 .. (RecapWeeks - 1)
    BY RecapWeekInRange
  <2>2. recapHour \in Int /\ recapHour' = recapHour + 1
    BY DEF RecapTyped
  <2>3. RecapWeek' = (recapHour + 1) \div 2
    BY <2>2 DEF RecapWeek
  <2> QED BY <2>1, <2>2, <2>3 DEF RecapWeek
<1>2. recapHour' \in 0 .. (2 * RecapWeeks - 1)
  BY RecapAssumption DEF RecapTyped
<1>3. sentWeek <= RecapWeek' /\ \A s \in Senders : recap[s].week <= RecapWeek'
  BY <1>1 DEF RecapTyped
<1>4. RecapTyped'
  BY <1>2, <1>3 DEF RecapTyped
<1>5. ThreadIsOwn' /\ DoneIsStored' /\ SentIsComplete'
  BY DEF ThreadIsOwn, DoneIsStored, DoneByPoller, Fills, SentIsComplete
<1> QED BY <1>4, <1>5

\* A call begins with nothing posted; the poller's comes after every week it has completed.
LEMMA RecapStartStep ==
  ASSUME RecapInv, StartRecap \/ StartManualRecap
  PROVE  RecapInv'
<1> USE DEF RecapInv
<1>1. PICK s \in Senders : Starts(s) /\ recap[s].at = "idle" /\ (s = "poller" => IsDue)
  BY DEF StartRecap, StartManualRecap, Senders
<1>2. UNCHANGED <<recapHour, sentWeek, threads, slipped>>
  BY DEF StartRecap, StartManualRecap
<1>3. RecapWeek' = RecapWeek /\ RecapWeek \in 0 .. (RecapWeeks - 1)
  BY <1>2, RecapWeekInRange DEF RecapWeek
<1> DEFINE r == [RecapIdle EXCEPT !.at = "post", !.week = RecapWeek]
<1>4. r \in ARecap /\ r.at = "post" /\ r.week = RecapWeek /\ r.thread = 0
  BY <1>3, IdleRecap DEF ARecap
<1>5. recap' = [recap EXCEPT ![s] = r]
  BY <1>1 DEF Starts
<1> HIDE DEF r
<1>6. recap' \in [Senders -> ARecap] /\ recap'[s] = r /\ \A t \in Senders : t # s => recap'[t] = recap[t]
  BY <1>4, <1>5 DEF RecapTyped, ARecap
<1>7. RecapTyped'
  <2>1. Len(threads) \in Nat
    BY DEF RecapTyped
  <2>2. recap'[s].week <= RecapWeek' /\ recap'[s].thread <= Len(threads')
    BY <1>2, <1>3, <1>4, <1>6, <2>1
  <2>3. \A t \in Senders : recap'[t].week <= RecapWeek' /\ recap'[t].thread <= Len(threads')
    BY <1>2, <1>3, <1>6, <2>2 DEF RecapTyped
  <2> QED BY <1>2, <1>3, <1>6, <2>3 DEF RecapTyped, ARecap
<1>8. ThreadIsOwn' /\ SentIsComplete'
  BY <1>2, <1>4, <1>6 DEF ThreadIsOwn, SentIsComplete
<1>9. DoneIsStored'
  <2> SUFFICES ASSUME ~slipped PROVE DoneIsStored'
    BY <1>2 DEF DoneIsStored
  <2>1. DoneByPoller' = DoneByPoller /\ "poller" \in Senders
    BY <1>2 DEF DoneByPoller, Senders
  <2>2. CASE s = "poller"
    <3>1. sentWeek < RecapWeek
      BY <1>1, <1>3, <2>2 DEF IsDue, RecapTyped
    <3>2. \A i \in DoneByPoller : threads[i].week <= sentWeek /\ threads[i].week \in Int
      <4>1. \A i \in DoneByPoller : ~Fills("poller", i)
        BY <1>1, <2>2 DEF Fills
      <4>2. \A i \in DoneByPoller : threads[i].week \in Int
        BY WeeksOfThreads
      <4> QED BY <4>1, <4>2 DEF DoneIsStored
    <3>3. \A i \in DoneByPoller : threads[i].week < RecapWeek
      BY <1>3, <3>1, <3>2 DEF RecapTyped
    <3> QED BY <1>2, <1>4, <1>6, <2>1, <2>2, <3>2, <3>3 DEF DoneIsStored
  <2>3. CASE s # "poller"
    BY <1>2, <1>6, <2>1, <2>3 DEF DoneIsStored, Fills
  <2> QED BY <2>2, <2>3
<1> QED BY <1>7, <1>8, <1>9

LEMMA StarterStep ==
  ASSUME RecapInv, NEW s \in Senders, PostStarter(s)
  PROVE  RecapInv'
<1> USE DEF RecapInv
<1> DEFINE new == [by |-> s, week |-> recap[s].week, messages |-> 1]
<1>1. /\ recap[s].at = "post" /\ threads' = Append(threads, new)
      /\ recap' = [recap EXCEPT ![s].at = "fill", ![s].thread = Len(threads')]
      /\ UNCHANGED <<recapHour, sentWeek, slipped>>
  BY DEF PostStarter
<1>2. new \in AThread /\ new.by = s /\ new.week = recap[s].week /\ new.messages = 1
  BY CompleteIsSeveral DEF RecapTyped, AThread
<1> HIDE DEF new
<1>3. /\ threads' \in Seq(AThread) /\ Len(threads') = Len(threads) + 1 /\ Len(threads) \in Nat
      /\ threads'[Len(threads) + 1] = new
      /\ \A i \in 1 .. Len(threads) : threads'[i] = threads[i]
      /\ DOMAIN threads = 1 .. Len(threads) /\ DOMAIN threads' = 1 .. (Len(threads) + 1)
  BY <1>1, <1>2 DEF RecapTyped
<1>4. /\ recap' \in [Senders -> ARecap] /\ recap'[s].at = "fill" /\ recap'[s].week = recap[s].week
      /\ recap'[s].thread = Len(threads) + 1
      /\ \A t \in Senders : t # s => recap'[t] = recap[t]
  BY <1>1, <1>3 DEF RecapTyped, ARecap
<1>5. RecapWeek' = RecapWeek
  BY <1>1 DEF RecapWeek
<1>6. RecapTyped'
  <2>1. \A t \in Senders : recap'[t].week <= RecapWeek' /\ recap'[t].thread <= Len(threads')
    <3> SUFFICES ASSUME NEW t \in Senders
                 PROVE  recap'[t].week <= RecapWeek' /\ recap'[t].thread <= Len(threads')
      OBVIOUS
    <3>1. CASE t = s
      BY <1>3, <1>4, <1>5, <3>1 DEF RecapTyped
    <3>2. CASE t # s
      <4>1. recap[t].thread \in Nat /\ recap[t].thread <= Len(threads)
        BY DEF RecapTyped
      <4> QED BY <1>3, <1>4, <1>5, <3>2, <4>1 DEF RecapTyped
    <3> QED BY <3>1, <3>2
  <2> QED BY <1>1, <1>3, <1>4, <1>5, <2>1 DEF RecapTyped, ARecap
<1>7. ThreadIsOwn'
  <2> SUFFICES ASSUME NEW t \in Senders, recap'[t].at = "fill"
               PROVE  /\ recap'[t].thread \in DOMAIN threads'
                      /\ threads'[recap'[t].thread].by = t
                      /\ threads'[recap'[t].thread].week = recap'[t].week
    BY DEF ThreadIsOwn
  <2>1. CASE t = s
    BY <1>2, <1>3, <1>4, <2>1
  <2>2. CASE t # s
    <3>1. recap[t].thread \in 1 .. Len(threads) /\ threads[recap[t].thread].by = t
          /\ threads[recap[t].thread].week = recap[t].week /\ recap'[t] = recap[t]
      BY <1>3, <1>4, <2>2 DEF ThreadIsOwn
    <3> QED BY <1>3, <3>1
  <2> QED BY <2>1, <2>2
<1>8. DoneByPoller' = DoneByPoller /\ \A i \in DoneByPoller : threads'[i] = threads[i]
  BY <1>2, <1>3, CompleteIsSeveral DEF DoneByPoller
<1>9. DoneIsStored'
  <2> SUFFICES ASSUME ~slipped PROVE DoneIsStored'
    BY <1>1 DEF DoneIsStored
  <2>1. /\ recap'["poller"].week = recap["poller"].week
        /\ recap'["poller"].at # "idle" => recap["poller"].at # "idle"
        /\ \A i \in DoneByPoller : ~Fills("poller", i)' => ~Fills("poller", i)
    BY <1>1, <1>3, <1>4 DEF Senders, Fills, ThreadIsOwn, DoneByPoller
  <2>2. sentWeek' = sentWeek
    BY <1>1
  <2>3. \A i \in DoneByPoller' : threads'[i].week = threads[i].week
    BY <1>8
  <2> QED BY <1>8, <2>1, <2>2, <2>3 DEF DoneIsStored
<1>10. SentIsComplete'
  <2> SUFFICES ASSUME sentWeek # -1
               PROVE  \E i \in DOMAIN threads' : threads'[i].week = sentWeek /\ threads'[i].messages = Complete
    BY <1>1 DEF SentIsComplete
  <2>1. PICK i \in DOMAIN threads : threads[i].week = sentWeek /\ threads[i].messages = Complete
    BY DEF SentIsComplete
  <2> QED BY <1>3, <2>1
<1> QED BY <1>6, <1>7, <1>9, <1>10

LEMMA MessageStep ==
  ASSUME RecapInv, NEW s \in Senders, PostToThread(s)
  PROVE  RecapInv'
<1> USE DEF RecapInv
<1> DEFINE k == recap[s].thread
<1>1. /\ recap[s].at = "fill" /\ threads[k].messages # Complete
      /\ threads' = [threads EXCEPT ![k].messages = @ + 1]
      /\ UNCHANGED <<recapHour, sentWeek, recap, slipped>>
  BY DEF PostToThread, AllPosted
<1>2. k \in 1 .. Len(threads) /\ threads[k].by = s /\ threads[k].week = recap[s].week /\ threads[k] \in AThread
  BY <1>1 DEF ThreadIsOwn, RecapTyped
<1> DEFINE new == [threads[k] EXCEPT !.messages = @ + 1]
<1>3. new \in AThread /\ new.by = s /\ new.week = recap[s].week
  BY <1>1, <1>2, CompleteIsSeveral DEF AThread
<1>4. threads' = [threads EXCEPT ![k] = new]
  BY <1>1
<1> HIDE DEF new, k
<1>5. /\ threads' \in Seq(AThread) /\ Len(threads') = Len(threads) /\ DOMAIN threads' = DOMAIN threads
      /\ threads'[k] = new /\ \A i \in DOMAIN threads : i # k => threads'[i] = threads[i]
      /\ DOMAIN threads = 1 .. Len(threads)
  BY <1>2, <1>3, <1>4, ExceptSeq DEF RecapTyped
<1>6. RecapWeek' = RecapWeek
  BY <1>1 DEF RecapWeek
<1>7. RecapTyped'
  BY <1>1, <1>5, <1>6 DEF RecapTyped
<1>8. \A i \in DOMAIN threads : threads'[i].by = threads[i].by /\ threads'[i].week = threads[i].week
  BY <1>2, <1>3, <1>5
<1>9. ThreadIsOwn'
  BY <1>1, <1>5, <1>8 DEF ThreadIsOwn
<1>10. SentIsComplete'
  <2> SUFFICES ASSUME sentWeek # -1
               PROVE  \E i \in DOMAIN threads' : threads'[i].week = sentWeek /\ threads'[i].messages = Complete
    BY <1>1 DEF SentIsComplete
  <2>1. PICK i \in DOMAIN threads : threads[i].week = sentWeek /\ threads[i].messages = Complete
    BY DEF SentIsComplete
  <2>2. i # k
    BY <1>1, <2>1 DEF k
  <2> QED BY <1>5, <2>1, <2>2
<1>11. DoneIsStored'
  <2> SUFFICES ASSUME ~slipped PROVE DoneIsStored'
    BY <1>1 DEF DoneIsStored
  <2>1. DoneByPoller' \subseteq DoneByPoller \cup {k} /\ DoneByPoller \subseteq DOMAIN threads
    BY <1>5, <1>8 DEF DoneByPoller
  <2>2. \A i : Fills("poller", i)' <=> Fills("poller", i)
    BY <1>1 DEF Fills
  <2>3. k \in DoneByPoller' => s = "poller"
    BY <1>3, <1>5 DEF DoneByPoller
  <2>4. s = "poller" => Fills("poller", k)
    BY <1>1 DEF Fills, k
  <2>5. \A i \in DoneByPoller' : ~Fills("poller", i)' => i \in DoneByPoller
    BY <2>1, <2>2, <2>3, <2>4
  <2>6. \A i, j \in DoneByPoller' : threads'[i].week = threads'[j].week => i = j
    <3> SUFFICES ASSUME NEW i \in DoneByPoller', NEW j \in DoneByPoller', threads'[i].week = threads'[j].week
                 PROVE  i = j
      OBVIOUS
    <3>1. CASE i # k /\ j # k
      BY <1>8, <2>1, <3>1 DEF DoneIsStored
    <3>2. \A x, y \in DoneByPoller' : x = k /\ y # k => threads'[x].week # threads'[y].week
      <4> SUFFICES ASSUME NEW y \in DoneByPoller', k \in DoneByPoller', y # k
                   PROVE  threads'[k].week # threads'[y].week
        OBVIOUS
      <4>1. s = "poller" /\ y \in DoneByPoller /\ threads'[y] = threads[y]
        BY <1>5, <2>1, <2>3
      <4>2. ~Fills("poller", y)
        BY <4>1 DEF Fills, k
      <4>3. threads[y].week < recap["poller"].week
        BY <1>1, <4>1, <4>2 DEF DoneIsStored
      <4>4. threads[y].week \in Int /\ recap["poller"].week \in Int
        BY <4>1, WeeksOfThreads DEF Senders
      <4> QED BY <1>3, <1>5, <4>1, <4>3, <4>4
    <3> QED BY <3>1, <3>2
  <2> QED BY <1>1, <1>8, <2>1, <2>2, <2>5, <2>6 DEF DoneIsStored
<1> QED BY <1>7, <1>9, <1>10, <1>11

\* A call ends.
LEMMA RecapEndStep ==
  ASSUME RecapInv, NEW s \in Senders, recap' = [recap EXCEPT ![s] = RecapIdle],
         UNCHANGED <<recapHour, threads>>, slipped' \in BOOLEAN, slipped => slipped',
         \/ sentWeek' = sentWeek /\ (AllPosted(s) /\ s = "poller" => slipped')
         \/ AllPosted(s) /\ sentWeek' = recap[s].week /\ (sentWeek > sentWeek' => slipped')
  PROVE  RecapInv'
<1> USE DEF RecapInv
<1>1. /\ recap' \in [Senders -> ARecap] /\ recap'[s].at = "idle" /\ recap'[s].week = 0
      /\ recap'[s].thread = 0
      /\ \A t \in Senders : t # s => recap'[t] = recap[t]
  BY IdleRecap DEF RecapTyped, ARecap
<1>2. RecapWeek' = RecapWeek /\ RecapWeek \in 0 .. (RecapWeeks - 1)
  BY RecapWeekInRange DEF RecapWeek
<1>3. /\ sentWeek' \in -1 .. (RecapWeeks - 1) /\ sentWeek' <= RecapWeek
  BY DEF RecapTyped
<1>4. \A t \in Senders : recap'[t].week <= RecapWeek' /\ recap'[t].thread <= Len(threads')
  <2> SUFFICES ASSUME NEW t \in Senders
               PROVE  recap'[t].week <= RecapWeek' /\ recap'[t].thread <= Len(threads')
    OBVIOUS
  <2>1. Len(threads) \in Nat
    BY DEF RecapTyped
  <2>2. CASE t = s
    BY <1>1, <1>2, <2>1, <2>2
  <2>3. CASE t # s
    BY <1>1, <1>2, <2>3 DEF RecapTyped
  <2> QED BY <2>2, <2>3
<1>5. RecapTyped'
  BY <1>1, <1>2, <1>3, <1>4 DEF RecapTyped, ARecap
<1>6. ThreadIsOwn'
  BY <1>1 DEF ThreadIsOwn
<1>7. SentIsComplete'
  BY DEF SentIsComplete, AllPosted, ThreadIsOwn
<1>8. DoneIsStored'
  <2> SUFFICES ASSUME ~slipped' PROVE DoneIsStored'
    BY DEF DoneIsStored
  <2>1. ~slipped /\ sentWeek <= sentWeek' /\ sentWeek \in Int /\ sentWeek' \in Int
    BY <1>3 DEF RecapTyped
  <2>2. DoneByPoller' = DoneByPoller
    BY DEF DoneByPoller
  <2>3. \A i \in DoneByPoller : threads[i].week \in Int
    BY WeeksOfThreads
  <2>4. CASE s = "poller"
    <3>1. \A i \in DoneByPoller : threads[i].week <= sentWeek'
      <4> SUFFICES ASSUME NEW i \in DoneByPoller PROVE threads[i].week <= sentWeek'
        OBVIOUS
      <4>1. CASE Fills("poller", i)
        <5>1. AllPosted(s) /\ threads[i].week = recap[s].week
          BY <2>4, <4>1 DEF Fills, AllPosted, DoneByPoller, ThreadIsOwn, Senders
        <5>2. sentWeek' = recap[s].week
          BY <2>4, <5>1
        <5> QED BY <2>3, <5>1, <5>2
      <4>2. CASE ~Fills("poller", i)
        BY <2>1, <2>3, <4>2 DEF DoneIsStored
      <4> QED BY <4>1, <4>2
    <3> QED BY <1>1, <2>1, <2>2, <2>4, <3>1 DEF DoneIsStored
  <2>5. CASE s # "poller"
    <3>1. recap'["poller"] = recap["poller"] /\ \A i : Fills("poller", i)' <=> Fills("poller", i)
      BY <1>1, <2>5 DEF Fills, Senders
    <3>2. \A i \in DoneByPoller : ~Fills("poller", i) => threads[i].week <= sentWeek'
      BY <2>1, <2>3 DEF DoneIsStored
    <3> QED BY <2>1, <2>2, <3>1, <3>2 DEF DoneIsStored
  <2> QED BY <2>4, <2>5
<1> QED BY <1>5, <1>6, <1>7, <1>8

LEMMA RecapNextStep ==
  ASSUME RecapInv, [RecapNext]_recapVars
  PROVE  RecapInv'
<1>1. CASE UNCHANGED recapVars
  <2>1. RecapWeek' = RecapWeek
    BY <1>1 DEF recapVars, RecapWeek
  <2>2. RecapTyped'
    BY <1>1, <2>1 DEF recapVars, RecapInv, RecapTyped
  <2> QED BY <1>1, <2>2 DEF recapVars, RecapInv, ThreadIsOwn, DoneIsStored, DoneByPoller, Fills,
                            SentIsComplete
<1>2. slipped \in BOOLEAN /\ "poller" \in Senders
  BY Zenon DEF RecapInv, RecapTyped, Senders
<1>3. CASE RecapPollerDies
  <2>1. slipped' \in BOOLEAN /\ (slipped => slipped') /\ (AllPosted("poller") => slipped')
    BY <1>2, <1>3, Zenon DEF RecapPollerDies, AllPosted
  <2> QED BY <1>2, <1>3, <2>1, RecapEndStep DEF RecapPollerDies
<1>4. ASSUME NEW s \in Senders, PostFails(s)
      PROVE  RecapInv'
  BY <1>2, <1>4, RecapEndStep DEF PostFails, RecapInv
<1>5. ASSUME NEW s \in Senders, StoreSent(s)
      PROVE  RecapInv'
  <2>1. slipped' \in BOOLEAN /\ (slipped => slipped') /\ (sentWeek > sentWeek' => slipped')
    BY <1>2, <1>5, Zenon DEF StoreSent
  <2> QED BY <1>5, <2>1, RecapEndStep DEF StoreSent, RecapInv
<1> QED BY <1>1, <1>3, <1>4, <1>5, RecapClockStep, RecapStartStep, StarterStep, MessageStep
        DEF RecapNext, Send

LEMMA RecapInitInv == RecapInit => RecapInv
<1> SUFFICES ASSUME RecapInit PROVE RecapInv
  OBVIOUS
<1> USE RecapAssumption DEF RecapInit
<1>1. recap \in [Senders -> ARecap] /\ \A s \in Senders : recap[s] = RecapIdle
  BY IdleRecap
<1>2. slipped \in BOOLEAN
  BY Zenon
<1>3. RecapWeek = 0 /\ Len(threads) = 0 /\ threads \in Seq(AThread) /\ DOMAIN threads = {}
  BY DEF RecapWeek
<1>4. RecapTyped
  BY <1>1, <1>2, <1>3, IdleRecap DEF RecapTyped, ARecap
<1> QED BY <1>1, <1>3, <1>4, IdleRecap DEF RecapInv, ThreadIsOwn, DoneIsStored, DoneByPoller, SentIsComplete

LEMMA RecapInvSound == RecapInv => RecapsAreSound
<1> SUFFICES ASSUME RecapInv PROVE RecapsAreSound
  OBVIOUS
<1> USE DEF RecapInv
<1>1. RecapTypeOK
  <2>1. \A i \in DOMAIN threads : threads[i] \in AThread
    BY DEF RecapTyped
  <2>2. \A s \in Senders : recap[s].thread \in 0 .. Len(threads)
    BY DEF RecapTyped
  <2> QED BY <2>1, <2>2 DEF RecapTyped, RecapTypeOK, AThread
<1>2. RecapOncePerWeek
  <2> DEFINE B == {i \in DOMAIN threads : threads[i].by = "poller" /\ threads[i].week = RecapWeek
                                           /\ threads[i].messages = Complete}
  <2> SUFFICES ASSUME ~slipped PROVE Cardinality(B) <= 1
    BY DEF RecapOncePerWeek
  <2>1. \A i, j \in B : i = j
    BY DEF DoneIsStored, DoneByPoller
  <2> HIDE DEF B
  <2>2. CASE B = {}
    BY <2>2, FS_EmptySet
  <2>3. CASE B # {}
    <3>1. PICK i : B = {i}
      BY <2>1, <2>3
    <3>2. Cardinality({i}) = 1
      BY FS_Singleton
    <3> QED BY <3>1, <3>2
  <2> QED BY <2>2, <2>3
<1> QED BY <1>1, <1>2 DEF RecapsAreSound
-----------------------------------------------------------------------------
(* The three jobs; each step is one of theirs and leaves the other two's    *)
(* variables.                                                               *)

LEMMA ExportInvSound == ExportInv => ExportsAreSound
<1> SUFFICES ASSUME ExportInv PROVE ExportsAreSound
  OBVIOUS
<1>1. ExportTypeOK
  <2>1. \A w \in Exporters : export[w].day \in 0 .. (Days - 1)
    BY DEF ExportInv, ExportTyped, AnExport
  <2>2. hour \in 0 .. (2 * Days - 1) /\ saved \in -1 .. (Days - 1)
        /\ uploads \subseteq Exporters \X (0 .. (Days - 1)) \X (Contents \cup {"part"})
    BY DEF ExportInv, ExportTyped
  <2>3. Contents \cup {"part"} = {"live", "scrubbed", "nothing", "part"}
    BY DEF Contents
  <2> HIDE DEF Contents
  <2> QED BY <2>1, <2>2, <2>3 DEF ExportTypeOK
<1> QED BY <1>1 DEF ExportInv, ExportsAreSound

LEMMA JobsAreApart ==
  ASSUME [Next]_jobVars
  PROVE  [ExportNext]_exportVars /\ [RetrainNext]_retrainVars /\ [RecapNext]_recapVars
BY DEF Next, jobVars

\* What leaves the host is scrubbed and whole unless two exports of a day overlap, and a day
\* stored as done was uploaded, whatever stage fails and whenever the poller ends
\* (run_daily_export, export_now).
THEOREM ExportsSound == Spec => []ExportsAreSound
<1>1. Init => ExportInv
  BY ExportInitInv DEF Init
<1>2. ExportInv /\ [Next]_jobVars => ExportInv'
  BY ExportNextStep, JobsAreApart
<1> QED BY <1>1, <1>2, ExportInvSound, PTL DEF Spec

\* The lock file keeps one training at a time over crashes and orphans, a week is trained
\* once, and a recorded week has a run that succeeded (maybe_run_weekly_ml_retrain).
THEOREM RetrainsSound == Spec => []RetrainsAreSound
<1>1. Init => RetrainInv
  BY RetrainInitInv DEF Init
<1>2. RetrainInv /\ [Next]_jobVars => RetrainInv'
  BY RetrainNextStep, JobsAreApart
<1> QED BY <1>1, <1>2, RetrainInvSound, PTL DEF Spec

\* A week stored as sent has a complete recap on Discord, and the poller completes one recap of
\* a week, whatever posts fail (maybe_send_weekly_summary_to_discord).
THEOREM RecapsSound == Spec => []RecapsAreSound
<1>1. Init => RecapInv
  BY RecapInitInv DEF Init
<1>2. RecapInv /\ [Next]_jobVars => RecapInv'
  BY RecapNextStep, JobsAreApart
<1> QED BY <1>1, <1>2, RecapInvSound, PTL DEF Spec
=============================================================================
