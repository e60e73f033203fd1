------------------------------- MODULE DbExport -------------------------------
(***************************************************************************)
(* The daily export of the database to Discord (poller/db_export.py): the   *)
(* poller starts a background thread once a day after the schedule, and the *)
(* admin page runs the same export in the dashboard's process at any time.  *)
(* Both write files named after the day, so both write the same files.     *)
(*                                                                         *)
(* Time is a clock with two slots a day: an even one before the scheduled   *)
(* hour and an odd one after it.  A file is described by who created it and *)
(* what it holds; a process that has a file open keeps it when another one  *)
(* unlinks the path.                                                       *)
(***************************************************************************)
EXTENDS Integers, FiniteSets

CONSTANTS
  Days,                       \* the days of the model are 0 .. Days - 1
  MaxExportFaults,            \* failed uploads, and poller crashes
  MaxManual                   \* manual exports

ASSUME ExportAssumption ==
  /\ Days \in Nat \ {0}
  /\ {MaxExportFaults, MaxManual} \subseteq Nat

VARIABLES
  hour,        \* the clock
  saved,       \* config key db_export: the last day uploaded, to a thread of that day
  daily,       \* what the main thread of the poller has read in maybe_export
  export,      \* the export threads: "daily" in the poller, "manual" in the dashboard
  files,       \* snapshot, compacted copy and archive of each day
  uploads,     \* what was uploaded, as <<thread, day, contents>>
  exportSpent,
  overlapped   \* history: whether a manual export ran beside a daily one

exportVars == <<hour, saved, daily, export, files, uploads, exportSpent, overlapped>>

Exporters == {"daily", "manual"}
Day == hour \div 2
AfterSchedule == hour % 2 = 1

NoFile == [by |-> "none", holds |-> "none"]
NoFiles == [snapshot |-> NoFile, compact |-> NoFile, zip |-> NoFile]
Idle == [at |-> "idle", day |-> 0, holds |-> "none"]

ExportInit ==
  /\ hour = 0
  /\ saved = -1
  /\ daily = [at |-> "idle", day |-> 0]
  /\ export = [w \in Exporters |-> Idle]
  /\ files = [d \in 0 .. Days - 1 |-> NoFiles]
  /\ uploads = {}
  /\ exportSpent = [faults |-> 0, manual |-> 0]
  /\ overlapped = FALSE

HourPasses ==
  /\ hour < 2 * Days - 1
  /\ hour' = hour + 1
  /\ UNCHANGED <<saved, daily, export, files, uploads, exportSpent, overlapped>>

-----------------------------------------------------------------------------
(* maybe_export_db_to_discord, on the main thread of the poller *)

\* The state is read first; a day that is not done goes on to the lock.
ReadExportState ==
  /\ daily.at = "idle"
  /\ AfterSchedule /\ saved # Day
  /\ daily' = [at |-> "check", day |-> Day]
  /\ UNCHANGED <<hour, saved, export, files, uploads, exportSpent, overlapped>>

Begins(w, day) ==
  /\ export' = [export EXCEPT ![w] = [Idle EXCEPT !.at = "backup", !.day = day]]
  /\ overlapped' = (overlapped \/ \E o \in Exporters : export[o].at # "idle" /\ export[o].day = day)

ThreadAlive == export["daily"].at # "idle"

\* Under _EXPORT_LOCK: at most one thread.
StartDaily ==
  /\ daily.at = "check"
  /\ daily' = [daily EXCEPT !.at = "idle"]
  /\ IF ThreadAlive
       THEN UNCHANGED <<export, overlapped>>
       ELSE Begins("daily", daily.day)
  /\ UNCHANGED <<hour, saved, files, uploads, exportSpent>>

\* export_db_to_discord_now in the dashboard.
StartManual ==
  /\ export["manual"].at = "idle" /\ exportSpent.manual < MaxManual
  /\ exportSpent' = [exportSpent EXCEPT !.manual = @ + 1]
  /\ Begins("manual", Day)
  /\ UNCHANGED <<hour, saved, daily, files, uploads>>

-----------------------------------------------------------------------------
(* _run_export and export_db_to_discord_now *)

At(w, place) == export[w].at = place
Goes(w, place) == export' = [export EXCEPT ![w].at = place]
Files(w) == files[export[w].day]
Leaves(w, f) == files' = [files EXCEPT ![export[w].day] = f]

\* _snapshot_sqlite_db: an old snapshot is unlinked, the backup goes to a new file ...
Backup(w) ==
  /\ At(w, "backup")
  /\ Leaves(w, [Files(w) EXCEPT !.snapshot = [by |-> w, holds |-> "live"]])
  /\ Goes(w, "scrub")
  /\ UNCHANGED <<hour, saved, daily, uploads, exportSpent, overlapped>>

\* ... in which the visitor tables are emptied.
Scrub(w) ==
  /\ At(w, "scrub")
  /\ Leaves(w, IF Files(w).snapshot.by = w
                  THEN [Files(w) EXCEPT !.snapshot.holds = "scrubbed"] ELSE Files(w))
  /\ Goes(w, "compact")
  /\ UNCHANGED <<hour, saved, daily, uploads, exportSpent, overlapped>>

\* _compact_sqlite_db: a path that is gone is opened as an empty database.  When VACUUM
\* INTO fails the snapshot itself is archived.
Opened(w) ==
  IF Files(w).snapshot = NoFile THEN [by |-> w, holds |-> "nothing"] ELSE Files(w).snapshot

Compact(w) ==
  /\ At(w, "compact")
  /\ \/ /\ Leaves(w, [Files(w) EXCEPT !.snapshot = Opened(w),
                                         !.compact = [by |-> w, holds |-> Opened(w).holds]])
        /\ Goes(w, "zipCompact")
     \/ /\ Leaves(w, [Files(w) EXCEPT !.snapshot = Opened(w), !.compact = NoFile])
        /\ Goes(w, "zipSnapshot")
  /\ UNCHANGED <<hour, saved, daily, uploads, exportSpent, overlapped>>

Archived(w) == IF At(w, "zipCompact") THEN Files(w).compact ELSE Files(w).snapshot

\* _zip_file: the archive is incomplete until it is closed.
BeginZip(w) ==
  /\ At(w, "zipCompact") \/ At(w, "zipSnapshot")
  /\ Archived(w) # NoFile
  /\ Leaves(w, [Files(w) EXCEPT !.zip = [by |-> w, holds |-> "part"]])
  /\ export' = [export EXCEPT ![w].at = "zipping", ![w].holds = Archived(w).holds]
  /\ UNCHANGED <<hour, saved, daily, uploads, exportSpent, overlapped>>

\* The archive is closed, and the raw copies are deleted.
EndZip(w) ==
  /\ At(w, "zipping")
  /\ Leaves(w, [NoFiles EXCEPT !.zip = IF Files(w).zip.by = w
                                           THEN [by |-> w, holds |-> export[w].holds]
                                           ELSE Files(w).zip])
  /\ Goes(w, "thread")
  /\ UNCHANGED <<hour, saved, daily, uploads, exportSpent, overlapped>>

\* The poller's thread carries the state of a day that is not done; a manual export reads
\* it here, and may find the day's forum thread.
ThreadKnown(w) == w = "manual" /\ saved = export[w].day

\* _ensure_backup_forum_thread: the stored thread, or a new one is posted.
OpenThread(w) ==
  /\ At(w, "thread")
  /\ Goes(w, "upload")
  /\ UNCHANGED <<hour, saved, daily, files, uploads, exportSpent, overlapped>>

\* The archive is read from its path, whole or in parts.
Upload(w) ==
  /\ At(w, "upload")
  /\ uploads' = uploads \cup {<<w, export[w].day, Files(w).zip.holds>>}
  /\ Goes(w, "store")
  /\ UNCHANGED <<hour, saved, daily, files, exportSpent, overlapped>>

\* Mutant: the day is marked done with the day of the clock.
StoreToday(w) ==
  /\ At(w, "store")
  /\ saved' = Day
  /\ export' = [export EXCEPT ![w] = Idle]
  /\ UNCHANGED <<hour, daily, files, uploads, exportSpent, overlapped>>

StoreExport(w) ==
  /\ At(w, "store")
  /\ saved' = export[w].day
  /\ export' = [export EXCEPT ![w] = Idle]
  /\ UNCHANGED <<hour, daily, files, uploads, exportSpent, overlapped>>

\* Discord refuses, or a file is gone: nothing is stored.
ExportFails(w) ==
  /\ \/ /\ At(w, "upload") \/ (At(w, "thread") /\ ~ThreadKnown(w))
        /\ exportSpent.faults < MaxExportFaults
        /\ exportSpent' = [exportSpent EXCEPT !.faults = @ + 1]
     \/ /\ At(w, "zipCompact") \/ At(w, "zipSnapshot")
        /\ Archived(w) = NoFile
        /\ UNCHANGED exportSpent
  /\ export' = [export EXCEPT ![w] = Idle]
  /\ UNCHANGED <<hour, saved, daily, files, uploads, overlapped>>

\* The poller's process ends, and its thread with it; systemd starts a new one.
ExportPollerDies ==
  /\ exportSpent.faults < MaxExportFaults
  /\ exportSpent' = [exportSpent EXCEPT !.faults = @ + 1]
  /\ daily' = [daily EXCEPT !.at = "idle"]
  /\ export' = [export EXCEPT !["daily"] = Idle]
  /\ UNCHANGED <<hour, saved, files, uploads, overlapped>>

ExportStep(w) ==
  \/ Backup(w) \/ Scrub(w) \/ Compact(w) \/ BeginZip(w) \/ EndZip(w) \/ OpenThread(w)
  \/ Upload(w) \/ StoreExport(w) \/ ExportFails(w)

ExportMain == ReadExportState \/ StartDaily

ExportNext ==
  \/ HourPasses \/ ExportMain \/ StartManual \/ ExportPollerDies
  \/ \E w \in Exporters : ExportStep(w)

ExportSpec == ExportInit /\ [][ExportNext]_exportVars
-----------------------------------------------------------------------------
(* Properties *)

ExportTypeOK ==
  /\ hour \in 0 .. (2 * Days - 1)
  /\ saved \in -1 .. (Days - 1)
  /\ \A w \in Exporters : export[w].day \in 0 .. (Days - 1)
  /\ uploads \subseteq Exporters \X (0 .. Days - 1) \X {"live", "scrubbed", "nothing", "part"}

\* _snapshot_sqlite_db: "exports leave the VPS, so they are emptied in the snapshot copy":
\* what is uploaded is a complete archive of a scrubbed snapshot, after crashes and
\* failures as well, unless a manual and a daily export overlapped on the same files.
UploadsAreScrubbed ==
  overlapped \/ \A u \in uploads : u[3] = "scrubbed"

\* "The day is only marked done after the upload": a stored date has an upload.
DoneWasUploaded ==
  saved # -1 => \E u \in uploads : u[2] = saved

\* Whatever failed or was cut off on the way, the last day comes to be stored as done
\* and stays so, even when an export of an earlier day ends after it.
LastDayExported == <>[](saved = Days - 1)
=============================================================================
