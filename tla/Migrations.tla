------------------------------ MODULE Migrations ------------------------------
(***************************************************************************)
(* Schema migrations of storage/db.py, run by every process when it first   *)
(* opens the database: the dashboard and the poller may do so together.     *)
(* Inside a process _global_init_lock lets one thread migrate; between      *)
(* processes there is only SQLite's write lock.                            *)
(*                                                                         *)
(* The sqlite3 module opens a transaction before an INSERT or UPDATE, not   *)
(* before DDL or a PRAGMA, and executescript commits the open one before it *)
(* starts.  So the record of a migration stays uncommitted until the next   *)
(* script, the columns added in between belong to the same transaction, and *)
(* every statement of a script commits by itself.                          *)
(***************************************************************************)
EXTENDS Integers, FiniteSets

CONSTANTS
  Procs,          \* the processes that open the database
  Nobody,         \* not a process: nobody has an open transaction
  StartVersions,  \* schema versions of the database they may find
  MaxCrashes      \* bound of the model

ASSUME MigrationsAssumption ==
  /\ Nobody \notin Procs
  /\ StartVersions \subseteq 0 .. 19
  /\ MaxCrashes \in Nat

\* SCHEMA_VERSION, and how each version is applied.
SchemaVersion == 19
Versions == 1 .. SchemaVersion
ColumnVersions == {5, 6, 8, 10, 11, 13, 16, 19}
ScriptVersions == {1, 2, 3, 4, 7, 9, 14, 15, 18}
UpdateVersions == {16, 17}
RebuildVersion == 12

\* Tables that hold history, by the version that creates them, and what is deleted with
\* what (REFERENCES ... ON DELETE CASCADE).
FirstTables ==
  {"poll_runs", "item_polls", "listing_snapshots", "inference_events", "signals", "pending"}
LaterTables == [sales |-> 4, price_alert_cooldown |-> 7, new_item_alert_cooldown |-> 14,
                companion_picks |-> 18]
TablesOf(version) ==
  IF version = 0 THEN {} ELSE FirstTables \cup {t \in DOMAIN LaterTables : LaterTables[t] <= version}

FirstCascades ==
  {<<"item_polls", "poll_runs">>, <<"item_polls", "item_variants">>,
   <<"listing_snapshots", "item_polls">>, <<"inference_events", "item_polls">>,
   <<"signals", "item_variants">>, <<"pending", "item_variants">>}
LaterCascades ==
  {<<"sales", "item_polls">>} \cup {<<t, "item_variants">> : t \in DOMAIN LaterTables}
Below(tables) == {c[1] : c \in {k \in FirstCascades \cup LaterCascades : k[2] \in tables}}

\* What goes with the rows of item_variants; nothing lies deeper than two levels below.
DeletedWithVariants == LET direct == Below({"item_variants"}) IN direct \cup Below(direct)

VARIABLES
  from,     \* the version at the start
  db,       \* the database as the owner of the open transaction sees it
  owner,    \* the process with an open transaction, which has the write lock
  undo,     \* the database without that transaction
  proc,     \* where each process is
  crashes,
  torn,     \* history: a rebuild of item_variants was "cut" off, or "met" another one
  written   \* history: tables that rows were written to

vars == <<from, db, owner, undo, proc, crashes, torn, written>>

\* What a process reads, and whether it may write.
Seen(p) == IF owner \in {Nobody, p} THEN db ELSE undo
MayWrite(p) == owner \in {Nobody, p}

NotStarted == [at |-> "start", applied |-> {}, version |-> 0, missing |-> FALSE, fk |-> TRUE]

Init ==
  /\ from \in StartVersions
  /\ db = [applied |-> 1 .. from, done |-> 1 .. from,
           variants |-> IF from = 0 THEN "absent" ELSE IF from < RebuildVersion THEN "old" ELSE "new",
           rows |-> from > 0, staging |-> "none", history |-> TablesOf(from)]
  /\ owner = Nobody
  /\ undo = db
  /\ proc = [p \in Procs |-> NotStarted]
  /\ crashes = 0
  /\ torn = {}
  /\ written = TablesOf(from)

-----------------------------------------------------------------------------
Set(p, changes) == proc' = [proc EXCEPT ![p] = changes]

\* DDL outside a transaction commits at once; an UPDATE opens a transaction.
Written(p, new, update) ==
  /\ db' = new
  /\ undo' = IF owner = p THEN undo ELSE IF update THEN db ELSE new
  /\ owner' = IF update THEN p ELSE owner

SwapPlaces == {"unstage", "stage", "copy", "drop", "rename"}
Swapping == {p \in Procs : proc[p].at \in SwapPlaces}

\* The versions still to apply, in order; after the last one the safety net looks at
\* item_variants again.
Pending(p, after) == {v \in Versions : v > after /\ v \notin proc[p].applied}
AfterVersion(p, v) ==
  IF Pending(p, v) = {}
    THEN [proc[p] EXCEPT !.at = "shape", !.version = SchemaVersion + 1]
    ELSE LET next == CHOOSE n \in Pending(p, v) : \A k \in Pending(p, v) : n <= k IN
         [proc[p] EXCEPT !.at = IF next = RebuildVersion THEN "shape" ELSE "look", !.version = next]

\* ensure_initialized opens a connection and reads schema_migrations.
Open(p) ==
  /\ proc[p].at = "start"
  /\ Set(p, [proc[p] EXCEPT !.at = "next", !.applied = Seen(p).applied])
  /\ UNCHANGED <<from, db, owner, undo, crashes, torn, written>>

FirstVersion(p) ==
  /\ proc[p].at = "next"
  /\ Set(p, AfterVersion(p, 0))
  /\ UNCHANGED <<from, db, owner, undo, crashes, torn, written>>

\* PRAGMA table_info: are the columns of the version there?
Look(p) ==
  /\ proc[p].at = "look"
  /\ Set(p, [proc[p] EXCEPT !.at = "work", !.missing = proc[p].version \notin Seen(p).done])
  /\ UNCHANGED <<from, db, owner, undo, crashes, torn, written>>

\* An error: the connection is closed, which rolls back; the process starts again.
Closed(p) ==
  /\ db' = IF owner = p THEN undo ELSE db
  /\ owner' = IF owner = p THEN Nobody ELSE owner
  /\ UNCHANGED undo
  /\ proc' = [proc EXCEPT ![p] = NotStarted]

\* Columns are added where they were missing; a column added since is an error.  The
\* versions that correct rows can be undone with their record.
AddColumns(p) ==
  LET v == proc[p].version IN
  /\ proc[p].at = "work" /\ v \notin ScriptVersions
  /\ MayWrite(p)
  /\ IF v \in ColumnVersions /\ proc[p].missing /\ v \in db.done
       THEN Closed(p)
       ELSE /\ Written(p, [db EXCEPT !.done = @ \cup {v}], v \in UpdateVersions)
            /\ Set(p, [proc[p] EXCEPT !.at = "record"])
  /\ UNCHANGED <<from, crashes, torn, written>>

\* executescript: what was open is committed, then each statement creates what is not
\* there.  The script of version 9 is a transaction of its own.
RunScript(p) ==
  LET v == proc[p].version
      new == [db EXCEPT !.done = @ \cup {v},
                        !.variants = IF v = 1 /\ @ = "absent" THEN "old" ELSE @]
  IN
  /\ proc[p].at = "work" /\ v \in ScriptVersions
  /\ MayWrite(p)
  /\ owner' = Nobody
  /\ db' = new /\ undo' = new
  /\ Set(p, [proc[p] EXCEPT !.at = "record"])
  /\ UNCHANGED <<from, crashes, torn, written>>

\* Mutant: the version is recorded, and the record committed, before the work.
RecordFirst(p) ==
  LET v == proc[p].version IN
  /\ proc[p].at = "look"
  /\ MayWrite(p)
  /\ IF v \in db.applied
       THEN Closed(p)
       ELSE /\ db' = [db EXCEPT !.applied = @ \cup {v}]
            /\ undo' = db'
            /\ owner' = Nobody
            /\ Set(p, AfterVersion(p, v))
  /\ UNCHANGED <<from, crashes, torn, written>>

\* INSERT INTO schema_migrations opens a transaction; a version that another process
\* has recorded since is an error.
Record(p) ==
  LET v == proc[p].version IN
  /\ proc[p].at = "record"
  /\ MayWrite(p)
  /\ IF v \in db.applied
       THEN Closed(p)
       ELSE /\ db' = [db EXCEPT !.applied = @ \cup {v}]
            /\ undo' = IF owner = p THEN undo ELSE db
            /\ owner' = p
            /\ Set(p, AfterVersion(p, v))
  /\ UNCHANGED <<from, crashes, torn, written>>

-----------------------------------------------------------------------------
(* _ensure_item_variants_image_filter_constraint: version 12 and safety net *)

AfterShape(p) == [proc[p] EXCEPT !.at = IF proc[p].version > SchemaVersion THEN "commit" ELSE "record",
                                 !.fk = TRUE]

WithShape(new) == [new EXCEPT !.done = @ \cup {RebuildVersion}]

\* Mutant: the constraint is rebuilt whatever shape the table has.
NeverHasNewUnique(p) == FALSE

HasNewUnique(p) == Seen(p).variants = "new"

\* Nothing to do, an absent table created in the new shape, or a rebuild, for which
\* enforcement of foreign keys is switched off: a PRAGMA without effect while a
\* transaction is open.
LookAtShape(p) ==
  /\ proc[p].at = "shape"
  /\ \/ /\ HasNewUnique(p)
        /\ Set(p, AfterShape(p))
        /\ UNCHANGED <<db, owner, undo>>
     \/ /\ Seen(p).variants = "absent" /\ MayWrite(p)
        /\ db' = WithShape([db EXCEPT !.variants = "new", !.rows = FALSE])
        /\ undo' = db'
        /\ owner' = Nobody
        /\ Set(p, AfterShape(p))
     \/ /\ Seen(p).variants # "absent" /\ ~HasNewUnique(p) /\ MayWrite(p)
        /\ Set(p, [proc[p] EXCEPT !.at = "unstage", !.fk = (owner = p)])
        /\ UNCHANGED <<db, owner, undo>>
  /\ UNCHANGED <<from, crashes, torn, written>>

\* One statement of the rebuild, committed by itself.
Statement(p, place, next, new) ==
  /\ proc[p].at = place
  /\ MayWrite(p)
  /\ db' = new /\ undo' = new
  /\ owner' = Nobody
  /\ Set(p, next)
  /\ torn' = torn \cup IF Swapping = {p} THEN {} ELSE {"met"}
  /\ UNCHANGED <<from, crashes, written>>

Goto(p, place) == [proc[p] EXCEPT !.at = place]

\* Mutant: a table left over from an earlier try is not dropped.
KeepStaging(p) == Statement(p, "unstage", Goto(p, "stage"), db)

DropStaging(p) ==
  Statement(p, "unstage", Goto(p, "stage"), [db EXCEPT !.staging = "none"])

CreateStaging(p) ==
  /\ db.staging = "none"
  /\ Statement(p, "stage", Goto(p, "copy"), [db EXCEPT !.staging = "empty"])

CopyVariants(p) ==
  /\ db.staging # "none" /\ db.variants # "absent"
  /\ Statement(p, "copy", Goto(p, "drop"), [db EXCEPT !.staging = IF db.rows THEN "full" ELSE @])

\* DROP TABLE deletes the rows first: with enforcement on, what refers to them goes too.
DropVariants(p) ==
  /\ db.variants # "absent"
  /\ Statement(p, "drop", Goto(p, "rename"),
       [db EXCEPT !.variants = "absent", !.rows = FALSE, !.history = IF proc[p].fk THEN @ \ DeletedWithVariants ELSE @])

RenameStaging(p) ==
  /\ db.staging # "none" /\ db.variants = "absent"
  /\ Statement(p, "rename", AfterShape(p),
       WithShape([db EXCEPT !.variants = "new", !.rows = (db.staging = "full"), !.staging = "none"]))

\* A statement of the rebuild whose tables another process has made or taken away.
SwapFails(p) ==
  /\ \/ proc[p].at = "stage" /\ db.staging # "none"
     \/ proc[p].at = "copy" /\ (db.staging = "none" \/ db.variants = "absent")
     \/ proc[p].at = "drop" /\ db.variants = "absent"
     \/ proc[p].at = "rename" /\ (db.staging = "none" \/ db.variants # "absent")
  /\ MayWrite(p)
  /\ Closed(p)
  /\ torn' = torn \cup IF Swapping = {p} THEN {} ELSE {"met"}
  /\ UNCHANGED <<from, crashes, written>>

-----------------------------------------------------------------------------
Commit(p) ==
  /\ proc[p].at = "commit"
  /\ IF owner = p THEN owner' = Nobody /\ undo' = db ELSE UNCHANGED <<owner, undo>>
  /\ Set(p, [proc[p] EXCEPT !.at = "ready"])
  /\ UNCHANGED <<from, db, crashes, torn, written>>

\* A process that is ready stores variants, polls and sales.
Populate(p) ==
  /\ proc[p].at = "ready" /\ written # TablesOf(SchemaVersion)
  /\ MayWrite(p) /\ owner = Nobody /\ db.variants # "absent"
  /\ db' = [db EXCEPT !.rows = TRUE, !.history = TablesOf(SchemaVersion)]
  /\ undo' = db'
  /\ written' = TablesOf(SchemaVersion)
  /\ UNCHANGED <<from, owner, proc, crashes, torn>>

\* A process is killed, or gives up on the write lock after the busy timeout.
Crash(p) ==
  /\ proc[p].at # "start" /\ crashes < MaxCrashes
  /\ crashes' = crashes + 1
  /\ Closed(p)
  /\ torn' = torn \cup IF p \in Swapping THEN {"cut"} ELSE {}
  /\ UNCHANGED <<from, written>>

Swap(p) ==
  \/ DropStaging(p) \/ CreateStaging(p) \/ CopyVariants(p) \/ DropVariants(p)
  \/ RenameStaging(p) \/ SwapFails(p)

Step(p) ==
  \/ Open(p) \/ FirstVersion(p) \/ Look(p) \/ AddColumns(p) \/ RunScript(p) \/ Record(p)
  \/ LookAtShape(p) \/ Swap(p) \/ Commit(p)

Next == \E p \in Procs : Step(p) \/ Populate(p) \/ Crash(p)

Spec == Init /\ [][Next]_vars

\* A process that can go on does, and systemd starts again the one that failed.
FairSpec == Spec /\ \A p \in Procs : WF_vars(Step(p))
-----------------------------------------------------------------------------
(* Properties *)

\* TYPES, and that the open transaction belongs to a process that is migrating.
Databases ==
  [applied : SUBSET Versions, done : SUBSET Versions, variants : {"absent", "old", "new"},
   rows : BOOLEAN, staging : {"none", "empty", "full"},
   history : SUBSET TablesOf(SchemaVersion)]

TypeOK ==
  /\ from \in StartVersions
  /\ db \in Databases /\ undo \in Databases
  /\ owner \in Procs \cup {Nobody}
  /\ \A p \in Procs :
       /\ proc[p].at \in SwapPlaces \cup {"start", "next", "look", "work", "record", "shape",
                                          "commit", "ready"}
       /\ proc[p].applied \subseteq Versions
       /\ proc[p].version \in 0 .. (SchemaVersion + 1)
  /\ torn \subseteq {"cut", "met"} /\ written \subseteq TablesOf(SchemaVersion)
  /\ owner # Nobody => proc[owner].at \in {"look", "work", "record", "shape", "unstage", "commit"}
  /\ owner = Nobody => undo = db

\* _apply_migrations: a recorded version has been applied, in what is committed and in
\* what is not, wherever a process is cut off and whatever the other one does.
RecordedIsApplied == db.applied \subseteq db.done /\ undo.applied \subseteq undo.done

\* ensure_initialized: a process that is ready finds the schema it needs.
ReadyFindsItsSchema ==
  \A p \in Procs : proc[p].at = "ready" =>
    Versions \subseteq Seen(p).done /\ ("met" \in torn \/ Seen(p).variants = "new")

\* The schema behind a version number is there, while two processes migrate and one
\* of them is cut off.
SchemaIsThere == TypeOK /\ RecordedIsApplied /\ ReadyFindsItsSchema

\* The rebuild of item_variants keeps its rows and what refers to them.  Excepted are a
\* rebuild that was cut off or met another one, and databases older than version 11.
HistoryKept ==
  (torn = {} /\ from \notin 1 .. 10) =>
    /\ written \subseteq db.history
    /\ written # {} => db.rows \/ db.staging = "full"

\* "Foreign keys must be OFF for the DROP TABLE to succeed": the same from any version,
\* for a rebuild that nothing disturbs.
RebuildKeepsHistory == torn = {} => written \subseteq db.history

\* Every process gets ready: the failures that one process causes in another end, and
\* what a crash left half done is completed.  Two rebuilds that meet are excepted: in
\* lockstep each drops the other's table for ever.
AllReady == \A p \in Procs : <>(proc[p].at = "ready" \/ "met" \in torn)
=============================================================================
