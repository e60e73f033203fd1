------------------------------ MODULE MlRetrain ------------------------------
(***************************************************************************)
(* The weekly retraining of the ML models (poller/ml_retrain.py): the main  *)
(* thread of the poller starts a child process once a week after the        *)
(* schedule and looks after it once a cycle; a watcher thread waits for the *)
(* child and records its end.  A lock file with the child's pid keeps a     *)
(* restarted poller from starting a second one.                             *)
(*                                                                         *)
(* Time is a clock with two slots a week: an even one before the scheduled  *)
(* hour and an odd one after it.                                            *)
(***************************************************************************)
EXTENDS Integers, FiniteSets

CONSTANTS
  Weeks,                      \* the weeks of the model are 0 .. Weeks - 1
  MaxRetrainFaults,           \* failed runs and launches, and poller crashes
  MaxEarlyEnds                \* runs that end between two looks of the main thread

ASSUME RetrainAssumption ==
  /\ Weeks \in Nat \ {0}
  /\ {MaxRetrainFaults, MaxEarlyEnds} \subseteq Nat

Runs == 1 .. (Weeks + MaxRetrainFaults + 2 * MaxEarlyEnds)
NoRun == 0

VARIABLES
  weekHour,    \* the clock
  lastRun,     \* config key ml_retrain: last_run_week_key
  lockFile,    \* ml_retrain.lock: the run whose pid it holds
  active,      \* _ACTIVE_PROC
  run,         \* the children
  watchers,    \* the runs a watcher thread of this poller looks after
  retrain,     \* the main thread in maybe_run_weekly_ml_retrain, and what it has read
  retrainSpent,
  unlocked     \* history: a crash between a launch and the lock file left a run unlocked

retrainVars ==
  <<weekHour, lastRun, lockFile, active, run, watchers, retrain, retrainSpent, unlocked>>

Week == weekHour \div 2
RetrainIdle == [at |-> "idle", seen |-> -1, week |-> 0, run |-> NoRun]

RetrainInit ==
  /\ weekHour = 0 /\ lastRun = -1 /\ lockFile = NoRun /\ active = NoRun
  /\ run = [c \in Runs |-> [is |-> "none", ok |-> FALSE, week |-> 0]]
  /\ watchers = {}
  /\ retrain = RetrainIdle
  /\ retrainSpent = [faults |-> 0, early |-> 0]
  /\ unlocked = FALSE

WeekHourPasses ==
  /\ weekHour < 2 * Weeks - 1
  /\ weekHour' = weekHour + 1
  /\ UNCHANGED <<lastRun, lockFile, active, run, watchers, retrain, retrainSpent, unlocked>>

-----------------------------------------------------------------------------
(* The child process *)

Running(c) == run[c].is \in {"running", "overdue"}
\* A child that has ended keeps its pid until its parent has waited for it.
PidAlive(c) == c # NoRun /\ (Running(c) \/ run[c].is = "ended")
IsOrphan(c) == Running(c) /\ active # c /\ retrain.run # c

\* A run hangs for longer than timeout_seconds.
RunsOverTime(c) ==
  /\ run[c].is = "running" /\ retrainSpent.faults < MaxRetrainFaults
  /\ run' = [run EXCEPT ![c].is = "overdue"]
  /\ retrainSpent' = [retrainSpent EXCEPT !.faults = @ + 1]
  /\ UNCHANGED <<weekHour, lastRun, lockFile, active, watchers, retrain, unlocked>>

\* A child nobody waits for is reaped by init.
AfterEnd(c) == IF IsOrphan(c) THEN "reaped" ELSE "ended"

RunEnds(c) ==
  /\ Running(c)
  /\ \E ok \in BOOLEAN :
       /\ run' = [run EXCEPT ![c].is = AfterEnd(c), ![c].ok = ok]
       /\ retrainSpent' = [faults |-> retrainSpent.faults + (IF ok THEN 0 ELSE 1),
                           early |-> retrainSpent.early + (IF retrain.at = "idle" THEN 0 ELSE 1)]
       /\ retrainSpent'.faults <= MaxRetrainFaults /\ retrainSpent'.early <= MaxEarlyEnds
  /\ UNCHANGED <<weekHour, lastRun, lockFile, active, watchers, retrain, unlocked>>

-----------------------------------------------------------------------------
(* _finalize_active_run, under _ACTIVE_LOCK *)

Finalises(c) ==
  /\ lastRun' = IF run[c].ok THEN run[c].week ELSE lastRun
  /\ lockFile' = NoRun /\ active' = NoRun

\* _watch_active_run: wait returns ...
WatcherWaits(c) ==
  /\ c \in watchers /\ run[c].is = "ended"
  /\ run' = [run EXCEPT ![c].is = "reaped"]
  /\ UNCHANGED <<weekHour, lastRun, lockFile, active, watchers, retrain, retrainSpent, unlocked>>

\* ... and the lock is taken: only the active run is recorded.
WatcherEnds(c) ==
  /\ c \in watchers /\ run[c].is = "reaped"
  /\ watchers' = watchers \ {c}
  /\ IF active = c THEN Finalises(c) ELSE UNCHANGED <<lastRun, lockFile, active>>
  /\ UNCHANGED <<weekHour, run, retrain, retrainSpent, unlocked>>

-----------------------------------------------------------------------------
(* maybe_run_weekly_ml_retrain, on the main thread *)

Looks(place) == retrain' = [retrain EXCEPT !.at = place]

\* Mutant: a run over its time is left alone.
NothingToKill(c) == FALSE

IsOverdue(c) == run[c].is = "overdue"

\* _refresh_active_run: a run over its time is killed; poll may or may not see it end yet.
Refresh ==
  /\ retrain.at = "idle"
  /\ Looks("read")
  /\ \/ /\ active # NoRun => Running(active) /\ ~IsOverdue(active)
        /\ UNCHANGED <<lastRun, lockFile, active, run, retrainSpent>>
     \/ /\ active # NoRun /\ IsOverdue(active) /\ retrainSpent.early < MaxEarlyEnds
        /\ run' = [run EXCEPT ![active].is = "ended"]
        /\ retrainSpent' = [retrainSpent EXCEPT !.early = @ + 1]
        /\ UNCHANGED <<lastRun, lockFile, active>>
     \/ /\ active # NoRun /\ (IsOverdue(active) \/ run[active].is \in {"ended", "reaped"})
        /\ run' = [run EXCEPT ![active].is = "reaped"]
        /\ Finalises(active)
        /\ UNCHANGED retrainSpent
  /\ UNCHANGED <<weekHour, watchers, unlocked>>

\* The schedule and the state: a week that is done, or not due yet, ends the call.
ReadRetrainState ==
  /\ retrain.at = "read"
  /\ retrain' = IF weekHour % 2 = 1 /\ lastRun # Week
                  THEN [retrain EXCEPT !.at = "check", !.seen = lastRun, !.week = Week]
                  ELSE RetrainIdle
  /\ UNCHANGED <<weekHour, lastRun, lockFile, active, run, watchers, retrainSpent, unlocked>>

\* Mutant: a lock file of an earlier poller is stale.
LockIsMine == active # NoRun /\ PidAlive(lockFile)

LockHeld == PidAlive(lockFile)

CheckLock ==
  /\ retrain.at = "check"
  /\ IF LockHeld THEN retrain' = RetrainIdle /\ UNCHANGED lockFile
                 ELSE Looks("launch") /\ lockFile' = NoRun
  /\ UNCHANGED <<weekHour, lastRun, active, run, watchers, retrainSpent, unlocked>>

Launch ==
  /\ retrain.at = "launch"
  /\ \E c \in Runs :
       /\ run[c].is = "none" /\ \A d \in Runs : d < c => run[d].is # "none"
       /\ run' = [run EXCEPT ![c].is = "running", ![c].week = retrain.week]
       /\ retrain' = [retrain EXCEPT !.at = "lock", !.run = c]
  /\ UNCHANGED <<weekHour, lastRun, lockFile, active, watchers, retrainSpent, unlocked>>

\* What was read goes back with the error.
LaunchFails ==
  /\ retrain.at = "launch" /\ retrainSpent.faults < MaxRetrainFaults
  /\ retrainSpent' = [retrainSpent EXCEPT !.faults = @ + 1]
  /\ lastRun' = retrain.seen
  /\ retrain' = RetrainIdle
  /\ UNCHANGED <<weekHour, lockFile, active, run, watchers, unlocked>>

WriteLock ==
  /\ retrain.at = "lock"
  /\ lockFile' = retrain.run
  /\ Looks("note")
  /\ UNCHANGED <<weekHour, lastRun, active, run, watchers, retrainSpent, unlocked>>

\* The config says "running", with the last week as it was read.
NoteRunning ==
  /\ retrain.at = "note"
  /\ lastRun' = retrain.seen
  /\ Looks("activate")
  /\ UNCHANGED <<weekHour, lockFile, active, run, watchers, retrainSpent, unlocked>>

Activate ==
  /\ retrain.at = "activate"
  /\ active' = retrain.run /\ watchers' = watchers \cup {retrain.run}
  /\ retrain' = RetrainIdle
  /\ UNCHANGED <<weekHour, lastRun, lockFile, run, retrainSpent, unlocked>>

\* The poller ends anywhere.  Under systemd its children end with it; started by the
\* dashboard they go on.
RetrainPollerDies ==
  /\ retrainSpent.faults < MaxRetrainFaults
  /\ retrainSpent' = [retrainSpent EXCEPT !.faults = @ + 1]
  /\ active' = NoRun /\ watchers' = {} /\ retrain' = RetrainIdle
  /\ \E survive \in BOOLEAN :
       /\ run' = [c \in Runs |->
                    IF run[c].is = "ended" \/ (Running(c) /\ ~survive)
                      THEN [run[c] EXCEPT !.is = "reaped"] ELSE run[c]]
       /\ unlocked' = (unlocked \/ (survive /\ retrain.at = "lock" /\ Running(retrain.run)))
  /\ UNCHANGED <<weekHour, lastRun, lockFile>>

RetrainMain ==
  \/ Refresh \/ ReadRetrainState \/ CheckLock \/ Launch \/ LaunchFails
  \/ WriteLock \/ NoteRunning \/ Activate

RetrainWatcher(c) == WatcherWaits(c) \/ WatcherEnds(c)

\* A run ends or hangs; a hung one ends when no poller is left to kill it.
RunGoesOn(c) ==
  \/ run[c].is = "running" /\ (RunEnds(c) \/ RunsOverTime(c))
  \/ run[c].is = "overdue" /\ IsOrphan(c) /\ RunEnds(c)

RetrainNext ==
  \/ WeekHourPasses \/ RetrainMain \/ RetrainPollerDies
  \/ \E c \in Runs : RunsOverTime(c) \/ RunEnds(c) \/ RetrainWatcher(c)

RetrainSpec == RetrainInit /\ [][RetrainNext]_retrainVars
-----------------------------------------------------------------------------
(* Properties *)

RetrainTypeOK ==
  /\ weekHour \in 0 .. (2 * Weeks - 1)
  /\ lastRun \in -1 .. (Weeks - 1)
  /\ lockFile \in Runs \cup {NoRun} /\ active \in Runs \cup {NoRun}
  /\ watchers \subseteq Runs /\ retrain.run \in Runs \cup {NoRun}
  /\ \A c \in Runs : run[c].is \in {"none", "running", "overdue", "ended", "reaped"}

\* The lock file keeps one retrain at a time, across crashes, restarts and orphans, unless
\* a run ended between the looks of the main thread or a crash came before the lock file.
OneRetrainAtATime ==
  retrainSpent.early = 0 /\ ~unlocked =>
    Cardinality({c \in Runs : Running(c)}) <= 1

\* "Run ML retraining pipeline once per local calendar week": with the same exception and
\* without crashes, one successful run a week.
RetrainedOncePerWeek ==
  retrainSpent = [faults |-> 0, early |-> 0] =>
    \A c, d \in Runs : run[c].ok /\ run[d].ok /\ run[c].week = run[d].week => c = d

\* A recorded week has a successful run.
RecordedWasRun == lastRun # -1 => \E c \in Runs : run[c].ok /\ run[c].week = lastRun

\* Failures, hangs, crashes and races notwithstanding, the last week comes to be recorded.
LastWeekRetrained == <>[](lastRun = Weeks - 1)
=============================================================================
