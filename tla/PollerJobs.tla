----------------------------- MODULE PollerJobs -----------------------------
(***************************************************************************)
(* The scheduled jobs of the poller.  main() calls them one after the other *)
(* before each cycle (poller/poll_item_prices.py); each has its own config  *)
(* key, files and threads and none reads what another one writes, so each   *)
(* is followed on its own: "job" is the one whose schedule is configured.   *)
(***************************************************************************)
EXTENDS DbExport, MlRetrain, WeeklySummary

VARIABLE job

jobVars == <<job, exportVars, retrainVars, recapVars>>

Init ==
  /\ job \in {"export", "retrain", "recap"}
  /\ ExportInit /\ RetrainInit /\ RecapInit

Next ==
  /\ UNCHANGED job
  /\ \/ job = "export" /\ ExportNext /\ UNCHANGED <<retrainVars, recapVars>>
     \/ job = "retrain" /\ RetrainNext /\ UNCHANGED <<exportVars, recapVars>>
     \/ job = "recap" /\ RecapNext /\ UNCHANGED <<exportVars, retrainVars>>

\* Time passes, main comes round to its jobs again and again, and a thread, a process or a
\* call that has begun goes on.  Strong fairness for a run: between the looks of the main
\* thread it may be disabled by the bound on early ends.
Fairness ==
  /\ WF_exportVars(job = "export" /\ HourPasses)
  /\ WF_exportVars(job = "export" /\ ExportMain)
  /\ \A w \in Exporters : WF_exportVars(job = "export" /\ ExportStep(w))
  /\ WF_retrainVars(job = "retrain" /\ WeekHourPasses)
  /\ WF_retrainVars(job = "retrain" /\ RetrainMain)
  /\ \A c \in Runs : /\ WF_retrainVars(job = "retrain" /\ RetrainWatcher(c))
                      /\ SF_retrainVars(job = "retrain" /\ RunGoesOn(c))
  /\ WF_recapVars(job = "recap" /\ RecapHourPasses)
  /\ WF_recapVars(job = "recap" /\ StartRecap)
  /\ \A s \in Senders : WF_recapVars(job = "recap" /\ Send(s))

Spec == Init /\ [][Next]_jobVars /\ Fairness
-----------------------------------------------------------------------------
(* Properties *)

\* What leaves the host is scrubbed and whole, and a day is done when it has left.
ExportsAreSound == ExportTypeOK /\ UploadsAreScrubbed /\ DoneWasUploaded

\* One training at a time, one in a week, and the stored week has one.
RetrainsAreSound == RetrainTypeOK /\ OneRetrainAtATime /\ RetrainedOncePerWeek /\ RecordedWasRun

\* A stored week has its recap, and only one.
RecapsAreSound == RecapTypeOK /\ SentIsComplete /\ RecapOncePerWeek

\* Failed uploads, launches and posts, hangs, crashes and manual calls notwithstanding, the
\* job of the last day or week comes to be recorded as done and stays so.
JobGetsDone ==
  /\ job = "export" => LastDayExported
  /\ job = "retrain" => LastWeekRetrained
  /\ job = "recap" => LastWeekSent
=============================================================================
