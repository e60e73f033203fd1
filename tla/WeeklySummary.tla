---------------------------- MODULE WeeklySummary ----------------------------
(***************************************************************************)
(* The weekly recap posted to Discord (poller/weekly_summary.py): the main  *)
(* thread of the poller posts it once a week after the schedule, and an     *)
(* operator may post it at any time from a process of his own (a function   *)
(* is there for it, and nothing in the repository calls it).  A recap is a  *)
(* starter message, which opens a forum thread, charts and an embed; the    *)
(* week is stored once all of them are posted.                              *)
(*                                                                         *)
(* Time is a clock with two slots a week: an even one before the scheduled  *)
(* hour and an odd one after it.                                            *)
(***************************************************************************)
EXTENDS Integers, Sequences, FiniteSets

CONSTANTS
  RecapWeeks,                 \* the weeks of the model are 0 .. RecapWeeks - 1
  Charts,                     \* how many charts were rendered
  MaxRecapFaults,             \* refused posts, and poller crashes
  MaxManualRecaps

ASSUME RecapAssumption ==
  /\ RecapWeeks \in Nat \ {0}
  /\ {Charts, MaxRecapFaults, MaxManualRecaps} \subseteq Nat

VARIABLES
  recapHour,   \* the clock
  sentWeek,    \* config key weekly_summary: last_sent_week_key
  recap,       \* a call of each sender, with the week it is for
  threads,     \* the forum threads on Discord: who posted it, its week and its messages
  recapSpent,
  slipped      \* history: a complete recap was not stored, or stored over a later week's

recapVars == <<recapHour, sentWeek, recap, threads, recapSpent, slipped>>

Senders == {"poller", "operator"}
RecapWeek == recapHour \div 2
RecapIdle == [at |-> "idle", week |-> 0, thread |-> 0]
Complete == Charts + 2

RecapInit ==
  /\ recapHour = 0 /\ sentWeek = -1
  /\ recap = [s \in Senders |-> RecapIdle]
  /\ threads = <<>>
  /\ recapSpent = [faults |-> 0, manual |-> 0]
  /\ slipped = FALSE

RecapHourPasses ==
  /\ recapHour < 2 * RecapWeeks - 1
  /\ recapHour' = recapHour + 1
  /\ UNCHANGED <<sentWeek, recap, threads, recapSpent, slipped>>

-----------------------------------------------------------------------------
Starts(s) == recap' = [recap EXCEPT ![s] = [RecapIdle EXCEPT !.at = "post", !.week = RecapWeek]]

IsDue == recapHour % 2 = 1 /\ sentWeek # RecapWeek

\* maybe_send_weekly_summary_to_discord
StartRecap ==
  /\ recap["poller"].at = "idle" /\ IsDue
  /\ Starts("poller")
  /\ UNCHANGED <<recapHour, sentWeek, threads, recapSpent, slipped>>

\* send_weekly_summary_to_discord_now
StartManualRecap ==
  /\ recap["operator"].at = "idle" /\ recapSpent.manual < MaxManualRecaps
  /\ Starts("operator")
  /\ recapSpent' = [recapSpent EXCEPT !.manual = @ + 1]
  /\ UNCHANGED <<recapHour, sentWeek, threads, slipped>>

\* _send_summary_for_period: the starter opens a thread ...
PostStarter(s) ==
  /\ recap[s].at = "post"
  /\ threads' = Append(threads, [by |-> s, week |-> recap[s].week, messages |-> 1])
  /\ recap' = [recap EXCEPT ![s].at = "fill", ![s].thread = Len(threads')]
  /\ UNCHANGED <<recapHour, sentWeek, recapSpent, slipped>>

\* Whether the last message of the recap is posted.
AllPosted(s) == recap[s].at = "fill" /\ threads[recap[s].thread].messages = Complete

\* ... which the charts and the embed go to.
PostToThread(s) ==
  /\ recap[s].at = "fill" /\ ~AllPosted(s)
  /\ threads' = [threads EXCEPT ![recap[s].thread].messages = @ + 1]
  /\ UNCHANGED <<recapHour, sentWeek, recap, recapSpent, slipped>>

\* Mutant: a failure clears the stored state.
FailureClears(s) ==
  /\ recap[s].at # "idle" /\ ~AllPosted(s) /\ recapSpent.faults < MaxRecapFaults
  /\ recapSpent' = [recapSpent EXCEPT !.faults = @ + 1]
  /\ recap' = [recap EXCEPT ![s] = RecapIdle]
  /\ sentWeek' = -1
  /\ UNCHANGED <<recapHour, threads, slipped>>

\* A post fails: what is posted stays, nothing is stored.
PostFails(s) ==
  /\ recap[s].at # "idle" /\ ~AllPosted(s) /\ recapSpent.faults < MaxRecapFaults
  /\ recapSpent' = [recapSpent EXCEPT !.faults = @ + 1]
  /\ recap' = [recap EXCEPT ![s] = RecapIdle]
  /\ UNCHANGED <<recapHour, sentWeek, threads, slipped>>

StoreSent(s) ==
  /\ AllPosted(s)
  /\ sentWeek' = recap[s].week
  /\ slipped' = (slipped \/ sentWeek > sentWeek')
  /\ recap' = [recap EXCEPT ![s] = RecapIdle]
  /\ UNCHANGED <<recapHour, threads, recapSpent>>

\* The poller ends anywhere in the call; what is posted stays on Discord.
RecapPollerDies ==
  /\ recap["poller"].at # "idle" /\ recapSpent.faults < MaxRecapFaults
  /\ recapSpent' = [recapSpent EXCEPT !.faults = @ + 1]
  /\ recap' = [recap EXCEPT !["poller"] = RecapIdle]
  /\ slipped' = (slipped \/ AllPosted("poller"))
  /\ UNCHANGED <<recapHour, sentWeek, threads>>

Send(s) == PostStarter(s) \/ PostToThread(s) \/ PostFails(s) \/ StoreSent(s)

RecapNext ==
  \/ RecapHourPasses \/ StartRecap \/ StartManualRecap \/ RecapPollerDies
  \/ \E s \in Senders : Send(s)

RecapSpec == RecapInit /\ [][RecapNext]_recapVars
-----------------------------------------------------------------------------
(* Properties *)

RecapTypeOK ==
  /\ recapHour \in 0 .. (2 * RecapWeeks - 1)
  /\ sentWeek \in -1 .. (RecapWeeks - 1)
  /\ \A s \in Senders : recap[s].thread \in 0 .. Len(threads)
  /\ \A i \in DOMAIN threads : threads[i].messages \in 1 .. Complete

\* A week that is stored as sent has a complete recap on Discord.
SentIsComplete ==
  sentWeek # -1 =>
    \E i \in DOMAIN threads : threads[i].week = sentWeek /\ threads[i].messages = Complete

\* "Post a weekly recap once per ISO week": the poller completes one recap of a week, even
\* when posts fail or it dies before, unless it dies between the last post and the store, or
\* a manual recap begun in an earlier week stores that week over this one.
RecapOncePerWeek ==
  ~slipped =>
    Cardinality({i \in DOMAIN threads : threads[i].by = "poller" /\ threads[i].week = RecapWeek
                                         /\ threads[i].messages = Complete}) <= 1

\* Whatever fails on the way, the last week comes to be sent.
LastWeekSent == <>[](sentWeek = RecapWeeks - 1)
=============================================================================
