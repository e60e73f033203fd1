------------------------------ MODULE OpsAlerts ------------------------------
(***************************************************************************)
(* The two that report trouble to the ops channel.  The poller looks at the *)
(* age of the last stored poll and at the database before a cycle, and at   *)
(* how the cycle ends (maybe_run_ops_health_checks, main); it remembers in  *)
(* memory what it told.  The probe (server/ops_health_probe.py) is run by   *)
(* cron, asks the dashboard, and remembers in a file.  Both measure their   *)
(* cooldown with time.monotonic, the time since the host was started.       *)
(***************************************************************************)
EXTENDS Integers, FiniteSets

CONSTANTS
  ProbeKeys,        \* "config-down", "prices-slow" and the other keys of the probe
  Endings,          \* "api-http-...", "api-request-exception", ...: how a cycle fails
  Cooldown,         \* alert_cooldown_seconds and COOLDOWN_SECONDS, in ticks
  StalePoll,        \* stale_poll_seconds, in ticks
  DbCheckEvery,     \* db_quick_check_every_cycles
  MaxUptime, MaxOpsFaults   \* bounds of the model

ASSUME OpsAssumption ==
  /\ IsFiniteSet(ProbeKeys \cup Endings) /\ ProbeKeys \cap Endings = {}
  /\ {"stale-polling", "db-integrity"} \cap (ProbeKeys \cup Endings) = {}
  /\ {Cooldown, StalePoll, DbCheckEvery, MaxUptime} \subseteq Nat \ {0}
  /\ MaxOpsFaults \in Nat

PollerKeys == Endings \cup {"stale-polling", "db-integrity"}

VARIABLES
  uptime,      \* time.monotonic, at least 1
  idle,        \* ticks since the last stored poll, up to StalePoll + 1
  broken,      \* the database fails its quick check
  opsCycle,    \* the cycle's number modulo DbCheckEvery
  told,        \* ops_alert_last_sent: per key the uptime of the alert, or 0
  state,       \* the probe's file: the same
  met,         \* history: what the last step of either found wrong
  silent,      \* history, per key: ticks since an alert arrived, up to Cooldown
  missed,      \* history, per key: ticks since an alert was lost, up to Cooldown
  forgotten,   \* history: keys whose last alert is remembered nowhere
  bygone,      \* history: keys the file remembers from before the host was started
  opsFaults

opsVars == <<uptime, idle, broken, opsCycle, told, state, met, silent, missed, forgotten, bygone,
             opsFaults>>

Keys == ProbeKeys \cup PollerKeys

OpsInit ==
  /\ uptime = 1 /\ idle = 0 /\ broken = FALSE /\ opsCycle = 0
  /\ told = [k \in PollerKeys |-> 0] /\ state = [k \in ProbeKeys |-> 0]
  /\ met = {} /\ silent = [k \in Keys |-> Cooldown] /\ missed = [k \in Keys |-> Cooldown]
  /\ forgotten = {} /\ bygone = {} /\ opsFaults = 0

Older(age, limit) == IF age < limit THEN age + 1 ELSE limit

TimePasses ==
  /\ uptime < MaxUptime
  /\ uptime' = uptime + 1
  /\ idle' = Older(idle, StalePoll + 1)
  /\ met' = {}
  /\ silent' = [k \in Keys |-> Older(silent[k], Cooldown)]
  /\ missed' = [k \in Keys |-> Older(missed[k], Cooldown)]
  /\ UNCHANGED <<broken, opsCycle, told, state, forgotten, bygone, opsFaults>>

DatabaseBreaks ==
  /\ ~broken /\ opsFaults < MaxOpsFaults
  /\ broken' = TRUE /\ opsFaults' = opsFaults + 1
  /\ UNCHANGED <<uptime, idle, opsCycle, told, state, met, silent, missed, forgotten, bygone>>

\* Keys that were not told of yet, or not for a cooldown.
Due(last, keys) == {k \in keys : last[k] = 0 \/ uptime - last[k] >= Cooldown}

Marked(last, keys) == [k \in DOMAIN last |-> IF k \in keys THEN uptime ELSE last[k]]

\* Those that are posted arrive, but for the lost ones.
Posted(due, lost) ==
  /\ Cardinality(lost) + opsFaults <= MaxOpsFaults
  /\ silent' = [k \in Keys |-> IF k \in due \ lost THEN 0 ELSE silent[k]]
  /\ missed' = [k \in Keys |-> IF k \in lost THEN 0 ELSE missed[k]]

-----------------------------------------------------------------------------
(***************************************************************************)
(* A cycle of the poller: the checks, then run_cycle, which stores polls or *)
(* fails one way.  notify_ops_alert_once remembers what was sent.           *)
(***************************************************************************)
Remembers(due, lost) == Marked(told, due \ lost)

HealthChecks ==
  {k \in {"stale-polling"} : idle > StalePoll} \cup
  {k \in {"db-integrity"} : broken /\ opsCycle = 0}

PollerCycles ==
  \E failed \in {e \in SUBSET Endings : Cardinality(e) <= 1} :
    LET due == Due(told, HealthChecks \cup failed)
    IN \E lost \in SUBSET due :
         /\ Posted(due, lost)
         /\ told' = Remembers(due, lost)
         /\ met' = HealthChecks \cup failed
         /\ idle' = IF failed = {} THEN 0 ELSE idle
         /\ opsCycle' = (opsCycle + 1) % DbCheckEvery
         /\ forgotten' = forgotten \ (due \ lost)
         /\ opsFaults' = opsFaults + Cardinality(lost)
         /\ UNCHANGED <<uptime, broken, state, bygone>>

OpsPollerStarts ==
  /\ opsFaults < MaxOpsFaults /\ opsFaults' = opsFaults + 1
  /\ told' = [k \in PollerKeys |-> 0]
  /\ forgotten' = forgotten \cup PollerKeys
  /\ UNCHANGED <<uptime, idle, broken, opsCycle, state, met, silent, missed, bygone>>

-----------------------------------------------------------------------------
(***************************************************************************)
(* A run of the probe.  _should_alert marks a key before the alert is sent, *)
(* and the file is written at the end, unless the run is killed before.     *)
(***************************************************************************)
Saved(due, saved) == IF saved THEN Marked(state, due) ELSE state

ProbeRuns ==
  \E issues \in SUBSET ProbeKeys, saved \in BOOLEAN :
    LET due == Due(state, issues)
        killed == IF saved THEN 0 ELSE 1
    IN \E lost \in SUBSET due :
         /\ Cardinality(lost) + killed + opsFaults <= MaxOpsFaults
         /\ Posted(due, lost)
         /\ state' = Saved(due, saved)
         /\ met' = issues
         /\ forgotten' = IF saved THEN forgotten \ due ELSE forgotten \cup due
         /\ bygone' = IF saved THEN bygone \ due ELSE bygone
         /\ opsFaults' = opsFaults + Cardinality(lost) + killed
         /\ UNCHANGED <<uptime, idle, broken, opsCycle, told>>

\* The host is started again, and the poller with it.
HostStarts ==
  /\ opsFaults < MaxOpsFaults /\ opsFaults' = opsFaults + 1
  /\ uptime' = 1
  /\ told' = [k \in PollerKeys |-> 0]
  /\ forgotten' = forgotten \cup PollerKeys
  /\ bygone' = {k \in ProbeKeys : state[k] # 0}
  /\ met' = {}
  /\ UNCHANGED <<idle, broken, opsCycle, state, silent, missed>>

OpsNext ==
  \/ TimePasses \/ DatabaseBreaks
  \/ PollerCycles \/ OpsPollerStarts
  \/ ProbeRuns \/ HostStarts

-----------------------------------------------------------------------------
\* Marks lie in the past, the file's unless the host was started since.
OpsTypeOK ==
  /\ uptime \in 1 .. MaxUptime /\ idle \in 0 .. StalePoll + 1
  /\ broken \in BOOLEAN /\ opsCycle \in 0 .. DbCheckEvery - 1
  /\ told \in [PollerKeys -> 0 .. uptime]
  /\ state \in [ProbeKeys -> 0 .. MaxUptime]
  /\ \A k \in ProbeKeys \ bygone : state[k] <= uptime
  /\ met \in SUBSET Keys /\ {silent, missed} \subseteq [Keys -> 0 .. Cooldown]
  /\ forgotten \in SUBSET Keys /\ bygone \in SUBSET ProbeKeys
  /\ opsFaults \in 0 .. MaxOpsFaults

\* What is found wrong has been told within the cooldown, by the poller even
\* when an alert before was lost; the probe waits a cooldown after a lost one.
\* Excepted is what the probe's file remembers from before the host's start:
\* it is compared with a clock that began anew.
TroubleIsTold ==
  \A k \in met :
    \/ silent[k] < Cooldown
    \/ missed[k] < (IF k \in ProbeKeys THEN Cooldown ELSE 1)
    \/ k \in bygone

\* A key is told of once per cooldown, across the runs of the probe and through
\* the cycles of one poller; a poller's start and a killed run forget.
OncePerCooldown ==
  [][\A k \in Keys : silent'[k] = 0 /\ silent[k] # 0 =>
       silent[k] >= Cooldown \/ k \in forgotten]_opsVars
=============================================================================
