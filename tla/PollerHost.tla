------------------------------ MODULE PollerHost ------------------------------
(***************************************************************************)
(* The processes that run the poller, and who starts and ends them.        *)
(*                                                                         *)
(* On the VPS (site = "vps") systemd runs one poller as a unit with        *)
(* Restart=always.  deploy/deploy_on_vps.sh pulls commits, restarts the    *)
(* dashboard, which migrates the database, and either restarts the poller  *)
(* or leaves a flag that the poller consumes between two cycles            *)
(* (poller/deploy_restart.py).  The admin page calls systemctl.            *)
(*                                                                         *)
(* On a development machine (site = "dev") the dashboard kills every poller *)
(* it can list and runs one of its own (PollerManager of admin_service.py), *)
(* with several admin requests at a time.                                  *)
(*                                                                         *)
(* Commits are numbered in the order of the branch.  Every process imports *)
(* its code when it starts.                                                *)
(***************************************************************************)
EXTENDS Integers, FiniteSets

CONSTANTS
  Sites,               \* the kinds of host: a subset of {"vps", "dev"}
  Pollers,             \* process slots; UnitPoller is the one of the systemd unit
  UnitPoller,
  Admins,              \* admin requests that can be under way together
  MaxCommit, MaxDeploys, MaxCommands, MaxHandStarts, MaxFaults \* bounds of the model

ASSUME HostAssumption ==
  /\ Sites \subseteq {"vps", "dev"}
  /\ UnitPoller \in Pollers /\ IsFiniteSet(Pollers)
  /\ 0 \notin Pollers
  /\ MaxCommit \in Nat \ {0}                   \* there is a commit to begin with
  /\ {MaxDeploys, MaxCommands, MaxHandStarts, MaxFaults} \subseteq Nat

VARIABLES
  site,
  poller,    \* the poller processes
  head,      \* the commit checked out
  schemaOf,  \* storage schema that each commit's code writes
  dbSchema,  \* schema of the database
  flag,      \* commit in the restart flag, 0 when there is no flag
  deploy,    \* the deploy script's run
  unit,      \* the systemd unit of the poller
  handle,    \* PollerManager._proc, 0 for None
  admin,     \* admin requests on a development machine
  spent,     \* what has been used up of each bound
  history    \* what the properties need of the past

vars == <<site, poller, head, schemaOf, dbSchema, flag, deploy, unit, handle, admin,
          spent, history>>
hostVars == <<site, head, schemaOf, dbSchema, flag, deploy, unit>>
devVars == <<handle, admin>>

Commits == 0 .. MaxCommit
Greater(a, b) == IF a > b THEN a ELSE b
Spend(what) == spent' = [spent EXCEPT ![what] = @ + 1]

RunningPlaces == {"boot", "clearing", "cycle", "unlinking"}
Running == {p \in Pollers : poller[p].at \in RunningPlaces}
\* Processes that run and have been sent no signal.
Steady == {p \in Running : ~poller[p].signalled}

NoProcess == [at |-> "none", owner |-> "none", code |-> 0, signalled |-> FALSE]
NewProcess(owner) == [at |-> "boot", owner |-> owner, code |-> head, signalled |-> FALSE]
NoDeploy == [step |-> "idle", prev |-> 0, forced |-> FALSE]

Init ==
  /\ site \in Sites
  /\ poller = [p \in Pollers |->
       IF site = "vps" /\ p = UnitPoller
         THEN [at |-> "cycle", owner |-> "systemd", code |-> 1, signalled |-> FALSE]
         ELSE NoProcess]
  /\ head = 1
  /\ schemaOf = [c \in Commits |-> 0]
  /\ dbSchema = 0
  /\ flag = 0
  /\ deploy = NoDeploy
  /\ unit = IF site = "vps" THEN "active" ELSE "none"
  /\ handle = 0
  /\ admin = [a \in Admins |-> [step |-> "idle", kind |-> "none"]]
  /\ spent = [deploys |-> 0, commands |-> 0, handStarts |-> 0, faults |-> 0]
  /\ history = [lost |-> FALSE, aborted |-> FALSE, writes |-> 0, exits |-> 0,
                wanted |-> FALSE, strays |-> {}]

-----------------------------------------------------------------------------
(* deploy/deploy_on_vps.sh *)

OnVps == site = "vps"
InDeploy(step) == OnVps /\ deploy.step = step

\* Mutant: PREV_HEAD is asked for after the pull.
HeadAfterPull(new) == new

\* PREV_HEAD: the commit that was checked out before the pull.
PrevHead(new) == head

\* git pull: nothing new, or the next commit, which may change storage/.
Pull ==
  /\ InDeploy("idle") /\ spent.deploys < MaxDeploys
  /\ Spend("deploys")
  /\ \E new \in {head, head + 1} \cap Commits, bump \in {0, 1}, f \in BOOLEAN :
       /\ head' = new
       /\ schemaOf' = IF new = head THEN schemaOf
                      ELSE [schemaOf EXCEPT ![new] = schemaOf[head] + bump]
       /\ deploy' = [step |-> "pulled", prev |-> PrevHead(new), forced |-> f]
  /\ UNCHANGED <<site, poller, dbSchema, flag, unit, devVars, history>>

\* A command of the script fails, or a later push cancels the workflow.
Abort ==
  /\ OnVps /\ deploy.step # "idle"
  /\ deploy' = NoDeploy
  /\ history' = [history EXCEPT !.aborted = @ \/ deploy.step \in {"pulled", "migrated"}]
  /\ UNCHANGED <<site, poller, head, schemaOf, dbSchema, flag, unit, devVars, spent>>

Migrated(code) == dbSchema' = Greater(dbSchema, schemaOf[code])

\* The dashboard stops and starts on the pulled code; its storage runs the migrations.
RestartDashboard ==
  /\ InDeploy("pulled")
  /\ Migrated(head)
  /\ deploy' = [deploy EXCEPT !.step = "migrated"]
  /\ UNCHANGED <<site, poller, head, schemaOf, flag, unit, devVars, spent, history>>

RestartReason ==
  deploy.forced \/ unit # "active" \/ schemaOf[deploy.prev] # schemaOf[head]

Halted(p) == [poller EXCEPT ![p] = NoProcess]

RestartNow ==
  /\ InDeploy("migrated") /\ RestartReason
  /\ flag' = 0
  /\ unit' = "stopped"
  /\ poller' = Halted(UnitPoller)
  /\ deploy' = [deploy EXCEPT !.step = "stopped"]
  /\ UNCHANGED <<site, head, schemaOf, dbSchema, devVars, spent, history>>

StartUnit ==
  /\ InDeploy("stopped")
  /\ unit' = "active"
  /\ poller' = IF unit = "active" THEN poller
               ELSE [poller EXCEPT ![UnitPoller] = NewProcess("systemd")]
  /\ deploy' = NoDeploy
  /\ UNCHANGED <<site, head, schemaOf, dbSchema, flag, devVars, spent, history>>

Defer ==
  /\ InDeploy("migrated") /\ ~RestartReason
  /\ deploy' = [deploy EXCEPT !.step = "deferred"]
  /\ UNCHANGED <<site, poller, head, schemaOf, dbSchema, flag, unit, devVars, spent, history>>

WriteFlag ==
  /\ InDeploy("deferred")
  /\ flag' = head
  /\ deploy' = NoDeploy
  /\ history' = [history EXCEPT !.writes = @ + 1]
  /\ UNCHANGED <<site, poller, head, schemaOf, dbSchema, unit, devVars, spent>>

-----------------------------------------------------------------------------
(* A poller: its start, consume_restart_request, and how it ends *)

MoveTo(p, place) == poller' = [poller EXCEPT ![p].at = place]

\* main opens the storage, which migrates the database, and looks at the flag: with a
\* flag it goes on to delete it as stale.
Boot(p) ==
  /\ poller[p].at = "boot"
  /\ Migrated(poller[p].code)
  /\ MoveTo(p, IF flag # 0 THEN "clearing" ELSE "cycle")
  /\ UNCHANGED <<site, head, schemaOf, flag, deploy, unit, devVars, spent, history>>

\* A history of flags deleted by a start whose code is older than the flag's commit.
ClearFlag(p) ==
  /\ poller[p].at = "clearing"
  /\ flag' = 0
  /\ MoveTo(p, "cycle")
  /\ history' = [history EXCEPT !.lost = @ \/ flag > poller[p].code]
  /\ UNCHANGED <<site, head, schemaOf, dbSchema, deploy, unit, devVars, spent>>

\* A cycle ends and there is a flag.
SeeFlag(p) ==
  /\ poller[p].at = "cycle" /\ flag # 0
  /\ MoveTo(p, "unlinking")
  /\ UNCHANGED <<hostVars, devVars, spent, history>>

\* Systemd waits RestartSec before it starts a unit again whose process ended.
UnitAfterEndOf(p) == IF poller[p].owner = "systemd" THEN "waiting" ELSE unit

\* A dead process stays a zombie while PollerManager has its handle.
Ended(p) ==
  IF p = handle THEN [poller EXCEPT ![p].at = "dead"] ELSE Halted(p)

\* Mutant: the flag is deleted and the loop goes on.
DeleteFlagAndGoOn(p) ==
  /\ poller[p].at = "unlinking"
  /\ flag' = 0
  /\ MoveTo(p, "cycle")
  /\ UNCHANGED <<site, head, schemaOf, dbSchema, deploy, unit, devVars, spent, history>>

\* The flag is deleted and main leaves its loop.
ExitForDeploy(p) ==
  /\ poller[p].at = "unlinking"
  /\ flag' = 0
  /\ poller' = Ended(p)
  /\ unit' = UnitAfterEndOf(p)
  /\ history' = [history EXCEPT !.exits = @ + 1]
  /\ UNCHANGED <<site, head, schemaOf, dbSchema, deploy, devVars, spent>>

\* Mutant: the request is reported although its flag stays.
UnlinkFailsAndExits(p) ==
  /\ poller[p].at \in {"clearing", "unlinking"} /\ spent.faults < MaxFaults
  /\ Spend("faults")
  /\ poller' = Ended(p)
  /\ unit' = UnitAfterEndOf(p)
  /\ history' = [history EXCEPT !.exits = @ + 1]
  /\ UNCHANGED <<site, head, schemaOf, dbSchema, flag, deploy, devVars>>

\* The flag cannot be deleted: no request is reported.
UnlinkFails(p) ==
  /\ poller[p].at \in {"clearing", "unlinking"} /\ spent.faults < MaxFaults
  /\ Spend("faults")
  /\ MoveTo(p, "cycle")
  /\ UNCHANGED <<hostVars, devVars, history>>

\* A poller dies of its own, or of a signal it was sent.
Crash(p) ==
  /\ p \in Running /\ spent.faults < MaxFaults
  /\ Spend("faults")
  /\ poller' = Ended(p)
  /\ unit' = UnitAfterEndOf(p)
  /\ history' = [history EXCEPT !.wanted = @ /\ p # handle]
  /\ UNCHANGED <<site, head, schemaOf, dbSchema, flag, deploy, devVars>>

Die(p) ==
  /\ p \in Running \ Steady
  /\ poller' = Ended(p)
  /\ UNCHANGED <<hostVars, devVars, spent, history>>

SystemdRestart ==
  /\ unit = "waiting"
  /\ unit' = "active"
  /\ poller' = [poller EXCEPT ![UnitPoller] = NewProcess("systemd")]
  /\ UNCHANGED <<site, head, schemaOf, dbSchema, flag, deploy, devVars, spent, history>>

\* restart_poller and stop_poller with the strategy "systemd".
SystemctlRestart ==
  /\ OnVps /\ spent.commands < MaxCommands
  /\ Spend("commands")
  /\ unit' = "active"
  /\ poller' = [poller EXCEPT ![UnitPoller] = NewProcess("systemd")]
  /\ UNCHANGED <<site, head, schemaOf, dbSchema, flag, deploy, devVars, history>>

SystemctlStop ==
  /\ OnVps /\ spent.commands < MaxCommands
  /\ Spend("commands")
  /\ unit' = "stopped"
  /\ poller' = Halted(UnitPoller)
  /\ UNCHANGED <<site, head, schemaOf, dbSchema, flag, deploy, devVars, history>>

-----------------------------------------------------------------------------
(* restart_poller and stop_poller without systemd: PollerManager *)

InAdmin(a, step) == admin[a].step = step
AdminMoves(a, step) == admin' = [admin EXCEPT ![a].step = step]
AdminEnds(a) == admin' = [admin EXCEPT ![a] = [step |-> "idle", kind |-> "none"]]

Request(a) ==
  /\ site = "dev" /\ InAdmin(a, "idle") /\ spent.commands < MaxCommands
  /\ Spend("commands")
  /\ \E kind \in {"restart", "stop"} : admin' = [admin EXCEPT ![a] = [step |-> "kill", kind |-> kind]]
  /\ UNCHANGED <<hostVars, poller, handle, history>>

\* Somebody starts a poller in a terminal.
HandStart ==
  /\ site = "dev" /\ spent.handStarts < MaxHandStarts
  /\ Spend("handStarts")
  /\ \E p \in Pollers :
       /\ poller[p] = NoProcess
       /\ poller' = [poller EXCEPT ![p] = NewProcess("hand")]
       /\ history' = [history EXCEPT !.strays = @ \cup {p}]
  /\ UNCHANGED <<hostVars, devVars>>

\* _kill_external_pollers signals every poller, the dashboard's own one included; a
\* signal can fail, and the process it spares is a stray.
KillAll(a) ==
  /\ InAdmin(a, "kill")
  /\ \E spared \in {{}} \cup {{p} : p \in Steady} :
       /\ spent.faults + Cardinality(spared) <= MaxFaults
       /\ spent' = [spent EXCEPT !.faults = @ + Cardinality(spared)]
       /\ poller' = [p \in Pollers |-> IF p \in Running \ spared
                                         THEN [poller[p] EXCEPT !.signalled = TRUE] ELSE poller[p]]
       /\ history' = [history EXCEPT !.strays = spared]
  /\ AdminMoves(a, "stop")
  /\ UNCHANGED <<hostVars, handle>>

HandleRuns == handle # 0 /\ handle \in Running

\* What follows PollerManager.stop: a restart goes on unless the stop failed.
AfterStop(a, ok) ==
  IF admin[a].kind = "restart" /\ ok THEN AdminMoves(a, "start") ELSE AdminEnds(a)

\* PollerManager.stop under its lock: terminate, wait, and kill after a timeout.  The
\* process is gone, or (ok = FALSE) not even killed in time.
ManagerStop(a) ==
  /\ InAdmin(a, "stop")
  /\ \E ok \in BOOLEAN :
       /\ ok \/ (HandleRuns /\ spent.faults < MaxFaults)
       /\ spent' = IF ok THEN spent ELSE [spent EXCEPT !.faults = @ + 1]
       /\ poller' = IF handle = 0 THEN poller
                    ELSE IF ok THEN Halted(handle)
                    ELSE [poller EXCEPT ![handle].signalled = TRUE]
       /\ AfterStop(a, ok)
  /\ handle' = 0
  /\ history' = [history EXCEPT !.wanted = FALSE]
  /\ UNCHANGED hostVars

\* Mutant: start does not look whether its process still runs.
NeverStarted == FALSE

\* _ensure_started_unlocked returns the process it has if that one runs.
AlreadyStarted == HandleRuns

\* The zombie of the handle goes with the handle.
Reaped == [p \in Pollers |-> IF poller[p].at = "dead" THEN NoProcess ELSE poller[p]]

\* PollerManager.start under its lock.
ManagerStart(a) ==
  /\ InAdmin(a, "start")
  /\ IF AlreadyStarted
       THEN UNCHANGED <<poller, handle>>
       ELSE \E p \in Pollers :
              /\ Reaped[p] = NoProcess
              /\ handle' = p
              /\ poller' = [Reaped EXCEPT ![p] = NewProcess("dashboard")]
  /\ AdminEnds(a)
  /\ history' = [history EXCEPT !.wanted = TRUE]
  /\ UNCHANGED <<hostVars, spent>>

-----------------------------------------------------------------------------
PollerStep(p) ==
  \/ Boot(p) \/ ClearFlag(p) \/ SeeFlag(p) \/ ExitForDeploy(p) \/ UnlinkFails(p) \/ Die(p)

DeployStep ==
  \/ Pull \/ Abort \/ RestartDashboard \/ RestartNow \/ StartUnit \/ Defer \/ WriteFlag

AdminStep(a) == KillAll(a) \/ ManagerStop(a) \/ ManagerStart(a)

Next ==
  \/ DeployStep
  \/ SystemdRestart \/ SystemctlRestart \/ SystemctlStop \/ HandStart
  \/ \E p \in Pollers : PollerStep(p) \/ Crash(p)
  \/ \E a \in Admins : Request(a) \/ AdminStep(a)

Spec == Init /\ [][Next]_vars

\* Cycles end and a running poller goes on; systemd starts an ended unit again; a
\* signalled process ends; the requests of the admin page are served.  A deploy may
\* stop anywhere, and nothing has to crash, fail or be asked for.
FairSpec ==
  /\ Spec
  /\ \A p \in Pollers : WF_vars(PollerStep(p))
  /\ \A a \in Admins : WF_vars(AdminStep(a))
  /\ WF_vars(SystemdRestart)
-----------------------------------------------------------------------------
(* Properties *)

Processes ==
  [at : RunningPlaces \cup {"none", "dead"}, owner : {"none", "systemd", "dashboard", "hand"},
   code : Commits, signalled : BOOLEAN]

\* TYPES, and that only the slot of the handle holds a zombie.
TypeOK ==
  /\ site \in {"vps", "dev"}
  /\ poller \in [Pollers -> Processes]
  /\ \A p \in Pollers : poller[p].at = "dead" => p = handle
  /\ head \in Commits /\ flag \in Commits
  /\ schemaOf \in [Commits -> Nat] /\ dbSchema \in Nat
  /\ deploy \in [step : {"idle", "pulled", "migrated", "stopped", "deferred"}, prev : Commits,
                 forced : BOOLEAN]
  /\ unit \in {"none", "active", "waiting", "stopped"}
  /\ handle \in Pollers \cup {0}
  /\ admin \in [Admins -> [step : {"idle", "kill", "stop", "start"},
                           kind : {"none", "restart", "stop"}]]
  /\ history.strays \subseteq Pollers

\* The deploy script: "the old poller code shouldn't keep writing to the DB" after a
\* migration.  A poller whose code is behind the schema of the database runs only
\* until the deploy that migrated it decides, unless a deploy was cut off after its
\* pull: the next deploy compares with the commit that one had pulled.
OldCodeOffNewSchema ==
  \A p \in Running :
    \/ schemaOf[poller[p].code] >= dbSchema
    \/ deploy.step = "migrated"
    \/ history.aborted

\* consume_restart_request: one flag, one exit.  A flag that cannot be deleted never
\* makes the poller exit cycle after cycle.
OneExitPerDeploy == history.exits <= history.writes

\* PollerManager never loses a process it started and did not try to end.
NoForgottenPoller ==
  \A p \in Steady : poller[p].owner = "dashboard" => p = handle

\* _kill_external_pollers: "hitting restart should not create a second poller".  When
\* no admin request is under way and the signalled processes are gone, at most one
\* poller runs besides those started by hand since, or spared by a failed signal;
\* the last restart that went through left one that runs.
NoRequest == \A a \in Admins : InAdmin(a, "idle")
RestartLeavesOne ==
  (site = "dev" /\ NoRequest) =>
    /\ Cardinality(Steady \ history.strays) <= 1
    /\ history.wanted => handle \in Steady

\* What the admin pages may rely on: the variables have their types, the manager
\* loses no poller, and overlapping requests leave one.
PollersAreManaged == TypeOK /\ NoForgottenPoller /\ RestartLeavesOne

\* A deploy that left the flag is honoured: the unit comes to run code that is at
\* least as new, unless the admin stops it, or a start deleted the flag as stale that
\* was younger than its own code.
DeployHonoured ==
  \A c \in Commits \ {0} :
    (flag = c) ~> \/ poller[UnitPoller].code >= c
                  \/ unit = "stopped"
                  \/ history.lost
=============================================================================
