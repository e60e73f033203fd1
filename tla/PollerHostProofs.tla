-------------------------- MODULE PollerHostProofs --------------------------
(***************************************************************************)
(* Proofs about PollerHost, for every number of processes, admin requests, *)
(* commits and faults: THEOREMS OldCodeSafe, OneExitSafe, ManagedSafe.     *)
(*                                                                         *)
(* The two kinds of host share the operators of a process and nothing      *)
(* else, so the invariant says for each what the other one does: on the    *)
(* VPS only the unit's slot is used, on a development machine there is no  *)
(* flag, no deploy and no new commit.                                      *)
(***************************************************************************)
EXTENDS PollerHost, FiniteSetTheorems, TLAPS

Histories ==
  [lost : BOOLEAN, aborted : BOOLEAN, writes : Nat, exits : Nat, wanted : BOOLEAN,
   strays : SUBSET Pollers]

\* Only the slot of the handle holds a zombie.
DeadIsHandles == \A p \in Pollers : poller[p].at = "dead" => p = handle

\* TypeOK and the types of the history.
Typed ==
  /\ history \in Histories
  /\ poller \in [Pollers -> Processes] /\ DeadIsHandles
  /\ site \in {"vps", "dev"} /\ head \in Commits /\ flag \in Commits
  /\ schemaOf \in [Commits -> Nat] /\ dbSchema \in Nat
  /\ deploy \in [step : {"idle", "pulled", "migrated", "stopped", "deferred"}, prev : Commits,
                 forced : BOOLEAN]
  /\ unit \in {"none", "active", "waiting", "stopped"}
  /\ handle \in Pollers \cup {0}
  /\ admin \in [Admins -> [step : {"idle", "kill", "stop", "start"},
                           kind : {"none", "restart", "stop"}]]

\* On the VPS no poller but the unit's, and no request to the manager.
OnVpsOnly ==
  site = "vps" =>
    /\ handle = 0 /\ NoRequest
    /\ \A p \in Pollers \ {UnitPoller} : poller[p] = NoProcess
    /\ \A p \in Pollers : poller[p].owner \in {"none", "systemd"}

\* On a development machine no deploy, no flag and no unit.
OnDevOnly ==
  site = "dev" =>
    /\ flag = 0 /\ deploy = NoDeploy /\ unit = "none"
    /\ dbSchema = 0 /\ schemaOf = [c \in Commits |-> 0]
    /\ history.exits = 0
    /\ \A p \in Pollers : /\ poller[p].owner # "systemd"
                          /\ poller[p].at \notin {"clearing", "unlinking"}

\* The commits up to the one checked out write schemas up to its own, and the database
\* has none beyond it.
SchemasGrow ==
  /\ deploy.prev <= head /\ \A p \in Pollers : poller[p].code <= head
  /\ \A c \in Commits : c <= head => schemaOf[c] <= schemaOf[head]
  /\ dbSchema <= schemaOf[head]

\* As long as no deploy was cut off, a poller writes the schema of the commit that was
\* checked out before the pull, and from the deploy's decision on that of the new one.
CodeFits ==
  site = "vps" /\ ~history.aborted =>
    \A p \in Running :
      LET writes == schemaOf[poller[p].code] IN
        /\ deploy.step \in {"idle", "stopped", "deferred"} => writes >= schemaOf[head]
        /\ deploy.step \in {"pulled", "migrated"} => writes >= schemaOf[deploy.prev]
        /\ deploy.step = "pulled" => writes >= dbSchema

\* A flag that is there, or that a poller has seen, was not answered by an exit yet.
FlagIsOwed ==
  /\ history.exits <= history.writes
  /\ (flag # 0 \/ \E p \in Pollers : poller[p].at = "unlinking") => history.exits < history.writes

\* On a development machine every poller that was neither signalled nor started by hand,
\* nor spared, is the manager's; the manager's is signalled only by a request that has
\* yet to stop it.
Stopping == \E a \in Admins : InAdmin(a, "stop")
ManagersOwn ==
  site = "dev" =>
    /\ Steady \ history.strays \subseteq {handle}
    /\ handle \in Running \ Steady => Stopping
    /\ history.wanted /\ ~Stopping => handle \in Steady

Inv ==
  /\ Typed /\ OnVpsOnly /\ OnDevOnly /\ SchemasGrow /\ CodeFits /\ FlagIsOwed
  /\ ManagersOwn /\ NoForgottenPoller

-----------------------------------------------------------------------------
(* Types.                                                                  *)

LEMMA HistoryFields ==
  ASSUME NEW h \in Histories
  PROVE  /\ \A b \in BOOLEAN : /\ [h EXCEPT !.lost = b] \in Histories
                              /\ [h EXCEPT !.aborted = b] \in Histories
                              /\ [h EXCEPT !.wanted = b] \in Histories
         /\ \A S \in SUBSET Pollers : [h EXCEPT !.strays = S] \in Histories
         /\ [h EXCEPT !.writes = @ + 1] \in Histories
         /\ [h EXCEPT !.exits = @ + 1] \in Histories
         /\ h.strays \subseteq Pollers
BY DEF Histories

LEMMA ProcessFields ==
  ASSUME NEW f \in [Pollers -> Processes], NEW p \in Pollers
  PROVE  /\ \A place \in RunningPlaces \cup {"dead"} : [f EXCEPT ![p].at = place] \in [Pollers -> Processes]
         /\ [f EXCEPT ![p].signalled = TRUE] \in [Pollers -> Processes]
         /\ \A q \in Processes : [f EXCEPT ![p] = q] \in [Pollers -> Processes]
BY DEF Processes

LEMMA NewTyped ==
  ASSUME head \in Commits
  PROVE  /\ NoProcess \in Processes
         /\ \A owner \in {"systemd", "dashboard", "hand"} : NewProcess(owner) \in Processes
BY HostAssumption DEF HostAssumption, NoProcess, NewProcess, Processes, Commits, RunningPlaces

LEMMA EndedTyped ==
  ASSUME poller \in [Pollers -> Processes], head \in Commits, NEW p \in Pollers
  PROVE  Halted(p) \in [Pollers -> Processes] /\ Ended(p) \in [Pollers -> Processes]
BY ProcessFields, NewTyped DEF Halted, Ended

LEMMA TypedIsTypeOK == Typed => TypeOK
BY DEF Typed, TypeOK, DeadIsHandles, Histories

LEMMA DeployTyped ==
  ASSUME Typed, DeployStep
  PROVE  Typed'
<1> USE HostAssumption DEF HostAssumption, Typed, devVars
<1>1. CASE Pull
  <2>1. PICK new \in {head, head + 1} \cap Commits, bump \in {0, 1}, f \in BOOLEAN :
          /\ head' = new
          /\ schemaOf' = IF new = head THEN schemaOf
                         ELSE [schemaOf EXCEPT ![new] = schemaOf[head] + bump]
          /\ deploy' = [step |-> "pulled", prev |-> head, forced |-> f]
    BY <1>1 DEF Pull, PrevHead
  <2>2. schemaOf' \in [Commits -> Nat]
    BY <2>1
  <2> QED BY <1>1, <2>1, <2>2 DEF Pull, DeadIsHandles
<1>2. CASE Abort
  <2>1. history' \in Histories
    BY <1>2, HistoryFields DEF Abort, Histories
  <2> QED BY <1>2, <2>1 DEF Abort, NoDeploy, Commits, DeadIsHandles
<1>3. CASE RestartDashboard
  BY <1>3 DEF RestartDashboard, Migrated, Greater, DeadIsHandles
<1>4. CASE RestartNow
  <2>1. poller' \in [Pollers -> Processes]
    BY <1>4, EndedTyped DEF RestartNow
  <2>2. DeadIsHandles'
    BY <1>4 DEF RestartNow, Halted, NoProcess, DeadIsHandles
  <2> QED BY <1>4, <2>1, <2>2 DEF RestartNow, Commits
<1>5. CASE StartUnit
  <2>1. poller' \in [Pollers -> Processes]
    BY <1>5, NewTyped, ProcessFields DEF StartUnit
  <2>2. DeadIsHandles'
    BY <1>5 DEF StartUnit, NewProcess, DeadIsHandles
  <2> QED BY <1>5, <2>1, <2>2 DEF StartUnit, NoDeploy, Commits
<1>6. CASE Defer
  BY <1>6 DEF Defer, DeadIsHandles
<1>7. CASE WriteFlag
  <2>1. history' \in Histories
    BY <1>7, HistoryFields DEF WriteFlag
  <2> QED BY <1>7, <2>1 DEF WriteFlag, NoDeploy, Commits, DeadIsHandles
<1> QED BY <1>1, <1>2, <1>3, <1>4, <1>5, <1>6, <1>7 DEF DeployStep

\* What all steps of a poller have in common.
LEMMA MovesTyped ==
  ASSUME Typed, NEW p \in Pollers, NEW place \in RunningPlaces, MoveTo(p, place)
  PROVE  poller' \in [Pollers -> Processes] /\ (UNCHANGED handle => DeadIsHandles')
<1>1. poller' \in [Pollers -> Processes]
  BY ProcessFields DEF Typed, MoveTo
<1>2. UNCHANGED handle => DeadIsHandles'
  BY DEF Typed, MoveTo, DeadIsHandles, RunningPlaces
<1> QED BY <1>1, <1>2

LEMMA EndsTyped ==
  ASSUME Typed, NEW p \in Pollers, poller' = Ended(p), UNCHANGED handle
  PROVE  poller' \in [Pollers -> Processes] /\ DeadIsHandles'
<1>1. poller' \in [Pollers -> Processes]
  BY EndedTyped DEF Typed
<1>2. DeadIsHandles'
  BY DEF Typed, Ended, Halted, NoProcess, DeadIsHandles
<1> QED BY <1>1, <1>2

LEMMA PollerTyped ==
  ASSUME Typed, NEW p \in Pollers, PollerStep(p) \/ Crash(p)
  PROVE  Typed'
<1> USE HostAssumption DEF HostAssumption, Typed, devVars, hostVars
<1>1. CASE Boot(p)
  <2>1. poller' \in [Pollers -> Processes] /\ DeadIsHandles'
    BY <1>1, MovesTyped DEF Boot, RunningPlaces
  <2>2. dbSchema' \in Nat
    BY <1>1 DEF Boot, Migrated, Greater, Processes
  <2> QED BY <1>1, <2>1, <2>2 DEF Boot
<1>2. CASE ClearFlag(p)
  <2>1. poller' \in [Pollers -> Processes] /\ DeadIsHandles'
    BY <1>2, MovesTyped DEF ClearFlag, RunningPlaces
  <2>2. history' \in Histories
    BY <1>2, HistoryFields DEF ClearFlag, Histories
  <2> QED BY <1>2, <2>1, <2>2 DEF ClearFlag, Commits
<1>3. CASE SeeFlag(p)
  BY <1>3, MovesTyped DEF SeeFlag, RunningPlaces
<1>4. CASE ExitForDeploy(p)
  <2>1. history' \in Histories
    BY <1>4, HistoryFields DEF ExitForDeploy
  <2> QED BY <1>4, <2>1, EndsTyped DEF ExitForDeploy, UnitAfterEndOf, Commits
<1>5. CASE UnlinkFails(p)
  BY <1>5, MovesTyped DEF UnlinkFails, RunningPlaces
<1>6. CASE Die(p)
  BY <1>6, EndsTyped DEF Die
<1>7. CASE Crash(p)
  <2>1. history' \in Histories
    BY <1>7, HistoryFields DEF Crash, Histories
  <2> QED BY <1>7, <2>1, EndsTyped DEF Crash, UnitAfterEndOf
<1> QED BY <1>1, <1>2, <1>3, <1>4, <1>5, <1>6, <1>7 DEF PollerStep

LEMMA UnitTyped ==
  ASSUME Typed, SystemdRestart \/ SystemctlRestart \/ SystemctlStop \/ HandStart
  PROVE  Typed'
<1> USE HostAssumption DEF HostAssumption, Typed, devVars, hostVars
<1>1. CASE SystemdRestart \/ SystemctlRestart
  <2>1. poller' \in [Pollers -> Processes]
    BY <1>1, NewTyped, ProcessFields DEF SystemdRestart, SystemctlRestart
  <2>2. DeadIsHandles'
    BY <1>1 DEF SystemdRestart, SystemctlRestart, NewProcess, DeadIsHandles
  <2> QED BY <1>1, <2>1, <2>2 DEF SystemdRestart, SystemctlRestart
<1>2. CASE SystemctlStop
  <2>1. poller' \in [Pollers -> Processes]
    BY <1>2, EndedTyped DEF SystemctlStop
  <2>2. DeadIsHandles'
    BY <1>2 DEF SystemctlStop, Halted, NoProcess, DeadIsHandles
  <2> QED BY <1>2, <2>1, <2>2 DEF SystemctlStop
<1>3. CASE HandStart
  <2>1. PICK p \in Pollers : /\ poller' = [poller EXCEPT ![p] = NewProcess("hand")]
                             /\ history' = [history EXCEPT !.strays = @ \cup {p}]
    BY <1>3 DEF HandStart
  <2>2. poller' \in [Pollers -> Processes]
    BY <2>1, NewTyped, ProcessFields
  <2>3. history' \in Histories
    BY <2>1, HistoryFields
  <2>4. DeadIsHandles'
    BY <1>3, <2>1 DEF HandStart, NewProcess, DeadIsHandles
  <2> QED BY <1>3, <2>2, <2>3, <2>4 DEF HandStart
<1> QED BY <1>1, <1>2, <1>3

LEMMA AdminTyped ==
  ASSUME Typed, NEW a \in Admins, Request(a) \/ AdminStep(a)
  PROVE  Typed'
<1> USE HostAssumption DEF HostAssumption, Typed, hostVars
<1>1. CASE Request(a)
  BY <1>1 DEF Request, DeadIsHandles
<1>2. CASE KillAll(a)
  <2>1. PICK spared \in {{}} \cup {{p} : p \in Steady} :
          /\ poller' = [p \in Pollers |-> IF p \in Running \ spared
                                          THEN [poller[p] EXCEPT !.signalled = TRUE] ELSE poller[p]]
          /\ history' = [history EXCEPT !.strays = spared]
    BY <1>2 DEF KillAll
  <2>2. poller' \in [Pollers -> Processes]
    <3>1. \A p \in Pollers : [poller[p] EXCEPT !.signalled = TRUE] \in Processes
      BY DEF Processes
    <3> QED BY <2>1, <3>1
  <2>3. history' \in Histories
    <3>1. spared \in SUBSET Pollers
      BY DEF Steady, Running
    <3> QED BY <2>1, <3>1, HistoryFields
  <2>4. DeadIsHandles'
    BY <1>2, <2>1 DEF KillAll, DeadIsHandles, Processes
  <2>5. admin' \in [Admins -> [step : {"idle", "kill", "stop", "start"}, kind : {"none", "restart", "stop"}]]
    BY <1>2 DEF KillAll, AdminMoves
  <2> QED BY <1>2, <2>2, <2>3, <2>4, <2>5 DEF KillAll
<1>3. CASE ManagerStop(a)
  <2>1. PICK ok \in BOOLEAN :
          /\ ok \/ (HandleRuns /\ spent.faults < MaxFaults)
          /\ poller' = IF handle = 0 THEN poller
                       ELSE IF ok THEN Halted(handle)
                       ELSE [poller EXCEPT ![handle].signalled = TRUE]
          /\ AfterStop(a, ok)
    BY <1>3 DEF ManagerStop
  <2>2. poller' \in [Pollers -> Processes]
    BY <2>1, EndedTyped, ProcessFields
  <2>3. history' \in Histories
    BY <1>3, HistoryFields DEF ManagerStop
  <2>4. DeadIsHandles'
    BY <1>3, <2>1 DEF ManagerStop, DeadIsHandles, Halted, NoProcess, HandleRuns, Running,
                      RunningPlaces, Processes
  <2>5. admin' \in [Admins -> [step : {"idle", "kill", "stop", "start"}, kind : {"none", "restart", "stop"}]]
    BY <2>1 DEF AfterStop, AdminMoves, AdminEnds
  <2> QED BY <1>3, <2>2, <2>3, <2>4, <2>5 DEF ManagerStop
<1>4. CASE ManagerStart(a)
  <2>1. /\ poller' \in [Pollers -> Processes] /\ DeadIsHandles'
        /\ handle' \in Pollers \cup {0}
    <3>1. CASE AlreadyStarted
      BY <1>4, <3>1 DEF ManagerStart, DeadIsHandles
    <3>2. CASE ~AlreadyStarted
      <4>1. PICK p \in Pollers :
              /\ handle' = p /\ poller' = [Reaped EXCEPT ![p] = NewProcess("dashboard")]
        BY <1>4, <3>2 DEF ManagerStart
      <4>2. Reaped \in [Pollers -> Processes]
        BY NewTyped DEF Reaped
      <4>3. poller' \in [Pollers -> Processes]
        BY <4>1, <4>2, NewTyped, ProcessFields
      <4>4. DeadIsHandles'
        BY <4>1 DEF DeadIsHandles, Reaped, NewProcess, NoProcess
      <4> QED BY <4>1, <4>3, <4>4
    <3> QED BY <3>1, <3>2
  <2>2. history' \in Histories
    BY <1>4, HistoryFields DEF ManagerStart
  <2>3. admin' \in [Admins -> [step : {"idle", "kill", "stop", "start"}, kind : {"none", "restart", "stop"}]]
    BY <1>4 DEF ManagerStart, AdminEnds
  <2> QED BY <1>4, <2>1, <2>2, <2>3 DEF ManagerStart
<1> QED BY <1>1, <1>2, <1>3, <1>4 DEF AdminStep
\* A signal changes nothing else of a process.
LEMMA KillSignals ==
  ASSUME Typed, NEW a \in Admins, KillAll(a)
  PROVE  /\ \A p \in Pollers : /\ poller'[p].owner = poller[p].owner
                              /\ poller'[p].at = poller[p].at
                              /\ poller'[p].code = poller[p].code
         /\ Running' = Running /\ Steady' = history'.strays
<1>1. PICK spared \in {{}} \cup {{p} : p \in Steady} :
        /\ poller' = [p \in Pollers |-> IF p \in Running \ spared
                                        THEN [poller[p] EXCEPT !.signalled = TRUE] ELSE poller[p]]
        /\ history' = [history EXCEPT !.strays = spared]
  BY DEF KillAll
<1>2. ASSUME NEW p \in Pollers
      PROVE  /\ poller'[p].owner = poller[p].owner
             /\ poller'[p].at = poller[p].at
             /\ poller'[p].code = poller[p].code
             /\ p \in Running \ spared => poller'[p].signalled
             /\ p \notin Running \ spared => poller'[p].signalled = poller[p].signalled
  <2>1. poller[p] \in Processes
    BY DEF Typed
  <2> QED BY <1>1, <2>1 DEF Processes
<1>3. Running' = Running
  BY <1>2 DEF Running
<1>4. Steady' = spared
  BY <1>2, <1>3 DEF Steady, Running
<1>5. history'.strays = spared
  BY <1>1 DEF Typed, Histories
<1> QED BY <1>2, <1>3, <1>4, <1>5

\* The manager starts one process in a slot that is free, and reaps its zombie.
LEMMA StartsOne ==
  ASSUME Typed, NEW a \in Admins, ManagerStart(a)
  PROVE  \/ AlreadyStarted /\ UNCHANGED <<poller, handle>>
         \/ /\ ~AlreadyStarted /\ handle' \in Pollers
            /\ poller'[handle'] = NewProcess("dashboard")
            /\ \A p \in Pollers \ {handle'} :
                 poller'[p] = IF poller[p].at = "dead" THEN NoProcess ELSE poller[p]
BY DEF ManagerStart, Reaped, Typed

LEMMA TypedStep ==
  ASSUME Typed, [Next]_vars
  PROVE  Typed'
<1>1. CASE UNCHANGED vars
  BY <1>1 DEF Typed, DeadIsHandles, vars
<1> QED BY <1>1, DeployTyped, PollerTyped, UnitTyped, AdminTyped DEF Next

-----------------------------------------------------------------------------
(* The two kinds of host.                                                  *)

LEMMA SiteStays ==
  ASSUME [Next]_vars
  PROVE  site' = site
<1>1. DeployStep => site' = site
  BY DEF DeployStep, Pull, Abort, RestartDashboard, RestartNow, StartUnit, Defer, WriteFlag
<1>2. \A p \in Pollers : PollerStep(p) \/ Crash(p) => site' = site
  BY DEF PollerStep, Boot, ClearFlag, SeeFlag, ExitForDeploy, UnlinkFails, Die, Crash, hostVars
<1>3. SystemdRestart \/ SystemctlRestart \/ SystemctlStop \/ HandStart => site' = site
  BY DEF SystemdRestart, SystemctlRestart, SystemctlStop, HandStart, hostVars
<1>4. \A a \in Admins : Request(a) \/ AdminStep(a) => site' = site
  BY DEF Request, AdminStep, KillAll, ManagerStop, ManagerStart, hostVars
<1> QED BY <1>1, <1>2, <1>3, <1>4 DEF Next, vars

\* What only the VPS does, and what only a development machine does.
LEMMA VpsSteps ==
  ASSUME Inv, Next, site = "vps"
  PROVE  \/ DeployStep \/ SystemdRestart \/ SystemctlRestart \/ SystemctlStop
         \/ PollerStep(UnitPoller) \/ Crash(UnitPoller)
<1>1. ASSUME NEW p \in Pollers, PollerStep(p) \/ Crash(p)
      PROVE  p = UnitPoller
  <2>1. poller[p].at # "none"
    BY <1>1 DEF PollerStep, Boot, ClearFlag, SeeFlag, ExitForDeploy, UnlinkFails, Die, Crash,
                Steady, Running, RunningPlaces
  <2> QED BY <2>1 DEF Inv, OnVpsOnly, NoProcess
<1>2. ASSUME NEW a \in Admins, Request(a) \/ AdminStep(a)
      PROVE  FALSE
  BY <1>2 DEF Inv, OnVpsOnly, NoRequest, Request, AdminStep, KillAll, ManagerStop, ManagerStart, InAdmin
<1>3. ~HandStart
  BY DEF HandStart
<1> QED BY <1>1, <1>2, <1>3 DEF Next

LEMMA DevSteps ==
  ASSUME Inv, Next, site = "dev"
  PROVE  \/ HandStart
         \/ \E p \in Pollers : Boot(p) \/ Die(p) \/ Crash(p)
         \/ \E a \in Admins : Request(a) \/ AdminStep(a)
<1>1. ~DeployStep /\ ~SystemctlRestart /\ ~SystemctlStop
  BY DEF DeployStep, Pull, Abort, RestartDashboard, RestartNow, StartUnit, Defer, WriteFlag,
         InDeploy, OnVps, SystemctlRestart, SystemctlStop
<1>2. ~SystemdRestart
  BY DEF Inv, OnDevOnly, SystemdRestart
<1>3. ASSUME NEW p \in Pollers, PollerStep(p)
      PROVE  Boot(p) \/ Die(p)
  BY <1>3 DEF Inv, OnDevOnly, PollerStep, ClearFlag, SeeFlag, ExitForDeploy, UnlinkFails
<1> QED BY <1>1, <1>2, <1>3 DEF Next

LEMMA VpsStep ==
  ASSUME Inv, [Next]_vars
  PROVE  OnVpsOnly'
<1> SUFFICES ASSUME site' = "vps"
             PROVE  OnVpsOnly'
  BY DEF OnVpsOnly
<1>1. site = "vps"
  BY SiteStays
<1> USE HostAssumption, <1>1 DEF HostAssumption, Inv, OnVpsOnly, NoRequest, InAdmin, Typed, devVars, hostVars
<1>2. CASE DeployStep
  <2>1. UNCHANGED <<handle, admin>>
    BY <1>2 DEF DeployStep, Pull, Abort, RestartDashboard, RestartNow, StartUnit, Defer, WriteFlag
  <2>2. \/ UNCHANGED poller
        \/ poller' = [poller EXCEPT ![UnitPoller] = NoProcess]
        \/ poller' = [poller EXCEPT ![UnitPoller] = NewProcess("systemd")]
    BY <1>2 DEF DeployStep, Pull, Abort, RestartDashboard, RestartNow, StartUnit, Defer, WriteFlag, Halted
  <2>3. /\ \A p \in Pollers \ {UnitPoller} : poller'[p] = poller[p]
        /\ poller'[UnitPoller].owner \in {"none", "systemd"}
    BY <2>2 DEF NoProcess, NewProcess
  <2> QED BY <2>1, <2>3
<1>3. CASE SystemdRestart \/ SystemctlRestart
  BY <1>3 DEF SystemdRestart, SystemctlRestart, NewProcess
<1>4. CASE SystemctlStop
  BY <1>4 DEF SystemctlStop, Halted, NoProcess
<1>5. CASE PollerStep(UnitPoller) \/ Crash(UnitPoller)
  <2>1. UNCHANGED <<handle, admin>>
    BY <1>5 DEF PollerStep, Boot, ClearFlag, SeeFlag, ExitForDeploy, UnlinkFails, Die, Crash
  <2>2. \/ \E place \in RunningPlaces : MoveTo(UnitPoller, place)
        \/ poller' = Halted(UnitPoller)
    BY <1>5 DEF PollerStep, Boot, ClearFlag, SeeFlag, ExitForDeploy, UnlinkFails, Die, Crash,
                Ended, RunningPlaces
  <2>3. /\ \A p \in Pollers \ {UnitPoller} : poller'[p] = poller[p]
        /\ poller'[UnitPoller].owner \in {"none", "systemd"}
    BY <2>2 DEF MoveTo, Halted, NoProcess, Processes
  <2> QED BY <2>1, <2>3
<1>6. CASE UNCHANGED vars
  BY <1>6 DEF vars
<1> QED BY <1>1, <1>2, <1>3, <1>4, <1>5, <1>6, VpsSteps

LEMMA DevStep ==
  ASSUME Inv, [Next]_vars
  PROVE  OnDevOnly'
<1> SUFFICES ASSUME site' = "dev"
             PROVE  OnDevOnly'
  BY DEF OnDevOnly
<1>1. site = "dev"
  BY SiteStays
<1> USE HostAssumption, <1>1 DEF HostAssumption, Inv, OnDevOnly, Typed, devVars, hostVars
<1>2. CASE HandStart
  BY <1>2 DEF HandStart, NewProcess, Histories
<1>3. ASSUME NEW p \in Pollers, Boot(p)
      PROVE  OnDevOnly'
  BY <1>3 DEF Boot, MoveTo, Migrated, Greater, Processes
<1>4. ASSUME NEW p \in Pollers, Die(p) \/ Crash(p)
      PROVE  OnDevOnly'
  <2>1. UNCHANGED <<flag, deploy, unit, dbSchema, schemaOf>> /\ history'.exits = 0
    BY <1>4 DEF Die, Crash, UnitAfterEndOf, Histories
  <2>2. poller' = Ended(p)
    BY <1>4 DEF Die, Crash
  <2> QED BY <2>1, <2>2 DEF Ended, Halted, NoProcess, Processes
<1>5. ASSUME NEW a \in Admins, Request(a) \/ AdminStep(a)
      PROVE  OnDevOnly'
  <2>1. UNCHANGED <<flag, deploy, unit, dbSchema, schemaOf>> /\ history'.exits = 0
    BY <1>5 DEF Request, AdminStep, KillAll, ManagerStop, ManagerStart, Histories
  <2>2. CASE Request(a)
    BY <2>1, <2>2 DEF Request
  <2>3. CASE KillAll(a)
    <3>1. \A p \in Pollers : poller'[p].owner = poller[p].owner /\ poller'[p].at = poller[p].at
      BY <2>3, KillSignals
    <3> QED BY <2>1, <3>1
  <2>4. CASE ManagerStop(a)
    BY <2>1, <2>4 DEF ManagerStop, Halted, NoProcess, Processes
  <2>5. CASE ManagerStart(a)
    <3>1. \A p \in Pollers : poller'[p] \in {poller[p], NoProcess, NewProcess("dashboard")}
      BY <2>5, StartsOne
    <3> QED BY <2>1, <3>1 DEF NoProcess, NewProcess
  <2> QED BY <1>5, <2>2, <2>3, <2>4, <2>5 DEF AdminStep
<1>6. CASE UNCHANGED vars
  BY <1>6 DEF vars
<1> QED BY <1>1, <1>2, <1>3, <1>4, <1>5, <1>6, DevSteps
-----------------------------------------------------------------------------
(* Schemas and flags, which only the VPS has.                              *)

LEMMA CodeSteps ==
  ASSUME Inv, [Next]_vars
  PROVE  \A p \in Pollers : poller'[p].code \in {poller[p].code, head, 0}
<1> SUFFICES ASSUME NEW p \in Pollers
             PROVE  poller'[p].code \in {poller[p].code, head, 0}
  OBVIOUS
<1> USE HostAssumption DEF HostAssumption, Inv, Typed, NoProcess, NewProcess, Processes
<1>1. CASE DeployStep
  <2>1. \/ UNCHANGED poller
        \/ poller' = [poller EXCEPT ![UnitPoller] = NoProcess]
        \/ poller' = [poller EXCEPT ![UnitPoller] = NewProcess("systemd")]
    BY <1>1 DEF DeployStep, Pull, Abort, RestartDashboard, RestartNow, StartUnit, Defer, WriteFlag, Halted
  <2> QED BY <2>1
<1>2. CASE SystemdRestart \/ SystemctlRestart
  BY <1>2 DEF SystemdRestart, SystemctlRestart
<1>3. CASE SystemctlStop
  BY <1>3 DEF SystemctlStop, Halted
<1>4. CASE HandStart
  BY <1>4 DEF HandStart
<1>5. ASSUME NEW q \in Pollers, PollerStep(q) \/ Crash(q)
      PROVE  poller'[p].code \in {poller[p].code, head, 0}
  <2>1. \/ \E place \in RunningPlaces \cup {"dead"} : poller' = [poller EXCEPT ![q].at = place]
        \/ poller' = Halted(q)
    BY <1>5 DEF PollerStep, Boot, ClearFlag, SeeFlag, ExitForDeploy, UnlinkFails, Die, Crash,
                Ended, MoveTo, RunningPlaces
  <2> QED BY <2>1 DEF Halted
<1>6. ASSUME NEW a \in Admins, Request(a) \/ AdminStep(a)
      PROVE  poller'[p].code \in {poller[p].code, head, 0}
  <2>1. CASE Request(a)
    BY <2>1 DEF Request
  <2>2. CASE KillAll(a)
    BY <2>2, KillSignals
  <2>3. CASE ManagerStop(a)
    BY <2>3 DEF ManagerStop, Halted
  <2>4. CASE ManagerStart(a)
    BY <2>4, StartsOne
  <2> QED BY <1>6, <2>1, <2>2, <2>3, <2>4 DEF AdminStep
<1>7. CASE UNCHANGED vars
  BY <1>7 DEF vars
<1> QED BY <1>1, <1>2, <1>3, <1>4, <1>5, <1>6, <1>7 DEF Next

\* Only a pull moves the branch on, by a commit that keeps the schema or takes one more.
LEMMA PullGrows ==
  ASSUME Inv, Pull
  PROVE  /\ SchemasGrow' /\ head' >= head /\ dbSchema' = dbSchema
         /\ deploy'.step = "pulled" /\ deploy'.prev = head /\ deploy.step = "idle"
         /\ \A c \in Commits : c <= head => schemaOf'[c] = schemaOf[c]
<1> USE HostAssumption DEF HostAssumption, Inv, SchemasGrow, Typed, Commits
<1>1. PICK new \in {head, head + 1} \cap Commits, bump \in {0, 1}, f \in BOOLEAN :
        /\ head' = new
        /\ schemaOf' = IF new = head THEN schemaOf
                       ELSE [schemaOf EXCEPT ![new] = schemaOf[head] + bump]
        /\ deploy' = [step |-> "pulled", prev |-> head, forced |-> f]
  BY DEF Pull, PrevHead
<1>2. UNCHANGED <<poller, dbSchema>> /\ deploy.step = "idle"
  BY DEF Pull, InDeploy
<1>3. \A c \in Commits : c <= head => schemaOf'[c] = schemaOf[c]
  BY <1>1
<1>4. schemaOf'[head'] >= schemaOf[head] /\ schemaOf'[head'] \in Nat
  BY <1>1
<1>5. ASSUME NEW c \in Commits, c <= head'
      PROVE  schemaOf'[c] <= schemaOf'[head']
  <2>1. CASE c <= head
    <3>1. schemaOf'[c] = schemaOf[c] /\ schemaOf[c] <= schemaOf[head] /\ schemaOf[c] \in Nat
      BY <1>3, <2>1
    <3> QED BY <1>4, <3>1
  <2>2. CASE c = head'
    BY <1>4, <2>2
  <2> QED BY <1>1, <1>5, <2>1, <2>2
<1>6. \A p \in Pollers : poller'[p].code \in Nat /\ poller'[p].code <= head
  BY <1>2 DEF Processes
<1>7. deploy'.step = "pulled" /\ deploy'.prev = head /\ head' >= head
  BY <1>1
<1>8. dbSchema' <= schemaOf'[head']
  BY <1>1, <1>2, <1>4
<1>9. SchemasGrow'
  <2>1. head \in Nat /\ head' \in Nat /\ head' >= head
    BY <1>1
  <2>2. ASSUME NEW p \in Pollers
        PROVE  poller'[p].code <= head'
    BY <1>6, <2>1
  <2> QED BY <1>5, <1>7, <1>8, <2>2
<1> QED BY <1>2, <1>3, <1>7, <1>9

\* Everything else leaves it, and lifts the schema of the database to that of a commit.
LEMMA OthersMigrate ==
  ASSUME Inv, [Next]_vars, ~Pull
  PROVE  /\ UNCHANGED <<head, schemaOf>> /\ deploy'.prev \in {deploy.prev, 0}
         /\ dbSchema' = dbSchema \/ \E c \in Commits : c <= head /\ Migrated(c)
<1> USE DEF Inv, Typed, devVars, hostVars
<1>1. CASE DeployStep
  BY <1>1 DEF DeployStep, Abort, RestartDashboard, RestartNow, StartUnit, Defer, WriteFlag, NoDeploy,
              Commits
<1>2. CASE SystemdRestart \/ SystemctlRestart \/ SystemctlStop \/ HandStart
  BY <1>2 DEF SystemdRestart, SystemctlRestart, SystemctlStop, HandStart
<1>3. ASSUME NEW p \in Pollers, Boot(p)
      PROVE  UNCHANGED <<head, schemaOf, deploy>> /\ \E c \in Commits : c <= head /\ Migrated(c)
  <2>1. poller[p].code \in Commits /\ poller[p].code <= head
    BY DEF Processes, SchemasGrow
  <2> QED BY <1>3, <2>1 DEF Boot
<1>4. ASSUME NEW p \in Pollers, PollerStep(p) \/ Crash(p), ~Boot(p)
      PROVE  UNCHANGED <<head, schemaOf, deploy, dbSchema>>
  BY <1>4 DEF PollerStep, ClearFlag, SeeFlag, ExitForDeploy, UnlinkFails, Die, Crash
<1>5. ASSUME NEW a \in Admins, Request(a) \/ AdminStep(a)
      PROVE  UNCHANGED <<head, schemaOf, deploy, dbSchema>>
  BY <1>5 DEF Request, AdminStep, KillAll, ManagerStop, ManagerStart
<1>6. CASE UNCHANGED vars
  BY <1>6 DEF vars
<1> QED BY <1>1, <1>2, <1>3, <1>4, <1>5, <1>6 DEF Next

LEMMA SchemaStep ==
  ASSUME Inv, [Next]_vars
  PROVE  SchemasGrow'
<1>1. CASE Pull
  BY <1>1, PullGrows
<1>2. CASE ~Pull
  <2>1. \A p \in Pollers : poller'[p].code <= head
    <3> SUFFICES ASSUME NEW p \in Pollers PROVE poller'[p].code <= head
      OBVIOUS
    <3>1. poller'[p].code \in {poller[p].code, head, 0}
      BY CodeSteps
    <3>2. poller[p].code <= head /\ head \in Nat
      BY DEF Inv, Typed, SchemasGrow, Commits
    <3> QED BY <3>1, <3>2
  <2>2. dbSchema' <= schemaOf[head]
    BY <1>2, OthersMigrate DEF Inv, Typed, SchemasGrow, Migrated, Greater
  <2>3. UNCHANGED <<head, schemaOf>> /\ deploy'.prev \in {deploy.prev, 0}
    BY <1>2, OthersMigrate
  <2>4. deploy'.prev <= head
    BY <2>3 DEF Inv, Typed, SchemasGrow, Commits
  <2> QED BY <2>1, <2>2, <2>3, <2>4 DEF Inv, SchemasGrow
<1> QED BY <1>1, <1>2

\* A new process runs what is checked out, which writes the newest schema.
LEMMA NewCodeFits ==
  ASSUME Inv, site = "vps", NEW p \in Pollers, poller' = [poller EXCEPT ![UnitPoller] = NewProcess("systemd")],
         p \in Running', UNCHANGED <<head, schemaOf, dbSchema>>
  PROVE  /\ schemaOf'[poller'[p].code] = schemaOf'[head']
         /\ schemaOf'[head'] >= dbSchema' /\ schemaOf'[head'] >= schemaOf'[deploy.prev]
<1>1. p = UnitPoller
  BY HostAssumption DEF HostAssumption, Inv, Typed, OnVpsOnly, Running, RunningPlaces, NoProcess
<1>2. poller'[p].code = head
  BY HostAssumption, <1>1 DEF HostAssumption, Inv, Typed, NewProcess
<1>3. schemaOf[head] >= dbSchema /\ schemaOf[head] >= schemaOf[deploy.prev]
  BY DEF Inv, Typed, SchemasGrow, Commits
<1> QED BY <1>2, <1>3

LEMMA DeployCodeFits ==
  ASSUME Inv, DeployStep, site = "vps", ~history'.aborted, NEW p \in Running'
  PROVE  LET writes == schemaOf'[poller'[p].code] IN
           /\ deploy'.step \in {"idle", "stopped", "deferred"} => writes >= schemaOf'[head']
           /\ deploy'.step \in {"pulled", "migrated"} => writes >= schemaOf'[deploy'.prev]
           /\ deploy'.step = "pulled" => writes >= dbSchema'
<1>0. p \in Pollers
  BY DEF Running
<1> USE DEF Inv, Typed, devVars
<1>1. CASE Pull
  <2>1. p \in Running /\ UNCHANGED <<poller, history>> /\ ~history.aborted
    BY <1>1 DEF Pull, Running
  <2>2. schemaOf[poller[p].code] >= schemaOf[head]
    BY <1>1, <2>1, PullGrows DEF CodeFits
  <2>3. poller[p].code \in Commits /\ poller[p].code <= head /\ head \in Commits
    BY <1>0 DEF Processes, SchemasGrow
  <2>4. schemaOf'[poller[p].code] = schemaOf[poller[p].code] /\ schemaOf'[head] = schemaOf[head]
    BY <1>1, <2>3, PullGrows DEF Commits
  <2>5. schemaOf[poller[p].code] >= dbSchema
    BY <2>2, <2>3 DEF SchemasGrow
  <2> QED BY <1>1, <2>1, <2>2, <2>4, <2>5, PullGrows
<1>2. CASE Abort
  <2>1. /\ p \in Running /\ UNCHANGED <<poller, schemaOf, head, dbSchema>>
        /\ deploy.step \in {"stopped", "deferred"} /\ deploy' = NoDeploy /\ ~history.aborted
    BY <1>2 DEF Abort, Running, Histories
  <2> QED BY <2>1 DEF CodeFits, NoDeploy
<1>3. CASE RestartDashboard
  <2>1. /\ p \in Running /\ UNCHANGED <<poller, schemaOf, head, history>>
        /\ deploy.step = "pulled" /\ deploy'.prev = deploy.prev /\ deploy'.step = "migrated"
    BY <1>3 DEF RestartDashboard, InDeploy, Running
  <2> QED BY <2>1 DEF CodeFits
<1>4. CASE RestartNow
  BY <1>0, <1>4, HostAssumption DEF HostAssumption, RestartNow, Halted, NoProcess, OnVpsOnly, Running, RunningPlaces
<1>5. CASE StartUnit
  <2>1. /\ UNCHANGED <<schemaOf, head, dbSchema, history>>
        /\ deploy.step = "stopped" /\ deploy' = NoDeploy
        /\ UNCHANGED poller \/ poller' = [poller EXCEPT ![UnitPoller] = NewProcess("systemd")]
    BY <1>5 DEF StartUnit, InDeploy
  <2>2. CASE UNCHANGED poller
    BY <2>1, <2>2 DEF CodeFits, NoDeploy, Running
  <2>3. CASE poller' = [poller EXCEPT ![UnitPoller] = NewProcess("systemd")]
    <3>1. schemaOf'[poller'[p].code] = schemaOf'[head'] /\ schemaOf'[head'] \in Nat
      BY <1>0, <2>1, <2>3, NewCodeFits
    <3> QED BY <2>1, <3>1 DEF NoDeploy
  <2> QED BY <2>1, <2>2, <2>3
<1>6. CASE Defer
  <2>1. /\ p \in Running /\ UNCHANGED <<poller, schemaOf, head, history>>
        /\ deploy.step = "migrated" /\ deploy'.step = "deferred"
        /\ schemaOf[deploy.prev] = schemaOf[head]
    BY <1>6 DEF Defer, InDeploy, Running, RestartReason
  <2> QED BY <2>1 DEF CodeFits
<1>7. CASE WriteFlag
  <2>1. /\ p \in Running /\ UNCHANGED <<poller, schemaOf, head>> /\ ~history.aborted
        /\ deploy.step = "deferred" /\ deploy'.step = "idle"
    BY <1>7 DEF WriteFlag, InDeploy, Running, Histories, NoDeploy
  <2> QED BY <2>1 DEF CodeFits
<1> QED BY <1>1, <1>2, <1>3, <1>4, <1>5, <1>6, <1>7 DEF DeployStep

LEMMA CodeStep ==
  ASSUME Inv, [Next]_vars
  PROVE  CodeFits'
<1> SUFFICES ASSUME site' = "vps", ~history'.aborted, NEW p \in Running'
             PROVE  LET writes == schemaOf'[poller'[p].code] IN
                      /\ deploy'.step \in {"idle", "stopped", "deferred"} => writes >= schemaOf'[head']
                      /\ deploy'.step \in {"pulled", "migrated"} => writes >= schemaOf'[deploy'.prev]
                      /\ deploy'.step = "pulled" => writes >= dbSchema'
  BY DEF CodeFits
<1>1. site = "vps" /\ p \in Pollers
  BY SiteStays DEF Running
<1>2. CASE DeployStep
  BY <1>1, <1>2, DeployCodeFits
<1>3. CASE SystemdRestart \/ SystemctlRestart
  <2>1. /\ UNCHANGED <<schemaOf, head, dbSchema, deploy>>
        /\ poller' = [poller EXCEPT ![UnitPoller] = NewProcess("systemd")]
    BY <1>3 DEF SystemdRestart, SystemctlRestart
  <2>2. schemaOf[head] \in Nat
    BY DEF Inv, Typed
  <2> QED BY <1>1, <2>1, <2>2, NewCodeFits
<1>4. CASE SystemctlStop
  BY <1>1, <1>4, HostAssumption DEF HostAssumption, Inv, Typed, SystemctlStop, Halted, NoProcess, OnVpsOnly, Running, RunningPlaces
<1>5. CASE PollerStep(UnitPoller) \/ Crash(UnitPoller)
  <2> USE DEF Inv, Typed, devVars, hostVars
  <2>1. /\ UNCHANGED <<schemaOf, head, deploy>> /\ history'.aborted = history.aborted
    BY <1>5 DEF PollerStep, Boot, ClearFlag, SeeFlag, ExitForDeploy, UnlinkFails, Die, Crash, Histories
  <2>2. \/ \E place \in RunningPlaces : MoveTo(UnitPoller, place) /\ UnitPoller \in Running
        \/ poller' = Halted(UnitPoller)
    BY <1>1, <1>5, HostAssumption DEF HostAssumption, OnVpsOnly, PollerStep, Boot, ClearFlag, SeeFlag, ExitForDeploy,
                UnlinkFails, Die, Crash, Ended, RunningPlaces, Running
  <2>3. p = UnitPoller /\ p \in Running /\ poller'[p].code = poller[p].code
    BY <1>1, <2>2, HostAssumption DEF HostAssumption, OnVpsOnly, Running, RunningPlaces, MoveTo, Halted, NoProcess, Processes
  <2>4. dbSchema' = dbSchema \/ dbSchema' = Greater(dbSchema, schemaOf[poller[p].code])
    BY <1>5, <2>3 DEF PollerStep, Boot, ClearFlag, SeeFlag, ExitForDeploy, UnlinkFails, Die, Crash, Migrated
  <2>5. schemaOf[poller[p].code] \in Nat
    BY <1>1 DEF Processes
  <2> QED BY <1>1, <2>1, <2>3, <2>4, <2>5 DEF CodeFits, Greater
<1>6. CASE UNCHANGED vars
  BY <1>1, <1>6 DEF vars, Inv, CodeFits, Running
<1> QED BY <1>1, <1>2, <1>3, <1>4, <1>5, <1>6, VpsSteps

\* A flag is written before it is answered; a poller that deletes it exits at once.
LEMMA FlagStep ==
  ASSUME Inv, [Next]_vars
  PROVE  FlagIsOwed'
<1> USE HostAssumption DEF HostAssumption, Inv, Typed, FlagIsOwed, devVars, hostVars
<1> DEFINE Seen == \E p \in Pollers : poller[p].at = "unlinking"
<1>1. history.exits \in Nat /\ history.writes \in Nat
  BY DEF Histories
<1>2. CASE WriteFlag
  BY <1>1, <1>2 DEF WriteFlag, Histories
<1>3. CASE DeployStep /\ ~WriteFlag
  <2>1. history'.exits = history.exits /\ history'.writes = history.writes /\ flag' \in {flag, 0}
    BY <1>3 DEF DeployStep, Pull, Abort, RestartDashboard, RestartNow, StartUnit, Defer, Histories
  <2>2. \/ UNCHANGED poller
        \/ poller' = [poller EXCEPT ![UnitPoller] = NoProcess]
        \/ poller' = [poller EXCEPT ![UnitPoller] = NewProcess("systemd")]
    BY <1>3 DEF DeployStep, Pull, Abort, RestartDashboard, RestartNow, StartUnit, Defer, Halted
  <2>3. Seen' => Seen
    BY <2>2 DEF NoProcess, NewProcess
  <2> QED BY <2>1, <2>3
<1>4. CASE SystemdRestart \/ SystemctlRestart \/ SystemctlStop
  <2>1. UNCHANGED <<flag, history>>
    BY <1>4 DEF SystemdRestart, SystemctlRestart, SystemctlStop
  <2>2. Seen' => Seen
    BY <1>4 DEF SystemdRestart, SystemctlRestart, SystemctlStop, Halted, NoProcess, NewProcess
  <2> QED BY <2>1, <2>2
<1>5. CASE site = "vps" /\ ExitForDeploy(UnitPoller)
  <2>1. history.exits < history.writes
    BY <1>5 DEF ExitForDeploy
  <2>2. history'.exits = history.exits + 1 /\ history'.writes = history.writes /\ flag' = 0
    BY <1>5 DEF ExitForDeploy, Histories
  <2>3. poller' = Halted(UnitPoller)
    BY <1>5 DEF ExitForDeploy, Ended, OnVpsOnly
  <2>4. ~Seen'
    BY <1>5, <2>3 DEF OnVpsOnly, Halted, NoProcess
  <2> QED BY <1>1, <2>1, <2>2, <2>4
<1>6. CASE SeeFlag(UnitPoller)
  BY <1>6 DEF SeeFlag
<1>7. ASSUME NEW p \in Pollers, Boot(p) \/ ClearFlag(p) \/ UnlinkFails(p) \/ Die(p) \/ Crash(p)
      PROVE  FlagIsOwed'
  <2>1. history'.exits = history.exits /\ history'.writes = history.writes /\ flag' \in {flag, 0}
    BY <1>7 DEF Boot, ClearFlag, UnlinkFails, Die, Crash, Histories
  <2>2. \/ \E place \in {"clearing", "cycle", "dead"} : poller' = [poller EXCEPT ![p].at = place]
        \/ poller' = Halted(p)
    BY <1>7 DEF Boot, ClearFlag, UnlinkFails, Die, Crash, Ended, MoveTo
  <2>3. ASSUME NEW q \in Pollers, poller'[q].at = "unlinking"
        PROVE  poller[q].at = "unlinking"
    BY <2>2, <2>3 DEF Halted, NoProcess, Processes
  <2> QED BY <2>1, <2>3
<1>8. CASE UNCHANGED vars
  BY <1>8 DEF vars
<1>9. CASE site = "vps" /\ Next
  BY <1>2, <1>3, <1>4, <1>5, <1>6, <1>7, <1>9, VpsSteps DEF PollerStep
<1>10. CASE site = "dev" /\ Next
  <2>1. site' = "dev"
    BY <1>10, SiteStays
  <2>2. flag' = 0 /\ history'.exits = 0 /\ ~Seen'
    BY <2>1, DevStep DEF OnDevOnly
  <2>3. history'.writes \in Nat
    BY TypedStep DEF Histories
  <2> QED BY <2>2, <2>3
<1> QED BY <1>8, <1>9, <1>10
-----------------------------------------------------------------------------
(* The manager of a development machine.                                   *)

\* A poller of the manager's that runs and was not signalled ran before, and the handle kept
\* it; or it is the one the manager has just started.
LEMMA NoForgottenStep ==
  ASSUME Inv, [Next]_vars
  PROVE  NoForgottenPoller'
<1> SUFFICES ASSUME NEW p \in Steady', poller'[p].owner = "dashboard"
             PROVE  p = handle'
  BY DEF NoForgottenPoller
<1> USE HostAssumption DEF HostAssumption, Inv, Typed, NoForgottenPoller, devVars, hostVars
<1>1. p \in Pollers /\ p \in Running' /\ ~poller'[p].signalled
  BY DEF Steady, Running
<1>2. CASE site = "vps"
  BY <1>1, <1>2, SiteStays, VpsStep DEF OnVpsOnly
<1>3. CASE site = "dev" /\ HandStart
  <2>1. p \in Steady /\ poller'[p].owner = poller[p].owner /\ handle' = handle
    BY <1>1, <1>3 DEF HandStart, Steady, Running, NewProcess
  <2> QED BY <2>1
<1>4. ASSUME site = "dev", NEW q \in Pollers, Boot(q) \/ Die(q) \/ Crash(q)
      PROVE  p = handle'
  <2>1. handle' = handle
    BY <1>4 DEF Boot, Die, Crash
  <2>2. \/ q \in Running /\ \E place \in {"clearing", "cycle", "dead"} : poller' = [poller EXCEPT ![q].at = place]
        \/ poller' = Halted(q)
    BY <1>4 DEF Boot, Die, Crash, Ended, MoveTo, Running, RunningPlaces
  <2>3. p \in Steady /\ poller'[p].owner = poller[p].owner
    BY <1>1, <2>2 DEF Halted, NoProcess, Steady, Running, RunningPlaces, Processes
  <2> QED BY <2>1, <2>3
<1>5. ASSUME site = "dev", NEW a \in Admins, Request(a) \/ KillAll(a)
      PROVE  p = handle'
  <2>1. CASE Request(a)
    BY <2>1 DEF Request, Steady, Running
  <2>2. CASE KillAll(a)
    <3>1. p \in Steady
      BY <1>1, <2>2 DEF KillAll, Steady, Running, Processes
    <3> QED BY <2>2, <3>1, KillSignals DEF KillAll, Steady, Running
  <2> QED BY <1>5, <2>1, <2>2
<1>6. ASSUME site = "dev", NEW a \in Admins, ManagerStop(a)
      PROVE  p = handle'
  <2>1. \/ handle = 0 /\ poller' = poller
        \/ handle \in Pollers /\ poller' = Halted(handle)
        \/ handle \in Pollers /\ poller' = [poller EXCEPT ![handle].signalled = TRUE]
    BY <1>6 DEF ManagerStop
  <2>2. p # handle
    BY <1>1, <2>1 DEF Halted, NoProcess, Running, RunningPlaces, Processes
  <2>3. p \in Steady /\ poller'[p].owner = poller[p].owner
    BY <1>1, <2>1, <2>2 DEF Halted, Steady, Running
  <2> QED BY <2>2, <2>3
<1>7. ASSUME site = "dev", NEW a \in Admins, ManagerStart(a)
      PROVE  p = handle'
  <2>1. CASE AlreadyStarted /\ UNCHANGED <<poller, handle>>
    BY <2>1 DEF Steady, Running
  <2>2. CASE /\ ~AlreadyStarted /\ handle' \in Pollers
             /\ poller'[handle'] = NewProcess("dashboard")
             /\ \A q \in Pollers \ {handle'} :
                  poller'[q] = IF poller[q].at = "dead" THEN NoProcess ELSE poller[q]
    <3> SUFFICES ASSUME p # handle'
                 PROVE  FALSE
      OBVIOUS
    <3>1. p \in Steady /\ poller[p].owner = "dashboard"
      BY <1>1, <2>2 DEF Steady, Running, RunningPlaces, NoProcess
    <3>2. p = handle
      BY <3>1
    <3>3. handle # 0 /\ handle \in Running
      BY <1>1, <3>1, <3>2, HostAssumption DEF Steady
    <3> QED BY <2>2, <3>3 DEF AlreadyStarted, HandleRuns
  <2> QED BY <1>7, <2>1, <2>2, StartsOne
<1>8. CASE UNCHANGED vars
  BY <1>8 DEF vars, Steady, Running
<1> QED BY <1>2, <1>3, <1>4, <1>5, <1>6, <1>7, <1>8, DevSteps DEF AdminStep

LEMMA ManagersStep ==
  ASSUME Inv, [Next]_vars
  PROVE  ManagersOwn'
<1> SUFFICES ASSUME site' = "dev"
             PROVE  ManagersOwn'
  BY DEF ManagersOwn
<1>0. site = "dev"
  BY SiteStays
<1> USE HostAssumption, <1>0 DEF HostAssumption, Inv, Typed, ManagersOwn, Stopping, InAdmin, devVars, hostVars
<1>1. /\ \A p : p \in Running => p \in Pollers
      /\ \A p : p \in Running' => p \in Pollers
      /\ Steady \subseteq Running /\ Steady' \subseteq Running'
  BY DEF Running, Steady
<1>2. CASE HandStart
  <2>1. PICK p \in Pollers : /\ poller[p] = NoProcess
                             /\ poller' = [poller EXCEPT ![p] = NewProcess("hand")]
                             /\ history' = [history EXCEPT !.strays = @ \cup {p}]
    BY <1>2 DEF HandStart
  <2>2. /\ Running' = Running \cup {p} /\ Steady' = Steady \cup {p} /\ p \notin Running
    BY <2>1 DEF Running, Steady, NewProcess, NoProcess, RunningPlaces
  <2>3. /\ history'.strays = history.strays \cup {p} /\ history'.wanted = history.wanted
        /\ UNCHANGED <<handle, admin>>
    BY <1>2, <2>1 DEF HandStart, Histories
  <2> QED BY <2>2, <2>3
<1>3. ASSUME NEW p \in Pollers, Boot(p)
      PROVE  ManagersOwn'
  <2>1. Running' = Running /\ Steady' = Steady
    BY <1>3 DEF Boot, MoveTo, Running, Steady, RunningPlaces, Processes
  <2> QED BY <1>3, <2>1 DEF Boot
<1>4. ASSUME NEW p \in Pollers, Die(p) \/ Crash(p)
      PROVE  ManagersOwn'
  <2>1. poller' = [poller EXCEPT ![p].at = "dead"] \/ poller' = Halted(p)
    BY <1>4 DEF Die, Crash, Ended
  <2>2. /\ Running' = Running \ {p} /\ Steady' = Steady \ {p} /\ UNCHANGED <<handle, admin>>
    BY <1>4, <2>1 DEF Die, Crash, Halted, NoProcess, Running, Steady, RunningPlaces, Processes
  <2>3. /\ history'.strays = history.strays
        /\ history'.wanted => history.wanted /\ (p # handle \/ p \in Running \ Steady)
    BY <1>4 DEF Die, Crash, Histories
  <2> QED BY <2>2, <2>3
<1>5. ASSUME NEW a \in Admins, Request(a)
      PROVE  ManagersOwn'
  <2>1. Running' = Running /\ Steady' = Steady /\ UNCHANGED <<handle, history>>
    BY <1>5 DEF Request, Running, Steady
  <2>2. Stopping' <=> Stopping
    BY <1>5 DEF Request
  <2> QED BY <2>1, <2>2
<1>6. ASSUME NEW a \in Admins, KillAll(a)
      PROVE  ManagersOwn'
  <2>1. Stopping'
    BY <1>6 DEF KillAll, AdminMoves
  <2>2. Running' = Running /\ Steady' = history'.strays
    BY <1>6, KillSignals
  <2> QED BY <2>1, <2>2
<1>7. ASSUME NEW a \in Admins, ManagerStop(a)
      PROVE  ManagersOwn'
  <2>1. \/ handle = 0 /\ poller' = poller
        \/ handle \in Pollers /\ poller' = Halted(handle)
        \/ handle \in Pollers /\ poller' = [poller EXCEPT ![handle].signalled = TRUE]
    BY <1>7 DEF ManagerStop
  <2>2. handle' = 0 /\ ~history'.wanted /\ history'.strays = history.strays
    BY <1>7 DEF ManagerStop, Histories
  <2>3. handle \notin Steady'
    BY <1>1, <2>1 DEF Halted, NoProcess, Running, Steady, RunningPlaces, Processes
  <2>4. Steady' \subseteq Steady
    BY <2>1 DEF Halted, NoProcess, Running, Steady, RunningPlaces, Processes
  <2>5. handle' \notin Running'
    BY <1>1, <2>2
  <2> QED BY <2>2, <2>3, <2>4, <2>5
<1>8. ASSUME NEW a \in Admins, ManagerStart(a)
      PROVE  ManagersOwn'
  <2>0. history'.strays = history.strays /\ (Stopping => Stopping')
    BY <1>8 DEF ManagerStart, Histories, AdminEnds
  <2>1. CASE AlreadyStarted /\ UNCHANGED <<poller, handle>>
    <3>1. Running' = Running /\ Steady' = Steady
      BY <2>1 DEF Running, Steady
    <3>2. handle \in Running
      BY <2>1 DEF AlreadyStarted, HandleRuns
    <3> QED BY <2>0, <2>1, <3>1, <3>2
  <2>2. CASE /\ ~AlreadyStarted /\ handle' \in Pollers
             /\ poller'[handle'] = NewProcess("dashboard")
             /\ \A q \in Pollers \ {handle'} :
                  poller'[q] = IF poller[q].at = "dead" THEN NoProcess ELSE poller[q]
    <3>1. handle' \in Steady'
      BY <2>2 DEF NewProcess, Running, Steady, RunningPlaces
    <3>2. Steady' \subseteq Steady \cup {handle'}
      BY <2>2 DEF NoProcess, Running, Steady, RunningPlaces
    <3>3. handle \notin Steady
      BY <1>1, <2>2 DEF AlreadyStarted, HandleRuns
    <3> QED BY <2>0, <3>1, <3>2, <3>3
  <2> QED BY <1>8, <2>1, <2>2, StartsOne
<1>9. CASE UNCHANGED vars
  BY <1>9 DEF vars, Running, Steady
<1> QED BY <1>2, <1>3, <1>4, <1>5, <1>6, <1>7, <1>8, <1>9, DevSteps DEF AdminStep

-----------------------------------------------------------------------------
LEMMA InvInit == Init => Inv
<1> SUFFICES ASSUME Init
             PROVE  Inv
  OBVIOUS
<1> USE HostAssumption DEF HostAssumption, Init
<1>1. Typed
  <2>1. poller \in [Pollers -> Processes]
    BY DEF Processes, NoProcess, Commits, RunningPlaces
  <2>2. DeadIsHandles
    BY DEF DeadIsHandles, NoProcess
  <2>3. deploy.step = "idle" /\ deploy = NoDeploy
    BY DEF NoDeploy
  <2>4. history \in Histories
    BY DEF Histories
  <2> QED BY <2>1, <2>2, <2>4 DEF Typed, Commits, NoDeploy
<1>2. OnVpsOnly /\ OnDevOnly
  BY DEF OnVpsOnly, OnDevOnly, NoRequest, InAdmin, NoProcess
<1>3. SchemasGrow
  BY DEF SchemasGrow, NoDeploy, NoProcess, Commits
<1>4. CodeFits /\ FlagIsOwed
  BY DEF CodeFits, FlagIsOwed, NoDeploy, NoProcess, Running, Commits
<1>5. ManagersOwn /\ NoForgottenPoller
  BY DEF ManagersOwn, NoForgottenPoller, NoProcess, Steady, Running, RunningPlaces
<1> QED BY <1>1, <1>2, <1>3, <1>4, <1>5 DEF Inv

LEMMA HostInvariant == Spec => []Inv
<1>1. Inv /\ [Next]_vars => Inv'
  BY TypedStep, VpsStep, DevStep, SchemaStep, CodeStep, FlagStep, ManagersStep, NoForgottenStep DEF Inv
<1> QED BY <1>1, InvInit, PTL DEF Spec

\* After a migration the poller's old code does not keep writing to the database: only
\* between the migration and the deploy's decision, or once a deploy was cut off after
\* its pull (deploy_on_vps.sh, storage/db.py).
THEOREM OldCodeSafe == Spec => []OldCodeOffNewSchema
<1>1. Inv => OldCodeOffNewSchema
  <2> SUFFICES ASSUME Inv, NEW p \in Running, deploy.step # "migrated", ~history.aborted
               PROVE  schemaOf[poller[p].code] >= dbSchema
    BY DEF OldCodeOffNewSchema
  <2>1. p \in Pollers /\ poller[p].code \in Commits /\ head \in Commits
    BY DEF Running, Inv, Typed, Processes
  <2>2. schemaOf[poller[p].code] \in Nat /\ schemaOf[head] \in Nat /\ dbSchema \in Nat
    BY <2>1 DEF Inv, Typed
  <2>3. CASE site = "vps"
    BY <2>2, <2>3 DEF Inv, CodeFits, SchemasGrow, Typed
  <2>4. CASE site = "dev"
    BY <2>1, <2>4 DEF Inv, OnDevOnly
  <2> QED BY <2>3, <2>4 DEF Inv, Typed
<1> QED BY <1>1, HostInvariant, PTL

\* A flag makes the poller exit once, however often it cannot be deleted
\* (consume_restart_request).
THEOREM OneExitSafe == Spec => []OneExitPerDeploy
<1>1. Inv => OneExitPerDeploy
  BY DEF Inv, FlagIsOwed, OneExitPerDeploy
<1> QED BY <1>1, HostInvariant, PTL

\* However many admin requests overlap and signals fail, the manager forgets no poller it
\* did not try to end, and leaves one (PollerManager, _kill_external_pollers).
THEOREM ManagedSafe == Spec => []PollersAreManaged
<1>1. Inv => PollersAreManaged
  <2> SUFFICES ASSUME Inv
               PROVE  PollersAreManaged
    OBVIOUS
  <2>1. RestartLeavesOne
    <3> SUFFICES ASSUME site = "dev", NoRequest
                 PROVE  Cardinality(Steady \ history.strays) <= 1 /\ (history.wanted => handle \in Steady)
      BY DEF RestartLeavesOne
    <3>1. ~Stopping
      BY DEF NoRequest, Stopping, InAdmin
    <3>2. IsFiniteSet({handle}) /\ Cardinality({handle}) = 1
      BY FS_Singleton
    <3>3. Steady \ history.strays \subseteq {handle} /\ (history.wanted => handle \in Steady)
      BY <3>1 DEF Inv, ManagersOwn
    <3> QED BY <3>2, <3>3, FS_Subset, FS_CardinalityType
  <2> QED BY <2>1, TypedIsTypeOK DEF Inv, PollersAreManaged
<1> QED BY <1>1, HostInvariant, PTL
=============================================================================
