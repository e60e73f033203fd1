SPECIFICATION FairSpec
CONSTANTS
  Sites = {"vps", "dev"}
  UnitPoller = 1
  Pollers = {1, 2, 3, 4}
  Admins = {1, 2}
  MaxCommit = 3
  MaxDeploys = 3
  MaxCommands = 3
  MaxHandStarts = 1
  MaxFaults = 2
INVARIANTS
  OldCodeOffNewSchema
  OneExitPerDeploy
  PollersAreManaged

  
CHECK_DEADLOCK FALSE
