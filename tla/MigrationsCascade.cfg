SPECIFICATION Spec
CONSTANTS
  Procs = {dashboard, poller}
  Nobody = Nobody
  StartVersions = {10}
  MaxCrashes = 0
CHECK_DEADLOCK FALSE
INVARIANTS
  RebuildKeepsHistory
