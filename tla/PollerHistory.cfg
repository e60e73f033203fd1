SPECIFICATION Spec
CONSTANTS
  Sellers = {1}
  Prices <- MCPrices
  Ratios = {100}
  HistoryCycles = 1
  CooldownCycles = 2
  MaxCycles = 3
  MaxAlertFaults = 1
  Listings <- MCListings
  NewItemCooldown = 2
  ReturnMinCycles = 3
  MaxItemCycles = 1
  MaxItemFaults = 1
  ProbeKeys = {"config-down"}
  Endings = {"api-http-503"}
  Cooldown = 2
  StalePoll = 1
  DbCheckEvery = 2
  MaxUptime = 2
  MaxOpsFaults = 0
  Buckets = {"search"}
  Policies = {"p"}
  Limits <- MCLimits
  ReservePct = 0
  Penalty = 60
  MaxDisturbances = 0
PROPERTIES
  HistorySurvivesRestart
CHECK_DEADLOCK FALSE
