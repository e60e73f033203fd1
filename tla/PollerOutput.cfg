SPECIFICATION Spec
CONSTANTS
  Sellers = {1, 2}
  Prices <- MCPrices
  Ratios = {100, 120}
  HistoryCycles = 1
  CooldownCycles = 2
  MaxCycles = 4
  MaxAlertFaults = 2
  Listings <- MCListings
  NewItemCooldown = 2
  ReturnMinCycles = 3
  MaxItemCycles = 4
  MaxItemFaults = 1
  ProbeKeys = {"config-down"}
  Endings = {"api-http-503"}
  Cooldown = 2
  StalePoll = 1
  DbCheckEvery = 2
  MaxUptime = 5
  MaxOpsFaults = 2
  Buckets = {"search", "fetch"}
  Policies = {"p"}
  Limits <- MCLimits
  ReservePct = 0
  Penalty = 60
  MaxDisturbances = 1
INVARIANTS
  NoAlertWithheld
PROPERTIES
  ToldOncePerCooldown
  RequestsArePaced
  LastAlertedStaysQuiet
  ShortGapIsNoNews
CHECK_DEADLOCK FALSE
