SPECIFICATION ReplaySpec
CONSTANTS
  Fps = {f1, f2}
  Sellers = {a, b}
  UnknownSeller = unknown
  NoSeller = none
  MaxCopies = 2
  JitterGrace = 1
  OnlineGrace = 1
  MassVanishMinSellers = 2
  MassVanishSharePct = 50
  MaxSalesPerSeller = 2
  AboveBaselinePct = 30
  LowFloorBelow = 10
  BaselineRange = 1
  TruncMarginPct = 0
  NearFloorPct = 25
  NearFloorAbs = 0
  ListingKinds <- BuyoutKinds
  Baselines = {0}
  Truncations = {TRUE, FALSE}
  DivineFallback = FALSE
  LateRelistWindow = 30
  BanMinVanishes = 50
  BanLookback = 1
  OtherVariantVanishes = 0
  TicksPerDay = 1
  AnomalyMultiple = 1
  AnomalyMinSales = 2
  AnomalyLookback = 2
  Gaps = {1}
  ClearPhases = {}
  MaxPolls = 3
  MaxCycle = 3
SYMMETRY Symmetry
INVARIANTS
  LiveSalesAreNoMassVanish
PROPERTIES
  ReplaySettles
