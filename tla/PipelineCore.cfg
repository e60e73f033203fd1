SPECIFICATION Spec
CONSTANTS
  Fps = {f1}
  Sellers = {a, b}
  UnknownSeller = unknown
  NoSeller = none
  MaxCopies = 2
  JitterGrace = 1
  OnlineGrace = 1
  MassVanishMinSellers = 2
  MassVanishSharePct = 50
  MaxSalesPerSeller = 1
  AboveBaselinePct = 30
  LowFloorBelow = 10
  BaselineRange = 1
  TruncMarginPct = 0
  NearFloorPct = 25
  NearFloorAbs = 0
  ListingKinds <- MixedKinds
  Baselines = {0}
  Truncations = {TRUE, FALSE}
  DivineFallback = FALSE
  LateRelistWindow = 3
  BanMinVanishes = 50
  BanLookback = 1
  OtherVariantVanishes = 0
  TicksPerDay = 24
  AnomalyMultiple = 4
  AnomalyMinSales = 30
  AnomalyLookback = 14
  Gaps = {1}
  ClearPhases = {}
  MaxPolls = 5
  MaxCycle = 5
SYMMETRY Symmetry
INVARIANTS
  PendingUnlistedAndUnique
  PendingsMatchSales
  OneSalePerDeparture
  NoPollOverwritten
  PingPongPairsSettle
  CountersCoverSales
PROPERTIES
  SaleNeedsDeparture
  StillListedRevertsNothing
