SPECIFICATION Spec
CONSTANTS
  Fps = {f1}
  Sellers = {a, b}
  UnknownSeller = unknown
  MaxCopies = 2
  JitterGrace = 1
  OnlineGrace = 1
  MassVanishMinSellers = 4
  MassVanishSharePct = 50
  MaxSalesPerSeller = 1
  AboveBaselinePct = 30
  LowFloorBelow = 1000
  BaselineRange = 100
  TruncMarginPct = 6
  NearFloorPct = 25
  NearFloorAbs = 8
  Offers <- SomeOffers
  Rates = {100, 104}
  FetchCap = 2
  Jitter = 2
  Baselines = {0, 900}
  MaxCycle = 5
SYMMETRY Symmetry
INVARIANTS
  UnmovedBuyoutNeverSold
  UnmovedNeverSold
CHECK_DEADLOCK FALSE
