SPECIFICATION FairSpec
CONSTANTS
  Threads = {1, 2, 3}
  Full = Full
  Requests = {0, Full}
  MaxSinceAge = 2
  Bucket = 1
  TTLFull = 2
  TTLWindow = 1
  MaxBuilds = 1
  MaxEntries = 1
  MaxClock = 3
  MaxRequests = 3
INVARIANTS
  TypeOK
  OneBuildPerKey
  BodyCoversItsKey
PROPERTIES
  ReadsNeverGoBack
  RequestsEnd
CHECK_DEADLOCK FALSE
