SPECIFICATION FairSpec
CONSTANTS
  Procs = {dashboard, poller}
  Nobody = Nobody
  StartVersions = {0, 8, 11, 16}
  MaxCrashes = 1
INVARIANTS
  SchemaIsThere
  
PROPERTIES
  AllReady
CHECK_DEADLOCK FALSE
