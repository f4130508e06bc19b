SPECIFICATION FairSpec
CONSTANTS
  h1 = h1
  h2 = h2
  Hosts = {h1, h2}
  RestartOnError = TRUE
  Limit = 2
  MaxDrops = 2
INVARIANTS
  TypeOK WorkCounts SuccessIsComplete AskedOnce
PROPERTIES
  Returns
