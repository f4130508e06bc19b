SPECIFICATION Spec
CONSTANTS
  h1 = h1
  h2 = h2
  Hosts = {h1, h2}
  RestartOnError = TRUE
  Limit = 1
  MaxDrops = 1
INVARIANTS
  Resubscribed
