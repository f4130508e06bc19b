SPECIFICATION FairSpec
CONSTANTS
  r1 = r1
  r2 = r2
  l1 = l1
  l2 = l2
  x = x
  none = none
  a = a
  b = b
  NoID = none
  Clients = {r1, l1, l2}
  Signals <- MCSignals
  NoReaders = {r1}
  Stalling = {r1, l1}
  Duration = 2
INVARIANTS
   ListenerStays
PROPERTIES
  RunAnswered
