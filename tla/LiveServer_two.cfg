SPECIFICATION Spec
CONSTANTS
  r1 = r1
  r2 = r2
  l1 = l1
  l2 = l2
  x = x
  none = none
  a = a
  b = b
  NoID = none
  Clients = {r1, r2, x}
  Signals <- MCSignals
  NoReaders = {}
  Stalling = {}
  Duration = 1
INVARIANTS
  TypeOK StopEffective

  
