SPECIFICATION Spec
CONSTANTS
  t1 = t1
  t2 = t2
  d1 = d1
  d2 = d2
  g = g
  l = l
  a = a
  ab = ab
  none = none
  Tests = {t1, t2}
  Requests = {}
  Kind <- MCKind
  IDs = {a, ab}
  ID <- TwoIDs
  NoID = none
  Extends <- Prefix
  Duration = 2
  MaxRequests = 0
INVARIANTS
  SavedComplete
