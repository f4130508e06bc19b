SPECIFICATION FairSpec
CONSTANTS
  t1 = t1
  t2 = t2
  d1 = d1
  d2 = d2
  g = g
  l = l
  a = a
  ab = ab
  none = none
  Tests = {t1, t2}
  Requests = {d1, d2, g, l}
  Kind <- MCKind
  IDs = {a, ab}
  ID <- OneID
  NoID = none
  Extends <- Plain
  Duration = 2
  MaxRequests = 2
INVARIANTS
  TypeOK SavedComplete OneWriter DownloadInOrder DownloadComplete DeleteComplete

  
