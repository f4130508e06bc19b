SPECIFICATION Spec
CONSTANTS
  a = a
  ab = ab
  c = c
  none = none
  NoFilter = none
  Hosts = {a, ab, c}
  Commands = {"latency", "download", "list"}
  Readers <- MCReaders
  Figures <- Mixed
  Columns = {"RMS", "TTFB"}
  Sizes = {1}
  Listings <- MCListings
  t = t
  u = u
  v = v
  SortBy = "RMS"
  Micro = FALSE
  Matching <- MCMatching
  MaxInt64 = 999999
  Early <- MCEarly
  MaxPoints = 3
INVARIANTS
  TypeOK RowIsExact BytesReported FileComplete AnalysisComplete TailIsWorst PercentilesNested ListMerged
