SPECIFICATION FairSpec
CONSTANTS
  h1 = h1
  Hosts = {h1}
  Concurrency = 2
  Duration = 1
  PayloadSize = 1
  TestTypes = {"request", "unknown"}
  Latencies = {1}
  Failures = {"network-new-request"}
  MaxInt64 = 9
  MaxRequests = 2
  MaxBytes = 1
INVARIANTS
  TypeOK TokensConserved BoundedOverrun OneErrorPerKind
PROPERTIES
  ImplementsPool 
