SPECIFICATION Spec
CONSTANTS
  h1 = h1
  Hosts = {h1}
  Concurrency = 1
  Duration = 2
  PayloadSize = 2
  TestTypes = {"request", "stream"}
  Latencies = {1, 2}
  Failures = {}
  MaxInt64 = 9
  MaxRequests = 2
  MaxBytes = 3
INVARIANTS
  BytesConserved SampleFlagged StatsPaired PointWithinStats
