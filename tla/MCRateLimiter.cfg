SPECIFICATION FairSpec
CONSTANTS
  r1 = r1
  r2 = r2
  ip1 = ip1
  ip2 = ip2
  b1 = b1
  b2 = b2
  b3 = b3
  Requests <- TwoRequests
  Ips <- TwoIps
  Buckets <- ThreeBuckets
  Rate = 1
  Cost = 2
  Burst = 2
  TTL = 5
  Interval = 2
  MaxStall = 1
INVARIANTS HoldsItsBucket
PROPERTIES KeepsBuckets Forgotten
CHECK_DEADLOCK FALSE
