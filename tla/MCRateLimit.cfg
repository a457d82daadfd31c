\* Two clients and room for one bucket; batches from the empty one to one that
\* no bucket can pay for.
SPECIFICATION FairSpec
CONSTANTS
  IP = {i1, i2}
  Lengths = {0, 1, 3, 4}
  Rps = 1
  Burst = 3
  MaxBatch = 3
  MaxBuckets = 1
  IdleSweep = 3
  AgeCap = 3
  Absent = Absent
INVARIANT WithinMaxBuckets
PROPERTIES ImplementsTokenBuckets RetryIsServed
