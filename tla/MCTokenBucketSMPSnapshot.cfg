\* Two CPUs, one source, a ring of one record: one CPU reserves its drop
\* event while the other drops a later packet of the same source.
CONSTANTS
  p1 = p1
  p2 = p2
  p3 = p3
  a = a
  b = b
  NULL = NULL
  CPUs <- MCCPUs
  IPs <- MCIPs1
  SpareOf <- MCSpareOf
  Rate = 1
  Burst = 1
  NsPerSec = 2
  U64 = 64
  U32 = 16
  MaxEntries = 1
  RingCap = 1
  MaxTime = 3
  MaxPackets = 4
SPECIFICATION Spec
INVARIANT EventCountIsSnapshot
CHECK_DEADLOCK FALSE
