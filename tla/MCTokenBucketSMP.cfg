\* Two CPUs, two sources, a one-entry map: CPUs race on one bucket,
\* on its first insertion and its refill, and the map fills; a token every 2
\* ticks into a bucket of 2, so refills, decrements and drops interleave.
CONSTANTS
  p1 = p1
  p2 = p2
  p3 = p3
  a = a
  b = b
  NULL = NULL
  CPUs <- MCCPUs
  IPs <- MCIPs2
  SpareOf <- MCSpareOf
  Rate = 1
  Burst = 2
  NsPerSec = 2
  U64 = 64
  U32 = 16
  MaxEntries = 1
  RingCap = 1
  MaxTime = 3
  MaxPackets = 5
SPECIFICATION Spec
INVARIANT TypeOK
INVARIANT TokensBounded
CHECK_DEADLOCK FALSE
