\* Three CPUs, two sources, no time passing: enough for two racing
\* first insertions by the same CPU while a third CPU holds a pointer.
CONSTANTS
  p1 = p1
  p2 = p2
  p3 = p3
  a = a
  b = b
  NULL = NULL
  CPUs <- MCCPUs3
  IPs <- MCIPs2
  SpareOf <- MCSpareOf3
  Rate = 1
  Burst = 1
  NsPerSec = 2
  U64 = 64
  U32 = 16
  MaxEntries = 2
  RingCap = 1
  MaxTime = 0
  MaxPackets = 6
SPECIFICATION Spec
PROPERTY BucketsIsolated
CHECK_DEADLOCK FALSE
