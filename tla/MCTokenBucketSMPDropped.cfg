\* Two CPUs, one source: two first packets both miss the lookup, or
\* both increment dropped.
CONSTANTS
  p1 = p1
  p2 = p2
  p3 = p3
  a = a
  b = b
  NULL = NULL
  CPUs <- MCCPUs
  IPs <- MCIPs1
  SpareOf <- MCSpareOf
  Rate = 1
  Burst = 1
  NsPerSec = 2
  U64 = 64
  U32 = 16
  MaxEntries = 1
  RingCap = 1
  MaxTime = 3
  MaxPackets = 4
SPECIFICATION Spec
PROPERTY DroppedNeverDecreases
CHECK_DEADLOCK FALSE
