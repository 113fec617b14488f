\* Two CPUs, one source, packets at ticks 0..3: a CPU that read the clock
\* before another CPU refilled the bucket then computes elapsed.
CONSTANTS
  p1 = p1
  p2 = p2
  p3 = p3
  a = a
  b = b
  NULL = NULL
  CPUs <- MCCPUs
  IPs <- MCIPs1
  SpareOf <- MCSpareOf
  Rate = 1
  Burst = 1
  NsPerSec = 2
  U64 = 64
  U32 = 16
  MaxEntries = 1
  RingCap = 1
  MaxTime = 3
  MaxPackets = 4
SPECIFICATION Spec
PROPERTY NegativeElapsedNoRefill
CHECK_DEADLOCK FALSE
