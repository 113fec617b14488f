\* --rate 16 with 4-bit ints: parse_arg accepts it (16 <= LONG_MAX) and
\* stores 0, so tc_ingress never refills; --burst 2 is stored as is.
CONSTANTS
  a = a
  IntBits = 4
  LongBits = 8
  CliRate = 16
  CliBurst = 2
  NsPerSec = 2
  U64 = 64
  U32 = 16
  IPs <- MCIPs
  MaxEntries = 1
  RingCap = 1
  MaxTime = 6
  MaxPackets = 4
SPECIFICATION Spec
PROPERTY ConfiguredBucket
CHECK_DEADLOCK FALSE
