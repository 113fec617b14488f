CONSTANTS
  a = a
  b = b
  c = c
  IPs <- MCIPs
  Rate = 1
  Burst = 2
  NsPerSec = 2
  U64 = 64
  U32 = 16
  MaxEntries = 2
  RingCap = 2
  MaxTime = 6
  MaxPackets = 7
SYMMETRY MCSymmetry
SPECIFICATION HistSpec
INVARIANT TypeOK
INVARIANT WindowBound
INVARIANT DropEventsOrdered
PROPERTY RefillAdmitsAfterIdle
CHECK_DEADLOCK FALSE
