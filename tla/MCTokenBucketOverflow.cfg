\* A rate at which elapsed * rate_limit_pps passes 2^64 (scaled to 64)
\* after an idle period of 8 ticks: one token is due every 2 ticks.
CONSTANTS
  a = a
  b = b
  c = c
  IPs <- MCIPs
  Rate = 8
  Burst = 1
  NsPerSec = 16
  U64 = 64
  U32 = 16
  MaxEntries = 2
  RingCap = 2
  MaxTime = 8
  MaxPackets = 3
SYMMETRY MCSymmetry
SPECIFICATION HistSpec
PROPERTY RefillAdmitsAfterIdle
CHECK_DEADLOCK FALSE
