--------------------------- MODULE MCTokenBucket ---------------------------
(* TokenBucket instantiated for TLC.  Three sources share a map with room *)
(* for two, so both a full map and two independent buckets occur.  One   *)
(* token is earned every NsPerSec / Rate = 2 ticks; the widths are large *)
(* enough that no u32 or u64 value wraps within MaxTime and MaxPackets.  *)
EXTENDS TokenBucketHist, TLC

CONSTANTS a, b, c

MCIPs == {a, b, c}
MCSymmetry == Permutations(MCIPs)

=============================================================================
