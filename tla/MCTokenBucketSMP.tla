-------------------------- MODULE MCTokenBucketSMP --------------------------
(* TokenBucketSMP instantiated for TLC: two CPUs, sources as model       *)
(* values, the spare elements numbered after the map's MaxEntries.       *)
EXTENDS TokenBucketSMP, TLC

CONSTANTS p1, p2, p3, a, b

MCCPUs == {p1, p2}
MCIPs1 == {a}
MCIPs2 == {a, b}
MCCPUs3 == {p1, p2, p3}
MCSpareOf3 == (p1 :> 11 @@ p2 :> 12 @@ p3 :> 13)
MCSpareOf == (p1 :> 11 @@ p2 :> 12)
=============================================================================
