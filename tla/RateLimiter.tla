---------------------------- MODULE RateLimiter ----------------------------
(***************************************************************************)
(* The loader's configuration composed with the kernel's token bucket:   *)
(* the --rate and --burst arguments accepted by parse_arg are stored as   *)
(* ints in env, copied into the program's .rodata (rate_limit_pps, burst; *)
(* main, 421-422) before rateLimiter_bpf__load, and from then on are the *)
(* constants every run of tc_ingress computes with.                       *)
(***************************************************************************)
EXTENDS CliArgs

CONSTANTS
  CliRate, CliBurst,        \* the --rate and --burst arguments
  NsPerSec, U64, U32,
  IPs, MaxEntries, RingCap, MaxTime, MaxPackets

ASSUME ~ArgRejected(CliRate) /\ ~ArgRejected(CliBurst)

VARIABLES clock, rate_map, rb, delivered, pkts

(* env.rate and env.burst after argp_parse, as written to .rodata.       *)
Rodata == [rate |-> ToInt(Strtol(CliRate)), burst |-> ToInt(Strtol(CliBurst))]

Kernel == INSTANCE TokenBucket WITH Rate <- Rodata.rate, Burst <- Rodata.burst

Spec == Kernel!Spec

-----------------------------------------------------------------------------
(* The bucket the operator asked for: tc_ingress run with the --rate and *)
(* --burst values parse_arg accepted.                                     *)
Configured == INSTANCE TokenBucket WITH Rate <- CliRate, Burst <- CliBurst

(* The spec (6) lets through only arguments that configure the bucket    *)
(* they denote: every decision tc_ingress takes with the .rodata values  *)
(* (refill at 139-143, cap at 147, first-seen tokens at 127-128) is one   *)
(* the bucket of the accepted --rate and --burst would take.              *)
ConfiguredBucket == Configured!Spec

=============================================================================
