---------------------------- MODULE BucketMath -----------------------------
(***************************************************************************)
(* The arithmetic of tc_ingress, shared by TokenBucket (one packet per    *)
(* step) and TokenBucketSMP (one memory access per step): the .rodata     *)
(* configuration, the C conversions to __u64 and __u32, the initial state *)
(* of a first-seen source and the token refill computation.               *)
(***************************************************************************)
EXTENDS Integers

CONSTANTS
  Rate,         \* .rodata rate_limit_pps (an int)
  Burst,        \* .rodata burst (an int)
  NsPerSec,     \* nanoseconds per second, 1000000000ULL scaled down
  U64,          \* 2^64 scaled down: modulus of __u64 arithmetic
  U32           \* 2^32 scaled down: modulus of the __u32 fields

ASSUME /\ Rate \in Int /\ Burst \in Int
       /\ NsPerSec \in Nat \ {0} /\ U32 \in Nat \ {0} /\ U64 >= U32

RateState == [last_ts : 0..U64-1, tokens : 0..U32-1, dropped : 0..U32-1]

(* C conversions: an int or a u64 stored into a __u64 / __u32.            *)
ToU64(x) == x % U64
ToU32(x) == x % U32

(* Fault variant: the first packet's token is not consumed.            *)
NewStateFull(now) ==
  [last_ts |-> now, tokens |-> IF Burst > 0 THEN ToU32(Burst) ELSE 0, dropped |-> 0]

(* The state a first-seen source starts with: one token is consumed by   *)
(* the packet that created it; burst <= 0 leaves tokens at 0 (memset).   *)
NewState(now) ==
  [last_ts |-> now,
   tokens  |-> IF Burst > 0 THEN ToU32(Burst - 1) ELSE 0,
   dropped |-> 0]

(* Tokens earned between last_ts and now, computed in u64 as the code    *)
(* does: elapsed and elapsed * rate both wrap modulo 2^64.                *)
TokensToAdd(last_ts, now) ==
  LET elapsed == ToU64(now - last_ts)
  IN  IF Rate > 0 /\ elapsed > 0
        THEN ToU64(elapsed * ToU64(Rate)) \div NsPerSec
        ELSE 0

(* Fault variant: the cap at burst is missing.                          *)
CappedTokensUncapped(tokens, add) == ToU32(ToU64(tokens + add))

(* tokens + add in u64, capped at burst (compared and assigned as u64),  *)
(* then stored into the __u32 field.                                      *)
CappedTokens(tokens, add) ==
  LET sum == ToU64(tokens + add)
  IN  ToU32(IF sum > ToU64(Burst) THEN ToU64(Burst) ELSE sum)

(* Fault variant: the refilled state is computed but never stored.     *)
RefillLost(st, now) == st

(* The refill block: when tokens were earned, add them capped at burst   *)
(* and move last_ts to now.                                               *)
Refill(st, now) ==
  LET add == TokensToAdd(st.last_ts, now)
  IN  IF add > 0
        THEN [st EXCEPT !.tokens = CappedTokens(st.tokens, add), !.last_ts = now]
        ELSE st

=============================================================================
