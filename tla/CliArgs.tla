------------------------------ MODULE CliArgs ------------------------------
(***************************************************************************)
(* What parse_arg (rateLimiter.c) makes of a --rate or --burst argument:  *)
(* strtol's value and ERANGE, the check that rejects it, and the (int)    *)
(* conversion that stores it in env.  An argument is the number its      *)
(* digits denote; int and long are scaled to IntBits and LongBits bits.   *)
(***************************************************************************)
EXTENDS Integers

CONSTANTS
  IntBits,      \* width of int (32 in the code)
  LongBits      \* width of long (64 in the code)

ASSUME IntBits \in Nat \ {0} /\ LongBits >= IntBits

LongMax == 2^(LongBits-1) - 1
LongMin == -(2^(LongBits-1))

(* strtol(arg, NULL, 10): the value, clamped with errno = ERANGE.         *)
Strtol(x) == IF x > LongMax THEN LongMax ELSE IF x < LongMin THEN LongMin ELSE x
StrtolErange(x) == x > LongMax \/ x < LongMin

(* (int)val: the low IntBits bits, as a two's-complement value.          *)
ToInt(v) == ((v + 2^(IntBits-1)) % 2^IntBits) - 2^(IntBits-1)

(* parse_arg's test for 'r' and 'b': errno || val <= 0 -> argp_usage.    *)
ArgRejected(x) == StrtolErange(x) \/ Strtol(x) <= 0

=============================================================================
