---------------------------- MODULE MCRateLimiter ----------------------------
(* RateLimiter for TLC: one source, a map with room for it.              *)
EXTENDS RateLimiter, TLC

CONSTANTS a

MCIPs == {a}
=============================================================================
