--------------------------- MODULE MCRateLimiter ----------------------------
(* A small instance of RateLimiter: half-token ticks, a burst of two.      *)
EXTENDS RateLimiter

CONSTANTS c1, c2
=============================================================================
