--------------------------- MODULE MCRateLimiter ---------------------------
(* TLC instances of the rate limiter. *)
EXTENDS RateLimiter

CONSTANTS r1, r2
=============================================================================
