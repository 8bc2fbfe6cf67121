--------------------------- MODULE MCRateLimiter ---------------------------
(* Instances of RateLimiter for TLC: one route behind a single limiter and  *)
(* one behind two, as in the uploader.                                      *)
EXTENDS RateLimiter

MCChains == {<<5>>, <<5, 3>>}
=============================================================================
