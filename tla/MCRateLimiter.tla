--------------------------- MODULE MCRateLimiter ---------------------------
(* Model-checking instances of RateLimiter. *)
EXTENDS RateLimiter

(* The same for every tag. *)
Two == [tag \in Tag |-> 2]
=============================================================================
