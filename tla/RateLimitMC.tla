----------------------------- MODULE RateLimitMC -----------------------------
(* RateLimit with the values of the code, two units to the minute. *)
EXTENDS RateLimit

MCFree == [login |-> 5, authorize |-> 5, bearer |-> 50, register |-> 10]

=============================================================================
