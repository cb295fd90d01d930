--------------------------- MODULE MCRateLimiter ---------------------------
(***************************************************************************)
(* Five tasks compete for three permits of one limiter, so that two tasks  *)
(* can queue for a permit while two queue for the mutex.  Their clones     *)
(* have intervals of 2, 2, 1 and 0 ticks, and one has none.                *)
(***************************************************************************)
EXTENDS LimiterStarts

CONSTANTS a, b, c, d, e

MCTasks == {a, b, c, d, e}
MCSpaced == {a, b, c, d}
MCInterval == a :> 2 @@ b :> 2 @@ c :> 1 @@ d :> 0

=============================================================================
