----------------------------- MODULE MCThrottler -----------------------------
(* Throttler on a small instance: two calling threads (the dispatcher and the *)
(* SSL thread before the dispatcher is set) and enough timers for one stale,  *)
(* one referenced and one orphaned.                                           *)
EXTENDS Throttler
=============================================================================
