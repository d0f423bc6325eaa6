--------------------------- MODULE MCServiceEvents ---------------------------
(* ServiceEvents on two services and as many timers as their events and       *)
(* retries can keep waiting.                                                  *)
EXTENDS ServiceEvents
=============================================================================
