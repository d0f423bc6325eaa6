----------------------------- MODULE MCWebServer -----------------------------
(* WebServer with backends nginx accepts (Good), among them some that take    *)
(* the static site's "/" (Roots), and backends it refuses (Bad).              *)
EXTENDS WebServer

CONSTANTS Good, Bad

MCBackends == Good \cup Bad
MCValid == SUBSET (Good \cup Statics)
=============================================================================
