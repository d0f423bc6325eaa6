--------------------------- MODULE MCAppLifecycle ---------------------------
(* AppLifecycle with one client read by main, or one or two read by threads,  *)
(* and enough signals for a SIGTERM on top of another one's cleanup.          *)
EXTENDS AppLifecycle
=============================================================================
