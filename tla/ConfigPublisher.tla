--------------------------- MODULE ConfigPublisher ---------------------------
(***************************************************************************)
(* What WebServer is for: nginx serves the wanted config.  The wanted      *)
(* config changes by steps that leave the served one alone; it is          *)
(* published whole, never a mixture and never an older one; and as long as *)
(* the two differ and nobody kills nginx, it will be published, unless the *)
(* publisher is excused.                                                   *)
(***************************************************************************)
CONSTANTS Valid, Down
VARIABLES wanted, served, excused

pubVars == <<wanted, served, excused>>

Init == wanted = {} /\ served = {} /\ excused \in BOOLEAN

Change == served' = served /\ wanted' # wanted

Publish == wanted' = wanted /\ served # Down /\ wanted \in Valid /\ served' = wanted

Kill == served' = Down /\ wanted' = {}

Boot == served = Down /\ served' \in Valid /\ wanted' = wanted

Next == (Change \/ Publish \/ Kill \/ Boot) /\ UNCHANGED excused

Spec == Init /\ [][Next]_pubVars

Fairness ==
  /\ WF_pubVars(~excused /\ Publish /\ UNCHANGED excused)
  /\ WF_pubVars(Boot /\ UNCHANGED excused)

FairSpec == Spec /\ Fairness
=============================================================================
