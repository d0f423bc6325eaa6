------------------------------ MODULE ConfigSlot ------------------------------
(***************************************************************************)
(* What nginx/Nginx.py is meant to provide to its caller: a slot for the   *)
(* config nginx serves, with the calls of Nginx.py as single steps on it.  *)
(*                                                                         *)
(* update_config answers "true if the new config was used false if error   *)
(* or if the new configuration is same as previous", and a forced one is   *)
(* used even if it is the same; validate_config tells whether nginx        *)
(* accepts a text, and changes nothing.  A kill ends the call and empties  *)
(* the slot, which is filled again.                                        *)
(*                                                                         *)
(* Only an nginx master that follows an earlier reload late can spoil      *)
(* this, while a call has a candidate in the file: it misreads, and until  *)
(* the next config is used the slot may hold what nobody asked for.        *)
(***************************************************************************)
CONSTANTS Configs, Valid, Down

VARIABLES
  served,   \* the config nginx serves, or Down
  misread,  \* the master did not read what it was told to use last
  call      \* the call in progress: state is "none", "asked", "used" or the answer

slotVars == <<served, misread, call>>

NoCall == [cfg |-> Down, update |-> FALSE, force |-> FALSE, state |-> "none"]

Init == served \in Valid /\ ~misread /\ call = NoCall

\* A call of validate_config, or of update_config, forced or not.
Ask ==
  /\ served # Down /\ call = NoCall
  /\ \E cfg \in Configs, update, force \in BOOLEAN :
       /\ force => update
       /\ call' = [cfg |-> cfg, update |-> update, force |-> force, state |-> "asked"]
  /\ UNCHANGED <<served, misread>>

\* The new config is used.
Replace ==
  /\ call.state = "asked" /\ call.update /\ call.cfg \in Valid
  /\ served' = call.cfg /\ misread' = FALSE
  /\ call' = [call EXCEPT !.state = "used"]

\* TRUE, after the config was used.
Confirm ==
  /\ call.state = "used"
  /\ call' = [call EXCEPT !.state = "true"]
  /\ UNCHANGED <<served, misread>>

\* FALSE: an error, or the config is the one in use and the caller does not insist.
Refuse ==
  /\ call.state = "asked" /\ call.update
  /\ call.cfg \in Valid => ~call.force /\ (misread \/ served = call.cfg)
  /\ call' = [call EXCEPT !.state = "false"]
  /\ UNCHANGED <<served, misread>>

\* The verdict of validate_config.
Judge ==
  /\ call.state = "asked" /\ ~call.update
  /\ call' = [call EXCEPT !.state = IF call.cfg \in Valid THEN "true" ELSE "false"]
  /\ UNCHANGED <<served, misread>>

Return ==
  /\ call.state \in {"true", "false"}
  /\ call' = NoCall
  /\ UNCHANGED <<served, misread>>

Misread ==
  /\ served # Down /\ call.state = "asked"
  /\ served' \in Valid /\ misread' = TRUE
  /\ UNCHANGED call

Kill == served' = Down /\ misread' = FALSE /\ call' = NoCall

Boot == served = Down /\ served' \in Valid /\ UNCHANGED <<misread, call>>

Next ==
  \/ Ask \/ Replace \/ Confirm \/ Refuse \/ Judge \/ Return
  \/ Misread \/ Kill \/ Boot

Spec == Init /\ [][Next]_slotVars

\* A call that nginx lives through is answered, and the slot does not stay empty.
FairSpec ==
  /\ Spec
  /\ WF_slotVars(Replace) /\ WF_slotVars(Confirm \/ Refuse \/ Judge) /\ WF_slotVars(Return)
  /\ WF_slotVars(Boot)
=============================================================================
