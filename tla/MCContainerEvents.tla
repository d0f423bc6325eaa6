-------------------------- MODULE MCContainerEvents --------------------------
(* ContainerEvents on one container, with or without a health check, and a    *)
(* few changes of Docker: enough for a restart within the grace period while  *)
(* the command of the first start is still queued.  Either there is a grace   *)
(* period, there are two networks and all goes well, or there is no grace     *)
(* period, requests fail and the proxy's own health changes.                  *)
EXTENDS ContainerEvents

CONSTANT n

Env(grace, fails, settled, ns) ==
  [grace |-> grace, fails |-> fails, settled |-> settled, nets |-> ns]
MCEnvironments == {Env(TRUE, FALSE, TRUE, Nets), Env(FALSE, TRUE, FALSE, {n})}
=============================================================================
