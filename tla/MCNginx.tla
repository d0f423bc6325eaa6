------------------------------- MODULE MCNginx -------------------------------
(* Nginx on four texts: the default, a short one (also the absent file), a    *)
(* good and a bad one.                                                        *)
EXTENDS Nginx
=============================================================================
