----------------------------- MODULE MCRendering -----------------------------
(* Three names on four servers, each with or without TLS: one name on both    *)
(* of the usual ports, one on a port of its own, one on the plain port.       *)
EXTENDS Rendering

CONSTANTS a, b, c

At(name, p) == [name |-> name, port |-> p]
MCHosts == {At(a, 80), At(a, 443), At(b, 8443), At(c, 80)}
=============================================================================
