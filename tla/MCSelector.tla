---------------------------- MODULE MCSelector -----------------------------
(* Selector with three sockets and three keys. *)
EXTENDS Selector

CONSTANTS k1, k2, k3, s1, s2, s3

MCKeys == {k1, k2, k3}
MCFds == {s1, s2, s3}
============================================================================
