------------------------------ MODULE MCServer ------------------------------
(* Server with one connection, or two. *)
EXTENDS Server

CONSTANTS a, b

OneConn == {a}
TwoConns == {a, b}
EveryReaction == {"none", "write", "close", "finish"}
=============================================================================
