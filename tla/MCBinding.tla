----------------------------- MODULE MCBinding ------------------------------
(* Two accepted connections, or a client without and with a retry.         *)
EXTENDS Binding

Both == {"client", "server"}
=============================================================================
