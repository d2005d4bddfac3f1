------------------------------ MODULE MCClient ------------------------------
(* A client that makes two connections; its user closes them or not. *)
EXTENDS Client

EitherWay == {"CLOSED", "PENDING_CLOSE"}
=============================================================================
