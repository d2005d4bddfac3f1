---------------------------- MODULE MCLifecycle ----------------------------
(* A server with one or two pipes, or a client. *)
EXTENDS Lifecycle

MCThreads == Components
=============================================================================
