------------------------------ MODULE MCQueue ------------------------------
(* Queue with two consumers and two connections: the worker's queue,
   whose close handler removes the tasks of a connection and keeps its events. *)
EXTENDS Queue

CONSTANTS c1, c2, a, b

MCConsumers == {c1, c2}
MCConns == {a, b}
MCTypes == {"TASK", "EVENT"}
============================================================================
