----------------------------- MODULE MCTransfer -----------------------------
(* Much of one direction, or a little of both. *)
EXTENDS Transfer

MCLoads == {<<5, 0>>, <<0, 4>>, <<2, 2>>}
=============================================================================
