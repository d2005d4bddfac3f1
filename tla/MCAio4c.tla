------------------------------ MODULE MCAio4c ------------------------------
(* A thread of the user beside main and the library's own.                   *)
EXTENDS Aio4c

MCUsers == {"u1"}
MCThreads == {"logger", "stats"}
=============================================================================
