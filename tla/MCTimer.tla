------------------------------ MODULE MCTimer ------------------------------
(* A small instance of Timer.                                               *)
EXTENDS Timer
=============================================================================
