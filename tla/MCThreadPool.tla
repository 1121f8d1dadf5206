---------------------------- MODULE MCThreadPool ----------------------------
(* A small instance of ThreadPool.                                           *)
EXTENDS ThreadPool
=============================================================================
