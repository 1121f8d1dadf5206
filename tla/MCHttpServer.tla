---------------------------- MODULE MCHttpServer ----------------------------
(* A small instance of HttpServer: two clients, and two descriptors for them *)
(* or only one, so that numbers are given again and accept meets the limit.  *)
(* No symmetry, which would be unsound for the liveness properties.          *)
EXTENDS HttpServer
=============================================================================
