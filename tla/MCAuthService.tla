--------------------------- MODULE MCAuthService ----------------------------
(* Small instances of AuthService.  One of the names is also an id.          *)
EXTENDS AuthService, TLC

Symmetry == Permutations(Worker) \cup Permutations(Password)
=============================================================================
