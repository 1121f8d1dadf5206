------------------------- MODULE MCWebSocketServer -------------------------
(* Small instances of WebSocketServer: users, connections and rooms are model *)
(* values; connections are reused after their close handler ran.              *)
EXTENDS WebSocketServer, TLC

\* Sound for the safety runs only.
Symmetry == Permutations(User) \cup Permutations(Conn) \cup Permutations(Room)
=============================================================================
