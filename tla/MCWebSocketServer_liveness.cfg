\* No symmetry: it is unsound for liveness.  Two users and two connections are
\* enough for a replaced connection and for a connection that dies unnoticed.
CONSTANTS
    u1 = u1
    u2 = u2
    c1 = c1
    c2 = c2
    r1 = r1
    User = {u1, u2}
    Conn = {c1, c2}
    Room = {r1}
    NoUser = NoUser
    NoConn = NoConn
    NoRoom = NoRoom
SPECIFICATION FairSpec
PROPERTIES
    DeadSessionEnds
    StopReturns
