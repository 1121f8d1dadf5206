\* Three users, so that one watches while another acts; three connections, so
\* that one user can be replaced twice; two rooms, so that a user can switch.
CONSTANTS
    u1 = u1
    u2 = u2
    u3 = u3
    c1 = c1
    c2 = c2
    c3 = c3
    r1 = r1
    r2 = r2
    User = {u1, u2, u3}
    Conn = {c1, c2, c3}
    Room = {r1, r2}
    NoUser = NoUser
    NoConn = NoConn
    NoRoom = NoRoom
SYMMETRY Symmetry
SPECIFICATION Spec
INVARIANTS
    SessionsMatch
    RoomsMatch
    NoGhosts
    ClientViewTrue
    LocalsFresh
    ChatReachesItsRoom
PROPERTIES
    MapsStableInStop
    ImplementsPresence
