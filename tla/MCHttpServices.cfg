\* Two handlers, for two users, with two names to take and two rooms that can get
\* the same random id.
SPECIFICATION Spec
SYMMETRY Symmetry
CONSTANTS
    Worker = {w1, w2}
    User = {u1, u2}
    Room = {r1, r2}
    Name = {n1, n2}
    Text = {t1}
    NoRow = NoRow
    NoUser = NoUser
    NoRoom = NoRoom
    NoName = NoName
    NoText = NoText
    Limit = 1
    MaxMessages = 1
INVARIANTS
    NoOrphans
PROPERTIES
    OnlyCreatorChanges
    NameAndCreatorKept
    ImplementsDirectory
