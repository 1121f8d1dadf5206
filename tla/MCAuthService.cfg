\* Three workers, so that two registrations of a name and a login race; the
\* string s2 is a name and an id.
SPECIFICATION Spec
SYMMETRY Symmetry
CONSTANTS
    Worker = {w1, w2, w3}
    Name = {s1, s2}
    Id = {s2, s3, s4}
    Password = {p1, p2}
    NoName = NoName
    NoId = NoId
    NoPassword = NoPassword
    NoUser = NoUser
INVARIANTS
    TokenIsOwn
PROPERTIES
    ImplementsAccounts
