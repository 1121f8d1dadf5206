\* Six items: up to six pages, with creations and deletions between any two of
\* them.
SPECIFICATION Spec
SYMMETRY Symmetry
CHECK_DEADLOCK FALSE
CONSTANTS
    none = none
    Item = {r1, r2, r3, r4, r5, r6}
    DefaultLimit = 1
    MaxLimit = 2
    Asked <- AskedLimits
    NotANumber <- none
INVARIANTS
    CollectedOrChanged
