--------------------------- MODULE MCHttpServices ---------------------------
EXTENDS HttpServices, TLC

Symmetry ==
    Permutations(Worker) \cup Permutations(User) \cup Permutations(Room)
        \cup Permutations(Name) \cup Permutations(Text)
=============================================================================
