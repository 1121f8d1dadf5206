----------------------------- MODULE MCListing -----------------------------
(* A small instance of Listing.                                               *)
EXTENDS Listing, TLC

CONSTANT none

\* A limit that is no number, a negative one, zero, all that are accepted, and
\* one too large.
AskedLimits == {none} \cup -1 .. 3

Symmetry == Permutations(Item)
=============================================================================
