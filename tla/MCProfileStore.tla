--------------------------- MODULE MCProfileStore ---------------------------
EXTENDS ProfileStore, TLC
CONSTANTS p1, p2, r1

\* Ids are drawn at random.
Symmetry == Permutations({p1, p2})
=============================================================================
