----------------------------- MODULE MCMembership -----------------------------
EXTENDS Membership, TLC

CONSTANTS u1, u2, t1, t2

Symmetry == Permutations({u1, u2}) \cup Permutations({t1, t2})
=============================================================================
