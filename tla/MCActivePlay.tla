----------------------------- MODULE MCActivePlay -----------------------------
EXTENDS ActivePlay, TLC

CONSTANTS s1, s2, k1, t1, t2

Symmetry == Permutations({s1, s2}) \cup Permutations({t1, t2})
=============================================================================
