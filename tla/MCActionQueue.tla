---------------------------- MODULE MCActionQueue ----------------------------
EXTENDS ActionQueue, TLC

Symmetry == Permutations(Requests) \cup Permutations(Processes)
=============================================================================
