----------------------------- MODULE MCPauseWake -----------------------------
EXTENDS PauseWake, TLC

Symmetry == Permutations(Caller) \cup Permutations(Box)
=============================================================================
