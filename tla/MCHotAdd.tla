------------------------------- MODULE MCHotAdd -------------------------------
\* Small instances of HotAdd: calls, servers and selectors are interchangeable.
EXTENDS HotAdd, TLC

Symmetry == Permutations(Calls) \cup Permutations(Mains) \cup Permutations(Selectors)
=============================================================================
