----------------------------- MODULE MCCoreSetup -----------------------------
\* Small instances of CoreSetup: threads and servers are interchangeable.
EXTENDS CoreSetup, TLC

Symmetry == Permutations(Thread) \cup Permutations(Server)
=============================================================================
