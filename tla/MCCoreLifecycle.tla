--------------------------- MODULE MCCoreLifecycle ---------------------------
\* Small instances of CoreLifecycle: callers and boxes are interchangeable, which the
\* safety runs use.
EXTENDS CoreLifecycle, TLC

Symmetry == Permutations(Caller) \cup Permutations(Box)
=============================================================================
