----------------------------- MODULE MCLastStart -----------------------------
\* Small instances of LastStart: the configurations of connect starts are interchangeable.
EXTENDS LastStart, TLC

Symmetry == Permutations(ConnectConfig)
=============================================================================
