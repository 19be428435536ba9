------------------------------ MODULE MCForceStop ------------------------------
EXTENDS ForceStop, TLC

CONSTANTS k1, alice, bob, f1

\* Operators are only compared for equality.
Symmetry == Permutations({alice, bob})
=============================================================================
