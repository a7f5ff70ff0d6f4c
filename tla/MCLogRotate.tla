---------------------------- MODULE MCLogRotate -----------------------------
EXTENDS LogRotate, TLC

Symmetry == Permutations(Writer)

=============================================================================
