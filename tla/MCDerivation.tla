---------------------------- MODULE MCDerivation ----------------------------
EXTENDS Derivation, TLC

CONSTANTS u1, u2

UserSymm == Permutations({u1, u2})
=============================================================================
