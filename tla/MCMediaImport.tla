--------------------------- MODULE MCMediaImport ---------------------------
EXTENDS MediaImport, TLC

CONSTANTS d1, d2, u1, u2

UserSymm == Permutations({u1, u2})
=============================================================================
