------------------------- MODULE MCSessionDownload -------------------------
EXTENDS SessionDownload, TLC

CONSTANTS f1, f2, r1, r2

WholeOf(v) == [rev |-> v, files |-> <<f1, f2>>, scope |-> "whole"]
SelectionOf(v, s) == [rev |-> v, files |-> s, scope |-> "selected"]

EveryScope == {WholeOf(r1), WholeOf(r2), SelectionOf(r2, <<f2>>)}
WholeOnly == {WholeOf(r1)}
RevSymm == Permutations({r1, r2})
=============================================================================
