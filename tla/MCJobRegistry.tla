--------------------------- MODULE MCJobRegistry ---------------------------
(* The job registry on a small instance.                                   *)
EXTENDS JobRegistry

MCBudget == [commands |-> 3, faults |-> 1, crashes |-> 1]

=============================================================================
