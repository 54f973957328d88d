--------------------------- MODULE MCLibraryStore ---------------------------
(* Instances of LibraryStore for TLC.                                      *)
EXTENDS LibraryStore, TLC

AnyOfThem == [k \in Kinds |-> IF k = "faults" THEN 1 ELSE 2]
Quiet == [k \in Kinds |-> IF k \in {"deletes", "downloads", "saves"} THEN 1 ELSE 0]
Imports == [k \in Kinds |-> IF k \in {"imports", "downloads"} THEN 1 ELSE 0]
LibSymm == Permutations(Ops) \cup Permutations(Entries) \cup Permutations(Deliverers)
=============================================================================
