-------------------------- MODULE MCUploadWorkflow --------------------------
(* Instances of UploadWorkflow for TLC.                                    *)
EXTENDS UploadWorkflow, TLC

Limits(starts, cancels, faults, crashes, edits) ==
    [e \in {"starts", "cancels", "faults", "crashes", "edits", "expiries"} |->
        CASE e = "starts" -> starts [] e = "cancels" -> cancels [] e = "faults" -> faults
          [] e = "crashes" -> crashes [] e = "edits" -> edits [] OTHER -> 1]

BUpload == Limits(2, 1, 1, 1, 1)
Symm == Permutations(Jobs) \cup Permutations(Clients)
=============================================================================
