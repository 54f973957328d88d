-------------------------- MODULE MCMediaPipeline --------------------------
(* Instances of MediaPipeline: one pipeline that uploads beside one that   *)
(* imports, or two that upload.                                            *)
EXTENDS MediaPipeline

CONSTANTS j1, j2, j3, Crashes, Fails, Losses, Drains, Cancels, Saves, Agains, Retries, Others

MCPolicies == [p \in Pipes |-> IF p = 1 THEN {"upload"} ELSE Others]

MCBudget == [t \in Troubles |->
    CASE t = "crash" -> Crashes [] t = "fail" -> Fails [] t = "lose" -> Losses
      [] t = "drain" -> Drains [] t = "cancel" -> Cancels [] t = "settings" -> Saves [] t = "again" -> Agains
      [] OTHER -> Retries]
=============================================================================
