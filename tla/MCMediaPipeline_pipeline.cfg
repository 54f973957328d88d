CONSTANTS
    j1 = j1
    j2 = j2
    j3 = j3
    NumPipes = 2
    Unsigned = {1}
    Jobs = {j1, j2, j3}
    NoJob = NoJob
    NumObjects = 2
    QueueLimit = 3
    Policies <- MCPolicies
    Others = {"import"}
    Identities = {"s1", "s2"}
    Crashes = 1
    Fails = 1
    Losses = 1
    Drains = 1
    Cancels = 1
    Saves = 1
    Agains = 1
    Retries = 2
    Budget <- MCBudget
    MaxTroubles = 1
SPECIFICATION PipelineFairSpec
CHECK_DEADLOCK FALSE
INVARIANT OneLiveAttempt
PROPERTIES
    AttachmentsKept
    UploadsSettle
    CompletionsProjected
