CONSTANTS
    j1 = j1
    j2 = j2
    j3 = j3
    NumPipes = 2
    Unsigned = {}
    Jobs = {j1, j2, j3}
    NoJob = NoJob
    NumObjects = 2
    QueueLimit = 1
    Policies <- MCPolicies
    Others = {"upload"}
    Identities = {"s1", "s2"}
    Crashes = 0
    Fails = 0
    Losses = 0
    Drains = 0
    Cancels = 0
    Saves = 0
    Agains = 0
    Retries = 0
    Budget <- MCBudget
    MaxTroubles = 1
SPECIFICATION PipelineFairSpec
CHECK_DEADLOCK FALSE
PROPERTY UploadsSettle
