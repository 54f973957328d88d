\* One job, one cancel and one crash, on a device that is ready or never is.
CONSTANTS
    JobIds = {j1}
    NoJob = NoJob
    NoThread = NoThread
    Identities = {"sessionA"}
    Digests = {"d1"}
    Files = {}
    Size = 0
    Shas = {}
    CommitStates <- NonTerminal
    MaxVersion = 24
    MaxAttempt = 1
    Workers = {w1}
    Clients = {c1}
    Tickers = {k1}
    Requesters = {}
    Targets = {"dir"}
    TargetOf <- OneTarget
    Capacity = 1
    NumFiles = 1
    Readings = {"ready", "capture_paused"}
    CommandKinds = {"cancel"}
    Budgets <- CommandAndCrash

SPECIFICATION FairSpec
PROPERTIES
    CommandReturns
    CancellingEnds
CHECK_DEADLOCK FALSE
