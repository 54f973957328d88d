\* Two retries of one failed job cross: the later one installs what it took before.
CONSTANTS
    JobIds = {j1, j2}
    NoJob = NoJob
    NoThread = NoThread
    Identities = {"sessionA"}
    Digests = {"d1"}
    Files = {}
    Size = 0
    Shas = {}
    CommitStates <- NonTerminal
    MaxVersion = 24
    MaxAttempt = 1
    Workers = {w1}
    Clients = {}
    Tickers = {k1}
    Requesters = {r1, r2}
    Targets = {"dir"}
    TargetOf <- OneTarget
    Capacity = 1
    NumFiles = 1
    Readings = {"ready", "wait_device"}
    CommandKinds = {}
    Budgets <- Requests

SYMMETRY Symmetry
SPECIFICATION Spec
PROPERTIES
    ImplementsLifecycle
CHECK_DEADLOCK FALSE
