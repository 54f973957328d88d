\* One pause, and nobody cancels.
CONSTANTS
    JobIds = {j1}
    NoJob = NoJob
    NoThread = NoThread
    Identities = {"sessionA"}
    Digests = {"d1"}
    Files = {}
    Size = 0
    Shas = {}
    CommitStates <- NonTerminal
    MaxVersion = 24
    MaxAttempt = 1
    Workers = {w1}
    Clients = {c1}
    Tickers = {k1}
    Requesters = {}
    Targets = {"dir"}
    TargetOf <- OneTarget
    Capacity = 2
    NumFiles = 1
    Readings = {"ready"}
    CommandKinds = {"pause"}
    Budgets <- OneCommand

SPECIFICATION Spec
INVARIANTS
    NoUnrequestedCancel
CHECK_DEADLOCK FALSE
