\* A worker panics and its failure is not stored; nobody issues a command.
CONSTANTS
    JobIds = {j1}
    NoJob = NoJob
    NoThread = NoThread
    Identities = {"sessionA"}
    Digests = {"d1"}
    Files = {}
    Size = 0
    Shas = {}
    CommitStates <- NonTerminal
    MaxVersion = 24
    MaxAttempt = 1
    Workers = {w1}
    Clients = {c1}
    Tickers = {k1}
    Requesters = {}
    Targets = {"dir"}
    TargetOf <- OneTarget
    Capacity = 2
    NumFiles = 1
    Readings = {"ready", "wait_device"}
    CommandKinds = {}
    Budgets <- PanicUnstored

SPECIFICATION Spec
INVARIANTS
    NoUnrequestedCancel
CHECK_DEADLOCK FALSE
