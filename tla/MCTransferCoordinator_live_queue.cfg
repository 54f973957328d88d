\* One worker and a ready queue of one slot: two jobs; or one, while the device goes or captures and comes back.
CONSTANTS
    JobIds = {j1, j2}
    NoJob = NoJob
    NoThread = NoThread
    Identities = {"sessionA"}
    Digests = {"d1"}
    Files = {}
    Size = 0
    Shas = {}
    CommitStates <- NonTerminal
    MaxVersion = 24
    MaxAttempt = 1
    Workers = {w1}
    Clients = {}
    Tickers = {k1}
    Requesters = {}
    Targets = {"dir"}
    TargetOf <- OneTarget
    Capacity = 1
    NumFiles = 1
    Readings = {"ready", "capture_paused", "wait_device"}
    CommandKinds = {}
    Budgets <- QueueOrDevice

SPECIFICATION FairSpec
INVARIANTS
    NoUnrequestedCancel
PROPERTIES
    JobFinishes
CHECK_DEADLOCK FALSE
