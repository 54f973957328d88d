\* One job and one worker with two commands, or with a device that changes and a
\* process that dies; two jobs of one directory and two workers; or two enqueues or
\* retries that cross without a late install, or one and a crash.
CONSTANTS
    JobIds = {j1, j2}
    NoJob = NoJob
    NoThread = NoThread
    Identities = {"sessionA"}
    Digests = {"d1"}
    Files = {}
    Size = 0
    Shas = {}
    CommitStates <- NonTerminal
    MaxVersion = 24
    MaxAttempt = 1
    Workers = {w1, w2}
    Clients = {c1}
    Tickers = {k1}
    Requesters = {r1, r2}
    Targets = {"dir"}
    TargetOf <- OneTarget
    Capacity = 1
    NumFiles = 1
    Readings = {"ready", "wait_device"}
    CommandKinds = {"pause", "resume", "cancel"}
    Budgets <- CommandsOrRequests

SYMMETRY Symmetry
CONSTRAINT NoLateInstall
SPECIFICATION Spec
INVARIANTS
    OneWriterPerTarget
    PausedIsQuiet
    TerminalIsQuiet
    CancelAcked
    MemoryMatchesStore
PROPERTIES
    ImplementsLifecycle
CHECK_DEADLOCK FALSE
