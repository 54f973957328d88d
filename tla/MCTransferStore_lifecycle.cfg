\* Three rows of two sessions: completion, acknowledgement, retry lineage,
\* dismissal, deletion and renaming; and the evidence ledger of a two-byte file.
CONSTANTS
    JobIds = {j1, j2, j3}
    NoJob = NoJob
    Identities = {"sessionA", "sessionB"}
    Digests = {"d1", "d2"}
    Files = {"file1"}
    Size = 2
    Shas = {"shaA", "shaB"}
    CommitStates = {"queued", "transferring"}
    MaxVersion = 3
    MaxAttempt = 2

SYMMETRY Symmetry
SPECIFICATION MCSpec
INVARIANTS
    StoreTypeOK
    OutboxMatchesRow
    LineageIsSound
    OneLiveChild
PROPERTIES
    UndeliveredOutcomeSurvives
    TerminalIsFinal
    EvidenceIsMonotonic
CHECK_DEADLOCK FALSE
