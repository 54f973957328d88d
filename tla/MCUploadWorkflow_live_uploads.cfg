SPECIFICATION UploadFairSpec
CONSTANTS
    Jobs = {j1, j2}
    NoJob = NoJob
    UploadIds = {1, 2}
    NoUp = NoUp
    Clients = {c1}
    Poll = Poll
    NumObjects = 1
    NumData = 1
    Budget <- BUpload
    Versioned = FALSE
    MaxTrouble = 1
PROPERTIES OutcomeIsDelivered
CHECK_DEADLOCK FALSE
