SPECIFICATION LibraryFairSpec
CONSTANTS
    Entries = {e1, e2}
    Ops = {o1}
    Deliverers = {d1}
    NoOne = NoOne
    Uploader = Uploader
    Budget <- Imports
    MaxEvents = 5
    MaxMishaps = 0
PROPERTIES DownloadIsDelivered
CHECK_DEADLOCK FALSE
