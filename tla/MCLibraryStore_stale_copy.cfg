SPECIFICATION LibrarySpec
CONSTANTS
    Entries = {e1, e2}
    Ops = {o1}
    Deliverers = {d1, d2}
    NoOne = NoOne
    Uploader = Uploader
    Budget <- Quiet
    MaxEvents = 5
    MaxMishaps = 0
SYMMETRY LibSymm
PROPERTIES DeletedNeverReturns
CHECK_DEADLOCK FALSE
