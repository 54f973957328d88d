SPECIFICATION LibrarySpec
CONSTANTS
    Entries = {e1, e2}
    Ops = {o1, o2}
    Deliverers = {d1, d2}
    NoOne = NoOne
    Uploader = Uploader
    Budget <- AnyOfThem
    MaxEvents = 4
    MaxMishaps = 1
SYMMETRY LibSymm
INVARIANT RowKeepsFiles
PROPERTIES FilesOutliveRow DeletedStaysDeleted
CHECK_DEADLOCK FALSE
