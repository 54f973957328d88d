SPECIFICATION LibrarySpec
CONSTANTS
    Entries = {e1, e2}
    Ops = {o1, o2}
    Deliverers = {d1}
    NoOne = NoOne
    Uploader = Uploader
    Budget <- AnyOfThem
    MaxEvents = 4
    MaxMishaps = 2
SYMMETRY LibSymm
INVARIANT RowKeepsFiles
CHECK_DEADLOCK FALSE
