SPECIFICATION DownloadSpec
CONSTANTS
    f1 = f1
    f2 = f2
    r1 = r1
    r2 = r2
    None = None
    Files = {f1, f2}
    Revisions = {r1, r2}
    Size = 2
    Interval = 1
    MaxTrouble = 2
    Requests <- EveryScope
PROPERTY ErrorLeavesNoHole
