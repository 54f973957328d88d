SPECIFICATION DownloadSpec
CONSTANTS
    f1 = f1
    f2 = f2
    r1 = r1
    r2 = r2
    None = None
    Files = {f1, f2}
    Revisions = {r1, r2}
    Size = 3
    Interval = 2
    MaxTrouble = 3
    Requests <- EveryScope
INVARIANTS JournalIsHonest NoNeedlessHole PublishedIsExact
