SPECIFICATION RegistryFairSpec
CONSTANTS
    Callers = {c1, c2}
    Poll = poll
    Sessions = {s1}
    Plans = {p1, p2}
    MaxJobs = 3
    Budget <- MCBudget
INVARIANTS LiveIsRegistered
PROPERTIES EveryJobEnds FinishedStaysFinished
CHECK_DEADLOCK FALSE
