SPECIFICATION DeviceSpec
CONSTANTS
    Callers = {c1}
    Keys = {k1, k2}
    None = None
    MaxAttempts = 2
    MaxEvents = 3
SYMMETRY KeySymm
INVARIANTS SessionIsConnection ExpiredIsTrue
CHECK_DEADLOCK FALSE
