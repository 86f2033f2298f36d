SPECIFICATION Spec
CONSTANTS
    Conns = {c1, c2}
    NoOne = NoOne
    MaxUnacked = 2
    MaxSwitches = 0
INVARIANT
    EarlyBreakMeansReceived
CHECK_DEADLOCK FALSE
