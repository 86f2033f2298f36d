SPECIFICATION Spec
CONSTANTS
    Conns = {c1, c2}
    NoOne = NoOne
    MaxUnacked = 1
    MaxSwitches = 0
INVARIANT
    UnsubscribeHonoured
CHECK_DEADLOCK FALSE
