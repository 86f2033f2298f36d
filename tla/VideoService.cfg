SPECIFICATION Spec
CONSTANTS
    Conns = {c1, c2}
    NoOne = NoOne
    MaxUnacked = 1
    MaxSwitches = 1
SYMMETRY Perms
INVARIANTS
    NoGhostSubscriber
    SubscribeHonoured
    JoinsSwitchEncoder
PROPERTIES
    RefreshNotLost
CHECK_DEADLOCK FALSE
