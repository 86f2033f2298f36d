SPECIFICATION FairSpec
CONSTANTS
    Conns = {c1, c2}
    NoOne = NoOne
    MaxUnacked = 1
    MaxSwitches = 0
PROPERTIES
    RefreshServed
    NewSubscriberServed
CHECK_DEADLOCK FALSE
