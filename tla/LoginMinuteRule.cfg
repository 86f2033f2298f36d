SPECIFICATION Spec
CONSTANTS
    c1 = c1
    c2 = c2
    c3 = c3
    a1 = a1
    a2 = a2
    p64 = p64
    p56 = p56
    Conns <- MCConns
    Buckets <- MCBuckets
    KeysOf <- MCKeysOf
    Limit <- MCLimitWide
    MinuteLimit = 1
    Minutes = {1, 2}
    ClockSetBack = FALSE
PROPERTIES
    SixAttemptsWithinOneMinute
