SPECIFICATION Spec
CONSTANTS
    Conns = {c1, c2}
    Peers = {p1}
    Sids = {s1}
    NoKey = NoKey
    Empty = Empty
    Permanent = Permanent
    Wrong = Wrong
    Offered = {Permanent, Wrong}
    Scopes = {"Remote"}
    Require2fa = {"off"}
    MaxConsecutiveFailures = 2
    MaxGeneration = 2
    MaxUuids = 1
INVARIANTS
    SwitchUuidOnce
    ConsecutiveMissesBounded
PROPERTIES
    RetiredStaysRetired
SYMMETRY Symmetry
CHECK_DEADLOCK FALSE
