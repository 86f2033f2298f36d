SPECIFICATION Spec
CONSTANTS
    Conns = {c1, c2}
    Peers = {p1}
    Sids = {s1}
    NoKey = NoKey
    Empty = Empty
    Permanent = Permanent
    Wrong = Wrong
    Offered = {Empty}
    Scopes = {"Remote"}
    Require2fa = {"off"}
    MaxConsecutiveFailures = 2
    MaxGeneration = 1
    MaxUuids = 0
INVARIANTS
    OneRemotePerSession
SYMMETRY Symmetry
CHECK_DEADLOCK FALSE
