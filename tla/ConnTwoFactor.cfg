SPECIFICATION Spec
CONSTANTS
    Conns = {c1, c2}
    Peers = {p1}
    Sids = {s1}
    NoKey = NoKey
    Empty = Empty
    Permanent = Permanent
    Wrong = Wrong
    Offered = {Permanent}
    Scopes = {"Remote"}
    Require2fa = {"pending"}
    MaxConsecutiveFailures = 2
    MaxGeneration = 1
    MaxUuids = 1
INVARIANTS
    TypeOK
    AuthorizedWasAuthenticated
    SecondFactorRespected
    SecondFactorEarned
SYMMETRY Symmetry
CHECK_DEADLOCK FALSE
