\* Every player has one request under way at a time.
SPECIFICATION Spec
CONSTANTS
    Players = {p1, p2, p3}
    LobbyIds = {l1, l2}
    Requests = {r1, r2}
    MaxJoins = 4
    Eager = FALSE
    Faults = FALSE
    None = None
SYMMETRY Symmetry
INVARIANTS MemberOfOne KeyNamesMember
PROPERTY RemovedByHostOrSelf
CHECK_DEADLOCK FALSE
