\* Requests may die and lobbies expire.
SPECIFICATION Spec
CONSTANTS
    Players = {p1, p2, p3}
    LobbyIds = {l1}
    Requests = {r1, r2}
    MaxJoins = 4
    Eager = TRUE
    Faults = TRUE
    None = None
SYMMETRY Symmetry
INVARIANTS HostIsOldest LobbyInvariant
CHECK_DEADLOCK FALSE
