\* A lobby of two and a party with a third player, every event delivered once.
SPECIFICATION Spec
CONSTANTS
    Players = {1, 2, 3}
    Members = {1, 2}
    Host = 1
    Parties = {{2, 3}}
    Requests = {r1, r2}
    MaxPlacements = 2
    Outcomes = {"completed", "failed"}
    Stops = TRUE
    Deletes = TRUE
    Duplicates = FALSE
    Leases = FALSE
    None = None
SYMMETRY Symmetry
INVARIANTS StartInvariant LobbyFollowsItsMatch
PROPERTY NothingPendingReplaced
CHECK_DEADLOCK FALSE
