SPECIFICATION StartedFairSpec
CONSTANTS
    Players = {1, 2}
    Members = {1, 2}
    Host = 1
    Parties = {}
    Requests = {r1, r2}
    MaxPlacements = 2
    Outcomes = {"completed", "timed_out"}
    Stops = TRUE
    Deletes = TRUE
    Duplicates = TRUE
    Leases = TRUE
    None = None
PROPERTY LockIsFreed
CHECK_DEADLOCK FALSE
