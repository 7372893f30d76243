SPECIFICATION Spec
CONSTANTS
    Players = {1, 2}
    Members = {1, 2}
    Host = 1
    Parties = {}
    Requests = {r1, r2}
    MaxPlacements = 1
    Outcomes = {"completed", "failed"}
    Stops = TRUE
    Deletes = FALSE
    Duplicates = FALSE
    Leases = FALSE
    None = None
INVARIANT RefusedOnlyInProgress
CHECK_DEADLOCK FALSE
