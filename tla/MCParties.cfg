\* Two requests at a time, which may die between two round trips.
SPECIFICATION Spec
CONSTANTS
    Players = {p1, p2, p3}
    Requests = {r1, r2}
    MaxPlayers = 3
    MaxParties = 4
    MaxInvites = 2
    Faults = TRUE
    None = None
    Host = p1
    Guest = p2
SYMMETRY Symmetry
INVARIANTS
    PartyKeyHasMember
    FormedPartyIsFresh
CHECK_DEADLOCK FALSE
