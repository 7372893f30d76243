SPECIFICATION Spec
CONSTANTS
    Players = {p1, p2, p3, p4}
    Requests = {r1}
    MaxPlayers = 3
    MaxParties = 4
    MaxInvites = 3
    Faults = FALSE
    None = None
    Host = p1
    Guest = p2
INVARIANTS
    MembersMatchKeys
    NoPartyOfOne
PROPERTY ImplementsRegistry
CHECK_DEADLOCK FALSE
