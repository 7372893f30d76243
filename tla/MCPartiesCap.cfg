SPECIFICATION HostedSpec
CONSTANTS
    Players = {p1, p2, p3, p4}
    Requests = {r1, r2}
    MaxPlayers = 3
    MaxParties = 3
    MaxInvites = 3
    Faults = FALSE
    None = None
    Host = p1
    Guest = p2
INVARIANT PartyIsCapped
CHECK_DEADLOCK FALSE
