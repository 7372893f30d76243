SPECIFICATION TicketsSpec
CONSTANTS
    Players = {p, q}
    Parties = {a}
    NoParty = NoParty
    NoTicket = NoTicket
    NoKey = NoKey
    MaxTickets = 3
    MaxMatches = 2
    MaxMoves = 1
    MaxEvents = 2
    LateEnds = FALSE
CONSTRAINT Bounds
SYMMETRY Symmetry
INVARIANT SettledAreMatchedOnce
PROPERTY CancelIsFinal
\* The bounds on tickets, matches and events stop the system.
CHECK_DEADLOCK FALSE
