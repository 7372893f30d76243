\* Three members and two teams; a capacity of one splits a team of two.
SPECIFICATION Spec
CONSTANTS
    Players = {p1, p2, p3}
    Teams = {red, blue}
    Capacities = {1, 2}
    None = None
SYMMETRY Symmetry
INVARIANTS TeamsAreNamed TeamsPlayTheRoster MembersAreTold
PROPERTY EvictsTheSurplus
CHECK_DEADLOCK FALSE
