\* The lease may run out anywhere but between owned() and the write.
SPECIFICATION FairSpec
CONSTANTS
    Clients = {c1, c2, c3}
    MaxWrites = 2
    Slow = {"load", "body", "exit", "release"}
    Faults = TRUE
    Nobody = Nobody
    Dead = Dead
INVARIANT LockInvariant
PROPERTIES NoLostUpdate LockIsFreed
CHECK_DEADLOCK FALSE
