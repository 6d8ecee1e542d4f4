\* A driver is to move the list an old version kept; nothing fails.
SPECIFICATION FairSpec
PROPERTIES
    OldListIsMoved
CHECK_DEADLOCK FALSE
CONSTANTS
    d1 = d1
    d2 = d2
    p1 = p1
    Drivers = {d1}
    Upgraders = {d1}
    Pvs = {p1}
    RdeKinds = {"capvcd"}
    Forms = {"ok"}
    Secrets = {{"refreshToken", "username", "password"}}
    MaxRetries = 2
    Window = 2
    MaxWrites = 0
    Faults = {}
    MaxFaults = 0
