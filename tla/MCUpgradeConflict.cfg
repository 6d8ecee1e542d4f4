\* Another program writes while the CSI section is converted.
SPECIFICATION Spec
PROPERTIES
    ConflictsAreRetried
CHECK_DEADLOCK FALSE
CONSTANTS
    d1 = d1
    d2 = d2
    p1 = p1
    Drivers = {d1}
    Upgraders = {d1}
    Pvs = {p1}
    RdeKinds = {"capvcd"}
    Forms = {"ok"}
    Secrets = {{"refreshToken", "username", "password"}}
    MaxRetries = 2
    Window = 2
    MaxWrites = 1
    Faults = {}
    MaxFaults = 0
