\* A rolling update: two drivers that start beside each other, with every fault.
SPECIFICATION FairSpec
INVARIANTS
    TypeOK
    VolumesAreListed
    ServingIsUpgraded
    UpgradeErrorIsCleared
PROPERTIES
    DeletedStayAway
    OthersAreKept
    DriverServes
CHECK_DEADLOCK FALSE
CONSTANTS
    d1 = d1
    d2 = d2
    p1 = p1
    Drivers = {d1, d2}
    Upgraders = {d1}
    Pvs = {p1}
    RdeKinds = {"capvcd", "native", "none"}
    Forms = {"ok", "badPvs", "badCsi"}
    Secrets = {{"username"}}
    MaxRetries = 2
    Window = 2
    MaxWrites = 2
    Faults = {"request", "connection", "crash"}
    MaxFaults = 1
