\* Two processes of the driver expand an attached volume, and one a shared volume, while both may
\* be attached and detached.
SPECIFICATION FairSpec
INVARIANTS
    TypeOK
    AnsweredIsThere
    NoMoreThanAsked
PROPERTIES
    ExpandedOffline
    NodeGrowsFileSystem
    ExpansionEnds
CHECK_DEADLOCK FALSE
CONSTANTS
    v1 = v1
    v2 = v2
    r1 = r1
    r2 = r2
    n1 = n1
    MbToBytes = 2
    Initial = 1
    Volumes = {v1, v2}
    Nodes = {n1}
    Resizers = {r1, r2}
    Calls <- FirstByBoth
    Requests = {4}
    AccessMode <- OneShared
    VolumeMode <- OneBlock
    StartsOn <- FirstAttached
    MaxMoves = 2
    Faults = {"request", "crash", "timeout"}
    MaxFaults = 1
