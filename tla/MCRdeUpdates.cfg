\* Two writers and the other programs, either kind of entity, three tries instead of ten;
\* it may stop when the bound on the writes is reached.
SPECIFICATION Spec
INVARIANTS
    TypeOK
    RecentReportsAreListed
    ListFollowsUpdates
    WindowsAreKept
PROPERTIES
    ImplementsStore
CHECK_DEADLOCK FALSE
CONSTANTS
    w1 = w1
    w2 = w2
    p1 = p1
    t1 = t1
    t2 = t2
    Writers = {w1, w2}
    Pvs = {p1}
    Topics = {t1, t2}
    Window = 2
    RdeKinds = {"capvcd", "native"}
    MaxRDEUpdateRetries = 3
    Faults = {"get", "put", "lost"}
    MaxWrites = 4
