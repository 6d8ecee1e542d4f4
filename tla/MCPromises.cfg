\* Every call is seen through; volumes are created, or have a shareable disk made by hand.
SPECIFICATION Spec
INVARIANTS
    SharingInv
    SingleAttach
    CreatedIsReady
    PublishedStaysAttached
    UnpublishedStaysDetached
    DeletedIsNotInRde
PROPERTIES
    ImplementsVolumeService
CONSTANTS
    h1 = h1
    h2 = h2
    n1 = n1
    n2 = n2
    v1 = v1
    v2 = v2
    d1 = d1
    d2 = d2
    d3 = d3
    o1 = o1
    o2 = o2
    rwo = rwo
    rwx = rwx
    None = None
    NotFound = NotFound
    Failed = Failed
    Handlers = {h1, h2}
    Names = {n1}
    Vms = {v1, v2}
    Disks = {d1, d2}
    Ovdcs = {o1}
    Specs = {rwo, rwx}
    ShareableSpecs = {rwx}
    SpecOf <- AllRwo
    OvdcOf <- AllFirst
    InitialDisks <- StaticRwx
    ZoneMapped = FALSE
    RdeKind = "native"
    VcdChecksSharing = FALSE
    Faults = {"api", "task"}
