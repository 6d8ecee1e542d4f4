\* A file system volume two pods use on one node, and a third on another. Calls that kubelet
\* gave up may leave a target mounted that keeps every pod from starting.
SPECIFICATION FairSpec
INVARIANTS
    TypeOK
    PublishedStaysMounted
    PodsSeeTheDisk
    UnpublishedIsClean
    DetachedIsUnmounted
PROPERTIES
    DataIsKept
    PodsGetTheirVolume
    VolumeIsReleased
CHECK_DEADLOCK FALSE
CONSTANTS
    n1 = n1
    n2 = n2
    q1 = q1
    q2 = q2
    q3 = q3
    Nodes = {n1, n2}
    Pods = {q1, q2, q3}
    NodeOf <- TwoNodes
    VolumeMode = "Filesystem"
    Shared = FALSE
    Faults = {"command", "restart", "reboot", "timeout"}
    MaxFaults = 1
