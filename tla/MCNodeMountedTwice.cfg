\* The driver restarts between the bind mount and its answer.
SPECIFICATION Spec
INVARIANTS
    OneMountPerTarget
CONSTANTS
    n1 = n1
    n2 = n2
    q1 = q1
    q2 = q2
    q3 = q3
    Nodes = {n1}
    Pods = {q1}
    NodeOf <- OneNode
    VolumeMode = "Filesystem"
    Shared = FALSE
    Faults = {"restart"}
    MaxFaults = 1
