SPECIFICATION Spec
CONSTANTS
    d1 = d1
    d2 = d2
    Nil = Nil
    UIDs = {u1}
    Pods = {d1}
    Partitions = {q1, q2}
    MayClaim <- AnyPod
    NumPartitions = {1, 2}
    States = {t1, t2}
    Callers = {w1}
    Refreshers = {p1}
    Faults = {"error", "abandon", "unclaim", "cancelPod"}
    MaxGen = 2
    MaxEdits = 3
SYMMETRY HeapAndPartitions
INVARIANT
    TypeOK
PROPERTY
    ReportsWhatWasProbed
