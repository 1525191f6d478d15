SPECIFICATION FairSpec
CONSTANTS
    d1 = d1
    d2 = d2
    Nil = Nil
    UIDs = {u1}
    Pods = {d1}
    Partitions = {1, 2}
    MayClaim <- AnyPod
    NumPartitions = {2}
    States = {t1, t2}
    Callers = {w1}
    Refreshers = {}
    Faults = {}
    MaxGen = 1
    MaxEdits = 1
PROPERTY
    EventuallyReported
