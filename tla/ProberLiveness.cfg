SPECIFICATION FairSpec
CONSTANTS
    d1 = d1
    d2 = d2
    Nil = Nil
    UIDs = {u1}
    Pods = {d1, d2}
    Partitions = {1, 2}
    MayClaim <- OnePerPod
    NumPartitions = {2}
    States = {t1, t2}
    Callers = {w1}
    Refreshers = {}
    Faults = {}
    MaxGen = 2
    MaxEdits = 2
INVARIANTS
    NoOrphanedProbes
    NoLostReadiness
PROPERTY
    EventuallyReported
