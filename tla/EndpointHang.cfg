SPECIFICATION FairSpec
CONSTANTS
    Nil = Nil
    Informer = informer
    Self = c1
    HostOf <- MCHostOf
    ChannelOf <- MCChannelOf
    Channels = {c1}
    UIDs = {u1}
    Partitions = {1}
    Workers = {w1}
    Requests = {r1}
    KafkaSubscriptions = {k1, k2}
    Groups = {g1}
    Faults = {}
    MaxRev = 1
    MaxEdits = 4
PROPERTY
    LockEventuallyFree
