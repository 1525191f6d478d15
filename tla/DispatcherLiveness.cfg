SPECIFICATION FairSpec
CONSTANTS
    Nil = Nil
    Informer = informer
    Self = c1
    HostOf <- MCHostOf
    ChannelOf <- MCChannelOf
    Channels = {c1}
    UIDs = {u1, u2}
    Partitions = {1}
    Workers = {w1}
    Requests = {}
    KafkaSubscriptions = {k1, k2}
    Groups = {g1, g2}
    Faults = {"start", "close", "handle"}
    MaxRev = 1
    MaxEdits = 5
PROPERTIES
    ConsumersConverge
    LockEventuallyFree
    KeepsPromise
