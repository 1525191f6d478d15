SPECIFICATION FairSpec
CONSTANTS
    chA = chA
    chB = chB
    pA = pA
    pB = pB
    a1 = a1
    a2 = a2
    b1 = b1
    uA = uA
    PartitionsOf <- TopicPartitions
    Own <- PodChannel
    ChannelOf <- SubscribedChannel
    Specs <- MixedSpecs
    Foreign = Foreign
    Nil = Nil
    UIDs = {uA}
    Channels = {chA}
    Partitions = {pA}
    Pods = {a1, a2}
    MaxEvents = 3
    MaxFaults = 1
INVARIANTS
    TypeOK
    ResumesAfterDelivery
    ReliableSinksLoseNothing
PROPERTIES
    CommitsCoverHandled
    HandledEventually
CHECK_DEADLOCK FALSE
