SPECIFICATION Spec
CONSTANTS
    chA = chA
    chB = chB
    pA = pA
    pB = pB
    a1 = a1
    a2 = a2
    b1 = b1
    uA = uA
    PartitionsOf <- TopicPartitions
    Own <- PodChannel
    ChannelOf <- SubscribedChannel
    Specs <- MixedSpecs
    Foreign = Foreign
    Nil = Nil
    UIDs = {uA}
    Channels = {chA, chB}
    Partitions = {pA, pB}
    Pods = {a1, b1}
    MaxEvents = 1
    MaxFaults = 1
INVARIANT
    OwnEventsOnly
CHECK_DEADLOCK FALSE
