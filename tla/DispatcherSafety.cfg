SPECIFICATION Spec
CONSTANTS
    Nil = Nil
    Informer = informer
    Self = c1
    HostOf <- MCHostOf
    ChannelOf <- MCChannelOf
    Channels = {c1}
    UIDs = {u1, u2}
    Partitions = {1}
    Workers = {w1}
    Requests = {r1}
    KafkaSubscriptions = {k1, k2, k3}
    Groups = {g1, g2}
    Faults = {"start", "close", "handle", "tombstone"}
    MaxRev = 2
    MaxEdits = 5
SYMMETRY Heap
INVARIANTS
    TypeOK
    MapsAgree
    OpenGroupsReachable
    OneConsumerPerSubscription
    ReadyIsExact
PROPERTY
    SurvivorsKeepConsuming
