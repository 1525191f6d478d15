SPECIFICATION FairSpec
CONSTANTS
    Nil = Nil
    Confs <- OnlyUnset
    Scopes = {"none"}
    Edits = {"subscribe", "unsubscribe", "delete"}
    MaxSub = 1
    MaxEdits = 2
    MaxErrors = 1
PROPERTIES
    SubscribersConverge
    DeletionCompletes
CHECK_DEADLOCK FALSE
