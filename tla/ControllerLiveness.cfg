SPECIFICATION FairSpec
CONSTANTS
    Nil = Nil
    Confs <- OnlyUnset
    Scopes = {"none", "other"}
    Edits = {"annotation", "deployment", "endpoints"}
    MaxSub = 1
    MaxEdits = 2
    MaxErrors = 1
PROPERTY
    StatusFollowsChildren
CHECK_DEADLOCK FALSE
