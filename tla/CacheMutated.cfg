SPECIFICATION FairSpec
CONSTANTS
    Nil = Nil
    Confs <- OnlyUnset
    Scopes = {"none"}
    Edits = {"drift"}
    MaxSub = 1
    MaxEdits = 1
    MaxErrors = 1
PROPERTY
    DeploymentRepaired
CHECK_DEADLOCK FALSE
