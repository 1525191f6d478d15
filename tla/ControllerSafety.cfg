SPECIFICATION Spec
CONSTANTS
    Nil = Nil
    Confs <- ValidAndInvalid
    Scopes = {"none", "other"}
    Edits = {"subscribe", "unsubscribe", "conf", "annotation", "delete", "drift", "services"}
    MaxSub = 2
    MaxEdits = 2
    MaxErrors = 1
INVARIANTS
    TypeOK
    ReadyIsJustified
PROPERTIES
    ObservedNeverRegresses
    FinalizerGuardsProbing
CHECK_DEADLOCK FALSE
