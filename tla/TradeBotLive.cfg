SPECIFICATION FairSpec
CONSTANTS
    c1 = c1
    c2 = c2
    Configs = {c1}
    NoConfig = NoConfig
    Introspection = TRUE
    MaxFaults = 0
    MaxEdits = 1
CONSTRAINT OneEdit
CHECK_DEADLOCK FALSE
INVARIANT Converged
PROPERTIES Settles DeletionCompletes
