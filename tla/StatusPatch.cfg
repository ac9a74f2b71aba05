SPECIFICATION Spec
CONSTANTS
    Writers = {"controller", "poller"}
    Values = {"a", "b"}
    Steps = 4
    MaxCalls = 2
    MaxEdits = 1
    MaxFaults = 1
INVARIANTS
    TypeOK
    VersionsNameContents
PROPERTIES
    Implements
CHECK_DEADLOCK FALSE
