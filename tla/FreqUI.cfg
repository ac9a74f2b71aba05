SPECIFICATION FairSpec
CONSTANTS
    Bots = {"b1", "b2"}
    LongNames = {"b2"}
    MaxUids = 2
    LaterModes = {"Gateway"}
    MaxUpsets = 1
INVARIANTS
    TypeOK
    RestIsClean
    ReadyIsTrue
PROPERTIES
    DeletesOnlyItsOwn
    Settles
CHECK_DEADLOCK FALSE
