SPECIFICATION FairSpec
CONSTANTS
    Bots = {"b1", "b2"}
    LongNames = {"b2"}
    MaxUids = 1
    LaterModes = {"Gateway"}
    MaxUpsets = 0
PROPERTIES
    CollisionReported
CHECK_DEADLOCK FALSE
