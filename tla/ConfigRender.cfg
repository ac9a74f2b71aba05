SPECIFICATION Spec
CONSTANTS
    Keys = {"k1", "k2"}
    MaxEdits = 2
INVARIANTS
    FieldsReachTheBot
    EnabledHasKey
    RestIsCurrent
PROPERTIES
    KeySurvives
CHECK_DEADLOCK FALSE
