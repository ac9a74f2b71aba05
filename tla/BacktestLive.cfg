SPECIFICATION FairSpec
CONSTANTS
    MaxRuns = 1
    MaxFaults = 0
    MaxEdits = 1
CONSTRAINTS InvalidFirst RetainOnly OneBehind
CHECK_DEADLOCK FALSE
PROPERTIES OutcomeReached DeletionCompletes
