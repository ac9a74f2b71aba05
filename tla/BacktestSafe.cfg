SPECIFICATION Spec
CONSTANTS
    MaxRuns = 2
    MaxFaults = 1
    MaxEdits = 1
CONSTRAINTS OneUpset InvalidFirst MostlyRetain FewBehind
CHECK_DEADLOCK FALSE
INVARIANTS TypeOK HoldsRun SummaryIsOwned PhaseMatchesWorkload
PROPERTIES RecordedNeverReruns RetainKeepsClaim
