SPECIFICATION Spec
CONSTANTS
    c1 = c1
    c2 = c2
    Configs = {c1, c2}
    NoConfig = NoConfig
    Introspection = FALSE
    MaxFaults = 1
    MaxEdits = 2
SYMMETRY ConfigSymmetry
CONSTRAINT FewUpsets
CHECK_DEADLOCK FALSE
INVARIANTS TypeOK Converged HoldsFinalizer PhaseMatchesReady JobModeNeverTrades
PROPERTIES ManualNeverRestarts FinalizerWaitsForPod
