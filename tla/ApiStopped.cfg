SPECIFICATION FairSpec
CONSTANTS
    Payloads = {"p"}
    MaxWrites = 2
INVARIANTS
    BetaWritable
CHECK_DEADLOCK FALSE
