SPECIFICATION FairSpec
CONSTANTS
    Payloads = {"p", "q"}
    MaxWrites = 2
INVARIANTS
    ReadsBack
PROPERTIES
    
    LiveHasCredentials
    DeletionCompletes
    AdmittedIsValid
CHECK_DEADLOCK FALSE
