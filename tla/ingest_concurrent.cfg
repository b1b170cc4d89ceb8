SPECIFICATION FairSpec
CONSTANTS
    Events <- Contended
    Workers = {v1, v2}
    MaxCrashes = 1
    Others = {"stop"}
INVARIANTS
    ExactlyOnce
    NoFailureLost
    RecoveredHasProof
PROPERTIES
    CasesAreNeverReplaced
    EveryEventIsProcessed
