SPECIFICATION Spec
CONSTANTS
    Cases = {c1, c2}
    Threads = {t1}
    Services <- OneBusyCase
    Limit = 2
    Targets = {"VERIFICATION_PENDING"}
    MaxAttempts = 1
INVARIANT TypeOK
PROPERTIES
    OnlyFirstLookMoves
    RecoveredHasPayment
    OnlyStaleWritesTakeBack
    StuckCaseBlocks
