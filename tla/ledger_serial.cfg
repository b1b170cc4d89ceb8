SPECIFICATION Spec
CONSTANTS
    Sessions = {t1}
    Handlers = {"operator", "update", "recommend", "policy", "service", "success", "failure", "reconcile"}
    OperatorTargets = {"CONTEXT_READY", "VERIFICATION_PENDING", "STOPPED", "CLOSED"}
    MaxAudit = 4
INVARIANTS
    TypeOK
    TimelineEndsAtState
    ChainUnbroken
    RollbackCause
PROPERTIES
    FinalFactsStay
    SerialHandlersAreAtomic
CHECK_DEADLOCK FALSE
