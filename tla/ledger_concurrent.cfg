SPECIFICATION Spec
CONSTANTS
    Sessions = {t1, t2}
    Handlers = {"operator", "update", "recommend", "policy", "service", "success", "failure", "reconcile"}
    OperatorTargets = {"VERIFICATION_PENDING", "CLOSED"}
    MaxAudit = 3
INVARIANTS
    LogsGapless
    AuditCoversTransitions
PROPERTY OnlyStaleRequestsReopen
CHECK_DEADLOCK FALSE
