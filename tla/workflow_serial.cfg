SPECIFICATION Spec
CONSTANTS
    Requests = {r1}
    Workflows = {w1, w2, w3}
    Actions = {"RETRY_PAYMENT", "SEND_REMINDER", "REQUEST_OPERATOR_REVIEW", "NO_ACTION"}
    MaxAttempts = 2
    MaxOrders = 2
    Disturbances = {"consent", "crash"}
    DisturbedTo = {}
INVARIANTS
    OnlyFailuresAreRetried
    CaseFollowsOutcome
SYMMETRY Symmetry
CHECK_DEADLOCK FALSE
