SPECIFICATION Spec
CONSTANTS
    Requests = {r1, r2}
    Workflows = {w1, w2, w3}
    Actions = {"RETRY_PAYMENT"}
    MaxAttempts = 2
    MaxOrders = 1
    Disturbances = {"case"}
    DisturbedTo = {"ACTION_PENDING"}
INVARIANTS
    TypeOK
    OneCallAtATime
    NoCallBesideUnknown
    AttemptLimitHolds
    AttemptsMatchExecutions
SYMMETRY Symmetry
CHECK_DEADLOCK FALSE
