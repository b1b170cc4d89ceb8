SPECIFICATION Spec
CONSTANTS
    Requests = {r1}
    Workflows = {w1}
    Actions = {"RETRY_PAYMENT"}
    MaxAttempts = 4
    MaxOrders = 2
    Disturbances = {}
    DisturbedTo = {}
INVARIANTS
    OneOrderPerKey
CHECK_DEADLOCK FALSE
