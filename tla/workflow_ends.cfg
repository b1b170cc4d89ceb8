SPECIFICATION Spec
CONSTANTS
    Requests = {r1, r2}
    Workflows = {w1}
    Actions = {"RETRY_PAYMENT"}
    MaxAttempts = 4
    MaxOrders = 1
    Disturbances = {"consent"}
    DisturbedTo = {}
PROPERTY RequestsEnd
CHECK_DEADLOCK FALSE
