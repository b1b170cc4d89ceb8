SPECIFICATION Spec
CONSTANTS
    Events <- Mixed
    Workers = {v1}
    MaxCrashes = 1
    Others = {"receipt"}
INVARIANTS
    TypeOK
    FailuresCounted
    OneCasePerPayment
PROPERTY SerialEventsAreAtomic
