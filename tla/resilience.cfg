SPECIFICATION Spec
CONSTANTS
    Budgets = {1, 2, 4}
    Bases = {0, 1, 3}
    Caps = {2, 5, 60}
INVARIANTS
    AttemptsDoNotOverlap
    RepeatsAreSpaced
CHECK_DEADLOCK FALSE
