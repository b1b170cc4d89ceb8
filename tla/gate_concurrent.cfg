SPECIFICATION Spec
CONSTANTS
    MaxRetryAttempts = 3
    CooldownHours = 1
    Profiles <- RetryOrReminder
    ConsentTerms <- Unlimited
    Channels = {"email"}
    Proposals = {"SEND_REMINDER"}
    Sessions = {s1, s2}
    Keys = {}
    OperatorTargets = {"AWAITING_DECISION"}
    MaxVersion = 3
    MaxRecs = 2
    MaxDecisions = 1
    MaxFlows = 1
    MaxConsents = 2
    MaxTime = 1
SYMMETRY Symmetry
INVARIANTS
    
    OnlyDeclinesAreRecorded
