SPECIFICATION Spec
CONSTANTS
    MaxRetryAttempts = 3
    CooldownHours = 1
    Profiles <- AllProfiles
    ConsentTerms <- Expiring
    Channels = {"email"}
    Proposals = {"SEND_REMINDER"}
    Sessions = {s1}
    Keys = {"k"}
    OperatorTargets = {"AWAITING_DECISION"}
    MaxVersion = 4
    MaxRecs = 2
    MaxDecisions = 2
    MaxFlows = 2
    MaxConsents = 2
    MaxTime = 3
INVARIANTS
    TypeOK
    ApprovalsRestOnRetries
    ApprovalsDoNotOverlap
    RefusedStaysRefused
PROPERTY RetriesHaveConsent
