----------------------------- MODULE PolicyRules -----------------------------
(***************************************************************************)
(* The rules of the policy engine: five evaluators, each of which answers  *)
(* for one snapshot of the case with a status and a reason, and the        *)
(* aggregation of their answers into a decision.  No variables.            *)
(*                                                                         *)
(* Times are those of the model's clock, in hours; NoTime is a NULL.  A    *)
(* list of consents is in the order they were granted.                     *)
(***************************************************************************)
EXTENDS CaseLifecycle, Integers, Sequences, FiniteSets

CONSTANTS
    MaxRetryAttempts,  \* PolicyConfig.max_retry_attempts (3)
    CooldownHours      \* PolicyConfig.retry_cooldown_hours (4)

ASSUME LimitsAssumption == MaxRetryAttempts \in Nat /\ CooldownHours \in Nat

NoTime == 0

CustomerActions == {"RETRY_PAYMENT", "SEND_REMINDER"}
ActionTypes == CustomerActions \cup {"REQUEST_OPERATOR_REVIEW", "STOP", "NONE"}

ConsentTypes == {"RECURRING_BILLING", "COMMUNICATION_EMAIL", "COMMUNICATION_SMS"}
ConsentStatuses == {"GRANTED", "REVOKED", "EXPIRED"}

ValidationStatuses == {"NOT_VALIDATED", "VALID", "INVALID", "REJECTED_BY_POLICY"}
DecisionStatuses == {"APPROVED", "REJECTED", "REQUIRES_REVIEW", "INSUFFICIENT_INFORMATION"}

-----------------------------------------------------------------------------
(* Answers, and evaluators as lists of checks: the first check that        *)
(* applies gives the answer, none means the rule passed.                   *)

Passed == [status |-> "PASSED", reason |-> "OK"]
Failed(reason) == [status |-> "FAILED", reason |-> reason]
Review(reason) == [status |-> "NEEDS_REVIEW", reason |-> reason]
Missing(reason) == [status |-> "MISSING_INFO", reason |-> reason]

Check(applies, answer) == [applies |-> applies, answer |-> answer]

FirstOf(checks) ==
    LET hits == {i \in DOMAIN checks : checks[i].applies}
    IN  IF hits = {} THEN Passed
        ELSE checks[CHOOSE i \in hits : \A j \in hits : i <= j].answer

-----------------------------------------------------------------------------
(* EligibilityEvaluator: the recommendation must be of this case's recent  *)
(* past and the case in a state something can be done about.  Customer and *)
(* transaction are compared with the case's own, and never differ.         *)

IsStale(rec, case) ==
    \/ rec.status \in {"INVALID", "REJECTED_BY_POLICY"}
    \/ rec.version < case.version - 2

\* Fault: of the states only the final ones are refused.
EligibilityIfOpen(case, rec) ==
    FirstOf(<<
        Check(IsStale(rec, case), Failed("RECOMMENDATION_STALE")),
        Check(case.state = "RECOVERED", Failed("CASE_ALREADY_RECOVERED")),
        Check(case.state = "CLOSED", Failed("CASE_CLOSED")),
        Check(case.state = "STOPPED", Failed("CASE_CANCELLED")) >>)

Eligibility(case, rec) ==
    FirstOf(<<
        Check(IsStale(rec, case), Failed("RECOMMENDATION_STALE")),
        Check(case.state = "RECOVERED", Failed("CASE_ALREADY_RECOVERED")),
        Check(case.state = "CLOSED", Failed("CASE_CLOSED")),
        Check(case.state = "STOPPED", Failed("CASE_CANCELLED")),
        Check(case.state \in {"ACTION_PENDING", "VERIFICATION_PENDING"},
              Failed("WORKFLOW_ALREADY_ACTIVE")),
        Check(case.state \notin ActionableStates, Failed("CASE_NOT_ACTIONABLE")) >>)

-----------------------------------------------------------------------------
(* ConsentValidator: of the consents of the required type, for any         *)
(* merchant or for this one, the one granted last decides.                 *)

NoMerchant == "none"

RequiredConsents(action, channel) ==
    CASE action = "RETRY_PAYMENT" -> {"RECURRING_BILLING"}
      [] action = "SEND_REMINDER" /\ channel = "sms" -> {"COMMUNICATION_SMS"}
      [] action = "SEND_REMINDER" /\ channel # "sms" -> {"COMMUNICATION_EMAIL"}
      [] OTHER -> {}

\* CustomerConsentRecord.is_valid: the status is GRANTED and the consent has
\* not run out.  A revoked record has the status REVOKED.
IsValid(consent, now) ==
    /\ consent.status = "GRANTED"
    /\ consent.expires = NoTime \/ now < consent.expires

OfTypes(consents, types) == {i \in DOMAIN consents : consents[i].type \in types}

ForMerchant(consents, S, merchant) ==
    {i \in S : merchant = NoMerchant \/ consents[i].merchant \in {NoMerchant, merchant}}

ConsentAnswer(consent, now) ==
    FirstOf(<<
        Check(consent.status = "REVOKED", Failed("CONSENT_REVOKED")),
        Check(consent.expires # NoTime /\ now >= consent.expires, Failed("CONSENT_EXPIRED")),
        Check(consent.status # "GRANTED", Failed("CONSENT_STATUS_EXPIRED")) >>)

ConsentRule(action, channel, consents, merchant, now) ==
    LET types == RequiredConsents(action, channel)
        ofType == OfTypes(consents, types)
        candidates == ForMerchant(consents, ofType, merchant)
    IN  CASE types = {} -> Passed
          [] types # {} /\ ofType = {} -> Failed("CONSENT_MISSING")
          [] ofType # {} /\ candidates = {} -> Failed("CONSENT_MERCHANT_MISMATCH")
          [] candidates # {} ->
                ConsentAnswer(consents[CHOOSE i \in candidates : \A j \in candidates : j <= i], now)

-----------------------------------------------------------------------------
(* RetryLimitEvaluator.  An attempt has a status, an action and the time   *)
(* it started or finished; the keys of attempts name the case and its      *)
(* attempts and are never proposed as the key of an evaluation.            *)

NonRetryableCodes ==
    {"fraud_suspected", "stolen_card", "lost_card", "account_closed", "pickup_card", "restricted_card"}

SomeAttempt(attempts, status) == \E i \in DOMAIN attempts : attempts[i].status = status

\* The attempts that have used up quota.
Consumed(attempts) ==
    {i \in DOMAIN attempts : /\ attempts[i].action = "RETRY_PAYMENT"
                             /\ attempts[i].status # "CANCELLED"}

RetryLimit(action, attempts, code, now) ==
    IF action # "RETRY_PAYMENT" THEN Passed
    ELSE FirstOf(<<
        Check(code \in NonRetryableCodes, Failed("RETRY_NOT_SUPPORTED")),
        Check(SomeAttempt(attempts, "SUCCEEDED"), Failed("PREVIOUS_ATTEMPT_SUCCEEDED")),
        Check(SomeAttempt(attempts, "STARTED"), Failed("RETRY_ALREADY_IN_PROGRESS")),
        Check(SomeAttempt(attempts, "UNCERTAIN"), Review("PREVIOUS_OUTCOME_UNKNOWN")),
        Check(Cardinality(Consumed(attempts)) >= MaxRetryAttempts, Failed("RETRY_LIMIT_EXCEEDED")),
        Check(\E i \in Consumed(attempts) : now - attempts[i].at < CooldownHours,
              Failed("RETRY_COOLDOWN_ACTIVE")) >>)

-----------------------------------------------------------------------------
(* StrategyValidator, for an action: the strategy is the catalog's for it. *)

StrategyRule(action, code, state, contact) ==
    FirstOf(<<
        Check(state \in TerminalStates /\ action \notin {"STOP", "NONE"},
              Failed("STRATEGY_CASE_STATE_MISMATCH")),
        Check(action = "SEND_REMINDER" /\ ~contact, Failed("STRATEGY_PREREQUISITE_MISSING")),
        Check(action = "SEND_REMINDER" /\ code \in {"provider_timeout", "network_error"},
              Failed("STRATEGY_FAILURE_MISMATCH")) >>)

-----------------------------------------------------------------------------
(* EscalationEvaluator. *)

FraudCodes ==
    {"fraud_suspected", "stolen_card", "lost_card", "pickup_card", "restricted_card",
     "security_violation"}

HighValueThreshold(currency) == IF currency = "JPY" THEN 150000 ELSE 100000

\* Fault: the confidence every recommendation has at least.
MinConfidenceIdle == 5000

MinConfidence == 6000

\* PolicyEngineService compares the status of an attempt with a member of
\* another enum, so that cancelled retries count here, though not above.
RetriesSpent(attempts) ==
    Cardinality({i \in DOMAIN attempts : attempts[i].action = "RETRY_PAYMENT"}) >= MaxRetryAttempts

Escalation(txn, attempts, confidence) ==
    FirstOf(<<
        Check(txn.code \in FraudCodes, Review("FRAUD_RESTRICTION")),
        Check(txn.amount >= HighValueThreshold(txn.currency), Review("HIGH_VALUE_REVIEW_REQUIRED")),
        Check(RetriesSpent(attempts), Review("RETRY_EXHAUSTED")),
        Check(SomeAttempt(attempts, "UNCERTAIN"), Review("PAYMENT_OUTCOME_UNCERTAIN")),
        Check(txn.code \in {"", "unknown", "unknown_failure"}, Review("UNKNOWN_FAILURE_CATEGORY")),
        Check(confidence < MinConfidence, Review("LOW_AI_CONFIDENCE")) >>)

-----------------------------------------------------------------------------
(* PolicyEngineService. *)

\* _aggregate_decision: the answers of the gravest status there is.
Aggregate(answers) ==
    LET Reasons(status) == {answers[i].reason : i \in {j \in DOMAIN answers : answers[j].status = status}}
    IN  CASE Reasons("FAILED") # {} -> [status |-> "REJECTED", reasons |-> Reasons("FAILED")]
          [] Reasons("FAILED") = {} /\ Reasons("MISSING_INFO") # {} ->
                [status |-> "INSUFFICIENT_INFORMATION", reasons |-> Reasons("MISSING_INFO")]
          [] Reasons("FAILED") \cup Reasons("MISSING_INFO") = {} /\ Reasons("NEEDS_REVIEW") # {} ->
                [status |-> "REQUIRES_REVIEW", reasons |-> Reasons("NEEDS_REVIEW")]
          [] OTHER -> [status |-> "APPROVED", reasons |-> {}]

\* Rejections that end the case.
FinalReasons ==
    {"RETRY_LIMIT_EXCEEDED", "CASE_ALREADY_RECOVERED", "CASE_CANCELLED", "CASE_CLOSED",
     "RETRY_NOT_SUPPORTED"}

\* Faults: the status itself; a rejection leaves the recommendation as it was.
ValidationStatusVerbatim(status) == status
ValidationStatusKept(status) == IF status = "APPROVED" THEN "VALID" ELSE "NOT_VALIDATED"

\* map_policy_to_validation_status.
ValidationStatus(status) ==
    CASE status = "APPROVED" -> "VALID"
      [] status = "REJECTED" -> "REJECTED_BY_POLICY"
      [] status = "REQUIRES_REVIEW" -> "NOT_VALIDATED"
      [] status = "INSUFFICIENT_INFORMATION" -> "INVALID"

\* evaluate, up to the decision it persists: everything the engine looks at
\* is in the snapshot s.
Evaluate(s) ==
    Aggregate(<<
        Eligibility(s.case, s.rec),
        ConsentRule(s.action, s.channel, s.consents, s.merchant, s.now),
        RetryLimit(s.action, s.attempts, s.txn.code, s.now),
        StrategyRule(s.action, s.txn.code, s.case.state, s.contact),
        Escalation(s.txn, s.attempts, s.rec.confidence) >>)

=============================================================================
