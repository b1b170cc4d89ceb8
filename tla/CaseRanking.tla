---------------------------- MODULE CaseRanking ----------------------------
(***************************************************************************)
(* The two numbers EventToCaseEngine gives a case: CasePrioritizer's       *)
(* priority, the smaller the more urgent, and CaseRiskClassifier's tier.   *)
(* No variables.                                                           *)
(*                                                                         *)
(* Amounts are in minor units; codes are those EventNormalizer passes on,  *)
(* event types the canonical ones, hours the full hours a case is open.    *)
(***************************************************************************)
EXTENDS Integers

Codes == {"insufficient_funds", "processing_error", "network_error", "timeout", "card_expired",
          "authentication_required", "3d_secure_required", "fraud_suspected", "do_not_honor",
          "generic_decline", "abandoned", "overdue", "unknown"}

EventTypes == {"PAYMENT_FAILED", "SUBSCRIPTION_PAYMENT_FAILED", "CHECKOUT_ABANDONED",
               "INVOICE_OVERDUE"}

Glitches == {"processing_error", "network_error", "timeout"}
StepUps == {"authentication_required", "3d_secure_required"}

-----------------------------------------------------------------------------
(* calculate_priority. *)

ByAmount(amount) ==
    IF amount >= 500000 THEN -50
    ELSE IF amount >= 100000 THEN -25
    ELSE IF amount >= 25000 THEN -10
    ELSE IF amount >= 5000 THEN 0
    ELSE 15

\* A card_declined arrives here as a generic_decline, which has no adjustment.
ByCode(code) ==
    IF code = "insufficient_funds" THEN -20
    ELSE IF code \in Glitches THEN -25
    ELSE IF code = "card_expired" THEN 15
    ELSE IF code \in StepUps \cup {"do_not_honor"} THEN 10
    ELSE IF code = "fraud_suspected" THEN 50
    ELSE 0

ByAge(hours) ==
    IF hours >= 48 THEN -20
    ELSE IF hours >= 24 THEN -10
    ELSE 0

Clamped(n) == IF n < 1 THEN 1 ELSE IF n > 1000 THEN 1000 ELSE n

Priority(amount, code, hours) == Clamped(100 + ByAmount(amount) + ByCode(code) + ByAge(hours))

-----------------------------------------------------------------------------
(* classify_risk. *)

\* What a case scores on each of the dimensions.
Exposure(amount) ==
    IF amount >= 500000 THEN 50
    ELSE IF amount >= 100000 THEN 30
    ELSE IF amount >= 25000 THEN 15
    ELSE 0

Churn(event) ==
    IF event = "SUBSCRIPTION_PAYMENT_FAILED" THEN 25
    ELSE IF event = "INVOICE_OVERDUE" THEN 20
    ELSE IF event = "CHECKOUT_ABANDONED" THEN 15
    ELSE 0

Severity(code) ==
    IF code = "fraud_suspected" THEN 35
    ELSE IF code = "card_expired" THEN 20
    ELSE IF code = "do_not_honor" THEN 15
    ELSE IF code = "insufficient_funds" THEN 10
    ELSE IF code \in Glitches THEN 5
    ELSE 0

RiskScore(amount, event, code, vip) ==
    Exposure(amount) + Churn(event) + Severity(code) + (IF vip THEN 20 ELSE 0)

\* The sum of the factors recorded beside the score: where a dimension has no
\* rule for a case, a factor is recorded and not added.
RecordedFactors(amount, event, code, vip) ==
    RiskScore(amount, event, code, vip)
        + (IF amount < 25000 THEN 5 ELSE 0)
        + (IF event = "PAYMENT_FAILED" THEN 10 ELSE 0)
        + (IF Severity(code) = 0 THEN 10 ELSE 0)

TierOf(score, code) ==
    IF score >= 50 \/ code = "fraud_suspected" THEN "HIGH"
    ELSE IF score >= 25 THEN "MEDIUM" ELSE "LOW"

RiskTier(amount, event, code, vip) == TierOf(RiskScore(amount, event, code, vip), code)
=============================================================================
