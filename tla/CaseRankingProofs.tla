------------------------- MODULE CaseRankingProofs -------------------------
(***************************************************************************)
(* What the ranking of cases means for the escalation tool of the agents,  *)
(* whose input takes priorities from 0 to 100, and for the audit of a      *)
(* tier, for every amount and every age.                                   *)
(***************************************************************************)
EXTENDS CaseRanking, AgentRules, TLAPS

\* CasePrioritizer: the adjustments that can be made for an amount.
LEMMA AmountAdjustment ==
    ASSUME NEW amount \in Nat
    PROVE  /\ ByAmount(amount) \in {-50, -25, -10, 0, 15}
           /\ ByAmount(amount) = -50 => amount >= 500000
           /\ amount >= 25000 => ByAmount(amount) <= -10
BY DEF ByAmount

\* CasePrioritizer: the adjustments that can be made for an age.
LEMMA AgeAdjustment ==
    ASSUME NEW hours \in Nat
    PROVE  /\ ByAge(hours) \in {-20, -10, 0}
           /\ hours >= 24 => ByAge(hours) <= -10
BY DEF ByAge

\* CasePrioritizer: the adjustments that can be made for a failure code.
LEMMA CodeAdjustment ==
    ASSUME NEW code \in Codes
    PROVE  /\ ByCode(code) \in {-25, -20, 0, 10, 15, 50}
           /\ ByCode(code) = 50 <=> code = "fraud_suspected"
<1>1. CASE code \in Glitches
  BY <1>1 DEF ByCode, Glitches
<1>2. CASE code \in StepUps
  BY <1>2 DEF ByCode, Glitches, StepUps
<1>3. CASE code \in {"insufficient_funds", "card_expired", "fraud_suspected", "do_not_honor",
                     "generic_decline", "abandoned", "overdue", "unknown"}
  BY <1>3 DEF ByCode, Glitches, StepUps
<1>4. QED
  BY <1>1, <1>2, <1>3 DEF Codes, Glitches, StepUps

\* CasePrioritizer: a priority keeps well within the range it is clamped to.
THEOREM PriorityRange ==
    ASSUME NEW amount \in Nat, NEW code \in Codes, NEW hours \in Nat
    PROVE  Priority(amount, code, hours) \in 5..165
<1>1. 100 + ByAmount(amount) + ByCode(code) + ByAge(hours) \in 5..165
  BY AmountAdjustment, AgeAdjustment, CodeAdjustment
<1>2. QED
  BY <1>1 DEF Priority, Clamped

\* CasePrioritizer and EscalateCaseInput: the decision to call a person in on a
\* suspected fraud, always of the highest tier, is refused by the tool unless
\* the amount is a major one; waiting does not help.
THEOREM FraudNeedsMajorAmount ==
    ASSUME NEW amount \in Nat, NEW hours \in Nat, NEW event \in EventTypes, NEW vip \in BOOLEAN,
           NEW d \in Decisions, d.review,
           ToolAccepts(d, Priority(amount, "fraud_suspected", hours))
    PROVE  /\ amount >= 500000
           /\ RiskTier(amount, event, "fraud_suspected", vip) = "HIGH"
<1>1. Priority(amount, "fraud_suspected", hours) \in 0..100
  BY DEF ToolAccepts
<1>2. ByCode("fraud_suspected") = 50
  BY CodeAdjustment DEF Codes
<1>3. amount >= 500000
  BY <1>1, <1>2, AmountAdjustment, AgeAdjustment DEF Priority, Clamped
<1>4. QED
  BY <1>3 DEF RiskTier, TierOf

\* CasePrioritizer and EscalateCaseInput: every case of at least a moderate
\* amount that is no suspected fraud can be escalated, once it is a day old.
THEOREM ModerateCasesCanEscalate ==
    ASSUME NEW amount \in Nat, NEW hours \in Nat, NEW code \in Codes \ {"fraud_suspected"},
           amount >= 25000, hours >= 24, NEW d \in Decisions, ~d.long
    PROVE  ToolAccepts(d, Priority(amount, code, hours))
<1>1. ByCode(code) \in {-25, -20, 0, 10, 15}
  BY CodeAdjustment
<1>2. Priority(amount, code, hours) \in 0..100
  BY <1>1, AmountAdjustment, AgeAdjustment DEF Priority, Clamped
<1>3. QED
  BY <1>2 DEF ToolAccepts

\* CaseRiskClassifier: the factors recorded with a tier can add up to another
\* one.  The failure of a small payment of an ordinary customer, which the bank
\* did not honor, is LOW, with factors that make MEDIUM.
THEOREM FactorsCanShowAnotherTier ==
    ASSUME NEW amount \in Nat, amount < 25000, NEW vip \in BOOLEAN, ~vip
    PROVE  /\ RiskTier(amount, "PAYMENT_FAILED", "do_not_honor", vip) = "LOW"
           /\ TierOf(RecordedFactors(amount, "PAYMENT_FAILED", "do_not_honor", vip), "do_not_honor")
                 = "MEDIUM"
<1>1. Exposure(amount) = 0 /\ Churn("PAYMENT_FAILED") = 0 /\ Severity("do_not_honor") = 15
  BY DEF Exposure, Churn, Severity, Glitches
<1>2. RiskScore(amount, "PAYMENT_FAILED", "do_not_honor", vip) = 15
  BY <1>1 DEF RiskScore
<1>3. RecordedFactors(amount, "PAYMENT_FAILED", "do_not_honor", vip) = 30
  BY <1>1, <1>2 DEF RecordedFactors
<1>4. QED
  BY <1>2, <1>3 DEF RiskTier, TierOf
=============================================================================
