------------------------- MODULE RecoveryGateProofs -------------------------
(***************************************************************************)
(* Theorems about RecoveryGate for any profiles, consents, keys, proposed  *)
(* actions, targets of operators, limits and bounds: some for any number   *)
(* of requests at once, some for requests that are served one at a time.   *)
(***************************************************************************)
EXTENDS RecoveryGate, FiniteSetTheorems, SequenceTheorems, TLAPS

-----------------------------------------------------------------------------
(* The inductive invariant, for any number of requests at once. *)

RecRecords ==
    [action : ActionTypes, confidence : 0..10000, status : ValidationStatuses, prior : 0..4,
     number : Nat]

DecisionRecords ==
    [key : Keys \cup {NoKey}, rec : Nat, action : ActionTypes, status : DecisionStatuses,
     version : Nat]

FlowRecords ==
    [status : {"PENDING", "RUNNING", "WAITING", "FAILED", "REQUIRES_REVIEW", "COMPLETED"},
     action : ActionTypes, decision : Nat, step : Nat \ {0}]

\* A retry is only ever recorded as declined: OnlyDeclinesAreRecorded, with types.
AttemptRecords == [status : {"FAILED"}, action : {"RETRY_PAYMENT"}, at : Nat]

CaseTyped ==
    /\ state \in States /\ txn \in TxnStatuses /\ ahead \in BOOLEAN
    /\ version \in Nat \ {0} /\ version <= MaxVersion + Len(decisions)
    /\ facts \in Profiles /\ now \in 1..MaxTime

ListsTyped ==
    /\ recs \in Seq(RecRecords) /\ decisions \in Seq(DecisionRecords) /\ consents \in Seq(Consents)
    /\ Len(decisions) <= MaxDecisions
    /\ attempts \in Seq(AttemptRecords) /\ Len(attempts) <= 4
    /\ \A i \in DOMAIN attempts : attempts[i].at \in 1..now
    /\ flows \in Seq(FlowRecords)

\* A workflow stands on a decision, a decision on a recommendation, and a
\* recommendation has left the audit log ahead of the transition log.
Linked ==
    /\ \A f \in DOMAIN flows : flows[f].decision \in DOMAIN decisions
    /\ \A d \in DOMAIN decisions : decisions[d].rec \in DOMAIN recs
    /\ recs # <<>> => ahead

\* Confidence enough for an approval comes with a retry after at most one
\* attempt, or with a STOP.
Earned(r) ==
    \/ r.action = "RETRY_PAYMENT" /\ r.prior <= 1
    \/ r.confidence < MinConfidence
    \/ r.action = "STOP"

RecsEarned == \A i \in DOMAIN recs : Earned(recs[i])

\* What never changes of a recommendation.
SameRec(r, q) == r.action = q.action /\ r.confidence = q.confidence /\ r.prior = q.prior

\* What a request has loaded is of rows that are still there, though they may
\* have changed and others may have come.
Loaded(h) ==
    /\ h.state \in States /\ h.now \in 1..now
    /\ h.version \in Nat \ {0} /\ h.version <= MaxVersion + Len(decisions)
    /\ h.recs \in Seq(RecRecords) /\ DOMAIN h.recs \subseteq DOMAIN recs
    /\ \A i \in DOMAIN h.recs : SameRec(recs[i], h.recs[i])
    /\ h.decisions \in Seq(DecisionRecords) /\ DOMAIN h.decisions \subseteq DOMAIN decisions
    /\ h.attempts \in Seq(AttemptRecords) /\ Len(h.attempts) <= 4
    /\ h.flows \in Seq(FlowRecords) /\ DOMAIN h.flows \subseteq DOMAIN flows
    /\ \A f \in DOMAIN h.flows : h.flows[f].decision \in DOMAIN decisions

HeldLoaded ==
    /\ held = [s \in Sessions |-> held[s]]
    /\ \A s \in Sessions : \A h \in held[s] : Loaded(h)

Books == CaseTyped /\ ListsTyped /\ Linked /\ RecsEarned /\ ApprovalsNeedConfidence

GInv == Books /\ HeldLoaded

-----------------------------------------------------------------------------
(* Small sets of numbers. *)

\* A function on some of 1..7 with integer values takes a greatest value: there
\* is a winner among the strategies, and a first check that applies.
LEMMA GreatestValue ==
    ASSUME NEW C, C \subseteq 1..7, C # {},
           NEW f, \A i \in C : f[i] \in Int
    PROVE  \E i \in C : \A j \in C : f[i] >= f[j]
<1> DEFINE Greatest(k) ==
        (\E c \in C : c <= k) => \E i \in C : i <= k /\ \A j \in C : j <= k => f[i] >= f[j]
<1>1. Greatest(0)
  OBVIOUS
<1>2. ASSUME NEW k \in 0..6, Greatest(k)
      PROVE  Greatest(k + 1)
  <2> SUFFICES ASSUME NEW c \in C, c <= k + 1
               PROVE  \E i \in C : i <= k + 1 /\ \A j \in C : j <= k + 1 => f[i] >= f[j]
    OBVIOUS
  <2>1. \A j \in C : j <= k + 1 <=> j <= k \/ j = k + 1
    OBVIOUS
  <2>2. CASE k + 1 \notin C
    BY <1>2, <2>1, <2>2
  <2>3. CASE k + 1 \in C /\ ~ \E b \in C : b <= k
    BY <2>1, <2>3
  <2>4. CASE k + 1 \in C /\ \E b \in C : b <= k
    <3>1. PICK i \in C : i <= k /\ \A j \in C : j <= k => f[i] >= f[j]
      BY <1>2, <2>4
    <3>2. CASE f[i] >= f[k + 1]
      BY <2>1, <3>1, <3>2
    <3>3. CASE ~(f[i] >= f[k + 1])
      BY <2>1, <2>4, <3>1, <3>3
    <3> QED BY <3>2, <3>3
  <2> QED BY <2>2, <2>3, <2>4
<1> HIDE DEF Greatest
<1>3. Greatest(1) /\ Greatest(2) /\ Greatest(3) /\ Greatest(4)
  BY <1>1, <1>2, 0 + 1 = 1, 1 + 1 = 2, 2 + 1 = 3, 3 + 1 = 4
<1>4. Greatest(5) /\ Greatest(6) /\ Greatest(7)
  BY <1>2, <1>3, 4 + 1 = 5, 5 + 1 = 6, 6 + 1 = 7
<1>5. \A j \in C : j <= 7
  OBVIOUS
<1>6. \E i \in C : i <= 7 /\ \A j \in C : j <= 7 => f[i] >= f[j]
  BY <1>4, <1>5 DEF Greatest
<1> QED BY <1>5, <1>6

LEMMA SmallestMember ==
    ASSUME NEW S, S \subseteq 1..7, S # {}
    PROVE  \E i \in S : \A j \in S : i <= j
<1> DEFINE f == [i \in S |-> 0 - i]
<1>1. \A i \in S : f[i] \in Int /\ f[i] = 0 - i
  OBVIOUS
<1> HIDE DEF f
<1>2. PICK i \in S : \A j \in S : f[i] >= f[j]
  BY <1>1, GreatestValue
<1> QED BY <1>1, <1>2

\* Least finds it.
LEMMA LeastMember ==
    ASSUME NEW S, S \subseteq 1..7, S # {}
    PROVE  Least(S) \in S
BY SmallestMember DEF Least

\* Least of two numbers is their minimum.
LEMMA LeastOfTwo ==
    ASSUME NEW a \in Int, NEW b \in Int
    PROVE  Least({a, b}) = IF a <= b THEN a ELSE b
BY DEF Least

-----------------------------------------------------------------------------
(* What the rules of the policy engine say together. *)

\* A list of checks answers with one of them that applies, or passes because
\* none does.
LEMMA FirstAnswer ==
    ASSUME NEW checks, DOMAIN checks \subseteq 1..7
    PROVE  \/ FirstOf(checks) = Passed /\ \A i \in DOMAIN checks : ~checks[i].applies
           \/ \E i \in DOMAIN checks : checks[i].applies /\ FirstOf(checks) = checks[i].answer
<1> DEFINE hits == {i \in DOMAIN checks : checks[i].applies}
<1>1. CASE hits = {}
  BY <1>1 DEF FirstOf
<1>2. CASE hits # {}
  <2>1. \E i \in hits : \A j \in hits : i <= j
    BY <1>2, SmallestMember
  <2>2. FirstOf(checks) = checks[CHOOSE i \in hits : \A j \in hits : i <= j].answer
    BY <1>2 DEF FirstOf
  <2> QED BY <2>1, <2>2
<1> QED BY <1>1, <1>2

\* A failed rule refuses, whatever the others answer; an approval says that
\* none failed and none asks for a review.
LEMMA AggregateMeans ==
    ASSUME NEW answers
    PROVE  /\ Aggregate(answers).status \in DecisionStatuses
           /\ (\E i \in DOMAIN answers : answers[i].status = "FAILED") =>
                 Aggregate(answers).status = "REJECTED"
           /\ Aggregate(answers).status = "APPROVED" =>
                 \A i \in DOMAIN answers : answers[i].status \notin {"FAILED", "NEEDS_REVIEW"}
<1> DEFINE Reasons(status) ==
        {answers[i].reason : i \in {j \in DOMAIN answers : answers[j].status = status}}
<1>1. ASSUME NEW status, NEW i \in DOMAIN answers, answers[i].status = status
      PROVE  Reasons(status) # {}
  BY <1>1
<1>2. Aggregate(answers) =
        CASE Reasons("FAILED") # {} -> [status |-> "REJECTED", reasons |-> Reasons("FAILED")]
          [] Reasons("FAILED") = {} /\ Reasons("MISSING_INFO") # {} ->
                [status |-> "INSUFFICIENT_INFORMATION", reasons |-> Reasons("MISSING_INFO")]
          [] Reasons("FAILED") \cup Reasons("MISSING_INFO") = {} /\ Reasons("NEEDS_REVIEW") # {} ->
                [status |-> "REQUIRES_REVIEW", reasons |-> Reasons("NEEDS_REVIEW")]
          [] OTHER -> [status |-> "APPROVED", reasons |-> {}]
  BY DEF Aggregate
<1> HIDE DEF Reasons
<1>3. CASE Reasons("FAILED") # {}
  BY <1>2, <1>3 DEF DecisionStatuses
<1>4. CASE Reasons("FAILED") = {} /\ Reasons("MISSING_INFO") # {}
  BY <1>1, <1>2, <1>4 DEF DecisionStatuses
<1>5. CASE Reasons("FAILED") \cup Reasons("MISSING_INFO") = {} /\ Reasons("NEEDS_REVIEW") # {}
  BY <1>1, <1>2, <1>5 DEF DecisionStatuses
<1>6. CASE Reasons("FAILED") \cup Reasons("MISSING_INFO") = {} /\ Reasons("NEEDS_REVIEW") = {}
  BY <1>1, <1>2, <1>6 DEF DecisionStatuses
<1> QED BY <1>3, <1>4, <1>5, <1>6

\* Eligibility: only a recommendation that is still current, in a state in which
\* something can be done about the case.
LEMMA EligibilityMeans ==
    ASSUME NEW case, NEW rec
    PROVE  \/ Eligibility(case, rec).status = "FAILED"
           \/ case.state \in ActionableStates /\ rec.status \notin {"INVALID", "REJECTED_BY_POLICY"}
<1> DEFINE checks == <<
        Check(IsStale(rec, case), Failed("RECOMMENDATION_STALE")),
        Check(case.state = "RECOVERED", Failed("CASE_ALREADY_RECOVERED")),
        Check(case.state = "CLOSED", Failed("CASE_CLOSED")),
        Check(case.state = "STOPPED", Failed("CASE_CANCELLED")),
        Check(case.state \in {"ACTION_PENDING", "VERIFICATION_PENDING"},
              Failed("WORKFLOW_ALREADY_ACTIVE")),
        Check(case.state \notin ActionableStates, Failed("CASE_NOT_ACTIONABLE")) >>
<1>1. Eligibility(case, rec) = FirstOf(checks)
  BY DEF Eligibility
<1>2. DOMAIN checks = 1..6
  OBVIOUS
<1>3. \A i \in 1..6 : checks[i].answer.status = "FAILED"
  BY DEF Check, Failed
<1>4. /\ checks[1].applies = IsStale(rec, case)
      /\ checks[6].applies = (case.state \notin ActionableStates)
  BY DEF Check
<1> HIDE DEF checks
<1>5. CASE FirstOf(checks) = Passed /\ \A i \in DOMAIN checks : ~checks[i].applies
  <2>1. ~checks[1].applies /\ ~checks[6].applies
    BY <1>2, <1>5
  <2> QED BY <1>4, <2>1 DEF IsStale
<1>6. CASE \E i \in DOMAIN checks : checks[i].applies /\ FirstOf(checks) = checks[i].answer
  BY <1>1, <1>2, <1>3, <1>6
<1> QED BY <1>2, <1>5, <1>6, FirstAnswer

\* Escalation: too little confidence is at least a review.
LEMMA EscalationMeans ==
    ASSUME NEW t, NEW made, NEW confidence
    PROVE  \/ Escalation(t, made, confidence).status = "NEEDS_REVIEW"
           \/ ~(confidence < MinConfidence)
<1> DEFINE high == t.amount >= HighValueThreshold(t.currency)
           low == confidence < MinConfidence
           checks == <<
        Check(t.code \in FraudCodes, Review("FRAUD_RESTRICTION")),
        Check(high, Review("HIGH_VALUE_REVIEW_REQUIRED")),
        Check(RetriesSpent(made), Review("RETRY_EXHAUSTED")),
        Check(SomeAttempt(made, "UNCERTAIN"), Review("PAYMENT_OUTCOME_UNCERTAIN")),
        Check(t.code \in {"", "unknown", "unknown_failure"}, Review("UNKNOWN_FAILURE_CATEGORY")),
        Check(low, Review("LOW_AI_CONFIDENCE")) >>
<1>1. Escalation(t, made, confidence) = FirstOf(checks)
  BY DEF Escalation
<1>2. ~low => ~(confidence < MinConfidence)
  OBVIOUS
<1> HIDE DEF high, low
<1>3. DOMAIN checks = 1..6
  OBVIOUS
<1>4. \A i \in 1..6 : checks[i].answer.status = "NEEDS_REVIEW"
  <2>1. /\ checks[1].answer.status = "NEEDS_REVIEW" /\ checks[2].answer.status = "NEEDS_REVIEW"
        /\ checks[3].answer.status = "NEEDS_REVIEW" /\ checks[4].answer.status = "NEEDS_REVIEW"
        /\ checks[5].answer.status = "NEEDS_REVIEW" /\ checks[6].answer.status = "NEEDS_REVIEW"
    BY DEF Check, Review
  <2> HIDE DEF checks
  <2> QED BY <2>1
<1>5. checks[6].applies = low
  BY DEF Check
<1> HIDE DEF checks
<1>6. CASE FirstOf(checks) = Passed /\ \A i \in DOMAIN checks : ~checks[i].applies
  <2>1. ~checks[6].applies
    BY <1>3, <1>6
  <2> QED BY <1>5, <1>2, <2>1, Zenon
<1>7. CASE \E i \in DOMAIN checks : checks[i].applies /\ FirstOf(checks) = checks[i].answer
  BY <1>1, <1>3, <1>4, <1>7
<1> QED BY <1>3, <1>6, <1>7, FirstAnswer

\* A decision on a snapshot: what an approval needs, and what is refused.
LEMMA EvaluateMeans ==
    ASSUME NEW s
    PROVE  /\ Evaluate(s).status \in DecisionStatuses
           /\ Evaluate(s).status = "APPROVED" =>
                 s.case.state \in ActionableStates /\ ~(s.rec.confidence < MinConfidence)
           /\ s.rec.status \in {"INVALID", "REJECTED_BY_POLICY"} => Evaluate(s).status = "REJECTED"
<1> DEFINE answers == <<
        Eligibility(s.case, s.rec),
        ConsentRule(s.action, s.channel, s.consents, s.merchant, s.now),
        RetryLimit(s.action, s.attempts, s.txn.code, s.now),
        StrategyRule(s.action, s.txn.code, s.case.state, s.contact),
        Escalation(s.txn, s.attempts, s.rec.confidence) >>
<1>1. Evaluate(s) = Aggregate(answers)
  BY DEF Evaluate
<1>2. /\ 1 \in DOMAIN answers /\ answers[1] = Eligibility(s.case, s.rec)
      /\ 5 \in DOMAIN answers /\ answers[5] = Escalation(s.txn, s.attempts, s.rec.confidence)
  OBVIOUS
<1> HIDE DEF answers
<1>3. Evaluate(s).status = "APPROVED" =>
        /\ Eligibility(s.case, s.rec).status # "FAILED"
        /\ Escalation(s.txn, s.attempts, s.rec.confidence).status # "NEEDS_REVIEW"
  BY <1>1, <1>2, AggregateMeans
<1>4. Eligibility(s.case, s.rec).status = "FAILED" => Evaluate(s).status = "REJECTED"
  BY <1>1, <1>2, AggregateMeans
<1>5. s.rec.status \in {"INVALID", "REJECTED_BY_POLICY"} =>
        Eligibility(s.case, s.rec).status = "FAILED"
  BY EligibilityMeans
<1> QED BY <1>1, <1>3, <1>4, <1>5, AggregateMeans, EligibilityMeans, EscalationMeans

-----------------------------------------------------------------------------
(* What the estimator can be confident of. *)

\* The analyzer is never less sure than 0.5, nor surer than 0.98.
LEMMA AnalysisTypes ==
    ASSUME NEW text
    PROVE  Analyze(text).confidence \in 5000..9800
<1> DEFINE hits == {i \in DOMAIN Rules : Rules[i].keywords \cap text # {}}
<1>1. DOMAIN Rules = 1..7
  BY DEF Rules
<1> DEFINE Sure(i) == Rules[i].confidence \in 5000..9800
<1>2. \A i \in 1..7 : Sure(i)
  <2>1. Sure(1) /\ Sure(2) /\ Sure(3) /\ Sure(4) /\ Sure(5) /\ Sure(6) /\ Sure(7)
    BY DEF Rules, Rule
  <2> HIDE DEF Sure
  <2> QED BY <2>1
<1>3. CASE hits = {}
  BY <1>3 DEF Analyze, Unclassified, Rule
<1>4. CASE hits # {}
  <2>1. Analyze(text) = Rules[Least(hits)]
    BY <1>4 DEF Analyze
  <2>2. hits \subseteq 1..7
    BY <1>1
  <2> HIDE DEF hits, Sure
  <2>3. Sure(Least(hits))
    BY <1>2, <1>4, <2>2, LeastMember
  <2> QED BY <2>1, <2>3 DEF Sure
<1> QED BY <1>3, <1>4

\* The argument of the logistic function is at most 0.295, but for a retry after
\* at most one attempt.
LEMMA LogOddsBound ==
    ASSUME NEW x \in Contexts,
           NEW action \in {"RETRY_PAYMENT", "SEND_REMINDER", "REQUEST_OPERATOR_REVIEW", "STOP"}
    PROVE  /\ LogOdds(action, x) \in Int
           /\ ~(action = "RETRY_PAYMENT" /\ x.attempts <= 1) => LogOdds(action, x) <= 295
<1> DEFINE tries == IF x.attempts <= 1 THEN 420 ELSE -250 * Least({x.attempts, 4})
           rate == (11 * (x.rate - 50)) \div 2
           reminder == Points(action = "SEND_REMINDER" /\ x.alternate, 250)
           retry == Points(action = "RETRY_PAYMENT" /\ Analyze(x.text).retryable, 450)
           review == Points(action = "REQUEST_OPERATOR_REVIEW", 100)
           stop == Points(action = "STOP", 450)
           risk == Points(RiskScore(x) >= 70, 1200)
<1>1. LogOdds(action, x) = -650 + tries + rate + reminder + retry + review - stop - risk
  BY DEF LogOdds
<1>2. x.attempts \in Nat /\ x.rate \in 0..100
  BY DEF Contexts
<1>3. tries \in Int /\ tries <= 420 /\ (~(x.attempts <= 1) => tries <= -500)
  BY <1>2, LeastOfTwo
<1>4. rate \in Int /\ rate <= 275
  BY <1>2
<1>5. reminder \in 0..250 /\ (action # "SEND_REMINDER" => reminder = 0)
  BY DEF Points
<1>6. retry \in 0..450 /\ (action # "RETRY_PAYMENT" => retry = 0)
  BY DEF Points
<1>7. review \in 0..100 /\ (action # "REQUEST_OPERATOR_REVIEW" => review = 0)
  BY DEF Points
<1>8. stop \in 0..450 /\ risk \in 0..1200
  BY DEF Points
<1> HIDE DEF tries, rate, reminder, retry, review, stop, risk
<1>9. CASE action = "RETRY_PAYMENT"
  BY <1>1, <1>3, <1>4, <1>5, <1>6, <1>7, <1>8, <1>9
<1>10. CASE action # "RETRY_PAYMENT"
  BY <1>1, <1>3, <1>4, <1>5, <1>6, <1>7, <1>8, <1>10
<1> QED BY <1>9, <1>10

\* The convergent of the logistic function is below 0.6 for such arguments.
LEMMA LogisticBound ==
    ASSUME NEW n \in Int
    PROVE  Logistic(n) \in Int /\ (n <= 295 => Logistic(n) < MinConfidence)
<1> DEFINE s == n * n
           h == s \div 1000
           q == h * h
           a == 75600 + (21 * s) \div 10000 + q \div 200000
           d == 75600 + (84 * s) \div 10000 + (3 * q) \div 40000
           top == 5 * (n * a) + d
<1>1. s \in Nat
  <2>1. CASE n >= 0
    BY <2>1
  <2>2. CASE n <= 0
    <3>1. 0 - n \in Nat /\ (0 - n) * (0 - n) = n * n
      BY <2>2
    <3> HIDE DEF s
    <3>2. \A k \in Nat : k * k \in Nat
      OBVIOUS
    <3> QED BY <3>1, <3>2 DEF s
  <2> QED BY <2>1, <2>2
<1>2. Logistic(n) = 5000 + top \div (2 * d)
  <2>1. 21 * n * n = 21 * s /\ 84 * n * n = 84 * s /\ 3 * h * h = 3 * q /\ 5 * n * a = 5 * (n * a)
    OBVIOUS
  <2> QED BY <2>1 DEF Logistic
<1>3. 0 < n /\ n <= 295 => s <= 87025
  <2> SUFFICES ASSUME 0 < n, n <= 295 PROVE s <= 87025
    OBVIOUS
  <2>1. n * n <= 295 * n
    OBVIOUS
  <2> QED BY <2>1
<1> HIDE DEF s
<1>4. h \in Nat /\ (s <= 87025 => h <= 87)
  BY <1>1
<1> HIDE DEF h
<1>5. q \in Nat /\ (h <= 87 => q <= 7569)
  <2>1. q \in Nat
    BY <1>4
  <2>2. h <= 87 => h * h <= 87 * 87
    BY <1>4
  <2> QED BY <2>1, <2>2
<1> HIDE DEF q
<1>6. a \in Nat /\ d \in Nat /\ d >= 75600 /\ (s <= 87025 /\ q <= 7569 => a <= 75782)
  BY <1>1, <1>5
<1> HIDE DEF a, d
<1>7. top \in Int
  BY <1>6
<1>8. n <= 295 => top < 1000 * (2 * d)
  <2>1. CASE n <= 0
    <3>1. n * a <= 0
      BY <1>6, <2>1
    <3> QED BY <1>6, <3>1
  <2>2. CASE 0 < n /\ n <= 295
    <3>1. a <= 75782
      BY <1>3, <1>4, <1>5, <1>6, <2>2
    <3>2. n * a <= 295 * a
      BY <1>6, <2>2
    <3> QED BY <1>6, <3>1, <3>2
  <2> QED BY <2>1, <2>2
<1> HIDE DEF top
<1>9. \A t \in Int, m \in Nat \ {0} : t \div m \in Int /\ (t < 1000 * m => t \div m < 1000)
  OBVIOUS
<1>10. 2 * d \in Nat \ {0}
  BY <1>6
<1>11. top \div (2 * d) \in Int /\ (n <= 295 => top \div (2 * d) < 1000)
  BY <1>7, <1>8, <1>9, <1>10
<1> DEFINE r == top \div (2 * d)
<1> HIDE DEF r
<1>12. r \in Int /\ (n <= 295 => r < 1000) /\ Logistic(n) = 5000 + r
  BY <1>2, <1>11 DEF r
<1> QED BY <1>12 DEF MinConfidence

\* Among the candidates, of which doing nothing is always one, there is one of
\* the highest expected value.
LEMMA WinnerMember ==
    ASSUME NEW x \in Contexts
    PROVE  Winner(x).action \in
               {"RETRY_PAYMENT", "SEND_REMINDER", "REQUEST_OPERATOR_REVIEW", "STOP"}
<1> DEFINE C == Candidates(x)
           value == [i \in C |-> ExpectedValue(Catalog[i], x)]
           best == {i \in DOMAIN value : \A j \in DOMAIN value : value[i] >= value[j]}
<1>1. DOMAIN Catalog = 1..6
  BY DEF Catalog
<1>2. \A i \in 1..6 :
        Catalog[i].action \in {"RETRY_PAYMENT", "SEND_REMINDER", "REQUEST_OPERATOR_REVIEW", "STOP"}
          /\ Catalog[i].cost \in Nat
  <2>1. /\ Catalog[1].action = "RETRY_PAYMENT" /\ Catalog[1].cost = 2
        /\ Catalog[2].action = "SEND_REMINDER" /\ Catalog[2].cost = 15
        /\ Catalog[3].action = "SEND_REMINDER" /\ Catalog[3].cost = 15
        /\ Catalog[4].action = "REQUEST_OPERATOR_REVIEW" /\ Catalog[4].cost = 250
        /\ Catalog[5].action = "REQUEST_OPERATOR_REVIEW" /\ Catalog[5].cost = 250
        /\ Catalog[6].action = "STOP" /\ Catalog[6].cost = 0
    BY DEF Catalog, Entry
  <2> QED BY <2>1
<1>3. C \subseteq 1..6 /\ 6 \in C
  <2>1. Catalog[6].strategy = "NO_ACTION"
    BY DEF Catalog, Entry
  <2> QED BY <1>1, <2>1 DEF Candidates, Permitted
<1>4. \A i \in C : value[i] \in Int
  <2> SUFFICES ASSUME NEW i \in C PROVE ExpectedValue(Catalog[i], x) \in Int
    OBVIOUS
  <2> DEFINE p == Probability(Catalog[i].action, x)
  <2>1. p \in Int
    BY <1>2, <1>3, LogOddsBound, LogisticBound DEF Probability
  <2>2. x.amount \in Nat
    BY DEF Contexts
  <2>3. ExpectedValue(Catalog[i], x) = Gross(x.amount, p) - Catalog[i].cost
    BY DEF ExpectedValue
  <2> HIDE DEF p
  <2>4. Gross(x.amount, p) \in Int
    <3>1. x.amount \div 10000 \in Int /\ x.amount % 10000 \in Int
      BY <2>2
    <3>2. \A a \in Int, b \in Int : a * p \in Int /\ (b * p + 5000) \div 10000 \in Int
      BY <2>1
    <3> QED BY <3>1, <3>2 DEF Gross
  <2> QED BY <1>2, <1>3, <2>3, <2>4
<1>5. DOMAIN value = C
  OBVIOUS
<1>6. Winner(x) = Catalog[Least(best)]
  BY DEF Winner
<1> HIDE DEF C, value
<1>7. \E i \in C : \A j \in C : value[i] >= value[j]
  BY <1>3, <1>4, GreatestValue
<1>8. best \subseteq 1..6
  BY <1>3, <1>5
<1>9. best # {}
  <2>1. PICK i \in C : \A j \in C : value[i] >= value[j]
    BY <1>7
  <2>2. i \in best
    BY <1>5, <2>1
  <2> QED BY <2>2
<1> HIDE DEF best
<1>10. Least(best) \in 1..6
  <2>1. best \subseteq 1..7
    BY <1>8
  <2> QED BY <1>8, <1>9, <2>1, LeastMember
<1> DEFINE k == Least(best)
<1> HIDE DEF k
<1>11. k \in 1..6 /\ Winner(x) = Catalog[k]
  BY <1>6, <1>10 DEF k
<1> QED BY <1>2, <1>11

\* What is recommended: a typed answer, and confidence enough for an approval
\* only in a retry after at most one attempt, or in the STOP of a case that is over.
Trusted(action, confidence, prior, terminal) ==
    /\ action \in ActionTypes /\ confidence \in 0..10000
    /\ \/ action = "RETRY_PAYMENT" /\ prior <= 1
       \/ confidence < MinConfidence
       \/ terminal /\ action = "STOP"

LEMMA RecommendMeans ==
    ASSUME NEW x \in Contexts, NEW terminal \in BOOLEAN
    PROVE  Trusted(Recommend(x, terminal).action, Recommend(x, terminal).confidence,
                   x.attempts, terminal)
<1>1. CASE terminal
  BY <1>1 DEF Trusted, Recommend, ActionTypes, CustomerActions
<1>2. CASE ~terminal
  <2> DEFINE act == Winner(x).action
             p == Probability(act, x)
             sure == Analyze(x.text).confidence
             top == IF p > 5000 THEN p ELSE 5000
  <2>1. Recommend(x, terminal).action = act /\ Recommend(x, terminal).confidence = Least({sure, top})
    BY <1>2 DEF Recommend
  <2>2. act \in {"RETRY_PAYMENT", "SEND_REMINDER", "REQUEST_OPERATOR_REVIEW", "STOP"}
    BY WinnerMember
  <2>3. sure \in 5000..9800
    BY AnalysisTypes
  <2> HIDE DEF act, sure
  <2>4. p \in Int /\ (~(act = "RETRY_PAYMENT" /\ x.attempts <= 1) => p < MinConfidence)
    BY <2>2, LogOddsBound, LogisticBound DEF Probability
  <2> HIDE DEF p
  <2>5. top \in Int /\ top >= 5000 /\ (p < MinConfidence => top < MinConfidence)
    BY <2>4 DEF MinConfidence
  <2> HIDE DEF top
  <2>6. Least({sure, top}) = IF sure <= top THEN sure ELSE top
    BY <2>3, <2>5, LeastOfTwo
  <2> DEFINE least == Least({sure, top})
  <2> HIDE DEF least
  <2>7. least = (IF sure <= top THEN sure ELSE top) /\ Recommend(x, terminal).confidence = least
    BY <2>1, <2>6 DEF least
  <2>8. least \in 5000..9800 /\ (top < MinConfidence => least < MinConfidence)
    BY <2>3, <2>5, <2>7 DEF MinConfidence
  <2>9. act \in ActionTypes /\ least \in 0..10000
    BY <2>2, <2>8 DEF ActionTypes, CustomerActions
  <2>10. (act = "RETRY_PAYMENT" /\ x.attempts <= 1) \/ least < MinConfidence
    BY <2>4, <2>5, <2>8
  <2>11. Recommend(x, terminal).action = act /\ Recommend(x, terminal).confidence = least
    BY <2>1, <2>7
  <2>12. Trusted(act, least, x.attempts, terminal)
    BY <2>9, <2>10 DEF Trusted
  <2> QED BY <2>11, <2>12
<1> QED BY <1>1, <1>2

-----------------------------------------------------------------------------
(* The initial states and the steps, for any number of requests at once. *)

LEMMA Bounds ==
    /\ MaxVersion \in Nat \ {0} /\ MaxRecs \in Nat \ {0} /\ MaxDecisions \in Nat \ {0}
    /\ MaxFlows \in Nat \ {0} /\ MaxConsents \in Nat \ {0} /\ MaxTime \in Nat \ {0}
BY GateBoundsAssumption

\* A short list has a length in the range recommendations are tabulated for.
LEMMA FewMembers ==
    ASSUME NEW S, NEW s \in Seq(S), Len(s) <= 4
    PROVE  Len(s) \in 0..4
<1> DEFINE n == Len(s)
<1>1. n \in Nat /\ n <= 4
  BY LenProperties
<1> HIDE DEF n
<1>2. n \in 0..4
  BY <1>1
<1> QED BY <1>2 DEF n

\* The fields of a recommendation.
LEMMA RecFields ==
    ASSUME NEW q \in RecRecords
    PROVE  q.action \in ActionTypes /\ q.number \in Nat
BY DEF RecRecords

LEMMA InitOK == Init => GInv
<1> SUFFICES ASSUME Init PROVE GInv
  OBVIOUS
<1>1. CaseTyped
  <2>1. Len(decisions) = 0
    BY DEF Init
  <2>2. version \in Nat \ {0} /\ version <= MaxVersion + Len(decisions) /\ now \in 1..MaxTime
    BY <2>1, Bounds DEF Init
  <2> QED BY <2>2 DEF Init, CaseTyped, States, TxnStatuses
<1>2. ListsTyped
  <2>1. consents \in Seq(Consents)
    BY ProfilesAssumption DEF Init
  <2> QED BY <2>1, Bounds DEF Init, ListsTyped
<1>3. Linked /\ RecsEarned /\ ApprovalsNeedConfidence
  BY DEF Init, Linked, RecsEarned, ApprovalsNeedConfidence
<1>4. HeldLoaded
  BY DEF Init, HeldLoaded
<1> QED BY <1>1, <1>2, <1>3, <1>4 DEF GInv, Books

\* Lists grow, and what is in them keeps what a request goes by.
Grown ==
    /\ now <= now' /\ Len(decisions) <= Len(decisions')
    /\ DOMAIN recs \subseteq DOMAIN recs' /\ DOMAIN decisions \subseteq DOMAIN decisions'
    /\ DOMAIN flows \subseteq DOMAIN flows'
    /\ \A i \in DOMAIN recs : SameRec(recs'[i], recs[i])

LEMMA StillLoaded ==
    ASSUME Books, Books', Grown, NEW h, Loaded(h)
    PROVE  Loaded(h)'
<1>1. h.now \in 1..now'
  <2>1. now \in Nat /\ now' \in Nat /\ now <= now' /\ h.now \in 1..now
    BY Bounds DEF Books, CaseTyped, Grown, Loaded
  <2> QED BY <2>1
<1>2. h.version <= MaxVersion + Len(decisions')
  <2> DEFINE m == Len(decisions)
             n == Len(decisions')
  <2>1. m \in Nat /\ n \in Nat /\ m <= n /\ h.version \in Nat /\ h.version <= MaxVersion + m
    BY DEF Books, ListsTyped, Grown, Loaded
  <2> HIDE DEF m, n
  <2>2. h.version <= MaxVersion + n
    BY <2>1, Bounds
  <2> QED BY <2>2 DEF n
<1>3. DOMAIN h.recs \subseteq DOMAIN recs' /\ \A i \in DOMAIN h.recs : SameRec(recs'[i], h.recs[i])
  BY DEF Grown, Loaded, SameRec
<1>4. /\ DOMAIN h.decisions \subseteq DOMAIN decisions' /\ DOMAIN h.flows \subseteq DOMAIN flows'
      /\ \A f \in DOMAIN h.flows : h.flows[f].decision \in DOMAIN decisions'
  BY DEF Grown, Loaded
<1> QED BY <1>1, <1>2, <1>3, <1>4 DEF Loaded

\* A step of a session that ends its request, or that loads nothing.
LEMMA OthersLoaded ==
    ASSUME GInv, Books', Grown,
           \/ \E s \in Sessions : held' = [held EXCEPT ![s] = {}]
           \/ held' = held
    PROVE  GInv'
<1>1. /\ held' = [s \in Sessions |-> held'[s]]
      /\ \A s \in Sessions : held'[s] \subseteq held[s]
  BY DEF GInv, HeldLoaded
<1>2. ASSUME NEW s \in Sessions, NEW h \in held'[s] PROVE Loaded(h)'
  <2>1. h \in held[s]
    BY <1>1
  <2>2. Loaded(h)
    BY <2>1 DEF GInv, HeldLoaded
  <2> QED BY <2>2, StillLoaded DEF GInv
<1> QED BY <1>1, <1>2 DEF GInv, HeldLoaded

\* A request begins.
LEMMA LoadStep ==
    ASSUME GInv, NEW s \in Sessions, Load(s)
    PROVE  GInv'
<1>1. UNCHANGED <<state, txn, ahead, version, facts, recs, decisions, consents, attempts, flows, now>>
  BY DEF Load, caseVars, lists
<1>2. Books'
  BY <1>1 DEF GInv, Books, CaseTyped, ListsTyped, Linked, RecsEarned, ApprovalsNeedConfidence
<1>3. Loaded(Present)
  <2> DEFINE h == Present
  <2>1. /\ h.state = state /\ h.version = version /\ h.recs = recs /\ h.decisions = decisions
        /\ h.attempts = attempts /\ h.flows = flows /\ h.now = now
    BY DEF Present
  <2> HIDE DEF h
  <2>2. now \in 1..now
    BY Bounds DEF GInv, Books, CaseTyped
  <2>3. Loaded(h)
    BY <2>1, <2>2 DEF GInv, Books, CaseTyped, ListsTyped, Linked, Loaded, SameRec
  <2> QED BY <2>3 DEF h
<1>4. /\ held' = [t \in Sessions |-> held'[t]]
      /\ \A t \in Sessions : \A h \in held'[t] : h \in held[t] \/ h = Present
  BY DEF Load, GInv, HeldLoaded
<1>5. ASSUME NEW t \in Sessions, NEW h \in held'[t] PROVE Loaded(h)'
  <2>1. Loaded(h)
    BY <1>3, <1>4, <1>5 DEF GInv, HeldLoaded
  <2> QED BY <1>1, <2>1 DEF Loaded
<1> QED BY <1>2, <1>4, <1>5 DEF GInv, HeldLoaded

\* What is recommended: another row, of a confidence that is earned.
LEMMA GenerateMeans ==
    ASSUME GInv, NEW s \in Sessions, NEW h \in held[s], GenerateRecommendation(s, h)
    PROVE  /\ state' = state /\ txn' = txn /\ ahead' = TRUE
           /\ UNCHANGED <<version, facts, decisions, consents, attempts, flows, now>>
           /\ held' = [held EXCEPT ![s] = {}]
           /\ \E new \in RecRecords :
                 /\ recs' = Append(recs, new)
                 /\ Earned(new)
                 /\ \/ new.action = "RETRY_PAYMENT" /\ new.prior <= 1
                    \/ new.confidence < MinConfidence \/ h.state \in TerminalStates
<1> DEFINE over == h.state \in TerminalStates
           n == Len(h.attempts)
           x == [facts.context EXCEPT !.attempts = n]
           a == Recommend(x, over).action
           c == Recommend(x, over).confidence
           numbers == {0} \cup {h.recs[i].number : i \in DOMAIN h.recs}
<1>1. Loaded(h) /\ facts \in Profiles
  BY DEF GInv, HeldLoaded, Books, CaseTyped
<1>2. n \in 0..4
  BY <1>1, FewMembers DEF Loaded
<1>3. x \in Contexts /\ x.attempts = n
  <2>1. facts.context \in Contexts
    BY <1>1, ProfilesAssumption
  <2>2. \A y \in Contexts, m \in 0..4 :
          [y EXCEPT !.attempts = m] \in Contexts /\ [y EXCEPT !.attempts = m].attempts = m
    BY DEF Contexts
  <2> HIDE DEF n
  <2> QED BY <1>2, <2>1, <2>2
<1>4. numbers \subseteq Nat
  <2>1. \A i \in DOMAIN h.recs : h.recs[i] \in RecRecords
    BY <1>1 DEF Loaded
  <2>2. \A i \in DOMAIN h.recs : h.recs[i].number \in Nat
    BY <2>1, RecFields
  <2> QED BY <2>2
<1>5. \E m \in numbers :
        recs' = Append(recs, [action |-> a, confidence |-> c, status |-> "NOT_VALIDATED",
                              prior |-> n, number |-> m + 1])
  <2>1. over \in BOOLEAN
    OBVIOUS
  <2>2. \A p \in Profiles, k \in 0..4, b \in BOOLEAN :
          Recommendations[p][k][b] = Recommend([p.context EXCEPT !.attempts = k], b)
    BY DEF Recommendations
  <2>3. Recommendations[facts][n][over] = Recommend(x, over)
    <3> HIDE DEF n, over
    <3> QED BY <1>1, <1>2, <2>1, <2>2
  <2>4. \E r \in NewRecommendations(h) : recs' = Append(recs, r)
    BY DEF GenerateRecommendation
  <2>5. NewRecommendations(h) =
          {[action |-> a, confidence |-> c, status |-> "NOT_VALIDATED", prior |-> n,
            number |-> m + 1] : m \in {m \in numbers : \A k \in numbers : k <= m}}
    BY <2>3 DEF NewRecommendations
  <2> HIDE DEF a, c, n, numbers, x, over
  <2> QED BY <2>4, <2>5
<1>6. Trusted(a, c, n, over)
  <2>1. over \in BOOLEAN
    OBVIOUS
  <2>2. \A y \in Contexts, t \in BOOLEAN :
          Trusted(Recommend(y, t).action, Recommend(y, t).confidence, y.attempts, t)
    BY RecommendMeans
  <2> HIDE DEF x, over, n
  <2>3. Trusted(Recommend(x, over).action, Recommend(x, over).confidence, x.attempts, over)
    BY <1>3, <2>1, <2>2
  <2> QED BY <1>3, <2>3
<1>7. /\ state' = state /\ txn' = txn /\ ahead' = TRUE
      /\ UNCHANGED <<version, facts, decisions, consents, attempts, flows, now>>
      /\ held' = [held EXCEPT ![s] = {}]
  BY DEF GenerateRecommendation, Annotate, Ends
<1> HIDE DEF over, n, x, a, c, numbers
<1>8. PICK m \in numbers :
        recs' = Append(recs, [action |-> a, confidence |-> c, status |-> "NOT_VALIDATED",
                              prior |-> n, number |-> m + 1])
  BY <1>5
<1> DEFINE new == [action |-> a, confidence |-> c, status |-> "NOT_VALIDATED", prior |-> n,
                   number |-> m + 1]
<1>9. new \in RecRecords
  <2>1. a \in ActionTypes /\ c \in 0..10000 /\ m + 1 \in Nat
    BY <1>4, <1>6 DEF Trusted
  <2> QED BY <1>2, <2>1 DEF RecRecords, ValidationStatuses
<1>10. new.action = a /\ new.confidence = c /\ new.prior = n /\ recs' = Append(recs, new)
  BY <1>8
<1> HIDE DEF new
<1>11. /\ Earned(new)
       /\ \/ new.action = "RETRY_PAYMENT" /\ new.prior <= 1
          \/ new.confidence < MinConfidence \/ over
  BY <1>6, <1>10 DEF Trusted, Earned
<1> QED BY <1>7, <1>9, <1>10, <1>11 DEF over

\* Appending to a list.
LEMMA Appended ==
    ASSUME NEW S, NEW q \in Seq(S), NEW e \in S
    PROVE  /\ Append(q, e) \in Seq(S) /\ Len(Append(q, e)) = Len(q) + 1 /\ Append(q, e) # <<>>
           /\ DOMAIN q \subseteq DOMAIN Append(q, e)
           /\ \A i \in DOMAIN q : Append(q, e)[i] = q[i]
           /\ Append(q, e)[Len(q) + 1] = e
           /\ \A i \in DOMAIN Append(q, e) :
                 i \in DOMAIN q \/ (i = Len(q) + 1 /\ Append(q, e)[i] = e)
OBVIOUS

\* Replacing an element of a list.
LEMMA Replaced ==
    ASSUME NEW S, NEW q \in Seq(S), NEW i \in DOMAIN q, NEW e \in S
    PROVE  /\ [q EXCEPT ![i] = e] \in Seq(S) /\ Len([q EXCEPT ![i] = e]) = Len(q)
           /\ DOMAIN [q EXCEPT ![i] = e] = DOMAIN q
           /\ [q EXCEPT ![i] = e][i] = e
           /\ \A j \in DOMAIN q : j # i => [q EXCEPT ![i] = e][j] = q[j]
OBVIOUS

LEMMA GenerateStep ==
    ASSUME GInv, NEW s \in Sessions, NEW h \in held[s], GenerateRecommendation(s, h)
    PROVE  GInv'
<1> USE DEF GInv, Books
<1>1. /\ state' = state /\ txn' = txn /\ ahead' = TRUE
      /\ UNCHANGED <<version, facts, decisions, consents, attempts, flows, now>>
      /\ held' = [held EXCEPT ![s] = {}]
  BY GenerateMeans
<1>2. PICK new \in RecRecords : recs' = Append(recs, new) /\ Earned(new)
  BY GenerateMeans
<1>3. /\ recs' \in Seq(RecRecords) /\ recs' # <<>> /\ DOMAIN recs \subseteq DOMAIN recs'
      /\ \A i \in DOMAIN recs : recs'[i] = recs[i]
      /\ \A i \in DOMAIN recs' : i \in DOMAIN recs \/ recs'[i] = new
  BY <1>2, Appended DEF ListsTyped
<1>4. CaseTyped' /\ ListsTyped' /\ Linked'
  BY <1>1, <1>3 DEF CaseTyped, ListsTyped, Linked
<1>5. RecsEarned'
  <2> SUFFICES ASSUME NEW i \in DOMAIN recs' PROVE Earned(recs'[i])
    BY DEF RecsEarned
  <2> QED BY <1>2, <1>3 DEF RecsEarned
<1>6. ApprovalsNeedConfidence'
  <2>1. \A d \in DOMAIN decisions : recs'[decisions[d].rec] = recs[decisions[d].rec]
    BY <1>3 DEF Linked
  <2> QED BY <1>1, <2>1 DEF ApprovalsNeedConfidence
<1>7. Grown
  <2>1. now <= now /\ Len(decisions) <= Len(decisions)
    BY Bounds DEF CaseTyped, ListsTyped
  <2> QED BY <1>1, <1>3, <2>1 DEF Grown, SameRec
<1> QED BY <1>1, <1>4, <1>5, <1>6, <1>7, OthersLoaded

\* By an approval the case moves to ACTION_PENDING; a request that has seen a
\* final state leaves the case as it is.
LEMMA FollowMeans ==
    ASSUME NEW h, NEW answer, Follow(h, answer), h.state \in States, h.version \in Nat,
           state \in States, ahead = TRUE,
           answer.status = "APPROVED" => h.state \in ActionableStates
    PROVE  /\ state' \in States /\ txn' = txn /\ ahead' = TRUE
           /\ h.state \in TerminalStates => state' = state
           /\ (state' = state /\ version' = version) \/ version' = h.version + 1
           /\ answer.status = "APPROVED" => state' = "ACTION_PENDING" /\ version' = h.version + 1
<1> DEFINE final == answer.reasons \cap FinalReasons # {}
           to == PolicyTarget(answer.status, final, h.state)
<1>1. IF to = h.state THEN Annotate /\ UNCHANGED version
      ELSE state' = to /\ version' = h.version + 1 /\ UNCHANGED <<txn, ahead>>
  BY DEF Follow
<1>2. /\ to \in States
      /\ h.state \in TerminalStates => to = h.state
      /\ answer.status = "APPROVED" => to = "ACTION_PENDING" /\ to # h.state
  BY DEF PolicyTarget, States, TerminalStates, ActionableStates
<1> HIDE DEF to
<1> QED BY <1>1, <1>2 DEF Annotate

\* What a decision is: a row that names its recommendation, which it marks, and
\* the version it has seen.
Decides(h, i, new, v) ==
    /\ new.rec = i /\ new.version = h.version
    /\ new.status = "APPROVED" =>
          h.state \in ActionableStates /\ ~(h.recs[i].confidence < MinConfidence)
    /\ h.recs[i].status = "REJECTED_BY_POLICY" => new.status = "REJECTED"
    /\ new.status = "REJECTED" => v = "REJECTED_BY_POLICY"
    /\ decisions' = Append(decisions, new) /\ Len(decisions) < MaxDecisions
    /\ recs' = IF v = h.recs[i].status THEN recs ELSE [recs EXCEPT ![i].status = v]
    /\ state' \in States /\ txn' = txn /\ ahead' = TRUE
    /\ h.state \in TerminalStates => state' = state
    /\ (state' = state /\ version' = version) \/ version' = h.version + 1
    /\ new.status = "APPROVED" => state' = "ACTION_PENDING" /\ version' = h.version + 1

LEMMA EvaluateMakes ==
    ASSUME GInv, NEW s \in Sessions, NEW h \in held[s], NEW k \in Keys \cup {NoKey},
           NEW i \in DOMAIN h.recs, NEW channel, NEW action \in Proposals \cup {h.recs[i].action},
           EvaluatePolicy(s, h, k, i, action, channel)
    PROVE  /\ UNCHANGED <<facts, consents, attempts, flows, now>>
           /\ held' = [held EXCEPT ![s] = {}]
           /\ \E new \in DecisionRecords, v \in ValidationStatuses : Decides(h, i, new, v)
<1> DEFINE q == Snapshot(h, i, action, channel)
           answer == Evaluate(q)
           v == ValidationStatus(answer.status)
           new == [key |-> k, rec |-> i, action |-> action, status |-> answer.status,
                   version |-> h.version]
<1>1. Loaded(h) /\ state \in States
  BY DEF GInv, HeldLoaded, Books, CaseTyped
<1>2. h.recs[i] \in RecRecords /\ h.version \in Nat /\ h.state \in States /\ i \in Nat
  BY <1>1 DEF Loaded
<1>3. ahead = TRUE
  <2>1. i \in DOMAIN recs
    BY <1>1 DEF Loaded
  <2>2. recs # <<>>
    BY <2>1
  <2> QED BY <2>2 DEF GInv, Books, CaseTyped, Linked
<1>4. /\ answer.status \in DecisionStatuses
      /\ answer.status = "APPROVED" =>
            h.state \in ActionableStates /\ ~(h.recs[i].confidence < MinConfidence)
      /\ h.recs[i].status = "REJECTED_BY_POLICY" => answer.status = "REJECTED"
  <2>1. /\ q.case.state = h.state /\ q.rec.status = h.recs[i].status
        /\ q.rec.confidence = h.recs[i].confidence
    BY DEF Snapshot
  <2> HIDE DEF q
  <2>2. /\ answer.status \in DecisionStatuses
        /\ answer.status = "APPROVED" =>
              q.case.state \in ActionableStates /\ ~(q.rec.confidence < MinConfidence)
        /\ q.rec.status \in {"INVALID", "REJECTED_BY_POLICY"} => answer.status = "REJECTED"
    BY EvaluateMeans
  <2> QED BY <2>1, <2>2
<1>5. /\ decisions' = Append(decisions, new) /\ Len(decisions) < MaxDecisions
      /\ Mark(h, i, v)
      /\ Follow(h, answer)
      /\ UNCHANGED <<facts, consents, attempts, flows, now>>
      /\ held' = [held EXCEPT ![s] = {}]
  BY DEF EvaluatePolicy, Ends
<1> HIDE DEF answer, q
<1>6. /\ state' \in States /\ txn' = txn /\ ahead' = TRUE
      /\ h.state \in TerminalStates => state' = state
      /\ (state' = state /\ version' = version) \/ version' = h.version + 1
      /\ answer.status = "APPROVED" => state' = "ACTION_PENDING" /\ version' = h.version + 1
  BY <1>1, <1>2, <1>3, <1>4, <1>5, FollowMeans
<1>7. new \in DecisionRecords
  <2>1. action \in ActionTypes
    BY <1>2, RecFields, TargetsAssumption
  <2> QED BY <1>2, <1>4, <2>1 DEF DecisionRecords
<1>8. new.status = answer.status /\ new.rec = i /\ new.version = h.version
  OBVIOUS
<1>9. v \in ValidationStatuses /\ (answer.status = "REJECTED" => v = "REJECTED_BY_POLICY")
  BY <1>4 DEF ValidationStatus, ValidationStatuses, DecisionStatuses
<1>10. recs' = IF v = h.recs[i].status THEN recs ELSE [recs EXCEPT ![i].status = v]
  BY <1>5 DEF Mark
<1> HIDE DEF new, v
<1>11. Decides(h, i, new, v)
  BY <1>4, <1>5, <1>6, <1>8, <1>9, <1>10 DEF Decides
<1> QED BY <1>5, <1>7, <1>9, <1>11

\* The mark on a recommendation changes nothing else of it.
LEMMA MarkedRec ==
    ASSUME NEW q \in RecRecords, NEW v \in ValidationStatuses
    PROVE  /\ [q EXCEPT !.status = v] \in RecRecords
           /\ SameRec([q EXCEPT !.status = v], q)
           /\ [q EXCEPT !.status = v].status = v
<1>1. [q EXCEPT !.status = v] \in RecRecords
  BY DEF RecRecords
<1>2. /\ [q EXCEPT !.status = v].action = q.action
      /\ [q EXCEPT !.status = v].confidence = q.confidence
      /\ [q EXCEPT !.status = v].prior = q.prior
      /\ [q EXCEPT !.status = v].status = v
  BY DEF RecRecords
<1> QED BY <1>1, <1>2 DEF SameRec

LEMMA Marked ==
    ASSUME recs \in Seq(RecRecords), NEW i \in DOMAIN recs, NEW v \in ValidationStatuses,
           NEW old, recs' = IF v = old THEN recs ELSE [recs EXCEPT ![i].status = v]
    PROVE  /\ recs' \in Seq(RecRecords) /\ DOMAIN recs' = DOMAIN recs
           /\ \A j \in DOMAIN recs : SameRec(recs'[j], recs[j])
           /\ \A j \in DOMAIN recs : j # i => recs'[j] = recs[j]
           /\ recs[i].status = old => recs'[i].status = v
<1> DEFINE r == [recs[i] EXCEPT !.status = v]
<1>1. CASE v = old
  <2>1. recs' = recs
    BY <1>1
  <2> QED BY <1>1, <2>1 DEF SameRec
<1>2. CASE v # old
  <2>1. recs' = [recs EXCEPT ![i] = r]
    BY <1>2
  <2>2. recs[i] \in RecRecords
    OBVIOUS
  <2>3. r \in RecRecords /\ SameRec(r, recs[i]) /\ r.status = v
    BY <2>2, MarkedRec
  <2> HIDE DEF r
  <2>4. /\ recs' \in Seq(RecRecords) /\ DOMAIN recs' = DOMAIN recs /\ recs'[i] = r
        /\ \A j \in DOMAIN recs : j # i => recs'[j] = recs[j]
    BY <2>1, <2>3, Replaced
  <2>5. ASSUME NEW j \in DOMAIN recs PROVE SameRec(recs'[j], recs[j])
    BY <2>3, <2>4 DEF SameRec
  <2> QED BY <2>3, <2>4, <2>5
<1> QED BY <1>1, <1>2

LEMMA EvaluateStep ==
    ASSUME GInv, NEW s \in Sessions, NEW h \in held[s], NEW k \in Keys \cup {NoKey},
           NEW i \in DOMAIN h.recs, NEW channel, NEW action \in Proposals \cup {h.recs[i].action},
           EvaluatePolicy(s, h, k, i, action, channel)
    PROVE  GInv'
<1> USE DEF GInv, Books
<1>1. /\ UNCHANGED <<facts, consents, attempts, flows, now>>
      /\ held' = [held EXCEPT ![s] = {}]
  BY EvaluateMakes
<1>2. PICK new \in DecisionRecords, v \in ValidationStatuses : Decides(h, i, new, v)
  BY EvaluateMakes
<1>3. Loaded(h) /\ i \in DOMAIN recs
  BY DEF HeldLoaded, Loaded
<1>4. /\ recs' \in Seq(RecRecords) /\ DOMAIN recs' = DOMAIN recs
      /\ \A j \in DOMAIN recs : SameRec(recs'[j], recs[j])
  BY <1>2, <1>3, Marked DEF Decides, ListsTyped
<1>5. /\ decisions' \in Seq(DecisionRecords) /\ Len(decisions') = Len(decisions) + 1
      /\ DOMAIN decisions \subseteq DOMAIN decisions'
      /\ \A d \in DOMAIN decisions : decisions'[d] = decisions[d]
      /\ \A d \in DOMAIN decisions' : d \in DOMAIN decisions \/ decisions'[d] = new
  BY <1>2, Appended DEF Decides, ListsTyped
<1>6. CaseTyped'
  <2> DEFINE n == Len(decisions)
  <2>1. n \in Nat /\ Len(decisions') = n + 1
    BY <1>5 DEF ListsTyped
  <2>2. /\ version \in Nat \ {0} /\ version <= MaxVersion + n
        /\ h.version \in Nat \ {0} /\ h.version <= MaxVersion + n
    BY <1>3 DEF CaseTyped, Loaded
  <2>3. version' = version \/ version' = h.version + 1
    BY <1>2 DEF Decides
  <2> HIDE DEF n
  <2>4. version' \in Nat \ {0} /\ version' <= MaxVersion + Len(decisions')
    BY <2>1, <2>2, <2>3, Bounds
  <2> QED BY <1>1, <1>2, <2>4 DEF CaseTyped, Decides
<1>7. ListsTyped'
  <2>1. Len(decisions') <= MaxDecisions
    <3> DEFINE n == Len(decisions)
    <3>1. n \in Nat /\ n < MaxDecisions /\ Len(decisions') = n + 1
      BY <1>2, <1>5 DEF Decides, ListsTyped
    <3> HIDE DEF n
    <3> QED BY <3>1, Bounds
  <2> QED BY <1>1, <1>4, <1>5, <2>1 DEF ListsTyped
<1>8. Linked'
  <2>1. new.rec \in DOMAIN recs'
    BY <1>2, <1>3, <1>4 DEF Decides
  <2>2. \A d \in DOMAIN decisions' : decisions'[d].rec \in DOMAIN recs'
    BY <1>4, <1>5, <2>1 DEF Linked
  <2>3. ahead' = TRUE
    BY <1>2 DEF Decides
  <2> QED BY <1>1, <1>5, <2>2, <2>3 DEF Linked
<1>9. RecsEarned'
  <2> SUFFICES ASSUME NEW j \in DOMAIN recs' PROVE Earned(recs'[j])
    BY DEF RecsEarned
  <2> QED BY <1>4 DEF RecsEarned, Earned, SameRec
<1>10. ApprovalsNeedConfidence'
  <2> SUFFICES ASSUME NEW d \in DOMAIN decisions', decisions'[d].status = "APPROVED"
               PROVE  LET r == recs'[decisions'[d].rec] IN
                      r.action = "STOP" \/ (r.action = "RETRY_PAYMENT" /\ r.prior <= 1)
    BY DEF ApprovalsNeedConfidence
  <2>1. CASE d \in DOMAIN decisions
    <3>1. decisions'[d] = decisions[d] /\ decisions[d].rec \in DOMAIN recs
      BY <1>5, <2>1 DEF Linked
    <3> QED BY <1>4, <2>1, <3>1 DEF ApprovalsNeedConfidence, SameRec
  <2>2. CASE decisions'[d] = new
    <3>1. ~(h.recs[i].confidence < MinConfidence) /\ new.rec = i
      BY <1>2, <2>2 DEF Decides
    <3>2. SameRec(recs[i], h.recs[i]) /\ Earned(recs[i]) /\ SameRec(recs'[i], recs[i])
      BY <1>3, <1>4 DEF Loaded, RecsEarned
    <3> QED BY <2>2, <3>1, <3>2 DEF SameRec, Earned
  <2> QED BY <1>5, <2>1, <2>2
<1>11. Grown
  <2>1. now <= now /\ Len(decisions) <= Len(decisions')
    BY <1>5, Bounds DEF CaseTyped, ListsTyped
  <2> QED BY <1>1, <1>4, <1>5, <2>1 DEF Grown
<1> QED BY <1>1, <1>6, <1>7, <1>8, <1>9, <1>10, <1>11, OthersLoaded

\* A step that leaves what is recommended and decided alone, and the case or its
\* version within their types.
LEMMA OthersBooked ==
    ASSUME GInv, UNCHANGED <<recs, decisions, facts>>, CaseTyped', ListsTyped', now <= now',
           ahead => ahead', DOMAIN flows \subseteq DOMAIN flows',
           \A f \in DOMAIN flows' : flows'[f].decision \in DOMAIN decisions,
           \/ \E s \in Sessions : held' = [held EXCEPT ![s] = {}]
           \/ held' = held
    PROVE  GInv'
<1>1. Linked' /\ RecsEarned' /\ ApprovalsNeedConfidence'
  BY DEF GInv, Books, Linked, RecsEarned, ApprovalsNeedConfidence
<1>2. Grown
  <2>1. Len(decisions) <= Len(decisions)
    BY DEF GInv, Books, ListsTyped
  <2> QED BY <2>1 DEF Grown, SameRec
<1> QED BY <1>1, <1>2, OthersLoaded DEF Books

\* What stays as it is stays typed.
LEMMA CaseKept ==
    ASSUME GInv, UNCHANGED <<state, txn, ahead, version, facts, decisions, now>>
    PROVE  CaseTyped'
BY DEF GInv, Books, CaseTyped

\* A step of a workflow after its status is set is a workflow of the same decision.
LEMMA SteppedMeans ==
    ASSUME NEW w \in FlowRecords,
           NEW status \in {"FAILED", "RUNNING", "WAITING", "REQUIRES_REVIEW"}
    PROVE  Stepped(w, status) \in FlowRecords /\ Stepped(w, status).decision = w.decision
<1> DEFINE n == w.step + 1
           e == [w EXCEPT !.status = status, !.step = n]
<1>1. n \in Nat \ {0}
  BY DEF FlowRecords
<1> HIDE DEF n
<1>2. e \in FlowRecords /\ e.decision = w.decision
  BY <1>1 DEF FlowRecords
<1> QED BY <1>2 DEF Stepped, n

\* A step of a workflow moves on the workflow and nothing else, but for a retry
\* it may record: the workflow stands on a recommendation, so that the move of
\* the case that would come with any outcome but a decline is refused.
LEMMA ExecuteMeans ==
    ASSUME GInv, NEW s \in Sessions, NEW h \in held[s], NEW f \in DOMAIN h.flows, Execute(s, h, f)
    PROVE  /\ UNCHANGED <<state, txn, ahead, version, facts, recs, decisions, consents, now>>
           /\ held' = [held EXCEPT ![s] = {}]
           /\ \/ flows' = flows
              \/ \E w \in FlowRecords :
                    w.decision \in DOMAIN decisions /\ flows' = [flows EXCEPT ![f] = w]
           /\ \/ attempts' = attempts
              \/ /\ Allows(h, "RETRY_PAYMENT") /\ Len(attempts) = Len(h.attempts)
                 /\ attempts' = AttemptMade(h, "FAILED")
<1> DEFINE old == h.flows[f]
           Fits(w) == w \in FlowRecords /\ w.decision = old.decision
           Kept == UNCHANGED <<state, txn, ahead, version>>
           FlowsKept == \/ flows' = flows
                        \/ \E w \in FlowRecords :
                              w.decision \in DOMAIN decisions /\ flows' = [flows EXCEPT ![f] = w]
           AttemptsKept == \/ attempts' = attempts
                           \/ /\ Allows(h, "RETRY_PAYMENT") /\ Len(attempts) = Len(h.attempts)
                              /\ attempts' = AttemptMade(h, "FAILED")
<1> USE DEF GInv, Books
<1>1. old \in FlowRecords /\ old.decision \in DOMAIN decisions /\ ahead
  <2>1. old \in FlowRecords /\ old.decision \in DOMAIN decisions
    BY DEF HeldLoaded, Loaded
  <2>2. decisions[old.decision].rec \in DOMAIN recs
    BY <2>1 DEF Linked
  <2> HIDE DEF old
  <2>3. recs # <<>>
    BY <2>2
  <2> QED BY <2>1, <2>3 DEF Linked
<1>2. ASSUME NEW status \in {"FAILED", "RUNNING", "WAITING", "REQUIRES_REVIEW"}
      PROVE  Fits(Stepped(old, status))
  BY <1>1, SteppedMeans
<1>3. Fits([old EXCEPT !.status = "COMPLETED"])
  <2> HIDE DEF old
  <2> QED BY <1>1 DEF FlowRecords
<1>4. ASSUME NEW w, Fits(w), NEW made, Commits(f, w, made)
      PROVE  Kept /\ FlowsKept /\ attempts' = made
  BY <1>1, <1>4 DEF Commits, caseVars
<1>5. ASSUME NEW to, NEW w, NEW made, MovesCase(h, to, f, w, made)
      PROVE  Kept /\ FlowsKept /\ AttemptsKept
  BY <1>1, <1>5 DEF MovesCase, caseVars
<1>6. ASSUME Validate(h, f) PROVE Kept /\ FlowsKept /\ AttemptsKept
  <2>1. \/ Commits(f, Stepped(old, "RUNNING"), attempts)
        \/ \E to, w, made : MovesCase(h, to, f, w, made)
    BY <1>6 DEF Validate
  <2> QED BY <1>2, <1>4, <1>5, <2>1
<1>7. ASSUME NEW outcome \in Outcomes, Dispatch(h, f, outcome)
      PROVE  Kept /\ FlowsKept /\ AttemptsKept
  <2> DEFINE n == Len(h.attempts)
             failed == Stepped(old, "FAILED")
             Declined == /\ Allows(h, "RETRY_PAYMENT") /\ Len(attempts) = n
                         /\ Commits(f, failed, AttemptMade(h, "FAILED"))
  <2>1. n \in Nat
    BY DEF HeldLoaded, Loaded
  <2>2. \/ Commits(f, failed, attempts)
        \/ /\ Allows(h, "RETRY_PAYMENT") /\ Len(attempts) = n
           /\ CASE outcome = "FAILED" /\ n < 4 -> Commits(f, failed, AttemptMade(h, "FAILED"))
                [] outcome = "FAILED" /\ n >= 4 ->
                     MovesCase(h, "STOPPED", f, failed, AttemptMade(h, "FAILED"))
                [] outcome = "SUBMITTED" ->
                     MovesCase(h, "VERIFICATION_PENDING", f, Stepped(old, "RUNNING"),
                               AttemptMade(h, "STARTED"))
                [] outcome = "SUCCEEDED" ->
                     MovesCase(h, "VERIFICATION_PENDING", f, Stepped(old, "RUNNING"),
                               AttemptMade(h, "SUCCEEDED"))
                [] outcome = "UNKNOWN" ->
                     MovesCase(h, "ESCALATED", f, Stepped(old, "REQUIRES_REVIEW"),
                               AttemptMade(h, "UNCERTAIN"))
    BY <1>7 DEF Dispatch
  <2> HIDE DEF n, failed, old
  <2>3. \/ Commits(f, failed, attempts)
        \/ Declined
        \/ \E to, w, made : MovesCase(h, to, f, w, made)
    <3>1. CASE outcome = "FAILED" /\ n < 4
      BY <2>2, <3>1
    <3>2. CASE outcome = "FAILED" /\ n >= 4
      <4>1. ~(n < 4)
        BY <2>1, <3>2
      <4>2. Commits(f, failed, attempts) \/ MovesCase(h, "STOPPED", f, failed, AttemptMade(h, "FAILED"))
        BY <2>2, <3>2, <4>1
      <4> QED BY <4>2
    <3>3. CASE outcome = "SUBMITTED"
      BY <2>2, <3>3
    <3>4. CASE outcome = "SUCCEEDED"
      BY <2>2, <3>4
    <3>5. CASE outcome = "UNKNOWN"
      BY <2>2, <3>5
    <3> QED BY <2>1, <3>1, <3>2, <3>3, <3>4, <3>5 DEF Outcomes
  <2>4. Fits(failed)
    BY <1>2 DEF failed
  <2>5. CASE Declined
    <3>1. Kept /\ FlowsKept /\ attempts' = AttemptMade(h, "FAILED")
      BY <1>4, <2>4, <2>5
    <3> QED BY <2>5, <3>1 DEF n
  <2>6. CASE Commits(f, failed, attempts)
    BY <1>4, <2>4, <2>6
  <2> QED BY <1>5, <2>3, <2>5, <2>6
<1>8. Kept /\ FlowsKept /\ AttemptsKept
  <2> DEFINE steps == StepsOf(old.action)
             n == old.step
  <2>1. /\ CASE n > Len(steps) -> Commits(f, [old EXCEPT !.status = "COMPLETED"], attempts)
             [] n <= Len(steps) /\ steps[n] = "validate" -> Validate(h, f)
             [] n <= Len(steps) /\ steps[n] = "dispatch" ->
                    \E outcome \in Outcomes : Dispatch(h, f, outcome)
             [] n <= Len(steps) /\ steps[n] = "await" ->
                    Commits(f, Stepped(old, "WAITING"), attempts)
             [] OTHER -> Commits(f, Stepped(old, "RUNNING"), attempts)
    BY DEF Execute
  <2>2. n \in Nat /\ Len(steps) \in Nat
    BY <1>1 DEF FlowRecords, StepsOf
  <2> HIDE DEF steps, n, old
  <2>3. \/ Commits(f, [old EXCEPT !.status = "COMPLETED"], attempts)
        \/ Commits(f, Stepped(old, "WAITING"), attempts)
        \/ Commits(f, Stepped(old, "RUNNING"), attempts)
        \/ Validate(h, f)
        \/ \E outcome \in Outcomes : Dispatch(h, f, outcome)
    BY <2>1, <2>2
  <2>4. CASE \E w : Fits(w) /\ Commits(f, w, attempts)
    BY <1>4, <2>4
  <2>5. \/ \E w : Fits(w) /\ Commits(f, w, attempts)
        \/ Validate(h, f)
        \/ \E outcome \in Outcomes : Dispatch(h, f, outcome)
    BY <1>2, <1>3, <2>3
  <2> HIDE DEF Kept, FlowsKept, AttemptsKept
  <2> QED BY <1>6, <1>7, <2>4, <2>5
<1> QED BY <1>8 DEF Execute, Ends

LEMMA ExecuteStep ==
    ASSUME GInv, NEW s \in Sessions, NEW h \in held[s], NEW f \in DOMAIN h.flows, Execute(s, h, f)
    PROVE  GInv'
<1> USE DEF GInv, Books
<1>1. /\ UNCHANGED <<state, txn, ahead, version, facts, recs, decisions, consents, now>>
      /\ held' = [held EXCEPT ![s] = {}]
      /\ \/ flows' = flows
         \/ \E w \in FlowRecords :
               w.decision \in DOMAIN decisions /\ flows' = [flows EXCEPT ![f] = w]
      /\ \/ attempts' = attempts
         \/ /\ Allows(h, "RETRY_PAYMENT") /\ Len(attempts) = Len(h.attempts)
            /\ attempts' = AttemptMade(h, "FAILED")
  BY ExecuteMeans
<1>2. Loaded(h)
  BY DEF HeldLoaded
<1>3. /\ flows' \in Seq(FlowRecords) /\ DOMAIN flows' = DOMAIN flows
      /\ \A g \in DOMAIN flows' : flows'[g].decision \in DOMAIN decisions
  <2>1. flows \in Seq(FlowRecords) /\ \A g \in DOMAIN flows : flows[g].decision \in DOMAIN decisions
    BY DEF ListsTyped, Linked
  <2>2. ASSUME NEW w \in FlowRecords, w.decision \in DOMAIN decisions,
               flows' = [flows EXCEPT ![f] = w]
        PROVE  /\ flows' \in Seq(FlowRecords) /\ DOMAIN flows' = DOMAIN flows
               /\ \A g \in DOMAIN flows' : flows'[g].decision \in DOMAIN decisions
    <3>1. f \in DOMAIN flows
      BY <1>2 DEF Loaded
    <3>2. /\ flows' \in Seq(FlowRecords) /\ DOMAIN flows' = DOMAIN flows /\ flows'[f] = w
          /\ \A g \in DOMAIN flows : g # f => flows'[g] = flows[g]
      BY <2>1, <2>2, <3>1, Replaced
    <3> QED BY <2>1, <2>2, <3>2
  <2> QED BY <1>1, <2>1, <2>2
<1>4. /\ attempts' \in Seq(AttemptRecords) /\ Len(attempts') <= 4
      /\ \A i \in DOMAIN attempts' : attempts'[i].at \in 1..now
  <2>1. /\ attempts \in Seq(AttemptRecords) /\ Len(attempts) <= 4
        /\ \A i \in DOMAIN attempts : attempts[i].at \in 1..now
    BY DEF ListsTyped
  <2>2. CASE attempts' = attempts
    BY <2>1, <2>2
  <2>3. CASE /\ Allows(h, "RETRY_PAYMENT") /\ Len(attempts) = Len(h.attempts)
             /\ attempts' = AttemptMade(h, "FAILED")
    <3> DEFINE new == [status |-> "FAILED", action |-> "RETRY_PAYMENT", at |-> h.now]
    <3>1. Len(attempts) < 4
      BY <2>3 DEF Allows, RevalidationLimit
    <3>2. h.now \in Nat /\ h.now \in 1..now
      BY <1>2 DEF Loaded
    <3>3. new \in AttemptRecords /\ new.at \in 1..now
      BY <3>2 DEF AttemptRecords
    <3>4. attempts' = Append(attempts, new)
      BY <2>3 DEF AttemptMade
    <3> HIDE DEF new
    <3>5. /\ attempts' \in Seq(AttemptRecords) /\ Len(attempts') = Len(attempts) + 1
          /\ \A i \in DOMAIN attempts : attempts'[i] = attempts[i]
          /\ \A i \in DOMAIN attempts' : i \in DOMAIN attempts \/ attempts'[i] = new
      BY <2>1, <3>3, <3>4, Appended
    <3>6. Len(attempts') <= 4
      BY <2>1, <3>1, <3>5
    <3> QED BY <2>1, <3>3, <3>5, <3>6
  <2> QED BY <1>1, <2>2, <2>3
<1>5. ListsTyped'
  BY <1>1, <1>3, <1>4 DEF ListsTyped
<1>6. CaseTyped'
  BY <1>1, CaseKept
<1>7. now <= now'
  BY <1>1, Bounds DEF CaseTyped
<1> QED BY <1>1, <1>3, <1>5, <1>6, <1>7, OthersBooked

\* A consent is granted or revoked.
LEMMA ConsentsMean ==
    ASSUME GInv, NEW s \in Sessions, ChangeConsents(s)
    PROVE  /\ UNCHANGED <<state, txn, ahead, version, facts, recs, decisions, attempts, flows, now, held>>
           /\ held[s] = {} /\ consents' \in Seq(Consents)
<1>1. /\ UNCHANGED <<state, txn, ahead, version, facts, recs, decisions, attempts, flows, now, held>>
      /\ held[s] = {}
  BY DEF ChangeConsents, caseVars
<1>2. consents \in Seq(Consents)
  BY DEF GInv, Books, ListsTyped
<1>3. ASSUME NEW terms \in ConsentTerms, CreateConsent(terms[1], terms[2], terms[3], terms[4])
      PROVE  consents' \in Seq(Consents)
  <2> DEFINE new == [type |-> terms[1], status |-> terms[2], merchant |-> terms[3],
                     expires |-> terms[4]]
  <2>1. terms \in ConsentTypes \X ConsentStatuses \X STRING \X Nat
    BY ConsentTermsAssumption
  <2>2. new \in Consents
    BY <2>1 DEF Consents
  <2>3. consents' = Append(consents, new)
    BY <1>3 DEF CreateConsent
  <2> HIDE DEF new
  <2> QED BY <1>2, <2>2, <2>3
<1>4. ASSUME NEW i \in DOMAIN consents, RevokeConsent(i)
      PROVE  consents' \in Seq(Consents)
  <2> DEFINE new == [consents[i] EXCEPT !.status = "REVOKED"]
  <2>1. \A c \in Consents : [c EXCEPT !.status = "REVOKED"] \in Consents
    BY DEF Consents, ConsentStatuses
  <2>2. new \in Consents
    BY <1>2, <2>1
  <2>3. consents' = [consents EXCEPT ![i] = new]
    BY <1>4 DEF RevokeConsent
  <2> HIDE DEF new
  <2> QED BY <1>2, <2>2, <2>3
<1> QED BY <1>1, <1>3, <1>4 DEF ChangeConsents

LEMMA ConsentStep ==
    ASSUME GInv, NEW s \in Sessions, ChangeConsents(s)
    PROVE  GInv'
<1>1. /\ UNCHANGED <<state, txn, ahead, version, facts, recs, decisions, attempts, flows, now, held>>
      /\ consents' \in Seq(Consents)
  BY ConsentsMean
<1>2. CaseTyped'
  BY <1>1, CaseKept
<1>3. ListsTyped'
  BY <1>1 DEF GInv, Books, ListsTyped
<1>4. now <= now' /\ \A f \in DOMAIN flows' : flows'[f].decision \in DOMAIN decisions
  BY <1>1, Bounds DEF GInv, Books, CaseTyped, Linked
<1> QED BY <1>1, <1>2, <1>3, <1>4, OthersBooked

LEMMA CreateWorkflowStep ==
    ASSUME GInv, NEW s \in Sessions, NEW h \in held[s], NEW d \in DOMAIN h.decisions,
           CreateWorkflow(s, h, d)
    PROVE  GInv'
<1> DEFINE new == [status |-> "PENDING", action |-> h.decisions[d].action, decision |-> d, step |-> 1]
<1>1. /\ UNCHANGED <<state, txn, ahead, version, facts, recs, decisions, consents, attempts, now>>
      /\ held' = [held EXCEPT ![s] = {}]
      /\ flows' = Append(flows, new)
  BY DEF CreateWorkflow, caseVars, Ends
<1>2. new \in FlowRecords /\ new.decision \in DOMAIN decisions
  <2>1. Loaded(h)
    BY DEF GInv, HeldLoaded
  <2>2. h.decisions[d] \in DecisionRecords /\ d \in Nat /\ d \in DOMAIN decisions
    BY <2>1 DEF Loaded
  <2>3. \A q \in DecisionRecords : q.action \in ActionTypes
    BY DEF DecisionRecords
  <2> QED BY <2>2, <2>3 DEF FlowRecords
<1> HIDE DEF new
<1>3. /\ flows' \in Seq(FlowRecords) /\ DOMAIN flows \subseteq DOMAIN flows'
      /\ \A f \in DOMAIN flows : flows'[f] = flows[f]
      /\ \A f \in DOMAIN flows' : f \in DOMAIN flows \/ flows'[f] = new
  BY <1>1, <1>2, Appended DEF GInv, Books, ListsTyped
<1>4. CaseTyped'
  BY <1>1, CaseKept
<1>5. ListsTyped'
  BY <1>1, <1>3 DEF GInv, Books, ListsTyped
<1>6. now <= now' /\ \A f \in DOMAIN flows' : flows'[f].decision \in DOMAIN decisions
  BY <1>1, <1>2, <1>3, Bounds DEF GInv, Books, CaseTyped, Linked
<1> QED BY <1>1, <1>3, <1>4, <1>5, <1>6, OthersBooked

\* Operators and provider events move the case on.
LEMMA MovesOnMeans ==
    ASSUME GInv, NEW s \in Sessions, NEW h \in held[s], CaseMovesOn(s, h)
    PROVE  /\ UNCHANGED <<facts, recs, decisions, consents, attempts, flows, now>>
           /\ held' = [held EXCEPT ![s] = {}]
           /\ state' \in States /\ txn' \in TxnStatuses /\ ahead' \in BOOLEAN
           /\ ahead => ahead'
           /\ h.state \notin TerminalStates /\ h.version < MaxVersion /\ version' = h.version + 1
<1>1. state \in States /\ txn \in TxnStatuses /\ ahead \in BOOLEAN
  BY DEF GInv, Books, CaseTyped
<1>2. /\ UNCHANGED <<facts, recs, decisions, consents, attempts, flows, now>>
      /\ held' = [held EXCEPT ![s] = {}]
      /\ h.state \notin TerminalStates /\ h.version < MaxVersion /\ version' = h.version + 1
      /\ \/ state' \in OperatorTargets \ {h.state} /\ UNCHANGED <<txn, ahead>>
         \/ Annotate
         \/ state' = "RECOVERED" /\ txn' \in {txn, "SUCCEEDED"} /\ UNCHANGED ahead
  BY DEF CaseMovesOn, Ends, lists
<1>3. CASE state' \in OperatorTargets \ {h.state} /\ UNCHANGED <<txn, ahead>>
  BY <1>1, <1>2, <1>3, TargetsAssumption
<1>4. CASE Annotate
  BY <1>1, <1>2, <1>4 DEF Annotate
<1>5. CASE state' = "RECOVERED" /\ txn' \in {txn, "SUCCEEDED"} /\ UNCHANGED ahead
  BY <1>1, <1>2, <1>5 DEF States, TxnStatuses
<1> QED BY <1>2, <1>3, <1>4, <1>5

LEMMA MovesOnStep ==
    ASSUME GInv, NEW s \in Sessions, NEW h \in held[s], CaseMovesOn(s, h)
    PROVE  GInv'
<1>1. /\ UNCHANGED <<facts, recs, decisions, consents, attempts, flows, now>>
      /\ held' = [held EXCEPT ![s] = {}]
      /\ state' \in States /\ txn' \in TxnStatuses /\ ahead' \in BOOLEAN
      /\ ahead => ahead'
      /\ h.version < MaxVersion /\ version' = h.version + 1
  BY MovesOnMeans
<1>2. CaseTyped'
  <2> DEFINE n == Len(decisions)
  <2>1. n \in Nat /\ h.version \in Nat
    BY DEF GInv, Books, ListsTyped, HeldLoaded, Loaded
  <2> HIDE DEF n
  <2>2. version' \in Nat \ {0} /\ version' <= MaxVersion + n
    BY <1>1, <2>1, Bounds
  <2>3. version' <= MaxVersion + Len(decisions')
    BY <1>1, <2>2 DEF n
  <2> QED BY <1>1, <2>2, <2>3 DEF GInv, Books, CaseTyped
<1>3. ListsTyped'
  BY <1>1 DEF GInv, Books, ListsTyped
<1>4. now <= now' /\ \A f \in DOMAIN flows' : flows'[f].decision \in DOMAIN decisions
  BY <1>1, Bounds DEF GInv, Books, CaseTyped, Linked
<1> QED BY <1>1, <1>2, <1>3, <1>4, OthersBooked

\* A request is given up, time passes, or nothing happens.
LEMMA IdleStep ==
    ASSUME GInv, (\E s \in Sessions : RollBack(s)) \/ Tick \/ UNCHANGED vars
    PROVE  GInv'
<1>1. /\ UNCHANGED <<state, txn, ahead, version, facts, recs, decisions, consents, attempts, flows>>
      /\ (\E s \in Sessions : held' = [held EXCEPT ![s] = {}]) \/ held' = held
  BY DEF RollBack, Ends, Tick, vars, lists, caseVars
<1>2. now \in 1..MaxTime
  BY DEF GInv, Books, CaseTyped
<1>3. now' \in 1..MaxTime /\ now <= now'
  BY <1>2, Bounds DEF RollBack, Ends, Tick, vars
<1>4. CaseTyped'
  BY <1>1, <1>3 DEF GInv, Books, CaseTyped
<1>5. ListsTyped'
  <2>1. \A i \in DOMAIN attempts : attempts[i].at \in 1..now
    BY DEF GInv, Books, ListsTyped
  <2>2. \A i \in DOMAIN attempts : attempts[i].at \in 1..now'
    BY <1>2, <1>3, <2>1
  <2> QED BY <1>1, <2>2 DEF GInv, Books, ListsTyped
<1>6. \A f \in DOMAIN flows' : flows'[f].decision \in DOMAIN decisions
  BY <1>1 DEF GInv, Books, Linked
<1> QED BY <1>1, <1>3, <1>4, <1>5, <1>6, OthersBooked

\* The steps, by name.
LEMMA StepCases ==
    ASSUME [Next]_vars
    PROVE  \/ \E s \in Sessions : Load(s)
           \/ \E s \in Sessions : ChangeConsents(s)
           \/ \E s \in Sessions : \E h \in held[s] : GenerateRecommendation(s, h)
           \/ \E s \in Sessions : \E h \in held[s] :
                 \E k \in Keys \cup {NoKey}, i \in DOMAIN h.recs, channel \in Channels :
                    \E action \in Proposals \cup {h.recs[i].action} :
                        EvaluatePolicy(s, h, k, i, action, channel)
           \/ \E s \in Sessions : \E h \in held[s] :
                 \E d \in DOMAIN h.decisions : CreateWorkflow(s, h, d)
           \/ \E s \in Sessions : \E h \in held[s] : \E f \in DOMAIN h.flows : Execute(s, h, f)
           \/ \E s \in Sessions : \E h \in held[s] : CaseMovesOn(s, h)
           \/ (\E s \in Sessions : RollBack(s)) \/ Tick \/ UNCHANGED vars
BY Zenon DEF Next, Serve

LEMMA NextOK == GInv /\ [Next]_vars => GInv'
<1> SUFFICES ASSUME GInv, [Next]_vars PROVE GInv'
  OBVIOUS
<1>1. CASE \E s \in Sessions : Load(s)
  BY <1>1, LoadStep
<1>2. CASE \E s \in Sessions : ChangeConsents(s)
  BY <1>2, ConsentStep
<1>3. CASE \E s \in Sessions : \E h \in held[s] : GenerateRecommendation(s, h)
  BY <1>3, GenerateStep
<1>4. ASSUME NEW s \in Sessions, NEW h \in held[s], NEW k \in Keys \cup {NoKey},
             NEW i \in DOMAIN h.recs, NEW channel \in Channels,
             NEW action \in Proposals \cup {h.recs[i].action},
             EvaluatePolicy(s, h, k, i, action, channel)
      PROVE  GInv'
  BY <1>4, EvaluateStep
<1>5. ASSUME NEW s \in Sessions, NEW h \in held[s], NEW d \in DOMAIN h.decisions,
             CreateWorkflow(s, h, d)
      PROVE  GInv'
  BY <1>5, CreateWorkflowStep
<1>6. ASSUME NEW s \in Sessions, NEW h \in held[s], NEW f \in DOMAIN h.flows, Execute(s, h, f)
      PROVE  GInv'
  BY <1>6, ExecuteStep
<1>7. CASE \E s \in Sessions : \E h \in held[s] : CaseMovesOn(s, h)
  BY <1>7, MovesOnStep
<1>8. CASE (\E s \in Sessions : RollBack(s)) \/ Tick \/ UNCHANGED vars
  BY <1>8, IdleStep
<1> QED BY <1>1, <1>2, <1>3, <1>4, <1>5, <1>6, <1>7, <1>8, StepCases, Zenon

LEMMA InvariantHolds == Spec => []GInv
BY InitOK, NextOK, PTL DEF Spec

-----------------------------------------------------------------------------
(* One request at a time: what a request has loaded is still so when it      *)
(* commits.                                                                  *)

Serial == \E s : Sessions = {s}

Fresh(h) ==
    h.state = state /\ h.version = version /\ h.recs = recs /\ h.consents = consents

\* Confidence enough for an approval comes with a retry after at most one
\* attempt, or with the end of the case, which nothing reopens.
ConfidenceEarned ==
    \A i \in DOMAIN recs :
        \/ recs[i].action = "RETRY_PAYMENT" /\ recs[i].prior <= 1
        \/ recs[i].confidence < MinConfidence
        \/ state \in TerminalStates

\* An approval has moved the case on, and until something else moves it the
\* case is where the approval has put it.
ApprovalsMoved ==
    \A d \in DOMAIN decisions :
        decisions[d].status = "APPROVED" =>
            /\ decisions[d].version < version
            /\ version = decisions[d].version + 1 => state = "ACTION_PENDING"

\* A refusal marks its recommendation.
RefusalsMarked ==
    \A d \in DOMAIN decisions :
        decisions[d].status = "REJECTED" => recs[decisions[d].rec].status = "REJECTED_BY_POLICY"

InTurn ==
    /\ ConfidenceEarned /\ ApprovalsMoved /\ RefusalsMarked
    /\ ApprovalsRestOnRetries /\ ApprovalsDoNotOverlap /\ RefusedStaysRefused

SerialInv == GInv /\ InTurn /\ \A s \in Sessions : \A h \in held[s] : Fresh(h)

LEMMA SerialInit == Init => SerialInv
<1> SUFFICES ASSUME Init PROVE SerialInv
  OBVIOUS
<1>1. InTurn
  BY DEF Init, InTurn, ConfidenceEarned, ApprovalsMoved, RefusalsMarked, ApprovalsRestOnRetries,
         ApprovalsDoNotOverlap, RefusedStaysRefused
<1>2. \A s \in Sessions : \A h \in held[s] : Fresh(h)
  BY DEF Init
<1> QED BY <1>1, <1>2, InitOK DEF SerialInv

\* The only request ends.
LEMMA NobodyElse ==
    ASSUME Serial, GInv, NEW s \in Sessions, held' = [held EXCEPT ![s] = {}]
    PROVE  \A t \in Sessions : held'[t] = {}
BY DEF Serial, GInv, HeldLoaded

LEMMA VersionsTyped ==
    ASSUME GInv
    PROVE  version \in Nat /\ \A d \in DOMAIN decisions : decisions[d].version \in Nat
<1>1. \A d \in DOMAIN decisions : decisions[d] \in DecisionRecords
  BY DEF GInv, Books, ListsTyped
<1>2. \A q \in DecisionRecords : q.version \in Nat
  BY DEF DecisionRecords
<1> QED BY <1>1, <1>2 DEF GInv, Books, CaseTyped

\* A step that neither recommends nor decides keeps what is known of both, if it
\* leaves a final state alone and counts the version up when it moves the case.
LEMMA OthersInTurn ==
    ASSUME GInv, InTurn, UNCHANGED <<recs, decisions>>,
           state \in TerminalStates => state' = state,
           (state' = state /\ version' = version) \/ version' = version + 1
    PROVE  InTurn'
<1> USE DEF InTurn
<1>1. version \in Nat /\ \A d \in DOMAIN decisions : decisions[d].version \in Nat
  BY VersionsTyped
<1>2. ConfidenceEarned'
  BY DEF ConfidenceEarned
<1>3. ApprovalsMoved'
  <2> SUFFICES ASSUME NEW d \in DOMAIN decisions, decisions[d].status = "APPROVED"
               PROVE  /\ decisions[d].version < version'
                      /\ version' = decisions[d].version + 1 => state' = "ACTION_PENDING"
    BY DEF ApprovalsMoved
  <2>1. /\ decisions[d].version < version
        /\ version = decisions[d].version + 1 => state = "ACTION_PENDING"
    BY DEF ApprovalsMoved
  <2> QED BY <1>1, <2>1
<1>4. RefusalsMarked' /\ ApprovalsRestOnRetries' /\ ApprovalsDoNotOverlap' /\ RefusedStaysRefused'
  BY DEF RefusalsMarked, ApprovalsRestOnRetries, ApprovalsDoNotOverlap, RefusedStaysRefused
<1> QED BY <1>2, <1>3, <1>4

LEMMA GenerateInTurn ==
    ASSUME SerialInv, NEW s \in Sessions, NEW h \in held[s], GenerateRecommendation(s, h)
    PROVE  InTurn'
<1> USE DEF SerialInv, InTurn
<1>1. state' = state /\ UNCHANGED <<version, decisions>>
  BY GenerateMeans
<1>2. PICK new \in RecRecords :
        /\ recs' = Append(recs, new)
        /\ \/ new.action = "RETRY_PAYMENT" /\ new.prior <= 1
           \/ new.confidence < MinConfidence \/ h.state \in TerminalStates
  BY GenerateMeans
<1>3. h.state = state
  BY DEF Fresh
<1>4. /\ \A i \in DOMAIN recs : i \in DOMAIN recs' /\ recs'[i] = recs[i]
      /\ \A i \in DOMAIN recs' : i \in DOMAIN recs \/ recs'[i] = new
  BY <1>2, Appended DEF GInv, Books, ListsTyped
<1>5. ConfidenceEarned'
  <2> SUFFICES ASSUME NEW i \in DOMAIN recs'
               PROVE  \/ recs'[i].action = "RETRY_PAYMENT" /\ recs'[i].prior <= 1
                      \/ recs'[i].confidence < MinConfidence
                      \/ state' \in TerminalStates
    BY DEF ConfidenceEarned
  <2> QED BY <1>1, <1>2, <1>3, <1>4 DEF ConfidenceEarned
<1>6. ApprovalsMoved' /\ ApprovalsDoNotOverlap' /\ RefusedStaysRefused'
  BY <1>1 DEF ApprovalsMoved, ApprovalsDoNotOverlap, RefusedStaysRefused
<1>7. RefusalsMarked' /\ ApprovalsRestOnRetries'
  <2>1. \A d \in DOMAIN decisions : recs'[decisions[d].rec] = recs[decisions[d].rec]
    BY <1>4 DEF GInv, Books, Linked
  <2> QED BY <1>1, <2>1 DEF RefusalsMarked, ApprovalsRestOnRetries
<1> QED BY <1>5, <1>6, <1>7

\* A decision is taken on the recommendation and the case as they are.
LEMMA EvaluateInTurn ==
    ASSUME SerialInv, NEW s \in Sessions, NEW h \in held[s], NEW k \in Keys \cup {NoKey},
           NEW i \in DOMAIN h.recs, NEW channel, NEW action \in Proposals \cup {h.recs[i].action},
           EvaluatePolicy(s, h, k, i, action, channel)
    PROVE  InTurn'
<1> USE DEF SerialInv, InTurn
<1>1. PICK new \in DecisionRecords, v \in ValidationStatuses : Decides(h, i, new, v)
  BY EvaluateMakes
<1>2. h.state = state /\ h.version = version /\ h.recs = recs /\ i \in DOMAIN recs
  BY DEF Fresh
<1>3. /\ new.rec = i /\ new.version = version
      /\ new.status = "APPROVED" =>
            state \in ActionableStates /\ ~(recs[i].confidence < MinConfidence)
      /\ recs[i].status = "REJECTED_BY_POLICY" => new.status = "REJECTED"
      /\ new.status = "REJECTED" => v = "REJECTED_BY_POLICY"
      /\ state \in TerminalStates => state' = state
      /\ (state' = state /\ version' = version) \/ version' = version + 1
      /\ new.status = "APPROVED" => state' = "ACTION_PENDING" /\ version' = version + 1
  BY <1>1, <1>2 DEF Decides
<1>4. /\ recs \in Seq(RecRecords) /\ decisions \in Seq(DecisionRecords)
      /\ \A d \in DOMAIN decisions : decisions[d].rec \in DOMAIN recs
  BY DEF GInv, Books, ListsTyped, Linked
<1>5. /\ DOMAIN recs' = DOMAIN recs
      /\ \A j \in DOMAIN recs : SameRec(recs'[j], recs[j])
      /\ \A j \in DOMAIN recs : j # i => recs'[j] = recs[j]
      /\ recs'[i].status = v
  <2>1. recs' = IF v = recs[i].status THEN recs ELSE [recs EXCEPT ![i].status = v]
    BY <1>1, <1>2 DEF Decides
  <2> QED BY <1>2, <1>4, <2>1, Marked
<1>6. /\ DOMAIN decisions = 1..Len(decisions) /\ Len(decisions) \in Nat
      /\ \A d \in DOMAIN decisions : decisions'[d] = decisions[d]
      /\ \A d \in DOMAIN decisions' :
            d \in DOMAIN decisions \/ (d = Len(decisions) + 1 /\ decisions'[d] = new)
  <2>1. decisions' = Append(decisions, new)
    BY <1>1 DEF Decides
  <2> QED BY <1>4, <2>1, Appended
<1>7. version \in Nat /\ \A d \in DOMAIN decisions : decisions[d].version \in Nat
  BY VersionsTyped
<1>8. ConfidenceEarned'
  BY <1>3, <1>5 DEF ConfidenceEarned, SameRec
<1>9. ApprovalsMoved'
  <2> SUFFICES ASSUME NEW d \in DOMAIN decisions', decisions'[d].status = "APPROVED"
               PROVE  /\ decisions'[d].version < version'
                      /\ version' = decisions'[d].version + 1 => state' = "ACTION_PENDING"
    BY DEF ApprovalsMoved
  <2>1. CASE d \in DOMAIN decisions
    <3>1. decisions'[d] = decisions[d]
      BY <1>6, <2>1
    <3>2. /\ decisions[d].version < version
          /\ version = decisions[d].version + 1 => state = "ACTION_PENDING"
      BY <2>1, <3>1 DEF ApprovalsMoved
    <3> QED BY <1>3, <1>7, <2>1, <3>1, <3>2
  <2>2. CASE decisions'[d] = new
    BY <1>3, <1>7, <2>2
  <2> QED BY <1>6, <2>1, <2>2
<1>10. RefusalsMarked'
  <2> SUFFICES ASSUME NEW d \in DOMAIN decisions', decisions'[d].status = "REJECTED"
               PROVE  recs'[decisions'[d].rec].status = "REJECTED_BY_POLICY"
    BY DEF RefusalsMarked
  <2>1. CASE d \in DOMAIN decisions
    <3>1. decisions'[d] = decisions[d] /\ decisions[d].rec \in DOMAIN recs
            /\ recs[decisions[d].rec].status = "REJECTED_BY_POLICY"
      BY <1>4, <1>6, <2>1 DEF RefusalsMarked
    <3> QED BY <1>3, <1>5, <3>1
  <2>2. CASE decisions'[d] = new
    BY <1>3, <1>5, <2>2
  <2> QED BY <1>6, <2>1, <2>2
<1>11. ApprovalsRestOnRetries'
  <2> SUFFICES ASSUME NEW d \in DOMAIN decisions', decisions'[d].status = "APPROVED"
               PROVE  /\ recs'[decisions'[d].rec].action = "RETRY_PAYMENT"
                      /\ recs'[decisions'[d].rec].prior <= 1
    BY DEF ApprovalsRestOnRetries
  <2>1. CASE d \in DOMAIN decisions
    <3>1. decisions'[d] = decisions[d] /\ decisions[d].rec \in DOMAIN recs
            /\ recs[decisions[d].rec].action = "RETRY_PAYMENT"
            /\ recs[decisions[d].rec].prior <= 1
      BY <1>4, <1>6, <2>1 DEF ApprovalsRestOnRetries
    <3> QED BY <1>5, <3>1 DEF SameRec
  <2>2. CASE decisions'[d] = new
    <3>1. state \notin TerminalStates
      BY <1>3, <2>2 DEF ActionableStates, TerminalStates
    <3>2. recs[i].action = "RETRY_PAYMENT" /\ recs[i].prior <= 1
      BY <1>2, <1>3, <2>2, <3>1 DEF ConfidenceEarned
    <3> QED BY <1>2, <1>3, <1>5, <2>2, <3>2 DEF SameRec
  <2> QED BY <1>6, <2>1, <2>2
<1>12. ApprovalsDoNotOverlap'
  <2> SUFFICES ASSUME NEW d \in DOMAIN decisions', NEW e \in DOMAIN decisions', d < e,
                      decisions'[d].status = "APPROVED", decisions'[e].status = "APPROVED"
               PROVE  decisions'[d].version + 1 < decisions'[e].version
    BY DEF ApprovalsDoNotOverlap
  <2>1. d \in DOMAIN decisions /\ decisions'[d] = decisions[d]
    BY <1>6
  <2>2. CASE e \in DOMAIN decisions
    BY <1>6, <2>1, <2>2 DEF ApprovalsDoNotOverlap
  <2>3. CASE decisions'[e] = new
    <3>1. state # "ACTION_PENDING"
      BY <1>3, <2>3 DEF ActionableStates
    <3>2. /\ decisions[d].version < version
          /\ version = decisions[d].version + 1 => state = "ACTION_PENDING"
      BY <2>1 DEF ApprovalsMoved
    <3> QED BY <1>3, <1>7, <2>1, <2>3, <3>1, <3>2
  <2> QED BY <1>6, <2>2, <2>3
<1>13. RefusedStaysRefused'
  <2> SUFFICES ASSUME NEW d \in DOMAIN decisions', NEW e \in DOMAIN decisions', d < e,
                      decisions'[d].rec = decisions'[e].rec, decisions'[d].status = "REJECTED"
               PROVE  decisions'[e].status # "APPROVED"
    BY DEF RefusedStaysRefused
  <2>1. d \in DOMAIN decisions /\ decisions'[d] = decisions[d]
    BY <1>6
  <2>2. CASE e \in DOMAIN decisions
    BY <1>6, <2>1, <2>2 DEF RefusedStaysRefused
  <2>3. CASE decisions'[e] = new
    <3>1. recs[i].status = "REJECTED_BY_POLICY"
      BY <1>3, <2>1, <2>3 DEF RefusalsMarked
    <3> QED BY <1>3, <2>3, <3>1
  <2> QED BY <1>6, <2>2, <2>3
<1> QED BY <1>8, <1>9, <1>10, <1>11, <1>12, <1>13

LEMMA SerialNext ==
    ASSUME Serial, SerialInv, [Next]_vars
    PROVE  SerialInv'
<1> DEFINE AllFresh == \A s \in Sessions : \A h \in held[s] : Fresh(h)
<1>1. GInv /\ InTurn /\ AllFresh /\ GInv'
  BY NextOK DEF SerialInv
<1>2. ASSUME NEW s \in Sessions, held' = [held EXCEPT ![s] = {}] PROVE AllFresh'
  BY <1>1, <1>2, NobodyElse
<1>3. CASE \E s \in Sessions : Load(s)
  <2>1. PICK s \in Sessions : Load(s)
    BY <1>3
  <2>2. UNCHANGED <<state, version, recs, decisions, consents>>
    BY <2>1 DEF Load, caseVars, lists
  <2>3. \A t \in Sessions : \A h \in held'[t] : h \in held[t] \/ h = Present
    BY <1>1, <2>1 DEF Load, GInv, HeldLoaded
  <2>4. Fresh(Present)
    BY DEF Fresh, Present
  <2>5. AllFresh'
    <3> SUFFICES ASSUME NEW t \in Sessions, NEW h \in held'[t] PROVE Fresh(h)'
      OBVIOUS
    <3>1. Fresh(h)
      BY <1>1, <2>3, <2>4
    <3> QED BY <2>2, <3>1 DEF Fresh
  <2> QED BY <1>1, <2>2, <2>5, OthersInTurn DEF SerialInv
<1>4. CASE \E s \in Sessions : ChangeConsents(s)
  <2>1. PICK s \in Sessions : ChangeConsents(s)
    BY <1>4
  <2>2. UNCHANGED <<state, version, recs, decisions, held>> /\ held[s] = {}
    BY <1>1, <2>1, ConsentsMean
  <2>3. AllFresh'
    BY <2>2 DEF Serial
  <2> QED BY <1>1, <2>2, <2>3, OthersInTurn DEF SerialInv
<1>5. CASE \E s \in Sessions : \E h \in held[s] : GenerateRecommendation(s, h)
  <2> PICK s \in Sessions : \E h \in held[s] : GenerateRecommendation(s, h)
    BY <1>5
  <2>1. PICK h \in held[s] : GenerateRecommendation(s, h)
    OBVIOUS
  <2>2. held' = [held EXCEPT ![s] = {}]
    BY <1>1, <2>1, GenerateMeans
  <2> QED BY <1>1, <1>2, <2>1, <2>2, GenerateInTurn DEF SerialInv
<1>6. ASSUME NEW s \in Sessions, NEW h \in held[s], NEW k \in Keys \cup {NoKey},
             NEW i \in DOMAIN h.recs, NEW channel \in Channels,
             NEW action \in Proposals \cup {h.recs[i].action},
             EvaluatePolicy(s, h, k, i, action, channel)
      PROVE  SerialInv'
  <2>1. held' = [held EXCEPT ![s] = {}]
    BY <1>1, <1>6, EvaluateMakes
  <2>2. InTurn'
    BY <1>6, EvaluateInTurn
  <2> QED BY <1>1, <1>2, <2>1, <2>2 DEF SerialInv
<1>7. ASSUME NEW s \in Sessions, NEW h \in held[s], NEW d \in DOMAIN h.decisions,
             CreateWorkflow(s, h, d)
      PROVE  SerialInv'
  <2>1. UNCHANGED <<state, version, recs, decisions>> /\ held' = [held EXCEPT ![s] = {}]
    BY <1>7 DEF CreateWorkflow, caseVars, Ends
  <2> QED BY <1>1, <1>2, <2>1, OthersInTurn DEF SerialInv
<1>8. ASSUME NEW s \in Sessions, NEW h \in held[s], NEW f \in DOMAIN h.flows, Execute(s, h, f)
      PROVE  SerialInv'
  <2>1. UNCHANGED <<state, version, recs, decisions>> /\ held' = [held EXCEPT ![s] = {}]
    BY <1>1, <1>8, ExecuteMeans
  <2> QED BY <1>1, <1>2, <2>1, OthersInTurn DEF SerialInv
<1>9. CASE \E s \in Sessions : \E h \in held[s] : CaseMovesOn(s, h)
  <2> PICK s \in Sessions : \E h \in held[s] : CaseMovesOn(s, h)
    BY <1>9
  <2>1. PICK h \in held[s] : CaseMovesOn(s, h)
    OBVIOUS
  <2>2. Fresh(h)
    BY <1>1
  <2>3. /\ UNCHANGED <<recs, decisions>> /\ held' = [held EXCEPT ![s] = {}]
        /\ state \notin TerminalStates /\ version' = version + 1
    BY <1>1, <2>1, <2>2, MovesOnMeans DEF Fresh
  <2> QED BY <1>1, <1>2, <2>3, OthersInTurn DEF SerialInv
<1>10. CASE (\E s \in Sessions : RollBack(s)) \/ Tick \/ UNCHANGED vars
  <2>1. /\ UNCHANGED <<state, version, recs, decisions, consents>>
        /\ (\E s \in Sessions : held' = [held EXCEPT ![s] = {}]) \/ held' = held
    BY <1>10 DEF RollBack, Ends, Tick, vars, lists, caseVars
  <2>2. CASE held' = held
    <3>1. AllFresh'
      BY <1>1, <2>1, <2>2 DEF Fresh
    <3> QED BY <1>1, <2>1, <3>1, OthersInTurn DEF SerialInv
  <2>3. CASE \E s \in Sessions : held' = [held EXCEPT ![s] = {}]
    BY <1>1, <1>2, <2>1, <2>3, OthersInTurn DEF SerialInv
  <2> QED BY <2>1, <2>2, <2>3
<1> QED BY <1>3, <1>4, <1>5, <1>6, <1>7, <1>8, <1>9, <1>10, StepCases, Zenon

LEMMA SerialHolds ==
    ASSUME Serial
    PROVE  Spec => []SerialInv
<1>1. Init => SerialInv
  BY SerialInit
<1>2. SerialInv /\ [Next]_vars => SerialInv'
  BY SerialNext
<1> QED BY <1>1, <1>2, PTL DEF Spec

\* Of several consents, the one a retry was allowed by.
LEMMA AllowedByConsent ==
    ASSUME SerialInv, NEW s \in Sessions, NEW h \in held[s], Allows(h, "RETRY_PAYMENT")
    PROVE  \E i \in DOMAIN consents :
              /\ consents[i].type = "RECURRING_BILLING" /\ consents[i].status = "GRANTED"
              /\ consents[i].expires = NoTime \/ h.now <= consents[i].expires
<1>1. consents \in Seq(Consents) /\ h.now \in Nat /\ h.consents = consents
  BY DEF SerialInv, GInv, Books, ListsTyped, HeldLoaded, Loaded, Fresh
<1> DEFINE G == Granted(h, {"RECURRING_BILLING"})
           Late(i) == h.consents[i].expires # NoTime /\ h.consents[i].expires < h.now
<1>2. FALSE \in {Late(i) : i \in G} \cup (IF G = {} THEN {TRUE} ELSE {})
  BY DEF Allows, ConsentFindings
<1>3. PICK i \in G : ~Late(i)
  BY <1>2
<1>4. i \in DOMAIN consents /\ consents[i].type = "RECURRING_BILLING" /\ consents[i].status = "GRANTED"
  BY <1>1 DEF Granted
<1>5. consents[i].expires \in Nat
  <2>1. consents[i] \in Consents
    BY <1>1, <1>4
  <2> QED BY <2>1 DEF Consents
<1> QED BY <1>1, <1>3, <1>4, <1>5

-----------------------------------------------------------------------------
(* The theorems, for any number of requests at once. *)

LEMMA Typed == GInv => TypeOK
<1> SUFFICES ASSUME GInv PROVE TypeOK
  OBVIOUS
<1> USE DEF GInv, Books
<1>1. version \in 1..(MaxVersion + MaxDecisions)
  <2> DEFINE n == Len(decisions)
  <2>1. /\ version \in Nat \ {0} /\ n \in Nat /\ n <= MaxDecisions
        /\ version <= MaxVersion + n
    BY DEF CaseTyped, ListsTyped
  <2> HIDE DEF n
  <2> QED BY <2>1, Bounds
<1>2. recs \in Seq([action : ActionTypes, confidence : 0..10000,
                    status : ValidationStatuses, prior : 0..4, number : Nat])
  BY DEF ListsTyped, RecRecords
<1>3. decisions \in Seq([key : Keys \cup {NoKey}, rec : DOMAIN recs, action : ActionTypes,
                         status : DecisionStatuses, version : Nat])
  <2> DEFINE D == [key : Keys \cup {NoKey}, rec : DOMAIN recs, action : ActionTypes,
                   status : DecisionStatuses, version : Nat]
  <2>1. decisions \in Seq(DecisionRecords)
    BY DEF ListsTyped
  <2>2. ASSUME NEW d \in DOMAIN decisions PROVE decisions[d] \in D
    <3>1. decisions[d] \in DecisionRecords
      BY <2>1
    <3>2. decisions[d].rec \in DOMAIN recs
      BY DEF Linked
    <3> QED BY <3>1, <3>2 DEF DecisionRecords
  <2> HIDE DEF D
  <2>3. decisions \in Seq(D)
    BY <2>1, <2>2
  <2> QED BY <2>3 DEF D
<1>4. attempts \in Seq([status : {"STARTED", "SUCCEEDED", "UNCERTAIN", "FAILED"},
                        action : {"RETRY_PAYMENT"}, at : 1..now])
  <2> DEFINE A == [status : {"STARTED", "SUCCEEDED", "UNCERTAIN", "FAILED"},
                   action : {"RETRY_PAYMENT"}, at : 1..now]
  <2>1. attempts \in Seq(AttemptRecords)
    BY DEF ListsTyped
  <2>2. ASSUME NEW i \in DOMAIN attempts PROVE attempts[i] \in A
    <3>1. attempts[i] \in AttemptRecords
      BY <2>1
    <3>2. attempts[i].at \in 1..now
      BY DEF ListsTyped
    <3> QED BY <3>1, <3>2 DEF AttemptRecords
  <2> HIDE DEF A
  <2>3. attempts \in Seq(A)
    BY <2>1, <2>2
  <2> QED BY <2>3 DEF A
<1>5. \A s \in Sessions : \A h \in held[s] :
        /\ h.now \in 1..now /\ DOMAIN h.recs \subseteq DOMAIN recs
        /\ DOMAIN h.decisions \subseteq DOMAIN decisions /\ DOMAIN h.flows \subseteq DOMAIN flows
  BY DEF HeldLoaded, Loaded
<1>6. /\ state \in States /\ txn \in TxnStatuses /\ ahead \in BOOLEAN
      /\ facts \in Profiles /\ now \in 1..MaxTime /\ consents \in Seq(Consents)
      /\ \A f \in DOMAIN flows : flows[f].decision \in DOMAIN decisions
  BY DEF CaseTyped, ListsTyped, Linked
<1> QED BY <1>1, <1>2, <1>3, <1>4, <1>5, <1>6 DEF TypeOK

\* IntelligenceOrchestrator, PolicyEngineService and WorkflowCreationService: a decision
\* names a recommendation of the case, a workflow a decision, and the rows a request
\* has loaded are still there when it commits.
THEOREM TypeCorrect == Spec => []TypeOK
BY InvariantHolds, Typed, PTL

\* PolicyEngineService, evaluate: however requests interleave, what is approved rests on
\* a recommendation to retry after at most one attempt, or on a STOP, because
\* LogisticRecoveryEstimator gives nothing else the confidence the evaluators ask for.
THEOREM ConfidenceNeeded == Spec => []ApprovalsNeedConfidence
<1>1. GInv => ApprovalsNeedConfidence
  BY DEF GInv, Books
<1> QED BY <1>1, InvariantHolds, PTL

\* WorkflowExecutionService and CaseTransitionService: no retry is recorded but as
\* declined, because the move that any other outcome asks for numbers its audit event
\* like one the recommendation has written.
THEOREM OnlyDeclines == Spec => []OnlyDeclinesAreRecorded
<1>1. GInv => OnlyDeclinesAreRecorded
  <2> SUFFICES ASSUME GInv, NEW i \in DOMAIN attempts PROVE attempts[i].status = "FAILED"
    BY DEF OnlyDeclinesAreRecorded
  <2>1. attempts \in Seq(AttemptRecords)
    BY DEF GInv, Books, ListsTyped
  <2>2. attempts[i] \in AttemptRecords
    BY <2>1
  <2> QED BY <2>2 DEF AttemptRecords
<1> QED BY <1>1, InvariantHolds, PTL

-----------------------------------------------------------------------------
(* The theorems, for requests that are served one at a time. *)

\* PolicyEngineService, evaluate, one request at a time: whatever is approved rests on a
\* recommendation to retry after at most one attempt, because a STOP is recommended with
\* confidence only for a case that is over, and nothing is approved for one.
THEOREM ApprovalsAreRetries ==
    ASSUME Serial
    PROVE  Spec => []ApprovalsRestOnRetries
<1>1. SerialInv => ApprovalsRestOnRetries
  BY DEF SerialInv, InTurn
<1> QED BY <1>1, SerialHolds, PTL

\* PolicyEngineService, evaluate, one request at a time: an approval moves the case and
\* counts its version up in one transaction, so that the next one rests on a move of
\* somebody else.
THEOREM ApprovalsApart ==
    ASSUME Serial
    PROVE  Spec => []ApprovalsDoNotOverlap
<1>1. SerialInv => ApprovalsDoNotOverlap
  BY DEF SerialInv, InTurn
<1> QED BY <1>1, SerialHolds, PTL

\* EligibilityEvaluator, one request at a time: a recommendation whose validation status
\* was set by a refusal is not approved later, however version and number of
\* recommendations move on.
THEOREM RefusalsStand ==
    ASSUME Serial
    PROVE  Spec => []RefusedStaysRefused
<1>1. SerialInv => RefusedStaysRefused
  BY DEF SerialInv, InTurn
<1> QED BY <1>1, SerialHolds, PTL

\* WorkflowRevalidationService, one request at a time: a retry is recorded only under a
\* consent granted and, when the retry began, not past its expiry, however old the
\* approval is.
THEOREM RetriesAgreed ==
    ASSUME Serial
    PROVE  Spec => RetriesHaveConsent
<1> DEFINE Agreed == \E i \in DOMAIN consents :
              /\ consents[i].type = "RECURRING_BILLING" /\ consents[i].status = "GRANTED"
              /\ \/ consents[i].expires = NoTime
                 \/ attempts'[Len(attempts')].at <= consents[i].expires
<1>1. SerialInv /\ [Next]_vars => [Len(attempts') # Len(attempts) => Agreed]_vars
  <2> SUFFICES ASSUME SerialInv, [Next]_vars, attempts' # attempts PROVE Agreed
    OBVIOUS
  <2> PICK s \in Sessions :
        \E h \in held[s] : \E f \in DOMAIN h.flows : Execute(s, h, f)
    BY StepCases DEF Load, ChangeConsents, GenerateRecommendation, EvaluatePolicy, CreateWorkflow,
                     CaseMovesOn, RollBack, Tick, vars, lists
  <2>1. PICK h \in held[s] : \E f \in DOMAIN h.flows : Execute(s, h, f)
    OBVIOUS
  <2>2. Allows(h, "RETRY_PAYMENT") /\ attempts' = AttemptMade(h, "FAILED")
    BY <2>1, ExecuteMeans DEF SerialInv
  <2>3. attempts'[Len(attempts')].at = h.now
    <3> DEFINE new == [status |-> "FAILED", action |-> "RETRY_PAYMENT", at |-> h.now]
    <3>1. attempts \in Seq(AttemptRecords) /\ h.now \in Nat
      BY DEF SerialInv, GInv, Books, ListsTyped, HeldLoaded, Loaded
    <3>2. new \in AttemptRecords /\ new.at = h.now
      BY <3>1 DEF AttemptRecords
    <3>3. attempts' = Append(attempts, new)
      BY <2>2 DEF AttemptMade
    <3> HIDE DEF new
    <3>4. Len(attempts') = Len(attempts) + 1 /\ attempts'[Len(attempts) + 1] = new
      BY <3>1, <3>2, <3>3, Appended
    <3> QED BY <3>2, <3>4
  <2> QED BY <2>2, <2>3, AllowedByConsent
<1>2. Spec => [][Len(attempts') # Len(attempts) => Agreed]_vars
  BY <1>1, SerialHolds, PTL DEF Spec
<1> QED BY <1>2 DEF RetriesHaveConsent
=============================================================================
