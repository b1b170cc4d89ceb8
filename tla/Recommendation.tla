--------------------------- MODULE Recommendation ---------------------------
(***************************************************************************)
(* What IntelligenceOrchestrator computes before it writes anything: the   *)
(* category of a failure, the risk of the case, the probability that an    *)
(* action recovers the money, and the strategy of the highest expected     *)
(* value.  No variables.                                                   *)
(*                                                                         *)
(* A failure's text (code and message) is the set of the analyzer's        *)
(* keywords that occur in it.  Probabilities and confidences are in        *)
(* ten-thousandths, the precision the code rounds them to; amounts are in  *)
(* minor units; rates are in percent.                                      *)
(***************************************************************************)
EXTENDS Integers, Sequences, FiniteSets

Least(S) == CHOOSE i \in S : \A j \in S : i <= j

-----------------------------------------------------------------------------
(* FailureAnalyzer. *)

Rule(keywords, category, retryable, confidence) ==
    [keywords |-> keywords, category |-> category, retryable |-> retryable, confidence |-> confidence]

Rules ==
    << Rule({"insufficient_funds", "insufficient", "balance", "not_enough_funds"},
            "insufficient_funds", TRUE, 9500),
       Rule({"expired", "card_expired", "card_has_expired"}, "expired_card", FALSE, 9500),
       Rule({"authentication_required", "3ds", "3d_secure", "auth_required", "challenge_required"},
            "authentication_required", TRUE, 9000),
       Rule({"fraud", "fraudulent", "risk_blocked", "stolen_card", "lost_card"},
            "fraud_suspected", FALSE, 9800),
       Rule({"timeout", "timed_out", "network", "gateway_error", "processing_error"},
            "provider_timeout", TRUE, 8500),
       Rule({"do_not_honor", "card_declined", "generic_decline", "issuer_declined"},
            "bank_decline", TRUE, 8500),
       Rule({"invalid_number", "invalid_cvc", "invalid_expiry", "invalid_account"},
            "invalid_payment_details", FALSE, 9500) >>

Unclassified == Rule({}, "unknown_failure", FALSE, 5000)

\* The first rule, in the order of the list, with a keyword in the text.
Analyze(text) ==
    LET hits == {i \in DOMAIN Rules : Rules[i].keywords \cap text # {}}
    IN  IF hits = {} THEN Unclassified ELSE Rules[Least(hits)]

-----------------------------------------------------------------------------
(* RiskAssessor, for a context. *)

\* What the pipeline is given; the rate is cut to 0 .. 100 percent.
Contexts ==
    [text : SUBSET STRING, amount : Nat, attempts : Nat, velocity : BOOLEAN,
     restricted : BOOLEAN, subscription : BOOLEAN, rate : 0..100, alternate : BOOLEAN]

Points(condition, n) == IF condition THEN n ELSE 0

RiskScore(x) ==
    LET category == Analyze(x.text).category
        sum == Points(category = "fraud_suspected", 60)
               + Points(x.attempts >= 4, 35) + Points(x.attempts \in 2..3, 20)
               + Points(x.velocity, 25)
               + Points(x.restricted, 35)
               + Points(x.amount >= 500000, 20) + Points(x.amount \in 100000..499999, 10)
               + Points(x.subscription /\ category = "expired_card", 15)
    IN  Least({sum, 100})

RiskBand(x) ==
    CASE RiskScore(x) >= 70 -> "high"
      [] RiskScore(x) \in 30..69 -> "medium"
      [] RiskScore(x) < 30 -> "low"

-----------------------------------------------------------------------------
(* LogisticRecoveryEstimator. *)

\* Fault: the second attempt costs nothing either.
LogOddsLate(action, x) ==
    -650 + (IF x.attempts <= 2 THEN 420 ELSE -250 * Least({x.attempts, 4}))
    + (11 * (x.rate - 50)) \div 2
    + Points(action = "SEND_REMINDER" /\ x.alternate, 250)
    + Points(action = "RETRY_PAYMENT" /\ Analyze(x.text).retryable, 450)
    + Points(action = "REQUEST_OPERATOR_REVIEW", 100)
    - Points(action = "STOP", 450)
    - Points(RiskScore(x) >= 70, 1200)

\* The argument of the logistic function, in thousandths.
LogOdds(action, x) ==
    -650 + (IF x.attempts <= 1 THEN 420 ELSE -250 * Least({x.attempts, 4}))
    + (11 * (x.rate - 50)) \div 2
    + Points(action = "SEND_REMINDER" /\ x.alternate, 250)
    + Points(action = "RETRY_PAYMENT" /\ Analyze(x.text).retryable, 450)
    + Points(action = "REQUEST_OPERATOR_REVIEW", 100)
    - Points(action = "STOP", 450)
    - Points(RiskScore(x) >= 70, 1200)

\* 1 / (1 + e^-z) in ten-thousandths, rounded, for z = n thousandths between
\* -3.6 and 0.5: half of one plus tanh(z / 2), with tanh by its fifth
\* convergent t(945 + 105t^2 + t^4) / (945 + 420t^2 + 15t^4).  TLC's integers
\* have 32 bits: n^2 is divided before it is squared again.
Logistic(n) ==
    LET h == (n * n) \div 1000
        a == 75600 + (21 * n * n) \div 10000 + (h * h) \div 200000
        d == 75600 + (84 * n * n) \div 10000 + (3 * h * h) \div 40000
    IN  5000 + (5 * n * a + d) \div (2 * d)

\* Clamped to 0.01 .. 0.99, which no argument in that range reaches.
Probability(action, x) == Logistic(LogOdds(action, x))

-----------------------------------------------------------------------------
(* StrategyCatalog, in the order of the dictionary. *)

Entry(strategy, action, cost) == [strategy |-> strategy, action |-> action, cost |-> cost]

Catalog ==
    << Entry("RETRY_LATER", "RETRY_PAYMENT", 2),
       Entry("UPDATE_PAYMENT_METHOD", "SEND_REMINDER", 15),
       Entry("CUSTOMER_REMINDER", "SEND_REMINDER", 15),
       Entry("SUPPORT_ESCALATION", "REQUEST_OPERATOR_REVIEW", 250),
       Entry("MANUAL_REVIEW", "REQUEST_OPERATOR_REVIEW", 250),
       Entry("NO_ACTION", "STOP", 0) >>

StrategyFor(action) ==
    CASE action = "RETRY_PAYMENT" -> "RETRY_LATER"
      [] action = "SEND_REMINDER" -> "UPDATE_PAYMENT_METHOD"
      [] action = "REQUEST_OPERATOR_REVIEW" -> "MANUAL_REVIEW"
      [] action \in {"STOP", "NONE"} -> "NO_ACTION"

-----------------------------------------------------------------------------
(* StrategySelector. *)

\* amount * probability, rounded half up (amount is below 2^31 / 10^4 after
\* the division, so that nothing overflows).
Gross(amount, p) ==
    (amount \div 10000) * p + ((amount % 10000) * p + 5000) \div 10000

ExpectedValue(entry, x) == Gross(x.amount, Probability(entry.action, x)) - entry.cost

\* Only a retry can be refused; the other strategies' preconditions in the
\* catalog are not consulted.
Permitted(entry, x) ==
    entry.strategy = "RETRY_LATER" =>
        /\ Analyze(x.text).retryable
        /\ RiskBand(x) # "high"
        /\ x.attempts < 4

\* A case at high risk is left to a person or left alone.
Candidates(x) ==
    {i \in DOMAIN Catalog :
        /\ Permitted(Catalog[i], x)
        /\ RiskBand(x) = "high" => Catalog[i].strategy \in {"MANUAL_REVIEW", "NO_ACTION"}}

\* list.sort is stable: among equals the first of the catalog wins.
Winner(x) ==
    LET value == [i \in Candidates(x) |-> ExpectedValue(Catalog[i], x)]
        best == {i \in DOMAIN value : \A j \in DOMAIN value : value[i] >= value[j]}
    IN  Catalog[Least(best)]

\* What generate_recommendation persists of the pipeline's result.
Recommend(x, terminal) ==
    IF terminal
    THEN [strategy |-> "NO_ACTION", action |-> "STOP", confidence |-> 10000]
    ELSE LET w == Winner(x)
             p == Probability(w.action, x)
         IN  [strategy |-> w.strategy, action |-> w.action,
              confidence |-> Least({Analyze(x.text).confidence, IF p > 5000 THEN p ELSE 5000})]

=============================================================================
