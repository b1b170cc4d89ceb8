# RevenueRescueAI: a verification project in TLA+

RevenueRescueAI recovers failed payments: provider events open *recovery cases*,
a recommender and a policy engine decide what to do, workflows retry the payment
at a gateway, and webhooks and reconciliation settle the outcome. This directory
models the part of the backend (`src/backend/app`) that decides whether money is
asked for twice, whether a case ends in the right state, and whether its history
can be trusted. TLC checks the models on small instances; TLAPS proves every
property of the passing runs but the two of liveness for every value of the
constants.

## 1. The system

Everything runs in FastAPI request threads. Each request has one SQLAlchemy
session (`core/database.py`: autoflush off, `expire_on_commit` off) and one
database transaction; `get_db` rolls back on any exception. Nothing takes
`SELECT ... FOR UPDATE`, nothing compares `version`, so requests meet only at
unique keys and at the rows they have updated and not committed (PostgreSQL, as
`docker-compose.yml` configures it).

| Component | State | Operations | Correct when |
|---|---|---|---|
| Case service (`recovery_case_service.py`) | `recovery_cases` row, both logs | create, `transition_state`, `update_case`, notes | terminal states stay, logs follow the case |
| Transition service, agent workflow (`vertical_recovery.py`) | the same | `transition` behind an allow-list, `run` | only allowed moves, numbering agrees with the other writers |
| Orchestrator (`intelligence/orchestrator.py`) | decisions, the case | `generate_recommendation` | a recommendation is stored with its event and move |
| Strategy selection, estimation (`strategy_selector.py`, `probability_estimator.py`, …) | none | select, score, estimate | pure functions |
| Policy engine and evaluators (`policy/`) | policy decisions, consents, the case | `evaluate`, register and revoke consents | approves only what the rules allow; one request at a time, never over another approval |
| Workflow creation (`creation_service.py`) | workflows, steps | `create_workflow_for_decision` | one active workflow, made from an approval |
| Workflow execution, revalidation | workflows, steps, attempts, executions, the case | `execute_next_step`, `execute_all_available_steps` | one call at a time, none beside an unknown outcome or without consent, limits hold |
| Payment adapter (`razorpay_adapter.py`) | idempotency store of one instance | `submit_retry`, `retrieve_status` | one order per key, answers are about the payment asked for |
| Normalisation, validation (`event_normalizer.py`, `event_validator.py`) | none | five shapes of requests | the same event has the same identity whichever way it comes |
| Event ingestion (`event_service.py`, `event_to_case_engine.py`) | receipts, customers, transactions, cases | webhook and canonical event | exactly once, in any order |
| Second webhook route (`recovery_intelligence.py`) | receipts | `POST /webhooks/provider` | does not swallow events |
| Reconciliation (`payment_reconciliation_service.py`) | transaction, case | `reconcile_case`, batch | agrees with the provider, does not undo, comes to every case |
| Prioritizer, classifier (`case_prioritizer.py`, `case_risk_classifier.py`) | none | scoring | ranges, and which tiers and states can be reached |
| Agents and tools (`agents/`, `tools/`) | none | decide, check, plan an action | only safe decisions reach a tool |
| Resilience (`resilience/`) | one call | `run`, classify, schedule | no attempt beside another, within the budget |
| Risk detection, verification, auth, dashboard, realtime, evaluation, frontend | tokens, projections | | outside this project, see below |

Interactions: ingestion, operators, the orchestrator, policy, workflows, the
agent workflow and reconciliation all write the same `recovery_cases` row and
append to the same two logs. A recommendation feeds policy, an approval feeds a
workflow, a workflow's order identifier feeds reconciliation; each hand-over is a
row that is read again later, under different rules. Workflows and
reconciliation call the gateway. Ingestion and the second route share receipts.

`PROJECT.json` lists every component with its status, and under `hazards` the
lines where concurrency, ordering, crashes and limits bite.

## 2. Modules

```
CaseLifecycle ── tables of the state machine (states, terminal, allow-list, policy target)
   ├── CaseMoves ─────── abstract: every handler one atomic step on a case
   │      ├── RecoveryWorkflow ── workflows, steps, gateway;  MCRecoveryWorkflow
   │      │      └── RecoveryWorkflowProofs ── TLAPS
   │      └── RecoveryGate ────── recommendation, policy, consents, execution;  MCRecoveryGate
   │             uses PolicyRules (evaluators) and Recommendation (rules and estimates)
   │             └── RecoveryGateProofs ── TLAPS
   ├── CaseLedger ────── the row and its two logs, by sessions;  implements CaseMoves
   │      └── CaseLedgerProofs ── TLAPS, the refinement included
   ├── AgentRules ────── what the agent boundary, the safety policy and the tools let through
   │      └── Settlement ──────── cases that wait, and their reconciliation;  MCSettlement
   │             uses CaseRanking;  SettlementProofs ── TLAPS
   └── EventEffects ──── abstract: every event one atomic step
          └── EventIngestion ─── workers, statement by statement;  implements EventEffects
                 ├── MCEventIngestion ── events as EventIntake makes them of requests
                 └── EventIngestionProofs ── TLAPS
                        └── EventIngestionSerialProofs ── TLAPS, the refinement included
CaseRanking ── prioritizer and classifier;  CaseRankingProofs ── TLAPS
EventIntake ── requests in, canonical events out
Resilience ─── a controlled call;  ResilienceProofs ── TLAPS
```

**CaseLedger** is one case in the database: `row` (state, version, whether
`closed_at` is set), `txn` (status of the trigger transaction), `transitions` and
`audit` (logs by sequence number) and `session`, the request in progress per
thread. A handler is four steps: load the row and decide (`OperatorTransition`,
`UpdateCase`, `GenerateRecommendation`, `EvaluatePolicy`, `ServiceTransition`,
`PaymentSucceeded`, `PaymentFailed`, `ReconcileCase`), read each log's maximum
(`ReadTransitionMax`, `ReadAuditMax`), and `Commit` or `RollBack`. The decision is
a *plan* record: target state, which transition row is added, which audit events,
what is set. The three ways the code numbers audit events (max + 1, the
transition's own number, `len(audit_events) + 1`) are all there (`NextAudit`,
`AuditNumbers`); `Conflict` is the two UNIQUE constraints. A payment success
recovers the case and marks the transaction of the event, which for a case
matched by key may be another than the case's own (`SuccessPlans`).

**CaseMoves** is what that promises when requests do not overlap: each handler
one step on state, transaction and the fact that the audit log is ahead of the
transition log. That last fact matters because `CaseTransitionService` numbers
its audit event like its transition: once an event that is not a transition has
been recorded, it can never move the case again.

**RecoveryWorkflow** has the workflows of one case with their steps (`flow`),
attempts, executions, the orders the gateway has opened (`orders`, external) and
per request a record `req` of what it has loaded, locked and decided. `CheckCreate`
and `InsertWorkflow` are the check-then-insert of creation. `Open`, `LoadCase`
and `RunStep` (`Validate`, `Complete`, `Dispatch`, `Await`) are
`execute_next_step` and the loop of `execute_all_available_steps`; `InsertAttempt`,
`Answer`, `Record` and `MoveCase` the dispatch of a retry in the middle of the
open transaction; `Commit`, `RollBack` and `Crash` its ends. `Blockers` and
`Deadlocked` model PostgreSQL's row and unique-key locks. What the rest of the
program does to the case comes from CaseMoves (`CaseDisturbed`).

**EventEffects** states what ingestion promises: each event takes effect in one
step, at most once. **EventIngestion** adds the workers. `Deliver` is the
webhook, again and again; `RecordReceipt` the receipt with its savepoint; then
customer, transaction, matching, the case (with the savepoint that turns a lost
race into an update), the log number, and `Commit`. `Free` is the wait for
another transaction that has inserted under the same unique key; `Fails` are the
IntegrityErrors nobody handles. `OtherReceipt` is the second webhook route and
`OtherStop` an operator.
MCEventIngestion gives it the events that `EventIntake` makes of requests.

**EventIntake** is the way from a request to a canonical event, for the five
shapes of requests there are: which identifier it takes (`Identifier`), the
type, the failure code, the references of payment, order and customer, the key
that matches it with a case, and what is refused before anything is stored
(`IsAdmitted`, `IsValidEvent`). A request is a record of present and absent fields; a code is a
member of a small set.

**PolicyRules** holds the five evaluators as ordered lists of checks over a
snapshot, the aggregation of their answers (`Evaluate`) and what a decision does to
the recommendation (`ValidationStatus`). **Recommendation** holds analysis, score,
probability and strategy selection, with keywords in place of texts; the logistic
function is a rational approximation in ten-thousandths, off by at most one of them.
Both are without state.

**RecoveryGate** puts them together around one case: the lists of recommendations,
policy decisions, consents, attempts and workflows, a clock in hours, and per
session what the request in progress has loaded (`held`). A request is two steps:
`Load` reads the rows, and `GenerateRecommendation`, `EvaluatePolicy`,
`CreateWorkflow` or `Execute` decides by what was read and commits over whatever
is there by then; `RollBack` is every other end. So an evaluation that was
overtaken, an approval beside another one and a retry whose consent is revoked
while it is under way are all behaviours of the model. `CreateConsent` and
`RevokeConsent` read nothing but what they write. What matters here is that three
places judge the same thing at different times by different rules: the
evaluators, `Allows`/`Refuses` (revalidation, whose consent rule is not the
policy engine's), and the case's state. A dispatch commits only under the number
after the attempts it had loaded, as the key of the attempt asks for.

**AgentRules** says which decisions of a reasoning provider `AgentRuntime` and
`SafetyPolicy` let through (`IsAccepted`), what the two tools answer and in which
state `VerticalRecoveryWorkflow.run` ends (`AgentOutcome`). The provider itself may
answer anything.

**Settlement** has several cases with their transactions, the payment at the
gateway (external), the reference of the latest execution, and the queue of cases
that wait for verification in the order a batch takes them. A reconciliation is a
`session`: `StartBatch` or `StartSingle` loads the cases, `Ask` loads the
transaction and asks, `Act` does the rest of `reconcile_case` up to its commit; a
refused move ends the session. Every other request is a thread's: `Load` reads
case and transaction, and `RunAgent`, `EvaluatePolicy`, `DispatchRetry`, `Operate`,
`Noted` or `ReportSuccess` commits later by what was read, or `RollBack` ends it.
`Services` says which of them a case meets in an instance. A live gateway answers about
its payments, which go on in `PaymentMoves`; the simulated one, which the program
uses without keys, judges a payment by its name (`SimulatedAnswers`), the id of the
case's own transaction included (`PaymentNames`).

**CaseRanking** is the prioritizer and the risk classifier, rule by rule: additive
scores, tiers, priorities and their reasons.

**Resilience** is one operation under `ResilientExecutor`: a worker in a pool, the
timeout of the caller, the effect at the other side, the classification, and the
repetition the schedule asks for.

### What is abstracted

Identifiers, payloads, wording and redaction are left out; amounts and hours
appear where a rule compares them, at its bounds. In RecoveryWorkflow a policy
verdict is any the aggregation can give in that state; RecoveryGate computes it
from the rules. A gateway answer is any of the outcomes the adapter can return in
its mode. A transaction is PENDING, FAILED or SUCCEEDED. A case in EventIngestion
keeps its state, trigger, failure count and the sources of its log rows.
In RecoveryGate and Settlement a request reads all it decides by at one instant
and commits at another; the numbers of the logs, which the code reads right before
the commit, are compared with what is there, and a request may be rolled back at
any time. The interleavings between the reads are in CaseLedger and
RecoveryWorkflow. Serialisation anomalies
other than those described (for example SQLite's database-wide lock) are not
modelled: PostgreSQL's READ COMMITTED is.

### Not modelled

- Authentication, roles and sessions; realtime stream and dashboard; evaluation,
  seeding and scripts; the frontend. No property of a case depends on them.
- `RiskDetectionService`, `RiskCaseService`, `WebhookEventLedger` and
  `RecoveryAttributor`: no route or service of the program calls them, only tests
  do. The logs a detected case would start with are in CaseLedger.
- The former recommender (`intelligence/legacy.py`) and the wording of
  explanations.
- Customers and transactions as records of their own: created, read and updated
  one row at a time.
- Other endpoints of `recovery_intelligence.py`, which only call a service.

## 3. Runs

| Run | Instance | Shows |
|---|---|---|
| `ledger_serial` | 1 session, all 8 handlers, audit log up to 4 | the newest audit event names the state; transitions form a chain; a request is rolled back exactly for the two numbering reasons; a terminal case is left only where reconciliation books the payment of a STOPPED one, paid stays paid, and every logged transition counts the version up by one; handlers are the atomic steps of CaseMoves |
| `ledger_concurrent` | 2 sessions, all handlers, audit log up to 3 | gap-free logs, no transition without its event, a final case is reopened only by a request that had loaded the row before |
| `workflow_race` | 2 requests, 3 workflows, limit 2, others make the case actionable again | one gateway call at a time, none beside an unknown outcome, limit holds, attempts and executions agree |
| `workflow_ends` | 2 requests, 1 workflow, fairness | every request ends, deadlocks included |
| `workflow_serial` | 1 request, 3 workflows, all actions, crashes, consent | only failed retries are repeated; the case follows the outcome |
| `ingest_serial` | 1 worker, 6 deliveries (5 events) and refused ones, 1 crash, second route | each event takes effect in one step, once; failure counts are right; one case per payment |
| `ingest_concurrent` | 2 workers, 4 events, 1 crash, operator, fairness | exactly once; no processed failure is lost; RECOVERED has a processed success; cases are never replaced; every event is processed in the end |
| `gate` | 1 session, 5 profiles of cases, 2 recommendations, decisions, workflows and consents, 3 hours with a cooldown of 1 | one request at a time, approvals rest on recommended retries and do not overlap; what was refused stays refused; no retry without a consent that holds |
| `gate_concurrent` | 2 sessions, a case for a retry and one for a reminder, 2 recommendations and consents, 1 decision and workflow | nothing is approved but a retry after at most one attempt, or a STOP a stale write has outlived; only declined retries are on record |
| `settlement` | 2 cases, of which one meets all services and the other operators, 1 thread beside the reconciliation, batches of up to 2, live or simulated gateway | the first look at a waiting case is the only one that moves it; what a recovery rests on; only stale writes take back a booked payment or move a recovered case; a stuck case blocks the batch |
| `resilience` | budgets 1, 2, 4, bases 0, 1, 3 and caps 2, 5, 60 seconds | no attempt beside another of the same call; effects within the budget, repetitions spaced by the schedule |

One run ends in a counterexample, to a sentence of the repository:

| Run | Sentence | What the code does |
|---|---|---|
| `workflow_double_order` | `submit_retry` is idempotent in its key | the store lives in an adapter made per request: a request that is rolled back after the call is repeated with a second order |

### Bounds

`MaxAudit` stops new requests, not those in progress; with 3 rows a log passes
through every kind of numbering and one request can overtake another twice. Two
sessions, requests or workers are enough for each race, because every conflict
here is pairwise (a number, a key, a row). `MaxAttempts` is a constant of
RecoveryWorkflow (4 in the code), 2 in the race so that a third workflow meets the
limit; `MaxOrders` stops requests once a workflow's key has opened that many
orders. `MaxCrashes` bounds crashes, not the deliveries, which repeat without
bound. The events of MCEventIngestion share identifiers, payments and keys in
every combination the engine distinguishes. Workers, requests, workflows and
sessions are interchangeable; symmetry is used in safety-only runs.

`gate` lets a case meet two recommendations, so that one is made after attempts
of the other, and two decisions, enough for each of its pairwise properties; the
clock of 3 hours passes the cooldown (1 hour here for 4 in the code) and the
expiry of a consent. The profiles lie on both sides of the policy engine's
thresholds of confidence and amount, have retryable and final failure codes, and
consents that were revoked, run out, are for another merchant or for reminders;
`MaxVersion` bounds operators and events alone. `gate_concurrent` has one decision
and one workflow, as its properties are about single rows, and two sessions, so
that one can outlive a commit of the other: with its bounds an approved STOP is
reached, and with two decisions so are the overlaps of §5.

In `settlement` a request of the thread can be overtaken by a reconciliation and the
reverse, which is what a stale write takes. Two cases are enough for a batch, as the
second is the one that waits behind the first; one attempt gives a case a reference,
and a second would only replace it. Operators bring cases to wait; that they also
close them is in the theorems. Budgets and delays of `resilience` are on both sides
of every cap.

The runs of the ledger, the workflows and `resilience` switch deadlock checking
off: a case that has been closed, a call that has returned its last result, or a
bound that has been reached leaves nothing to do.

### Fairness

A handler runs to its end (weak fairness of a worker's next step). Providers
redeliver until they get an answer, and the receipt is committed only with the
effects, so a delivery of an unrecorded event happens again and again: strong
fairness of `Deliver` while there is no receipt. In the workflow, a request's
own steps are strongly fair, as PostgreSQL grants row locks in the order they
were asked for and breaks deadlocks, and the gateway call has a timeout.

## 4. Proofs

Each proof module extends the module it is about and takes its constants as they
are: any set of requests, sessions, workers, cases, events and workflows, any
limits, bounds, delays and clocks. What is assumed of them is named in the
modules and evaluated by every run: bounds and limits are numbers; actions,
targets and disturbances are among those the program has; there are finitely many
events, each with an identifier, a kind, a payment and a key (`EventsAssumption`);
a profile's context and consents are records of the kinds the database holds
(`ProfilesAssumption`, `ConsentTermsAssumption`).

Properties that hold only while requests do not overlap are proved under a
hypothesis that says so (`Serial`, `Alone`, each defined before its first use).
It speaks of the deployment, not of the state: one session, worker or request,
however many requests it serves one after the other. The runs
`ledger_serial`, `ingest_serial`, `workflow_serial` and `gate` are such deployments; the
races that break these properties otherwise are in §5.

### The case ledger (CaseLedgerProofs)

| Theorem | Property | Deployment |
|---|---|---|
| `TypeCorrect` | `TypeOK` | any |
| `GaplessLogs` | `LogsGapless` | any |
| `TransitionsAudited` | `AuditCoversTransitions` | any |
| `StaleReopening` | `OnlyStaleRequestsReopen` | any |
| `TimelineTells` | `TimelineEndsAtState` | one session |
| `ChainHolds` | `ChainUnbroken` | one session |
| `RollbackExplained` | `RollbackCause` | one session |
| `FactsStay` | `FinalFactsStay` | one session |
| `HandlersAreAtomic` | `SerialHandlersAreAtomic`, the refinement of CaseMoves | one session |

`LogsGapless` is not inductive: a commit adds rows under numbers that were read
earlier. The inductive invariant `IInv` says that both logs are numbered 1..n,
that the transition log is no longer than the audit log, and of each request
(`RequestOK`) that the numbers it has read are at most one past the end of
their log, two for an audit event that follows one the service flushes. Logs
only grow (`RequestOKMonotone`), so what a request knows stays true while others
commit, and UNIQUE leaves a commit only the next numbers. The comparison of the
two lengths is needed because `CaseTransitionService` uses a number of the
transition log for a row of the audit log. `AuditCoversTransitions` follows step
by step from `IInv`: a commit that adds a transition adds an event of the same
move under a number no lower. `StaleReopening` uses one further invariant on
plans: a request that loaded RECOVERED or CLOSED plans no other state.

With one session, `SerialInv` adds what a request has loaded and read is still
so (`StillSo`), and that the newest rows of the logs tell the state of the case
(`LogsTell`), but for a recovery reconciliation writes without a transition; as
nothing leads from RECOVERED but a row that starts there, the chain is unbroken
all the same. What handlers may plan is brought down to five kinds of plans (`Fits`).
The refinement maps reading steps and rollbacks to stuttering and each commit to
the action of CaseMoves its plan is of; `ahead` is the comparison of the logs.

### Workflows (RecoveryWorkflowProofs)

| Theorem | Property | Deployment |
|---|---|---|
| `TypeCorrect` | `TypeOK` | any |
| `OneCall` | `OneCallAtATime` | any |
| `CallsNotBesideUnknown` | `NoCallBesideUnknown` | any |
| `LimitHolds` | `AttemptLimitHolds` | any |
| `OneAttemptEach` | `AttemptsMatchExecutions` | any |
| `FailuresRetried` | `OnlyFailuresAreRetried` | one request |
| `OutcomeFollowed` | `CaseFollowsOutcome` | one request |
| `StatusTellsSteps` | `StatusFollowsSteps` | one request |

No lock is held on the case before the call; what serialises calls is the number
of the attempt. `IInv` says that a request which has inserted an attempt
(`Inserted`) has it under the number after the last committed one, and that at
most one request has (`OneInserted`). A request inserts only when nobody it would
block on has, and only under a number that is free, so that it is the next one:
who read a lower number fails. The revalidation of a request whose number is
still the next one is still true, since an execution is never committed without
an attempt: that gives `NoCallBesideUnknown`. Executions and attempts are paired
(`Paired`), because the dispatch step of a workflow is no longer pending once its
request has an outcome.

With one request (`Alone`; it may still crash, and consent come and go), `AInv`
adds three facts. Steps and status of a workflow fit (`FitsSteps`): steps are taken in
order, none has failed or waits while the workflow runs, and after an unknown
outcome only awaiting verification is left, which is why executing once more
cannot call again. A request differs from the rows only where it holds them
(`RowsFit`), so that its commit, which writes those alone, leaves what it has
worked out. And the move of the case it carries is the one its outcome asks for
(`CaseFits`); the allow-list refuses the rest, since a case with an unknown
outcome is already ESCALATED.

### Ingestion (EventIngestionProofs, EventIngestionSerialProofs)

| Theorem | Property | Deployment |
|---|---|---|
| `TypeCorrect` | `TypeOK` | any |
| `EffectOnce` | `ExactlyOnce` | any |
| `FailureKept` | `NoFailureLost` | any |
| `RecoveryProved` | `RecoveredHasProof` | any |
| `CasesOnlyGrow` | `CasesAreNeverReplaced` | any |
| `EventsAreAtomic` | `SerialEventsAreAtomic`, the refinement of EventEffects | one worker |
| `PaymentHasOneCase` | `OneCasePerPayment` | one worker |
| `CountIsRight` | `FailuresCounted` | one worker |

`IInv` says of the database that every row of a case's log names an event with a
committed receipt, no two rows the same one, and that a processed failure is in
a log or excused; of each delivery, that what it has inserted (`MadeOK`) nobody
has committed, how far it has come (`ProgressOK`) and what its plan rests on
(`PlanOK`); and that no two deliveries have inserted under one key (`MadeOnce`).
Committed rows only grow (`Grown`), which carries a delivery's facts over the
commits of others. With one worker, `SInv` adds that what it has read is still so
when it commits, and each commit is one event of EventEffects. The other route
may write receipts meanwhile, and the worker crash.

### Recommendation, policy and execution (RecoveryGateProofs)

| Theorem | Property | Deployment |
|---|---|---|
| `TypeCorrect` | `TypeOK` | any |
| `ConfidenceNeeded` | `ApprovalsNeedConfidence` | any |
| `OnlyDeclines` | `OnlyDeclinesAreRecorded` | any |
| `ApprovalsAreRetries` | `ApprovalsRestOnRetries` | one session |
| `ApprovalsApart` | `ApprovalsDoNotOverlap` | one session |
| `RefusalsStand` | `RefusedStaysRefused` | one session |
| `RetriesAgreed` | `RetriesHaveConsent` | one session |

What can be approved is a fact about numbers: for every context the odds of
anything but a first or second retry stay below the confidence the evaluators ask
for (`LogOddsBound`, `LogisticBound`, `RecommendMeans`); only the STOP of a final
case has full confidence. `GInv`, for any number of sessions, carries that to the
recommendations on record (`RecsEarned`) and says that the rows refer to each other
and a recommendation leaves the audit log ahead (`Linked`), which is what keeps
accepted retries off the record. Of what a request has loaded it says only what
commits of others cannot change (`HeldLoaded`): the rows are still there, and its
recommendations have the action, confidence and number of attempts they had.

With one session, `SerialInv` adds that what a request has loaded of the case, the
recommendations and the consents is still so (`Fresh`), that a case is still final
once STOP was recommended for it (`ConfidenceEarned`), that an approval has counted
the version up and the case stays ACTION_PENDING until it is counted up again
(`ApprovalsMoved`), and that a refusal has marked its recommendation
(`RefusalsMarked`).

### Settlement (SettlementProofs)

| Theorem | Property |
|---|---|
| `TypeCorrect` | `TypeOK` |
| `OnlyFirstLook` | `OnlyFirstLookMoves` |
| `RecoveryIsPaid` | `RecoveredHasPayment` |
| `StuckCaseStops` | `StuckCaseBlocks` |
| `StaleWrites` | `OnlyStaleWritesTakeBack` |

All hold for any number of cases, of threads and of requests that overlap.
`StaleWrites` needs only the shape of the state; the work is the case analysis of
who writes a transaction or moves a settled case: a request that has loaded it as
settled leaves it (`RequestTakesBack`, by the allow-list, which leads RECOVERED to
CLOSED alone, by the terminal states and by `PolicyTargetMeans`), and so does a turn
that has found the transaction SUCCEEDED or loaded the case as it is (`SuccessIsKept`,
`SettledIsLeft`). The others rest on `SInv`: the queue holds the waiting cases, each
once, and an answer that has arrived says something about the payment that stays
true (`AnswerEarned`).

### The resilience executor (ResilienceProofs)

| Theorem | Property |
|---|---|
| `NoOverlap` | `AttemptsDoNotOverlap` |
| `BudgetKept` | `WithinBudget`, the first part of `RepeatsAreSpaced` |
| `SpacedRepeats` | `RepeatsAreSpaced` |

The inductive invariant says which attempt may be at work: only the latest, and
only while its call has neither ended nor returned; that effects belong to
attempts that were called; and that a scheduled retry names the next attempt,
within the budget. The distances need that powers of two grow, of which the
provers know nothing: `PowersGrow` reads 2^n as the number of subsets of 1..n, by
the library's facts about finite sets.

### Prioritizer and classifier (CaseRankingProofs)

For every amount, code and age:

| Theorem | Says |
|---|---|
| `PriorityRange` | a priority is between 5 and 165, so that neither end of its clamp is reached |
| `FraudNeedsMajorAmount` | the escalation of a suspected fraud passes the tool's limit of 100 only for a major amount |
| `ModerateCasesCanEscalate` | every other case of at least a moderate amount passes it once it is a day old |
| `FactorsCanShowAnotherTier` | the factors recorded with a tier can add up to another one |

### Checked by TLC only

- `RequestsEnd` and `EveryEventIsProcessed`: liveness needs ENABLED, which is beyond
  the provers.
- The run that ends in a counterexample: a theorem would have to prove that a
  property fails.
- That the bounds of the instances let the interesting cases happen, by mutants: each
  property of a passing run fails when a faulty operator takes the place of the
  one it guards.
- EventIntake and AgentRules are operators without state of their own; TLC evaluates
  them on the requests and decisions of `MCEventIngestion` and `MCSettlement`. The
  theorems about ingestion hold for any events, whatever intake makes of requests.

## 5. Where documentation and code part, beside the runs

Met while modelling; each is visible in the named definition.

- `STOPPED` becomes `RECOVERED` by reconciliation
  (`payment_reconciliation_service.py:147`, no transition row), while
  `docs/recovery-state-machine.md:119` describes a trigger against it
  (`CaseMoves!Reconciled`).
- `version` is never compared (`recovery_case_service.py:183`), while
  `docs/data-architecture.md:113` describes an `OptimisticLockError`
  (`CaseLedger!Commit`).
- A stop by policy leaves `closed_at` empty (`policy/service.py:254`); an
  operator may set RECOVERED with an unpaid transaction
  (`recovery_case_service.py:181`).
- Two requests create two active workflows (`creation_service.py:66`); executing
  once more completes a WAITING workflow (`execution_service.py:90`); a request
  that loaded a workflow earlier overwrites its final status
  (`execution_service.py:95`).
- A crash after the gateway's answer leaves an order without an attempt
  (`execution_service.py:287`), against `docs/financial-data-integrity.md:143`.
- With two workflows, a second retry goes out after the first was taken
  (`revalidation_service.py:55`): `OnlyFailuresAreRetried` holds for one request
  at a time only. The limit is 4 attempts (`revalidation_service.py:45`), INV-003
  says 3; and the branch that stops the case at the limit
  (`execution_service.py:375`) counts without the attempt just made.
- A failure that arrives after its payment's success opens a case
  (`event_to_case_engine.py:170`); a success matched by key marks its own
  transaction, not the trigger (`event_to_case_engine.py:261`); two workers can
  open two cases for one payment, and can lose one of two failure counts
  (`event_to_case_engine.py:150`, `:361`).
- Terminal cases are not final: a policy evaluation that loaded the case before
  the payment was recorded commits after it, and RECOVERED becomes ACTION_PENDING
  (`policy/service.py:254`), against INV-007. `OnlyStaleRequestsReopen` is what
  remains true; in Settlement, `OnlyStaleWritesTakeBack`.
- Requests around one case overlap: two policy evaluations that both loaded it
  before either commits both approve, under one key too, since the index on the
  key is not unique (`policy/service.py:109`); an evaluation that loaded a
  recommendation before it was refused approves it afterwards; the STOP recommended
  for a final case is approved once a stale request has reopened it; a consent that
  is revoked between revalidation and the commit does not stop the retry
  (`revalidation_service.py:103`); two recommendations can get the same
  `decision_version`, which has no constraint. The four properties of `gate` that
  exclude these hold for one request at a time only; what is left otherwise is
  `ApprovalsNeedConfidence` and `OnlyDeclinesAreRecorded`.
- Without keys of the gateway, reconciliation recovers a case that was never
  retried if "succ" is in the id of its payment (`razorpay_adapter.py:236`,
  `RecoveredHasPayment`).
- The first recommendation of a case numbers two audit events alike, since the
  session does not autoflush (`orchestrator.py:290`); the test's session does.
- Two workers with failures of one new transaction collide at the transaction row,
  outside the savepoint (`event_to_case_engine.py:224`); Scenario F describes a fall
  back to an update. `NoFailureLost` and `EveryEventIsProcessed` say that the
  redelivery makes up for it.
- A retry the gateway accepts, after a recommendation through the API, cannot move
  its case: the recommendation left the audit log ahead, and the request is rolled
  back after the call (`RecoveryGate!OnlyDeclinesAreRecorded`).
- An approval serves for any number of workflows, with no policy check and no
  cooldown between them (`creation_service.py:51`), and revalidation's limit is 4:
  one approval made before any attempt lets four retries be declined, where
  `policy/config.py:12` says "exactly 3 retries"; a fresh recommendation is judged stale by comparing
  its number with the case's version (`eligibility_evaluator.py:134`).
- Consents: the policy engine lets the consent granted last decide, and compares
  merchants; revalidation takes any that is granted, and does not compare them
  (`revalidation_service.py:105`); for a reminder it ignores the expiry (`:134`).
- The history endpoint returns the decision's status as its validation status
  (`api/routes/policy.py:146`). Attempts that were STARTED are never resolved.
- An agent's STOP ends in VERIFICATION_PENDING, like a reminder (`AgentOutcome`);
  the escalation of a suspected fraud below 500000 is refused by its own tool.
- Reconciliation asks for a payment with the order id of a retry, so a live
  gateway never answers about a retry (`razorpay_adapter.py:360`); a look that
  leaves a case waiting makes it the last that can move it (`OnlyFirstLookMoves`);
  and a case it cannot move, while it is the oldest, blocks the batch until an
  update or another failure makes it younger (`StuckCaseBlocks`).
- The executor's timeout does not bound the wait: leaving the pool waits for the
  operation (`executor.py:57`, `PoolLeft`). An operation's own `TimeoutError` counts
  as the executor's.
- Event types that are not supported are refused before the branch that would
  answer IGNORED (`event_to_case_engine.py:128`). `card_declined` is normalised to
  `generic_decline`, so that the prioritizer's and classifier's branches for it
  are dead; `docs/case-risk-classification.md` gives points for amounts under 250
  and for PAYMENT_FAILED that the code only records (`FactorsCanShowAnotherTier`);
  the priority's clamp to 1..1000 is never reached.

## 6. Plan

1. *Done, models:* the case ledger; workflows; ingestion with intake; recommendation,
   policy and consents around one case (RecoveryGate); settlement with agents and
   reconciliation; prioritizer and classifier; the resilience executor.
2. *Done, proofs:* every safety and action property of the passing runs, and both
   refinements.
3. *Left, models:* a settlement with two reconciliations at once, over the
   sessions of CaseLedger.

## 7. Running

    tlc -workers 2 -config ledger_serial.cfg CaseLedger
    tlc -workers 2 -config workflow_race.cfg MCRecoveryWorkflow
    tlc -workers 2 -config ingest_concurrent.cfg MCEventIngestion
    tlc -workers 2 -config gate.cfg MCRecoveryGate
    tlc -workers 2 -config settlement.cfg MCSettlement
    tlc -workers 2 -config resilience.cfg Resilience
    tlapm CaseLedgerProofs.tla
    tlapm RecoveryWorkflowProofs.tla
    tlapm EventIngestionProofs.tla
    tlapm EventIngestionSerialProofs.tla
    tlapm RecoveryGateProofs.tla
    tlapm SettlementProofs.tla
    tlapm ResilienceProofs.tla
    tlapm CaseRankingProofs.tla

Operators marked "Fault" in the modules are plausible bugs; each property of a
passing run is violated when one of them takes the place of the definition that
follows it.
