----------------------------- MODULE CaseLedger -----------------------------
(***************************************************************************)
(* One recovery case in the database: its recovery_cases row, the status   *)
(* of its trigger transaction, and its two numbered logs                   *)
(* (case_state_transitions and audit_events), written by every service     *)
(* that moves a case.                                                      *)
(*                                                                         *)
(* A request runs in its own SQLAlchemy session, without row locks:        *)
(* it loads the row, decides what to write, reads the                      *)
(* highest number of each log it appends to, and writes everything in one  *)
(* commit.  The only check the database makes at the commit is UNIQUE      *)
(* (case_id, sequence_number) on each log; the version column is written   *)
(* and never compared.  Requests of different sessions interleave between  *)
(* those four steps.                                                       *)
(***************************************************************************)
EXTENDS CaseLifecycle, Naturals, FiniteSets, FiniteSetsExt

CONSTANTS
    Sessions,         \* request threads, each with a database session
    Handlers,         \* the services exercised in this instance
    OperatorTargets,  \* states operators ask for through POST /transition
    MaxAudit          \* bound: no request starts once the audit log is this long

AllHandlers ==
    {"operator", "update", "recommend", "policy", "service",
     "success", "failure", "reconcile"}

ASSUME HandlersAssumption == Handlers \subseteq AllHandlers
ASSUME TargetsAssumption == OperatorTargets \subseteq States
ASSUME MaxAuditAssumption == MaxAudit \in Nat

VARIABLES
    row,          \* the recovery_cases row: state, version, closed_at set?
    txn,          \* status of the trigger transaction
    transitions,  \* case_state_transitions: sequence number -> from and to
    audit,        \* audit_events: sequence number -> from and to
    session       \* per thread, the request in progress

vars == <<row, txn, transitions, audit, session>>

-----------------------------------------------------------------------------
LogRows == [from : States \cup {NoState}, to : States]

\* func.max(sequence_number), 0 for an empty log.
MaxSeq(log) == Max({0} \cup DOMAIN log)

\* INSERT of row r under number n.
Insert(log, n, r) == [k \in DOMAIN log \cup {n} |-> IF k = n THEN r ELSE log[k]]

(***************************************************************************)
(* What a handler decides to write, given the row it loaded:               *)
(*   to       the state it leaves the case in                              *)
(*   route    "own"      it adds its own transition row,                   *)
(*            "service"  through CaseTransitionService, which numbers the  *)
(*                       audit event like the transition,                  *)
(*            "none"     no transition row                                 *)
(*   bump     it writes version + 1        closes   it sets closed_at      *)
(*   records  audit events numbered on their own                           *)
(*   settles  the status it writes to the transaction, or "KEEP"           *)
(***************************************************************************)
Routes == {"own", "service", "none"}

Plans ==
    [to : States, route : Routes, bump : BOOLEAN, closes : BOOLEAN,
     records : 0..2, settles : TxnStatuses \cup {"KEEP"}]

\* One audit event and no change of state.
Note(st) ==
    [to |-> st, route |-> "none", bump |-> FALSE, closes |-> FALSE,
     records |-> 1, settles |-> "KEEP"]

\* A change of state with the handler's own transition row and audit event.
Move(st, to) == [Note(st) EXCEPT !.to = to, !.route = "own", !.bump = TRUE]

\* A change of state through CaseTransitionService.transition, `records`
\* further audit events following in the same transaction.
ServiceMove(st, to, records) ==
    [Note(st) EXCEPT !.to = to, !.route = "service", !.bump = TRUE,
                     !.closes = (to = "CLOSED"), !.records = records]

-----------------------------------------------------------------------------
\* RecoveryCaseService.transition_state: any other state, no allow-list.
OperatorPlans(st) ==
    {[Move(st, to) EXCEPT !.closes = (to \in TerminalStates)] :
        to \in OperatorTargets \ {st}}

\* RecoveryCaseService.update_case and EventToCaseEngine on a repeated
\* failure: priority and metadata only.
UpdatePlan(st) == [Note(st) EXCEPT !.bump = TRUE]

\* IntelligenceOrchestrator.generate_recommendation: on a DETECTED case it
\* adds two audit events before it flushes either (autoflush is off).
RecommendPlan(st) ==
    IF st = "DETECTED" THEN [Move(st, "AWAITING_DECISION") EXCEPT !.records = 2]
                       ELSE Note(st)

\* PolicyEngineService.evaluate.
PolicyPlans(st) ==
    LET Follow(to) == IF to = st THEN Note(st) ELSE Move(st, to)
    IN {Follow(PolicyTarget(v, final, st)) : v \in PolicyVerdicts(st), final \in BOOLEAN}

\* Fault: the allow-list is not consulted.
ServicePlansAnyTarget(st) == {ServiceMove(st, to, 0) : to \in ServiceTargets}

\* CaseTransitionService.transition alone, as the agent workflow calls it.
ServicePlans(st) ==
    {ServiceMove(st, to, 0) : to \in AllowedTransitions[st] \cap ServiceTargets}

\* EventToCaseEngine._handle_payment_succeeded.  It marks the transaction of
\* the event; a case matched by its key may have been triggered by another.
SuccessPlans(st) ==
    {[Move(st, "RECOVERED") EXCEPT !.closes = TRUE, !.settles = paid] :
        paid \in {"SUCCEEDED", "KEEP"}}

\* Fault: a provider that reports FAILED overwrites any known status.
ReconcilePlansDowngrade(st, paid, provider) ==
    IF provider = "FAILED" THEN {[Note(st) EXCEPT !.settles = "FAILED"]} ELSE {Note(st)}

(***************************************************************************)
(* PaymentReconciliationService.reconcile_case, for the status the         *)
(* provider reports.  An escalation the allow-list refuses raises          *)
(* ValueError: no plan.                                                    *)
(***************************************************************************)
ReconcilePlans(st, paid, provider) ==
    IF paid # "SUCCEEDED" /\ provider = "SUCCEEDED" THEN
        {[(CASE st = "VERIFICATION_PENDING"     -> ServiceMove(st, "RECOVERED", 1)
             [] st \in {"RECOVERED", "CLOSED"}  -> Note(st)
             [] OTHER -> [Note("RECOVERED") EXCEPT !.closes = TRUE])
          EXCEPT !.settles = "SUCCEEDED"]}
    ELSE IF paid = "PENDING" /\ provider = "FAILED" THEN
        {[(IF st = "VERIFICATION_PENDING" THEN ServiceMove(st, "RETRY_ELIGIBLE", 1)
                                          ELSE Note(st))
          EXCEPT !.settles = "FAILED"]}
    ELSE IF provider = "UNKNOWN" /\ st \notin {"ESCALATED", "CLOSED"} THEN
        {ServiceMove(st, to, 1) : to \in AllowedTransitions[st] \cap {"ESCALATED"}}
    ELSE {Note(st)}

-----------------------------------------------------------------------------
(***************************************************************************)
(* A request in progress: where it stands, the state and version of the    *)
(* row it loaded, its plan, and the log numbers it has read.               *)
(***************************************************************************)
Requests ==
    [pc : {"idle", "transition", "audit", "commit"},
     from : States, version : Nat, plan : Plans, tseq : Nat, aseq : Nat]

Idle ==
    [pc |-> "idle", from |-> "DETECTED", version |-> 0, plan |-> Note("DETECTED"),
     tseq |-> 0, aseq |-> 0]

\* How the services that open a case leave its logs: the event engine writes
\* both, create_case only the audit event, the risk detector neither.
Openings ==
    LET opened == [n \in {1} |-> [from |-> NoState, to |-> "DETECTED"]]
        empty  == [n \in {} |-> [from |-> NoState, to |-> "DETECTED"]]
    IN {<<opened, opened>>, <<empty, opened>>, <<empty, empty>>}

Init ==
    /\ row = [state |-> "DETECTED", version |-> 1, closed |-> FALSE]
    /\ txn \in TxnStatuses
    /\ \E o \in Openings : transitions = o[1] /\ audit = o[2]
    /\ session = [s \in Sessions |-> Idle]

\* The request loads the row and decides; what it reads next depends on the
\* logs it will append to.
Begin(s, handler, plans) ==
    /\ handler \in Handlers
    /\ session[s].pc = "idle"
    /\ Cardinality(DOMAIN audit) < MaxAudit
    /\ \E p \in plans :
          session' = [session EXCEPT ![s] =
             [pc |-> IF p.route = "none" THEN "audit" ELSE "transition",
              from |-> row.state, version |-> row.version, plan |-> p,
              tseq |-> 0, aseq |-> 0]]
    /\ UNCHANGED <<row, txn, transitions, audit>>

\* Fault: the terminal-state check dropped.
OperatorTransitionUnguarded(s) ==
    Begin(s, "operator", OperatorPlans(row.state))

OperatorTransition(s) ==
    /\ row.state \notin TerminalStates
    /\ Begin(s, "operator", OperatorPlans(row.state))

UpdateCase(s) ==
    /\ row.state \notin TerminalStates
    /\ Begin(s, "update", {UpdatePlan(row.state)})

GenerateRecommendation(s) ==
    Begin(s, "recommend", {RecommendPlan(row.state)})

EvaluatePolicy(s) ==
    Begin(s, "policy", PolicyPlans(row.state))

ServiceTransition(s) ==
    Begin(s, "service", ServicePlans(row.state))

PaymentSucceeded(s) ==
    /\ row.state \notin TerminalStates
    /\ Begin(s, "success", SuccessPlans(row.state))

PaymentFailed(s) ==
    /\ row.state \notin TerminalStates
    /\ txn # "SUCCEEDED"
    /\ Begin(s, "failure", {UpdatePlan(row.state)})

ReconcileCase(s) ==
    \E provider \in ProviderStatuses :
        Begin(s, "reconcile", ReconcilePlans(row.state, txn, provider))

-----------------------------------------------------------------------------
\* SELECT max(sequence_number) FROM case_state_transitions.
ReadTransitionMax(s) ==
    /\ session[s].pc = "transition"
    /\ session' = [session EXCEPT
          ![s].pc = IF session[s].plan.records = 0 THEN "commit" ELSE "audit",
          ![s].tseq = MaxSeq(transitions) + 1]
    /\ UNCHANGED <<row, txn, transitions, audit>>

\* Faults: the event flushed by the service not counted; counted twice.
NextAuditUncounted(p) == MaxSeq(audit) + 1
NextAuditTwice(p) ==
    IF p.route = "service" THEN Cardinality(DOMAIN audit) + 3 ELSE MaxSeq(audit) + 1

\* The number of the request's own audit event: max + 1, or, once the service
\* has flushed one in this transaction, len(audit_events) + 1, which counts
\* that row too.  (Reconciliation counts in every case; on a gap-free log the
\* count is the maximum.)
NextAudit(p) ==
    IF p.route = "service" THEN Cardinality(DOMAIN audit) + 2 ELSE MaxSeq(audit) + 1

ReadAuditMax(s) ==
    /\ session[s].pc = "audit"
    /\ session' = [session EXCEPT ![s].pc = "commit",
                                  ![s].aseq = NextAudit(session[s].plan)]
    /\ UNCHANGED <<row, txn, transitions, audit>>

\* The audit numbers a request inserts under.
AuditNumbers(q) ==
    (IF q.plan.route = "service" THEN {q.tseq} ELSE {})
        \cup (IF q.plan.records > 0 THEN {q.aseq} ELSE {})

\* Fault: no UNIQUE constraint on audit_events.
ConflictTransitionsOnly(q) == q.plan.route # "none" /\ q.tseq \in DOMAIN transitions

\* A UNIQUE (case_id, sequence_number) constraint refuses the commit.
Conflict(q) ==
    \/ q.plan.route # "none" /\ q.tseq \in DOMAIN transitions
    \/ AuditNumbers(q) \cap DOMAIN audit # {}
    \/ q.plan.route = "service" /\ q.plan.records > 0 /\ q.aseq = q.tseq
    \/ q.plan.records > 1

\* Fault: the event of a move names the state the case was loaded in.
AuditedBefore(q) ==
    [n \in DOMAIN audit \cup AuditNumbers(q) |->
        IF n \in DOMAIN audit THEN audit[n] ELSE [from |-> q.from, to |-> q.from]]

\* The audit log once the request's events are in it.
Audited(q) ==
    LET moved == [from |-> q.from, to |-> q.plan.to]
        kept  == [from |-> q.plan.to, to |-> q.plan.to]
    IN [n \in DOMAIN audit \cup AuditNumbers(q) |->
           IF n \in DOMAIN audit THEN audit[n]
           ELSE IF q.plan.route = "own" \/ (q.plan.route = "service" /\ n = q.tseq)
                THEN moved ELSE kept]

\* One flush and COMMIT.  SQLAlchemy updates only the columns the request
\* changed, with the values computed from the row it loaded.
Commit(s) ==
    LET q == session[s] IN
    /\ q.pc = "commit"
    /\ ~Conflict(q)
    /\ row' = [state   |-> IF q.plan.to # q.from THEN q.plan.to ELSE row.state,
               version |-> IF q.plan.bump THEN q.version + 1 ELSE row.version,
               closed  |-> row.closed \/ q.plan.closes]
    /\ txn' = IF q.plan.settles = "KEEP" THEN txn ELSE q.plan.settles
    /\ transitions' = IF q.plan.route = "none" THEN transitions
                      ELSE Insert(transitions, q.tseq, [from |-> q.from, to |-> q.plan.to])
    /\ audit' = Audited(q)
    /\ session' = [session EXCEPT ![s] = Idle]

\* IntegrityError: get_db rolls the request back, nothing is written.
RollBack(s) ==
    /\ session[s].pc = "commit"
    /\ Conflict(session[s])
    /\ session' = [session EXCEPT ![s] = Idle]
    /\ UNCHANGED <<row, txn, transitions, audit>>

Next ==
    \E s \in Sessions :
        \/ OperatorTransition(s) \/ UpdateCase(s)
        \/ GenerateRecommendation(s) \/ EvaluatePolicy(s)
        \/ ServiceTransition(s) \/ ReconcileCase(s)
        \/ PaymentSucceeded(s) \/ PaymentFailed(s)
        \/ ReadTransitionMax(s) \/ ReadAuditMax(s)
        \/ Commit(s) \/ RollBack(s)

Spec == Init /\ [][Next]_vars

-----------------------------------------------------------------------------
(* Properties. *)

IsLog(log) == DOMAIN log \subseteq Nat \ {0} /\ \A n \in DOMAIN log : log[n] \in LogRows

\* Every variable keeps its type: the row, both logs as numbered rows, and
\* the request record of each session (models/domain.py columns).
TypeOK ==
    /\ row \in [state : States, version : Nat, closed : BOOLEAN]
    /\ txn \in TxnStatuses
    /\ IsLog(transitions) /\ IsLog(audit)
    /\ session \in [Sessions -> Requests]

\* The numbers in use are 1..n.
Gapless(log) == DOMAIN log = 1..MaxSeq(log)

\* However requests interleave, the UNIQUE constraints turn "read the maximum,
\* add one" into gap-free numbering of both logs, although three services
\* number audit events in three different ways.
LogsGapless == Gapless(transitions) /\ Gapless(audit)

\* Each transition that committed committed together with an audit event of
\* the same from and to, numbered no lower: the audit log never loses a move.
AuditCoversTransitions ==
    \A k \in DOMAIN transitions :
        \E n \in DOMAIN audit : n >= k /\ audit[n] = transitions[k]

\* A RECOVERED or CLOSED case leaves its state only by the commit of a request
\* that had loaded the row before the case got there: every handler checks for
\* it when it loads, none when it commits.
OnlyStaleRequestsReopen ==
    [][row.state \in {"RECOVERED", "CLOSED"} /\ row'.state # row.state
          => \E s \in Sessions : /\ session[s].pc = "commit"
                                 /\ session[s].from # row.state]_vars

-----------------------------------------------------------------------------
(* Properties of a deployment that serves one request at a time. *)

LastRow(log) == log[MaxSeq(log)]

\* Without concurrent requests the newest audit event names the state the case
\* is in, whichever service moved it and whether or not it wrote a transition.
TimelineEndsAtState ==
    audit # <<>> => LastRow(audit).to = row.state

\* ... each transition starts in the state the one before it ended in ...
ChainUnbroken ==
    \A k \in DOMAIN transitions \ {1} : transitions[k].from = transitions[k - 1].to

\* ... a request is rolled back for exactly one of two reasons, both of them
\* numbering: the case has an audit event that is not a transition and the
\* request goes through CaseTransitionService, or it is the first
\* recommendation of a DETECTED case, which numbers two events alike.
RollbackCause ==
    \A s \in Sessions :
        session[s].pc = "commit" =>
            LET p == session[s].plan IN
            Conflict(session[s]) <=>
                \/ p.route = "service" /\ MaxSeq(audit) # MaxSeq(transitions)
                \/ p.records = 2

\* A step that finds the transaction unpaid and leaves it paid.
BooksPayment == txn # "SUCCEEDED" /\ txn' = "SUCCEEDED"

\* A terminal case stays as it is, unless reconciliation finds and books the
\* payment of a STOPPED one; a booked payment stays booked.  A transition that
\* is logged counts the version up by exactly one, nothing ever counts it
\* otherwise, and a state changes without a transition only to RECOVERED, when
\* reconciliation books the payment.
FinalFactsStay ==
    [][/\ row.state \in TerminalStates /\ row'.state # row.state
             => row.state = "STOPPED" /\ row'.state = "RECOVERED" /\ BooksPayment
       /\ txn = "SUCCEEDED" => txn' = "SUCCEEDED"
       /\ row'.version \in {row.version, row.version + 1}
       /\ transitions' # transitions => row'.version = row.version + 1
       /\ row'.state # row.state /\ transitions' = transitions
             => row'.state = "RECOVERED" /\ row'.version = row.version /\ BooksPayment]_vars

\* All of it in one sentence: served one at a time, requests are the atomic
\* handlers of CaseMoves.
Atomic == INSTANCE CaseMoves
          WITH state <- row.state, ahead <- MaxSeq(audit) > MaxSeq(transitions)

SerialHandlersAreAtomic == Atomic!CaseSpec
=============================================================================
