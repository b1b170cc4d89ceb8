-------------------------- MODULE RecoveryWorkflow --------------------------
(***************************************************************************)
(* The workflows of one recovery case: creating one from an approved       *)
(* decision, executing its steps, and retrying the payment at the gateway. *)
(*                                                                         *)
(* A request that executes steps is one database transaction from its      *)
(* first UPDATE to its commit, and the gateway is called in the middle of  *)
(* it.  It works on the workflow and the steps it loaded, loads the case   *)
(* anew for each step, and meets other requests only where PostgreSQL      *)
(* makes it wait: at the rows it has updated and at the number of the      *)
(* attempt it has inserted.                                                *)
(*                                                                         *)
(* What the rest of the program does to the case is CaseMoves.             *)
(***************************************************************************)
EXTENDS CaseMoves, Integers, Sequences, FiniteSets

CONSTANTS
    Requests,     \* request threads
    Workflows,    \* identifiers of the workflows the case may get
    Actions,      \* actions the policy engine has approved
    MaxAttempts,  \* WorkflowRevalidationService.max_retry_attempts (4)
    MaxOrders,    \* bound: orders at the gateway before requests stop coming
    Disturbances, \* what happens beside the requests in this instance
    DisturbedTo   \* states the rest of the program leaves the case in

AllActions == {"RETRY_PAYMENT", "SEND_REMINDER", "REQUEST_OPERATOR_REVIEW", "NO_ACTION"}

ASSUME ActionsAssumption == Actions \subseteq AllActions
ASSUME BoundsAssumption == MaxAttempts \in Nat /\ MaxOrders \in Nat
ASSUME DisturbancesAssumption ==
    Disturbances \subseteq {"case", "consent", "crash"} /\ DisturbedTo \subseteq States

VARIABLES
    consent,     \* does the customer's consent cover the actions?
    flow,        \* recovery_workflows with their steps, by identifier
    attempts,    \* recovery_attempts: workflow and status, by sequence number
    executions,  \* recovery_executions: outcome, by the workflow dispatched
    orders,      \* at the gateway: orders opened for each workflow's step key
    req          \* per request, what it has loaded, locked and decided

wfVars == <<consent, flow, attempts, executions, orders>>
vars == <<caseVars, wfVars, req>>

-----------------------------------------------------------------------------
WorkflowStatuses == {"PENDING", "RUNNING", "WAITING", "REQUIRES_REVIEW", "COMPLETED", "FAILED"}
EndedStatuses == {"COMPLETED", "FAILED"}
ActiveStatuses == {"PENDING", "RUNNING", "WAITING"}

StepStatuses == {"PENDING", "COMPLETED", "WAITING", "FAILED"}

Outcomes == {"SUBMITTED", "SUCCEEDED", "UNKNOWN", "FAILED"}

\* Rows a request can hold a lock on: its steps by index, its workflow, and
\* the case.
WorkflowRow == 0
CaseRow == 9

Idle ==
    [pc |-> "idle", w |-> NoState, all |-> FALSE, status |-> "PENDING", steps |-> <<>>,
     seen |-> "DETECTED", held |-> {}, seq |-> 0, outcome |-> "NONE", move |-> NoState]

PCs == {"idle", "create", "load", "ready", "insert", "calling", "record", "move", "commit"}

Init ==
    /\ state = "ACTION_PENDING"
    /\ txn \in {"PENDING", "FAILED"}
    /\ ahead \in BOOLEAN
    /\ consent = TRUE
    /\ flow = [w \in {} |-> {}]
    /\ attempts = <<>>
    /\ executions = [w \in {} |-> "NONE"]
    /\ orders = [w \in Workflows |-> 0]
    /\ req = [r \in Requests |-> Idle]

\* r moves on to q; nothing is committed.
Goes(r, q) == req' = [req EXCEPT ![r] = q] /\ UNCHANGED <<caseVars, wfVars>>

-----------------------------------------------------------------------------
(* Waiting for other requests. *)

NextStep(q) == CHOOSE i \in DOMAIN q.steps :
                  /\ q.steps[i] = "PENDING"
                  /\ \A j \in 1..(i - 1) : q.steps[j] # "PENDING"

StepType(q) == StepsOf(flow[q.w].action)[NextStep(q)]

\* The rows the flush before q's next step updates.
WantedRows(q) ==
    LET ifChanged == IF q.status = "RUNNING" THEN {} ELSE {WorkflowRow} IN
    CASE q.pc = "ready"  -> {NextStep(q)} \cup ifChanged
      [] q.pc = "move"   -> {CaseRow}
      [] q.pc = "commit" -> ifChanged
      [] OTHER           -> {}

\* Requests r has to wait for: they have updated a row r updates, or inserted
\* an attempt under the number r inserts under, and have not committed.
Blockers(r) ==
    LET q == req[r] IN
    {o \in Requests \ {r} :
        \/ \E row \in WantedRows(q) \cap req[o].held : row = CaseRow \/ req[o].w = q.w
        \/ q.pc = "insert" /\ req[o].pc # "insert" /\ req[o].seq = q.seq}

\* A circle of requests waiting for each other.
Deadlocked(r) ==
    \E circle \in SUBSET Requests :
        r \in circle /\ \A o \in circle : Blockers(o) \cap circle # {}

-----------------------------------------------------------------------------
(* POST /workflows. *)

ActiveWorkflow == \E w \in DOMAIN flow : flow[w].status \in ActiveStatuses

\* create_workflow_for_decision up to its first INSERT.  An identifier is
\* left for each request that creates.
CheckCreate(r) ==
    /\ req[r].pc = "idle"
    /\ Cardinality(Workflows \ DOMAIN flow) > Cardinality({o \in Requests : req[o].pc = "create"})
    /\ state = "ACTION_PENDING"
    /\ ~ActiveWorkflow
    /\ Goes(r, [Idle EXCEPT !.pc = "create"])

InsertWorkflow(r) ==
    /\ req[r].pc = "create"
    /\ \E w \in Workflows \ DOMAIN flow, action \in Actions :
          flow' = [v \in DOMAIN flow \cup {w} |->
                      IF v \in DOMAIN flow THEN flow[v]
                      ELSE [action |-> action, status |-> "PENDING",
                            steps |-> [i \in DOMAIN StepsOf(action) |-> "PENDING"]]]
    /\ req' = [req EXCEPT ![r] = Idle]
    /\ UNCHANGED <<caseVars, consent, attempts, executions, orders>>

-----------------------------------------------------------------------------
(* POST /workflows/{id}/execute. *)

\* The workflow and its steps are loaded.  A single step is refused only when
\* the workflow has ended; execute_all also stops where it waits.
Open(r, w, all) ==
    /\ req[r].pc = "idle"
    /\ orders[w] < MaxOrders
    /\ flow[w].status \notin EndedStatuses
    /\ all => flow[w].status \notin {"WAITING", "REQUIRES_REVIEW"}
    /\ Goes(r, [Idle EXCEPT !.pc = "load", !.w = w, !.all = all,
                            !.status = flow[w].status, !.steps = flow[w].steps])

\* The head of execute_next_step: with no step left the workflow is completed,
\* whatever it was waiting for; otherwise the case is loaded.
LoadCase(r) ==
    LET q == req[r] IN
    /\ q.pc = "load"
    /\ IF \A i \in DOMAIN q.steps : q.steps[i] # "PENDING"
       THEN Goes(r, [q EXCEPT !.pc = "commit", !.status = "COMPLETED"])
       ELSE Goes(r, [q EXCEPT !.pc = "ready",
                              !.seen = IF CaseRow \in q.held THEN q.move ELSE state])

\* Fault: the limit is checked with > for >=.
RefusalOffByOne(q, action) ==
    CASE q.seen # "ACTION_PENDING" -> "CASE_NOT_ACTION_PENDING"
      [] action = "RETRY_PAYMENT" /\ Len(attempts) > MaxAttempts -> "RETRY_LIMIT_EXCEEDED"
      [] OTHER -> "NONE"

\* WorkflowRevalidationService: why the action is refused, or "NONE".  The
\* case is the one loaded before the step's rows were locked.
Refusal(q, action) ==
    CASE q.seen # "ACTION_PENDING" -> "CASE_NOT_ACTION_PENDING"
      [] txn = "SUCCEEDED" -> "PAYMENT_ALREADY_SUCCEEDED"
      [] \E w \in DOMAIN executions : executions[w] = "UNKNOWN" -> "UNRESOLVED_UNKNOWN_OUTCOME"
      [] action = "RETRY_PAYMENT" /\ Len(attempts) >= MaxAttempts -> "RETRY_LIMIT_EXCEEDED"
      [] ~consent -> "MISSING_CONSENT"
      [] OTHER -> "NONE"

\* q once its next step has ended with status s and the workflow is in status
\* f: execute_all goes on after a completed step.
StepEnds(q, s, f) ==
    [q EXCEPT !.pc = IF q.all /\ s = "COMPLETED" THEN "load" ELSE "commit",
              !.status = f,
              !.steps = [@ EXCEPT ![NextStep(q)] = s],
              !.held = @ \cup WantedRows(q) \cup {NextStep(q)}]

\* CaseTransitionService.transition is still to come in q.
Moving(q, to) == [q EXCEPT !.pc = "move", !.move = to]

\* _execute_validate_authorization.
Validate(r) ==
    LET q == req[r]
        refusal == Refusal(q, flow[q.w].action)
    IN /\ StepType(q) = "validate"
       /\ IF refusal = "NONE"
          THEN Goes(r, StepEnds(q, "COMPLETED", "RUNNING"))
          ELSE Goes(r, Moving(StepEnds(q, "FAILED", "FAILED"),
                              IF refusal = "UNRESOLVED_UNKNOWN_OUTCOME"
                              THEN "ESCALATED" ELSE "STOPPED"))

\* Cooldown, communication and support steps: recorded as done.
Complete(r) ==
    /\ StepType(req[r]) \in {"cooldown", "communicate", "support"}
    /\ Goes(r, StepEnds(req[r], "COMPLETED", "RUNNING"))

\* _execute_await_verification.
Await(r) ==
    /\ StepType(req[r]) = "await"
    /\ Goes(r, StepEnds(req[r], "WAITING", "WAITING"))

\* _execute_dispatch_payment_retry up to the number of the new attempt.
Dispatch(r) ==
    LET q == req[r] IN
    /\ StepType(q) = "dispatch"
    /\ IF Refusal(q, "RETRY_PAYMENT") = "NONE"
       THEN Goes(r, [q EXCEPT !.pc = "insert", !.status = "RUNNING",
                              !.held = @ \cup WantedRows(q), !.seq = Len(attempts) + 1])
       ELSE Goes(r, StepEnds(q, "FAILED", "FAILED"))

RunStep(r) ==
    /\ req[r].pc = "ready"
    /\ Blockers(r) = {}
    /\ Validate(r) \/ Complete(r) \/ Dispatch(r) \/ Await(r)

-----------------------------------------------------------------------------
(* The payment retry: the attempt is flushed, the gateway is called, and only *)
(* then is anything committed.                                                *)

\* The highest attempt count at which a failed retry would stop the case.
StopAt == 4

\* Faults: the attempt is flushed only after the call; its number is read when
\* it is inserted, not when the retry is revalidated.
InsertAttemptUnflushed(r) ==
    /\ req[r].pc = "insert"
    /\ Goes(r, [req[r] EXCEPT !.pc = "calling"])
InsertAttemptRenumbered(r) ==
    /\ req[r].pc = "insert"
    /\ Blockers(r) = {}
    /\ Goes(r, [req[r] EXCEPT !.pc = "calling", !.seq = Len(attempts) + 1])

InsertAttempt(r) ==
    /\ req[r].pc = "insert"
    /\ Blockers(r) = {}
    /\ Len(attempts) < req[r].seq
    /\ Goes(r, [req[r] EXCEPT !.pc = "calling"])

\* submit_retry.  The adapter's idempotency store is a field of an adapter made
\* for this request, so it is empty, and the call goes out.
Answer(r, outcome) ==
    /\ req[r].pc = "calling"
    /\ \E opened \in 0..1 :
          /\ outcome # "UNKNOWN" => (opened = 1 <=> outcome # "FAILED")
          /\ orders' = [orders EXCEPT ![req[r].w] = @ + opened]
    /\ req' = [req EXCEPT ![r].pc = "record", ![r].outcome = outcome]
    /\ UNCHANGED <<caseVars, consent, flow, attempts, executions>>

\* Faults: no UNIQUE key on executions; an unknown outcome taken for a failure;
\* the case left ACTION_PENDING once the gateway has taken the payment.
RecordAgain(r) ==
    LET q == req[r] IN
    /\ q.pc = "record"
    /\ Goes(r, IF q.outcome = "FAILED" THEN StepEnds(q, "FAILED", "FAILED")
               ELSE Moving(StepEnds(q, "COMPLETED", "RUNNING"), "VERIFICATION_PENDING"))
RecordUnknownAsFailed(r) ==
    LET q == req[r] IN
    /\ q.pc = "record"
    /\ q.w \notin DOMAIN executions
    /\ Goes(r, IF q.outcome \in {"FAILED", "UNKNOWN"} THEN StepEnds(q, "FAILED", "FAILED")
               ELSE Moving(StepEnds(q, "COMPLETED", "RUNNING"), "VERIFICATION_PENDING"))
RecordUnmoved(r) ==
    LET q == req[r] IN
    /\ q.pc = "record"
    /\ q.w \notin DOMAIN executions
    /\ Goes(r, CASE q.outcome = "UNKNOWN" ->
                      Moving(StepEnds(q, "FAILED", "REQUIRES_REVIEW"), "ESCALATED")
                 [] q.outcome = "FAILED" -> StepEnds(q, "FAILED", "FAILED")
                 [] OTHER -> StepEnds(q, "COMPLETED", "RUNNING"))

\* The execution is inserted and the outcome evaluated.  case.attempts was read
\* before this attempt was added.
Record(r) ==
    LET q == req[r] IN
    /\ q.pc = "record"
    /\ q.w \notin DOMAIN executions
    /\ Goes(r, CASE q.outcome \in {"SUBMITTED", "SUCCEEDED"} ->
                      Moving(StepEnds(q, "COMPLETED", "RUNNING"), "VERIFICATION_PENDING")
                 [] q.outcome = "UNKNOWN" ->
                      Moving(StepEnds(q, "FAILED", "REQUIRES_REVIEW"), "ESCALATED")
                 [] q.outcome = "FAILED" /\ q.seq - 1 >= StopAt ->
                      Moving(StepEnds(q, "FAILED", "FAILED"), "STOPPED")
                 [] OTHER -> StepEnds(q, "FAILED", "FAILED"))

\* CaseTransitionService.transition flushes the move of the case.
MoveCase(r) ==
    LET q == req[r] IN
    /\ q.pc = "move"
    /\ Blockers(r) = {}
    /\ ~ahead
    /\ q.move \in AllowedTransitions[q.seen]
    /\ Goes(r, [q EXCEPT !.pc = IF q.all /\ q.status = "RUNNING" THEN "load" ELSE "commit",
                         !.held = @ \cup {CaseRow}])

AttemptStatus(outcome) ==
    CASE outcome = "SUBMITTED" -> "STARTED"
      [] outcome = "UNKNOWN"   -> "UNCERTAIN"
      [] OTHER                 -> outcome

\* db.commit: the columns the request changed, the attempt and the execution.
Commit(r) ==
    LET q == req[r] IN
    /\ q.pc = "commit"
    /\ Blockers(r) = {}
    /\ flow' = [flow EXCEPT
          ![q.w].status = IF WorkflowRow \in q.held \cup WantedRows(q) THEN q.status ELSE @,
          ![q.w].steps = [i \in DOMAIN @ |-> IF i \in q.held THEN q.steps[i] ELSE @[i]]]
    /\ IF q.outcome = "NONE" THEN UNCHANGED <<attempts, executions>>
       ELSE /\ attempts' = Append(attempts, [w |-> q.w, status |-> AttemptStatus(q.outcome)])
            /\ executions' = [w \in DOMAIN executions \cup {q.w} |->
                                IF w = q.w THEN q.outcome ELSE executions[w]]
    /\ state' = IF CaseRow \in q.held THEN q.move ELSE state
    /\ req' = [req EXCEPT ![r] = Idle]
    /\ UNCHANGED <<txn, ahead, consent, orders>>

-----------------------------------------------------------------------------
\* Fault: the database does not look for deadlocks.
FailsUndetected(r) ==
    LET q == req[r] IN
    \/ q.pc = "insert" /\ Len(attempts) >= q.seq
    \/ q.pc = "record" /\ q.w \in DOMAIN executions
    \/ q.pc = "move" /\ (ahead \/ q.move \notin AllowedTransitions[q.seen])

\* Why a request is rolled back: the attempt number or the execution's key is
\* taken, the allow-list refuses the move, the audit event of the move is
\* numbered like one that exists, or PostgreSQL breaks a deadlock.
Fails(r) ==
    LET q == req[r] IN
    \/ q.pc = "insert" /\ Len(attempts) >= q.seq
    \/ q.pc = "record" /\ q.w \in DOMAIN executions
    \/ q.pc = "move" /\ (ahead \/ q.move \notin AllowedTransitions[q.seen])
    \/ Deadlocked(r)

RollBack(r) == Fails(r) /\ Goes(r, Idle)

\* The process dies, or the database connection does.  A call may have gone out.
Crash(r) ==
    /\ "crash" \in Disturbances
    /\ req[r].pc # "idle"
    /\ req' = [req EXCEPT ![r] = Idle]
    /\ \/ UNCHANGED orders
       \/ req[r].pc = "calling" /\ orders' = [orders EXCEPT ![req[r].w] = @ + 1]
    /\ UNCHANGED <<caseVars, consent, flow, attempts, executions>>

\* Everything else that moves the case waits for its row, or fails on the log
\* numbers of the request that holds it.
CaseDisturbed ==
    /\ "case" \in Disturbances
    /\ \A r \in Requests : CaseRow \notin req[r].held
    /\ CaseNext
    /\ state' \in DisturbedTo
    /\ UNCHANGED <<wfVars, req>>

ConsentChanges ==
    /\ "consent" \in Disturbances
    /\ consent' = ~consent
    /\ UNCHANGED <<caseVars, flow, attempts, executions, orders, req>>

\* What a request does on its own once it has begun.
Proceeds(r) ==
    \/ InsertWorkflow(r) \/ LoadCase(r) \/ RunStep(r) \/ InsertAttempt(r)
    \/ \E outcome \in Outcomes : Answer(r, outcome)
    \/ Record(r) \/ MoveCase(r) \/ Commit(r) \/ RollBack(r)

Next ==
    \/ \E r \in Requests :
          \/ CheckCreate(r)
          \/ \E w \in DOMAIN flow, all \in BOOLEAN : Open(r, w, all)
          \/ Proceeds(r)
          \/ Crash(r)
    \/ CaseDisturbed \/ ConsentChanges

\* Handlers run to their end and the gateway call has a timeout; PostgreSQL
\* grants row locks in the order they were asked for.
Fairness == \A r \in Requests : SF_vars(Proceeds(r))

Spec == Init /\ [][Next]_vars /\ Fairness

-----------------------------------------------------------------------------
(* Properties. *)

\* Every variable keeps its type.
TypeOK ==
    /\ state \in States /\ txn \in TxnStatuses /\ ahead \in BOOLEAN /\ consent \in BOOLEAN
    /\ DOMAIN flow \subseteq Workflows
    /\ \A w \in DOMAIN flow :
          /\ flow[w].action \in Actions /\ flow[w].status \in WorkflowStatuses
          /\ flow[w].steps \in [DOMAIN StepsOf(flow[w].action) -> StepStatuses]
    /\ attempts \in Seq([w : Workflows, status : {"STARTED", "SUCCEEDED", "UNCERTAIN", "FAILED"}])
    /\ DOMAIN executions \subseteq DOMAIN flow
    /\ \A w \in DOMAIN executions : executions[w] \in Outcomes
    /\ orders \in [Workflows -> Nat]
    /\ \A r \in Requests :
          /\ req[r].pc \in PCs
          /\ req[r].pc \notin {"idle", "create"} => req[r].w \in DOMAIN flow
          /\ req[r].seq \in 0..MaxAttempts

\* At most one retry of the case is at the gateway, whichever workflows the
\* requests execute: the attempt is flushed before the call, and its number
\* stays taken until the commit.
OneCallAtATime ==
    \A r, o \in Requests : req[r].pc = "calling" /\ req[o].pc = "calling" => r = o

\* A call is never in progress beside a committed execution of unknown outcome,
\* although the check for one is made before the wait for the attempt number.
NoCallBesideUnknown ==
    \A r \in Requests :
        req[r].pc = "calling" => \A w \in DOMAIN executions : executions[w] # "UNKNOWN"

\* Concurrent requests that each saw room for one more do not exceed the limit.
AttemptLimitHolds == Len(attempts) <= MaxAttempts

\* Attempts and executions tell the same story: a workflow has an attempt if
\* it has an execution, exactly one, and in the status its outcome maps to.
AttemptsMatchExecutions ==
    /\ \A i \in DOMAIN attempts :
          /\ attempts[i].w \in DOMAIN executions
          /\ attempts[i].status = AttemptStatus(executions[attempts[i].w])
    /\ \A w \in DOMAIN executions :
          Cardinality({i \in DOMAIN attempts : attempts[i].w = w}) = 1

\* Every request ends: with a commit, a refusal or a rollback, and also when
\* requests wait for each other in a circle.
RequestsEnd == \A r \in Requests : req[r].pc # "idle" ~> req[r].pc = "idle"

-----------------------------------------------------------------------------
(* Properties of one request at a time and no other mover of the case. *)

\* Only a declined payment is retried: every attempt but the last has FAILED.
OnlyFailuresAreRetried ==
    \A i \in DOMAIN attempts : i < Len(attempts) => attempts[i].status = "FAILED"

\* The case follows the outcome of its last retry: it waits for verification
\* exactly if the gateway took the payment, and is escalated exactly if the
\* gateway did not answer.
CaseFollowsOutcome ==
    LET Outcome(status) == \E i \in DOMAIN attempts : attempts[i].status = status IN
    /\ state = "VERIFICATION_PENDING" <=> Outcome("STARTED") \/ Outcome("SUCCEEDED")
    /\ state = "ESCALATED" <=> Outcome("UNCERTAIN")

\* The status of a workflow follows its steps: none has failed while it runs,
\* one has if it failed, and none is left when it is completed.
StatusFollowsSteps ==
    \A w \in DOMAIN flow :
        LET Steps == {flow[w].steps[i] : i \in DOMAIN flow[w].steps} IN
        /\ flow[w].status \in {"PENDING", "RUNNING"} => Steps \cap {"FAILED", "WAITING"} = {}
        /\ flow[w].status = "FAILED" => "FAILED" \in Steps
        /\ flow[w].status = "COMPLETED" => "PENDING" \notin Steps

-----------------------------------------------------------------------------
(* What the documentation says and the code does not do. *)

\* adapters/base.py, submit_retry: idempotent in request.idempotency_key, so a
\* step's key opens one order, however often the step is executed.
OneOrderPerKey == \A w \in Workflows : orders[w] <= 1
=============================================================================
