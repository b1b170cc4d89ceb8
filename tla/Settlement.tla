----------------------------- MODULE Settlement -----------------------------
(***************************************************************************)
(* How cases that wait for verification are settled.  Retries and agent    *)
(* runs bring cases to VERIFICATION_PENDING; PaymentReconciliationService  *)
(* takes the ones that wait, the oldest first, asks the gateway about each *)
(* and acts on the answer.  Provider events, operators and the gateway     *)
(* itself go on in the meantime.                                           *)
(*                                                                         *)
(* A reconciliation is a session of several steps: the cases are loaded    *)
(* when it begins and are not read again, since commits do not expire what *)
(* a session has loaded; the transaction of a case is loaded before the    *)
(* gateway is asked about it; the answer is acted on, and committed, after *)
(* that.  An exception ends the session with the cases after it untouched. *)
(*                                                                         *)
(* Every other request on a case is a thread's: it loads the case and its  *)
(* transaction, decides by what it has loaded, and commits the columns it  *)
(* has changed over whatever is there by then, or is rolled back.  The     *)
(* numbers of the logs are read right before the commit: if they have been *)
(* taken since, the request is rolled back.                                *)
(***************************************************************************)
EXTENDS AgentRules, CaseRanking, Sequences, FiniteSets, SequencesExt

CONSTANTS
    Cases,
    Threads,      \* threads that serve requests beside the reconciliation
    Services,     \* the services each case meets in this instance
    Limit,        \* cases a batch takes at most
    Targets,      \* states an operator sets
    MaxAttempts   \* bound: attempts of a case

AllServices == {"agent", "policy", "retry", "operator", "note", "success"}

ASSUME SettlementAssumption ==
    /\ Services \in [Cases -> SUBSET AllServices]
    /\ Limit \in Nat \ {0} /\ MaxAttempts \in Nat
    /\ Targets \subseteq States

VARIABLES
    live,      \* are there keys of the gateway, or is it simulated?
    state, txn, ahead,  \* of every case, as in CaseMoves
    queue,     \* the cases that wait for verification, by last_state_changed_at
    own,       \* the payment id of the transaction, told by its name
    payment,   \* status of that payment at the gateway
    ref,       \* external_reference of the latest execution of a case
    tried,     \* attempts of a case
    looked,    \* history: cases a reconciliation has left waiting
    session,   \* the reconciliation in progress
    held       \* what a thread has loaded for the request it serves, if any

recorded == <<state, txn, ahead, queue, ref, tried>>
vars == <<live, recorded, own, payment, looked, session, held>>

GatewayStatuses == {"created", "authorized", "captured", "failed", "refunded"}

\* Names of payments: the simulator looks for "succ" and "fail" in them.  The id
\* of a payment that was not made at a gateway ("tx_") counts as none, and so
\* does here a name with "invalid" or "not_found", which the simulator does not
\* know either.
PaymentNames == {"none", "plain", "succ", "fail"}
References == PaymentNames \cup {"order"}

Loads == [case : Cases, state : States, txn : TxnStatuses]

Idle == [todo |-> <<>>, seen |-> NoState, resolve |-> TRUE, found |-> "none", answer |-> "none",
         stuck |-> {}]

\* A live gateway does not judge by names.
Init ==
    /\ live \in BOOLEAN
    /\ state = [c \in Cases |-> "DETECTED"]
    /\ txn \in [Cases -> {"PENDING", "FAILED"}]
    /\ ahead = [c \in Cases |-> FALSE]
    /\ queue = <<>>
    /\ own \in [Cases -> IF live THEN {"none", "plain"} ELSE PaymentNames]
    /\ payment = [c \in Cases |-> IF txn[c] = "FAILED" THEN "failed" ELSE "created"]
    /\ ref = [c \in Cases |-> "none"]
    /\ tried = [c \in Cases |-> 0]
    /\ looked = {}
    /\ session = Idle
    /\ held = [t \in Threads |-> {}]

-----------------------------------------------------------------------------
(* Requests. *)

\* The queue without a case.
Others(c) ==
    IF \E i \in DOMAIN queue : queue[i] = c
    THEN RemoveAt(queue, CHOOSE i \in DOMAIN queue : queue[i] = c)
    ELSE queue

\* The case, and with it the queue: a case that is set to wait is the youngest.
MoveTo(c, to) ==
    /\ state' = [state EXCEPT ![c] = to]
    /\ queue' = IF to = "VERIFICATION_PENDING" THEN Append(Others(c), c) ELSE Others(c)

\* A request begins: session.get of the case and of its transaction.
Load(t, c) ==
    /\ held[t] = {}
    /\ held' = [held EXCEPT ![t] = {[case |-> c, state |-> state[c], txn |-> txn[c]]}]
    /\ UNCHANGED <<live, recorded, own, payment, looked, session>>

\* The end of the request, which leaves the gateway and the reconciliation alone.
Ends(t) ==
    /\ held' = [held EXCEPT ![t] = {}]
    /\ UNCHANGED <<live, own, payment, looked, session>>

\* A crash, an exception, or a log number that was taken.
RollBack(t) ==
    /\ held[t] # {}
    /\ Ends(t) /\ UNCHANGED recorded

\* CaseTransitionService moves a case that was loaded as h: the allow-list reads
\* what was loaded, the UNIQUE constraints what is there.
CanMove(h, to) == ~ahead[h.case] /\ to \in AllowedTransitions[h.state]

\* The priorities of cases, for amounts and ages at the bounds of the rules.
Priorities ==
    {Priority(amount, code, hours) :
        amount \in {0, 5000, 25000, 100000, 500000}, code \in Codes, hours \in {0, 24, 48}}

Accepted == {d \in Decisions : IsAccepted(d)}

\* The decisions whose tool can answer; for the others it raises an exception.
Plannable == {d \in Decisions : \E p \in Priorities : ToolStatus(d, p) = "planned"}

\* VerticalRecoveryWorkflow.run, up to the commit of its caller: the three or
\* four moves and the flushes between them are one transaction.
RunAgent(t, h) ==
    /\ "agent" \in Services[h.case]
    /\ CanMove(h, "CONTEXT_READY")
    /\ LET c == h.case
           Outcome(d) == AgentOutcome(d, h.txn, tried[c])
       IN \E to \in {Outcome(d) : d \in {e \in Accepted :
                                       Outcome(e) = "VERIFICATION_PENDING" => e \in Plannable}} :
          /\ to = "VERIFICATION_PENDING" => tried[c] < MaxAttempts
          /\ MoveTo(c, to)
          /\ tried' = [tried EXCEPT ![c] = IF to = "VERIFICATION_PENDING" THEN @ + 1 ELSE @]
    /\ Ends(t) /\ UNCHANGED <<txn, ahead, ref>>

\* PolicyEngineService.evaluate, where its decision moves the case.
EvaluatePolicy(t, h) ==
    /\ "policy" \in Services[h.case]
    /\ \E v \in PolicyVerdicts(h.state), final \in BOOLEAN :
          LET to == PolicyTarget(v, final, h.state) IN to # h.state /\ MoveTo(h.case, to)
    /\ Ends(t) /\ UNCHANGED <<txn, ahead, ref, tried>>

\* The answer to a retry and the reference it comes with: a live gateway accepts
\* an order, and declines without a reference.
LiveSubmits == {<<"SUBMITTED", "order">>, <<"FAILED", "none">>, <<"UNKNOWN", "none">>}

\* The simulator does what the metadata of the request asks for, and names the
\* payment after it.
SimulatedSubmits ==
    {<<"SUBMITTED", "plain">>, <<"SUCCEEDED", "succ">>, <<"FAILED", "fail">>,
     <<"UNKNOWN", "none">>}

SubmitAnswers == IF live THEN LiveSubmits ELSE SimulatedSubmits

\* The state an answer to a retry asks for.
AnswerState ==
    [SUBMITTED |-> "VERIFICATION_PENDING", SUCCEEDED |-> "VERIFICATION_PENDING",
     UNKNOWN |-> "ESCALATED", FAILED |-> "ACTION_PENDING"]

\* _execute_dispatch_payment_retry, with the transition it ends in; where the
\* transition is refused, nothing of it remains.  A declined retry writes no
\* state.  (Revalidation looks at more than state and payment: RecoveryWorkflow.)
DispatchRetry(t, h) ==
    /\ "retry" \in Services[h.case]
    /\ h.state = "ACTION_PENDING" /\ h.txn # "SUCCEEDED" /\ tried[h.case] < MaxAttempts
    /\ \E a \in SubmitAnswers :
          LET to == AnswerState[a[1]] IN
          /\ \/ to = h.state /\ UNCHANGED <<state, queue>>
             \/ to # h.state /\ CanMove(h, to) /\ MoveTo(h.case, to)
          /\ ref' = [ref EXCEPT ![h.case] = a[2]]
    /\ tried' = [tried EXCEPT ![h.case] = @ + 1]
    /\ Ends(t) /\ UNCHANGED <<txn, ahead>>

\* Operators set states.
Operate(t, h) ==
    /\ "operator" \in Services[h.case]
    /\ h.state \notin TerminalStates
    /\ \E to \in Targets \ {h.state} : MoveTo(h.case, to)
    /\ Ends(t) /\ UNCHANGED <<txn, ahead, ref, tried>>

\* A recommendation or an evaluation that moves nothing writes the audit log; so
\* do an update by an operator and another failure of the payment, on a case that
\* is not terminal, and they set last_state_changed_at.
Noted(t, h) ==
    /\ "note" \in Services[h.case]
    /\ ahead' = [ahead EXCEPT ![h.case] = TRUE]
    /\ \/ UNCHANGED queue
       \/ /\ h.state \notin TerminalStates
          /\ queue' = IF h.case \in ToSet(queue) THEN Append(Others(h.case), h.case) ELSE queue
    /\ Ends(t) /\ UNCHANGED <<state, txn, ref, tried>>

\* A payment.succeeded event: of the transaction that triggered the case, or of
\* another one whose event names the case.
ReportSuccess(t, h) ==
    /\ "success" \in Services[h.case]
    /\ h.state \notin TerminalStates
    /\ MoveTo(h.case, "RECOVERED")
    /\ txn' \in {txn, [txn EXCEPT ![h.case] = "SUCCEEDED"]}
    /\ Ends(t) /\ UNCHANGED <<ahead, ref, tried>>

\* How a payment goes on at the gateway.
PaymentSteps ==
    {<<"created", "authorized">>, <<"created", "failed">>, <<"authorized", "captured">>,
     <<"authorized", "failed">>, <<"captured", "refunded">>}

\* The simulated gateway holds no payments, and of one without an id nothing is
\* ever asked.
PaymentMoves(c) ==
    /\ live /\ own[c] # "none"
    /\ \E s \in GatewayStatuses :
          <<payment[c], s>> \in PaymentSteps /\ payment' = [payment EXCEPT ![c] = s]
    /\ UNCHANGED <<live, recorded, own, looked, session, held>>

-----------------------------------------------------------------------------
(* What the gateway answers. *)

\* Fault: an authorized payment counts as a successful one.
NormalizeEager(s) ==
    CASE s = "created" -> "SUBMITTED"
      [] s \in {"authorized", "captured"} -> "SUCCEEDED"
      [] s = "failed" -> "FAILED"
      [] s = "refunded" -> "CANCELLED"

\* _normalize_razorpay_status.
Normalize(s) ==
    CASE s = "created" -> "SUBMITTED"
      [] s = "authorized" -> "PENDING"
      [] s = "captured" -> "SUCCEEDED"
      [] s = "failed" -> "FAILED"
      [] s = "refunded" -> "CANCELLED"

\* The reference reconcile_case asks about.
Reference(c) == IF ref[c] # "none" THEN ref[c] ELSE own[c]

\* The live query asks for a payment: an order id is not found.  Only a timeout
\* is caught, other failures of the connection escape.
LiveAnswers(c) ==
    CASE Reference(c) = "none" -> {"UNKNOWN"}
      [] ref[c] = "none" /\ own[c] # "none" -> {Normalize(payment[c]), "UNKNOWN", "ERROR"}
      [] OTHER -> {"UNKNOWN", "ERROR"}

\* The simulator of a new adapter has no submissions and judges by the name of
\* the reference, the payment id of the transaction included.
SimulatedAnswers(c) ==
    CASE Reference(c) = "succ" -> {"SUCCEEDED"}
      [] Reference(c) = "fail" -> {"FAILED"}
      [] Reference(c) = "none" -> {"UNKNOWN"}
      [] OTHER -> {"SUBMITTED"}

Answers(c) == IF live THEN LiveAnswers(c) ELSE SimulatedAnswers(c)

-----------------------------------------------------------------------------
(* Reconciliation. *)

Least(m, n) == IF m < n THEN m ELSE n

\* A case the gateway can say nothing about, whose audit log has no room for the
\* escalation that asks for.
Stuck(c) == ahead[c] /\ Answers(c) \subseteq {"UNKNOWN", "ERROR"}

\* reconcile_pending_cases.  `stuck` is history: the first case, if it is stuck.
StartBatch ==
    /\ session = Idle /\ queue # <<>>
    /\ session' = [Idle EXCEPT !.todo = SubSeq(queue, 1, Least(Limit, Len(queue))),
                               !.seen = "VERIFICATION_PENDING",
                               !.stuck = {c \in {queue[1]} : Stuck(c)}]
    /\ UNCHANGED <<live, recorded, own, payment, looked, held>>

\* POST /reconciliation/reconcile-case.
StartSingle(c, resolve) ==
    /\ session = Idle
    /\ session' = [Idle EXCEPT !.todo = <<c>>, !.seen = state[c], !.resolve = resolve]
    /\ UNCHANGED <<live, recorded, own, payment, looked, held>>

\* The transaction is loaded, and the gateway asked.
Ask ==
    /\ session.todo # <<>> /\ session.answer = "none"
    /\ LET c == Head(session.todo) IN
       \E a \in Answers(c) :
          session' = IF a = "ERROR" THEN Idle
                     ELSE [session EXCEPT !.found = txn[c], !.answer = a,
                                          !.stuck = {x \in @ : Stuck(x)}]
    /\ UNCHANGED <<live, recorded, own, payment, looked, held>>

\* Fault: the status of the transaction is only compared with SUCCEEDED.
ResolutionEager(seen, found, answer) ==
    IF answer = "SUCCEEDED" /\ found \in {"FAILED", "PENDING"} THEN
        [txn |-> "SUCCEEDED",
         to |-> IF seen \in {"RECOVERED", "CLOSED"} THEN NoState ELSE "RECOVERED",
         service |-> seen = "VERIFICATION_PENDING"]
    ELSE IF answer = "FAILED" THEN
        [txn |-> "FAILED",
         to |-> IF seen = "VERIFICATION_PENDING" THEN "RETRY_ELIGIBLE" ELSE NoState,
         service |-> TRUE]
    ELSE IF answer = "UNKNOWN" /\ seen \notin {"ESCALATED", "CLOSED"} THEN
        [txn |-> NoState, to |-> "ESCALATED", service |-> TRUE]
    ELSE [txn |-> NoState, to |-> NoState, service |-> FALSE]

\* What reconcile_case does about a case it has seen in state `seen`, with a
\* transaction it has found in status `found`: the new status and state, or
\* NoState for none, and whether CaseTransitionService makes the move.  A declined
\* payment of a transaction that had failed before is no discrepancy.
Resolution(seen, found, answer) ==
    IF answer = "SUCCEEDED" /\ found \in {"FAILED", "PENDING"} THEN
        [txn |-> "SUCCEEDED",
         to |-> IF seen \in {"RECOVERED", "CLOSED"} THEN NoState ELSE "RECOVERED",
         service |-> seen = "VERIFICATION_PENDING"]
    ELSE IF answer = "FAILED" /\ found = "PENDING" THEN
        [txn |-> "FAILED",
         to |-> IF seen = "VERIFICATION_PENDING" THEN "RETRY_ELIGIBLE" ELSE NoState,
         service |-> TRUE]
    ELSE IF answer = "UNKNOWN" /\ seen \notin {"ESCALATED", "CLOSED"} THEN
        [txn |-> NoState, to |-> "ESCALATED", service |-> TRUE]
    ELSE [txn |-> NoState, to |-> NoState, service |-> FALSE]

Unresolved == [txn |-> NoState, to |-> NoState, service |-> FALSE]

\* The move is not allowed from the state the session has loaded, or its number
\* in the audit log is taken.
Refused(c, r) ==
    /\ r.to # NoState /\ r.service
    /\ r.to \notin AllowedTransitions[session.seen] \/ ahead[c]

\* The session after a case: the next one's turn, or the end.
Continued ==
    IF Len(session.todo) = 1 THEN Idle
    ELSE [todo |-> Tail(session.todo), seen |-> session.seen, resolve |-> session.resolve,
          found |-> "none", answer |-> "none", stuck |-> session.stuck]

\* Fault: a refusal ends the turn of the case only.
EndedGoingOn == Continued

\* Fault: an exception leaves what the session has loaded.
EndedHalfway == [session EXCEPT !.todo = <<>>]

\* The session after an exception: get_db rolls back, and the loop is left.
Ended == Idle

\* Fault: the event is numbered so that the next transition finds its number free.
RecordedApart(c) == UNCHANGED ahead

\* The PAYMENT_RECONCILED event leaves the audit log ahead of the transitions.
Recorded(c) == ahead' = [ahead EXCEPT ![c] = TRUE]

\* The rest of reconcile_case, to its commit.
Act ==
    /\ session.answer # "none"
    /\ LET c == Head(session.todo)
           r == IF session.resolve THEN Resolution(session.seen, session.found, session.answer)
                ELSE Unresolved
       IN  IF Refused(c, r) THEN session' = Ended /\ UNCHANGED <<state, queue, txn, ahead, looked>>
           ELSE /\ session' = Continued
                /\ IF r.to = NoState THEN UNCHANGED <<state, queue>> ELSE MoveTo(c, r.to)
                /\ txn' = IF r.txn = NoState THEN txn ELSE [txn EXCEPT ![c] = r.txn]
                /\ Recorded(c)
                /\ looked' = IF state'[c] = "VERIFICATION_PENDING" THEN looked \cup {c} ELSE looked
    /\ UNCHANGED <<live, own, payment, ref, tried, held>>

-----------------------------------------------------------------------------
\* The process dies with the session, or the number of its audit event is taken.
Break ==
    /\ session # Idle
    /\ session' = Ended
    /\ UNCHANGED <<live, recorded, own, payment, looked, held>>

-----------------------------------------------------------------------------
Serve(t) ==
    \/ \E c \in Cases : Load(t, c)
    \/ RollBack(t)
    \/ \E h \in held[t] :
          \/ RunAgent(t, h) \/ EvaluatePolicy(t, h) \/ DispatchRetry(t, h)
          \/ Operate(t, h) \/ Noted(t, h) \/ ReportSuccess(t, h)

Next ==
    \/ \E t \in Threads : Serve(t)
    \/ \E c \in Cases : PaymentMoves(c) \/ \E resolve \in BOOLEAN : StartSingle(c, resolve)
    \/ StartBatch \/ Ask \/ Act \/ Break

Spec == Init /\ [][Next]_vars

-----------------------------------------------------------------------------
(* Properties. *)

\* Every variable keeps its type; the queue holds the cases that wait.
TypeOK ==
    /\ live \in BOOLEAN
    /\ state \in [Cases -> States] /\ txn \in [Cases -> TxnStatuses] /\ ahead \in [Cases -> BOOLEAN]
    /\ own \in [Cases -> PaymentNames] /\ payment \in [Cases -> GatewayStatuses]
    /\ ref \in [Cases -> References] /\ tried \in [Cases -> 0..MaxAttempts]
    /\ IsInjective(queue) /\ ToSet(queue) = {c \in Cases : state[c] = "VERIFICATION_PENDING"}
    /\ looked \subseteq Cases
    /\ session.todo \in Seq(Cases) /\ Len(session.todo) <= Limit
    /\ session.todo = <<>> <=> session = Idle
    /\ held \in [Threads -> SUBSET Loads] /\ \A t \in Threads : \A g, h \in held[t] : g = h

\* The turn of a case in a session.
TurnOf(c) == session.answer # "none" /\ session' # session /\ c = Head(session.todo)

\* Reconciliation has one chance to move a case that waits: a look that leaves it
\* waiting writes an audit event, and every later answer that asks for a move
\* fails on the number of that event.
OnlyFirstLookMoves ==
    [][\A c \in looked :
          TurnOf(c) /\ session.seen = "VERIFICATION_PENDING" => state'[c] = state[c]]_vars

\* Reconciliation declares a case recovered, with a live gateway, only on the
\* payment that once failed or was pending and has been captured since, never on
\* a retry, whose order cannot be looked up; with a simulated one, on a retry, or
\* on nothing but the name of the payment.
RecoveredHasPayment ==
    [][\A c \in Cases :
          TurnOf(c) /\ state'[c] = "RECOVERED" /\ state[c] # "RECOVERED" =>
              IF live THEN own[c] # "none" /\ payment[c] \in {"captured", "refunded"}
              ELSE tried[c] > 0 \/ own[c] = "succ"]_vars

\* A payment booked as successful is taken back only by a turn of reconciliation
\* that had found it otherwise before it asked the gateway.  A recovered or closed
\* case is moved only by such a turn, or by the commit of a request, that had
\* loaded it in another state.
OnlyStaleWritesTakeBack ==
    [][\A c \in Cases :
          /\ txn[c] = "SUCCEEDED" /\ txn'[c] # "SUCCEEDED" =>
                TurnOf(c) /\ session.found # "SUCCEEDED"
          /\ state[c] \in {"RECOVERED", "CLOSED"} /\ state'[c] # state[c] =>
                \/ TurnOf(c) /\ session.seen # state[c]
                \/ \E t \in Threads : \E h \in held[t] :
                       h.case = c /\ h.state # state[c] /\ held'[t] = {}]_vars

\* A batch that begins with a stuck case changes nothing: its first turn ends in
\* an exception, and so does every batch as long as that case is the oldest.
StuckCaseBlocks ==
    [][session.stuck # {} /\ session' # session => UNCHANGED <<state, txn, ahead>>]_vars
=============================================================================
