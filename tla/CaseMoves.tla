----------------------------- MODULE CaseMoves -----------------------------
(***************************************************************************)
(* What the services promise about one recovery case, seen from outside:   *)
(* every handler is one atomic step on the state of the case, the status   *)
(* of its transaction and one fact about its logs, whether the audit log   *)
(* holds more rows than the transition log.  That fact decides whether     *)
(* CaseTransitionService can still move the case: it numbers the audit     *)
(* event it writes like the transition.                                    *)
(*                                                                         *)
(* CaseLedger, with its row, logs and request phases, implements this      *)
(* module when requests are served one at a time; the workflow module uses *)
(* these actions for what the rest of the program does to its case.        *)
(***************************************************************************)
EXTENDS CaseLifecycle

VARIABLES
    state,  \* recovery_cases.state
    txn,    \* status of the trigger transaction
    ahead   \* does the audit log hold more rows than the transition log?

caseVars == <<state, txn, ahead>>

CaseInit ==
    /\ state = "DETECTED"
    /\ txn \in TxnStatuses
    /\ ahead \in BOOLEAN

-----------------------------------------------------------------------------
\* An audit event and no transition.
Annotate == ahead' = TRUE /\ UNCHANGED <<state, txn>>

\* RecoveryCaseService.transition_state.
OperatorMoves(to) ==
    /\ state \notin TerminalStates
    /\ to # state
    /\ state' = to
    /\ UNCHANGED <<txn, ahead>>

\* RecoveryCaseService.update_case and, on a case that is still open, the
\* event engine for a payment.failed event.
CaseUpdated == state \notin TerminalStates /\ Annotate

FailureReported ==
    /\ state \notin TerminalStates
    /\ txn # "SUCCEEDED"
    /\ Annotate

\* The event engine for a payment.succeeded event: the transaction it marks is
\* the event's, which need not be the one that triggered the case.
SuccessReported ==
    /\ state \notin TerminalStates
    /\ state' = "RECOVERED"
    /\ txn' \in {txn, "SUCCEEDED"}
    /\ UNCHANGED ahead

\* A recommendation is stored on any case but a DETECTED one, whose first
\* recommendation numbers two events alike and is rolled back.
Recommended == state # "DETECTED" /\ Annotate

\* PolicyEngineService.evaluate.
PolicyEvaluated ==
    \E v \in PolicyVerdicts(state), final \in BOOLEAN :
        LET to == PolicyTarget(v, final, state) IN
        IF to = state THEN Annotate ELSE state' = to /\ UNCHANGED <<txn, ahead>>

\* CaseTransitionService.transition, once its log numbers agree.
ServiceMoves(to) ==
    /\ ~ahead
    /\ to \in AllowedTransitions[state]
    /\ state' = to

ServiceMoved == \E to \in ServiceTargets : ServiceMoves(to) /\ UNCHANGED <<txn, ahead>>

\* PaymentReconciliationService.reconcile_case.
Reconciled(provider) ==
    /\ ahead' = TRUE
    /\ \/ /\ txn # "SUCCEEDED" /\ provider = "SUCCEEDED"
          /\ txn' = "SUCCEEDED"
          /\ CASE state = "VERIFICATION_PENDING"     -> ServiceMoves("RECOVERED")
               [] state \in {"RECOVERED", "CLOSED"}  -> UNCHANGED state
               [] OTHER                              -> state' = "RECOVERED"
       \/ /\ txn = "PENDING" /\ provider = "FAILED"
          /\ txn' = "FAILED"
          /\ IF state = "VERIFICATION_PENDING" THEN ServiceMoves("RETRY_ELIGIBLE")
                                               ELSE UNCHANGED state
       \/ /\ provider = "UNKNOWN" /\ state \notin {"ESCALATED", "CLOSED"}
          /\ ServiceMoves("ESCALATED")
          /\ UNCHANGED txn
       \/ /\ \/ provider = "SUBMITTED"
             \/ provider = "SUCCEEDED" /\ txn = "SUCCEEDED"
             \/ provider = "FAILED" /\ txn # "PENDING"
             \/ provider = "UNKNOWN" /\ state \in {"ESCALATED", "CLOSED"}
          /\ UNCHANGED <<state, txn>>

CaseNext ==
    \/ \E to \in States : OperatorMoves(to)
    \/ CaseUpdated \/ FailureReported \/ SuccessReported
    \/ Recommended \/ PolicyEvaluated \/ ServiceMoved
    \/ \E provider \in ProviderStatuses : Reconciled(provider)

CaseSpec == CaseInit /\ [][CaseNext]_caseVars
=============================================================================
