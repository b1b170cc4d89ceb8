--------------------------- MODULE CaseLifecycle ---------------------------
(***************************************************************************)
(* The recovery-case state machine as constant-level tables: the states    *)
(* (core/enums.py), the states three services treat as terminal, the       *)
(* allow-list of CaseTransitionService and the state the policy engine     *)
(* moves a case to.  No variables: the ledger, workflow and ingestion      *)
(* modules all read these tables, as the services share the Python ones.   *)
(***************************************************************************)

\* RecoveryCaseState.
States ==
    {"DETECTED", "CONTEXT_READY", "AWAITING_DECISION", "ACTION_PENDING",
     "VERIFICATION_PENDING", "RECOVERED", "RETRY_ELIGIBLE", "ESCALATED",
     "STOPPED", "CLOSED"}

\* "No state": the from_state of a creation record.
NoState == "NONE"

\* TERMINAL_STATES of RecoveryCaseService and EventToCaseEngine.
TerminalStates == {"RECOVERED", "STOPPED", "CLOSED"}

\* _ALLOWED_TRANSITIONS: only CaseTransitionService consults it.
AllowedTransitions ==
    [s \in States |->
        CASE s = "DETECTED"             -> {"CONTEXT_READY", "ESCALATED", "STOPPED"}
          [] s = "CONTEXT_READY"        -> {"AWAITING_DECISION", "ESCALATED"}
          [] s = "AWAITING_DECISION"    -> {"ACTION_PENDING", "ESCALATED", "STOPPED"}
          [] s = "ACTION_PENDING"       -> {"VERIFICATION_PENDING", "ESCALATED", "STOPPED"}
          [] s = "VERIFICATION_PENDING" -> {"RECOVERED", "RETRY_ELIGIBLE", "ESCALATED"}
          [] s = "RETRY_ELIGIBLE"       -> {"ACTION_PENDING", "ESCALATED", "STOPPED"}
          [] s \in {"RECOVERED", "ESCALATED", "STOPPED"} -> {"CLOSED"}
          [] s = "CLOSED"               -> {}]

\* The targets the agent and execution workflows pass to CaseTransitionService.
ServiceTargets ==
    {"CONTEXT_READY", "AWAITING_DECISION", "ACTION_PENDING",
     "VERIFICATION_PENDING", "ESCALATED", "STOPPED"}

\* TransactionStatus, as far as recovery tells its members apart.
TxnStatuses == {"PENDING", "FAILED", "SUCCEEDED"}

\* What a provider answers to a status query (ExecutionStatus); SUBMITTED
\* stands for every status reconciliation does not act on.
ProviderStatuses == {"SUCCEEDED", "FAILED", "UNKNOWN", "SUBMITTED"}

\* WorkflowCreationService._build_steps: the steps of a workflow, by its action.
StepsOf(action) ==
    CASE action = "RETRY_PAYMENT" -> <<"validate", "cooldown", "dispatch", "await">>
      [] action = "SEND_REMINDER" -> <<"validate", "communicate">>
      [] action = "REQUEST_OPERATOR_REVIEW" -> <<"support">>
      [] OTHER -> <<>>

-----------------------------------------------------------------------------
\* The states EligibilityEvaluator lets a recommendation be acted on in.
ActionableStates == {"DETECTED", "AWAITING_DECISION", "RETRY_ELIGIBLE"}

\* What the policy engine can answer for a case in state s: outside the
\* actionable states eligibility fails, and a failed rule means REJECTED.
PolicyVerdicts(s) ==
    IF s \in ActionableStates
    THEN {"APPROVED", "REQUIRES_REVIEW", "REJECTED", "INSUFFICIENT_INFORMATION"}
    ELSE {"REJECTED"}

\* Faults: no state instead of the unchanged one; the terminal check dropped.
PolicyTargetNone(verdict, final, s) ==
    IF verdict = "APPROVED" THEN "ACTION_PENDING" ELSE NoState
PolicyTargetAnyState(verdict, final, s) ==
    IF verdict = "APPROVED" THEN "ACTION_PENDING"
    ELSE IF verdict = "REJECTED" /\ final THEN "STOPPED" ELSE s

\* PolicyEngineService._determine_fsm_transition: the state the case is left
\* in.  `final` says that one of the rejection reasons is a terminal one
\* (RETRY_LIMIT_EXCEEDED, RETRY_NOT_SUPPORTED, CASE_CLOSED, ...).
PolicyTarget(verdict, final, s) ==
    IF verdict = "APPROVED" /\ s \in ActionableStates THEN "ACTION_PENDING"
    ELSE IF verdict = "REQUIRES_REVIEW" /\ s \notin TerminalStates \cup {"ESCALATED"}
         THEN "ESCALATED"
    ELSE IF verdict = "REJECTED" /\ final /\ s \notin TerminalStates THEN "STOPPED"
    ELSE s
=============================================================================
