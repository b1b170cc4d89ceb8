----------------------------- MODULE AgentRules -----------------------------
(***************************************************************************)
(* The agent side of the program, which only proposes: what the boundary   *)
(* accepts as a decision of the reasoning provider, what SafetyPolicy      *)
(* answers to it, and what the controlled tools make of it.  No variables. *)
(*                                                                         *)
(* A decision says whether it names the observed case, whether it gives a  *)
(* stop reason, whether it asks for a person and whether its rationale is  *)
(* longer than an escalation's reason may be.                              *)
(***************************************************************************)
EXTENDS CaseLifecycle, Integers

AgentActions == {"RETRY_PAYMENT", "SEND_REMINDER", "REQUEST_OPERATOR_REVIEW", "STOP", "NONE"}

Decisions == [action : AgentActions, ownCase : BOOLEAN, stopReason : BOOLEAN,
              review : BOOLEAN, long : BOOLEAN]

\* PolicyConfig of policy/safety.py.
AllowedActions == AgentActions \ {"NONE"}
RetryBudgetOfAgents == 2

\* validate_decision.
IsAccepted(d) ==
    /\ d.ownCase
    /\ d.action \in AllowedActions
    /\ d.stopReason <=> d.action = "STOP"

-----------------------------------------------------------------------------
\* SafetyPolicy.evaluate for a context c, whose requests all have a key; a
\* duplicate is a key that has been used.  The checks come in this order.
Closed(c) == c.state \in TerminalStates \/ c.txn = "SUCCEEDED"
Foreign(c) == c.action \notin AllowedActions
Early(c) == c.action = "RETRY_PAYMENT" /\ c.state \notin {"AWAITING_DECISION", "RETRY_ELIGIBLE"}
Spent(c) == c.action = "RETRY_PAYMENT" /\ (c.retries >= RetryBudgetOfAgents \/ c.uncertain)

Verdict(c) ==
    CASE Closed(c) -> "STOP"
      [] ~Closed(c) /\ (Foreign(c) \/ Early(c)) -> "REJECT"
      [] ~Closed(c) /\ ~Foreign(c) /\ ~Early(c) /\ Spent(c) -> "ESCALATE"
      [] ~Closed(c) /\ ~Foreign(c) /\ ~Early(c) /\ ~Spent(c) /\ c.duplicate -> "REJECT"
      [] OTHER -> "ALLOW"

-----------------------------------------------------------------------------
\* The registry validates the input of the tool the decision calls for: an
\* escalation takes a reason of 500 characters and a priority up to 100, an
\* intent a rationale of 2000 and no priority.
ToolAccepts(d, priority) == d.review => ~d.long /\ priority \in 0..100

\* EscalateCaseTool and DraftRecoveryIntentTool, which the workflow authorizes:
\* either answers with a plan and does nothing, a refused input is an exception.
ToolStatus(d, priority) == IF ToolAccepts(d, priority) THEN "planned" ELSE "exception"

\* VerticalRecoveryWorkflow.run on a DETECTED case: the state it leaves the case
\* in.  A decision to stop is allowed like any other, and planned.
AgentOutcome(d, payment, retries) ==
    LET v == Verdict([state |-> "AWAITING_DECISION", txn |-> payment, action |-> d.action,
                      retries |-> retries, uncertain |-> FALSE, duplicate |-> FALSE])
    IN  CASE v \in {"STOP", "REJECT"} -> "STOPPED"
          [] v = "ESCALATE" -> "ESCALATED"
          [] v = "ALLOW" -> "VERIFICATION_PENDING"
=============================================================================
