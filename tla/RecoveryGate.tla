---------------------------- MODULE RecoveryGate ----------------------------
(***************************************************************************)
(* How one recovery case gets from a recommendation to a dispatched        *)
(* action: the orchestrator recommends, the policy engine decides on a     *)
(* recommendation, a workflow is created from an approval and executed,    *)
(* and each looks at the case, the customer's consents and the attempts    *)
(* again, at its own time and by its own rules.                            *)
(*                                                                         *)
(* A request loads what it reads, decides by that, and commits what it has *)
(* changed over whatever is there by then, or is rolled back: nothing is   *)
(* locked while it decides and no version is compared.  Only the UNIQUE    *)
(* constraints of the logs and of the attempts look at what is there.      *)
(***************************************************************************)
EXTENDS CaseMoves, PolicyRules, Recommendation

CONSTANTS
    Sessions,        \* requests that may be served at once
    Profiles,        \* what is known of transactions and customers, earlier consents included
    ConsentTerms,    \* types, statuses, merchants and expiries of consents that may be registered
    Channels,        \* communication channels a request may name
    Proposals,       \* actions a request may propose instead of the recommended one
    Keys,            \* idempotency keys of evaluations
    OperatorTargets, \* states an operator sets
    MaxVersion, MaxRecs, MaxDecisions, MaxFlows, MaxConsents, MaxTime  \* bounds of the lists and the clock

NoKey == "none"

Consents == [type : ConsentTypes, status : ConsentStatuses, merchant : STRING, expires : Nat]

ASSUME KeysAssumption == NoKey \notin Keys
ASSUME TargetsAssumption == OperatorTargets \subseteq States /\ Proposals \subseteq ActionTypes
ASSUME ProfilesAssumption ==
    \A p \in Profiles : p.context \in Contexts /\ p.consents \in Seq(Consents)
ASSUME ConsentTermsAssumption ==
    ConsentTerms \subseteq ConsentTypes \X ConsentStatuses \X STRING \X Nat
ASSUME GateBoundsAssumption ==
    {MaxVersion, MaxRecs, MaxDecisions, MaxFlows, MaxConsents, MaxTime} \subseteq Nat \ {0}

VARIABLES
    version,    \* recovery_cases.version
    facts,      \* the profile of the case, which does not change
    recs,       \* agent_decisions, in the order of their commits
    decisions,  \* policy_decisions, in the order of their commits
    consents,   \* customer_consents, in the order they were granted
    attempts,   \* recovery_attempts, by sequence number
    flows,      \* recovery_workflows, with their next steps
    now,        \* hours
    held        \* what a session has loaded for the request it serves, if any

lists == <<recs, decisions, consents, attempts, flows>>
vars == <<caseVars, version, lists, facts, now, held>>

Init ==
    /\ state = "DETECTED" /\ txn = "FAILED" /\ ahead = FALSE
    /\ version = 1
    /\ facts \in Profiles
    /\ recs = <<>> /\ decisions = <<>> /\ attempts = <<>> /\ flows = <<>>
    /\ consents = facts.consents
    /\ now = 1
    /\ held = [s \in Sessions |-> {}]

-----------------------------------------------------------------------------
(* Requests. *)

Present ==
    [state |-> state, txn |-> txn, version |-> version, recs |-> recs, decisions |-> decisions,
     consents |-> consents, attempts |-> attempts, flows |-> flows, now |-> now]

\* A request begins: it reads the rows it decides by.
Load(s) ==
    /\ held[s] = {}
    /\ held' = [held EXCEPT ![s] = {Present}]
    /\ UNCHANGED <<caseVars, version, lists, facts, now>>

\* The request is over.
Ends(s) == held' = [held EXCEPT ![s] = {}] /\ UNCHANGED <<facts, now>>

\* A crash, an exception, or a number that was taken.
RollBack(s) ==
    /\ held[s] # {}
    /\ Ends(s) /\ UNCHANGED <<caseVars, version, lists>>

-----------------------------------------------------------------------------
(* POST /cases/{id}/recommend. *)

\* What is recommended for a profile after n attempts, of whatever kind.
Recommendations ==
    [p \in Profiles |-> [n \in 0..4 |-> [final \in BOOLEAN |->
        Recommend([p.context EXCEPT !.attempts = n], final)]]]

\* The new row: its number is one more than the highest there was, and `prior` is
\* in the explanation.
NewRecommendations(h) ==
    LET r == Recommendations[facts][Len(h.attempts)][(h.state \in TerminalStates)]
        numbers == {0} \cup {h.recs[i].number : i \in DOMAIN h.recs}
    IN  {[action |-> r.action, confidence |-> r.confidence, status |-> "NOT_VALIDATED",
          prior |-> Len(h.attempts), number |-> n + 1] : n \in {m \in numbers :
                                                               \A k \in numbers : k <= m}}

\* Fault: a recommendation writes no audit event.
GenerateRecommendationUnaudited(s, h) ==
    /\ Len(recs) < MaxRecs
    /\ h.state # "DETECTED"
    /\ \E r \in NewRecommendations(h) : recs' = Append(recs, r)
    /\ UNCHANGED caseVars
    /\ Ends(s) /\ UNCHANGED <<version, decisions, consents, attempts, flows>>

\* generate_recommendation; on a case in DETECTED it numbers two events alike and
\* is rolled back.
GenerateRecommendation(s, h) ==
    /\ Len(recs) < MaxRecs
    /\ h.state # "DETECTED"
    /\ \E r \in NewRecommendations(h) : recs' = Append(recs, r)
    /\ Annotate
    /\ Ends(s) /\ UNCHANGED <<version, decisions, consents, attempts, flows>>

-----------------------------------------------------------------------------
(* POST /policy/evaluate. *)

\* The request has a key, and there was a decision under it, which is the answer.
Decided(h, k) == k # NoKey /\ \E d \in DOMAIN h.decisions : h.decisions[d].key = k

Snapshot(h, i, action, channel) ==
    [case |-> [state |-> h.state, version |-> h.version],
     rec |-> [version |-> h.recs[i].number, status |-> h.recs[i].status,
              confidence |-> h.recs[i].confidence],
     action |-> action, channel |-> channel, consents |-> h.consents, attempts |-> h.attempts,
     txn |-> facts.txn, merchant |-> facts.merchant, contact |-> facts.contact, now |-> h.now]

\* The move of the case and its version, or an audit event alone.
Follow(h, answer) ==
    LET final == answer.reasons \cap FinalReasons # {}
        to == PolicyTarget(answer.status, final, h.state)
    IN  IF to = h.state THEN Annotate /\ UNCHANGED version
                        ELSE state' = to /\ version' = h.version + 1 /\ UNCHANGED <<txn, ahead>>

\* The validation status of the recommendation, where it has changed.
Mark(h, i, new) ==
    recs' = IF new = h.recs[i].status THEN recs ELSE [recs EXCEPT ![i].status = new]

\* PolicyEngineService.evaluate, for the recommendation i.
EvaluatePolicy(s, h, k, i, action, channel) ==
    /\ Len(decisions) < MaxDecisions
    /\ ~Decided(h, k)
    /\ \E answer \in {Evaluate(Snapshot(h, i, action, channel))} :
          /\ decisions' = Append(decisions,
                [key |-> k, rec |-> i, action |-> action, status |-> answer.status,
                 version |-> h.version])
          /\ Mark(h, i, ValidationStatus(answer.status))
          /\ Follow(h, answer)
    /\ Ends(s) /\ UNCHANGED <<consents, attempts, flows>>

-----------------------------------------------------------------------------
(* POST /policy/consents and /policy/consents/{id}/revoke, by a session that  *)
(* serves nothing else: they read nothing but the consent they write.         *)

CreateConsent(type, status, merchant, expires) ==
    /\ Len(consents) < MaxConsents
    /\ consents' = Append(consents,
          [type |-> type, status |-> status, merchant |-> merchant, expires |-> expires])

\* Revoking a consent again changes nothing of it but times.
RevokeConsent(i) ==
    /\ consents[i].status # "REVOKED"
    /\ consents' = [consents EXCEPT ![i].status = "REVOKED"]

ChangeConsents(s) ==
    /\ held[s] = {}
    /\ \/ \E terms \in ConsentTerms : CreateConsent(terms[1], terms[2], terms[3], terms[4])
       \/ \E i \in DOMAIN consents : RevokeConsent(i)
    /\ UNCHANGED <<caseVars, version, recs, decisions, attempts, flows, facts, now, held>>

-----------------------------------------------------------------------------
(* POST /workflows. *)

ActiveStatuses == {"PENDING", "RUNNING", "WAITING"}

\* create_workflow_for_decision: any approval of the case will do, however old
\* and however often it has been used.
CreateWorkflow(s, h, d) ==
    /\ Len(flows) < MaxFlows
    /\ h.decisions[d].status = "APPROVED"
    /\ h.state = "ACTION_PENDING"
    /\ \A f \in DOMAIN h.flows : h.flows[f].status \notin ActiveStatuses
    /\ flows' = Append(flows, [status |-> "PENDING", action |-> h.decisions[d].action,
                               decision |-> d, step |-> 1])
    /\ Ends(s) /\ UNCHANGED <<caseVars, version, recs, decisions, consents, attempts>>

-----------------------------------------------------------------------------
(* POST /workflows/{id}/execute, a step at a time. *)

\* WorkflowRevalidationService.max_retry_attempts.
RevalidationLimit == 4

\* Fault: revoked consents count.
GrantedOnce(h, types) == {i \in DOMAIN h.consents : h.consents[i].type \in types}

Granted(h, types) ==
    {i \in DOMAIN h.consents : h.consents[i].type \in types /\ h.consents[i].status = "GRANTED"}

\* Whether the consent of an action can be found wanting, or not.  Of several
\* consents the database returns any; the merchant is not compared, and the
\* expiry of a communication consent is not either.
ConsentFindings(h, action) ==
    CASE action = "RETRY_PAYMENT" ->
            {h.consents[i].expires # NoTime /\ h.consents[i].expires < h.now :
                i \in Granted(h, {"RECURRING_BILLING"})}
            \cup (IF Granted(h, {"RECURRING_BILLING"}) = {} THEN {TRUE} ELSE {})
      [] action = "SEND_REMINDER" ->
            {Granted(h, {"COMMUNICATION_EMAIL", "COMMUNICATION_SMS"}) = {}}
      [] OTHER -> {FALSE}

Unresolved(h) == \E i \in DOMAIN h.attempts : h.attempts[i].status = "UNCERTAIN"

\* revalidate_for_execution can allow the action, or can refuse it.
Allows(h, action) ==
    /\ h.state = "ACTION_PENDING" /\ h.txn # "SUCCEEDED" /\ ~Unresolved(h)
    /\ action = "RETRY_PAYMENT" => Len(h.attempts) < RevalidationLimit
    /\ FALSE \in ConsentFindings(h, action)

Refuses(h, action) ==
    \/ h.state # "ACTION_PENDING" \/ h.txn = "SUCCEEDED" \/ Unresolved(h)
    \/ action = "RETRY_PAYMENT" /\ Len(h.attempts) >= RevalidationLimit
    \/ TRUE \in ConsentFindings(h, action)

\* The request ends with CaseTransitionService.transition, and is rolled back
\* when that fails.
MovesCase(h, to, f, w, made) ==
    IF ~ahead /\ to \in AllowedTransitions[h.state]
    THEN /\ state' = to /\ version' = h.version + 1
         /\ flows' = [flows EXCEPT ![f] = w] /\ attempts' = made
         /\ UNCHANGED <<txn, ahead>>
    ELSE UNCHANGED <<caseVars, version, flows, attempts>>

\* The request ends without touching the case.
Commits(f, w, made) ==
    /\ flows' = [flows EXCEPT ![f] = w] /\ attempts' = made
    /\ UNCHANGED <<caseVars, version>>

\* The workflow after its step.
Stepped(w, status) == [w EXCEPT !.status = status, !.step = @ + 1]

Validate(h, f) ==
    LET w == h.flows[f] IN
    \/ Allows(h, w.action) /\ Commits(f, Stepped(w, "RUNNING"), attempts)
    \/ /\ Refuses(h, w.action)
       /\ MovesCase(h, IF h.state = "ACTION_PENDING" /\ h.txn # "SUCCEEDED" /\ Unresolved(h)
                       THEN "ESCALATED" ELSE "STOPPED", f, Stepped(w, "FAILED"), attempts)

AttemptMade(h, status) ==
    Append(attempts, [status |-> status, action |-> "RETRY_PAYMENT", at |-> h.now])

\* A declined retry leaves the case as it is; the count of attempts it compares
\* with the limit lacks the one just made.  The number of the attempt is one more
\* than the attempts there were, and must be free.
Dispatch(h, f, outcome) ==
    LET w == h.flows[f] IN
    \/ Refuses(h, "RETRY_PAYMENT") /\ Commits(f, Stepped(w, "FAILED"), attempts)
    \/ /\ Allows(h, "RETRY_PAYMENT")
       /\ Len(attempts) = Len(h.attempts)
       /\ CASE outcome = "FAILED" /\ Len(h.attempts) < 4 ->
                 Commits(f, Stepped(w, "FAILED"), AttemptMade(h, "FAILED"))
            [] outcome = "FAILED" /\ Len(h.attempts) >= 4 ->
                 MovesCase(h, "STOPPED", f, Stepped(w, "FAILED"), AttemptMade(h, "FAILED"))
            [] outcome = "SUBMITTED" ->
                 MovesCase(h, "VERIFICATION_PENDING", f, Stepped(w, "RUNNING"),
                           AttemptMade(h, "STARTED"))
            [] outcome = "SUCCEEDED" ->
                 MovesCase(h, "VERIFICATION_PENDING", f, Stepped(w, "RUNNING"),
                           AttemptMade(h, "SUCCEEDED"))
            [] outcome = "UNKNOWN" ->
                 MovesCase(h, "ESCALATED", f, Stepped(w, "REQUIRES_REVIEW"),
                           AttemptMade(h, "UNCERTAIN"))

Outcomes == {"SUBMITTED", "SUCCEEDED", "UNKNOWN", "FAILED"}

\* execute_next_step.
Execute(s, h, f) ==
    LET w == h.flows[f]
        steps == StepsOf(w.action)
    IN
    /\ w.status \in ActiveStatuses
    /\ CASE w.step > Len(steps) -> Commits(f, [w EXCEPT !.status = "COMPLETED"], attempts)
         [] w.step <= Len(steps) /\ steps[w.step] = "validate" -> Validate(h, f)
         [] w.step <= Len(steps) /\ steps[w.step] = "dispatch" ->
                \E outcome \in Outcomes : Dispatch(h, f, outcome)
         [] w.step <= Len(steps) /\ steps[w.step] = "await" ->
                Commits(f, Stepped(w, "WAITING"), attempts)
         [] OTHER -> Commits(f, Stepped(w, "RUNNING"), attempts)
    /\ Ends(s) /\ UNCHANGED <<recs, decisions, consents>>

-----------------------------------------------------------------------------
(* Everything else. *)

\* Operators, who set a state or something else of the case, and successes, which
\* are of the transaction that triggered the case or of another one.
CaseMovesOn(s, h) ==
    /\ h.state \notin TerminalStates /\ h.version < MaxVersion
    /\ \/ state' \in OperatorTargets \ {h.state} /\ UNCHANGED <<txn, ahead>>
       \/ Annotate
       \/ state' = "RECOVERED" /\ txn' \in {txn, "SUCCEEDED"} /\ UNCHANGED ahead
    /\ version' = h.version + 1
    /\ Ends(s) /\ UNCHANGED lists

Tick ==
    /\ now < MaxTime
    /\ now' = now + 1
    /\ UNCHANGED <<caseVars, version, lists, facts, held>>

Serve(s) ==
    \/ Load(s) \/ RollBack(s) \/ ChangeConsents(s)
    \/ \E h \in held[s] :
          \/ GenerateRecommendation(s, h)
          \/ \E k \in Keys \cup {NoKey}, i \in DOMAIN h.recs, channel \in Channels :
                \E action \in Proposals \cup {h.recs[i].action} :
                    EvaluatePolicy(s, h, k, i, action, channel)
          \/ \E d \in DOMAIN h.decisions : CreateWorkflow(s, h, d)
          \/ \E f \in DOMAIN h.flows : Execute(s, h, f)
          \/ CaseMovesOn(s, h)

Next == (\E s \in Sessions : Serve(s)) \/ Tick

Spec == Init /\ [][Next]_vars

-----------------------------------------------------------------------------
(* Properties. *)

\* Every variable keeps its type; a decision names a recommendation, a workflow a
\* decision, and a request has loaded rows that are still there.
TypeOK ==
    /\ state \in States /\ txn \in TxnStatuses /\ ahead \in BOOLEAN
    /\ version \in 1..(MaxVersion + MaxDecisions) /\ facts \in Profiles /\ now \in 1..MaxTime
    /\ recs \in Seq([action : ActionTypes, confidence : 0..10000, status : ValidationStatuses,
                     prior : 0..4, number : Nat])
    /\ decisions \in Seq([key : Keys \cup {NoKey}, rec : DOMAIN recs, action : ActionTypes,
                          status : DecisionStatuses, version : Nat])
    /\ consents \in Seq(Consents)
    /\ attempts \in Seq([status : {"STARTED", "SUCCEEDED", "UNCERTAIN", "FAILED"},
                         action : {"RETRY_PAYMENT"}, at : 1..now])
    /\ \A f \in DOMAIN flows : flows[f].decision \in DOMAIN decisions
    /\ \A s \in Sessions : \A h \in held[s] :
          /\ h.now \in 1..now /\ DOMAIN h.recs \subseteq DOMAIN recs
          /\ DOMAIN h.decisions \subseteq DOMAIN decisions /\ DOMAIN h.flows \subseteq DOMAIN flows

(* One request at a time: Sessions has one element. *)

\* Nothing is approved but on a recommendation to retry that was made after at
\* most one attempt, whatever action the request proposes in its place: the
\* estimator gives nothing else the confidence the policy engine asks for.
ApprovalsRestOnRetries ==
    \A d \in DOMAIN decisions :
        decisions[d].status = "APPROVED" =>
            /\ recs[decisions[d].rec].action = "RETRY_PAYMENT"
            /\ recs[decisions[d].rec].prior <= 1

\* Between two approvals something else has moved the case: the first one moves
\* it to ACTION_PENDING, where nothing is approved, whatever keys the requests have.
ApprovalsDoNotOverlap ==
    \A d, e \in DOMAIN decisions :
        /\ d < e
        /\ decisions[d].status = "APPROVED"
        /\ decisions[e].status = "APPROVED"
        => decisions[d].version + 1 < decisions[e].version

\* A recommendation that has been refused is never approved later, in whatever
\* state the case is by then and whatever action is proposed; a review is no
\* refusal.
RefusedStaysRefused ==
    \A d, e \in DOMAIN decisions :
        /\ d < e
        /\ decisions[d].rec = decisions[e].rec
        /\ decisions[d].status = "REJECTED"
        => decisions[e].status # "APPROVED"

\* A retry is recorded only while a consent to it is granted, which was not past
\* its expiry when the retry began, though policy judged the consents at another
\* time and by another rule, and a retry may be the third of one approval.
RetriesHaveConsent ==
    [][Len(attempts') # Len(attempts) =>
          \E i \in DOMAIN consents :
              /\ consents[i].type = "RECURRING_BILLING" /\ consents[i].status = "GRANTED"
              /\ \/ consents[i].expires = NoTime
                 \/ attempts'[Len(attempts')].at <= consents[i].expires]_vars

(* Any number of requests at once. *)

\* However requests interleave, no reminder and no review is approved: what is
\* approved rests on a retry after at most one attempt, or on the STOP that was
\* recommended for a case which was final then and which a stale request reopened.
ApprovalsNeedConfidence ==
    \A d \in DOMAIN decisions :
        decisions[d].status = "APPROVED" =>
            LET r == recs[decisions[d].rec] IN
            r.action = "STOP" \/ (r.action = "RETRY_PAYMENT" /\ r.prior <= 1)

\* Retries are recorded only if the gateway declined them.  A recommendation
\* leaves the audit log ahead of the transition log, so that the move of the
\* case which a taken or an unanswered retry asks for is refused and rolls the
\* attempt back after the call.
OnlyDeclinesAreRecorded == \A i \in DOMAIN attempts : attempts[i].status = "FAILED"
=============================================================================
