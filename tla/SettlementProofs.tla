--------------------------- MODULE SettlementProofs ---------------------------
(***************************************************************************)
(* What reconciliation does to a case that waits, for any cases, batch     *)
(* limits, targets of operators and numbers of attempts, and for any       *)
(* number of requests that interleave with it.                             *)
(***************************************************************************)
EXTENDS Settlement, SequenceTheorems, TLAPS

\* What the steps rely on: functions over the cases and the threads, requests for
\* cases, and a session whose answer can be set.
Shape ==
    /\ DOMAIN state = Cases /\ DOMAIN txn = Cases
    /\ held \in [Threads -> SUBSET Loads]
    /\ "answer" \in DOMAIN session

Settled(c) == state[c] \in {"RECOVERED", "CLOSED"}

\* A request that has loaded the case in another state, and ends with this step.
StaleRequest(c) ==
    \E t \in Threads : \E h \in held[t] : h.case = c /\ h.state # state[c] /\ held'[t] = {}

\* OnlyStaleWritesTakeBack for one case.
TakenBackByStaleWrite(c) ==
    /\ txn[c] = "SUCCEEDED" /\ txn'[c] # "SUCCEEDED" =>
          TurnOf(c) /\ session.found # "SUCCEEDED"
    /\ Settled(c) /\ state'[c] # state[c] =>
          (TurnOf(c) /\ session.seen # state[c]) \/ StaleRequest(c)

\* CaseTransitionService: from a settled state it only leads to CLOSED.
LEMMA SettledLeadsToClosed ==
    ASSUME NEW s \in {"RECOVERED", "CLOSED"}
    PROVE  AllowedTransitions[s] \subseteq {"CLOSED"}
BY DEF AllowedTransitions, States

\* The move of a case leaves the others alone.
LEMMA MoveLeavesOthers ==
    ASSUME Shape, NEW c \in Cases, NEW d \in Cases, c # d, NEW to, MoveTo(d, to)
    PROVE  state'[c] = state[c]
BY DEF MoveTo, Shape

\* PaymentReconciliationService.reconcile_case: a transaction found successful
\* keeps its status.
LEMMA SuccessIsKept ==
    ASSUME NEW seen, NEW answer
    PROVE  Resolution(seen, "SUCCEEDED", answer).txn = NoState
BY DEF Resolution

\* PaymentReconciliationService.reconcile_case: a case seen settled is left, or
\* the transition service is asked for an escalation.
LEMMA SettledIsLeft ==
    ASSUME NEW seen \in {"RECOVERED", "CLOSED"}, NEW found, NEW answer
    PROVE  LET r == Resolution(seen, found, answer) IN
           r.to = NoState \/ (r.to = "ESCALATED" /\ r.service)
BY DEF Resolution, NoState

\* PaymentReconciliationService: the end of a turn.
LEMMA TurnEnds ==
    ASSUME Shape, Act
    PROVE  session.answer # "none" /\ session' # session
<1>1. Idle.answer = "none" /\ Continued.answer = "none"
  BY DEF Idle, Continued
<1>2. session' = Idle \/ session' = Continued
  BY DEF Act, Ended
<1>3. QED
  BY <1>1, <1>2 DEF Act

\* PolicyEngineService._determine_fsm_transition: a case loaded in a terminal state
\* is left there, and another gets a state of the machine.
LEMMA PolicyTargetMeans ==
    ASSUME NEW v, NEW final, NEW st \in States
    PROVE  /\ PolicyTarget(v, final, st) \in States
           /\ PolicyTarget(v, final, st) # st => st \notin TerminalStates
BY DEF PolicyTarget, States, ActionableStates, TerminalStates

\* A request that moves its case, and had loaded it in a state that is not settled.
LEMMA RequestTakesBack ==
    ASSUME Shape, NEW t \in Threads, NEW h \in held[t], NEW c \in Cases,
           h.state \notin {"RECOVERED", "CLOSED"}, Ends(t),
           UNCHANGED state \/ (\E to : MoveTo(h.case, to)),
           txn' \in {txn, [txn EXCEPT ![h.case] = "SUCCEEDED"]}
    PROVE  TakenBackByStaleWrite(c)
<1>1. h.case \in Cases /\ held'[t] = {}
  BY DEF Shape, Loads, Ends
<1>2. txn[c] = "SUCCEEDED" => txn'[c] = "SUCCEEDED"
  BY <1>1 DEF Shape
<1>3. ASSUME Settled(c), state'[c] # state[c]
      PROVE  StaleRequest(c)
  <2>1. h.case = c
    BY <1>1, <1>3, MoveLeavesOthers
  <2>2. h.state # state[c]
    BY <1>3 DEF Settled
  <2>3. QED
    BY <1>1, <2>1, <2>2 DEF StaleRequest
<1>4. QED
  BY <1>2, <1>3 DEF TakenBackByStaleWrite

\* The steps of a thread.
LEMMA ServeTakesBackStale ==
    ASSUME Shape, NEW t \in Threads, Serve(t), NEW c \in Cases
    PROVE  TakenBackByStaleWrite(c)
<1>1. CASE (\E d \in Cases : Load(t, d)) \/ RollBack(t)
  BY <1>1 DEF Load, RollBack, recorded, TakenBackByStaleWrite
<1>2. ASSUME NEW h \in held[t], RunAgent(t, h)
      PROVE  TakenBackByStaleWrite(c)
  <2>1. CanMove(h, "CONTEXT_READY") /\ UNCHANGED txn /\ Ends(t) /\ \E to : MoveTo(h.case, to)
    BY <1>2 DEF RunAgent
  <2>2. h.state \notin {"RECOVERED", "CLOSED"}
    BY <2>1, SettledLeadsToClosed DEF CanMove
  <2>3. QED
    BY <2>1, <2>2, RequestTakesBack
<1>3. ASSUME NEW h \in held[t], EvaluatePolicy(t, h)
      PROVE  TakenBackByStaleWrite(c)
  <2>1. h.state \in States
    BY DEF Shape, Loads
  <2>2. /\ UNCHANGED txn /\ Ends(t)
        /\ \E v, final : PolicyTarget(v, final, h.state) # h.state
                         /\ MoveTo(h.case, PolicyTarget(v, final, h.state))
    BY <1>3, Zenon DEF EvaluatePolicy
  <2>3. h.state \notin {"RECOVERED", "CLOSED"} /\ \E to : MoveTo(h.case, to)
    BY <2>1, <2>2, PolicyTargetMeans DEF TerminalStates
  <2>4. QED
    BY <2>2, <2>3, RequestTakesBack
<1>4. ASSUME NEW h \in held[t], DispatchRetry(t, h)
      PROVE  TakenBackByStaleWrite(c)
  <2>1. /\ h.state = "ACTION_PENDING" /\ UNCHANGED txn /\ Ends(t)
        /\ UNCHANGED state \/ \E to : MoveTo(h.case, to)
    BY <1>4, Zenon DEF DispatchRetry
  <2>2. QED
    BY <2>1, RequestTakesBack
<1>5. ASSUME NEW h \in held[t], Operate(t, h)
      PROVE  TakenBackByStaleWrite(c)
  <2>1. /\ h.state \notin {"RECOVERED", "CLOSED"} /\ UNCHANGED txn /\ Ends(t)
        /\ \E to : MoveTo(h.case, to)
    BY <1>5 DEF Operate, TerminalStates
  <2>2. QED
    BY <2>1, RequestTakesBack
<1>6. ASSUME NEW h \in held[t], Noted(t, h)
      PROVE  TakenBackByStaleWrite(c)
  BY <1>6 DEF Noted, TakenBackByStaleWrite
<1>7. ASSUME NEW h \in held[t], ReportSuccess(t, h)
      PROVE  TakenBackByStaleWrite(c)
  <2>1. /\ h.state \notin {"RECOVERED", "CLOSED"} /\ Ends(t)
        /\ txn' \in {txn, [txn EXCEPT ![h.case] = "SUCCEEDED"]}
        /\ \E to : MoveTo(h.case, to)
    BY <1>7 DEF ReportSuccess, TerminalStates
  <2>2. QED
    BY <2>1, RequestTakesBack
<1>8. QED
  BY <1>1, <1>2, <1>3, <1>4, <1>5, <1>6, <1>7 DEF Serve

\* Every step: a payment booked as successful, and a settled case, are taken
\* back by no one but a stale turn or request.
LEMMA StepTakesBackStale ==
    ASSUME Shape, [Next]_vars, NEW c \in Cases
    PROVE  TakenBackByStaleWrite(c)
<1> USE DEF Shape
<1>1. ASSUME NEW t \in Threads, Serve(t)
      PROVE  TakenBackByStaleWrite(c)
  BY <1>1, ServeTakesBackStale
<1>2. ASSUME NEW d \in Cases, PaymentMoves(d)
      PROVE  TakenBackByStaleWrite(c)
  BY <1>2 DEF PaymentMoves, recorded, TakenBackByStaleWrite
<1>3. ASSUME NEW d \in Cases, NEW resolve \in BOOLEAN, StartSingle(d, resolve)
      PROVE  TakenBackByStaleWrite(c)
  BY <1>3 DEF StartSingle, recorded, TakenBackByStaleWrite
<1>4. CASE StartBatch \/ Ask \/ Break
  BY <1>4 DEF StartBatch, Ask, Break, recorded, TakenBackByStaleWrite
<1>5. CASE Act
  <2> DEFINE h == Head(session.todo)
             r == IF session.resolve
                  THEN Resolution(session.seen, session.found, session.answer) ELSE Unresolved
  <2>1. \/ UNCHANGED <<state, txn>>
        \/ /\ ~Refused(h, r)
           /\ UNCHANGED state \/ (r.to # NoState /\ MoveTo(h, r.to))
           /\ UNCHANGED txn \/ (r.txn # NoState /\ txn' = [txn EXCEPT ![h] = r.txn])
    BY <1>5 DEF Act
  <2>2. CASE UNCHANGED <<state, txn>>
    BY <2>2 DEF TakenBackByStaleWrite
  <2>3. CASE /\ ~Refused(h, r)
             /\ UNCHANGED state \/ (r.to # NoState /\ MoveTo(h, r.to))
             /\ UNCHANGED txn \/ (r.txn # NoState /\ txn' = [txn EXCEPT ![h] = r.txn])
    <3>1. ASSUME txn[c] = "SUCCEEDED", txn'[c] # "SUCCEEDED"
          PROVE  TurnOf(c) /\ session.found # "SUCCEEDED"
      <4>1. c = h /\ r.txn # NoState
        BY <2>3, <3>1
      <4>2. session.found # "SUCCEEDED"
        BY <4>1, SuccessIsKept DEF Unresolved
      <4>3. QED
        BY <1>5, <4>1, <4>2, TurnEnds DEF TurnOf
    <3>2. ASSUME Settled(c), state'[c] # state[c]
          PROVE  TurnOf(c) /\ session.seen # state[c]
      <4>1. r.to # NoState /\ MoveTo(h, r.to)
        BY <2>3, <3>2
      <4>2. c = h
        BY <4>1, <3>2 DEF MoveTo
      <4>3. ASSUME session.seen \in {"RECOVERED", "CLOSED"}
            PROVE  FALSE
        <5>1. r.to = "ESCALATED" /\ r.service
          BY <4>1, <4>3, SettledIsLeft DEF Unresolved
        <5>2. "ESCALATED" \notin AllowedTransitions[session.seen]
          BY <4>3, SettledLeadsToClosed
        <5>3. QED
          BY <2>3, <4>1, <5>1, <5>2 DEF Refused
      <4>4. QED
        BY <1>5, <3>2, <4>2, <4>3, TurnEnds DEF TurnOf, Settled
    <3>3. QED
      BY <3>1, <3>2 DEF TakenBackByStaleWrite
  <2>4. QED
    BY <2>1, <2>2, <2>3
<1>6. CASE UNCHANGED vars
  BY <1>6 DEF vars, recorded, TakenBackByStaleWrite
<1>7. QED
  BY <1>1, <1>2, <1>3, <1>4, <1>5, <1>6 DEF Next

-----------------------------------------------------------------------------
(* The states of the program.  Between its steps a session knows of its first *)
(* case what it has asked, and nothing takes that back: the audit log stays   *)
(* ahead, a captured payment is at most refunded, an attempt remains made.    *)

Responses == {"SUBMITTED", "PENDING", "SUCCEEDED", "FAILED", "CANCELLED", "UNKNOWN"}

Sessions ==
    [todo : Seq(Cases), seen : States \cup {NoState}, resolve : BOOLEAN,
     found : TxnStatuses \cup {"none"}, answer : Responses \cup {"none"}, stuck : SUBSET Cases]

\* The queue holds the cases that wait, each once.
QueueOK ==
    /\ queue \in Seq(Cases) /\ IsInjective(queue)
    /\ ToSet(queue) = {c \in Cases : state[c] = "VERIFICATION_PENDING"}

\* A session is idle, or has cases before it and has read the state of the first.
SessionOK ==
    /\ session \in Sessions /\ Len(session.todo) <= Limit
    /\ session.todo = <<>> <=> session = Idle
    /\ session.todo # <<>> => session.seen \in States
    /\ session.answer # "none" => session.found \in TxnStatuses

\* Every case has its fields.
CasesOK ==
    /\ live \in BOOLEAN
    /\ state \in [Cases -> States] /\ txn \in [Cases -> TxnStatuses] /\ ahead \in [Cases -> BOOLEAN]
    /\ own \in [Cases -> PaymentNames] /\ payment \in [Cases -> GatewayStatuses]
    /\ ref \in [Cases -> References] /\ tried \in [Cases -> 0..MaxAttempts]
    /\ looked \subseteq Cases

\* A thread serves one request at a time, for a case.
HeldOK ==
    held \in [Threads -> SUBSET Loads] /\ \A t \in Threads : \A g, h \in held[t] : g = h

\* A look that leaves a case waiting writes the audit event.
LookedAhead == \A c \in looked : ahead[c]

\* A reference is the answer to a retry.
ReferenceOK(c) == ref[c] # "none" => tried[c] > 0

\* What a success rests on.
Earned(c) ==
    IF live THEN own[c] # "none" /\ payment[c] \in {"captured", "refunded"}
    ELSE tried[c] > 0 \/ own[c] = "succ"

AnswerEarned == session.answer = "SUCCEEDED" => Earned(Head(session.todo))

\* A batch that began with a stuck case is at that case, and will be refused.
StuckFirst ==
    \A c \in session.stuck :
        /\ session.todo # <<>> /\ c = Head(session.todo) /\ ahead[c]
        /\ session.seen = "VERIFICATION_PENDING" /\ session.resolve
        /\ session.answer \in {"none", "UNKNOWN"}

SInv ==
    /\ CasesOK /\ QueueOK /\ SessionOK /\ HeldOK
    /\ LookedAhead /\ AnswerEarned /\ StuckFirst
    /\ \A c \in Cases : ReferenceOK(c)

\* PaymentReconciliationService.reconcile_pending_cases selects the cases that wait:
\* the queue without one of them.
LEMMA OthersMeans ==
    ASSUME queue \in Seq(Cases), IsInjective(queue), NEW c
    PROVE  /\ Others(c) \in Seq(Cases) /\ IsInjective(Others(c))
           /\ ToSet(Others(c)) = ToSet(queue) \ {c}
<1>1. CASE ~\E i \in DOMAIN queue : queue[i] = c
  BY <1>1 DEF Others, ToSet
<1>2. CASE \E i \in DOMAIN queue : queue[i] = c
  <2> DEFINE k == CHOOSE i \in DOMAIN queue : queue[i] = c
             n == Len(queue)
             s == RemoveAt(queue, k)
  <2>1. k \in 1..n /\ queue[k] = c /\ n \in Nat
    BY <1>2
  <2>2. Others(c) = s
    BY <1>2 DEF Others
  <2> HIDE DEF k
  <2>3. /\ s \in Seq(Cases) /\ Len(s) = n - 1
        /\ \A i \in 1..(n - 1) : s[i] = IF i < k THEN queue[i] ELSE queue[i + 1]
    <3> DEFINE a == SubSeq(queue, 1, k - 1)
               b == SubSeq(queue, k + 1, n)
    <3>1. a \in Seq(Cases) /\ Len(a) = k - 1 /\ \A i \in 1..(k - 1) : a[i] = queue[i]
      BY <2>1
    <3>2. b \in Seq(Cases) /\ Len(b) = n - k /\ \A i \in 1..(n - k) : b[i] = queue[k + i]
      BY <2>1
    <3>3. s = a \o b
      BY DEF RemoveAt
    <3> HIDE DEF a, b, s
    <3>4. /\ a \o b \in Seq(Cases) /\ Len(a \o b) = Len(a) + Len(b)
          /\ \A i \in 1..(Len(a) + Len(b)) : (a \o b)[i] = IF i <= Len(a) THEN a[i] ELSE b[i - Len(a)]
      BY <3>1, <3>2, ConcatProperties
    <3>5. s \in Seq(Cases) /\ Len(s) = n - 1
      BY <3>1, <3>2, <3>3, <3>4, <2>1
    <3>6. ASSUME NEW i \in 1..(n - 1)
          PROVE  s[i] = IF i < k THEN queue[i] ELSE queue[i + 1]
      <4>1. s[i] = IF i <= k - 1 THEN a[i] ELSE b[i - (k - 1)]
        BY <3>1, <3>2, <3>3, <3>4, <2>1
      <4>2. CASE i < k
        BY <4>1, <4>2, <3>1, <2>1
      <4>3. CASE ~(i < k)
        <5>1. i - (k - 1) \in 1..(n - k) /\ k + (i - (k - 1)) = i + 1
          BY <4>3, <2>1
        <5>2. b[i - (k - 1)] = queue[i + 1]
          BY <5>1, <3>2
        <5>3. ~(i <= k - 1)
          BY <4>3, <2>1
        <5>4. QED
          BY <4>1, <4>3, <5>2, <5>3
      <4>4. QED
        BY <4>2, <4>3
    <3>7. QED
      BY <3>5, <3>6
  <2> HIDE DEF s
  <2>4. IsInjective(s)
    BY <2>1, <2>3 DEF IsInjective
  <2>5. ToSet(s) = ToSet(queue) \ {c}
    <3>1. ASSUME NEW x \in ToSet(s)
          PROVE  x \in ToSet(queue) \ {c}
      <4>1. PICK i \in 1..(n - 1) : x = s[i]
        BY <2>3 DEF ToSet
      <4>2. PICK j \in 1..n : x = queue[j] /\ j # k
        BY <4>1, <2>1, <2>3
      <4>3. QED
        BY <4>2, <2>1 DEF ToSet, IsInjective
    <3>2. ASSUME NEW x \in ToSet(queue) \ {c}
          PROVE  x \in ToSet(s)
      <4>1. PICK i \in 1..n : x = queue[i]
        BY DEF ToSet
      <4>2. i # k
        BY <4>1, <2>1
      <4>3. \E j \in 1..(n - 1) : x = s[j]
        <5>1. CASE i < k
          BY <5>1, <4>1, <2>1, <2>3
        <5>2. CASE i > k
          <6>1. i - 1 \in 1..(n - 1) /\ s[i - 1] = queue[i]
            BY <5>2, <2>1, <2>3
          <6>2. QED
            BY <6>1, <4>1
        <5>3. QED
          BY <5>1, <5>2, <4>2, <2>1
      <4>4. QED
        BY <4>3, <2>3 DEF ToSet
    <3>3. QED
      BY <3>1, <3>2
  <2>6. QED
    BY <2>2, <2>3, <2>4, <2>5
<1>3. QED
  BY <1>1, <1>2

\* RecoveryCase.last_state_changed_at orders the cases that wait: one that is
\* appended comes last, and the cases stay apart.
LEMMA AppendMeans ==
    ASSUME NEW s \in Seq(Cases), IsInjective(s), NEW c \in Cases, c \notin ToSet(s)
    PROVE  /\ Append(s, c) \in Seq(Cases) /\ IsInjective(Append(s, c))
           /\ ToSet(Append(s, c)) = ToSet(s) \cup {c}
<1> DEFINE t == Append(s, c)
           n == Len(s)
<1>1. /\ n \in Nat /\ t \in Seq(Cases) /\ Len(t) = n + 1
      /\ \A i \in 1..n : t[i] = s[i]
      /\ t[n + 1] = c
  OBVIOUS
<1>2. \A i \in 1..n : s[i] # c
  BY <1>1 DEF ToSet
<1> HIDE DEF t
<1>3. IsInjective(t)
  BY <1>1, <1>2 DEF IsInjective
<1>4. ToSet(t) = ToSet(s) \cup {c}
  <2>1. ASSUME NEW x \in ToSet(t)
        PROVE  x \in ToSet(s) \cup {c}
    <3>1. PICK i \in 1..(n + 1) : x = t[i]
      BY <1>1 DEF ToSet
    <3>2. QED
      BY <3>1, <1>1 DEF ToSet
  <2>2. ASSUME NEW x \in ToSet(s)
        PROVE  x \in ToSet(t)
    <3>1. PICK i \in 1..n : x = s[i]
      BY DEF ToSet
    <3>2. QED
      BY <3>1, <1>1 DEF ToSet
  <2>3. c \in ToSet(t)
    BY <1>1 DEF ToSet
  <2>4. QED
    BY <2>1, <2>2, <2>3
<1>5. QED
  BY <1>1, <1>3, <1>4 DEF t

\* Every move of a case: the queue holds the cases that wait.
LEMMA MoveKeepsQueue ==
    ASSUME CasesOK, QueueOK, NEW c \in Cases, NEW to \in States, MoveTo(c, to)
    PROVE  state' \in [Cases -> States] /\ QueueOK'
<1>1. state' \in [Cases -> States] /\ state' = [state EXCEPT ![c] = to]
  BY DEF MoveTo, CasesOK
<1>2. /\ queue \in Seq(Cases) /\ IsInjective(queue)
      /\ ToSet(queue) = {x \in Cases : state[x] = "VERIFICATION_PENDING"}
  BY DEF QueueOK
<1> DEFINE W == {x \in Cases : state'[x] = "VERIFICATION_PENDING"}
<1>3. CASE to # "VERIFICATION_PENDING"
  <2>1. queue' = Others(c)
    BY <1>3 DEF MoveTo
  <2>2. W = ToSet(queue) \ {c}
    BY <1>1, <1>2, <1>3 DEF CasesOK
  <2>3. QED
    BY <1>1, <1>2, <2>1, <2>2, OthersMeans DEF QueueOK
<1>4. CASE to = "VERIFICATION_PENDING"
  <2>1. queue' = Append(Others(c), c)
    BY <1>4 DEF MoveTo
  <2>2. W = (ToSet(queue) \ {c}) \cup {c}
    BY <1>1, <1>2, <1>4 DEF CasesOK
  <2>3. /\ Others(c) \in Seq(Cases) /\ IsInjective(Others(c))
        /\ ToSet(Others(c)) = ToSet(queue) \ {c}
    BY <1>2, OthersMeans
  <2>4. /\ queue' \in Seq(Cases) /\ IsInjective(queue')
        /\ ToSet(queue') = (ToSet(queue) \ {c}) \cup {c}
    BY <2>1, <2>3, AppendMeans
  <2>5. QED
    BY <1>1, <2>2, <2>4 DEF QueueOK
<1>5. QED
  BY <1>3, <1>4

\* VerticalRecoveryWorkflow.run: it leaves a case in a state of the machine.
LEMMA AgentOutcomeMeans ==
    ASSUME NEW d \in Decisions, NEW status, NEW retries \in Nat
    PROVE  AgentOutcome(d, status, retries) \in {"STOPPED", "ESCALATED", "VERIFICATION_PENDING"}
<1> DEFINE x == [state |-> "AWAITING_DECISION", txn |-> status, action |-> d.action,
                 retries |-> retries, uncertain |-> FALSE, duplicate |-> FALSE]
<1>1. Verdict(x) \in {"STOP", "REJECT", "ESCALATE", "ALLOW"}
  <2> HIDE DEF x
  <2>1. QED
    BY DEF Verdict
<1>2. QED
  BY <1>1 DEF AgentOutcome

\* What the rest of the program leaves to a session in progress: what it has loaded
\* is its own, the audit log does not fall back, attempts stay made and a captured
\* payment is at most refunded.
Later ==
    /\ session' = session /\ looked' = looked /\ live' = live /\ own' = own
    /\ \A c \in Cases :
          /\ ahead[c] => ahead'[c]
          /\ tried[c] > 0 => tried'[c] > 0
          /\ payment[c] \in {"captured", "refunded"} => payment'[c] \in {"captured", "refunded"}

CaseStep == CasesOK' /\ QueueOK' /\ HeldOK' /\ Later /\ (\A c \in Cases : ReferenceOK(c)')

\* A request loads its case, or ends.
LEMMA LoadKeepsHeld ==
    ASSUME CasesOK, HeldOK, NEW t \in Threads, NEW c \in Cases, Load(t, c)
    PROVE  HeldOK'
<1> DEFINE h == [case |-> c, state |-> state[c], txn |-> txn[c]]
<1>1. h \in Loads
  BY DEF CasesOK, Loads
<1>2. held' = [held EXCEPT ![t] = {h}]
  BY DEF Load
<1> HIDE DEF h
<1>3. QED
  BY <1>1, <1>2 DEF HeldOK

LEMMA EndsMeans ==
    ASSUME HeldOK, NEW t \in Threads, Ends(t)
    PROVE  HeldOK' /\ UNCHANGED <<live, own, payment, looked, session>>
BY DEF HeldOK, Ends

\* VerticalRecoveryWorkflow.run.
LEMMA AgentKeeps ==
    ASSUME SInv, NEW t \in Threads, NEW h \in held[t], RunAgent(t, h)
    PROVE  CaseStep
<1> DEFINE c == h.case
<1>0. c \in Cases /\ h.txn \in TxnStatuses
  BY DEF SInv, HeldOK, Loads
<1>1. PICK to : /\ to \in {AgentOutcome(d, h.txn, tried[c]) : d \in Accepted}
                /\ to = "VERIFICATION_PENDING" => tried[c] < MaxAttempts
                /\ MoveTo(c, to)
                /\ tried' = [tried EXCEPT ![c] = IF to = "VERIFICATION_PENDING" THEN @ + 1 ELSE @]
  BY Zenon DEF RunAgent
<1> HIDE DEF c
<1>2. tried[c] \in 0..MaxAttempts /\ MaxAttempts \in Nat
  BY <1>0, SettlementAssumption DEF SInv, CasesOK
<1>3. to \in States
  <2>1. \A d \in Accepted : AgentOutcome(d, h.txn, tried[c]) \in States
    BY <1>2, AgentOutcomeMeans DEF Accepted, States
  <2>2. QED
    BY <1>1, <2>1
<1>4. HeldOK' /\ UNCHANGED <<live, txn, ahead, own, payment, ref, looked, session>>
  BY EndsMeans DEF RunAgent, SInv
<1>5. state' \in [Cases -> States] /\ QueueOK'
  BY <1>0, <1>1, <1>3, MoveKeepsQueue DEF SInv
<1>6. /\ tried' \in [Cases -> 0..MaxAttempts]
      /\ \A x \in Cases : tried'[x] >= tried[x]
  BY <1>0, <1>1, <1>2 DEF SInv, CasesOK
<1>7. CasesOK'
  BY <1>4, <1>5, <1>6 DEF SInv, CasesOK
<1>8. Later
  BY <1>4, <1>6 DEF Later, SInv, CasesOK
<1>9. \A x \in Cases : ReferenceOK(x)'
  BY <1>4, <1>6 DEF ReferenceOK, SInv, CasesOK
<1>10. QED
  BY <1>4, <1>5, <1>7, <1>8, <1>9 DEF CaseStep

\* ExecutionService, _execute_dispatch_payment_retry.
LEMMA RetryKeeps ==
    ASSUME SInv, NEW t \in Threads, NEW h \in held[t], DispatchRetry(t, h)
    PROVE  CaseStep
<1> DEFINE c == h.case
<1>0. c \in Cases
  BY DEF SInv, HeldOK, Loads
<1>1. PICK a \in SubmitAnswers :
          /\ UNCHANGED <<state, queue>> \/ MoveTo(c, AnswerState[a[1]])
          /\ ref' = [ref EXCEPT ![c] = a[2]]
  BY Zenon DEF DispatchRetry
<1>2. /\ tried' = [tried EXCEPT ![c] = @ + 1] /\ tried[c] < MaxAttempts
      /\ HeldOK' /\ UNCHANGED <<live, txn, ahead, own, payment, looked, session>>
  BY EndsMeans DEF DispatchRetry, SInv
<1> HIDE DEF c
<1>3. tried[c] \in 0..MaxAttempts /\ MaxAttempts \in Nat
  BY <1>0, SettlementAssumption DEF SInv, CasesOK
<1>4. AnswerState[a[1]] \in States /\ a[2] \in References
  BY DEF SubmitAnswers, LiveSubmits, SimulatedSubmits, AnswerState, States, References, PaymentNames
<1>5. state' \in [Cases -> States] /\ QueueOK'
  <2>1. CASE UNCHANGED <<state, queue>>
    BY <2>1 DEF SInv, CasesOK, QueueOK
  <2>2. CASE MoveTo(c, AnswerState[a[1]])
    BY <2>2, <1>0, <1>4, MoveKeepsQueue DEF SInv
  <2>3. QED
    BY <2>1, <2>2, <1>1
<1>6. /\ tried' \in [Cases -> 0..MaxAttempts] /\ tried'[c] > 0
      /\ \A x \in Cases : tried'[x] >= tried[x]
  BY <1>0, <1>2, <1>3 DEF SInv, CasesOK
<1>7. ref' \in [Cases -> References]
  BY <1>1, <1>4 DEF SInv, CasesOK
<1>8. CasesOK'
  BY <1>2, <1>5, <1>6, <1>7 DEF SInv, CasesOK
<1>9. Later
  BY <1>2, <1>6 DEF Later, SInv, CasesOK
<1>10. \A x \in Cases : ReferenceOK(x)'
  <2> TAKE x \in Cases
  <2>1. CASE x = c
    BY <2>1, <1>1, <1>2, <1>4, <1>6 DEF ReferenceOK, SInv, CasesOK
  <2>2. CASE x # c
    BY <2>2, <1>1, <1>2, <1>6 DEF ReferenceOK, SInv, CasesOK
  <2>3. QED
    BY <2>1, <2>2
<1>11. QED
  BY <1>2, <1>5, <1>8, <1>9, <1>10 DEF CaseStep

\* PolicyEngineService, operators and payment.succeeded events: a move with nothing
\* but the status of the transaction beside it.
LEMMA PlainMoveKeeps ==
    ASSUME SInv, NEW t \in Threads, NEW h \in held[t], NEW to \in States, MoveTo(h.case, to),
           txn' \in {txn, [txn EXCEPT ![h.case] = "SUCCEEDED"]},
           Ends(t), UNCHANGED <<ahead, ref, tried>>
    PROVE  CaseStep
<1>1. h.case \in Cases
  BY DEF SInv, HeldOK, Loads
<1>2. state' \in [Cases -> States] /\ QueueOK'
  BY <1>1, MoveKeepsQueue DEF SInv
<1>3. txn' \in [Cases -> TxnStatuses]
  BY <1>1 DEF SInv, CasesOK, TxnStatuses
<1>4. HeldOK' /\ UNCHANGED <<live, own, payment, looked, session>>
  BY EndsMeans DEF SInv
<1>5. CasesOK'
  BY <1>2, <1>3, <1>4 DEF SInv, CasesOK
<1>6. Later /\ \A x \in Cases : ReferenceOK(x)'
  BY <1>4 DEF Later, ReferenceOK, SInv
<1>7. QED
  BY <1>2, <1>4, <1>5, <1>6 DEF CaseStep

\* CaseAuditService and RecoveryCaseService: the audit log goes ahead, and the case
\* may become the youngest of those that wait.
LEMMA NotedKeeps ==
    ASSUME SInv, NEW t \in Threads, NEW h \in held[t], Noted(t, h)
    PROVE  CaseStep
<1> DEFINE c == h.case
<1>0. c \in Cases
  BY DEF SInv, HeldOK, Loads
<1>1. /\ ahead' = [ahead EXCEPT ![c] = TRUE]
      /\ queue' \in {queue, IF c \in ToSet(queue) THEN Append(Others(c), c) ELSE queue}
      /\ HeldOK' /\ UNCHANGED <<live, state, txn, own, payment, ref, tried, looked, session>>
  BY EndsMeans DEF Noted, SInv
<1> HIDE DEF c
<1>2. QueueOK'
  <2> DEFINE W == {x \in Cases : state[x] = "VERIFICATION_PENDING"}
  <2>1. queue \in Seq(Cases) /\ IsInjective(queue) /\ ToSet(queue) = W
    BY DEF SInv, QueueOK
  <2> HIDE DEF W
  <2>2. CASE queue' = queue
    BY <2>1, <2>2, <1>1 DEF QueueOK, W
  <2>3. CASE c \in ToSet(queue) /\ queue' = Append(Others(c), c)
    <3>1. /\ Others(c) \in Seq(Cases) /\ IsInjective(Others(c))
          /\ ToSet(Others(c)) = W \ {c}
      BY <2>1, OthersMeans
    <3>2. /\ queue' \in Seq(Cases) /\ IsInjective(queue')
          /\ ToSet(queue') = (W \ {c}) \cup {c}
      BY <1>0, <2>3, <3>1, AppendMeans
    <3>3. (W \ {c}) \cup {c} = W
      BY <2>1, <2>3
    <3>4. QED
      BY <3>2, <3>3, <1>1 DEF QueueOK, W
  <2>4. QED
    BY <2>2, <2>3, <1>1
<1>3. CasesOK'
  BY <1>1 DEF SInv, CasesOK
<1>4. Later /\ \A x \in Cases : ReferenceOK(x)'
  BY <1>0, <1>1 DEF Later, ReferenceOK, SInv, CasesOK
<1>5. QED
  BY <1>1, <1>2, <1>3, <1>4 DEF CaseStep

\* A payment goes on at the gateway.
LEMMA PaymentKeeps ==
    ASSUME SInv, NEW c \in Cases, PaymentMoves(c)
    PROVE  CaseStep
<1>1. PICK s \in GatewayStatuses :
          <<payment[c], s>> \in PaymentSteps /\ payment' = [payment EXCEPT ![c] = s]
  BY DEF PaymentMoves
<1>2. UNCHANGED <<live, state, txn, ahead, queue, own, ref, tried, looked, session, held>>
  BY DEF PaymentMoves, recorded
<1>3. payment[c] \in {"captured", "refunded"} => s \in {"captured", "refunded"}
  BY <1>1 DEF PaymentSteps
<1>4. CasesOK'
  BY <1>1, <1>2 DEF SInv, CasesOK
<1>5. QueueOK'
  BY <1>2 DEF SInv, QueueOK
<1>6. Later
  BY <1>1, <1>2, <1>3 DEF Later, SInv, CasesOK
<1>7. \A x \in Cases : ReferenceOK(x)'
  BY <1>2 DEF ReferenceOK, SInv
<1>8. HeldOK'
  BY <1>2 DEF SInv, HeldOK
<1>9. QED
  BY <1>4, <1>5, <1>6, <1>7, <1>8 DEF CaseStep

\* A request that begins, or is rolled back, leaves everything else.
LEMMA IdleRequestKeeps ==
    ASSUME SInv, NEW t \in Threads, (\E c \in Cases : Load(t, c)) \/ RollBack(t)
    PROVE  CaseStep
<1>1. UNCHANGED <<live, state, txn, ahead, queue, own, payment, ref, tried, looked, session>>
  BY DEF Load, RollBack, Ends, recorded
<1>2. HeldOK'
  BY LoadKeepsHeld, EndsMeans DEF SInv, RollBack
<1>3. CasesOK' /\ QueueOK' /\ Later /\ \A x \in Cases : ReferenceOK(x)'
  BY <1>1 DEF SInv, CasesOK, QueueOK, Later, ReferenceOK
<1>4. QED
  BY <1>2, <1>3 DEF CaseStep

\* Whatever happens to a case beside a session leaves the session what it knows.
LEMMA CaseStepKeeps ==
    ASSUME SInv, CaseStep
    PROVE  SInv'
<1> USE DEF CaseStep, Later
<1>1. SessionOK'
  BY DEF SInv, SessionOK
<1>2. LookedAhead'
  BY DEF SInv, LookedAhead, CasesOK
<1>3. AnswerEarned'
  <2> DEFINE h == Head(session.todo)
  <2>1. SUFFICES ASSUME session.answer = "SUCCEEDED"
                 PROVE  Earned(h)'
    BY DEF AnswerEarned
  <2>2. session # Idle /\ session.todo # <<>>
    BY <2>1 DEF Idle, SInv, SessionOK
  <2>3. h \in Cases
    BY <2>2 DEF SInv, SessionOK, Sessions
  <2>4. Earned(h)
    BY <2>1 DEF SInv, AnswerEarned
  <2>5. QED
    BY <2>3, <2>4 DEF Earned, SInv, CasesOK
<1>4. StuckFirst'
  BY DEF SInv, StuckFirst, SessionOK, Sessions
<1>5. QED
  BY <1>1, <1>2, <1>3, <1>4 DEF SInv

\* A session that has not begun.
LEMMA IdleMeans ==
    /\ Idle \in Sessions /\ Idle.todo = <<>> /\ Idle.answer = "none" /\ Idle.stuck = {}
BY DEF Idle, Sessions

\* A session that is idle knows nothing.
LEMMA IdleKeeps ==
    ASSUME SInv, session' = Idle, UNCHANGED <<live, own, payment, ref, tried, held>>,
           CasesOK', QueueOK', LookedAhead'
    PROVE  SInv'
<1>1. SessionOK'
  <2>1. Len(Idle.todo) = 0 /\ Limit \in Nat
    BY IdleMeans, SettlementAssumption
  <2>2. QED
    BY <2>1, IdleMeans DEF SessionOK
<1>2. AnswerEarned' /\ StuckFirst'
  BY IdleMeans DEF AnswerEarned, StuckFirst
<1>3. HeldOK' /\ \A c \in Cases : ReferenceOK(c)'
  BY DEF SInv, ReferenceOK, HeldOK
<1>4. QED
  BY <1>1, <1>2, <1>3 DEF SInv

\* PaymentReconciliationService.reconcile_pending_cases: the cases are loaded.
LEMMA BatchKeeps ==
    ASSUME SInv, StartBatch
    PROVE  SInv'
<1>1. /\ UNCHANGED <<live, state, txn, ahead, queue, own, payment, ref, tried, looked, held>>
      /\ queue # <<>> /\ queue \in Seq(Cases)
  BY DEF StartBatch, recorded, SInv, QueueOK
<1> DEFINE m == Least(Limit, Len(queue))
           t == SubSeq(queue, 1, m)
           k == {c \in {queue[1]} : Stuck(c)}
<1>2. m \in 1..Limit /\ m <= Len(queue)
  BY <1>1, SettlementAssumption DEF Least
<1>3. t \in Seq(Cases) /\ Len(t) = m /\ t[1] = queue[1]
  BY <1>1, <1>2, SettlementAssumption
<1>4. t # <<>> /\ Head(t) = queue[1] /\ queue[1] \in Cases
  BY <1>1, <1>2, <1>3
<1>5. session' = [Idle EXCEPT !.todo = t, !.seen = "VERIFICATION_PENDING", !.stuck = k]
  BY DEF StartBatch
<1> HIDE DEF m, t
<1>6. /\ session'.todo = t /\ session'.seen = "VERIFICATION_PENDING" /\ session'.resolve = TRUE
      /\ session'.answer = "none" /\ session'.stuck = k
      /\ session' \in Sessions
  BY <1>3, <1>4, <1>5 DEF Idle, Sessions, States
<1>7. SessionOK'
  BY <1>2, <1>3, <1>4, <1>6, IdleMeans, SettlementAssumption DEF SessionOK, States
<1>8. StuckFirst'
  BY <1>1, <1>4, <1>6 DEF StuckFirst, Stuck
<1>9. AnswerEarned'
  BY <1>6 DEF AnswerEarned
<1>10. CasesOK' /\ QueueOK' /\ HeldOK' /\ LookedAhead' /\ \A c \in Cases : ReferenceOK(c)'
  BY <1>1 DEF SInv, CasesOK, QueueOK, HeldOK, LookedAhead, ReferenceOK
<1>11. QED
  BY <1>7, <1>8, <1>9, <1>10 DEF SInv

\* PaymentReconciliationService.reconcile_case on request.
LEMMA SingleKeeps ==
    ASSUME SInv, NEW c \in Cases, NEW resolve \in BOOLEAN, StartSingle(c, resolve)
    PROVE  SInv'
<1>1. /\ UNCHANGED <<live, state, txn, ahead, queue, own, payment, ref, tried, looked, held>>
      /\ session' = [Idle EXCEPT !.todo = <<c>>, !.seen = state[c], !.resolve = resolve]
  BY DEF StartSingle, recorded
<1>2. state[c] \in States
  BY DEF SInv, CasesOK
<1> DEFINE t == <<c>>
<1>3. t \in Seq(Cases) /\ Len(t) = 1 /\ t # <<>>
  OBVIOUS
<1> HIDE DEF t
<1>4. /\ session'.todo = t /\ session'.seen = state[c] /\ session'.answer = "none"
      /\ session'.stuck = {} /\ session' \in Sessions
  BY <1>1, <1>2, <1>3 DEF Idle, Sessions, t
<1>5. SessionOK'
  <2>1. Len(t) <= Limit
    BY <1>3, SettlementAssumption
  <2>2. session' # Idle
    BY <1>3, <1>4, IdleMeans
  <2>3. QED
    BY <1>2, <1>3, <1>4, <2>1, <2>2 DEF SessionOK
<1>6. StuckFirst' /\ AnswerEarned'
  BY <1>4 DEF StuckFirst, AnswerEarned
<1>7. CasesOK' /\ QueueOK' /\ HeldOK' /\ LookedAhead' /\ \A x \in Cases : ReferenceOK(x)'
  BY <1>1 DEF SInv, CasesOK, QueueOK, HeldOK, LookedAhead, ReferenceOK
<1>8. QED
  BY <1>5, <1>6, <1>7 DEF SInv

\* PaymentAdapter.retrieve_status: a success is a captured payment at a live gateway,
\* and a retry or the name of a payment at the simulated one; of a case that is stuck nothing is known.
LEMMA AnswersMean ==
    ASSUME CasesOK, NEW c \in Cases, ReferenceOK(c), NEW a \in Answers(c)
    PROVE  /\ a \in Responses \cup {"ERROR"}
           /\ a = "SUCCEEDED" => Earned(c)
           /\ Stuck(c) => a \in {"UNKNOWN", "ERROR"}
<1>1. payment[c] \in GatewayStatuses
  BY DEF CasesOK
<1>2. /\ Normalize(payment[c]) \in Responses
      /\ Normalize(payment[c]) = "SUCCEEDED" => payment[c] = "captured"
  BY <1>1 DEF Normalize, GatewayStatuses, Responses
<1>3. Stuck(c) => a \in {"UNKNOWN", "ERROR"}
  BY DEF Stuck
<1>4. CASE live
  <2>1. a \in LiveAnswers(c)
    BY <1>4 DEF Answers
  <2>2. /\ a \in {Normalize(payment[c]), "UNKNOWN", "ERROR"}
        /\ a \notin {"UNKNOWN", "ERROR"} => own[c] # "none"
    BY <2>1 DEF LiveAnswers
  <2>3. QED
    BY <1>2, <1>3, <1>4, <2>2 DEF Earned, Responses
<1>5. CASE ~live
  <2>1. a \in SimulatedAnswers(c)
    BY <1>5 DEF Answers
  <2>2. /\ a \in {"SUCCEEDED", "FAILED", "UNKNOWN", "SUBMITTED"}
        /\ a = "SUCCEEDED" => Reference(c) = "succ"
    BY <2>1 DEF SimulatedAnswers
  <2>3. Reference(c) = "succ" => tried[c] > 0 \/ own[c] = "succ"
    BY DEF Reference, ReferenceOK
  <2>4. QED
    BY <1>3, <1>5, <2>2, <2>3 DEF Earned, Responses
<1>6. QED
  BY <1>4, <1>5

\* PaymentReconciliationService.reconcile_case, to the answer of the gateway.
LEMMA AskKeeps ==
    ASSUME SInv, Ask
    PROVE  SInv'
<1> DEFINE c == Head(session.todo)
<1>1. /\ session.todo # <<>> /\ session.answer = "none"
      /\ UNCHANGED <<live, state, txn, ahead, queue, own, payment, ref, tried, looked, held>>
  BY DEF Ask, recorded
<1>2. PICK a \in Answers(c) :
          session' = IF a = "ERROR" THEN Idle
                     ELSE [session EXCEPT !.found = txn[c], !.answer = a,
                                          !.stuck = {x \in @ : Stuck(x)}]
  BY Zenon DEF Ask
<1>3. session \in Sessions /\ Len(session.todo) <= Limit /\ session.seen \in States
  BY <1>1 DEF SInv, SessionOK
<1>4. c \in Cases
  BY <1>1, <1>3 DEF Sessions
<1> HIDE DEF c
<1>5. CasesOK' /\ QueueOK' /\ HeldOK' /\ LookedAhead' /\ \A x \in Cases : ReferenceOK(x)'
  BY <1>1 DEF SInv, CasesOK, QueueOK, HeldOK, LookedAhead, ReferenceOK
<1>6. CASE a = "ERROR"
  BY <1>1, <1>2, <1>5, <1>6, IdleKeeps
<1>7. CASE a # "ERROR"
  <2>1. /\ a \in Responses
        /\ a = "SUCCEEDED" => Earned(c)
        /\ Stuck(c) => a = "UNKNOWN"
    BY <1>4, <1>7, AnswersMean DEF SInv
  <2>2. session' = [session EXCEPT !.found = txn[c], !.answer = a, !.stuck = {x \in @ : Stuck(x)}]
    BY <1>2, <1>7
  <2>3. txn[c] \in TxnStatuses
    BY <1>4 DEF SInv, CasesOK
  <2>4. /\ session'.todo = session.todo /\ session'.seen = session.seen
        /\ session'.resolve = session.resolve /\ session'.found = txn[c] /\ session'.answer = a
        /\ session'.stuck = {x \in session.stuck : Stuck(x)} /\ session' \in Sessions
    <3> DEFINE k == {x \in session.stuck : Stuck(x)}
    <3>1. session' = [session EXCEPT !.found = txn[c], !.answer = a, !.stuck = k]
      BY <2>2
    <3>2. k \in SUBSET Cases
      BY <1>3 DEF Sessions
    <3> HIDE DEF k
    <3>3. /\ session'.todo = session.todo /\ session'.seen = session.seen
          /\ session'.resolve = session.resolve /\ session'.found = txn[c]
          /\ session'.answer = a /\ session'.stuck = k /\ session' \in Sessions
      BY <2>1, <2>3, <3>1, <3>2, <1>3 DEF Sessions
    <3>4. QED
      BY <3>3 DEF k
  <2>5. SessionOK'
    BY <2>3, <2>4, <1>1, <1>3, IdleMeans DEF SessionOK
  <2>6. AnswerEarned'
    <3>1. PICK d \in Cases : d = Head(session.todo)
      BY <1>4 DEF c
    <3>2. Head(session'.todo) = d /\ session'.answer = a
      BY <3>1, <2>4
    <3>3. d = c
      BY <3>1 DEF c
    <3>4. a = "SUCCEEDED" => Earned(d)
      BY <2>1, <3>3
    <3>5. Earned(d) => Earned(d)'
      BY <1>1 DEF Earned
    <3>6. QED
      BY <3>2, <3>4, <3>5 DEF AnswerEarned
  <2>7. StuckFirst'
    <3>1. ASSUME NEW x \in session.stuck, Stuck(x)
          PROVE  /\ x = c /\ ahead[x] /\ session.seen = "VERIFICATION_PENDING" /\ session.resolve
                 /\ a = "UNKNOWN"
      BY <3>1, <2>1 DEF SInv, StuckFirst, c
    <3>2. QED
      BY <3>1, <2>4, <1>1 DEF StuckFirst, c
  <2>8. QED
    BY <1>5, <2>5, <2>6, <2>7 DEF SInv
<1>8. QED
  BY <1>6, <1>7

\* PaymentReconciliationService.reconcile_case: what an answer leads to.
LEMMA ResolutionMeans ==
    ASSUME NEW seen \in States, NEW found, NEW answer
    PROVE  LET r == Resolution(seen, found, answer) IN
           /\ r.to \in States \cup {NoState} /\ r.txn \in TxnStatuses \cup {NoState}
           /\ r.to = "RECOVERED" => answer = "SUCCEEDED"
           /\ (seen = "VERIFICATION_PENDING" /\ r.to # NoState) => r.service
           /\ (seen = "VERIFICATION_PENDING" /\ answer = "UNKNOWN") => (r.to = "ESCALATED" /\ r.service)
BY DEF Resolution, States, NoState, TxnStatuses

\* The rest of a session is shorter, and knows nothing of its next case.
LEMMA ContinuedMeans ==
    ASSUME session \in Sessions, session.todo # <<>>, session.seen \in States
    PROVE  /\ Continued \in Sessions /\ Continued.answer = "none"
           /\ Len(Continued.todo) <= Len(session.todo)
           /\ Continued.todo = <<>> <=> Continued = Idle
           /\ Continued.todo # <<>> => Continued.seen \in States
           /\ Continued.stuck \subseteq session.stuck
<1>1. session.todo \in Seq(Cases) /\ Len(session.todo) > 0
  BY DEF Sessions
<1>2. CASE Len(session.todo) = 1
  BY <1>1, <1>2, IdleMeans DEF Continued
<1>3. CASE Len(session.todo) # 1
  <2> DEFINE t == Tail(session.todo)
  <2>1. t \in Seq(Cases) /\ t # <<>> /\ Len(t) <= Len(session.todo)
    <3>1. Len(session.todo) \in Nat /\ session.todo # <<>>
      BY <1>1
    <3>2. t \in Seq(Cases) /\ Len(t) = Len(session.todo) - 1
      BY <1>1, <3>1, HeadTailProperties
    <3> HIDE DEF t
    <3>3. Len(t) # 0 /\ Len(t) <= Len(session.todo)
      BY <1>1, <1>3, <3>1, <3>2
    <3>4. Len(<<>>) = 0
      OBVIOUS
    <3>5. t # <<>>
      BY <3>3, <3>4, Zenon
    <3>6. QED
      BY <3>2, <3>3, <3>5
  <2>2. Continued = [todo |-> t, seen |-> session.seen, resolve |-> session.resolve,
                     found |-> "none", answer |-> "none", stuck |-> session.stuck]
    BY <1>3 DEF Continued
  <2> HIDE DEF t
  <2>3. Continued.todo = t
    BY <2>2
  <2>4. Continued \in Sessions
    BY <2>1, <2>2 DEF Sessions
  <2>5. QED
    BY <2>1, <2>2, <2>3, <2>4, IdleMeans
<1>4. QED
  BY <1>2, <1>3

Resolutions ==
    [to : States \cup {NoState}, txn : TxnStatuses \cup {NoState}, service : BOOLEAN]

\* A turn ends in an exception and a rollback, or moves the case as the answer asks
\* and writes the audit event.
TurnRefused(c, r) ==
    /\ Refused(c, r)
    /\ session' = Idle /\ UNCHANGED <<state, queue, txn, ahead, looked>>

TurnTaken(c, r) ==
    /\ ~Refused(c, r)
    /\ session' = Continued
    /\ IF r.to = NoState THEN UNCHANGED <<state, queue>> ELSE MoveTo(c, r.to)
    /\ txn' = IF r.txn = NoState THEN txn ELSE [txn EXCEPT ![c] = r.txn]
    /\ ahead' = [ahead EXCEPT ![c] = TRUE]
    /\ looked' = IF state'[c] = "VERIFICATION_PENDING" THEN looked \cup {c} ELSE looked

\* What the answer may ask for.
AskedFor(r) ==
    /\ r.to = "RECOVERED" => session.answer = "SUCCEEDED"
    /\ (session.seen = "VERIFICATION_PENDING" /\ r.to # NoState) => r.service
    /\ (session.seen = "VERIFICATION_PENDING" /\ session.answer = "UNKNOWN" /\ session.resolve) =>
           (r.to = "ESCALATED" /\ r.service)

Turn(c, r) ==
    /\ c = Head(session.todo) /\ session.answer # "none"
    /\ session.todo # <<>> /\ session.seen \in States
    /\ AskedFor(r)
    /\ UNCHANGED <<live, own, payment, ref, tried, held>>
    /\ TurnRefused(c, r) \/ TurnTaken(c, r)

\* PaymentReconciliationService.reconcile_case, from the answer to the commit: what a
\* turn does to its case.
LEMMA ActMeans ==
    ASSUME SInv, Act
    PROVE  \E c \in Cases, r \in Resolutions : Turn(c, r)
<1> DEFINE c == Head(session.todo)
           r == IF session.resolve
                THEN Resolution(session.seen, session.found, session.answer) ELSE Unresolved
<1>1. session.answer # "none" /\ session # Idle
  BY IdleMeans DEF Act
<1>2. session.todo # <<>> /\ session.seen \in States /\ session \in Sessions
  BY <1>1 DEF SInv, SessionOK
<1>3. c \in Cases
  BY <1>2 DEF Sessions
<1>4. r \in Resolutions
  <2>1. Unresolved \in Resolutions
    BY DEF Unresolved, Resolutions
  <2>2. Resolution(session.seen, session.found, session.answer) \in Resolutions
    BY DEF Resolution, States, TxnStatuses, Resolutions
  <2>3. QED
    BY <2>1, <2>2
<1>5. AskedFor(r)
  BY <1>2, ResolutionMeans DEF Unresolved, NoState, AskedFor
<1>6. /\ UNCHANGED <<live, own, payment, ref, tried, held>>
      /\ TurnRefused(c, r) \/ TurnTaken(c, r)
  BY Zenon DEF Act, Ended, Recorded, TurnRefused, TurnTaken
<1> HIDE DEF c, r
<1>7. c = Head(session.todo)
  BY DEF c
<1>8. QED
  BY <1>1, <1>2, <1>3, <1>4, <1>5, <1>6, <1>7 DEF Turn

\* PaymentReconciliationService.reconcile_case, from the answer to the commit.
LEMMA ActKeeps ==
    ASSUME SInv, Act
    PROVE  SInv'
<1>1. PICK c \in Cases, r \in Resolutions : Turn(c, r)
  BY ActMeans
<1> USE DEF Turn
<1>2. CASE TurnRefused(c, r)
  <2>1. CasesOK' /\ QueueOK' /\ LookedAhead'
    BY <1>1, <1>2 DEF TurnRefused, SInv, CasesOK, QueueOK, LookedAhead
  <2>2. QED
    BY <1>1, <1>2, <2>1, IdleKeeps DEF TurnRefused
<1>3. CASE TurnTaken(c, r)
  <2> USE DEF TurnTaken
  <2>1. state' \in [Cases -> States] /\ QueueOK'
    <3>1. CASE r.to = NoState
      BY <3>1, <1>3 DEF SInv, CasesOK, QueueOK
    <3>2. CASE r.to # NoState
      BY <3>2, <1>3, MoveKeepsQueue DEF SInv, Resolutions
    <3>3. QED
      BY <3>1, <3>2
  <2>2. txn' \in [Cases -> TxnStatuses] /\ ahead' \in [Cases -> BOOLEAN] /\ looked' \subseteq Cases
    BY <1>3 DEF SInv, CasesOK, Resolutions
  <2>3. CasesOK'
    BY <1>1, <2>1, <2>2 DEF SInv, CasesOK
  <2>4. LookedAhead'
    BY <1>3 DEF SInv, CasesOK, LookedAhead
  <2>5. session.stuck = {}
    <3>1. SUFFICES ASSUME NEW x \in session.stuck
                   PROVE  Refused(c, r)
      BY <1>3
    <3>2. /\ x = c /\ ahead[c] /\ session.seen = "VERIFICATION_PENDING" /\ session.resolve
          /\ session.answer = "UNKNOWN"
      BY <1>1 DEF SInv, StuckFirst
    <3>3. QED
      BY <1>1, <3>2 DEF Refused, NoState, AskedFor
  <2>6. /\ Continued \in Sessions /\ Continued.answer = "none"
        /\ Len(Continued.todo) <= Len(session.todo) /\ Len(session.todo) <= Limit
        /\ Continued.todo = <<>> <=> Continued = Idle
        /\ Continued.todo # <<>> => Continued.seen \in States
        /\ Continued.stuck = {}
    BY <1>1, <2>5, ContinuedMeans DEF SInv, SessionOK
  <2>7. Len(Continued.todo) <= Limit
    <3>1. Len(Continued.todo) \in Nat /\ Len(session.todo) \in Nat /\ Limit \in Nat
      BY <2>6, SettlementAssumption DEF Sessions, SInv, SessionOK
    <3>2. QED
      BY <3>1, <2>6
  <2>8. SessionOK' /\ StuckFirst' /\ AnswerEarned'
    BY <1>3, <2>6, <2>7 DEF SessionOK, StuckFirst, AnswerEarned
  <2>9. HeldOK' /\ \A x \in Cases : ReferenceOK(x)'
    BY <1>1 DEF SInv, ReferenceOK, HeldOK
  <2>10. QED
    BY <2>1, <2>3, <2>4, <2>8, <2>9 DEF SInv
<1>4. QED
  BY <1>1, <1>2, <1>3

\* The invariant of the session holds at first and is kept by every step, of
\* reconciliation and of the services beside it.
LEMMA InitMakesSInv == Init => SInv
<1> SUFFICES ASSUME Init PROVE SInv
  OBVIOUS
<1> USE DEF Init
<1>1. CasesOK
  BY SettlementAssumption
     DEF CasesOK, States, TxnStatuses, GatewayStatuses, References, PaymentNames
<1>2. QueueOK
  BY DEF QueueOK, IsInjective, ToSet
<1>3. SessionOK
  <2>1. Len(Idle.todo) = 0 /\ Limit \in Nat
    BY IdleMeans, SettlementAssumption
  <2>2. QED
    BY <2>1, IdleMeans DEF SessionOK
<1>4. LookedAhead /\ AnswerEarned /\ StuckFirst
  BY IdleMeans DEF LookedAhead, AnswerEarned, StuckFirst
<1>5. \A c \in Cases : ReferenceOK(c)
  BY DEF ReferenceOK
<1>6. HeldOK
  BY DEF HeldOK
<1>7. QED
  BY <1>1, <1>2, <1>3, <1>4, <1>5, <1>6 DEF SInv

\* The steps of a thread.
LEMMA ServeKeeps ==
    ASSUME SInv, NEW t \in Threads, Serve(t)
    PROVE  CaseStep
<1>1. CASE (\E c \in Cases : Load(t, c)) \/ RollBack(t)
  BY <1>1, IdleRequestKeeps
<1>2. ASSUME NEW h \in held[t], RunAgent(t, h)
      PROVE  CaseStep
  BY <1>2, AgentKeeps
<1>3. ASSUME NEW h \in held[t], EvaluatePolicy(t, h)
      PROVE  CaseStep
  <2>1. h.state \in States
    BY DEF SInv, HeldOK, Loads
  <2>2. \E v, final : MoveTo(h.case, PolicyTarget(v, final, h.state))
    BY <1>3, Zenon DEF EvaluatePolicy
  <2>3. PICK to \in States : MoveTo(h.case, to)
    BY <2>1, <2>2, PolicyTargetMeans
  <2>4. QED
    BY <1>3, <2>3, PlainMoveKeeps DEF EvaluatePolicy
<1>4. ASSUME NEW h \in held[t], DispatchRetry(t, h)
      PROVE  CaseStep
  BY <1>4, RetryKeeps
<1>5. ASSUME NEW h \in held[t], Operate(t, h)
      PROVE  CaseStep
  <2>1. PICK to \in States : MoveTo(h.case, to)
    BY <1>5, SettlementAssumption DEF Operate
  <2>2. QED
    BY <1>5, <2>1, PlainMoveKeeps DEF Operate
<1>6. ASSUME NEW h \in held[t], Noted(t, h)
      PROVE  CaseStep
  BY <1>6, NotedKeeps
<1>7. ASSUME NEW h \in held[t], ReportSuccess(t, h)
      PROVE  CaseStep
  <2>1. "RECOVERED" \in States
    BY DEF States
  <2>2. QED
    BY <1>7, <2>1, PlainMoveKeeps DEF ReportSuccess
<1>8. QED
  BY <1>1, <1>2, <1>3, <1>4, <1>5, <1>6, <1>7 DEF Serve

\* One step per action.
LEMMA StepKeepsSInv == SInv /\ [Next]_vars => SInv'
<1> SUFFICES ASSUME SInv, [Next]_vars PROVE SInv'
  OBVIOUS
<1>1. ASSUME NEW t \in Threads, Serve(t)
      PROVE  SInv'
  BY <1>1, ServeKeeps, CaseStepKeeps
<1>7. ASSUME NEW c \in Cases, PaymentMoves(c)
      PROVE  SInv'
  BY <1>7, PaymentKeeps, CaseStepKeeps
<1>8. ASSUME NEW c \in Cases, NEW resolve \in BOOLEAN, StartSingle(c, resolve)
      PROVE  SInv'
  BY <1>8, SingleKeeps
<1>9. CASE StartBatch
  BY <1>9, BatchKeeps
<1>10. CASE Ask
  BY <1>10, AskKeeps
<1>11. CASE Act
  BY <1>11, ActKeeps
<1>12. CASE Break
  <2>1. /\ session' = Idle
        /\ UNCHANGED <<live, state, txn, ahead, queue, own, payment, ref, tried, looked, held>>
    BY <1>12 DEF Break, Ended, recorded
  <2>2. CasesOK' /\ QueueOK' /\ LookedAhead'
    BY <2>1 DEF SInv, CasesOK, QueueOK, LookedAhead
  <2>3. QED
    BY <2>1, <2>2, IdleKeeps
<1>13. CASE UNCHANGED vars
  BY <1>13 DEF vars, recorded, SInv, CasesOK, QueueOK, SessionOK, HeldOK, LookedAhead,
              AnswerEarned, Earned, StuckFirst, ReferenceOK
<1>14. QED
  BY <1>1, <1>7, <1>8, <1>9, <1>10, <1>11, <1>12, <1>13 DEF Next

\* The invariant of the session holds in every state of the program.
LEMMA SInvHolds == Spec => []SInv
BY InitMakesSInv, StepKeepsSInv, PTL DEF Spec

\* PaymentReconciliationService, reconcile_pending_cases: the queue holds the cases that
\* wait, each once, and a session has at most as many before it as a batch takes.
THEOREM TypeCorrect == Spec => []TypeOK
<1>1. SInv => TypeOK
  BY DEF SInv, CasesOK, QueueOK, SessionOK, HeldOK, Sessions, TypeOK
<1>2. QED
  BY <1>1, SInvHolds, PTL

\* A session that has asked goes on by acting on the answer.
LEMMA AnswerIsActedOn ==
    ASSUME SInv, [Next]_vars, session' # session,
           session.answer # "none" \/ session.stuck # {}
    PROVE  Act \/ UNCHANGED <<state, txn, ahead>>
<1>1. session # Idle
  BY IdleMeans
<1>2. ASSUME (\E t \in Threads : Serve(t)) \/ (\E c \in Cases : PaymentMoves(c))
      PROVE  FALSE
  BY <1>2, ServeKeeps, PaymentKeeps DEF CaseStep, Later
<1>3. ASSUME NEW c \in Cases, NEW resolve \in BOOLEAN, StartSingle(c, resolve)
      PROVE  FALSE
  BY <1>1, <1>3 DEF StartSingle
<1>4. ~StartBatch
  BY <1>1 DEF StartBatch
<1>5. Ask \/ Break => UNCHANGED <<state, txn, ahead>>
  BY DEF Ask, Break, recorded
<1>6. QED
  BY <1>2, <1>3, <1>4, <1>5 DEF Next, vars, recorded

\* The turn of a case is a step of its session, after the answer.
LEMMA TurnIsAct ==
    ASSUME SInv, [Next]_vars, NEW c \in Cases, TurnOf(c), state'[c] # state[c]
    PROVE  \E r \in Resolutions : Turn(c, r) /\ TurnTaken(c, r) /\ r.to # NoState
                                  /\ state'[c] = r.to
<1>1. Act
  BY AnswerIsActedOn DEF TurnOf
<1>2. PICK d \in Cases, r \in Resolutions : Turn(d, r)
  BY <1>1, ActMeans
<1>3. d = c
  BY <1>2 DEF TurnOf, Turn
<1>4. TurnTaken(c, r)
  BY <1>2, <1>3 DEF Turn, TurnRefused
<1>5. r.to # NoState /\ MoveTo(c, r.to)
  BY <1>4 DEF TurnTaken
<1>6. state'[c] = r.to
  BY <1>5 DEF MoveTo, SInv, CasesOK
<1>7. QED
  BY <1>2, <1>3, <1>4, <1>5, <1>6

\* PaymentReconciliationService.reconcile_case: of a case that an earlier look has
\* left waiting, no later turn gets further than the number of the audit event that
\* look has written.
THEOREM OnlyFirstLook == Spec => OnlyFirstLookMoves
<1>1. SInv /\ [Next]_vars =>
          [\A c \in looked :
              TurnOf(c) /\ session.seen = "VERIFICATION_PENDING" => state'[c] = state[c]]_vars
  <2> SUFFICES ASSUME SInv, [Next]_vars, NEW c \in looked, TurnOf(c),
                      session.seen = "VERIFICATION_PENDING", state'[c] # state[c]
               PROVE  FALSE
    OBVIOUS
  <2>1. c \in Cases /\ ahead[c]
    BY DEF SInv, CasesOK, LookedAhead
  <2>2. PICK r \in Resolutions : Turn(c, r) /\ TurnTaken(c, r) /\ r.to # NoState
    BY <2>1, TurnIsAct
  <2>3. Refused(c, r)
    BY <2>1, <2>2 DEF Turn, AskedFor, Refused
  <2>4. QED
    BY <2>2, <2>3 DEF TurnTaken
<1>2. QED
  BY <1>1, SInvHolds, PTL DEF Spec, OnlyFirstLookMoves

\* PaymentReconciliationService.reconcile_case: it declares a case recovered on a
\* payment of its own that a live gateway has captured, and has not forgotten by
\* then; at the simulated one, on a retry or on the name of the payment.
THEOREM RecoveryIsPaid == Spec => RecoveredHasPayment
<1>1. SInv /\ [Next]_vars =>
          [\A c \in Cases :
              TurnOf(c) /\ state'[c] = "RECOVERED" /\ state[c] # "RECOVERED" =>
                  IF live THEN own[c] # "none" /\ payment[c] \in {"captured", "refunded"}
                  ELSE tried[c] > 0 \/ own[c] = "succ"]_vars
  <2> SUFFICES ASSUME SInv, [Next]_vars, NEW c \in Cases, TurnOf(c),
                      state'[c] = "RECOVERED", state[c] # "RECOVERED"
               PROVE  Earned(c)
    BY DEF Earned
  <2>1. PICK r \in Resolutions : Turn(c, r) /\ state'[c] = r.to
    BY TurnIsAct
  <2>2. session.answer = "SUCCEEDED" /\ c = Head(session.todo)
    BY <2>1 DEF Turn, AskedFor
  <2>3. QED
    BY <2>2 DEF SInv, AnswerEarned
<1>2. QED
  BY <1>1, SInvHolds, PTL DEF Spec, RecoveredHasPayment

\* PaymentReconciliationService.reconcile_pending_cases: a batch whose first case is
\* stuck changes nothing, for any number of cases behind it.
THEOREM StuckCaseStops == Spec => StuckCaseBlocks
<1>1. SInv /\ [Next]_vars =>
          [session.stuck # {} /\ session' # session => UNCHANGED <<state, txn, ahead>>]_vars
  <2> SUFFICES ASSUME SInv, [Next]_vars, session.stuck # {}, session' # session
               PROVE  UNCHANGED <<state, txn, ahead>>
    OBVIOUS
  <2>1. CASE Act
    <3>1. PICK c \in Cases, r \in Resolutions : Turn(c, r)
      BY <2>1, ActMeans
    <3>2. PICK x \in session.stuck : TRUE
      OBVIOUS
    <3>3. /\ c = x /\ ahead[c] /\ session.seen = "VERIFICATION_PENDING" /\ session.resolve
          /\ session.answer = "UNKNOWN"
      BY <3>1, <3>2 DEF SInv, StuckFirst, Turn
    <3>4. Refused(c, r)
      BY <3>1, <3>3 DEF Turn, AskedFor, Refused, NoState
    <3>5. QED
      BY <3>1, <3>4 DEF Turn, TurnRefused, TurnTaken
  <2>2. QED
    BY <2>1, AnswerIsActedOn
<1>2. QED
  BY <1>1, SInvHolds, PTL DEF Spec, StuckCaseBlocks

\* PaymentReconciliationService.reconcile_case and the services beside it, which load
\* a case, decide and commit without comparing its version: a booked payment is taken
\* back only by a turn that had found it otherwise before it asked the gateway, a
\* recovered or closed case only by a turn or a request that had loaded it before it
\* came to that.
THEOREM StaleWrites == Spec => OnlyStaleWritesTakeBack
<1>1. SInv /\ [Next]_vars =>
          [\A c \in Cases :
              /\ txn[c] = "SUCCEEDED" /\ txn'[c] # "SUCCEEDED" =>
                    TurnOf(c) /\ session.found # "SUCCEEDED"
              /\ state[c] \in {"RECOVERED", "CLOSED"} /\ state'[c] # state[c] =>
                    \/ TurnOf(c) /\ session.seen # state[c]
                    \/ \E t \in Threads : \E h \in held[t] :
                           h.case = c /\ h.state # state[c] /\ held'[t] = {}]_vars
  <2>1. SInv => Shape
    BY DEF SInv, CasesOK, HeldOK, SessionOK, Sessions, Shape
  <2>2. QED
    BY <2>1, StepTakesBackStale DEF TakenBackByStaleWrite, StaleRequest, Settled
<1>2. QED
  BY <1>1, SInvHolds, PTL DEF Spec, OnlyStaleWritesTakeBack
=============================================================================
