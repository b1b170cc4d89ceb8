------------------------ MODULE RecoveryWorkflowProofs ------------------------
(***************************************************************************)
(* Theorems about RecoveryWorkflow for any requests and workflows, any     *)
(* approved actions, any limit and whatever disturbs them; and three about *)
(* one request at a time, where nothing else moves the case.               *)
(***************************************************************************)
EXTENDS RecoveryWorkflow, FiniteSetTheorems, SequenceTheorems, TLAPS

-----------------------------------------------------------------------------
(* The inductive invariant. *)

\* A request has inserted an attempt that is not committed yet: the number is
\* taken for everybody else.
Inserted(q) == q.seq > 0 /\ q.pc # "insert"

NoneUnknown == \A w \in DOMAIN executions : executions[w] # "UNKNOWN"

StepLists == UNION {[DOMAIN StepsOf(a) -> StepStatuses] : a \in AllActions}

RequestRecords ==
    [pc : PCs, w : Workflows \cup {NoState}, all : BOOLEAN, status : WorkflowStatuses,
     steps : StepLists, seen : States, held : SUBSET (0..9), seq : 0..MaxAttempts,
     outcome : Outcomes \cup {"NONE"}, move : States \cup {NoState}]

\* What a request has loaded fits the workflow it executes.
LoadedOK(q) ==
    /\ q.pc \notin {"idle", "create"} =>
          q.w \in DOMAIN flow /\ DOMAIN q.steps = DOMAIN StepsOf(flow[q.w].action)
    /\ q.pc \in {"ready", "insert", "calling", "record"} =>
          \E i \in DOMAIN q.steps : q.steps[i] = "PENDING"
    /\ q.pc \in {"insert", "calling", "record"} => StepType(q) = "dispatch"
    /\ q.pc = "move" \/ CaseRow \in q.held => q.move \in States

\* The number of its attempt, while it is read, inserted and recorded.
NumberOK(q) ==
    /\ q.pc \in {"idle", "create"} => q.seq = 0
    /\ q.pc \in {"insert", "calling", "record"} => q.seq > 0
    /\ q.pc \in {"insert", "calling"} => q.outcome = "NONE"
    /\ q.pc = "insert" => q.seq <= Len(attempts) + 1
    /\ q.seq = 0 => q.outcome = "NONE"
    /\ q.seq > 0 /\ q.pc \notin {"insert", "calling"} => q.outcome # "NONE"
    /\ q.seq > 0 /\ q.pc \notin {"insert", "calling", "record"} =>
          /\ q.w \notin DOMAIN executions
          /\ \A i \in DOMAIN q.steps :
                StepsOf(flow[q.w].action)[i] = "dispatch" => q.steps[i] # "PENDING"
    /\ Inserted(q) => q.seq = Len(attempts) + 1
    /\ q.pc \in {"insert", "calling"} /\ q.seq = Len(attempts) + 1 => NoneUnknown

RequestOK(q) == q \in RequestRecords /\ LoadedOK(q) /\ NumberOK(q)

FlowOK ==
    /\ DOMAIN flow \subseteq Workflows
    /\ \A w \in DOMAIN flow :
          /\ flow[w] \in [action : Actions, status : WorkflowStatuses, steps : StepLists]
          /\ DOMAIN flow[w].steps = DOMAIN StepsOf(flow[w].action)

RecordsOK ==
    /\ attempts \in Seq([w : Workflows, status : {"STARTED", "SUCCEEDED", "UNCERTAIN", "FAILED"}])
    /\ Len(attempts) <= MaxAttempts
    /\ DOMAIN executions \subseteq DOMAIN flow
    /\ \A w \in DOMAIN executions : executions[w] \in Outcomes

\* One attempt for every execution, and the other way round.
Paired ==
    /\ \A i \in DOMAIN attempts :
          /\ attempts[i].w \in DOMAIN executions
          /\ attempts[i].status = AttemptStatus(executions[attempts[i].w])
    /\ \A w \in DOMAIN executions : \E i \in DOMAIN attempts : attempts[i].w = w
    /\ \A i, j \in DOMAIN attempts : attempts[i].w = attempts[j].w => i = j

OneInserted == \A r, o \in Requests : Inserted(req[r]) /\ Inserted(req[o]) => r = o

CaseOK == state \in States /\ txn \in TxnStatuses /\ ahead \in BOOLEAN /\ consent \in BOOLEAN

IInv ==
    /\ CaseOK /\ FlowOK /\ RecordsOK /\ Paired
    /\ orders \in [Workflows -> Nat]
    /\ DOMAIN req = Requests
    /\ \A r \in Requests : RequestOK(req[r])
    /\ OneInserted

-----------------------------------------------------------------------------
(* Steps of a workflow. *)

\* WorkflowCreationService._build_steps: at most four steps.
LEMMA StepDomains ==
    ASSUME NEW a
    PROVE  \E n \in 0..4 : DOMAIN StepsOf(a) = 1..n
BY DEF StepsOf

\* get_next_step: the first one that is pending.
LEMMA NextStepPending ==
    ASSUME NEW q, NEW n \in 0..4, DOMAIN q.steps = 1..n,
           \E i \in DOMAIN q.steps : q.steps[i] = "PENDING"
    PROVE  /\ NextStep(q) \in 1..n /\ q.steps[NextStep(q)] = "PENDING"
           /\ \A j \in 1..(NextStep(q) - 1) : q.steps[j] # "PENDING"
<1>1. \E i \in DOMAIN q.steps :
         q.steps[i] = "PENDING" /\ \A j \in 1..(i - 1) : q.steps[j] # "PENDING"
  <2> DEFINE P(i) == i \in 1..n /\ q.steps[i] = "PENDING"
  <2>1. P(1) \/ P(2) \/ P(3) \/ P(4)
    OBVIOUS
  <2>2. PICK m \in 1..4 : P(m) /\ \A j \in 1..4 : j < m => ~P(j)
    BY <2>1
  <2>3. \A j \in 1..(m - 1) : q.steps[j] # "PENDING"
    BY <2>2
  <2>4. QED
    BY <2>2, <2>3
<1>2. QED
  BY <1>1 DEF NextStep

\* Only a retry has a step that dispatches, and only one.
LEMMA DispatchStep ==
    ASSUME NEW a, NEW i \in DOMAIN StepsOf(a), StepsOf(a)[i] = "dispatch"
    PROVE  a = "RETRY_PAYMENT" /\ i = 3
BY DEF StepsOf

\* The lists the rows of steps are loaded into.
LEMMA StepListType ==
    ASSUME NEW l
    PROVE  l \in StepLists <=> \E a \in AllActions : l \in [DOMAIN StepsOf(a) -> StepStatuses]
BY DEF StepLists

LEMMA StepListUpdate ==
    ASSUME NEW l \in StepLists, NEW i, NEW s \in StepStatuses
    PROVE  [l EXCEPT ![i] = s] \in StepLists /\ DOMAIN [l EXCEPT ![i] = s] = DOMAIN l
BY DEF StepLists

-----------------------------------------------------------------------------
(* A request that moves on without committing anything. *)

\* What others commit leaves a request as it is: workflows keep their actions,
\* and an attempt more only means that a number which was read is taken.
LEMMA RequestStaysOK ==
    ASSUME NEW q, RequestOK(q), Len(attempts) \in Nat, Len(attempts') \in Nat,
           DOMAIN flow \subseteq DOMAIN flow',
           \A w \in DOMAIN flow : flow'[w].action = flow[w].action,
           \/ UNCHANGED <<attempts, executions>>
           \/ ~Inserted(q) /\ Len(attempts') > Len(attempts)
    PROVE  RequestOK(q)'
<1>1. q \in RequestRecords /\ q.seq \in Nat
  BY BoundsAssumption DEF RequestOK, RequestRecords
<1>2. LoadedOK(q)'
  <2>1. q.pc \notin {"idle", "create"} => q.w \in DOMAIN flow'
    BY DEF RequestOK, LoadedOK
  <2>2. q.pc \notin {"idle", "create"} => flow'[q.w].action = flow[q.w].action
    BY DEF RequestOK, LoadedOK
  <2>3. QED
    BY <2>1, <2>2 DEF RequestOK, LoadedOK, StepType
<1>3. NumberOK(q)'
  <2>1. q.seq > 0 => flow'[q.w].action = flow[q.w].action
    BY DEF RequestOK, LoadedOK, NumberOK
  <2>2. CASE UNCHANGED <<attempts, executions>>
    BY <2>1, <2>2 DEF RequestOK, NumberOK, NoneUnknown
  <2>3. CASE ~Inserted(q) /\ Len(attempts') > Len(attempts)
    BY <1>1, <2>3 DEF RequestOK, NumberOK, Inserted
  <2>4. QED
    BY <2>2, <2>3
<1>4. QED
  BY <1>1, <1>2, <1>3 DEF RequestOK

LEMMA GoesKeeps ==
    ASSUME IInv, NEW r \in Requests, NEW q, RequestOK(q), Goes(r, q),
           Inserted(q) => \A o \in Requests \ {r} : ~Inserted(req[o])
    PROVE  IInv'
<1>1. /\ req' = [req EXCEPT ![r] = q]
      /\ UNCHANGED <<state, txn, ahead, consent, flow, attempts, executions, orders>>
  BY DEF Goes, caseVars, wfVars
<1>2. \A o \in Requests : req'[o] = IF o = r THEN q ELSE req[o]
  BY <1>1 DEF IInv
<1>3. DOMAIN req' = Requests
  BY <1>1 DEF IInv
<1>4. ASSUME NEW o \in Requests PROVE RequestOK(req[o])'
  <2>1. RequestOK(IF o = r THEN q ELSE req[o])
    BY DEF IInv
  <2>2. QED
    BY <1>1, <1>2, <2>1, RequestStaysOK DEF IInv, RecordsOK
<1>5. OneInserted'
  BY <1>2 DEF OneInserted, IInv, Inserted
<1>6. CaseOK' /\ FlowOK' /\ RecordsOK' /\ Paired' /\ (orders \in [Workflows -> Nat])'
  BY <1>1 DEF IInv, CaseOK, FlowOK, RecordsOK, Paired
<1>7. QED
  BY <1>3, <1>4, <1>5, <1>6 DEF IInv

\* get_db rolls back: the request is over.
LEMMA IdleOK == RequestOK(Idle)
<1>1. <<>> \in StepLists
  <2>1. "NO_ACTION" \in AllActions /\ StepsOf("NO_ACTION") = <<>>
    BY DEF AllActions, StepsOf
  <2>2. <<>> \in [DOMAIN <<>> -> StepStatuses]
    OBVIOUS
  <2>3. QED
    BY <2>1, <2>2 DEF StepLists
<1>2. Idle \in RequestRecords
  BY <1>1, BoundsAssumption DEF Idle, RequestRecords, PCs, WorkflowStatuses, States
<1>3. LoadedOK(Idle) /\ NumberOK(Idle)
  BY DEF Idle, LoadedOK, NumberOK, CaseRow, Inserted
<1>4. QED
  BY <1>2, <1>3 DEF RequestOK

-----------------------------------------------------------------------------
(* The records requests go through. *)

\* The step a loaded request is at.
LEMMA AtPendingStep ==
    ASSUME NEW q, RequestOK(q), q.pc \in {"ready", "insert", "calling", "record"}
    PROVE  /\ NextStep(q) \in 1..4 /\ NextStep(q) \in DOMAIN StepsOf(flow[q.w].action)
           /\ NextStep(q) \in DOMAIN q.steps /\ q.steps[NextStep(q)] = "PENDING"
           /\ \A j \in 1..(NextStep(q) - 1) : q.steps[j] # "PENDING"
<1>1. PICK n \in 0..4 : DOMAIN StepsOf(flow[q.w].action) = 1..n
  BY StepDomains
<1>2. DOMAIN q.steps = 1..n /\ \E i \in DOMAIN q.steps : q.steps[i] = "PENDING"
  BY <1>1 DEF RequestOK, LoadedOK
<1>3. QED
  BY <1>1, <1>2, NextStepPending

\* The end of a step.
LEMMA StepEndsOK ==
    ASSUME NEW q, RequestOK(q), q.pc \in {"ready", "record"},
           q.pc = "record" => q.w \notin DOMAIN executions,
           NEW s \in {"COMPLETED", "FAILED", "WAITING"}, NEW f \in WorkflowStatuses
    PROVE  /\ RequestOK(StepEnds(q, s, f))
           /\ StepEnds(q, s, f).pc \in {"load", "commit"}
           /\ Inserted(StepEnds(q, s, f)) => Inserted(q)
<1> DEFINE e == StepEnds(q, s, f)
           i == NextStep(q)
<1>1. /\ i \in 1..4 /\ i \in DOMAIN q.steps /\ i \in DOMAIN StepsOf(flow[q.w].action)
      /\ q \in RequestRecords
  BY AtPendingStep DEF RequestOK
<1>2. WantedRows(q) \subseteq {WorkflowRow, i}
  BY DEF WantedRows
<1>3. /\ e.pc \in {"load", "commit"} /\ e.w = q.w /\ e.status = f /\ e.seq = q.seq
      /\ e.outcome = q.outcome /\ e.move = q.move /\ e.steps = [q.steps EXCEPT ![i] = s]
      /\ e.held = (q.held \cup WantedRows(q)) \cup {i}
  BY <1>1 DEF StepEnds, RequestRecords
<1>4. e.steps \in StepLists /\ DOMAIN e.steps = DOMAIN q.steps
  <2>1. q.steps \in StepLists /\ s \in StepStatuses
    BY <1>1 DEF RequestRecords, StepStatuses
  <2>2. /\ [q.steps EXCEPT ![i] = s] \in StepLists
        /\ DOMAIN [q.steps EXCEPT ![i] = s] = DOMAIN q.steps
    BY <2>1, StepListUpdate, Zenon
  <2>3. QED
    BY <1>3, <2>2, Zenon
<1>5. e.held \subseteq 0..9 /\ (CaseRow \in e.held => CaseRow \in q.held)
  BY <1>1, <1>2, <1>3 DEF RequestRecords, WorkflowRow, CaseRow
<1>6. e \in RequestRecords
  <2>1. ASSUME NEW a \in PCs, NEW l \in StepLists, NEW h \in SUBSET (0..9)
        PROVE  [q EXCEPT !.pc = a, !.status = f, !.steps = l, !.held = h] \in RequestRecords
    BY <1>1 DEF RequestRecords
  <2>2. e = [q EXCEPT !.pc = e.pc, !.status = f, !.steps = e.steps, !.held = e.held]
    BY <1>3, Zenon DEF StepEnds
  <2>3. e.pc \in PCs
    BY <1>3 DEF PCs
  <2> HIDE DEF e
  <2>4. e.held \in SUBSET (0..9)
    BY <1>5
  <2>5. [q EXCEPT !.pc = e.pc, !.status = f, !.steps = e.steps, !.held = e.held]
           \in RequestRecords
    BY <1>4, <2>1, <2>3, <2>4, Zenon
  <2>6. QED
    BY <2>2, <2>5, Zenon
<1>7. LoadedOK(e)
  <2> HIDE DEF e, i
  <2>1. q.w \in DOMAIN flow /\ DOMAIN q.steps = DOMAIN StepsOf(flow[q.w].action)
    BY DEF RequestOK, LoadedOK
  <2>2. QED
    BY <1>3, <1>4, <1>5, <2>1 DEF RequestOK, LoadedOK
<1>8. NumberOK(e)
  <2>1. ASSUME q.seq > 0, NEW j \in DOMAIN q.steps, StepsOf(flow[q.w].action)[j] = "dispatch"
        PROVE  e.steps[j] # "PENDING"
    <3>1. CASE q.pc = "ready"
      BY <1>3, <2>1, <3>1 DEF RequestOK, NumberOK
    <3>2. CASE q.pc = "record"
      <4>1. StepsOf(flow[q.w].action)[i] = "dispatch"
        BY <3>2 DEF RequestOK, LoadedOK, StepType
      <4>2. j = i
        BY <1>1, <2>1, <4>1, DispatchStep DEF RequestOK, LoadedOK
      <4>3. QED
        BY <1>1, <1>3, <4>2
    <3>3. QED
      BY <3>1, <3>2
  <2>2. Inserted(q) <=> q.seq > 0
    BY DEF Inserted
  <2> HIDE DEF e, i
  <2>3. QED
    BY <1>3, <1>4, <2>1, <2>2 DEF RequestOK, NumberOK, Inserted
<1>9. QED
  BY <1>3, <1>6, <1>7, <1>8 DEF RequestOK, Inserted

\* The move of the case is still to come.
LEMMA MovingOK ==
    ASSUME NEW q, RequestOK(q), q.pc \in {"load", "commit"}, NEW to \in States
    PROVE  RequestOK(Moving(q, to)) /\ (Inserted(Moving(q, to)) => Inserted(q))
<1> DEFINE m == Moving(q, to)
<1>1. /\ m.pc = "move" /\ m.w = q.w /\ m.steps = q.steps /\ m.move = to /\ m.seq = q.seq
      /\ m.outcome = q.outcome /\ m.held = q.held /\ m \in RequestRecords
  BY DEF Moving, RequestOK, RequestRecords, PCs
<1> HIDE DEF m
<1>2. QED
  BY <1>1 DEF m, RequestOK, LoadedOK, NumberOK, Inserted

-----------------------------------------------------------------------------
(* Every step keeps the invariant: requests that load, wait and execute. *)

LEMMA OpenKeeps ==
    ASSUME IInv, NEW r \in Requests, NEW w \in DOMAIN flow, NEW all \in BOOLEAN, Open(r, w, all)
    PROVE  IInv'
<1> DEFINE q == [Idle EXCEPT !.pc = "load", !.w = w, !.all = all,
                             !.status = flow[w].status, !.steps = flow[w].steps]
<1>1. /\ w \in Workflows /\ flow[w].status \in WorkflowStatuses
      /\ flow[w].steps \in StepLists /\ DOMAIN flow[w].steps = DOMAIN StepsOf(flow[w].action)
  BY DEF IInv, FlowOK
<1>2. /\ q.pc = "load" /\ q.w = w /\ q.steps = flow[w].steps /\ q.seq = 0 /\ q.held = {}
      /\ q.outcome = "NONE"
  BY DEF Idle
<1>3. q \in RequestRecords
  BY <1>1, IdleOK DEF RequestOK, RequestRecords, PCs
<1> HIDE DEF q
<1>4. RequestOK(q) /\ ~Inserted(q)
  BY <1>1, <1>2, <1>3 DEF RequestOK, LoadedOK, NumberOK, Inserted
<1>5. Goes(r, q)
  BY DEF q, Open
<1>6. QED
  BY <1>4, <1>5, GoesKeeps

LEMMA LoadCaseKeeps ==
    ASSUME IInv, NEW r \in Requests, LoadCase(r)
    PROVE  IInv'
<1> DEFINE q == req[r]
           done == [q EXCEPT !.pc = "commit", !.status = "COMPLETED"]
           seen == IF CaseRow \in q.held THEN q.move ELSE state
           ready == [q EXCEPT !.pc = "ready", !.seen = seen]
<1>1. RequestOK(q) /\ q.pc = "load" /\ q \in RequestRecords
  BY DEF IInv, LoadCase, RequestOK
<1>2. CASE \A i \in DOMAIN q.steps : q.steps[i] # "PENDING"
  <2>1. /\ done.pc = "commit" /\ done.w = q.w /\ done.steps = q.steps /\ done.seq = q.seq
        /\ done.held = q.held /\ done.move = q.move /\ done.outcome = q.outcome
        /\ done \in RequestRecords
    BY <1>1 DEF RequestRecords, PCs, WorkflowStatuses
  <2>2. Goes(r, done)
    BY <1>2 DEF LoadCase
  <2> HIDE DEF done, q
  <2>3. RequestOK(done) /\ (Inserted(done) => Inserted(q))
    BY <1>1, <2>1 DEF RequestOK, LoadedOK, NumberOK, Inserted
  <2>4. QED
    BY <2>2, <2>3, GoesKeeps DEF q, IInv, OneInserted
<1>3. CASE \E i \in DOMAIN q.steps : q.steps[i] = "PENDING"
  <2>1. seen \in States
    BY <1>1 DEF RequestOK, LoadedOK, IInv, CaseOK
  <2>2. /\ ready.pc = "ready" /\ ready.w = q.w /\ ready.steps = q.steps /\ ready.seq = q.seq
        /\ ready.held = q.held /\ ready.move = q.move /\ ready.outcome = q.outcome
        /\ ready \in RequestRecords
    BY <1>1, <2>1 DEF RequestRecords, PCs
  <2>3. Goes(r, ready)
    BY <1>3 DEF LoadCase
  <2> HIDE DEF ready, q
  <2>4. RequestOK(ready) /\ (Inserted(ready) => Inserted(q))
    BY <1>1, <1>3, <2>2 DEF RequestOK, LoadedOK, NumberOK, Inserted
  <2>5. QED
    BY <2>3, <2>4, GoesKeeps DEF q, IInv, OneInserted
<1>4. QED
  BY <1>2, <1>3

\* The end of a step, with or without a move of the case to come.
LEMMA EndOfStepKeeps ==
    ASSUME IInv, NEW r \in Requests, req[r].pc \in {"ready", "record"},
           req[r].pc = "record" => req[r].w \notin DOMAIN executions,
           NEW s \in {"COMPLETED", "FAILED", "WAITING"}, NEW f \in WorkflowStatuses,
           NEW to \in States,
           LET e == StepEnds(req[r], s, f) IN Goes(r, e) \/ Goes(r, Moving(e, to))
    PROVE  IInv'
<1> DEFINE e == StepEnds(req[r], s, f)
<1>1. RequestOK(req[r])
  BY DEF IInv
<1>2. RequestOK(e) /\ e.pc \in {"load", "commit"} /\ (Inserted(e) => Inserted(req[r]))
  BY <1>1, StepEndsOK
<1> HIDE DEF e
<1>3. RequestOK(Moving(e, to)) /\ (Inserted(Moving(e, to)) => Inserted(req[r]))
  BY <1>2, MovingOK
<1>4. Inserted(req[r]) => \A o \in Requests \ {r} : ~Inserted(req[o])
  BY DEF IInv, OneInserted
<1>5. QED
  BY <1>2, <1>3, <1>4, GoesKeeps DEF e

\* A retry that is not refused: there is room for its attempt, and no execution
\* of unknown outcome.
LEMMA NotRefused ==
    ASSUME NEW q, Refusal(q, "RETRY_PAYMENT") = "NONE"
    PROVE  ~(Len(attempts) >= MaxAttempts) /\ NoneUnknown
BY DEF Refusal, NoneUnknown

LEMMA DispatchKeeps ==
    ASSUME IInv, NEW r \in Requests, req[r].pc = "ready", Dispatch(r)
    PROVE  IInv'
<1> DEFINE q == req[r]
           d == [q EXCEPT !.pc = "insert", !.status = "RUNNING",
                          !.held = @ \cup WantedRows(q), !.seq = Len(attempts) + 1]
           i == NextStep(q)
<1>1. RequestOK(q) /\ q \in RequestRecords /\ StepType(q) = "dispatch"
  BY DEF IInv, RequestOK, Dispatch
<1>2. i \in 1..4 /\ i \in DOMAIN q.steps /\ q.steps[i] = "PENDING"
  BY <1>1, AtPendingStep
<1>3. CASE Refusal(q, "RETRY_PAYMENT") # "NONE"
  <2>1. Goes(r, StepEnds(q, "FAILED", "FAILED"))
    BY <1>3 DEF Dispatch
  <2>2. "FAILED" \in WorkflowStatuses /\ "STOPPED" \in States
    BY DEF WorkflowStatuses, States
  <2>3. QED
    BY <2>1, <2>2, EndOfStepKeeps
<1>4. CASE Refusal(q, "RETRY_PAYMENT") = "NONE"
  <2>1. Goes(r, d)
    BY <1>4 DEF Dispatch
  <2>2. /\ Len(attempts) \in Nat /\ Len(attempts) + 1 \in 0..MaxAttempts
        /\ NoneUnknown
    BY <1>4, NotRefused, BoundsAssumption DEF IInv, RecordsOK
  <2>3. q.seq = 0 /\ q.outcome = "NONE"
    BY <1>1, <1>2 DEF RequestOK, NumberOK, StepType, RequestRecords
  <2>4. WantedRows(q) \subseteq {WorkflowRow, i}
    BY DEF WantedRows
  <2>5. /\ d.pc = "insert" /\ d.w = q.w /\ d.steps = q.steps /\ d.seq = Len(attempts) + 1
        /\ d.outcome = "NONE" /\ d.move = q.move /\ d.held = q.held \cup WantedRows(q)
    BY <1>1, <2>3 DEF RequestRecords
  <2>6. d.held \in SUBSET (0..9) /\ (CaseRow \in d.held => CaseRow \in q.held)
    BY <1>1, <1>2, <2>4, <2>5 DEF RequestRecords, WorkflowRow, CaseRow
  <2>7. d \in RequestRecords
    BY <1>1, <2>2, <2>6 DEF RequestRecords, PCs, WorkflowStatuses
  <2>8. StepType(d) = StepType(q)
    BY <2>5 DEF StepType, NextStep
  <2> HIDE DEF d, i
  <2>9. RequestOK(d) /\ ~Inserted(d)
    BY <1>1, <1>2, <2>2, <2>5, <2>6, <2>7, <2>8 DEF RequestOK, LoadedOK, NumberOK, Inserted
  <2>10. QED
    BY <2>1, <2>9, GoesKeeps
<1>5. QED
  BY <1>3, <1>4

LEMMA RunStepKeeps ==
    ASSUME IInv, NEW r \in Requests, RunStep(r)
    PROVE  IInv'
<1>1. /\ {"RUNNING", "FAILED", "WAITING"} \subseteq WorkflowStatuses
      /\ {"ESCALATED", "STOPPED"} \subseteq States
  BY DEF WorkflowStatuses, States
<1>2. CASE Validate(r)
  BY <1>1, <1>2, EndOfStepKeeps DEF Validate, RunStep
<1>3. CASE Complete(r)
  BY <1>1, <1>3, EndOfStepKeeps DEF Complete, RunStep
<1>4. CASE Await(r)
  BY <1>1, <1>4, EndOfStepKeeps DEF Await, RunStep
<1>5. CASE Dispatch(r)
  BY <1>5, DispatchKeeps DEF RunStep
<1>6. QED
  BY <1>2, <1>3, <1>4, <1>5 DEF RunStep

-----------------------------------------------------------------------------
(* The retry. *)

\* Nobody else has inserted an attempt: who has, has it under the next number,
\* and that is free.
LEMMA InsertAttemptKeeps ==
    ASSUME IInv, NEW r \in Requests, InsertAttempt(r)
    PROVE  IInv'
<1> DEFINE q == req[r]
           c == [q EXCEPT !.pc = "calling"]
<1>1. RequestOK(q) /\ q \in RequestRecords /\ q.pc = "insert" /\ Len(attempts) < q.seq
  BY DEF IInv, RequestOK, InsertAttempt
<1>2. Len(attempts) \in Nat /\ q.seq = Len(attempts) + 1
  BY <1>1 DEF IInv, RecordsOK, RequestOK, NumberOK, RequestRecords
<1>3. /\ c.pc = "calling" /\ c.w = q.w /\ c.steps = q.steps /\ c.seq = q.seq
      /\ c.outcome = q.outcome /\ c.move = q.move /\ c.held = q.held
      /\ c \in RequestRecords
  BY <1>1 DEF RequestRecords, PCs
<1>4. StepType(c) = StepType(q)
  BY <1>3 DEF StepType, NextStep
<1> HIDE DEF c
<1>5. RequestOK(c)
  BY <1>1, <1>2, <1>3, <1>4 DEF RequestOK, LoadedOK, NumberOK, Inserted
<1>6. ASSUME NEW o \in Requests \ {r} PROVE ~Inserted(req[o])
  <2>1. Inserted(req[o]) => req[o].seq = Len(attempts) + 1
    BY DEF IInv, RequestOK, NumberOK
  <2>2. Inserted(req[o]) => o \in Blockers(r)
    BY <1>1, <1>2, <2>1 DEF Inserted, Blockers
  <2>3. QED
    BY <2>2 DEF InsertAttempt
<1>7. Goes(r, c)
  BY DEF c, InsertAttempt
<1>8. QED
  BY <1>5, <1>6, <1>7, GoesKeeps

LEMMA RecordKeeps ==
    ASSUME IInv, NEW r \in Requests, Record(r)
    PROVE  IInv'
<1>1. /\ {"RUNNING", "FAILED", "REQUIRES_REVIEW"} \subseteq WorkflowStatuses
      /\ {"ESCALATED", "STOPPED", "VERIFICATION_PENDING"} \subseteq States
  BY DEF WorkflowStatuses, States
<1>2. req[r].pc = "record" /\ req[r].w \notin DOMAIN executions
  BY DEF Record
<1>3. \E s \in {"COMPLETED", "FAILED"}, f \in {"RUNNING", "FAILED", "REQUIRES_REVIEW"},
         to \in {"ESCALATED", "STOPPED", "VERIFICATION_PENDING"} :
            LET e == StepEnds(req[r], s, f) IN Goes(r, e) \/ Goes(r, Moving(e, to))
  BY DEF Record
<1>4. QED
  BY <1>1, <1>2, <1>3, EndOfStepKeeps

LEMMA MoveCaseKeeps ==
    ASSUME IInv, NEW r \in Requests, MoveCase(r)
    PROVE  IInv'
<1> DEFINE q == req[r]
           a == IF q.all /\ q.status = "RUNNING" THEN "load" ELSE "commit"
           m == [q EXCEPT !.pc = a, !.held = @ \cup {CaseRow}]
<1>1. RequestOK(q) /\ q \in RequestRecords /\ q.pc = "move"
  BY DEF IInv, RequestOK, MoveCase
<1>2. /\ m.pc \in {"load", "commit"} /\ m.w = q.w /\ m.steps = q.steps /\ m.seq = q.seq
      /\ m.outcome = q.outcome /\ m.move = q.move
  BY <1>1 DEF RequestRecords
<1>3. m \in RequestRecords
  <2>1. a \in PCs
    BY DEF PCs
  <2>2. q.held \cup {CaseRow} \in SUBSET (0..9)
    BY <1>1 DEF RequestRecords, CaseRow
  <2> HIDE DEF a, q
  <2>3. QED
    BY <1>1, <2>1, <2>2 DEF RequestRecords
<1>4. Goes(r, m)
  BY DEF MoveCase
<1> HIDE DEF m
<1>5. RequestOK(m) /\ (Inserted(m) => Inserted(q))
  BY <1>1, <1>2, <1>3 DEF RequestOK, LoadedOK, NumberOK, Inserted
<1>6. QED
  BY <1>4, <1>5, GoesKeeps DEF IInv, OneInserted

LEMMA RollBackKeeps ==
    ASSUME IInv, NEW r \in Requests, Goes(r, Idle)
    PROVE  IInv'
<1>1. ~Inserted(Idle)
  BY DEF Inserted, Idle
<1>2. QED
  BY <1>1, IdleOK, GoesKeeps

LEMMA CheckCreateKeeps ==
    ASSUME IInv, NEW r \in Requests, CheckCreate(r)
    PROVE  IInv'
<1> DEFINE q == [Idle EXCEPT !.pc = "create"]
<1>1. /\ q.pc = "create" /\ q.seq = 0 /\ q.outcome = "NONE" /\ q.held = {}
      /\ q \in RequestRecords
  BY IdleOK DEF Idle, RequestOK, RequestRecords, PCs
<1>2. Goes(r, q)
  BY DEF CheckCreate
<1> HIDE DEF q
<1>3. RequestOK(q) /\ ~Inserted(q)
  BY <1>1 DEF RequestOK, LoadedOK, NumberOK, Inserted
<1>4. QED
  BY <1>2, <1>3, GoesKeeps

\* The gateway's answer: the orders there, and a request that has its outcome.
LEMMA AnswerKeeps ==
    ASSUME IInv, NEW r \in Requests, NEW outcome \in Outcomes, Answer(r, outcome)
    PROVE  IInv'
<1> DEFINE q == req[r]
           a == [q EXCEPT !.pc = "record", !.outcome = outcome]
<1>1. RequestOK(q) /\ q \in RequestRecords /\ q.pc = "calling" /\ DOMAIN req = Requests
  BY DEF IInv, RequestOK, Answer
<1>2. /\ req' = [req EXCEPT ![r] = a]
      /\ UNCHANGED <<state, txn, ahead, consent, flow, attempts, executions>>
  BY <1>1 DEF Answer, caseVars
<1>3. /\ a.pc = "record" /\ a.w = q.w /\ a.steps = q.steps /\ a.seq = q.seq
      /\ a.outcome = outcome /\ a.move = q.move /\ a.held = q.held
      /\ a \in RequestRecords
  BY <1>1 DEF RequestRecords, PCs
<1>4. StepType(a) = StepType(q) /\ outcome # "NONE"
  BY <1>3 DEF StepType, NextStep, Outcomes
<1> HIDE DEF a
<1>5. RequestOK(a) /\ Inserted(a) /\ Inserted(q)
  BY <1>1, <1>3, <1>4 DEF RequestOK, LoadedOK, NumberOK, Inserted
<1>6. \A o \in Requests : req'[o] = IF o = r THEN a ELSE req[o]
  BY <1>1, <1>2
<1>7. ASSUME NEW o \in Requests PROVE RequestOK(req[o])'
  <2>1. RequestOK(IF o = r THEN a ELSE req[o])
    BY <1>5 DEF IInv
  <2>2. QED
    BY <1>2, <1>6, <2>1, RequestStaysOK DEF IInv, RecordsOK
<1>8. OneInserted'
  BY <1>5, <1>6 DEF IInv, OneInserted, Inserted
<1>9. orders' \in [Workflows -> Nat]
  <2>1. q.w \in Workflows /\ orders \in [Workflows -> Nat]
    BY <1>1 DEF RequestOK, LoadedOK, IInv, FlowOK
  <2>2. PICK opened \in 0..1 : orders' = [orders EXCEPT ![q.w] = @ + opened]
    BY DEF Answer
  <2>3. QED
    BY <2>1, <2>2
<1>10. CaseOK' /\ FlowOK' /\ RecordsOK' /\ Paired' /\ DOMAIN req' = Requests
  BY <1>1, <1>2 DEF IInv, CaseOK, FlowOK, RecordsOK, Paired
<1>11. QED
  BY <1>7, <1>8, <1>9, <1>10 DEF IInv

-----------------------------------------------------------------------------
(* What is committed. *)

LEMMA InsertWorkflowKeeps ==
    ASSUME IInv, NEW r \in Requests, InsertWorkflow(r)
    PROVE  IInv'
<1>1. PICK w \in Workflows \ DOMAIN flow, action \in Actions :
         flow' = [v \in DOMAIN flow \cup {w} |->
                     IF v \in DOMAIN flow THEN flow[v]
                     ELSE [action |-> action, status |-> "PENDING",
                           steps |-> [i \in DOMAIN StepsOf(action) |-> "PENDING"]]]
  BY DEF InsertWorkflow
<1>2. /\ req' = [req EXCEPT ![r] = Idle] /\ DOMAIN req = Requests
      /\ UNCHANGED <<state, txn, ahead, consent, attempts, executions, orders>>
  BY DEF InsertWorkflow, caseVars, IInv
<1>3. /\ DOMAIN flow' = DOMAIN flow \cup {w}
      /\ \A v \in DOMAIN flow : flow'[v] = flow[v]
      /\ flow'[w] = [action |-> action, status |-> "PENDING",
                     steps |-> [i \in DOMAIN StepsOf(action) |-> "PENDING"]]
  BY <1>1
<1>4. FlowOK'
  <2>1. [i \in DOMAIN StepsOf(action) |-> "PENDING"] \in StepLists
    BY ActionsAssumption DEF StepLists, StepStatuses
  <2>2. flow'[w] \in [action : Actions, status : WorkflowStatuses, steps : StepLists]
    BY <1>3, <2>1 DEF WorkflowStatuses
  <2>3. DOMAIN flow'[w].steps = DOMAIN StepsOf(flow'[w].action)
    BY <1>3
  <2>4. QED
    BY <1>3, <2>2, <2>3 DEF IInv, FlowOK
<1>5. \A o \in Requests : req'[o] = IF o = r THEN Idle ELSE req[o]
  BY <1>2
<1>6. ASSUME NEW o \in Requests PROVE RequestOK(req[o])'
  <2>1. RequestOK(IF o = r THEN Idle ELSE req[o])
    BY IdleOK DEF IInv
  <2>2. QED
    BY <1>2, <1>3, <1>5, <2>1, RequestStaysOK DEF IInv, RecordsOK
<1>7. OneInserted'
  <2>1. ~Inserted(Idle)
    BY DEF Inserted, Idle
  <2>2. QED
    BY <1>5, <2>1 DEF IInv, OneInserted, Inserted
<1>8. CaseOK' /\ RecordsOK' /\ Paired' /\ (orders \in [Workflows -> Nat])'
  BY <1>2, <1>3 DEF IInv, CaseOK, RecordsOK, Paired
<1>9. QED
  BY <1>2, <1>4, <1>6, <1>7, <1>8 DEF IInv

\* The rows of the workflow and its steps.
LEMMA CommitKeepsFlow ==
    ASSUME IInv, NEW r \in Requests, Commit(r)
    PROVE  /\ FlowOK' /\ DOMAIN flow' = DOMAIN flow
           /\ \A w \in DOMAIN flow : flow'[w].action = flow[w].action
<1> DEFINE q == req[r]
           status == IF WorkflowRow \in q.held \cup WantedRows(q) THEN q.status
                     ELSE flow[q.w].status
           steps == [i \in DOMAIN flow[q.w].steps |->
                        IF i \in q.held THEN q.steps[i] ELSE flow[q.w].steps[i]]
<1>1. /\ q.w \in DOMAIN flow /\ q \in RequestRecords
      /\ DOMAIN q.steps = DOMAIN StepsOf(flow[q.w].action)
  BY DEF IInv, RequestOK, LoadedOK, Commit
<1>2. /\ DOMAIN flow' = DOMAIN flow
      /\ \A w \in DOMAIN flow :
            flow'[w] = IF w = q.w THEN [flow[w] EXCEPT !.status = status, !.steps = steps]
                       ELSE flow[w]
  BY <1>1 DEF Commit, IInv, FlowOK
<1>3. status \in WorkflowStatuses
  BY <1>1 DEF RequestRecords, IInv, FlowOK
<1>4. steps \in StepLists /\ DOMAIN steps = DOMAIN StepsOf(flow[q.w].action)
  <2>1. /\ DOMAIN flow[q.w].steps = DOMAIN q.steps /\ flow[q.w].action \in AllActions
        /\ flow[q.w].steps \in StepLists /\ q.steps \in StepLists
    BY <1>1, ActionsAssumption DEF RequestRecords, IInv, FlowOK
  <2>2. \A i \in DOMAIN q.steps : q.steps[i] \in StepStatuses /\ flow[q.w].steps[i] \in StepStatuses
    BY <2>1 DEF StepLists
  <2>3. steps \in [DOMAIN StepsOf(flow[q.w].action) -> StepStatuses]
    BY <1>1, <2>1, <2>2
  <2>4. QED
    BY <2>1, <2>3 DEF StepLists
<1> HIDE DEF status, steps
<1>5. QED
  BY <1>1, <1>2, <1>3, <1>4 DEF IInv, FlowOK

\* The attempt and the execution, if there was a call.
LEMMA CommitKeepsRecords ==
    ASSUME IInv, NEW r \in Requests, Commit(r), DOMAIN flow' = DOMAIN flow
    PROVE  /\ RecordsOK' /\ Paired'
           /\ \/ req[r].outcome = "NONE" /\ UNCHANGED <<attempts, executions>>
              \/ Inserted(req[r]) /\ Len(attempts') = Len(attempts) + 1
<1> DEFINE q == req[r]
           a == [w |-> q.w, status |-> AttemptStatus(q.outcome)]
<1>1. CASE q.outcome = "NONE"
  BY <1>1 DEF Commit, IInv, RecordsOK, Paired
<1>2. CASE q.outcome # "NONE"
  <2>1. /\ attempts' = Append(attempts, a)
        /\ executions' = [w \in DOMAIN executions \cup {q.w} |->
                            IF w = q.w THEN q.outcome ELSE executions[w]]
    BY <1>2 DEF Commit
  <2>2. /\ q \in RequestRecords /\ q.pc = "commit" /\ q.w \in DOMAIN flow
        /\ q.w \in Workflows /\ q.outcome \in Outcomes
    BY <1>2 DEF Commit, IInv, RequestOK, LoadedOK, RequestRecords, FlowOK
  <2>3. Inserted(q) /\ q.w \notin DOMAIN executions /\ q.seq = Len(attempts) + 1
    BY <1>2, <2>2, BoundsAssumption DEF IInv, RequestOK, NumberOK, RequestRecords, Inserted
  <2>4. AttemptStatus(q.outcome) \in {"STARTED", "SUCCEEDED", "UNCERTAIN", "FAILED"}
    BY <2>2 DEF AttemptStatus, Outcomes
  <2> DEFINE A == [w : Workflows, status : {"STARTED", "SUCCEEDED", "UNCERTAIN", "FAILED"}]
  <2>5. attempts \in Seq(A) /\ Len(attempts) \in Nat /\ a \in A
    BY <2>2, <2>4 DEF IInv, RecordsOK
  <2>6. /\ attempts' \in Seq(A) /\ Len(attempts') = Len(attempts) + 1
        /\ DOMAIN attempts = 1..Len(attempts) /\ DOMAIN attempts' = 1..(Len(attempts) + 1)
        /\ \A i \in 1..Len(attempts) : attempts'[i] = attempts[i]
        /\ attempts'[Len(attempts) + 1] = a
    BY <2>1, <2>5, AppendProperties
  <2>7. Len(attempts') <= MaxAttempts
    BY <2>2, <2>3, <2>6 DEF RequestRecords
  <2>8. RecordsOK'
    BY <2>1, <2>2, <2>6, <2>7 DEF IInv, RecordsOK
  <2>9. Paired'
    <3>1. /\ DOMAIN executions' = DOMAIN executions \cup {q.w}
          /\ executions'[q.w] = q.outcome
          /\ \A w \in DOMAIN executions : executions'[w] = executions[w]
      BY <2>1, <2>3
    <3>2. /\ \A i \in DOMAIN attempts : /\ attempts[i].w \in DOMAIN executions
                                        /\ attempts[i].status = AttemptStatus(executions[attempts[i].w])
          /\ \A w \in DOMAIN executions : \E i \in DOMAIN attempts : attempts[i].w = w
          /\ \A i, j \in DOMAIN attempts : attempts[i].w = attempts[j].w => i = j
      BY DEF IInv, Paired
    <3>3. a.w = q.w /\ a.status = AttemptStatus(q.outcome)
      OBVIOUS
    <3> HIDE DEF a, q
    <3>4. ASSUME NEW i \in DOMAIN attempts'
          PROVE  /\ attempts'[i].w \in DOMAIN executions'
                 /\ attempts'[i].status = AttemptStatus(executions'[attempts'[i].w])
      BY <2>3, <2>5, <2>6, <3>1, <3>2, <3>3
    <3>5. ASSUME NEW w \in DOMAIN executions'
          PROVE  \E i \in DOMAIN attempts' : attempts'[i].w = w
      BY <2>5, <2>6, <3>1, <3>2, <3>3
    <3>6. ASSUME NEW i \in DOMAIN attempts', NEW j \in DOMAIN attempts',
                 attempts'[i].w = attempts'[j].w
          PROVE  i = j
      BY <2>3, <2>5, <2>6, <3>2, <3>3, <3>6
    <3>7. QED
      BY <3>4, <3>5, <3>6 DEF Paired
  <2>10. QED
    BY <2>3, <2>6, <2>8, <2>9
<1>3. QED
  BY <1>1, <1>2

LEMMA CommitKeeps ==
    ASSUME IInv, NEW r \in Requests, Commit(r)
    PROVE  IInv'
<1> DEFINE q == req[r]
<1>1. /\ FlowOK' /\ DOMAIN flow' = DOMAIN flow
      /\ \A w \in DOMAIN flow : flow'[w].action = flow[w].action
  BY CommitKeepsFlow
<1>2. /\ RecordsOK' /\ Paired'
      /\ \/ q.outcome = "NONE" /\ UNCHANGED <<attempts, executions>>
         \/ Inserted(q) /\ Len(attempts') = Len(attempts) + 1
  BY <1>1, CommitKeepsRecords
<1>3. /\ req' = [req EXCEPT ![r] = Idle] /\ DOMAIN req = Requests
      /\ UNCHANGED <<txn, ahead, consent, orders>>
  BY DEF Commit, IInv
<1>4. \A o \in Requests : req'[o] = IF o = r THEN Idle ELSE req[o]
  BY <1>3
<1>5. ASSUME NEW o \in Requests PROVE RequestOK(req[o])'
  <2>1. CASE o = r
    <3>1. RequestOK(Idle) /\ ~Inserted(Idle)
      BY IdleOK DEF Inserted, Idle
    <3>2. RequestOK(Idle)'
      BY <1>1, <1>2, <3>1, RequestStaysOK DEF IInv, RecordsOK
    <3>3. QED
      BY <1>4, <2>1, <3>2
  <2>2. CASE o # r
    <3>1. RequestOK(req[o]) /\ (Inserted(q) => ~Inserted(req[o]))
      BY <2>2 DEF IInv, OneInserted
    <3>2. RequestOK(req[o]) /\ req'[o] = req[o]
      BY <1>4, <2>2, <3>1
    <3>3. Len(attempts) \in Nat /\ Len(attempts') \in Nat
      BY <1>2 DEF IInv, RecordsOK
    <3>4. \/ UNCHANGED <<attempts, executions>>
          \/ ~Inserted(req[o]) /\ Len(attempts') > Len(attempts)
      BY <1>2, <3>1, <3>3
    <3>5. ASSUME NEW x, x = req[o] PROVE RequestOK(x)'
      <4>1. RequestOK(x) /\ (Inserted(x) <=> Inserted(req[o]))
        BY <3>1, <3>5
      <4>2. QED
        BY <1>1, <3>3, <3>4, <4>1, RequestStaysOK
    <3>6. QED
      BY <3>2, <3>5
  <2>3. QED
    BY <2>1, <2>2
<1>6. OneInserted'
  <2>1. ~Inserted(Idle)
    BY DEF Inserted, Idle
  <2>2. QED
    BY <1>4, <2>1 DEF IInv, OneInserted, Inserted
<1>7. CaseOK'
  <2>1. state' \in States
    BY DEF Commit, IInv, CaseOK, RequestOK, LoadedOK
  <2>2. QED
    BY <1>3, <2>1 DEF IInv, CaseOK
<1>8. QED
  BY <1>1, <1>2, <1>3, <1>5, <1>6, <1>7 DEF IInv

-----------------------------------------------------------------------------
(* Everything else. *)

LEMMA CrashKeeps ==
    ASSUME IInv, NEW r \in Requests, Crash(r)
    PROVE  IInv'
<1>1. /\ req' = [req EXCEPT ![r] = Idle] /\ DOMAIN req = Requests
      /\ UNCHANGED <<state, txn, ahead, consent, flow, attempts, executions>>
  BY DEF Crash, caseVars, IInv
<1>2. \A o \in Requests : req'[o] = IF o = r THEN Idle ELSE req[o]
  BY <1>1
<1>3. ASSUME NEW o \in Requests PROVE RequestOK(req[o])'
  <2>1. RequestOK(IF o = r THEN Idle ELSE req[o])
    BY IdleOK DEF IInv
  <2>2. QED
    BY <1>1, <1>2, <2>1, RequestStaysOK DEF IInv, RecordsOK
<1>4. OneInserted'
  <2>1. ~Inserted(Idle)
    BY DEF Inserted, Idle
  <2>2. QED
    BY <1>2, <2>1 DEF IInv, OneInserted, Inserted
<1>5. orders' \in [Workflows -> Nat]
  BY DEF Crash, IInv
<1>6. CaseOK' /\ FlowOK' /\ RecordsOK' /\ Paired'
  BY <1>1 DEF IInv, CaseOK, FlowOK, RecordsOK, Paired
<1>7. QED
  BY <1>1, <1>3, <1>4, <1>5, <1>6 DEF IInv

\* What the rest of the program does to the case keeps it a case.
LEMMA CaseNextType ==
    ASSUME state \in States, txn \in TxnStatuses, ahead \in BOOLEAN, CaseNext
    PROVE  txn' \in TxnStatuses /\ ahead' \in BOOLEAN
<1> USE DEF TxnStatuses
<1>1. CASE \E to \in States : OperatorMoves(to)
  BY <1>1 DEF OperatorMoves
<1>2. CASE CaseUpdated \/ FailureReported \/ Recommended
  BY <1>2 DEF CaseUpdated, FailureReported, Recommended, Annotate
<1>3. CASE SuccessReported
  BY <1>3 DEF SuccessReported
<1>4. CASE PolicyEvaluated
  BY <1>4 DEF PolicyEvaluated, Annotate
<1>5. CASE ServiceMoved
  BY <1>5 DEF ServiceMoved
<1>6. CASE \E provider \in ProviderStatuses : Reconciled(provider)
  BY <1>6 DEF Reconciled
<1>7. QED
  BY <1>1, <1>2, <1>3, <1>4, <1>5, <1>6 DEF CaseNext

LEMMA OthersKeep ==
    ASSUME IInv, CaseDisturbed \/ ConsentChanges \/ UNCHANGED vars
    PROVE  IInv'
<1>1. UNCHANGED <<flow, attempts, executions, orders, req>>
  BY DEF CaseDisturbed, ConsentChanges, vars, wfVars
<1>2. CaseOK'
  <2>1. CASE CaseDisturbed
    BY <2>1, CaseNextType, DisturbancesAssumption DEF CaseDisturbed, wfVars, IInv, CaseOK
  <2>2. CASE ConsentChanges \/ UNCHANGED vars
    BY <2>2 DEF ConsentChanges, vars, wfVars, caseVars, IInv, CaseOK
  <2>3. QED
    BY <2>1, <2>2
<1>3. ASSUME NEW o \in Requests PROVE RequestOK(req[o])'
  <2>1. RequestOK(req[o]) /\ req'[o] = req[o]
    BY <1>1 DEF IInv
  <2>2. \A x : x = req[o] => RequestOK(x)'
    BY <1>1, <2>1, RequestStaysOK DEF IInv, RecordsOK
  <2>3. QED
    BY <2>1, <2>2
<1>4. FlowOK' /\ RecordsOK' /\ Paired' /\ OneInserted'
  BY <1>1 DEF IInv, FlowOK, RecordsOK, Paired, OneInserted
<1>5. QED
  BY <1>1, <1>2, <1>3, <1>4 DEF IInv

LEMMA InitOK == Init => IInv
<1> SUFFICES ASSUME Init PROVE IInv
  OBVIOUS
<1>1. CaseOK /\ FlowOK /\ RecordsOK /\ Paired /\ orders \in [Workflows -> Nat]
  BY BoundsAssumption
     DEF Init, CaseOK, FlowOK, RecordsOK, Paired, States, TxnStatuses
<1>2. \A r \in Requests : req[r] = Idle
  BY DEF Init
<1>3. OneInserted
  BY <1>2 DEF OneInserted, Inserted, Idle
<1>4. QED
  BY <1>1, <1>2, <1>3, IdleOK DEF Init, IInv

LEMMA StepKeeps == IInv /\ [Next]_vars => IInv'
<1> SUFFICES ASSUME IInv, [Next]_vars PROVE IInv'
  OBVIOUS
<1>1. ASSUME NEW r \in Requests, Proceeds(r) PROVE IInv'
  BY <1>1, InsertWorkflowKeeps, LoadCaseKeeps, RunStepKeeps, InsertAttemptKeeps, AnswerKeeps,
     RecordKeeps, MoveCaseKeeps, CommitKeeps, RollBackKeeps DEF Proceeds, RollBack
<1>2. QED
  BY <1>1, CheckCreateKeeps, OpenKeeps, CrashKeeps, OthersKeep DEF Next

LEMMA Invariance == Spec => []IInv
BY InitOK, StepKeeps, PTL DEF Spec

-----------------------------------------------------------------------------
(* What follows. *)

\* What WorkflowCreationService and WorkflowExecutionService commit keeps its type, with
\* any requests and workflows.
THEOREM TypeCorrect == Spec => []TypeOK
<1>1. IInv => TypeOK
  <2> SUFFICES ASSUME IInv PROVE TypeOK
    OBVIOUS
  <2>1. ASSUME NEW w \in DOMAIN flow
        PROVE  /\ flow[w].action \in Actions /\ flow[w].status \in WorkflowStatuses
               /\ flow[w].steps \in [DOMAIN StepsOf(flow[w].action) -> StepStatuses]
    BY DEF IInv, FlowOK, StepLists
  <2>2. ASSUME NEW r \in Requests
        PROVE  /\ req[r].pc \in PCs /\ req[r].seq \in 0..MaxAttempts
               /\ req[r].pc \notin {"idle", "create"} => req[r].w \in DOMAIN flow
    BY DEF IInv, RequestOK, RequestRecords, LoadedOK
  <2>3. QED
    BY <2>1, <2>2 DEF IInv, CaseOK, FlowOK, RecordsOK, TypeOK
<1>2. QED
  BY <1>1, Invariance, PTL

\* WorkflowExecutionService, _execute_dispatch_payment_retry: an attempt that is
\* flushed keeps every other request from the gateway until it is committed.
THEOREM OneCall == Spec => []OneCallAtATime
<1>1. IInv => OneCallAtATime
  BY DEF IInv, OneInserted, Inserted, RequestOK, NumberOK, OneCallAtATime
<1>2. QED
  BY <1>1, Invariance, PTL

\* WorkflowRevalidationService reads executions before the wait for the number: the
\* number is taken if one of unknown outcome has been committed since.
THEOREM CallsNotBesideUnknown == Spec => []NoCallBesideUnknown
<1>1. IInv => NoCallBesideUnknown
  BY DEF IInv, RequestOK, NumberOK, Inserted, NoneUnknown, NoCallBesideUnknown
<1>2. QED
  BY <1>1, Invariance, PTL

\* WorkflowRevalidationService.max_retry_attempts holds for any number of requests.
THEOREM LimitHolds == Spec => []AttemptLimitHolds
<1>1. IInv => AttemptLimitHolds
  BY DEF IInv, RecordsOK, AttemptLimitHolds
<1>2. QED
  BY <1>1, Invariance, PTL

\* recovery_attempts and recovery_executions tell the same story.
THEOREM OneAttemptEach == Spec => []AttemptsMatchExecutions
<1>1. IInv => AttemptsMatchExecutions
  <2> SUFFICES ASSUME IInv PROVE AttemptsMatchExecutions
    OBVIOUS
  <2>1. ASSUME NEW w \in DOMAIN executions
        PROVE  Cardinality({i \in DOMAIN attempts : attempts[i].w = w}) = 1
    <3>1. PICK i \in DOMAIN attempts : attempts[i].w = w
      BY DEF IInv, Paired
    <3>2. {j \in DOMAIN attempts : attempts[j].w = w} = {i}
      BY <3>1 DEF IInv, Paired
    <3>3. QED
      BY <3>2, FS_Singleton
  <2>2. QED
    BY <2>1 DEF IInv, Paired, AttemptsMatchExecutions
<1>2. QED
  BY <1>1, Invariance, PTL

-----------------------------------------------------------------------------
(* One request at a time, and no other mover of the case.                    *)

\* One request, and nothing but it moves the case; it may crash, and consent change.
Alone == (\E r : Requests = {r}) /\ "case" \notin Disturbances

\* A status fits the steps: they are taken in order, none has failed or waits
\* while the workflow runs, and what an unknown outcome leaves to do is to await
\* verification.
FitsSteps(action, status, steps) ==
    /\ \A i, j \in DOMAIN steps : i < j /\ steps[i] = "PENDING" => steps[j] = "PENDING"
    /\ status \in {"PENDING", "RUNNING"} => \A i \in DOMAIN steps : steps[i] \notin {"FAILED", "WAITING"}
    /\ status = "FAILED" => \E i \in DOMAIN steps : steps[i] = "FAILED"
    /\ status \in {"COMPLETED", "WAITING"} => \A i \in DOMAIN steps : steps[i] # "PENDING"
    /\ status = "REQUIRES_REVIEW" =>
          \A i \in DOMAIN steps : steps[i] = "PENDING" => StepsOf(action)[i] = "await"

FlowFits == \A w \in DOMAIN flow : FitsSteps(flow[w].action, flow[w].status, flow[w].steps)

\* A request has changed the steps and the status it holds the rows of, and no
\* others.
RowsFit(q) ==
    q.pc \notin {"idle", "create"} =>
        /\ FitsSteps(flow[q.w].action, q.status, q.steps)
        /\ \A i \in DOMAIN q.steps : i \notin q.held => q.steps[i] = flow[q.w].steps[i]
        /\ q.pc \in {"load", "ready"} =>
              /\ q.status \notin EndedStatuses
              /\ WorkflowRow \notin q.held => q.status = flow[q.w].status
        /\ q.pc \in {"insert", "calling", "record"} => q.status = "RUNNING" /\ NextStep(q) \in q.held
        /\ q.status = "RUNNING" /\ WorkflowRow \notin q.held => flow[q.w].status = "RUNNING"
        /\ q.outcome # "NONE" /\ q.pc # "record" =>
              \A i \in DOMAIN q.steps :
                 q.steps[i] = "PENDING" => StepsOf(flow[q.w].action)[i] = "await"

\* Where an outcome moves the case.
MovedBy(outcome) ==
    CASE outcome \in {"SUBMITTED", "SUCCEEDED"} -> "VERIFICATION_PENDING"
      [] outcome = "UNKNOWN" -> "ESCALATED"
      [] OTHER -> "STOPPED"

SomeUnknown == \E w \in DOMAIN executions : executions[w] = "UNKNOWN"

\* What a request does to the case is what its outcome says, and it has an
\* outcome only of a call for a case that could be acted on.
CaseFits(q) ==
    /\ q.outcome # "NONE" => state = "ACTION_PENDING"
    /\ q.pc \in {"load", "ready"} =>
          IF CaseRow \in q.held
          THEN q.outcome \in {"SUBMITTED", "SUCCEEDED"} /\ q.move = "VERIFICATION_PENDING"
          ELSE q.outcome = "NONE"
    /\ q.pc = "ready" /\ CaseRow \notin q.held => q.seen = state
    /\ q.pc \in {"insert", "calling", "record"} =>
          CaseRow \notin q.held /\ q.seen = "ACTION_PENDING" /\ state = "ACTION_PENDING"
    /\ q.pc = "move" =>
          /\ CaseRow \notin q.held /\ q.seen = state
          /\ IF q.outcome = "NONE"
             THEN q.move = "STOPPED" \/ (q.move = "ESCALATED" /\ SomeUnknown)
             ELSE q.move = MovedBy(q.outcome)
          /\ q.status = "RUNNING" => q.outcome \in {"SUBMITTED", "SUCCEEDED"}
    /\ q.pc = "commit" =>
          IF CaseRow \in q.held THEN q.move = MovedBy(q.outcome) /\ state = "ACTION_PENDING"
                                ELSE q.outcome \in {"NONE", "FAILED"}

CaseTold ==
    /\ state \in {"ACTION_PENDING", "VERIFICATION_PENDING", "ESCALATED", "STOPPED"}
    /\ OnlyFailuresAreRetried /\ CaseFollowsOutcome

AInv ==
    /\ IInv /\ FlowFits /\ CaseTold
    /\ \A r \in Requests : RowsFit(req[r]) /\ CaseFits(req[r])

-----------------------------------------------------------------------------
(* Steps and statuses. *)

\* A retry is awaited last, right after its dispatch.
LEMMA AwaitIsLast ==
    ASSUME NEW a, NEW i \in DOMAIN StepsOf(a), NEW j \in DOMAIN StepsOf(a), i < j
    PROVE  StepsOf(a)[i] # "await" /\ (StepsOf(a)[i] = "dispatch" => StepsOf(a)[j] = "await")
BY DEF StepsOf

\* How a step of type t may end, and the workflow with it.
Endings(t) ==
    {<<"FAILED", "FAILED">>}
        \cup (IF t = "await" THEN {<<"WAITING", "WAITING">>} ELSE {<<"COMPLETED", "RUNNING">>})
        \cup (IF t = "dispatch" THEN {<<"FAILED", "REQUIRES_REVIEW">>} ELSE {})

\* The end of the first step that is pending leaves status and steps in agreement.
LEMMA EndFits ==
    ASSUME NEW a, NEW steps, NEW k \in Nat, DOMAIN steps = 1..k, DOMAIN StepsOf(a) = 1..k,
           NEW n \in 1..k, steps[n] = "PENDING", \A j \in 1..(n - 1) : steps[j] # "PENDING",
           NEW status \in WorkflowStatuses \ EndedStatuses, FitsSteps(a, status, steps),
           NEW s, NEW f, <<s, f>> \in Endings(StepsOf(a)[n])
    PROVE  /\ FitsSteps(a, f, [steps EXCEPT ![n] = s])
           /\ StepsOf(a)[n] # "await" => status \in {"PENDING", "RUNNING"}
<1> DEFINE t == StepsOf(a)[n]
           l == [steps EXCEPT ![n] = s]
<1>1. /\ DOMAIN l = 1..k /\ l[n] = s /\ \A i \in 1..k : i # n => l[i] = steps[i]
      /\ s # "PENDING"
  BY DEF Endings
<1>2. \A i \in 1..k : l[i] = "PENDING" => i > n /\ steps[i] = "PENDING"
  BY <1>1
<1>3. t # "await" => status \in {"PENDING", "RUNNING"}
  BY DEF FitsSteps, WorkflowStatuses, EndedStatuses
<1>4. \A i \in 1..k : i > n => /\ t # "await"
                               /\ t = "dispatch" => StepsOf(a)[i] = "await"
  BY AwaitIsLast
<1>5. \/ s = "FAILED" /\ f = "FAILED"
      \/ s = "WAITING" /\ f = "WAITING" /\ t = "await"
      \/ s = "COMPLETED" /\ f = "RUNNING" /\ t # "await"
      \/ s = "FAILED" /\ f = "REQUIRES_REVIEW" /\ t = "dispatch"
  BY DEF Endings
<1> HIDE DEF l, t
<1>6. \A i, j \in DOMAIN l : i < j /\ l[i] = "PENDING" => l[j] = "PENDING"
  BY <1>1, <1>2 DEF FitsSteps
<1>7. f \in {"PENDING", "RUNNING"} => \A i \in DOMAIN l : l[i] \notin {"FAILED", "WAITING"}
  BY <1>1, <1>3, <1>5 DEF FitsSteps
<1>8. f = "FAILED" => \E i \in DOMAIN l : l[i] = "FAILED"
  BY <1>1, <1>5
<1>9. f \in {"COMPLETED", "WAITING"} => \A i \in DOMAIN l : l[i] # "PENDING"
  BY <1>1, <1>2, <1>4, <1>5
<1>10. f = "REQUIRES_REVIEW" => \A i \in DOMAIN l : l[i] = "PENDING" => StepsOf(a)[i] = "await"
  BY <1>1, <1>2, <1>4, <1>5
<1>11. FitsSteps(a, f, l)
  BY <1>6, <1>7, <1>8, <1>9, <1>10 DEF FitsSteps
<1>12. QED
  BY <1>3, <1>11 DEF l, t

\* What the end of a step leaves as it is, and what of the rows.
LEMMA StepEndsFits ==
    ASSUME NEW q, RequestOK(q), RowsFit(q), q.pc \in {"ready", "record"},
           NEW s, NEW f, <<s, f>> \in Endings(StepType(q))
    PROVE  LET e == StepEnds(q, s, f) IN
           /\ RowsFit(e) /\ e \in RequestRecords
           /\ e.pc = IF q.all /\ s = "COMPLETED" THEN "load" ELSE "commit"
           /\ e.status = f /\ e.outcome = q.outcome /\ e.move = q.move /\ e.seen = q.seen
           /\ CaseRow \in e.held <=> CaseRow \in q.held
<1> DEFINE e == StepEnds(q, s, f)
           n == NextStep(q)
           a == flow[q.w].action
<1>1. /\ n \in 1..4 /\ n \in DOMAIN q.steps /\ q.steps[n] = "PENDING"
      /\ \A j \in 1..(n - 1) : q.steps[j] # "PENDING"
      /\ q \in RequestRecords
  BY AtPendingStep DEF RequestOK
<1>2. PICK k \in 0..4 : DOMAIN StepsOf(a) = 1..k
  BY StepDomains
<1>3. DOMAIN q.steps = 1..k /\ StepType(q) = StepsOf(a)[n]
  BY <1>2 DEF RequestOK, LoadedOK, StepType
<1>4. /\ FitsSteps(a, q.status, q.steps)
      /\ \A i \in DOMAIN q.steps : i \notin q.held => q.steps[i] = flow[q.w].steps[i]
      /\ q.pc = "ready" => q.status \notin EndedStatuses
      /\ q.pc = "record" => q.status = "RUNNING"
      /\ q.status = "RUNNING" /\ WorkflowRow \notin q.held => flow[q.w].status = "RUNNING"
      /\ q.outcome # "NONE" /\ q.pc # "record" =>
            \A i \in DOMAIN q.steps : q.steps[i] = "PENDING" => StepsOf(a)[i] = "await"
  BY DEF RowsFit
<1>5. q.status \in WorkflowStatuses \ EndedStatuses
  BY <1>1, <1>4 DEF RequestRecords, WorkflowStatuses, EndedStatuses
<1>6. FitsSteps(a, f, [q.steps EXCEPT ![n] = s])
  <2> DEFINE l == q.steps
             c == q.status
  <2>1. /\ k \in Nat /\ DOMAIN l = 1..k /\ DOMAIN StepsOf(a) = 1..k /\ n \in 1..k
        /\ l[n] = "PENDING" /\ \A j \in 1..(n - 1) : l[j] # "PENDING"
    BY <1>1, <1>2, <1>3
  <2>2. c \in WorkflowStatuses \ EndedStatuses /\ FitsSteps(a, c, l)
    BY <1>4, <1>5
  <2>3. <<s, f>> \in Endings(StepsOf(a)[n])
    BY <1>3
  <2> HIDE DEF a, n, l, c
  <2>4. FitsSteps(a, f, [l EXCEPT ![n] = s])
    BY <2>1, <2>2, <2>3, EndFits
  <2>5. QED
    BY <2>4 DEF l
<1>7. /\ WantedRows(q) \subseteq {WorkflowRow, n}
      /\ WorkflowRow \notin WantedRows(q) => q.status = "RUNNING"
  BY <1>4 DEF WantedRows
<1>8. /\ e.pc = IF q.all /\ s = "COMPLETED" THEN "load" ELSE "commit"
      /\ e.w = q.w /\ e.status = f /\ e.outcome = q.outcome /\ e.move = q.move /\ e.seen = q.seen
      /\ e.steps = [q.steps EXCEPT ![n] = s]
      /\ e.held = (q.held \cup WantedRows(q)) \cup {n}
  BY <1>1 DEF StepEnds, RequestRecords
<1>9. CaseRow \in e.held <=> CaseRow \in q.held
  BY <1>1, <1>7, <1>8 DEF CaseRow, WorkflowRow
<1>10. WorkflowRow \notin e.held => flow[q.w].status = "RUNNING"
  BY <1>4, <1>7, <1>8
<1>11. /\ s \in {"COMPLETED", "FAILED", "WAITING"} /\ f \in WorkflowStatuses
       /\ s = "COMPLETED" => f = "RUNNING"
  BY DEF Endings, WorkflowStatuses
<1>12. \A i \in DOMAIN e.steps : i # n => e.steps[i] = q.steps[i]
  BY <1>8
<1>13. DOMAIN e.steps = DOMAIN q.steps /\ e.steps[n] = s
  BY <1>1, <1>8
<1>14. ASSUME q.outcome # "NONE", NEW i \in DOMAIN e.steps, e.steps[i] = "PENDING"
       PROVE  StepsOf(a)[i] = "await"
  <2>1. i # n /\ q.steps[i] = "PENDING" /\ i \in 1..k /\ i > n
    BY <1>1, <1>3, <1>11, <1>12, <1>13, <1>14
  <2>2. CASE q.pc = "ready"
    BY <1>4, <1>13, <1>14, <2>1, <2>2
  <2>3. CASE q.pc = "record"
    <3>1. StepsOf(a)[n] = "dispatch"
      BY <1>3, <2>3 DEF RequestOK, LoadedOK
    <3>2. QED
      BY <1>1, <1>2, <1>3, <2>1, <3>1, AwaitIsLast
  <2>4. QED
    BY <2>2, <2>3
<1>15. e \in RequestRecords
  <2>1. e.steps \in StepLists
    <3>1. q.steps \in StepLists /\ s \in StepStatuses
      BY <1>1, <1>11 DEF RequestRecords, StepStatuses
    <3>2. [q.steps EXCEPT ![n] = s] \in StepLists
      BY <3>1, StepListUpdate, Zenon
    <3>3. QED
      BY <1>8, <3>2, Zenon
  <2>2. e.held \in SUBSET (0..9)
    BY <1>1, <1>7, <1>8 DEF RequestRecords, WorkflowRow
  <2>3. \A p \in PCs, l \in StepLists, h \in SUBSET (0..9) :
           [q EXCEPT !.pc = p, !.status = f, !.steps = l, !.held = h] \in RequestRecords
    BY <1>1, <1>11 DEF RequestRecords
  <2>4. e = [q EXCEPT !.pc = e.pc, !.status = f, !.steps = e.steps, !.held = e.held]
    BY <1>8, Zenon DEF StepEnds
  <2>5. e.pc \in PCs
    BY <1>8 DEF PCs
  <2> HIDE DEF e
  <2>6. [q EXCEPT !.pc = e.pc, !.status = f, !.steps = e.steps, !.held = e.held]
           \in RequestRecords
    BY <2>1, <2>2, <2>3, <2>5, Zenon
  <2>7. QED
    BY <2>4, <2>6, Zenon
<1> HIDE DEF e, n
<1>16. RowsFit(e)
  <2>1. FitsSteps(flow[e.w].action, e.status, e.steps)
    BY <1>6, <1>8
  <2>2. \A i \in DOMAIN e.steps : i \notin e.held => e.steps[i] = flow[e.w].steps[i]
    BY <1>4, <1>8, <1>12, <1>13
  <2>3. e.pc = "load" => /\ e.status \notin EndedStatuses
                         /\ WorkflowRow \notin e.held => e.status = flow[e.w].status
    BY <1>8, <1>10, <1>11 DEF EndedStatuses
  <2>4. QED
    BY <1>8, <1>10, <1>14, <2>1, <2>2, <2>3 DEF RowsFit
<1>17. QED
  BY <1>8, <1>9, <1>15, <1>16 DEF e

\* A request that moves on and commits nothing leaves what fits fitting.
LEMMA MovesOn ==
    ASSUME AInv, IInv', NEW r \in Requests, NEW q, req' = [req EXCEPT ![r] = q],
           UNCHANGED <<state, flow, attempts, executions>>, RowsFit(q), CaseFits(q)
    PROVE  AInv'
<1>1. \A o \in Requests : req'[o] = IF o = r THEN q ELSE req[o]
  BY DEF AInv, IInv
<1>2. ASSUME NEW x, RowsFit(x), CaseFits(x) PROVE RowsFit(x)' /\ CaseFits(x)'
  <2>1. RowsFit(x)'
    BY <1>2 DEF RowsFit
  <2>2. CaseFits(x)'
    BY <1>2 DEF CaseFits, SomeUnknown
  <2>3. QED
    BY <2>1, <2>2
<1>3. ASSUME NEW o \in Requests PROVE (RowsFit(req[o]) /\ CaseFits(req[o]))'
  <2>1. RowsFit(IF o = r THEN q ELSE req[o]) /\ CaseFits(IF o = r THEN q ELSE req[o])
    BY DEF AInv
  <2>2. QED
    BY <1>1, <1>2, <2>1
<1>4. FlowFits' /\ CaseTold'
  BY DEF AInv, FlowFits, CaseTold, OnlyFailuresAreRetried, CaseFollowsOutcome
<1>5. QED
  BY <1>3, <1>4 DEF AInv

LEMMA IdleFits == RowsFit(Idle) /\ CaseFits(Idle)
BY DEF Idle, RowsFit, CaseFits

LEMMA MovingFits ==
    ASSUME NEW q, q \in RequestRecords, q.pc \in {"load", "commit"}, RowsFit(q), NEW to \in States
    PROVE  LET m == Moving(q, to) IN
           /\ RowsFit(m)
           /\ m.pc = "move" /\ m.move = to /\ m.held = q.held /\ m.outcome = q.outcome
           /\ m.seen = q.seen /\ m.status = q.status
<1> DEFINE m == Moving(q, to)
<1>1. /\ m.pc = "move" /\ m.w = q.w /\ m.steps = q.steps /\ m.move = to /\ m.status = q.status
      /\ m.outcome = q.outcome /\ m.held = q.held /\ m.seen = q.seen
  BY DEF Moving, RequestRecords
<1> HIDE DEF m
<1>2. RowsFit(m)
  BY <1>1 DEF RowsFit
<1>3. QED
  BY <1>1, <1>2 DEF m

-----------------------------------------------------------------------------
(* What fits stays fitting: requests that load and execute. *)

LEMMA OpenFits ==
    ASSUME AInv, IInv', NEW r \in Requests, NEW w \in DOMAIN flow, NEW all \in BOOLEAN,
           Open(r, w, all)
    PROVE  AInv'
<1> DEFINE q == [Idle EXCEPT !.pc = "load", !.w = w, !.all = all,
                             !.status = flow[w].status, !.steps = flow[w].steps]
<1>1. /\ q.pc = "load" /\ q.w = w /\ q.steps = flow[w].steps /\ q.status = flow[w].status
      /\ q.held = {} /\ q.outcome = "NONE"
  BY DEF Idle
<1>2. flow[w].status \notin EndedStatuses
  BY DEF Open
<1>3. Goes(r, q)
  BY DEF q, Open
<1> HIDE DEF q
<1>4. RowsFit(q)
  BY <1>1, <1>2 DEF AInv, FlowFits, RowsFit
<1>5. CaseFits(q)
  BY <1>1 DEF CaseFits
<1>6. QED
  BY <1>3, <1>4, <1>5, MovesOn DEF Goes, caseVars, wfVars

LEMMA CheckCreateFits ==
    ASSUME AInv, IInv', NEW r \in Requests, CheckCreate(r)
    PROVE  AInv'
<1> DEFINE q == [Idle EXCEPT !.pc = "create"]
<1>1. q.pc = "create" /\ q.outcome = "NONE"
  BY DEF Idle
<1>2. Goes(r, q)
  BY DEF CheckCreate
<1> HIDE DEF q
<1>3. RowsFit(q) /\ CaseFits(q)
  BY <1>1 DEF RowsFit, CaseFits
<1>4. QED
  BY <1>2, <1>3, MovesOn DEF Goes, caseVars, wfVars

\* With no step left, none failed and none is left to await.
LEMMA LoadCaseFits ==
    ASSUME AInv, IInv', NEW r \in Requests, LoadCase(r)
    PROVE  AInv'
<1> DEFINE q == req[r]
           done == [q EXCEPT !.pc = "commit", !.status = "COMPLETED"]
           seen == IF CaseRow \in q.held THEN q.move ELSE state
           ready == [q EXCEPT !.pc = "ready", !.seen = seen]
<1>1. /\ q.pc = "load" /\ q \in RequestRecords /\ RowsFit(q) /\ CaseFits(q)
  BY DEF AInv, IInv, LoadCase, RequestOK
<1>2. CASE \A i \in DOMAIN q.steps : q.steps[i] # "PENDING"
  <2>1. /\ done.pc = "commit" /\ done.w = q.w /\ done.steps = q.steps /\ done.held = q.held
        /\ done.move = q.move /\ done.outcome = q.outcome /\ done.status = "COMPLETED"
    BY <1>1 DEF RequestRecords
  <2>2. Goes(r, done)
    BY <1>2 DEF LoadCase
  <2> HIDE DEF done, q
  <2>3. RowsFit(done)
    BY <1>1, <1>2, <2>1 DEF RowsFit, FitsSteps
  <2>4. CaseFits(done)
    BY <1>1, <2>1 DEF CaseFits, MovedBy
  <2>5. QED
    BY <2>2, <2>3, <2>4, MovesOn DEF Goes, caseVars, wfVars
<1>3. CASE \E i \in DOMAIN q.steps : q.steps[i] = "PENDING"
  <2>1. /\ ready.pc = "ready" /\ ready.w = q.w /\ ready.steps = q.steps /\ ready.held = q.held
        /\ ready.move = q.move /\ ready.outcome = q.outcome /\ ready.status = q.status
        /\ ready.seen = seen
    BY <1>1 DEF RequestRecords
  <2>2. Goes(r, ready)
    BY <1>3 DEF LoadCase
  <2> HIDE DEF ready, q
  <2>3. RowsFit(ready)
    BY <1>1, <2>1 DEF RowsFit
  <2>4. CaseFits(ready)
    BY <1>1, <2>1 DEF CaseFits
  <2>5. QED
    BY <2>2, <2>3, <2>4, MovesOn DEF Goes, caseVars, wfVars
<1>4. QED
  BY <1>2, <1>3

\* The end of a step before any call, or after the call and the move of the case.
LEMMA EndedFits ==
    ASSUME AInv, IInv', NEW r \in Requests, req[r].pc = "ready",
           NEW s, NEW f, <<s, f>> \in Endings(StepType(req[r])), Goes(r, StepEnds(req[r], s, f))
    PROVE  AInv'
<1> DEFINE q == req[r]
           e == StepEnds(q, s, f)
<1>1. RequestOK(q) /\ RowsFit(q) /\ CaseFits(q) /\ q.pc = "ready"
  BY DEF AInv, IInv
<1>2. /\ RowsFit(e) /\ e.pc \in {"load", "commit"} /\ e.outcome = q.outcome /\ e.move = q.move
      /\ CaseRow \in e.held <=> CaseRow \in q.held
  BY <1>1, StepEndsFits
<1>3. Goes(r, e)
  OBVIOUS
<1> HIDE DEF e, q
<1>4. CaseFits(e)
  BY <1>1, <1>2 DEF CaseFits, MovedBy
<1>5. QED
  BY <1>2, <1>3, <1>4, MovesOn DEF Goes, caseVars, wfVars

\* Only awaiting verification is left to do after a call: before any other step
\* there was none, and the workflow is not in review.
LEMMA BeforeTheCall ==
    ASSUME NEW q, RequestOK(q), RowsFit(q), CaseFits(q), q.pc = "ready", StepType(q) # "await"
    PROVE  /\ CaseRow \notin q.held /\ q.outcome = "NONE" /\ q.seen = state
           /\ q.status \in {"PENDING", "RUNNING"}
<1> DEFINE n == NextStep(q)
           a == flow[q.w].action
<1>1. /\ n \in 1..4 /\ n \in DOMAIN q.steps /\ q.steps[n] = "PENDING" /\ n \in DOMAIN StepsOf(a)
      /\ StepType(q) = StepsOf(a)[n] /\ q \in RequestRecords
  BY AtPendingStep DEF RequestOK, StepType
<1> HIDE DEF n
<1>2. FitsSteps(a, q.status, q.steps) /\ q.status \notin EndedStatuses
  BY DEF RowsFit
<1>3. q.outcome = "NONE"
  BY <1>1 DEF RowsFit
<1>4. q.status \in {"PENDING", "RUNNING"}
  BY <1>1, <1>2 DEF FitsSteps, RequestRecords, WorkflowStatuses, EndedStatuses
<1>5. QED
  BY <1>3, <1>4 DEF CaseFits

LEMMA ValidateFits ==
    ASSUME AInv, IInv', NEW r \in Requests, req[r].pc = "ready", Validate(r)
    PROVE  AInv'
<1> DEFINE q == req[r]
           refusal == Refusal(q, flow[q.w].action)
           e == StepEnds(q, "FAILED", "FAILED")
           to == IF refusal = "UNRESOLVED_UNKNOWN_OUTCOME" THEN "ESCALATED" ELSE "STOPPED"
           m == Moving(e, to)
<1>1. /\ RequestOK(q) /\ RowsFit(q) /\ CaseFits(q) /\ q.pc = "ready" /\ StepType(q) = "validate"
      /\ <<"COMPLETED", "RUNNING">> \in Endings("validate")
      /\ <<"FAILED", "FAILED">> \in Endings("validate")
  BY DEF AInv, IInv, Validate, Endings
<1>2. CASE refusal = "NONE"
  <2>1. Goes(r, StepEnds(q, "COMPLETED", "RUNNING"))
    BY <1>2 DEF Validate
  <2>2. QED
    BY <1>1, <2>1, EndedFits
<1>3. CASE refusal # "NONE"
  <2>1. Goes(r, m)
    BY <1>3 DEF Validate
  <2>2. refusal = "UNRESOLVED_UNKNOWN_OUTCOME" => SomeUnknown
    BY DEF Refusal, SomeUnknown
  <2>3. to \in States /\ (to = "STOPPED" \/ (to = "ESCALATED" /\ SomeUnknown))
    BY <2>2 DEF States
  <2>4. /\ RowsFit(e) /\ e \in RequestRecords /\ e.pc = "commit" /\ e.status = "FAILED"
        /\ e.outcome = q.outcome /\ e.seen = q.seen
        /\ CaseRow \in e.held <=> CaseRow \in q.held
    BY <1>1, StepEndsFits
  <2>5. CaseRow \notin q.held /\ q.outcome = "NONE" /\ q.seen = state
    BY <1>1, BeforeTheCall
  <2> HIDE DEF e, to
  <2>6. /\ RowsFit(m) /\ m.pc = "move" /\ m.move = to /\ m.held = e.held
        /\ m.outcome = e.outcome /\ m.seen = e.seen /\ m.status = e.status
    BY <2>3, <2>4, MovingFits
  <2> HIDE DEF m, q
  <2>7. CaseFits(m)
    BY <2>3, <2>4, <2>5, <2>6 DEF CaseFits
  <2>8. QED
    BY <2>1, <2>6, <2>7, MovesOn DEF Goes, caseVars, wfVars
<1>4. QED
  BY <1>2, <1>3

LEMMA DispatchFits ==
    ASSUME AInv, IInv', NEW r \in Requests, req[r].pc = "ready", Dispatch(r)
    PROVE  AInv'
<1> DEFINE q == req[r]
           d == [q EXCEPT !.pc = "insert", !.status = "RUNNING",
                          !.held = @ \cup WantedRows(q), !.seq = Len(attempts) + 1]
<1>1. /\ RequestOK(q) /\ RowsFit(q) /\ CaseFits(q) /\ q.pc = "ready" /\ StepType(q) = "dispatch"
      /\ <<"FAILED", "FAILED">> \in Endings("dispatch") /\ q \in RequestRecords
  BY DEF AInv, IInv, Dispatch, Endings, RequestOK
<1>2. CASE Refusal(q, "RETRY_PAYMENT") # "NONE"
  <2>1. Goes(r, StepEnds(q, "FAILED", "FAILED"))
    BY <1>2 DEF Dispatch
  <2>2. QED
    BY <1>1, <2>1, EndedFits
<1>3. CASE Refusal(q, "RETRY_PAYMENT") = "NONE"
  <2>1. Goes(r, d)
    BY <1>3 DEF Dispatch
  <2>2. q.seen = "ACTION_PENDING"
    BY <1>3 DEF Refusal
  <2>3. /\ CaseRow \notin q.held /\ q.outcome = "NONE" /\ q.seen = state
        /\ q.status \in {"PENDING", "RUNNING"}
    BY <1>1, BeforeTheCall
  <2>4. /\ WantedRows(q) = {NextStep(q)} \cup (IF q.status = "RUNNING" THEN {} ELSE {WorkflowRow})
        /\ NextStep(q) \in 1..4
    BY <1>1, AtPendingStep DEF WantedRows
  <2>5. /\ d.pc = "insert" /\ d.w = q.w /\ d.steps = q.steps /\ d.status = "RUNNING"
        /\ d.outcome = q.outcome /\ d.seen = q.seen /\ d.held = q.held \cup WantedRows(q)
    BY <1>1 DEF RequestRecords
  <2>6. NextStep(d) = NextStep(q)
    BY <2>5 DEF NextStep
  <2>7. CaseRow \notin d.held /\ NextStep(d) \in d.held
    BY <2>3, <2>4, <2>5, <2>6 DEF CaseRow, WorkflowRow
  <2> HIDE DEF d, q
  <2>8. FitsSteps(flow[d.w].action, d.status, d.steps)
    BY <1>1, <2>3, <2>5 DEF RowsFit, FitsSteps
  <2>9. WorkflowRow \notin d.held => flow[d.w].status = "RUNNING"
    BY <1>1, <2>4, <2>5 DEF RowsFit
  <2>10. \A i \in DOMAIN d.steps : i \notin d.held => d.steps[i] = flow[d.w].steps[i]
    BY <1>1, <2>5 DEF RowsFit
  <2>11. RowsFit(d)
    BY <2>3, <2>5, <2>7, <2>8, <2>9, <2>10 DEF RowsFit
  <2>12. CaseFits(d)
    BY <2>2, <2>3, <2>5, <2>7 DEF CaseFits
  <2>13. QED
    BY <2>1, <2>11, <2>12, MovesOn DEF Goes, caseVars, wfVars
<1>4. QED
  BY <1>2, <1>3

LEMMA RunStepFits ==
    ASSUME AInv, IInv', NEW r \in Requests, RunStep(r)
    PROVE  AInv'
<1>1. req[r].pc = "ready"
  BY DEF RunStep
<1>2. CASE Validate(r)
  BY <1>1, <1>2, ValidateFits
<1>3. CASE Complete(r)
  BY <1>1, <1>3, EndedFits DEF Complete, Endings
<1>4. CASE Await(r)
  BY <1>1, <1>4, EndedFits DEF Await, Endings
<1>5. CASE Dispatch(r)
  BY <1>1, <1>5, DispatchFits
<1>6. QED
  BY <1>2, <1>3, <1>4, <1>5 DEF RunStep

-----------------------------------------------------------------------------
(* What fits stays fitting: the retry and the move of the case. *)

LEMMA InsertAttemptFits ==
    ASSUME AInv, IInv', NEW r \in Requests, InsertAttempt(r)
    PROVE  AInv'
<1> DEFINE q == req[r]
           c == [q EXCEPT !.pc = "calling"]
<1>1. q \in RequestRecords /\ RowsFit(q) /\ CaseFits(q) /\ q.pc = "insert"
  BY DEF AInv, IInv, RequestOK, InsertAttempt
<1>2. /\ c.pc = "calling" /\ c.w = q.w /\ c.steps = q.steps /\ c.outcome = q.outcome
      /\ c.status = q.status /\ c.held = q.held /\ c.seen = q.seen
  BY <1>1 DEF RequestRecords
<1>3. NextStep(c) = NextStep(q)
  BY <1>2 DEF NextStep
<1>4. Goes(r, c)
  BY DEF InsertAttempt
<1> HIDE DEF c, q
<1>5. RowsFit(c) /\ CaseFits(c)
  BY <1>1, <1>2, <1>3 DEF RowsFit, CaseFits
<1>6. QED
  BY <1>4, <1>5, MovesOn DEF Goes, caseVars, wfVars

LEMMA AnswerFits ==
    ASSUME AInv, IInv', NEW r \in Requests, NEW outcome \in Outcomes, Answer(r, outcome)
    PROVE  AInv'
<1> DEFINE q == req[r]
           a == [q EXCEPT !.pc = "record", !.outcome = outcome]
<1>1. q \in RequestRecords /\ RowsFit(q) /\ CaseFits(q) /\ q.pc = "calling" /\ DOMAIN req = Requests
  BY DEF AInv, IInv, RequestOK, Answer
<1>2. /\ a.pc = "record" /\ a.w = q.w /\ a.steps = q.steps /\ a.outcome = outcome
      /\ a.status = q.status /\ a.held = q.held /\ a.seen = q.seen
  BY <1>1 DEF RequestRecords
<1>3. NextStep(a) = NextStep(q)
  BY <1>2 DEF NextStep
<1>4. req' = [req EXCEPT ![r] = a] /\ UNCHANGED <<state, flow, attempts, executions>>
  BY <1>1 DEF Answer, caseVars
<1> HIDE DEF a, q
<1>5. RowsFit(a) /\ CaseFits(a)
  BY <1>1, <1>2, <1>3 DEF RowsFit, CaseFits
<1>6. QED
  BY <1>4, <1>5, MovesOn

\* What the outcome does to the step, the workflow and the case.
LEMMA RecordFits ==
    ASSUME AInv, IInv', NEW r \in Requests, Record(r)
    PROVE  AInv'
<1> DEFINE q == req[r]
<1>1. /\ RequestOK(q) /\ RowsFit(q) /\ CaseFits(q) /\ q.pc = "record"
      /\ StepType(q) = "dispatch" /\ q.outcome \in Outcomes
  BY DEF AInv, IInv, RequestOK, LoadedOK, NumberOK, RequestRecords, Record
<1>2. CaseRow \notin q.held /\ q.seen = state /\ state = "ACTION_PENDING" /\ q.outcome # "NONE"
  BY <1>1 DEF CaseFits, Outcomes
<1>3. ASSUME NEW s, NEW f, <<s, f>> \in Endings("dispatch"),
             Goes(r, Moving(StepEnds(q, s, f), MovedBy(q.outcome))),
             f = "RUNNING" => q.outcome \in {"SUBMITTED", "SUCCEEDED"}
      PROVE  AInv'
  <2> DEFINE e == StepEnds(q, s, f)
             to == MovedBy(q.outcome)
             m == Moving(e, to)
  <2>1. /\ RowsFit(e) /\ e \in RequestRecords /\ e.pc \in {"load", "commit"} /\ e.status = f
        /\ e.outcome = q.outcome /\ e.seen = q.seen
        /\ CaseRow \in e.held <=> CaseRow \in q.held
    BY <1>1, <1>3, StepEndsFits
  <2>2. to \in States
    BY DEF MovedBy, States
  <2>3. Goes(r, m)
    BY <1>3
  <2> HIDE DEF e, to
  <2>4. /\ RowsFit(m) /\ m.pc = "move" /\ m.move = to /\ m.held = e.held
        /\ m.outcome = e.outcome /\ m.seen = e.seen /\ m.status = e.status
    BY <2>1, <2>2, MovingFits
  <2>5. to = MovedBy(q.outcome)
    BY DEF to
  <2> HIDE DEF m, q
  <2>6. CaseFits(m)
    BY <1>2, <1>3, <2>1, <2>4, <2>5 DEF CaseFits
  <2>7. QED
    BY <2>3, <2>4, <2>6, MovesOn DEF Goes, caseVars, wfVars
<1>4. ASSUME q.outcome = "FAILED", Goes(r, StepEnds(q, "FAILED", "FAILED")) PROVE AInv'
  <2> DEFINE e == StepEnds(q, "FAILED", "FAILED")
  <2>1. <<"FAILED", "FAILED">> \in Endings("dispatch")
    BY DEF Endings
  <2>2. /\ RowsFit(e) /\ e.pc = "commit" /\ e.outcome = q.outcome
        /\ CaseRow \in e.held <=> CaseRow \in q.held
    BY <1>1, <2>1, StepEndsFits
  <2> HIDE DEF e, q
  <2>3. CaseFits(e)
    BY <1>2, <1>4, <2>2 DEF CaseFits
  <2>4. QED
    BY <1>4, <2>2, <2>3, MovesOn DEF e, q, Goes, caseVars, wfVars
<1>5. /\ <<"COMPLETED", "RUNNING">> \in Endings("dispatch")
      /\ <<"FAILED", "REQUIRES_REVIEW">> \in Endings("dispatch")
      /\ <<"FAILED", "FAILED">> \in Endings("dispatch")
  BY DEF Endings
<1>6. CASE q.outcome \in {"SUBMITTED", "SUCCEEDED"}
  <2>1. MovedBy(q.outcome) = "VERIFICATION_PENDING"
    BY <1>6 DEF MovedBy
  <2>2. Goes(r, Moving(StepEnds(q, "COMPLETED", "RUNNING"), "VERIFICATION_PENDING"))
    BY <1>6 DEF Record
  <2>3. QED
    BY <1>3, <1>5, <1>6, <2>1, <2>2
<1>7. CASE q.outcome = "UNKNOWN"
  <2>1. MovedBy(q.outcome) = "ESCALATED"
    BY <1>7 DEF MovedBy
  <2>2. Goes(r, Moving(StepEnds(q, "FAILED", "REQUIRES_REVIEW"), "ESCALATED"))
    BY <1>7 DEF Record
  <2>3. QED
    BY <1>3, <1>5, <2>1, <2>2
<1>8. CASE q.outcome = "FAILED"
  <2>1. MovedBy(q.outcome) = "STOPPED"
    BY <1>8 DEF MovedBy
  <2>2. \/ Goes(r, Moving(StepEnds(q, "FAILED", "FAILED"), "STOPPED"))
        \/ Goes(r, StepEnds(q, "FAILED", "FAILED"))
    BY <1>8 DEF Record
  <2>3. QED
    BY <1>3, <1>4, <1>5, <1>8, <2>1, <2>2
<1>9. QED
  BY <1>1, <1>6, <1>7, <1>8 DEF Outcomes

\* CaseTransitionService refuses what the case has already been moved by: it is
\* escalated if an outcome is unknown, and stopped only while it can be acted on.
LEMMA MoveCaseFits ==
    ASSUME AInv, IInv', NEW r \in Requests, MoveCase(r)
    PROVE  AInv'
<1> DEFINE q == req[r]
           a == IF q.all /\ q.status = "RUNNING" THEN "load" ELSE "commit"
           m == [q EXCEPT !.pc = a, !.held = @ \cup {CaseRow}]
<1>1. /\ q \in RequestRecords /\ RowsFit(q) /\ CaseFits(q) /\ q.pc = "move"
      /\ q.move \in AllowedTransitions[q.seen] /\ CaseTold /\ Paired
      /\ DOMAIN executions \subseteq DOMAIN flow
  BY DEF AInv, IInv, RecordsOK, RequestOK, MoveCase
<1>2. /\ m.pc = a /\ m.w = q.w /\ m.steps = q.steps /\ m.outcome = q.outcome
      /\ m.status = q.status /\ m.held = q.held \cup {CaseRow} /\ m.move = q.move
      /\ m.pc \in {"load", "commit"} /\ m.pc = "load" => q.status = "RUNNING"
  BY <1>1 DEF RequestRecords
<1>3. Goes(r, m)
  BY DEF MoveCase
<1>4. SomeUnknown => state = "ESCALATED"
  <2>1. ASSUME SomeUnknown PROVE \E i \in DOMAIN attempts : attempts[i].status = "UNCERTAIN"
    <3>1. PICK w \in DOMAIN executions : executions[w] = "UNKNOWN"
      BY <2>1 DEF SomeUnknown
    <3>2. PICK i \in DOMAIN attempts : attempts[i].w = w
      BY <1>1 DEF Paired
    <3>3. attempts[i].status = AttemptStatus("UNKNOWN")
      BY <1>1, <3>1, <3>2 DEF Paired
    <3>4. QED
      BY <3>3 DEF AttemptStatus
  <2>2. QED
    BY <1>1, <2>1 DEF CaseTold, CaseFollowsOutcome
<1> HIDE DEF m, q
<1>5. q.move = MovedBy(q.outcome) /\ state = "ACTION_PENDING"
  <2>1. CASE q.outcome # "NONE"
    BY <1>1, <2>1 DEF CaseFits
  <2>2. CASE q.outcome = "NONE"
    <3>1. /\ state \in {"ACTION_PENDING", "VERIFICATION_PENDING", "ESCALATED", "STOPPED"}
          /\ q.move \in AllowedTransitions[state]
          /\ q.move = "STOPPED" \/ (q.move = "ESCALATED" /\ state = "ESCALATED")
      BY <1>1, <1>4, <2>2 DEF CaseFits, CaseTold
    <3>2. AllowedTransitions["ESCALATED"] = {"CLOSED"}
      BY DEF AllowedTransitions, States
    <3>3. "STOPPED" \notin AllowedTransitions["VERIFICATION_PENDING"]
      BY DEF AllowedTransitions, States
    <3>4. "STOPPED" \notin AllowedTransitions["STOPPED"]
      BY DEF AllowedTransitions, States
    <3>5. q.move = "STOPPED" /\ state = "ACTION_PENDING"
      BY <3>1, <3>2, <3>3, <3>4
    <3>6. MovedBy("NONE") = "STOPPED"
      BY DEF MovedBy
    <3>7. QED
      BY <2>2, <3>5, <3>6
  <2>3. QED
    BY <2>1, <2>2
<1>6. RowsFit(m)
  BY <1>1, <1>2 DEF RowsFit, CaseRow, WorkflowRow, EndedStatuses
<1>7. CaseFits(m)
  BY <1>1, <1>2, <1>5 DEF CaseFits, MovedBy
<1>8. QED
  BY <1>3, <1>6, <1>7, MovesOn DEF Goes, caseVars, wfVars

-----------------------------------------------------------------------------
(* What fits stays fitting: what is committed, and everything else. *)

\* The rows a request has not updated are as it has loaded them, so it leaves
\* the workflow with the steps and the status it has worked out.
LEMMA CommitFitsFlow ==
    ASSUME AInv, NEW r \in Requests, Commit(r)
    PROVE  FlowFits'
<1> DEFINE q == req[r]
           status == IF WorkflowRow \in q.held \cup WantedRows(q) THEN q.status
                     ELSE flow[q.w].status
           steps == [i \in DOMAIN flow[q.w].steps |->
                        IF i \in q.held THEN q.steps[i] ELSE flow[q.w].steps[i]]
<1>1. /\ q.pc = "commit" /\ q.w \in DOMAIN flow /\ q \in RequestRecords /\ RowsFit(q)
      /\ DOMAIN q.steps = DOMAIN StepsOf(flow[q.w].action)
      /\ DOMAIN flow[q.w].steps = DOMAIN StepsOf(flow[q.w].action)
  BY DEF AInv, IInv, RequestOK, LoadedOK, FlowOK, Commit
<1>2. /\ DOMAIN flow' = DOMAIN flow
      /\ \A w \in DOMAIN flow :
            flow'[w] = IF w = q.w THEN [flow[w] EXCEPT !.status = status, !.steps = steps]
                       ELSE flow[w]
  BY <1>1 DEF Commit, AInv, IInv, FlowOK
<1>3. status = q.status
  BY <1>1 DEF RowsFit, WantedRows
<1>4. steps = q.steps
  <2>1. q.steps = [i \in DOMAIN q.steps |-> q.steps[i]]
    BY <1>1 DEF RequestRecords, StepLists
  <2>2. \A i \in DOMAIN q.steps : i \notin q.held => q.steps[i] = flow[q.w].steps[i]
    BY <1>1 DEF RowsFit
  <2>3. QED
    BY <1>1, <2>1, <2>2
<1>5. FitsSteps(flow[q.w].action, q.status, q.steps)
  BY <1>1 DEF RowsFit
<1> HIDE DEF status, steps
<1>6. /\ flow'[q.w].action = flow[q.w].action
      /\ flow'[q.w].status = q.status /\ flow'[q.w].steps = q.steps
  BY <1>1, <1>2, <1>3, <1>4 DEF AInv, IInv, FlowOK
<1>7. ASSUME NEW w \in DOMAIN flow'
      PROVE  FitsSteps(flow'[w].action, flow'[w].status, flow'[w].steps)
  <2>1. CASE w = q.w
    BY <1>5, <1>6, <2>1
  <2>2. CASE w # q.w
    BY <1>2, <2>2 DEF AInv, FlowFits
  <2>3. QED
    BY <2>1, <2>2
<1>8. QED
  BY <1>7 DEF FlowFits

LEMMA CommitTellsCase ==
    ASSUME AInv, NEW r \in Requests, Commit(r)
    PROVE  CaseTold'
<1> DEFINE q == req[r]
           a == [w |-> q.w, status |-> AttemptStatus(q.outcome)]
           A == [w : Workflows, status : {"STARTED", "SUCCEEDED", "UNCERTAIN", "FAILED"}]
<1>1. /\ q.pc = "commit" /\ CaseFits(q) /\ q.outcome \in Outcomes \cup {"NONE"}
      /\ q.w \in Workflows /\ CaseTold /\ attempts \in Seq(A)
  BY DEF AInv, IInv, FlowOK, RecordsOK, RequestOK, LoadedOK, RequestRecords, Commit
<1>2. state' = IF CaseRow \in q.held THEN q.move ELSE state
  BY DEF Commit
<1>3. CASE q.outcome = "NONE"
  <2>1. attempts' = attempts
    BY <1>3 DEF Commit
  <2>2. state' = state \/ (state' = "STOPPED" /\ state = "ACTION_PENDING")
    BY <1>1, <1>2, <1>3 DEF CaseFits, MovedBy
  <2>3. QED
    BY <1>1, <2>1, <2>2 DEF CaseTold, OnlyFailuresAreRetried, CaseFollowsOutcome
<1>4. CASE q.outcome # "NONE"
  <2>1. state = "ACTION_PENDING" /\ q.outcome \in Outcomes
    BY <1>1, <1>4 DEF CaseFits
  <2>2. \A i \in DOMAIN attempts : attempts[i].status = "FAILED"
    <3>1. \A i \in DOMAIN attempts :
             attempts[i].status \in {"STARTED", "SUCCEEDED", "UNCERTAIN", "FAILED"}
      <4>1. \A t \in A : t.status \in {"STARTED", "SUCCEEDED", "UNCERTAIN", "FAILED"}
        OBVIOUS
      <4> HIDE DEF A
      <4>2. \A i \in DOMAIN attempts : attempts[i] \in A
        BY <1>1
      <4>3. QED
        BY <4>1, <4>2
    <3>2. QED
      BY <1>1, <2>1, <3>1 DEF CaseTold, CaseFollowsOutcome
  <2>3. /\ Len(attempts) \in Nat
        /\ Len(attempts') = Len(attempts) + 1
        /\ DOMAIN attempts = 1..Len(attempts) /\ DOMAIN attempts' = 1..(Len(attempts) + 1)
        /\ \A i \in 1..Len(attempts) : attempts'[i] = attempts[i]
        /\ attempts'[Len(attempts) + 1] = a
    <3>1. attempts' = Append(attempts, a)
      BY <1>4 DEF Commit
    <3>2. a \in A
      BY <1>1, <2>1 DEF AttemptStatus, Outcomes
    <3> HIDE DEF a
    <3>3. QED
      BY <1>1, <3>1, <3>2, AppendProperties
  <2> DEFINE k == Len(attempts)
             st == AttemptStatus(q.outcome)
  <2>4. a.status = st
    OBVIOUS
  <2> HIDE DEF a, q, st
  <2>5. /\ \A i \in DOMAIN attempts' : i < Len(attempts') => attempts'[i].status = "FAILED"
        /\ k + 1 \in DOMAIN attempts' /\ attempts'[k + 1].status = st
        /\ \A i \in DOMAIN attempts' : i # k + 1 => attempts'[i].status = "FAILED"
    <3> HIDE DEF k
    <3>1. /\ k \in Nat /\ Len(attempts') = k + 1
          /\ DOMAIN attempts = 1..k /\ DOMAIN attempts' = 1..(k + 1)
          /\ \A i \in 1..k : attempts'[i] = attempts[i]
          /\ attempts'[k + 1] = a
      BY <2>3 DEF k
    <3>2. QED
      BY <2>2, <2>4, <3>1
  <2>6. \A x \in {"STARTED", "SUCCEEDED", "UNCERTAIN"} :
           (\E i \in DOMAIN attempts' : attempts'[i].status = x) <=> st = x
    BY <2>5
  <2>7. /\ state' = "VERIFICATION_PENDING" <=> st \in {"STARTED", "SUCCEEDED"}
        /\ state' = "ESCALATED" <=> st = "UNCERTAIN"
        /\ state' \in {"ACTION_PENDING", "VERIFICATION_PENDING", "ESCALATED", "STOPPED"}
    <3>1. \/ state' = MovedBy(q.outcome)
          \/ q.outcome = "FAILED" /\ state' = "ACTION_PENDING"
      BY <1>1, <1>2, <1>4, <2>1 DEF CaseFits
    <3>2. QED
      BY <2>1, <3>1 DEF MovedBy, Outcomes, AttemptStatus, st
  <2>8. OnlyFailuresAreRetried'
    BY <2>5 DEF OnlyFailuresAreRetried
  <2>9. CaseFollowsOutcome'
    BY <2>6, <2>7 DEF CaseFollowsOutcome
  <2>10. QED
    BY <2>7, <2>8, <2>9 DEF CaseTold
<1>5. QED
  BY <1>3, <1>4

\* Nobody else has loaded what is committed.
LEMMA IdleAgain ==
    ASSUME Alone, AInv, NEW r \in Requests, req' = [req EXCEPT ![r] = Idle]
    PROVE  \A o \in Requests : (RowsFit(req[o]) /\ CaseFits(req[o]))'
<1>1. \A o \in Requests : req'[o] = Idle
  BY DEF Alone, AInv, IInv
<1>2. ASSUME NEW x, x = Idle PROVE RowsFit(x)' /\ CaseFits(x)'
  BY <1>2 DEF Idle, RowsFit, CaseFits
<1>3. QED
  BY <1>1, <1>2

LEMMA InsertWorkflowFits ==
    ASSUME Alone, AInv, IInv', NEW r \in Requests, InsertWorkflow(r)
    PROVE  AInv'
<1>1. PICK w \in Workflows \ DOMAIN flow, action \in Actions :
         flow' = [v \in DOMAIN flow \cup {w} |->
                     IF v \in DOMAIN flow THEN flow[v]
                     ELSE [action |-> action, status |-> "PENDING",
                           steps |-> [i \in DOMAIN StepsOf(action) |-> "PENDING"]]]
  BY DEF InsertWorkflow
<1>2. /\ DOMAIN flow' = DOMAIN flow \cup {w}
      /\ \A v \in DOMAIN flow : flow'[v] = flow[v]
      /\ flow'[w].action = action /\ flow'[w].status = "PENDING"
      /\ flow'[w].steps = [i \in DOMAIN StepsOf(action) |-> "PENDING"]
  BY <1>1
<1>3. FitsSteps(action, "PENDING", [i \in DOMAIN StepsOf(action) |-> "PENDING"])
  BY DEF FitsSteps
<1>4. ASSUME NEW v \in DOMAIN flow'
      PROVE  FitsSteps(flow'[v].action, flow'[v].status, flow'[v].steps)
  BY <1>2, <1>3 DEF AInv, FlowFits
<1>5. CaseTold'
  BY DEF InsertWorkflow, caseVars, AInv, CaseTold, OnlyFailuresAreRetried, CaseFollowsOutcome
<1>6. QED
  BY <1>4, <1>5, IdleAgain DEF InsertWorkflow, AInv, FlowFits

LEMMA OthersFit ==
    ASSUME Alone, AInv, IInv', CaseDisturbed \/ ConsentChanges \/ UNCHANGED vars
    PROVE  AInv'
<1>1. UNCHANGED <<state, flow, attempts, executions, req>>
  BY DEF Alone, CaseDisturbed, ConsentChanges, vars, caseVars, wfVars
<1>2. FlowFits' /\ CaseTold'
  BY <1>1 DEF AInv, FlowFits, CaseTold, OnlyFailuresAreRetried, CaseFollowsOutcome
<1>3. ASSUME NEW o \in Requests PROVE (RowsFit(req[o]) /\ CaseFits(req[o]))'
  <2>1. RowsFit(req[o])'
    BY <1>1 DEF AInv, RowsFit, NextStep
  <2>2. CaseFits(req[o])'
    BY <1>1 DEF AInv, CaseFits, SomeUnknown
  <2>3. QED
    BY <2>1, <2>2
<1>4. QED
  BY <1>2, <1>3 DEF AInv

LEMMA InitFits == Init => AInv
<1> SUFFICES ASSUME Init PROVE AInv
  OBVIOUS
<1>1. FlowFits /\ CaseTold
  BY DEF Init, FlowFits, CaseTold, OnlyFailuresAreRetried, CaseFollowsOutcome
<1>2. \A r \in Requests : req[r] = Idle
  BY DEF Init
<1>3. QED
  BY <1>1, <1>2, InitOK, IdleFits DEF AInv

LEMMA FitsKept ==
    ASSUME Alone
    PROVE  AInv /\ [Next]_vars => AInv'
<1> SUFFICES ASSUME AInv, [Next]_vars PROVE AInv'
  OBVIOUS
<1>1. IInv'
  BY StepKeeps DEF AInv
<1>2. ASSUME NEW r \in Requests, Goes(r, Idle) PROVE AInv'
  BY <1>1, <1>2, IdleFits, MovesOn DEF Goes, caseVars, wfVars
<1>3. ASSUME NEW r \in Requests, Crash(r) PROVE AInv'
  BY <1>1, <1>3, IdleFits, MovesOn DEF Crash, caseVars
<1>4. ASSUME NEW r \in Requests, Commit(r) PROVE AInv'
  BY <1>1, <1>4, CommitFitsFlow, CommitTellsCase, IdleAgain DEF Commit, AInv
<1>5. ASSUME NEW r \in Requests, Proceeds(r) PROVE AInv'
  BY <1>1, <1>2, <1>4, <1>5, InsertWorkflowFits, LoadCaseFits, RunStepFits, InsertAttemptFits,
     AnswerFits, RecordFits, MoveCaseFits DEF Proceeds, RollBack
<1>6. QED
  BY <1>1, <1>3, <1>5, CheckCreateFits, OpenFits, OthersFit DEF Next

LEMMA AloneInvariance ==
    ASSUME Alone
    PROVE  Spec => []AInv
BY InitFits, FitsKept, PTL DEF Spec

\* WorkflowExecutionService revalidates every retry and moves the case by its outcome: with
\* one request at a time, a payment the gateway took or did not answer for is never
\* tried again.
THEOREM FailuresRetried ==
    ASSUME Alone
    PROVE  Spec => []OnlyFailuresAreRetried
<1>1. AInv => OnlyFailuresAreRetried
  BY DEF AInv, CaseTold
<1>2. QED
  BY <1>1, AloneInvariance, PTL

\* _execute_dispatch_payment_retry evaluates the outcome before its one commit: with one
\* request at a time, what it makes of the case and what it records of the attempt agree.
THEOREM OutcomeFollowed ==
    ASSUME Alone
    PROVE  Spec => []CaseFollowsOutcome
<1>1. AInv => CaseFollowsOutcome
  BY DEF AInv, CaseTold
<1>2. QED
  BY <1>1, AloneInvariance, PTL

\* WorkflowExecutionService sets the status of a workflow with that of its step; the
\* two agree also where a request goes on with execute_all or is rolled back.
THEOREM StatusTellsSteps ==
    ASSUME Alone
    PROVE  Spec => []StatusFollowsSteps
<1>1. ASSUME AInv PROVE StatusFollowsSteps
  <2>1. ASSUME NEW w \in DOMAIN flow
        PROVE  LET Steps == {flow[w].steps[i] : i \in DOMAIN flow[w].steps} IN
               /\ flow[w].status \in {"PENDING", "RUNNING"} => Steps \cap {"FAILED", "WAITING"} = {}
               /\ flow[w].status = "FAILED" => "FAILED" \in Steps
               /\ flow[w].status = "COMPLETED" => "PENDING" \notin Steps
    BY <1>1 DEF AInv, FlowFits, FitsSteps
  <2>2. QED
    BY <2>1 DEF StatusFollowsSteps
<1>2. AInv => StatusFollowsSteps
  BY <1>1
<1>3. QED
  BY <1>2, AloneInvariance, PTL
=============================================================================
