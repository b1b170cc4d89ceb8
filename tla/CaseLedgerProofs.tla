-------------------------- MODULE CaseLedgerProofs --------------------------
(***************************************************************************)
(* Theorems about CaseLedger for every set of sessions, every choice of    *)
(* handlers and every bound.                                               *)
(***************************************************************************)
EXTENDS CaseLedger, FiniteSetTheorems, TLAPS

-----------------------------------------------------------------------------
(* Lemmas on the numbering of a log. *)

\* Gapless, and its highest number is a number.
Numbered(log) == MaxSeq(log) \in Nat /\ DOMAIN log = 1..MaxSeq(log)

\* func.max over a log numbered 1..n is n.
LEMMA MaxSeqOfInterval ==
    ASSUME NEW log, NEW n \in Nat, DOMAIN log = 1..n
    PROVE  MaxSeq(log) = n /\ Numbered(log)
<1> DEFINE S == {0} \cup 1..n
<1>1. n \in S /\ \A y \in S : n >= y
  OBVIOUS
<1>2. \A x \in S : (\A y \in S : x >= y) => x = n
  BY <1>1
<1>3. Max(S) = n
  BY <1>1, <1>2, Zenon DEF Max
<1> QED
  BY <1>3 DEF MaxSeq, Numbered

\* INSERT under max + 1 keeps a numbered log numbered.
LEMMA InsertNext ==
    ASSUME NEW log, Numbered(log), NEW r
    PROVE  LET n == MaxSeq(log) + 1
           IN Numbered(Insert(log, n, r)) /\ MaxSeq(Insert(log, n, r)) = n
<1> DEFINE n == MaxSeq(log) + 1
<1>1. n \in Nat /\ DOMAIN Insert(log, n, r) = 1..n
  BY DEF Insert, Numbered
<1> QED
  BY <1>1, MaxSeqOfInterval

-----------------------------------------------------------------------------
(* What the handlers plan. *)

\* A plan with its transition row, its audit event, or both.
Recorded == {p \in Plans : p.route = "service" \/ p.records > 0}

\* Rewriting fields of such a plan gives such a plan.
LEMMA PlanFields ==
    ASSUME NEW p \in Recorded, NEW to \in States, NEW bump \in BOOLEAN,
           NEW closes \in BOOLEAN, NEW settles \in TxnStatuses \cup {"KEEP"}
    PROVE  /\ [p EXCEPT !.bump = bump] \in Recorded
           /\ [p EXCEPT !.closes = closes] \in Recorded
           /\ [p EXCEPT !.records = 2] \in Recorded
           /\ [p EXCEPT !.settles = settles] \in Recorded
           /\ [p EXCEPT !.closes = closes, !.settles = settles] \in Recorded
           /\ p.records > 0 =>
                 [p EXCEPT !.to = to, !.route = "own", !.bump = bump] \in Recorded
           /\ \A n \in {0, 1} :
                 [p EXCEPT !.to = to, !.route = "service", !.bump = bump,
                           !.closes = closes, !.records = n] \in Recorded
<1>1. [p EXCEPT !.bump = bump] \in Recorded
  BY DEF Plans, Recorded
<1>2. [p EXCEPT !.closes = closes] \in Recorded
  BY DEF Plans, Recorded
<1>3. [p EXCEPT !.records = 2] \in Recorded
  BY DEF Plans, Recorded
<1>4. [p EXCEPT !.settles = settles] \in Recorded
  BY DEF Plans, Recorded
<1>5. [p EXCEPT !.closes = closes, !.settles = settles] \in Recorded
  BY DEF Plans, Recorded
<1>6. [p EXCEPT !.to = to, !.route = "own", !.bump = bump] \in Plans
  BY DEF Plans, Recorded, Routes
<1>7. ASSUME NEW n \in {0, 1}
      PROVE  [p EXCEPT !.to = to, !.route = "service", !.bump = bump,
                       !.closes = closes, !.records = n] \in Recorded
  <2>1. n \in 0..2
    BY <1>7
  <2>2. [p EXCEPT !.to = to, !.route = "service", !.bump = bump,
                  !.closes = closes, !.records = n] \in Plans
    BY <2>1 DEF Plans, Recorded, Routes
  <2> QED
    BY <2>2 DEF Plans, Recorded
<1>8. p.records > 0 => [p EXCEPT !.to = to, !.route = "own", !.bump = bump] \in Recorded
  BY <1>6 DEF Plans, Recorded
<1> QED
  BY <1>1, <1>2, <1>3, <1>4, <1>5, <1>7, <1>8

\* Every handler plans at least one record of what it does.
LEMMA PlanTypes ==
    ASSUME NEW st \in States
    PROVE  /\ OperatorPlans(st) \subseteq Recorded
           /\ UpdatePlan(st) \in Recorded
           /\ RecommendPlan(st) \in Recorded
           /\ PolicyPlans(st) \subseteq Recorded
           /\ ServicePlans(st) \subseteq Recorded
           /\ SuccessPlans(st) \subseteq Recorded
           /\ \A paid \in TxnStatuses, provider \in ProviderStatuses :
                 ReconcilePlans(st, paid, provider) \subseteq Recorded
<1>1. \A to \in States : Note(to) \in Recorded /\ Note(to).records > 0
  BY DEF Note, Plans, Recorded, Routes, TxnStatuses
<1>2. /\ {"AWAITING_DECISION", "RECOVERED", "RETRY_ELIGIBLE", "ESCALATED", "STOPPED",
          "ACTION_PENDING"} \subseteq States
      /\ "SUCCEEDED" \in TxnStatuses \cup {"KEEP"}
      /\ "FAILED" \in TxnStatuses \cup {"KEEP"}
      /\ TRUE \in BOOLEAN
  BY DEF States, TxnStatuses
<1>3. ASSUME NEW from \in States, NEW to \in States
      PROVE  Move(from, to) \in Recorded
  BY <1>1, <1>2, PlanFields, Zenon DEF Move
<1>4. ASSUME NEW to \in States, NEW n \in {0, 1}
      PROVE  ServiceMove(st, to, n) \in Recorded
  <2>1. (to = "CLOSED") \in BOOLEAN
    OBVIOUS
  <2> QED
    BY <2>1, <1>1, <1>2, <1>4, PlanFields, Zenon DEF ServiceMove
<1>5. OperatorPlans(st) \subseteq Recorded
  <2>1. ASSUME NEW to \in States
        PROVE  [Move(st, to) EXCEPT !.closes = (to \in TerminalStates)] \in Recorded
    <3>1. (to \in TerminalStates) \in BOOLEAN
      OBVIOUS
    <3> QED
      BY <3>1, <1>3, <1>2, PlanFields, Zenon
  <2> QED
    BY <2>1, TargetsAssumption DEF OperatorPlans
<1>6. UpdatePlan(st) \in Recorded
  BY <1>1, <1>2, PlanFields, Zenon DEF UpdatePlan
<1>7. RecommendPlan(st) \in Recorded
  BY <1>1, <1>2, <1>3, PlanFields, Zenon DEF RecommendPlan
<1>8. PolicyPlans(st) \subseteq Recorded
  <2>1. \A v, f : PolicyTarget(v, f, st) \in States
    BY <1>2 DEF PolicyTarget
  <2> QED
    BY <2>1, <1>1, <1>3 DEF PolicyPlans
<1>9. ServicePlans(st) \subseteq Recorded
  <2>1. ServiceTargets \subseteq States
    BY DEF ServiceTargets, States
  <2> QED
    BY <2>1, <1>4 DEF ServicePlans
<1>10. SuccessPlans(st) \subseteq Recorded
  <2>1. ASSUME NEW paid \in {"SUCCEEDED", "KEEP"}
        PROVE  [Move(st, "RECOVERED") EXCEPT !.closes = TRUE, !.settles = paid] \in Recorded
    <3>1. paid \in TxnStatuses \cup {"KEEP"}
      BY <2>1 DEF TxnStatuses
    <3> QED
      BY <3>1, <1>2, <1>3, PlanFields, Zenon
  <2> QED
    BY <2>1 DEF SuccessPlans
<1>11. ASSUME NEW paid \in TxnStatuses, NEW provider \in ProviderStatuses
       PROVE  ReconcilePlans(st, paid, provider) \subseteq Recorded
  <2>1. [Note("RECOVERED") EXCEPT !.closes = TRUE] \in Recorded
    BY <1>1, <1>2, PlanFields, Zenon
  <2>2. \A p \in Recorded : /\ [p EXCEPT !.settles = "SUCCEEDED"] \in Recorded
                            /\ [p EXCEPT !.settles = "FAILED"] \in Recorded
    BY <1>2, PlanFields, Zenon
  <2> QED
    BY <2>1, <2>2, <1>1, <1>2, <1>4 DEF ReconcilePlans
<1> QED
  BY <1>5, <1>6, <1>7, <1>8, <1>9, <1>10, <1>11

-----------------------------------------------------------------------------
(* The inductive invariant. *)

\* What a request in progress knows, for highest numbers t and a of the
\* two logs: the numbers it has read are still at most one too small.
RequestOK(q, t, a) ==
    /\ q.plan \in Recorded
    /\ q.pc = "transition" => q.plan.route # "none"
    /\ q.pc \in {"audit", "commit"} /\ q.plan.route # "none" => q.tseq \in 1..(t + 1)
    /\ q.pc = "commit" /\ q.plan.records > 0
          => q.aseq \in 1..(a + IF q.plan.route = "service" THEN 2 ELSE 1)

\* Gap-free numbering is inductive once it is known that the transition log
\* is never ahead of the audit log: a transition through the service takes
\* the number of the former for a row of the latter.
IInv ==
    /\ TypeOK
    /\ Numbered(transitions) /\ Numbered(audit)
    /\ MaxSeq(transitions) <= MaxSeq(audit)
    /\ \A s \in Sessions : RequestOK(session[s], MaxSeq(transitions), MaxSeq(audit))

\* Requests survive the growth of the logs.
LEMMA RequestOKMonotone ==
    ASSUME NEW q \in Requests, NEW t \in Nat, NEW a \in Nat,
           NEW t2 \in Nat, NEW a2 \in Nat, t <= t2, a <= a2, RequestOK(q, t, a)
    PROVE  RequestOK(q, t2, a2)
<1>1. q.tseq \in 1..(t + 1) => q.tseq \in 1..(t2 + 1)
  OBVIOUS
<1>2. \A k \in {1, 2} : q.aseq \in 1..(a + k) => q.aseq \in 1..(a2 + k)
  OBVIOUS
<1> QED
  BY <1>1, <1>2 DEF RequestOK

LEMMA InitOK == Init => IInv
<1> SUFFICES ASSUME Init PROVE IInv
  OBVIOUS
<1>1. "DETECTED" \in States
  BY DEF States
<1>2. /\ Idle \in Requests
      /\ \A t, a : RequestOK(Idle, t, a)
  <2>1. Note("DETECTED") \in Plans /\ Note("DETECTED").records = 1
    BY <1>1 DEF Note, Plans, Routes, TxnStatuses
  <2> QED
    BY <1>1, <2>1 DEF Idle, Requests, RequestOK, Recorded
<1>3. PICK o \in Openings : transitions = o[1] /\ audit = o[2]
  BY DEF Init
<1> DEFINE r == [from |-> NoState, to |-> "DETECTED"]
           opened == [n \in {1} |-> r]
           empty == [n \in {} |-> r]
<1>4. /\ transitions = opened \/ transitions = empty
      /\ audit = opened \/ audit = empty
      /\ transitions = opened => audit = opened
  BY <1>3 DEF Openings
<1>5. r \in LogRows
  BY <1>1 DEF LogRows
<1>6. IsLog(opened) /\ IsLog(empty)
  BY <1>5 DEF IsLog
<1>7. /\ MaxSeq(opened) = 1 /\ Numbered(opened)
      /\ MaxSeq(empty) = 0 /\ Numbered(empty)
  <2>1. DOMAIN opened = 1..1 /\ DOMAIN empty = 1..0
    OBVIOUS
  <2> QED
    BY <2>1, MaxSeqOfInterval, 0 \in Nat, 1 \in Nat
<1> HIDE DEF opened, empty
<1>8. TypeOK
  BY <1>1, <1>2, <1>4, <1>6 DEF Init, TypeOK
<1> QED
  BY <1>2, <1>4, <1>7, <1>8 DEF Init, IInv

\* A step that writes only the request of one session.
LEMMA RequestStep ==
    ASSUME IInv, NEW s \in Sessions, NEW q \in Requests,
           RequestOK(q, MaxSeq(transitions), MaxSeq(audit)),
           session' = [session EXCEPT ![s] = q],
           UNCHANGED <<row, txn, transitions, audit>>
    PROVE  IInv'
<1>1. TypeOK'
  BY DEF IInv, TypeOK
<1>2. \A x \in Sessions : session'[x] = IF x = s THEN q ELSE session[x]
  BY DEF IInv, TypeOK
<1>3. MaxSeq(transitions)' = MaxSeq(transitions) /\ MaxSeq(audit)' = MaxSeq(audit)
  OBVIOUS
<1>4. Numbered(transitions)' /\ Numbered(audit)'
  BY <1>3 DEF IInv, Numbered
<1> QED
  BY <1>1, <1>2, <1>3, <1>4 DEF IInv

\* Each handler begins a request whose plan keeps the invariant.
LEMMA BeginStep ==
    ASSUME IInv, NEW s \in Sessions, NEW handler, NEW plans \in SUBSET Recorded,
           Begin(s, handler, plans)
    PROVE  IInv'
<1>1. PICK p \in plans :
         session' = [session EXCEPT ![s] =
            [pc |-> IF p.route = "none" THEN "audit" ELSE "transition",
             from |-> row.state, version |-> row.version, plan |-> p,
             tseq |-> 0, aseq |-> 0]]
  BY DEF Begin
<1> DEFINE q == [pc |-> IF p.route = "none" THEN "audit" ELSE "transition",
                 from |-> row.state, version |-> row.version, plan |-> p,
                 tseq |-> 0, aseq |-> 0]
<1>2. q \in Requests
  BY DEF IInv, TypeOK, Requests, Recorded
<1>3. RequestOK(q, MaxSeq(transitions), MaxSeq(audit))
  BY DEF RequestOK
<1> QED
  BY <1>1, <1>2, <1>3, RequestStep DEF Begin

\* A request that has read a number.
LEMMA RequestFields ==
    ASSUME NEW q \in Requests, NEW pc \in {"audit", "commit"}, NEW n \in Nat
    PROVE  /\ [q EXCEPT !.pc = pc, !.tseq = n] \in Requests
           /\ [q EXCEPT !.pc = pc, !.aseq = n] \in Requests
  BY DEF Requests

\* Reading a maximum leaves the number read one above it.
LEMMA ReadStep ==
    ASSUME IInv, NEW s \in Sessions, ReadTransitionMax(s) \/ ReadAuditMax(s)
    PROVE  IInv'
<1> DEFINE T == MaxSeq(transitions)
           A == MaxSeq(audit)
<1>1. session[s] \in Requests /\ RequestOK(session[s], T, A) /\ T \in Nat /\ A \in Nat
  BY DEF IInv, TypeOK, Numbered
<1>2. CASE ReadTransitionMax(s)
  <2> DEFINE q == [session[s] EXCEPT
                      !.pc = IF session[s].plan.records = 0 THEN "commit" ELSE "audit",
                      !.tseq = T + 1]
  <2>1. q \in Requests
    <3>1. /\ (IF session[s].plan.records = 0 THEN "commit" ELSE "audit") \in {"audit", "commit"}
          /\ T + 1 \in Nat
      BY <1>1
    <3> QED
      BY <1>1, <3>1, RequestFields, Zenon
  <2>2. session' = [session EXCEPT ![s] = q]
    BY <1>2 DEF ReadTransitionMax, IInv, TypeOK
  <2>3. RequestOK(q, T, A)
    <3>1. /\ q.plan = session[s].plan /\ q.tseq = T + 1
          /\ q.pc = IF session[s].plan.records = 0 THEN "commit" ELSE "audit"
      BY <1>1 DEF Requests
    <3>2. q.tseq \in 1..(T + 1)
      BY <1>1, <3>1
    <3>3. q.pc = "commit" => ~(q.plan.records > 0)
      BY <3>1
    <3> QED
      BY <1>1, <3>1, <3>2, <3>3 DEF RequestOK
  <2> QED
    BY <1>2, <2>1, <2>2, <2>3, RequestStep DEF ReadTransitionMax
<1>3. CASE ReadAuditMax(s)
  <2> DEFINE n == NextAudit(session[s].plan)
             q == [session[s] EXCEPT !.pc = "commit", !.aseq = n]
  <2>1. n = A + IF session[s].plan.route = "service" THEN 2 ELSE 1
    <3>1. Cardinality(DOMAIN audit) = A
      BY FS_Interval DEF IInv, Numbered
    <3> QED
      BY <3>1 DEF NextAudit
  <2>2. q \in Requests
    <3>1. n \in Nat /\ "commit" \in {"audit", "commit"}
      BY <1>1, <2>1
    <3> QED
      BY <1>1, <3>1, RequestFields, Zenon
  <2>3. session' = [session EXCEPT ![s] = q]
    BY <1>3 DEF ReadAuditMax, IInv, TypeOK
  <2>4. RequestOK(q, T, A)
    <3>1. q.plan = session[s].plan /\ q.tseq = session[s].tseq /\ q.aseq = n /\ q.pc = "commit"
      BY <1>1 DEF Requests
    <3>2. q.aseq \in 1..(A + IF q.plan.route = "service" THEN 2 ELSE 1)
      BY <1>1, <2>1, <3>1
    <3> QED
      BY <1>1, <1>3, <3>1, <3>2 DEF RequestOK, ReadAuditMax
  <2> QED
    BY <1>3, <2>2, <2>3, <2>4, RequestStep DEF ReadAuditMax
<1> QED
  BY <1>2, <1>3

-----------------------------------------------------------------------------
(* The commit. *)

\* What the UNIQUE constraints let through is exactly the next numbers of
\* both logs, and the audit log stays ahead.
LEMMA CommitNumbers ==
    ASSUME IInv, NEW s \in Sessions, Commit(s)
    PROVE  LET q == session[s]
               T == MaxSeq(transitions)
               A == MaxSeq(audit)
           IN /\ q.plan.route # "none" => q.tseq = T + 1
              /\ \E k \in {1, 2} :
                    /\ DOMAIN audit \cup AuditNumbers(q) = 1..(A + k)
                    /\ q.plan.route # "none" => T + 1 <= A + k
<1> DEFINE q == session[s]
           T == MaxSeq(transitions)
           A == MaxSeq(audit)
<1> SUFFICES /\ q.plan.route # "none" => q.tseq = T + 1
             /\ \E k \in {1, 2} :
                   /\ DOMAIN audit \cup AuditNumbers(q) = 1..(A + k)
                   /\ q.plan.route # "none" => T + 1 <= A + k
  OBVIOUS
<1>1. /\ q \in Requests /\ RequestOK(q, T, A) /\ q.pc = "commit" /\ ~Conflict(q)
      /\ T \in Nat /\ A \in Nat /\ T <= A
      /\ DOMAIN transitions = 1..T /\ DOMAIN audit = 1..A
  BY DEF IInv, TypeOK, Numbered, Commit
<1>2. q.plan \in Plans /\ (q.plan.route = "service" \/ q.plan.records > 0)
  BY <1>1 DEF RequestOK, Recorded
<1>3. q.plan.records \in 0..2 /\ q.tseq \in Nat /\ q.aseq \in Nat
  BY <1>1, <1>2 DEF Requests, Plans
<1> HIDE DEF q, T, A
<1>4. ASSUME q.plan.route # "none" PROVE q.tseq = T + 1
  <2>1. q.tseq \in 1..(T + 1) /\ q.tseq \notin 1..T
    BY <1>1, <1>4 DEF RequestOK, Conflict
  <2> QED
    BY <2>1, <1>1
<1>5. CASE q.plan.route # "service"
  <2>1. q.plan.records > 0 /\ AuditNumbers(q) = {q.aseq}
    BY <1>2, <1>5 DEF AuditNumbers
  <2>2. q.aseq \in 1..(A + 1) /\ q.aseq \notin 1..A
    BY <1>1, <1>5, <2>1 DEF RequestOK, Conflict
  <2>3. q.aseq = A + 1
    BY <2>2, <1>1
  <2>4. DOMAIN audit \cup AuditNumbers(q) = 1..(A + 1)
    BY <2>1, <2>3, <1>1
  <2> QED
    BY <1>1, <1>4, <2>4
<1>6. CASE q.plan.route = "service"
  <2>1. q.tseq = T + 1 /\ q.tseq \notin 1..A
    BY <1>1, <1>4, <1>6 DEF Conflict, AuditNumbers
  <2>2. q.tseq = A + 1
    BY <2>1, <1>1
  <2>3. CASE q.plan.records > 0
    <3>1. AuditNumbers(q) = {q.tseq, q.aseq}
      BY <1>6, <2>3 DEF AuditNumbers
    <3>2. q.aseq \in 1..(A + 2) /\ q.aseq \notin 1..A /\ q.aseq # q.tseq
      BY <1>1, <1>6, <2>3, <3>1 DEF RequestOK, Conflict
    <3>3. q.aseq = A + 2
      BY <3>2, <2>2, <1>1
    <3>4. DOMAIN audit \cup AuditNumbers(q) = 1..(A + 2)
      BY <3>1, <3>3, <2>2, <1>1
    <3> QED
      BY <1>1, <1>4, <3>4
  <2>4. CASE ~(q.plan.records > 0)
    <3>1. AuditNumbers(q) = {q.tseq}
      BY <1>6, <2>4 DEF AuditNumbers
    <3>2. DOMAIN audit \cup AuditNumbers(q) = 1..(A + 1)
      BY <3>1, <2>2, <1>1
    <3> QED
      BY <1>1, <1>4, <3>2
  <2> QED
    BY <2>3, <2>4
<1> QED
  BY <1>2, <1>5, <1>6

\* The commit adds typed rows and keeps the rows there are.
LEMMA CommitRows ==
    ASSUME IInv, NEW s \in Sessions, Commit(s)
    PROVE  /\ IsLog(transitions)' /\ IsLog(audit)'
           /\ DOMAIN audit' = DOMAIN audit \cup AuditNumbers(session[s])
           /\ \A n \in DOMAIN audit : audit'[n] = audit[n]
<1> DEFINE q == session[s]
<1>1. q \in Requests /\ q.plan \in Plans
  BY DEF IInv, TypeOK, Requests
<1>2. q.from \in States /\ q.plan.to \in States /\ q.tseq \in Nat
  BY <1>1 DEF Requests, Plans
<1>3. /\ [from |-> q.from, to |-> q.plan.to] \in LogRows
      /\ [from |-> q.plan.to, to |-> q.plan.to] \in LogRows
  BY <1>2 DEF LogRows
<1>4. PICK k \in {1, 2} : DOMAIN audit \cup AuditNumbers(q) = 1..(MaxSeq(audit) + k)
  BY CommitNumbers
<1>5. audit' = Audited(q)
  BY DEF Commit
<1>6. /\ DOMAIN audit' = DOMAIN audit \cup AuditNumbers(q)
      /\ \A n \in DOMAIN audit : audit'[n] = audit[n]
      /\ \A n \in AuditNumbers(q) \ DOMAIN audit : audit'[n] \in LogRows
  BY <1>3, <1>5 DEF Audited
<1>7. IsLog(audit)'
  <2>1. MaxSeq(audit) \in Nat /\ IsLog(audit)
    BY DEF IInv, Numbered, TypeOK
  <2>2. DOMAIN audit' \subseteq Nat \ {0}
    BY <1>4, <1>6, <2>1
  <2> QED
    BY <1>6, <2>1, <2>2 DEF IsLog
<1>8. IsLog(transitions)'
  <2>1. IsLog(transitions)
    BY DEF IInv, TypeOK
  <2>2. CASE q.plan.route = "none"
    BY <2>1, <2>2 DEF Commit, IsLog
  <2>3. CASE q.plan.route # "none"
    <3>1. transitions' = Insert(transitions, q.tseq, [from |-> q.from, to |-> q.plan.to])
      BY <2>3 DEF Commit
    <3>2. q.tseq \in Nat \ {0}
      BY <2>3, CommitNumbers, <1>2 DEF IInv, Numbered
    <3> QED
      BY <1>3, <2>1, <3>1, <3>2 DEF Insert, IsLog
  <2> QED
    BY <2>2, <2>3
<1> QED
  BY <1>6, <1>7, <1>8

LEMMA CommitStep ==
    ASSUME IInv, NEW s \in Sessions, Commit(s)
    PROVE  IInv'
<1> DEFINE q == session[s]
           T == MaxSeq(transitions)
           A == MaxSeq(audit)
           move == [from |-> q.from, to |-> q.plan.to]
<1>1. /\ q \in Requests /\ q.plan \in Plans /\ T \in Nat /\ A \in Nat /\ T <= A
      /\ Numbered(transitions)
  BY DEF IInv, TypeOK, Requests, Numbered
<1>2. PICK k \in {1, 2} :
         /\ DOMAIN audit' = 1..(A + k)
         /\ q.plan.route # "none" => T + 1 <= A + k
  BY CommitNumbers, CommitRows
<1>3. Numbered(audit)' /\ MaxSeq(audit)' = A + k
  BY <1>1, <1>2, MaxSeqOfInterval, A + k \in Nat
<1>4. Numbered(transitions)' /\ MaxSeq(transitions)' \in Nat
      /\ T <= MaxSeq(transitions)' /\ MaxSeq(transitions)' <= A + k
  <2>1. CASE q.plan.route = "none"
    <3>1. transitions' = transitions
      BY <2>1 DEF Commit
    <3> QED
      BY <1>1, <3>1
  <2>2. CASE q.plan.route # "none"
    <3>1. transitions' = Insert(transitions, T + 1, move)
      BY <2>2, CommitNumbers DEF Commit
    <3>2. Numbered(transitions)' /\ MaxSeq(transitions)' = T + 1
      BY <1>1, <3>1, InsertNext
    <3> QED
      BY <1>1, <1>2, <2>2, <3>2
  <2> QED
    BY <2>1, <2>2
<1>5. TypeOK'
  <2>1. row' \in [state : States, version : Nat, closed : BOOLEAN]
    <3>1. /\ (IF q.plan.to # q.from THEN q.plan.to ELSE row.state) \in States
          /\ (IF q.plan.bump THEN q.version + 1 ELSE row.version) \in Nat
          /\ (row.closed \/ q.plan.closes) \in BOOLEAN
      BY <1>1 DEF IInv, TypeOK, Requests, Plans
    <3> QED
      BY <3>1, Zenon DEF Commit
  <2>2. txn' \in TxnStatuses
    BY <1>1 DEF Commit, IInv, TypeOK, Plans
  <2>3. session' \in [Sessions -> Requests]
    <3>1. Idle \in Requests
      <4>1. Note("DETECTED") \in Plans /\ "DETECTED" \in States
        BY DEF Note, Plans, Routes, TxnStatuses, States
      <4> QED
        BY <4>1 DEF Idle, Requests
    <3> QED
      BY <3>1 DEF Commit, IInv, TypeOK
  <2> QED
    BY <2>1, <2>2, <2>3, CommitRows DEF TypeOK
<1>6. ASSUME NEW x \in Sessions
      PROVE  RequestOK(session'[x], MaxSeq(transitions)', MaxSeq(audit)')
  <2>1. CASE x = s
    <3>1. session'[x] = Idle
      BY <2>1 DEF Commit, IInv, TypeOK
    <3>2. Note("DETECTED") \in Recorded
      BY DEF Note, Plans, Recorded, Routes, TxnStatuses, States
    <3> QED
      BY <3>1, <3>2 DEF Idle, RequestOK
  <2>2. CASE x # s
    <3>1. session'[x] = session[x] /\ session[x] \in Requests
      BY <2>2 DEF Commit, IInv, TypeOK
    <3>2. RequestOK(session[x], T, A)
      BY DEF IInv
    <3>3. A + k \in Nat /\ A <= A + k
      BY <1>1
    <3> QED
      BY <1>1, <1>3, <1>4, <3>1, <3>2, <3>3, RequestOKMonotone
  <2> QED
    BY <2>1, <2>2
<1> QED
  BY <1>3, <1>4, <1>5, <1>6 DEF IInv

LEMMA RollBackStep ==
    ASSUME IInv, NEW s \in Sessions, RollBack(s)
    PROVE  IInv'
<1>1. Note("DETECTED") \in Plans /\ Note("DETECTED").records = 1 /\ "DETECTED" \in States
  BY DEF Note, Plans, Routes, TxnStatuses, States
<1>2. Idle \in Requests /\ RequestOK(Idle, MaxSeq(transitions), MaxSeq(audit))
  BY <1>1 DEF Idle, Requests, RequestOK, Recorded
<1> QED
  BY <1>2, RequestStep DEF RollBack

-----------------------------------------------------------------------------
(* Theorems. *)

LEMMA NextOK == IInv /\ [Next]_vars => IInv'
<1> SUFFICES ASSUME IInv, [Next]_vars PROVE IInv'
  OBVIOUS
<1>1. row.state \in States /\ txn \in TxnStatuses
  BY DEF IInv, TypeOK
<1>2. ASSUME NEW s \in Sessions, OperatorTransition(s) PROVE IInv'
  BY <1>1, <1>2, PlanTypes, BeginStep DEF OperatorTransition
<1>3. ASSUME NEW s \in Sessions, UpdateCase(s) PROVE IInv'
  BY <1>1, <1>3, PlanTypes, BeginStep DEF UpdateCase
<1>4. ASSUME NEW s \in Sessions, GenerateRecommendation(s) PROVE IInv'
  BY <1>1, <1>4, PlanTypes, BeginStep DEF GenerateRecommendation
<1>5. ASSUME NEW s \in Sessions, EvaluatePolicy(s) PROVE IInv'
  BY <1>1, <1>5, PlanTypes, BeginStep DEF EvaluatePolicy
<1>6. ASSUME NEW s \in Sessions, ServiceTransition(s) PROVE IInv'
  BY <1>1, <1>6, PlanTypes, BeginStep DEF ServiceTransition
<1>7. ASSUME NEW s \in Sessions, ReconcileCase(s) PROVE IInv'
  BY <1>1, <1>7, PlanTypes, BeginStep DEF ReconcileCase
<1>8. ASSUME NEW s \in Sessions, PaymentSucceeded(s) PROVE IInv'
  BY <1>1, <1>8, PlanTypes, BeginStep DEF PaymentSucceeded
<1>9. ASSUME NEW s \in Sessions, PaymentFailed(s) PROVE IInv'
  BY <1>1, <1>9, PlanTypes, BeginStep DEF PaymentFailed
<1>10. ASSUME NEW s \in Sessions,
              ReadTransitionMax(s) \/ ReadAuditMax(s) \/ Commit(s) \/ RollBack(s)
       PROVE  IInv'
  BY <1>10, ReadStep, CommitStep, RollBackStep
<1>11. CASE UNCHANGED vars
  <2>1. /\ TypeOK' /\ Numbered(transitions)' /\ Numbered(audit)'
        /\ MaxSeq(transitions)' = MaxSeq(transitions) /\ MaxSeq(audit)' = MaxSeq(audit)
    BY <1>11 DEF vars, IInv, TypeOK, Numbered
  <2> QED
    BY <1>11, <2>1 DEF vars, IInv
<1> QED
  BY <1>2, <1>3, <1>4, <1>5, <1>6, <1>7, <1>8, <1>9, <1>10, <1>11 DEF Next

\* What RecoveryCaseService and the other writers of a case leave in the row and its
\* logs keeps its type in every deployment.
THEOREM TypeCorrect == Spec => []TypeOK
<1>1. IInv => TypeOK
  BY DEF IInv
<1> QED
  BY InitOK, NextOK, <1>1, PTL DEF Spec

\* Both logs are numbered 1..n for any number of concurrent requests, although
\* nothing but the UNIQUE constraints orders them (RecoveryCaseService,
\* CaseTransitionService and PaymentReconciliationService number separately).
THEOREM GaplessLogs == Spec => []LogsGapless
<1>1. IInv => LogsGapless
  BY DEF IInv, LogsGapless, Gapless, Numbered
<1> QED
  BY InitOK, NextOK, <1>1, PTL DEF Spec

-----------------------------------------------------------------------------
(* Coverage of the transitions by the audit log. *)

\* The commit of a transition adds an audit event of the same move, numbered
\* no lower.
LEMMA CommitCovers ==
    ASSUME IInv, AuditCoversTransitions, NEW s \in Sessions, Commit(s)
    PROVE  AuditCoversTransitions'
<1> DEFINE q == session[s]
           T == MaxSeq(transitions)
           A == MaxSeq(audit)
           move == [from |-> q.from, to |-> q.plan.to]
<1>1. /\ q.plan \in Plans /\ T \in Nat /\ A \in Nat /\ T <= A /\ DOMAIN audit = 1..A
      /\ DOMAIN transitions = 1..T
      /\ q.plan.route = "service" \/ q.plan.records > 0
  BY DEF IInv, TypeOK, Requests, Numbered, RequestOK, Recorded
<1>2. ASSUME NEW m \in DOMAIN transitions
      PROVE  \E n \in DOMAIN audit' : n >= m /\ audit'[n] = transitions[m]
  BY CommitRows DEF AuditCoversTransitions
<1>3. CASE q.plan.route = "none"
  BY <1>2, <1>3 DEF Commit, AuditCoversTransitions
<1>4. CASE q.plan.route # "none"
  <2>1. transitions' = Insert(transitions, T + 1, move) /\ q.tseq = T + 1
    BY <1>4, CommitNumbers DEF Commit
  <2>2. \E n \in DOMAIN audit' : n >= T + 1 /\ audit'[n] = move
    <3>1. /\ audit' = Audited(q) /\ ~Conflict(q) /\ q.pc = "commit"
          /\ DOMAIN audit' = DOMAIN audit \cup AuditNumbers(q)
      BY CommitRows DEF Commit
    <3>2. CASE q.plan.route = "service"
      <4>1. q.tseq \in AuditNumbers(q) /\ q.tseq \notin DOMAIN audit
        BY <3>1, <3>2 DEF AuditNumbers, Conflict
      <4>2. audit'[q.tseq] = move
        BY <3>1, <3>2, <4>1 DEF Audited
      <4> QED
        BY <1>1, <2>1, <3>1, <4>1, <4>2
    <3>3. CASE q.plan.route # "service"
      <4>1. q.plan.route = "own" /\ q.plan.records > 0
        BY <1>1, <1>4, <3>3 DEF Plans, Routes
      <4>2. q.aseq \in AuditNumbers(q) /\ q.aseq \notin DOMAIN audit /\ q.aseq >= T + 1
        <5>1. q.aseq \in AuditNumbers(q) /\ q.aseq \notin DOMAIN audit
          BY <3>1, <4>1 DEF AuditNumbers, Conflict
        <5>2. q.aseq \in 1..(A + 1)
          BY <3>1, <3>3, <4>1 DEF IInv, RequestOK
        <5> QED
          BY <1>1, <5>1, <5>2
      <4>3. audit'[q.aseq] = move
        BY <3>1, <4>1, <4>2 DEF Audited
      <4> QED
        BY <3>1, <4>2, <4>3
    <3> QED
      BY <3>2, <3>3
  <2>3. /\ DOMAIN transitions' = DOMAIN transitions \cup {T + 1}
        /\ transitions'[T + 1] = move
        /\ \A m \in DOMAIN transitions : m # T + 1 => transitions'[m] = transitions[m]
    BY <2>1 DEF Insert
  <2> QED
    BY <1>2, <2>2, <2>3 DEF AuditCoversTransitions
<1> QED
  BY <1>3, <1>4

\* No committed transition lacks its audit event, whichever service wrote it
\* and whatever ran beside it.
THEOREM TransitionsAudited == Spec => []AuditCoversTransitions
<1>1. Init => AuditCoversTransitions
  <2> SUFFICES ASSUME Init PROVE AuditCoversTransitions
    OBVIOUS
  <2>1. PICK o \in Openings : transitions = o[1] /\ audit = o[2]
    BY DEF Init
  <2>2. DOMAIN transitions \subseteq {1} /\ (transitions = audit \/ DOMAIN transitions = {})
    BY <2>1 DEF Openings
  <2> QED
    BY <2>2 DEF AuditCoversTransitions
<1>2. IInv /\ AuditCoversTransitions /\ [Next]_vars => AuditCoversTransitions'
  <2> SUFFICES ASSUME IInv, AuditCoversTransitions, [Next]_vars
               PROVE  AuditCoversTransitions'
    OBVIOUS
  <2>1. CASE \E s \in Sessions : Commit(s)
    BY <2>1, CommitCovers
  <2>2. CASE UNCHANGED <<transitions, audit>>
    BY <2>2 DEF AuditCoversTransitions
  <2>3. \/ \E s \in Sessions : Commit(s)
        \/ UNCHANGED <<transitions, audit>>
    BY DEF Next, vars, OperatorTransition, UpdateCase, GenerateRecommendation,
           EvaluatePolicy, ServiceTransition, ReconcileCase, PaymentSucceeded,
           PaymentFailed, Begin, ReadTransitionMax, ReadAuditMax, RollBack
  <2> QED
    BY <2>1, <2>2, <2>3
<1> QED
  BY <1>1, <1>2, InitOK, NextOK, PTL DEF Spec

-----------------------------------------------------------------------------
(* How a RECOVERED or CLOSED case can be reopened. *)

FinalStates == {"RECOVERED", "CLOSED"}

\* A request that loaded a final state plans to leave it there.
FinalPlans ==
    \A s \in Sessions :
        session[s].pc # "idle" /\ session[s].from \in FinalStates
            => session[s].plan.to = session[s].from

\* The handlers without a guard on terminal states spare the final ones.
LEMMA FinalPlansKeep ==
    ASSUME NEW st \in FinalStates
    PROVE  /\ RecommendPlan(st).to = st
           /\ \A p \in PolicyPlans(st) : p.to = st
           /\ ServicePlans(st) = {}
           /\ \A paid, provider : \A p \in ReconcilePlans(st, paid, provider) : p.to = st
<1>1. Note(st).to = st /\ st \in States /\ st \in TerminalStates
      /\ st # "DETECTED" /\ st # "VERIFICATION_PENDING" /\ st \notin ActionableStates
  BY DEF Note, FinalStates, TerminalStates, ActionableStates, States
<1>2. AllowedTransitions[st] \subseteq {"CLOSED"}
  BY <1>1 DEF AllowedTransitions, FinalStates
<1>3. \A f : \A v \in PolicyVerdicts(st) : PolicyTarget(v, f, st) = st
  BY <1>1 DEF PolicyTarget, PolicyVerdicts
<1>4. [Note(st) EXCEPT !.settles = "SUCCEEDED"].to = st
      /\ [Note(st) EXCEPT !.settles = "FAILED"].to = st
  BY DEF Note
<1>5. ASSUME NEW paid, NEW provider, NEW p \in ReconcilePlans(st, paid, provider)
      PROVE  p.to = st
  <2>1. AllowedTransitions[st] \cap {"ESCALATED"} = {}
    BY <1>2
  <2>2. \/ p = [Note(st) EXCEPT !.settles = "SUCCEEDED"]
        \/ p = [Note(st) EXCEPT !.settles = "FAILED"]
        \/ p = Note(st)
    BY <1>1, <1>5, <2>1 DEF ReconcilePlans, FinalStates
  <2> QED
    BY <2>2, <1>1, <1>4
<1>6. \A p \in PolicyPlans(st) : p.to = st
  BY <1>1, <1>3 DEF PolicyPlans
<1>7. ServicePlans(st) = {}
  BY <1>2 DEF ServicePlans, ServiceTargets
<1>8. RecommendPlan(st).to = st
  BY <1>1 DEF RecommendPlan
<1> QED
  BY <1>5, <1>6, <1>7, <1>8

\* A request that begins respects the final states.
LEMMA FinalPlansBegin ==
    ASSUME TypeOK, FinalPlans, NEW s \in Sessions, NEW handler, NEW plans,
           row.state \in FinalStates => \A p \in plans : p.to = row.state,
           Begin(s, handler, plans)
    PROVE  FinalPlans'
<1>1. PICK p \in plans :
         session' = [session EXCEPT ![s] =
            [pc |-> IF p.route = "none" THEN "audit" ELSE "transition",
             from |-> row.state, version |-> row.version, plan |-> p,
             tseq |-> 0, aseq |-> 0]]
  BY DEF Begin
<1>2. \A x \in Sessions : x # s => session'[x] = session[x]
  BY <1>1 DEF TypeOK
<1>3. session'[s].from = row.state /\ session'[s].plan = p
  BY <1>1 DEF TypeOK
<1> QED
  BY <1>2, <1>3 DEF FinalPlans

LEMMA FinalPlansStep == TypeOK /\ FinalPlans /\ [Next]_vars => FinalPlans'
<1> SUFFICES ASSUME TypeOK, FinalPlans, [Next]_vars PROVE FinalPlans'
  OBVIOUS
<1>1. row.state \in FinalStates => row.state \in TerminalStates
  BY DEF FinalStates, TerminalStates
<1>2. ASSUME NEW s \in Sessions,
             OperatorTransition(s) \/ UpdateCase(s) \/ PaymentSucceeded(s) \/ PaymentFailed(s)
      PROVE  FinalPlans'
  BY <1>1, <1>2, FinalPlansBegin
     DEF OperatorTransition, UpdateCase, PaymentSucceeded, PaymentFailed
<1>3. ASSUME NEW s \in Sessions,
             GenerateRecommendation(s) \/ EvaluatePolicy(s)
                \/ ServiceTransition(s) \/ ReconcileCase(s)
      PROVE  FinalPlans'
  BY <1>3, FinalPlansBegin, FinalPlansKeep
     DEF GenerateRecommendation, EvaluatePolicy, ServiceTransition, ReconcileCase
<1>4. ASSUME NEW s \in Sessions, ReadTransitionMax(s) \/ ReadAuditMax(s)
      PROVE  FinalPlans'
  <2>1. \A x \in Sessions : x # s => session'[x] = session[x]
    BY <1>4 DEF ReadTransitionMax, ReadAuditMax, TypeOK
  <2>2. /\ session'[s].from = session[s].from /\ session'[s].plan = session[s].plan
        /\ session[s].pc # "idle"
    BY <1>4 DEF ReadTransitionMax, ReadAuditMax, TypeOK, Requests
  <2> QED
    BY <2>1, <2>2 DEF FinalPlans
<1>5. ASSUME NEW s \in Sessions, Commit(s) \/ RollBack(s)
      PROVE  FinalPlans'
  <2>1. \A x \in Sessions : session'[x] = IF x = s THEN Idle ELSE session[x]
    BY <1>5 DEF Commit, RollBack, TypeOK
  <2> QED
    BY <2>1 DEF FinalPlans, Idle
<1>6. CASE UNCHANGED vars
  BY <1>6 DEF vars, FinalPlans
<1> QED
  BY <1>2, <1>3, <1>4, <1>5, <1>6 DEF Next

\* A RECOVERED or CLOSED case is reopened only by a request that had loaded
\* it before: every handler respects final states at its load.
THEOREM StaleReopening == Spec => OnlyStaleRequestsReopen
<1>1. Init => FinalPlans
  BY DEF Init, FinalPlans, Idle
<1>2. TypeOK /\ FinalPlans /\ [Next]_vars =>
         [row.state \in {"RECOVERED", "CLOSED"} /\ row'.state # row.state
             => \E s \in Sessions : /\ session[s].pc = "commit"
                                    /\ session[s].from # row.state]_vars
  <2> SUFFICES ASSUME TypeOK, FinalPlans, Next,
                      row.state \in FinalStates, row'.state # row.state
               PROVE  \E s \in Sessions : session[s].pc = "commit"
                                          /\ session[s].from # row.state
    BY DEF FinalStates, vars
  <2>1. PICK s \in Sessions : Commit(s)
    BY DEF Next, OperatorTransition, UpdateCase, GenerateRecommendation,
           EvaluatePolicy, ServiceTransition, ReconcileCase, PaymentSucceeded,
           PaymentFailed, Begin, ReadTransitionMax, ReadAuditMax, RollBack
  <2>2. session[s].pc = "commit" /\ session[s].plan.to # session[s].from
    BY <2>1 DEF Commit
  <2> QED
    BY <2>2 DEF FinalPlans
<1> QED
  BY <1>1, <1>2, TypeCorrect, FinalPlansStep, PTL DEF Spec, OnlyStaleRequestsReopen

-----------------------------------------------------------------------------
(* One request at a time: what a request has loaded is still so when it      *)
(* commits.                                                                  *)

Serial == \E s : Sessions = {s}

\* What a request may plan for a case in state st whose transaction has status
\* paid, told by the fields of the plan.
Noting(p, st) == p.route = "none" /\ p.to = st /\ p.settles = "KEEP"

Moving(p, st) ==
    p.route = "own" /\ st \notin TerminalStates /\ p.to # st /\ p.settles = "KEEP"

Asking(p, st) ==
    /\ p.route = "service" /\ p.to \in AllowedTransitions[st] /\ p.settles = "KEEP"
    /\ IF p.records = 0 THEN p.to \in ServiceTargets
       ELSE p.to = "ESCALATED" /\ st \notin {"ESCALATED", "CLOSED"}

Paying(p, st) ==
    /\ p.route = "own" /\ st \notin TerminalStates /\ p.to = "RECOVERED"
    /\ p.settles \in {"SUCCEEDED", "KEEP"}

Settling(p, st, paid) ==
    \/ /\ paid # "SUCCEEDED" /\ p.settles = "SUCCEEDED" /\ p.records = 1
       /\ p.to = IF st = "CLOSED" THEN st ELSE "RECOVERED"
       /\ p.route = IF st = "VERIFICATION_PENDING" THEN "service" ELSE "none"
    \/ /\ paid = "PENDING" /\ p.settles = "FAILED" /\ p.records = 1
       /\ p.to = IF st = "VERIFICATION_PENDING" THEN "RETRY_ELIGIBLE" ELSE st
       /\ p.route = IF st = "VERIFICATION_PENDING" THEN "service" ELSE "none"

\* A plan with a transition counts the version; one that moves the case without a
\* transition does not.
Counts(p, st) == IF p.route = "none" THEN p.to # st => ~p.bump ELSE p.bump

\* The first recommendation of a case numbers two audit events alike; no other plan
\* has two, and the service alone writes its own.
Fits(p, st, paid) ==
    /\ p \in Recorded /\ Counts(p, st)
    /\ p.route = "none" => p.records = 1
    /\ p.route = "service" => p.records \in {0, 1}
    /\ p.records = 2 \/ Noting(p, st) \/ Moving(p, st) \/ Asking(p, st) \/ Paying(p, st)
          \/ Settling(p, st, paid)
    /\ p.records = 2 => p.route = "own" /\ st = "DETECTED"

\* What it has loaded, and the numbers it has read, are the latest.
StillSo(q) ==
    /\ q.pc # "idle" => /\ q.from = row.state /\ q.version = row.version
                        /\ Fits(q.plan, row.state, txn)
    /\ (q.pc \in {"audit", "commit"} /\ q.plan.route # "none") => q.tseq = MaxSeq(transitions) + 1
    /\ (q.pc = "commit" /\ q.plan.records > 0) =>
           q.aseq = MaxSeq(audit) + (IF q.plan.route = "service" THEN 2 ELSE 1)

\* The newest rows of the logs tell the state of the case, but for a recovery that
\* reconciliation writes without a transition; from there no transition leads.
LogsTell ==
    /\ MaxSeq(audit) > 0 => audit[MaxSeq(audit)].to = row.state
    /\ MaxSeq(transitions) > 0 =>
          row.state = "RECOVERED" \/ transitions[MaxSeq(transitions)].to = row.state
    /\ ChainUnbroken

SerialInv == IInv /\ LogsTell /\ \A s \in Sessions : StillSo(session[s])

\* The fields of a plan, and of one with a field rewritten.
LEMMA FieldsOfPlans ==
    ASSUME NEW st, NEW to, NEW n, NEW b, NEW paid
    PROVE  /\ LET p == Note(st) IN
              p.to = st /\ p.route = "none" /\ p.records = 1 /\ p.settles = "KEEP"
           /\ LET p == [Note(st) EXCEPT !.settles = paid] IN
              p.to = st /\ p.route = "none" /\ p.records = 1 /\ p.settles = paid
           /\ LET p == [Note(st) EXCEPT !.bump = b] IN
              p.to = st /\ p.route = "none" /\ p.records = 1 /\ p.settles = "KEEP"
           /\ LET p == [[Note(st) EXCEPT !.closes = b] EXCEPT !.settles = paid] IN
              p.to = st /\ p.route = "none" /\ p.records = 1 /\ p.settles = paid
           /\ LET p == Move(st, to) IN
              p.to = to /\ p.route = "own" /\ p.records = 1 /\ p.settles = "KEEP"
           /\ LET p == [Move(st, to) EXCEPT !.closes = b] IN
              p.to = to /\ p.route = "own" /\ p.records = 1 /\ p.settles = "KEEP"
           /\ LET p == [Move(st, to) EXCEPT !.closes = b, !.settles = paid] IN
              p.to = to /\ p.route = "own" /\ p.records = 1 /\ p.settles = paid
           /\ LET p == [Move(st, to) EXCEPT !.records = 2] IN
              p.to = to /\ p.route = "own" /\ p.records = 2 /\ p.settles = "KEEP"
           /\ LET p == ServiceMove(st, to, n) IN
              p.to = to /\ p.route = "service" /\ p.records = n /\ p.settles = "KEEP"
           /\ LET p == [ServiceMove(st, to, n) EXCEPT !.settles = paid] IN
              p.to = to /\ p.route = "service" /\ p.records = n /\ p.settles = paid
BY DEF Note, Move, ServiceMove

\* What the handlers' plans do to the version.
LEMMA PlansCount ==
    ASSUME NEW st \in States
    PROVE  /\ \A p \in OperatorPlans(st) : Counts(p, st)
           /\ Counts(UpdatePlan(st), st)
           /\ Counts(RecommendPlan(st), st)
           /\ \A p \in PolicyPlans(st) : Counts(p, st)
           /\ \A p \in ServicePlans(st) : Counts(p, st)
           /\ \A p \in SuccessPlans(st) : Counts(p, st)
<1>1. ASSUME NEW p, \E to, b : p = [Move(st, to) EXCEPT !.closes = b]
      PROVE  Counts(p, st)
  BY <1>1 DEF Move, Note, Counts
<1>2. ASSUME NEW p, \E b, paid : p = [Move(st, "RECOVERED") EXCEPT !.closes = b, !.settles = paid]
      PROVE  Counts(p, st)
  BY <1>2 DEF Move, Note, Counts
<1>3. ASSUME NEW p, p = Note(st) \/ \E to : p = Move(st, to)
      PROVE  Counts(p, st)
  <2>1. CASE p = Note(st)
    BY <2>1 DEF Note, Counts
  <2>2. CASE \E to : p = Move(st, to)
    BY <2>2 DEF Move, Note, Counts
  <2>3. QED
    BY <1>3, <2>1, <2>2
<1>4. ASSUME NEW p, \E to : p = ServiceMove(st, to, 0)
      PROVE  Counts(p, st)
  BY <1>4 DEF ServiceMove, Note, Counts
<1>5. \A p \in OperatorPlans(st) : Counts(p, st)
  BY <1>1 DEF OperatorPlans
<1>6. Counts(UpdatePlan(st), st)
  BY DEF UpdatePlan, Note, Counts
<1>7. Counts(RecommendPlan(st), st)
  BY DEF RecommendPlan, Note, Move, Counts
<1>8. \A p \in PolicyPlans(st) : Counts(p, st)
  BY <1>3 DEF PolicyPlans
<1>9. \A p \in ServicePlans(st) : Counts(p, st)
  BY <1>4 DEF ServicePlans
<1>10. \A p \in SuccessPlans(st) : Counts(p, st)
  BY <1>2 DEF SuccessPlans
<1>11. QED
  BY <1>5, <1>6, <1>7, <1>8, <1>9, <1>10

LEMMA ReconcilePlansCount ==
    ASSUME NEW st \in States, NEW paid \in TxnStatuses, NEW provider \in ProviderStatuses,
           NEW p \in ReconcilePlans(st, paid, provider)
    PROVE  Counts(p, st)
<1>1. \/ \E to, x : p = [ServiceMove(st, to, 1) EXCEPT !.settles = x]
      \/ \E to : p = ServiceMove(st, to, 1)
      \/ \E x : p = [Note(st) EXCEPT !.settles = x]
      \/ p = [[Note("RECOVERED") EXCEPT !.closes = TRUE] EXCEPT !.settles = "SUCCEEDED"]
      \/ p = Note(st)
  BY DEF ReconcilePlans
<1>2. CASE \E to, x : p = [ServiceMove(st, to, 1) EXCEPT !.settles = x]
  BY <1>2 DEF ServiceMove, Note, Counts
<1>3. CASE \E to : p = ServiceMove(st, to, 1)
  BY <1>3 DEF ServiceMove, Note, Counts
<1>4. CASE \E x : p = [Note(st) EXCEPT !.settles = x]
  BY <1>4 DEF Note, Counts
<1>5. CASE p = [[Note("RECOVERED") EXCEPT !.closes = TRUE] EXCEPT !.settles = "SUCCEEDED"]
  BY <1>5 DEF Note, Counts
<1>6. CASE p = Note(st)
  BY <1>6 DEF Note, Counts
<1>7. QED
  BY <1>1, <1>2, <1>3, <1>4, <1>5, <1>6

\* RecoveryCaseService, EventToCaseEngine: the handlers that spare a terminal state.
LEMMA OpenPlansFit ==
    ASSUME NEW st \in States \ TerminalStates, NEW paid
    PROVE  /\ \A p \in OperatorPlans(st) : Fits(p, st, paid)
           /\ Fits(UpdatePlan(st), st, paid)
           /\ \A p \in SuccessPlans(st) : Fits(p, st, paid)
<1>1. ASSUME NEW p \in OperatorPlans(st)
      PROVE  Fits(p, st, paid)
  <2>1. p \in Recorded /\ Counts(p, st)
    BY PlanTypes, PlansCount
  <2>2. PICK to \in OperatorTargets \ {st} :
            p = [Move(st, to) EXCEPT !.closes = (to \in TerminalStates)]
    BY DEF OperatorPlans
  <2>3. p.to = to /\ p.route = "own" /\ p.records = 1 /\ p.settles = "KEEP"
    BY <2>2, FieldsOfPlans
  <2>4. QED
    BY <2>1, <2>2, <2>3 DEF Fits, Moving
<1>2. Fits(UpdatePlan(st), st, paid)
  <2> DEFINE p == UpdatePlan(st)
  <2>1. p \in Recorded /\ Counts(p, st)
    BY PlanTypes, PlansCount
  <2>2. p.to = st /\ p.route = "none" /\ p.records = 1 /\ p.settles = "KEEP"
    BY FieldsOfPlans DEF UpdatePlan
  <2> HIDE DEF p
  <2>3. Fits(p, st, paid)
    BY <2>1, <2>2 DEF Fits, Noting
  <2>4. QED
    BY <2>3 DEF p
<1>3. ASSUME NEW p \in SuccessPlans(st)
      PROVE  Fits(p, st, paid)
  <2>1. p \in Recorded /\ Counts(p, st)
    BY PlanTypes, PlansCount
  <2>2. PICK marked \in {"SUCCEEDED", "KEEP"} :
            p = [Move(st, "RECOVERED") EXCEPT !.closes = TRUE, !.settles = marked]
    BY DEF SuccessPlans
  <2>3. p.to = "RECOVERED" /\ p.route = "own" /\ p.records = 1 /\ p.settles = marked
    BY <2>2, FieldsOfPlans
  <2>4. QED
    BY <2>1, <2>2, <2>3 DEF Fits, Paying
<1>4. QED
  BY <1>1, <1>2, <1>3

\* IntelligenceOrchestrator, PolicyEngineService, CaseTransitionService.
LEMMA OtherPlansFit ==
    ASSUME NEW st \in States, NEW paid
    PROVE  /\ Fits(RecommendPlan(st), st, paid)
           /\ \A p \in PolicyPlans(st) : Fits(p, st, paid)
           /\ \A p \in ServicePlans(st) : Fits(p, st, paid)
<1>1. Fits(RecommendPlan(st), st, paid)
  <2> DEFINE p == RecommendPlan(st)
  <2>1. p \in Recorded /\ Counts(p, st)
    BY PlanTypes, PlansCount
  <2>2. IF st = "DETECTED" THEN p.route = "own" /\ p.records = 2
        ELSE p.to = st /\ p.route = "none" /\ p.records = 1 /\ p.settles = "KEEP"
    BY FieldsOfPlans DEF RecommendPlan
  <2> HIDE DEF p
  <2>3. Fits(p, st, paid)
    BY <2>1, <2>2 DEF Fits, Noting
  <2>4. QED
    BY <2>3 DEF p
<1>2. ASSUME NEW p \in PolicyPlans(st)
      PROVE  Fits(p, st, paid)
  <2>1. p \in Recorded /\ Counts(p, st)
    BY PlanTypes, PlansCount
  <2>2. PICK v \in PolicyVerdicts(st), f \in BOOLEAN :
            LET to == PolicyTarget(v, f, st) IN p = IF to = st THEN Note(st) ELSE Move(st, to)
    BY DEF PolicyPlans
  <2> DEFINE to == PolicyTarget(v, f, st)
  <2>3. to # st => st \notin TerminalStates
    BY DEF PolicyTarget, ActionableStates, TerminalStates
  <2> HIDE DEF to
  <2>4. p = IF to = st THEN Note(st) ELSE Move(st, to)
    BY <2>2 DEF to
  <2>5. CASE to = st
    BY <2>1, <2>4, <2>5, FieldsOfPlans DEF Fits, Noting
  <2>6. CASE to # st
    BY <2>1, <2>3, <2>4, <2>6, FieldsOfPlans DEF Fits, Moving
  <2>7. QED
    BY <2>5, <2>6
<1>3. ASSUME NEW p \in ServicePlans(st)
      PROVE  Fits(p, st, paid)
  <2>1. p \in Recorded /\ Counts(p, st)
    BY PlanTypes, PlansCount
  <2>2. PICK to \in AllowedTransitions[st] \cap ServiceTargets : p = ServiceMove(st, to, 0)
    BY DEF ServicePlans
  <2>3. p.to = to /\ p.route = "service" /\ p.records = 0 /\ p.settles = "KEEP"
    BY <2>2, FieldsOfPlans
  <2>4. QED
    BY <2>1, <2>2, <2>3 DEF Fits, Asking
<1>4. QED
  BY <1>1, <1>2, <1>3

\* PaymentReconciliationService.reconcile_case.
LEMMA ReconcilePlansFit ==
    ASSUME NEW st \in States, NEW paid \in TxnStatuses, NEW provider \in ProviderStatuses,
           NEW p \in ReconcilePlans(st, paid, provider)
    PROVE  Fits(p, st, paid)
<1>1. p \in Recorded /\ Counts(p, st)
  BY PlanTypes, ReconcilePlansCount
<1>2. CASE paid # "SUCCEEDED" /\ provider = "SUCCEEDED"
  <2>1. /\ p.to = IF st = "CLOSED" THEN st ELSE "RECOVERED"
        /\ p.route = IF st = "VERIFICATION_PENDING" THEN "service" ELSE "none"
        /\ p.records = 1 /\ p.settles = "SUCCEEDED"
    <3>1. p = [(CASE st = "VERIFICATION_PENDING"     -> ServiceMove(st, "RECOVERED", 1)
                  [] st \in {"RECOVERED", "CLOSED"}  -> Note(st)
                  [] OTHER -> [Note("RECOVERED") EXCEPT !.closes = TRUE])
               EXCEPT !.settles = "SUCCEEDED"]
      BY <1>2 DEF ReconcilePlans
    <3>2. CASE st = "VERIFICATION_PENDING"
      <4>1. p = [ServiceMove(st, "RECOVERED", 1) EXCEPT !.settles = "SUCCEEDED"]
        BY <3>1, <3>2
      <4>2. QED
        BY <3>2, <4>1, FieldsOfPlans
    <3>3. CASE st \in {"RECOVERED", "CLOSED"}
      <4>1. p = [Note(st) EXCEPT !.settles = "SUCCEEDED"]
        BY <3>1, <3>3
      <4>2. QED
        BY <3>3, <4>1, FieldsOfPlans
    <3>4. CASE st \notin {"VERIFICATION_PENDING", "RECOVERED", "CLOSED"}
      <4>1. p = [[Note("RECOVERED") EXCEPT !.closes = TRUE] EXCEPT !.settles = "SUCCEEDED"]
        BY <3>1, <3>4
      <4>2. QED
        BY <3>4, <4>1, FieldsOfPlans
    <3>5. QED
      BY <3>2, <3>3, <3>4
  <2>2. QED
    BY <1>1, <1>2, <2>1 DEF Fits, Settling
<1>3. CASE paid = "PENDING" /\ provider = "FAILED"
  <2>1. p = [(IF st = "VERIFICATION_PENDING" THEN ServiceMove(st, "RETRY_ELIGIBLE", 1)
                                             ELSE Note(st)) EXCEPT !.settles = "FAILED"]
    BY <1>3 DEF ReconcilePlans
  <2>2. /\ p.to = IF st = "VERIFICATION_PENDING" THEN "RETRY_ELIGIBLE" ELSE st
        /\ p.route = IF st = "VERIFICATION_PENDING" THEN "service" ELSE "none"
        /\ p.records = 1 /\ p.settles = "FAILED"
    <3>1. CASE st = "VERIFICATION_PENDING"
      <4>1. p = [ServiceMove(st, "RETRY_ELIGIBLE", 1) EXCEPT !.settles = "FAILED"]
        BY <2>1, <3>1
      <4>2. QED
        BY <3>1, <4>1, FieldsOfPlans
    <3>2. CASE st # "VERIFICATION_PENDING"
      <4>1. p = [Note(st) EXCEPT !.settles = "FAILED"]
        BY <2>1, <3>2
      <4>2. QED
        BY <3>2, <4>1, FieldsOfPlans
    <3>3. QED
      BY <3>1, <3>2
  <2>3. QED
    BY <1>1, <1>3, <2>2 DEF Fits, Settling
<1>4. CASE /\ ~(paid # "SUCCEEDED" /\ provider = "SUCCEEDED")
           /\ ~(paid = "PENDING" /\ provider = "FAILED")
  <2>1. CASE provider = "UNKNOWN" /\ st \notin {"ESCALATED", "CLOSED"}
    <3>1. "ESCALATED" \in AllowedTransitions[st] /\ p = ServiceMove(st, "ESCALATED", 1)
      BY <1>4, <2>1 DEF ReconcilePlans
    <3>2. QED
      BY <1>1, <2>1, <3>1, FieldsOfPlans DEF Fits, Asking
  <2>2. CASE ~(provider = "UNKNOWN" /\ st \notin {"ESCALATED", "CLOSED"})
    <3>1. p = Note(st)
      BY <1>4, <2>2 DEF ReconcilePlans
    <3>2. QED
      BY <1>1, <3>1, FieldsOfPlans DEF Fits, Noting
  <2>3. QED
    BY <2>1, <2>2
<1>5. QED
  BY <1>2, <1>3, <1>4

\* What a plan that fits can hold.
LEMMA FitsMeans ==
    ASSUME NEW p, NEW st \in States, NEW paid \in TxnStatuses, Fits(p, st, paid)
    PROVE  /\ p \in Plans /\ p.records \in {0, 1, 2} /\ p.route \in Routes
           /\ p.route # "service" => p.records \in {1, 2}
           /\ p.route = "none" => p.records = 1
           /\ p.route = "service" => p.records \in {0, 1}
           /\ p.records = 2 => p.route = "own"
           /\ (p.records # 2 /\ st \in FinalStates) => p.route = "none" /\ p.to = st
           /\ (p.records # 2 /\ paid = "SUCCEEDED") => p.settles \in {"KEEP", "SUCCEEDED"}
           /\ p.route # "none" => p.bump
           /\ (p.records # 2 /\ p.route # "none") => st \notin TerminalStates
           /\ (p.route = "none" /\ p.to # st) =>
                 /\ ~p.bump /\ p.to = "RECOVERED"
                 /\ p.settles = "SUCCEEDED" /\ paid # "SUCCEEDED"
<1>1. p \in Plans /\ p.records \in {0, 1, 2} /\ p.route \in Routes
  BY DEF Fits, Recorded, Plans
<1>2. p.route # "service" => p.records \in {1, 2}
  BY <1>1 DEF Fits, Recorded
<1>3. ASSUME p.records # 2, st \in FinalStates
      PROVE  p.route = "none" /\ p.to = st
  <2>1. st \in TerminalStates /\ AllowedTransitions[st] \subseteq {"CLOSED"}
    BY <1>3 DEF FinalStates, TerminalStates, AllowedTransitions, States
  <2>2. ~Moving(p, st) /\ ~Paying(p, st)
    BY <2>1 DEF Moving, Paying
  <2>3. ~Asking(p, st)
    BY <2>1 DEF Asking, ServiceTargets
  <2>4. Noting(p, st) \/ Settling(p, st, paid)
    BY <1>3, <2>2, <2>3 DEF Fits
  <2>5. QED
    BY <1>3, <2>4 DEF Noting, Settling, FinalStates
<1>4. ASSUME p.records # 2, paid = "SUCCEEDED"
      PROVE  p.settles \in {"KEEP", "SUCCEEDED"}
  BY <1>4 DEF Fits, Noting, Moving, Asking, Paying, Settling
<1>5. ASSUME p.records # 2, p.route # "none"
      PROVE  st \notin TerminalStates
  <2>1. st \in TerminalStates => AllowedTransitions[st] \subseteq {"CLOSED"}
    BY DEF TerminalStates, AllowedTransitions, States
  <2>2. Moving(p, st) \/ Asking(p, st) \/ Paying(p, st) \/ Settling(p, st, paid)
    BY <1>5 DEF Fits, Noting
  <2>3. QED
    BY <1>5, <2>1, <2>2 DEF Moving, Asking, Paying, Settling, ServiceTargets, TerminalStates
<1>6. ASSUME p.route = "none", p.to # st
      PROVE  /\ ~p.bump /\ p.to = "RECOVERED"
             /\ p.settles = "SUCCEEDED" /\ paid # "SUCCEEDED"
  <2>1. Settling(p, st, paid)
    BY <1>6 DEF Fits, Noting, Moving, Asking, Paying
  <2>2. p.to = "RECOVERED" /\ p.settles = "SUCCEEDED" /\ paid # "SUCCEEDED"
    BY <1>6, <2>1 DEF Settling
  <2>3. ~p.bump
    BY <1>6 DEF Fits, Counts
  <2>4. QED
    BY <2>2, <2>3
<1>7. QED
  BY <1>1, <1>2, <1>3, <1>4, <1>5, <1>6 DEF Fits, Counts

\* The UNIQUE constraints refuse a request served alone for two reasons only.
LEMMA ConflictMeans ==
    ASSUME SerialInv, NEW s \in Sessions, session[s].pc = "commit"
    PROVE  LET q == session[s] IN
           Conflict(q) <=> \/ q.plan.route = "service" /\ MaxSeq(audit) # MaxSeq(transitions)
                           \/ q.plan.records = 2
<1> DEFINE q == session[s]
           T == MaxSeq(transitions)
           A == MaxSeq(audit)
<1>1. /\ q \in Requests /\ StillSo(q) /\ q.pc = "commit"
      /\ T \in Nat /\ A \in Nat /\ T <= A
      /\ DOMAIN transitions = 1..T /\ DOMAIN audit = 1..A
      /\ row.state \in States /\ txn \in TxnStatuses
  BY DEF SerialInv, IInv, TypeOK, Numbered
<1> HIDE DEF q, T, A
<1>2. Fits(q.plan, row.state, txn)
  BY <1>1 DEF StillSo
<1>3. /\ q.plan.records \in {0, 1, 2} /\ q.plan.route \in Routes
      /\ q.plan.route # "service" => q.plan.records \in {1, 2}
      /\ q.plan.route = "service" => q.plan.records \in {0, 1}
  BY <1>1, <1>2, FitsMeans
<1>4. /\ q.plan.route # "none" => q.tseq = T + 1
      /\ q.plan.records > 0 => q.aseq = A + (IF q.plan.route = "service" THEN 2 ELSE 1)
  BY <1>1 DEF StillSo, T, A
<1>5. q.plan.route # "none" => q.tseq \notin DOMAIN transitions
  BY <1>1, <1>4
<1>6. CASE q.plan.route # "service"
  <2>1. AuditNumbers(q) = {A + 1}
    BY <1>3, <1>4, <1>6 DEF AuditNumbers
  <2>2. AuditNumbers(q) \cap DOMAIN audit = {}
    BY <1>1, <2>1
  <2>3. Conflict(q) <=> q.plan.records > 1
    BY <1>5, <1>6, <2>2 DEF Conflict
  <2>4. QED
    BY <1>3, <1>6, <2>3 DEF q
<1>7. CASE q.plan.route = "service"
  <2>1. q.tseq = T + 1 /\ q.tseq \in AuditNumbers(q) /\ q.plan.records <= 1
    BY <1>3, <1>4, <1>7 DEF AuditNumbers
  <2>2. CASE A # T
    <3>1. T + 1 \in 1..A
      BY <1>1, <2>2
    <3>2. Conflict(q)
      BY <1>1, <2>1, <3>1 DEF Conflict
    <3>3. QED
      BY <1>7, <2>2, <3>2 DEF q, T, A
  <2>3. CASE A = T
    <3>1. q.plan.records > 0 => q.aseq = A + 2
      BY <1>4, <1>7
    <3>2. AuditNumbers(q) \subseteq {A + 1, A + 2} /\ (q.plan.records > 0 => q.aseq # q.tseq)
      BY <1>1, <1>7, <2>1, <2>3, <3>1 DEF AuditNumbers
    <3>3. AuditNumbers(q) \cap DOMAIN audit = {}
      BY <1>1, <3>2
    <3>4. ~Conflict(q)
      BY <1>3, <1>5, <1>7, <2>1, <3>2, <3>3 DEF Conflict
    <3>5. q.plan.records # 2
      BY <2>1
    <3>6. QED
      BY <2>3, <3>4, <3>5 DEF q, T, A
  <2>4. QED
    BY <2>2, <2>3
<1>8. QED
  BY <1>6, <1>7

\* What the commit of a request served alone writes.
Written(q) ==
    /\ q.plan.records # 2 /\ Fits(q.plan, row.state, txn)
    /\ q.plan.route = "service" => MaxSeq(transitions) = MaxSeq(audit)
    /\ MaxSeq(transitions)' = MaxSeq(transitions) + (IF q.plan.route = "none" THEN 0 ELSE 1)
    /\ MaxSeq(audit)' = MaxSeq(audit) + (IF q.plan.route = "service" THEN 1 + q.plan.records ELSE 1)
    /\ audit'[MaxSeq(audit)'].to = q.plan.to
    /\ IF q.plan.route = "none" THEN transitions' = transitions
       ELSE transitions' = Insert(transitions, MaxSeq(transitions) + 1,
                                  [from |-> row.state, to |-> q.plan.to])
    /\ row'.state = q.plan.to
    /\ row'.version = IF q.plan.bump THEN row.version + 1 ELSE row.version
    /\ txn' = IF q.plan.settles = "KEEP" THEN txn ELSE q.plan.settles

\* The commit writes what the plan says, under the next numbers.
LEMMA CommitWrites ==
    ASSUME SerialInv, NEW s \in Sessions, Commit(s)
    PROVE  Written(session[s])
<1> DEFINE q == session[s]
           T == MaxSeq(transitions)
           A == MaxSeq(audit)
           N == IF q.plan.route = "service" THEN 1 + q.plan.records ELSE 1
<1>1. /\ q \in Requests /\ StillSo(q) /\ q.pc = "commit"
      /\ T \in Nat /\ A \in Nat /\ T <= A
      /\ Numbered(transitions) /\ DOMAIN audit = 1..A
      /\ row.state \in States /\ txn \in TxnStatuses
  BY DEF SerialInv, IInv, TypeOK, Numbered, Commit
<1>2. /\ q.from = row.state /\ q.version = row.version /\ Fits(q.plan, row.state, txn)
      /\ q.plan.route # "none" => q.tseq = T + 1
      /\ q.plan.records > 0 => q.aseq = A + (IF q.plan.route = "service" THEN 2 ELSE 1)
  BY <1>1 DEF StillSo
<1>3. /\ q.plan.records # 2
      /\ q.plan.route = "service" => T = A
  BY <1>1, ConflictMeans DEF Commit
<1>4. /\ q.plan.records \in {0, 1} /\ q.plan.route \in Routes
      /\ q.plan.route # "service" => q.plan.records = 1
  BY <1>1, <1>2, <1>3, FitsMeans
<1>5. /\ row' = [state   |-> IF q.plan.to # q.from THEN q.plan.to ELSE row.state,
                 version |-> IF q.plan.bump THEN q.version + 1 ELSE row.version,
                 closed  |-> row.closed \/ q.plan.closes]
      /\ txn' = IF q.plan.settles = "KEEP" THEN txn ELSE q.plan.settles
      /\ transitions' = IF q.plan.route = "none" THEN transitions
                        ELSE Insert(transitions, q.tseq, [from |-> q.from, to |-> q.plan.to])
      /\ audit' = Audited(q)
  BY DEF Commit
<1> HIDE DEF q, T, A
<1>6. row'.state = q.plan.to /\ row'.version = IF q.plan.bump THEN row.version + 1 ELSE row.version
  BY <1>2, <1>5
<1>7. N \in {1, 2} /\ DOMAIN audit \cup AuditNumbers(q) = 1..(A + N) /\ A + N \notin DOMAIN audit
  <2>1. CASE q.plan.route # "service"
    <3>1. AuditNumbers(q) = {A + 1} /\ N = 1
      BY <1>2, <1>4, <2>1 DEF AuditNumbers
    <3>2. QED
      BY <1>1, <3>1
  <2>2. CASE q.plan.route = "service" /\ q.plan.records = 0
    <3>1. AuditNumbers(q) = {A + 1} /\ N = 1
      BY <1>2, <1>3, <2>2 DEF AuditNumbers
    <3>2. QED
      BY <1>1, <3>1
  <2>3. CASE q.plan.route = "service" /\ q.plan.records = 1
    <3>1. AuditNumbers(q) = {A + 1, A + 2} /\ N = 2
      BY <1>2, <1>3, <2>3 DEF AuditNumbers
    <3>2. QED
      BY <1>1, <3>1
  <2>4. QED
    BY <1>4, <2>1, <2>2, <2>3
<1>8. DOMAIN audit' = 1..(A + N) /\ audit'[A + N].to = q.plan.to
  <2>1. DOMAIN audit' = DOMAIN audit \cup AuditNumbers(q) /\ A + N \in DOMAIN audit'
    BY <1>1, <1>5, <1>7 DEF Audited
  <2>2. audit'[A + N] \in {[from |-> q.from, to |-> q.plan.to], [from |-> q.plan.to, to |-> q.plan.to]}
    BY <1>5, <1>7, <2>1 DEF Audited
  <2>3. QED
    BY <1>7, <2>1, <2>2
<1>9. MaxSeq(audit)' = A + N
  <2>1. A + N \in Nat
    BY <1>1, <1>7
  <2>2. QED
    BY <1>8, <2>1, MaxSeqOfInterval
<1>10. /\ MaxSeq(transitions)' = T + (IF q.plan.route = "none" THEN 0 ELSE 1)
       /\ IF q.plan.route = "none" THEN transitions' = transitions
          ELSE transitions' = Insert(transitions, T + 1, [from |-> row.state, to |-> q.plan.to])
  <2>1. CASE q.plan.route = "none"
    BY <1>1, <1>5, <2>1 DEF T
  <2>2. CASE q.plan.route # "none"
    <3>1. transitions' = Insert(transitions, T + 1, [from |-> row.state, to |-> q.plan.to])
      BY <1>2, <1>5, <2>2
    <3>2. MaxSeq(transitions)' = T + 1
      BY <1>1, <3>1, InsertNext DEF T
    <3>3. QED
      BY <2>2, <3>1, <3>2
  <2>3. QED
    BY <2>1, <2>2
<1>11. Written(q)
  BY <1>2, <1>3, <1>5, <1>6, <1>8, <1>9, <1>10 DEF Written, T, A
<1>12. QED
  BY <1>11 DEF q

\* A step of the only session that leaves the case and its logs alone.
LEMMA OnlySessionStep ==
    ASSUME Serial, SerialInv, IInv', NEW s \in Sessions, NEW q \in Requests,
           session' = [session EXCEPT ![s] = q], StillSo(q),
           UNCHANGED <<row, txn, transitions, audit>>
    PROVE  SerialInv'
<1>1. Sessions = {s} /\ session'[s] = q
  BY DEF Serial, SerialInv, IInv, TypeOK
<1>2. MaxSeq(transitions)' = MaxSeq(transitions) /\ MaxSeq(audit)' = MaxSeq(audit)
  OBVIOUS
<1>3. LogsTell'
  BY <1>2 DEF SerialInv, LogsTell, ChainUnbroken
<1>4. ASSUME NEW x \in Sessions
      PROVE  StillSo(session[x])'
  <2>1. session'[x] = q
    BY <1>1, <1>4
  <2>2. QED
    BY <1>2, <2>1 DEF StillSo
<1>5. QED
  BY <1>3, <1>4 DEF SerialInv

\* A handler that begins has just loaded what it plans by.
LEMMA BeginFits ==
    ASSUME Serial, SerialInv, IInv', NEW s \in Sessions, NEW handler, NEW plans,
           \A p \in plans : Fits(p, row.state, txn), Begin(s, handler, plans)
    PROVE  SerialInv'
<1>1. PICK p \in plans :
         session' = [session EXCEPT ![s] =
            [pc |-> IF p.route = "none" THEN "audit" ELSE "transition",
             from |-> row.state, version |-> row.version, plan |-> p,
             tseq |-> 0, aseq |-> 0]]
  BY DEF Begin
<1> DEFINE q == [pc |-> IF p.route = "none" THEN "audit" ELSE "transition",
                 from |-> row.state, version |-> row.version, plan |-> p,
                 tseq |-> 0, aseq |-> 0]
<1>2. Fits(p, row.state, txn) /\ p \in Plans
  BY DEF Fits, Recorded
<1>3. q \in Requests
  BY <1>2 DEF SerialInv, IInv, TypeOK, Requests
<1>4. StillSo(q)
  BY <1>2 DEF StillSo
<1>5. UNCHANGED <<row, txn, transitions, audit>> /\ session' = [session EXCEPT ![s] = q]
  BY <1>1 DEF Begin
<1> HIDE DEF q
<1>6. QED
  BY <1>3, <1>4, <1>5, OnlySessionStep

\* The number a request reads is the latest.
LEMMA ReadIsLatest ==
    ASSUME Serial, SerialInv, IInv', NEW s \in Sessions, ReadTransitionMax(s) \/ ReadAuditMax(s)
    PROVE  SerialInv'
<1> DEFINE T == MaxSeq(transitions)
           A == MaxSeq(audit)
           r == session[s]
<1>1. r \in Requests /\ StillSo(r) /\ T \in Nat /\ A \in Nat /\ DOMAIN audit = 1..A
  BY DEF SerialInv, IInv, TypeOK, Numbered
<1>2. UNCHANGED <<row, txn, transitions, audit>>
  BY DEF ReadTransitionMax, ReadAuditMax
<1>3. CASE ReadTransitionMax(s)
  <2> DEFINE pc == IF r.plan.records = 0 THEN "commit" ELSE "audit"
             q == [r EXCEPT !.pc = pc, !.tseq = T + 1]
  <2>1. r.pc = "transition" /\ session' = [session EXCEPT ![s] = q]
    BY <1>3 DEF ReadTransitionMax, SerialInv, IInv, TypeOK
  <2>2. T + 1 \in Nat /\ pc \in {"audit", "commit"}
    BY <1>1
  <2>3. q \in Requests
    BY <1>1, <2>2, RequestFields, Zenon
  <2>4. /\ q.plan = r.plan /\ q.from = r.from /\ q.version = r.version /\ q.tseq = T + 1 /\ q.pc = pc
        /\ q.pc = "commit" => ~(q.plan.records > 0)
    BY <1>1 DEF Requests
  <2> HIDE DEF q, r, pc
  <2>5. StillSo(q)
    BY <1>1, <2>1, <2>4 DEF StillSo
  <2>6. QED
    BY <1>2, <2>1, <2>3, <2>5, OnlySessionStep
<1>4. CASE ReadAuditMax(s)
  <2> DEFINE n == NextAudit(r.plan)
             q == [r EXCEPT !.pc = "commit", !.aseq = n]
  <2>1. r.pc = "audit" /\ session' = [session EXCEPT ![s] = q]
    BY <1>4 DEF ReadAuditMax, SerialInv, IInv, TypeOK
  <2>2. n = A + (IF r.plan.route = "service" THEN 2 ELSE 1)
    <3>1. Cardinality(DOMAIN audit) = A
      BY <1>1, FS_Interval
    <3>2. QED
      BY <3>1 DEF NextAudit
  <2>3. n \in Nat /\ "commit" \in {"audit", "commit"}
    BY <1>1, <2>2
  <2>4. q \in Requests
    BY <1>1, <2>3, RequestFields, Zenon
  <2>5. /\ q.plan = r.plan /\ q.from = r.from /\ q.version = r.version /\ q.tseq = r.tseq
        /\ q.aseq = n /\ q.pc = "commit"
    BY <1>1 DEF Requests
  <2> HIDE DEF q, r, n
  <2>6. StillSo(q)
    BY <1>1, <2>1, <2>2, <2>5 DEF StillSo
  <2>7. QED
    BY <1>2, <2>1, <2>4, <2>6, OnlySessionStep
<1>5. QED
  BY <1>3, <1>4

\* A session without a request has nothing to be late with.
LEMMA IdleStill ==
    Idle \in Requests /\ StillSo(Idle) /\ Idle.pc = "idle"
<1>1. Note("DETECTED") \in Plans /\ "DETECTED" \in States
  BY DEF Note, Plans, Routes, TxnStatuses, States
<1>2. QED
  BY <1>1 DEF Idle, Requests, StillSo

\* The newest rows of the logs after a commit, and how the transition log goes on.
LEMMA CommitTells ==
    ASSUME Serial, SerialInv, IInv', NEW s \in Sessions, Commit(s)
    PROVE  SerialInv'
<1> DEFINE p == session[s].plan
           T == MaxSeq(transitions)
           e == [from |-> row.state, to |-> p.to]
<1>1. Written(session[s])
  BY CommitWrites
<1>2. /\ T \in Nat /\ DOMAIN transitions = 1..T /\ LogsTell
      /\ row.state \in States /\ txn \in TxnStatuses
  BY DEF SerialInv, IInv, TypeOK, Numbered
<1>3. p.records # 2 /\ (row.state \in FinalStates => p.route = "none" /\ p.to = row.state)
  BY <1>1, <1>2, FitsMeans DEF Written
<1>4. row'.state = p.to
  BY <1>1 DEF Written
<1>5. MaxSeq(audit)' > 0 => audit'[MaxSeq(audit)'].to = row'.state
  BY <1>1, <1>4 DEF Written
<1>6. LogsTell'
  <2>1. CASE p.route = "none"
    <3>1. transitions' = transitions /\ MaxSeq(transitions)' = T
      BY <1>1, <1>2, <2>1 DEF Written
    <3>2. p.to = row.state \/ p.to = "RECOVERED"
      BY <1>1, <1>3, <2>1 DEF Written, Fits, Noting, Moving, Asking, Paying, Settling
    <3>3. ChainUnbroken'
      BY <1>2, <3>1 DEF LogsTell, ChainUnbroken
    <3>4. T > 0 => (row'.state = "RECOVERED" \/ transitions'[T].to = row'.state)
      BY <1>2, <1>4, <3>1, <3>2 DEF LogsTell
    <3>5. QED
      BY <1>5, <3>1, <3>3, <3>4 DEF LogsTell
  <2>2. CASE p.route # "none"
    <3>1. transitions' = Insert(transitions, T + 1, e) /\ MaxSeq(transitions)' = T + 1
      BY <1>1, <2>2 DEF Written
    <3>2. /\ DOMAIN transitions' = 1..(T + 1) /\ transitions'[T + 1] = e
          /\ \A k \in 1..T : transitions'[k] = transitions[k]
      BY <1>2, <3>1 DEF Insert
    <3>3. e.from = row.state /\ e.to = p.to /\ row.state \notin FinalStates
      BY <1>3, <2>2
    <3>4. T > 0 => transitions[T].to = row.state
      BY <1>2, <3>3 DEF LogsTell, FinalStates
    <3> HIDE DEF e
    <3>5. ASSUME NEW k \in (DOMAIN transitions') \ {1}
          PROVE  transitions'[k].from = transitions'[k - 1].to
      <4>1. CASE k = T + 1
        <5>1. T > 0 /\ k - 1 = T /\ T \in 1..T
          BY <1>2, <3>2, <3>5, <4>1
        <5>2. QED
          BY <3>2, <3>3, <3>4, <4>1, <5>1
      <4>2. CASE k # T + 1
        <5>1. k \in (DOMAIN transitions) \ {1} /\ k \in 1..T /\ k - 1 \in 1..T
          BY <1>2, <3>2, <3>5, <4>2
        <5>2. transitions[k].from = transitions[k - 1].to
          BY <1>2, <5>1 DEF LogsTell, ChainUnbroken
        <5>3. QED
          BY <3>2, <5>1, <5>2
      <4>3. QED
        BY <4>1, <4>2
    <3>6. ChainUnbroken'
      BY <3>5 DEF ChainUnbroken
    <3>7. transitions'[MaxSeq(transitions)'].to = row'.state
      BY <1>4, <3>1, <3>2, <3>3
    <3>8. QED
      BY <1>5, <3>6, <3>7 DEF LogsTell
  <2>3. QED
    BY <2>1, <2>2
<1>7. Sessions = {s} /\ session'[s] = Idle
  BY DEF Serial, Commit, SerialInv, IInv, TypeOK
<1>8. ASSUME NEW x \in Sessions
      PROVE  StillSo(session[x])'
  <2>1. session'[x].pc = "idle"
    BY <1>7, <1>8, IdleStill
  <2>2. QED
    BY <2>1 DEF StillSo
<1>9. QED
  BY <1>6, <1>8 DEF SerialInv

\* A rolled back request leaves everything to the next one.
LEMMA RollBackTells ==
    ASSUME Serial, SerialInv, IInv', NEW s \in Sessions, RollBack(s)
    PROVE  SerialInv'
BY IdleStill, OnlySessionStep DEF RollBack

\* However the case was opened, its logs tell that it is DETECTED.
LEMMA InitTells ==
    ASSUME Init
    PROVE  SerialInv /\ (MaxSeq(audit) = 0 => audit = <<>>)
<1> DEFINE r == [from |-> NoState, to |-> "DETECTED"]
           opened == [n \in {1} |-> r]
           empty == [n \in {} |-> r]
<1>1. PICK o \in Openings : transitions = o[1] /\ audit = o[2]
  BY DEF Init
<1>2. /\ transitions = opened \/ transitions = empty
      /\ audit = opened \/ audit = empty
  BY <1>1 DEF Openings
<1>3. /\ opened[1].to = "DETECTED" /\ DOMAIN opened = 1..1
      /\ empty = <<>> /\ DOMAIN empty = 1..0
  <2>1. empty \in [1..0 -> {r}] /\ <<>> \in [1..0 -> {r}]
    OBVIOUS
  <2>2. QED
    BY <2>1
<1> HIDE DEF opened, empty
<1>4. MaxSeq(opened) = 1 /\ MaxSeq(empty) = 0
  BY <1>3, MaxSeqOfInterval, 0 \in Nat, 1 \in Nat
<1>5. row.state = "DETECTED" /\ \A s \in Sessions : session[s] = Idle
  BY DEF Init
<1>6. ChainUnbroken
  BY <1>2, <1>3 DEF ChainUnbroken
<1>7. LogsTell
  BY <1>2, <1>3, <1>4, <1>5, <1>6 DEF LogsTell
<1>8. \A s \in Sessions : StillSo(session[s])
  BY <1>5, IdleStill
<1>9. QED
  BY <1>2, <1>3, <1>4, <1>7, <1>8, InitOK DEF SerialInv

\* Served one at a time, every step keeps what the logs tell.
LEMMA NextTells ==
    ASSUME Serial, SerialInv, [Next]_vars
    PROVE  SerialInv'
<1>1. IInv' /\ row.state \in States /\ txn \in TxnStatuses
  BY NextOK DEF SerialInv, IInv, TypeOK
<1>2. ASSUME NEW s \in Sessions, OperatorTransition(s) \/ UpdateCase(s) \/ PaymentSucceeded(s)
                                   \/ PaymentFailed(s)
      PROVE  SerialInv'
  <2>1. row.state \in States \ TerminalStates
    BY <1>1, <1>2 DEF OperatorTransition, UpdateCase, PaymentSucceeded, PaymentFailed
  <2>2. /\ \A p \in OperatorPlans(row.state) : Fits(p, row.state, txn)
        /\ \A p \in {UpdatePlan(row.state)} : Fits(p, row.state, txn)
        /\ \A p \in SuccessPlans(row.state) : Fits(p, row.state, txn)
    BY <2>1, OpenPlansFit
  <2>3. QED
    BY <1>1, <1>2, <2>2, BeginFits
       DEF OperatorTransition, UpdateCase, PaymentSucceeded, PaymentFailed
<1>3. ASSUME NEW s \in Sessions, GenerateRecommendation(s) \/ EvaluatePolicy(s)
                                   \/ ServiceTransition(s)
      PROVE  SerialInv'
  <2>1. /\ \A p \in {RecommendPlan(row.state)} : Fits(p, row.state, txn)
        /\ \A p \in PolicyPlans(row.state) : Fits(p, row.state, txn)
        /\ \A p \in ServicePlans(row.state) : Fits(p, row.state, txn)
    BY <1>1, OtherPlansFit
  <2>2. QED
    BY <1>1, <1>3, <2>1, BeginFits DEF GenerateRecommendation, EvaluatePolicy, ServiceTransition
<1>4. ASSUME NEW s \in Sessions, ReconcileCase(s)
      PROVE  SerialInv'
  <2>1. PICK provider \in ProviderStatuses :
            Begin(s, "reconcile", ReconcilePlans(row.state, txn, provider))
    BY <1>4 DEF ReconcileCase
  <2>2. \A p \in ReconcilePlans(row.state, txn, provider) : Fits(p, row.state, txn)
    BY <1>1, ReconcilePlansFit
  <2>3. QED
    BY <1>1, <2>1, <2>2, BeginFits
<1>5. ASSUME NEW s \in Sessions, ReadTransitionMax(s) \/ ReadAuditMax(s)
      PROVE  SerialInv'
  BY <1>1, <1>5, ReadIsLatest
<1>6. ASSUME NEW s \in Sessions, Commit(s)
      PROVE  SerialInv'
  BY <1>1, <1>6, CommitTells
<1>7. ASSUME NEW s \in Sessions, RollBack(s)
      PROVE  SerialInv'
  BY <1>1, <1>7, RollBackTells
<1>8. CASE UNCHANGED vars
  <2>1. /\ row' = row /\ txn' = txn /\ transitions' = transitions /\ audit' = audit
        /\ session' = session
        /\ MaxSeq(transitions)' = MaxSeq(transitions) /\ MaxSeq(audit)' = MaxSeq(audit)
    BY <1>8 DEF vars
  <2>2. LogsTell'
    BY <2>1 DEF SerialInv, LogsTell, ChainUnbroken
  <2>3. \A s \in Sessions : StillSo(session[s])'
    BY <2>1 DEF SerialInv, StillSo
  <2>4. QED
    BY <1>1, <2>2, <2>3 DEF SerialInv
<1>9. QED
  BY <1>2, <1>3, <1>4, <1>5, <1>6, <1>7, <1>8 DEF Next

\* What a request has loaded is still so in every state of a serial deployment.
LEMMA SerialInvariance ==
    ASSUME Serial
    PROVE  Spec => []SerialInv
<1>1. Init => SerialInv
  BY InitTells
<1>2. SerialInv /\ [Next]_vars => SerialInv'
  BY NextTells
<1>3. QED
  BY <1>1, <1>2, PTL DEF Spec

\* Whichever service moved the case last, with or without a transition row, the newest
\* audit event names the state the case is in.
THEOREM TimelineTells ==
    ASSUME Serial
    PROVE  Spec => []TimelineEndsAtState
<1> DEFINE Begun == MaxSeq(audit) = 0 => audit = <<>>
<1>1. Init => Begun
  BY InitTells
<1>2. SerialInv /\ Begun /\ [Next]_vars => Begun'
  <2> SUFFICES ASSUME SerialInv, Begun, [Next]_vars PROVE Begun'
    OBVIOUS
  <2>1. CASE \E s \in Sessions : Commit(s)
    <3>1. PICK s \in Sessions : Commit(s)
      BY <2>1
    <3>2. Written(session[s]) /\ session[s].plan.records \in Nat /\ MaxSeq(audit) \in Nat
      <4>1. session[s].plan \in Plans
        BY DEF SerialInv, IInv, TypeOK, Requests
      <4>2. QED
        BY <3>1, <4>1, CommitWrites DEF SerialInv, IInv, Numbered, Plans
    <3>3. MaxSeq(audit)' > 0
      BY <3>2 DEF Written
    <3>4. QED
      BY <3>3
  <2>2. CASE UNCHANGED audit
    BY <2>2
  <2>3. QED
    BY <2>1, <2>2
    DEF Next, vars, OperatorTransition, UpdateCase, GenerateRecommendation, EvaluatePolicy,
        ServiceTransition, ReconcileCase, PaymentSucceeded, PaymentFailed, Begin,
        ReadTransitionMax, ReadAuditMax, RollBack
<1>3. SerialInv /\ Begun => TimelineEndsAtState
  BY DEF SerialInv, IInv, Numbered, LogsTell, TimelineEndsAtState, LastRow
<1>4. QED
  BY <1>1, <1>2, <1>3, SerialInvariance, PTL DEF Spec

\* CaseStateTransition rows: no transition starts anywhere but where the one before it
\* ended, although PaymentReconciliationService recovers a case without adding one.
THEOREM ChainHolds ==
    ASSUME Serial
    PROVE  Spec => []ChainUnbroken
<1>1. SerialInv => ChainUnbroken
  BY DEF SerialInv, LogsTell
<1>2. QED
  BY <1>1, SerialInvariance, PTL

\* CaseTransitionService and the orchestrator number audit events in their own ways: a
\* request served alone is rolled back for one of these two reasons only, and always
\* for them.
THEOREM RollbackExplained ==
    ASSUME Serial
    PROVE  Spec => []RollbackCause
<1>1. SerialInv => RollbackCause
  BY ConflictMeans DEF RollbackCause
<1>2. QED
  BY <1>1, SerialInvariance, PTL

\* What writes the case at all is a commit.
LEMMA OnlyCommitsWrite ==
    ASSUME [Next]_vars
    PROVE  (\E s \in Sessions : Commit(s)) \/ UNCHANGED <<row, txn, transitions, audit>>
BY DEF Next, vars, OperatorTransition, UpdateCase, GenerateRecommendation, EvaluatePolicy,
       ServiceTransition, ReconcileCase, PaymentSucceeded, PaymentFailed, Begin,
       ReadTransitionMax, ReadAuditMax, RollBack

\* TERMINAL_STATES, the allow-list and the version column: served one at a time, no
\* handler takes back a terminal state or a payment, but for the payment of a STOPPED
\* case that reconciliation finds, and every logged transition counts the version once.
THEOREM FactsStay ==
    ASSUME Serial
    PROVE  Spec => FinalFactsStay
<1> DEFINE A == /\ row.state \in TerminalStates /\ row'.state # row.state
                      => row.state = "STOPPED" /\ row'.state = "RECOVERED" /\ BooksPayment
                /\ txn = "SUCCEEDED" => txn' = "SUCCEEDED"
                /\ row'.version \in {row.version, row.version + 1}
                /\ transitions' # transitions => row'.version = row.version + 1
                /\ row'.state # row.state /\ transitions' = transitions
                      => row'.state = "RECOVERED" /\ row'.version = row.version /\ BooksPayment
<1>1. SerialInv /\ [Next]_vars => [A]_vars
  <2> SUFFICES ASSUME SerialInv, [Next]_vars PROVE A
    OBVIOUS
  <2>1. /\ row.version \in Nat /\ row.state \in States /\ txn \in TxnStatuses
        /\ Numbered(transitions)
    BY DEF SerialInv, IInv, TypeOK
  <2>2. ASSUME NEW s \in Sessions, Commit(s) PROVE A
    <3> DEFINE p == session[s].plan
    <3>1. Written(session[s])
      BY <2>2, CommitWrites
    <3>2. /\ p.records # 2
          /\ row'.state = p.to
          /\ row'.version = IF p.bump THEN row.version + 1 ELSE row.version
          /\ txn' = IF p.settles = "KEEP" THEN txn ELSE p.settles
      BY <3>1 DEF Written
    <3>3. /\ row.state \in FinalStates => p.to = row.state
          /\ txn = "SUCCEEDED" => p.settles \in {"KEEP", "SUCCEEDED"}
          /\ p.route # "none" => p.bump /\ row.state \notin TerminalStates
          /\ (p.route = "none" /\ p.to # row.state) =>
                /\ ~p.bump /\ p.to = "RECOVERED"
                /\ p.settles = "SUCCEEDED" /\ txn # "SUCCEEDED"
      BY <2>1, <3>1, <3>2, FitsMeans DEF Written
    <3>4. p.route = "none" <=> transitions' = transitions
      <4>1. CASE p.route # "none"
        <5>1. transitions' = Insert(transitions, MaxSeq(transitions) + 1,
                                    [from |-> row.state, to |-> p.to])
          BY <3>1, <4>1 DEF Written
        <5>2. MaxSeq(transitions) + 1 \in DOMAIN transitions'
          BY <5>1 DEF Insert
        <5>3. MaxSeq(transitions) + 1 \notin DOMAIN transitions
          BY <2>1 DEF Numbered
        <5>4. QED
          BY <4>1, <5>2, <5>3
      <4>2. QED
        BY <3>1, <4>1 DEF Written
    <3> HIDE DEF p
    <3>5. QED
      BY <2>1, <3>2, <3>3, <3>4 DEF FinalStates, TerminalStates, BooksPayment
  <2>3. QED
    BY <2>1, <2>2, OnlyCommitsWrite
<1>2. QED
  BY <1>1, SerialInvariance, PTL DEF Spec, FinalFactsStay

-----------------------------------------------------------------------------
(* Served one at a time, requests are the atomic handlers of CaseMoves: the   *)
(* commit is the step, everything before it is invisible.                     *)

\* CaseMoves reads the tables the ledger reads.
LEMMA SameTables ==
    /\ Atomic!States = States /\ Atomic!TxnStatuses = TxnStatuses
    /\ Atomic!TerminalStates = TerminalStates /\ Atomic!ServiceTargets = ServiceTargets
    /\ Atomic!ProviderStatuses = ProviderStatuses
    /\ Atomic!AllowedTransitions = AllowedTransitions
<1>1. Atomic!States = States
  BY DEF Atomic!States, States
<1>2. Atomic!AllowedTransitions = AllowedTransitions
  BY <1>1, Zenon DEF Atomic!AllowedTransitions, AllowedTransitions
<1>3. QED
  BY <1>1, <1>2
  DEF Atomic!TxnStatuses, TxnStatuses, Atomic!TerminalStates, TerminalStates,
      Atomic!ServiceTargets, ServiceTargets, Atomic!ProviderStatuses, ProviderStatuses

\* The commit of a plan is a handler of CaseMoves, told by the fields of the plan.
LEMMA CommitIsMove ==
    ASSUME SerialInv, NEW s \in Sessions, Commit(s)
    PROVE  Atomic!CaseNext
<1> DEFINE p == session[s].plan
           T == MaxSeq(transitions)
           A == MaxSeq(audit)
           st == row.state
<1>1. Written(session[s])
  BY CommitWrites
<1>2. /\ T \in Nat /\ A \in Nat /\ T <= A /\ st \in States /\ txn \in TxnStatuses
      /\ p \in Plans
  BY DEF SerialInv, IInv, TypeOK, Numbered, Requests
<1>3. /\ Fits(p, st, txn) /\ p.records # 2
      /\ p.records \in {0, 1, 2} /\ p.route \in Routes
      /\ p.route # "service" => p.records \in {1, 2}
  BY <1>1, <1>2, FitsMeans DEF Written
<1>4. /\ row'.state = p.to
      /\ txn' = IF p.settles = "KEEP" THEN txn ELSE p.settles
      /\ p.route = "service" => T = A
      /\ MaxSeq(transitions)' = T + (IF p.route = "none" THEN 0 ELSE 1)
      /\ MaxSeq(audit)' = A + (IF p.route = "service" THEN 1 + p.records ELSE 1)
  BY <1>1 DEF Written
<1> DEFINE ahead == A > T
           aheadNext == MaxSeq(audit)' > MaxSeq(transitions)'
<1>5. /\ p.route = "none" => aheadNext
      /\ p.route = "own" => (aheadNext <=> ahead)
      /\ p.route = "service" => ~ahead /\ (aheadNext <=> p.records = 1)
  BY <1>2, <1>3, <1>4
<1>6. p.to \in States
  BY <1>2 DEF Plans
<1> HIDE DEF p, st, ahead, aheadNext
<1>7. CASE Noting(p, st)
  <2>1. aheadNext /\ row'.state = st /\ txn' = txn
    BY <1>4, <1>5, <1>7 DEF Noting
  <2>2. Atomic!Annotate
    BY <2>1 DEF Atomic!Annotate, aheadNext, st
  <2>3. Atomic!CaseUpdated \/ Atomic!Recommended
    BY <2>2, SameTables DEF Atomic!CaseUpdated, Atomic!Recommended, TerminalStates
  <2>4. QED
    BY <2>3, SameTables DEF Atomic!CaseNext
<1>8. CASE Moving(p, st)
  <2>1. Atomic!OperatorMoves(p.to)
    BY <1>4, <1>5, <1>8, SameTables DEF Atomic!OperatorMoves, Moving, ahead, aheadNext, st
  <2>2. QED
    BY <1>6, <2>1, SameTables DEF Atomic!CaseNext
<1>9. CASE Asking(p, st) /\ p.records = 0
  <2>1. Atomic!ServiceMoves(p.to) /\ UNCHANGED txn /\ ~ahead /\ ~aheadNext
    BY <1>4, <1>5, <1>9, SameTables DEF Atomic!ServiceMoves, Asking, ahead, st
  <2>2. Atomic!ServiceMoved
    BY <1>9, <2>1, SameTables DEF Atomic!ServiceMoved, Asking, ahead, aheadNext
  <2>3. QED
    BY <2>2, SameTables DEF Atomic!CaseNext
<1>10. CASE Asking(p, st) /\ p.records = 1
  <2>1. Atomic!ServiceMoves("ESCALATED") /\ UNCHANGED txn /\ aheadNext
    BY <1>4, <1>5, <1>10, SameTables DEF Atomic!ServiceMoves, Asking, ahead, st
  <2>2. Atomic!Reconciled("UNKNOWN")
    BY <1>10, <2>1 DEF Atomic!Reconciled, Asking, aheadNext, st
  <2>3. QED
    BY <2>2, SameTables DEF Atomic!CaseNext, ProviderStatuses
<1>11. CASE Paying(p, st)
  <2>1. Atomic!SuccessReported
    BY <1>4, <1>5, <1>11, SameTables DEF Atomic!SuccessReported, Paying, ahead, aheadNext, st
  <2>2. QED
    BY <2>1, SameTables DEF Atomic!CaseNext
<1>12. CASE Settling(p, st, txn) /\ p.settles = "SUCCEEDED"
  <2>1. txn # "SUCCEEDED" /\ txn' = "SUCCEEDED" /\ aheadNext
    BY <1>4, <1>5, <1>12 DEF Settling, Routes
  <2>2. CASE st = "VERIFICATION_PENDING"
    <3>1. p.to = "RECOVERED" /\ p.route = "service"
      BY <1>12, <2>2 DEF Settling
    <3>2. "RECOVERED" \in AllowedTransitions[st]
      BY <2>2 DEF AllowedTransitions, States
    <3>3. Atomic!ServiceMoves("RECOVERED")
      BY <1>4, <1>5, <3>1, <3>2, SameTables DEF Atomic!ServiceMoves, ahead, st
    <3>4. Atomic!Reconciled("SUCCEEDED")
      BY <2>1, <2>2, <3>3 DEF Atomic!Reconciled, aheadNext, st
    <3>5. QED
      BY <3>4, SameTables DEF Atomic!CaseNext, ProviderStatuses
  <2>3. CASE st # "VERIFICATION_PENDING"
    <3>1. row'.state = IF st \in {"RECOVERED", "CLOSED"} THEN st ELSE "RECOVERED"
      BY <1>4, <1>12, <2>3 DEF Settling
    <3>2. Atomic!Reconciled("SUCCEEDED")
      BY <2>1, <2>3, <3>1 DEF Atomic!Reconciled, aheadNext, st
    <3>3. QED
      BY <3>2, SameTables DEF Atomic!CaseNext, ProviderStatuses
  <2>4. QED
    BY <2>2, <2>3
<1>13. CASE Settling(p, st, txn) /\ p.settles = "FAILED"
  <2>1. txn = "PENDING" /\ txn' = "FAILED" /\ aheadNext
    BY <1>4, <1>5, <1>13 DEF Settling, Routes
  <2>2. CASE st = "VERIFICATION_PENDING"
    <3>1. p.to = "RETRY_ELIGIBLE" /\ p.route = "service"
      BY <1>13, <2>2 DEF Settling
    <3>2. "RETRY_ELIGIBLE" \in AllowedTransitions[st]
      BY <2>2 DEF AllowedTransitions, States
    <3>3. Atomic!ServiceMoves("RETRY_ELIGIBLE")
      BY <1>4, <1>5, <3>1, <3>2, SameTables DEF Atomic!ServiceMoves, ahead, st
    <3>4. Atomic!Reconciled("FAILED")
      BY <2>1, <2>2, <3>3 DEF Atomic!Reconciled, aheadNext, st
    <3>5. QED
      BY <3>4, SameTables DEF Atomic!CaseNext, ProviderStatuses
  <2>3. CASE st # "VERIFICATION_PENDING"
    <3>1. row'.state = st
      BY <1>4, <1>13, <2>3 DEF Settling
    <3>2. Atomic!Reconciled("FAILED")
      BY <2>1, <2>3, <3>1 DEF Atomic!Reconciled, aheadNext, st
    <3>3. QED
      BY <3>2, SameTables DEF Atomic!CaseNext, ProviderStatuses
  <2>4. QED
    BY <2>2, <2>3
<1>14. QED
  <2>1. Asking(p, st) => p.records \in {0, 1}
    BY <1>3
  <2>2. Settling(p, st, txn) => p.settles \in {"SUCCEEDED", "FAILED"}
    BY DEF Settling
  <2>3. \/ Noting(p, st) \/ Moving(p, st) \/ Asking(p, st) \/ Paying(p, st)
        \/ Settling(p, st, txn)
    BY <1>3 DEF Fits
  <2>4. QED
    BY <1>7, <1>8, <1>9, <1>10, <1>11, <1>12, <1>13, <2>1, <2>2, <2>3

\* A deployment that serves one request at a time implements CaseMoves: no caller can
\* tell its four-step requests from handlers that run at once.
THEOREM HandlersAreAtomic ==
    ASSUME Serial
    PROVE  Spec => SerialHandlersAreAtomic
<1>1. Init => Atomic!CaseInit
  BY SameTables DEF Init, Atomic!CaseInit
<1>2. SerialInv /\ [Next]_vars => [Atomic!CaseNext]_(Atomic!caseVars)
  <2> SUFFICES ASSUME SerialInv, [Next]_vars
               PROVE  Atomic!CaseNext \/ UNCHANGED Atomic!caseVars
    OBVIOUS
  <2>1. CASE UNCHANGED <<row, txn, transitions, audit>>
    <3>1. MaxSeq(transitions)' = MaxSeq(transitions) /\ MaxSeq(audit)' = MaxSeq(audit)
      BY <2>1
    <3>2. QED
      BY <2>1, <3>1 DEF Atomic!caseVars
  <2>2. QED
    BY <2>1, OnlyCommitsWrite, CommitIsMove
<1>3. QED
  BY <1>1, <1>2, SerialInvariance, PTL DEF Spec, SerialHandlersAreAtomic, Atomic!CaseSpec
=============================================================================
