---------------------- MODULE EventIngestionSerialProofs ----------------------
(***************************************************************************)
(* Theorems about EventIngestion when deliveries are processed one at a    *)
(* time and cases are stopped only between them: it implements             *)
(* EventEffects, a payment has one case, and failures are counted.         *)
(* Requests may still die, and the other route still writes receipts.      *)
(***************************************************************************)
EXTENDS EventIngestionProofs

\* One worker, and nobody stops cases meanwhile.
Serial == (\E v : Workers = {v}) /\ "stop" \notin Others

-----------------------------------------------------------------------------
(* The inductive invariant: what the delivery has read is still so.        *)

\* An event without effect on a case.
NoEffect(e) ==
    \/ e.kind = "succeeded" /\ Found(e) = {}
    \/ \E k \in Found(e) :
          \/ cases[k].state \in TerminalStates
          \/ e.kind = "failed" /\ KnownTxs(e)[cases[k].trigger] = "SUCCEEDED"

CaseLoaded(q) ==
    /\ q.case \in Found(q.event)
    /\ cases[q.case].state \notin TerminalStates
    /\ q.failures = cases[q.case].failures + 1

PlanFits(q) ==
    /\ q.plan = "none" => NoEffect(q.event)
    /\ q.plan = "create" =>
          q.event.kind = "failed" /\ Found(q.event) = {} /\ q.case = q.event.key
    /\ q.plan = "update" =>
          /\ q.event.kind = "failed" /\ CaseLoaded(q)
          /\ KnownTxs(q.event)[cases[q.case].trigger] # "SUCCEEDED"
    /\ q.plan = "resolve" => q.event.kind = "succeeded" /\ CaseLoaded(q)

StillSo(q) ==
    /\ q.pc \in {"match", "newCase", "number", "commit"} =>
          q.seen = KnownTxs(q.event)[q.event.ref]
    /\ q.pc = "newCase" => Found(q.event) = {}
    /\ q.pc \in {"number", "commit"} => PlanFits(q)
    /\ q.pc \notin {"number", "commit"} => q.plan = "none"

SInv == IInv /\ \A v \in Workers : StillSo(work[v])

LEMMA IdleStillSo == StillSo(Idle)
BY DEF StillSo, Idle

\* What has been read stays so while no transaction or case is written.
LEMMA StillSoStays ==
    ASSUME NEW q, StillSo(q), UNCHANGED <<txs, cases>>
    PROVE  StillSo(q)'
BY DEF StillSo, PlanFits, NoEffect, CaseLoaded, Found, KnownTxs, With

LEMMA SerialGoes ==
    ASSUME SInv, IInv', NEW w \in Workers, NEW q, StillSo(q), Goes(w, q)
    PROVE  SInv'
<1>1. /\ work \in [Workers -> Deliveries] /\ work' = [work EXCEPT ![w] = q]
      /\ UNCHANGED <<txs, cases>>
  BY DEF SInv, IInv, Goes, storeVars
<1>2. ASSUME NEW v \in Workers PROVE StillSo(work[v])'
  <2>1. \E d : d = work'[v] /\ StillSo(d)
    BY <1>1 DEF SInv
  <2>2. PICK d : d = work'[v] /\ StillSo(d)
    BY <2>1
  <2>3. StillSo(d)'
    BY <1>1, <2>2, StillSoStays
  <2>4. QED
    BY <2>2, <2>3
<1>3. QED
  BY <1>2 DEF SInv

LEMMA KnownTxsFound ==
    ASSUME StoreOK, NEW e, NEW k \in Found(e)
    PROVE  k \in DOMAIN cases /\ IsCaseOf(k, e)
BY DEF Found, IsCaseOf

LEMMA DecideIs ==
    ASSUME NEW q, NEW k, q.event.kind \in Kinds
    PROVE  /\ Decide(q, k) \in {"none", "update", "resolve"}
           /\ Decide(q, k) = "none" =>
                 \/ cases[k].state \in TerminalStates
                 \/ q.event.kind = "failed" /\ TriggerStatus(q, k) = "SUCCEEDED"
           /\ Decide(q, k) # "none" => cases[k].state \notin TerminalStates
           /\ Decide(q, k) = "update" =>
                 q.event.kind = "failed" /\ TriggerStatus(q, k) # "SUCCEEDED"
           /\ Decide(q, k) = "resolve" => q.event.kind = "succeeded"
BY DEF Decide, Kinds

LEMMA DecidedStillSo ==
    ASSUME IInv, NEW q, DeliveryOK(q), StillSo(q), q.pc = "match", NEW k \in Found(q.event)
    PROVE  StillSo(Decided(q, k))
<1> DEFINE e == q.event
<1>1. /\ q \in Deliveries /\ e \in Events /\ e.kind \in Kinds /\ StoreOK
      /\ k \in Found(e) /\ q.pc = "match" /\ q.plan = "none" /\ q.seen = KnownTxs(e)[e.ref]
  BY EventsAssumption DEF IInv, DeliveryOK, Deliveries, StillSo
<1>2. k \in DOMAIN cases /\ cases[k].trigger \in DOMAIN txs
  BY <1>1 DEF Found, StoreOK
<1>3. TriggerStatus(q, k) = KnownTxs(e)[cases[k].trigger]
  BY <1>1, <1>2, KnownTxsIs DEF TriggerStatus
<1>4. q.event.kind \in Kinds
  BY <1>1
<1>5. CASE Decide(q, k) = "none"
  <2> DEFINE p == [q EXCEPT !.pc = "commit"]
  <2>1. /\ p.pc = "commit" /\ p.event = e /\ p.plan = "none" /\ p.seen = q.seen
    BY <1>1 DEF Deliveries
  <2>2. \/ cases[k].state \in TerminalStates
        \/ q.event.kind = "failed" /\ TriggerStatus(q, k) = "SUCCEEDED"
    BY <1>4, <1>5, DecideIs
  <2>3. Decided(q, k) = p
    BY <1>5 DEF Decided
  <2> HIDE DEF p
  <2>4. StillSo(p)
    <3>1. NoEffect(e)
      BY <1>1, <1>3, <2>2 DEF NoEffect
    <3>2. QED
      BY <1>1, <2>1, <3>1 DEF StillSo, PlanFits
  <2>5. QED
    BY <2>3, <2>4
<1>6. CASE Decide(q, k) # "none"
  <2> DEFINE plan == Decide(q, k)
             p == [q EXCEPT !.pc = "number", !.plan = plan, !.case = k,
                            !.failures = cases[k].failures + 1]
  <2>1. /\ plan \in {"update", "resolve"} /\ cases[k].state \notin TerminalStates
        /\ plan = "update" => q.event.kind = "failed" /\ TriggerStatus(q, k) # "SUCCEEDED"
        /\ plan = "resolve" => q.event.kind = "succeeded"
    BY <1>4, <1>6, DecideIs
  <2>2. Decided(q, k) = p
    BY <1>6 DEF Decided
  <2> HIDE DEF plan
  <2>3. /\ p.pc = "number" /\ p.event = e /\ p.plan = plan /\ p.seen = q.seen
        /\ p.case = k /\ p.failures = cases[k].failures + 1
    BY <1>1 DEF Deliveries
  <2> HIDE DEF p
  <2>4. StillSo(p)
    BY <1>1, <1>3, <2>1, <2>3 DEF StillSo, PlanFits, CaseLoaded
  <2>5. QED
    BY <2>2, <2>4
<1>7. QED
  BY <1>5, <1>6

-----------------------------------------------------------------------------
(* Every step keeps it. *)

\* Any delivery that goes on before it has matched a case.
LEMMA BeforeMatchStillSo ==
    ASSUME NEW q, StillSo(q), q.pc \notin {"number", "commit"}, NEW p,
           p.plan = q.plan,
           p.pc \notin {"match", "newCase", "number", "commit"}
    PROVE  StillSo(p)
BY DEF StillSo

LEMMA ProceedsKeepsSerial ==
    ASSUME Serial, SInv, NEW w \in Workers, Proceeds(w), ~Commit(w)
    PROVE  SInv'
<1> DEFINE q == work[w]
           e == q.event
<1>1. /\ IInv /\ StoreOK /\ DeliveryOK(q) /\ StillSo(q) /\ q \in Deliveries
      /\ e \in Events /\ e.kind \in Kinds
  BY EventsAssumption DEF SInv, IInv, DeliveryOK, Deliveries
<1>2. IInv'
  <2>1. Next
    BY DEF Next
  <2>2. QED
    BY <1>1, <2>1, StepKeeps
<1> SUFFICES \E p : Goes(w, p) /\ StillSo(p)
  BY <1>2, SerialGoes
<1>3. CASE RecordReceipt(w)
  <2>1. CASE e.id \in DOMAIN receipts
    BY <1>3, <2>1, IdleStillSo DEF RecordReceipt
  <2>2. CASE e.id \notin DOMAIN receipts
    <3> DEFINE p == [q EXCEPT !.pc = "customer", !.made = @ \cup {"receipt"}]
    <3>1. Goes(w, p) /\ q.pc = "receipt"
      BY <1>3, <2>2 DEF RecordReceipt
    <3>2. p.pc = "customer" /\ p.plan = q.plan
      BY <1>1 DEF Deliveries
    <3> HIDE DEF p, q
    <3>3. StillSo(p)
      BY <1>1, <3>1, <3>2, BeforeMatchStillSo
    <3>4. QED
      BY <3>1, <3>3
  <2>3. QED
    BY <2>1, <2>2
<1>4. CASE FindCustomer(w)
  <2> DEFINE next == IF customer THEN "transaction" ELSE "newCustomer"
             p == [q EXCEPT !.pc = next]
  <2>1. Goes(w, p) /\ q.pc = "customer"
    BY <1>4 DEF FindCustomer
  <2>2. p.pc \in {"transaction", "newCustomer"} /\ p.plan = q.plan
    BY <1>1 DEF Deliveries
  <2> HIDE DEF p, q
  <2>3. StillSo(p)
    BY <1>1, <2>1, <2>2, BeforeMatchStillSo
  <2>4. QED
    BY <2>1, <2>3
<1>5. CASE InsertCustomer(w)
  <2> DEFINE p == [q EXCEPT !.pc = "transaction", !.made = @ \cup {"customer"}]
  <2>1. Goes(w, p) /\ q.pc = "newCustomer"
    BY <1>5 DEF InsertCustomer
  <2>2. p.pc = "transaction" /\ p.plan = q.plan
    BY <1>1 DEF Deliveries
  <2> HIDE DEF p, q
  <2>3. StillSo(p)
    BY <1>1, <2>1, <2>2, BeforeMatchStillSo
  <2>4. QED
    BY <2>1, <2>3
<1>6. CASE FindTransaction(w)
  <2>1. CASE e.ref \in DOMAIN txs
    <3> DEFINE p == [q EXCEPT !.pc = "match", !.seen = txs[e.ref]]
    <3>1. Goes(w, p) /\ q.pc = "transaction"
      BY <1>6, <2>1 DEF FindTransaction
    <3>2. /\ p.pc = "match" /\ p.plan = q.plan /\ p.event = e
          /\ p.seen = txs[e.ref]
      BY <1>1 DEF Deliveries
    <3>3. KnownTxs(e) = txs
      BY <2>1 DEF KnownTxs
    <3> HIDE DEF p, q
    <3>4. StillSo(p)
      BY <1>1, <3>1, <3>2, <3>3 DEF StillSo
    <3>5. QED
      BY <3>1, <3>4
  <2>2. CASE e.ref \notin DOMAIN txs
    <3> DEFINE p == [q EXCEPT !.pc = "newTransaction"]
    <3>1. Goes(w, p) /\ q.pc = "transaction"
      BY <1>6, <2>2 DEF FindTransaction
    <3>2. p.pc = "newTransaction" /\ p.plan = q.plan
      BY <1>1 DEF Deliveries
    <3> HIDE DEF p, q
    <3>3. StillSo(p)
      BY <1>1, <3>1, <3>2, BeforeMatchStillSo
    <3>4. QED
      BY <3>1, <3>3
  <2>3. QED
    BY <2>1, <2>2
<1>7. CASE InsertTransaction(w)
  <2> DEFINE seen == KnownTxs(e)[e.ref]
             p == [q EXCEPT !.pc = "match", !.made = @ \cup {"transaction"}, !.seen = seen]
  <2>1. Goes(w, p) /\ q.pc = "newTransaction"
    BY <1>7 DEF InsertTransaction
  <2> HIDE DEF seen
  <2>2. p.pc = "match" /\ p.plan = q.plan /\ p.event = e /\ p.seen = seen
    BY <1>1 DEF Deliveries
  <2> HIDE DEF p, q
  <2>3. StillSo(p)
    BY <1>1, <2>1, <2>2 DEF StillSo, seen
  <2>4. QED
    BY <2>1, <2>3
<1>8. CASE MatchCase(w)
  <2>1. CASE Found(e) # {}
    <3>1. PICK k \in Found(e) : Goes(w, Decided(q, k))
      BY <1>8, <2>1 DEF MatchCase
    <3>2. q.pc = "match"
      BY <1>8 DEF MatchCase
    <3> HIDE DEF q
    <3>3. StillSo(Decided(q, k))
      BY <1>1, <3>2, DecidedStillSo
    <3>4. QED
      BY <3>1, <3>3
  <2>2. CASE Found(e) = {}
    <3> DEFINE next == IF e.kind = "failed" THEN "newCase" ELSE "commit"
               p == [q EXCEPT !.pc = next]
    <3>1. Goes(w, p) /\ q.pc = "match"
      BY <1>8, <2>2 DEF MatchCase
    <3>2. /\ p.pc = next /\ p.plan = q.plan /\ p.event = e /\ p.seen = q.seen
      BY <1>1 DEF Deliveries
    <3> HIDE DEF p, q
    <3>3. /\ p.plan = "none" /\ p.seen = KnownTxs(e)[e.ref]
      BY <1>1, <3>1, <3>2 DEF StillSo
    <3>4. p.pc = "newCase" \/ (p.pc = "commit" /\ e.kind = "succeeded")
      BY <1>1, <3>2 DEF Kinds
    <3>5. StillSo(p)
      BY <2>2, <3>2, <3>3, <3>4 DEF StillSo, PlanFits, NoEffect
    <3>6. QED
      BY <3>1, <3>5
  <2>3. QED
    BY <2>1, <2>2
<1>9. CASE InsertCase(w)
  <2> DEFINE p == [q EXCEPT !.pc = "commit", !.plan = "create", !.case = e.key,
                            !.made = @ \cup {"case"}]
  <2>1. q.pc = "newCase" /\ Found(e) = {} /\ e.kind = "failed"
    BY <1>1, <1>9 DEF InsertCase, StillSo, DeliveryOK, ProgressOK
  <2>2. e.key \notin DOMAIN cases
    BY <2>1 DEF Found
  <2>3. Goes(w, p)
    BY <1>9, <2>2 DEF InsertCase
  <2>4. /\ p.pc = "commit" /\ p.plan = "create" /\ p.case = e.key /\ p.event = e
        /\ p.seen = q.seen
    BY <1>1 DEF Deliveries
  <2> HIDE DEF p, q
  <2>5. StillSo(p)
    BY <1>1, <2>1, <2>4 DEF StillSo, PlanFits
  <2>6. QED
    BY <2>3, <2>5
<1>10. CASE ReadLog(w)
  <2> DEFINE number == Len(cases[q.case].log) + 1
             p == [q EXCEPT !.pc = "commit", !.number = number]
  <2>1. Goes(w, p) /\ q.pc = "number"
    BY <1>10 DEF ReadLog
  <2> HIDE DEF number
  <2>2. /\ p.pc = "commit" /\ p.plan = q.plan /\ p.case = q.case /\ p.event = e
        /\ p.seen = q.seen /\ p.failures = q.failures
    BY <1>1 DEF Deliveries
  <2> HIDE DEF p, q
  <2>3. StillSo(p)
    BY <1>1, <2>1, <2>2 DEF StillSo, PlanFits, CaseLoaded
  <2>4. QED
    BY <2>1, <2>3
<1>11. CASE RollBack(w)
  BY <1>11, IdleStillSo DEF RollBack
<1>12. QED
  BY <1>3, <1>4, <1>5, <1>6, <1>7, <1>8, <1>9, <1>10, <1>11 DEF Proceeds

LEMMA SerialStepKeeps ==
    ASSUME Serial, SInv, [Next]_vars
    PROVE  SInv'
<1>1. IInv'
  BY StepKeeps DEF SInv
<1>2. ASSUME NEW w \in Workers, Proceeds(w), ~Commit(w) PROVE SInv'
  BY <1>2, ProceedsKeepsSerial
<1>3. ASSUME NEW w \in Workers, Commit(w) \/ Crash(w) PROVE SInv'
  <2>1. Workers = {w} /\ work' = [work EXCEPT ![w] = Idle] /\ work \in [Workers -> Deliveries]
    BY <1>3 DEF Serial, Commit, Crash, SInv, IInv
  <2>2. \A v \in Workers : work'[v] = Idle
    BY <2>1
  <2>3. StillSo(Idle)'
    BY DEF StillSo, Idle
  <2>4. QED
    BY <1>1, <2>2, <2>3 DEF SInv
<1>4. ASSUME NEW w \in Workers, NEW e \in Events, Deliver(w, e) PROVE SInv'
  <2> DEFINE q == [Idle EXCEPT !.pc = "receipt", !.event = e]
  <2>1. Goes(w, q) /\ StillSo(q)
    BY <1>4 DEF Deliver, Idle, StillSo
  <2> HIDE DEF q
  <2>2. QED
    BY <1>1, <2>1, SerialGoes
<1>5. ASSUME UNCHANGED <<txs, cases, work>> PROVE SInv'
  <2>1. ASSUME NEW v \in Workers PROVE StillSo(work[v])'
    <3>1. ASSUME NEW q, q = work[v] PROVE StillSo(q)'
      BY <1>5, <3>1, StillSoStays DEF SInv
    <3>2. QED
      BY <1>5, <3>1
  <2>2. QED
    BY <1>1, <2>1 DEF SInv
<1>6. ASSUME NEW e \in Events, OtherReceipt(e) PROVE SInv'
  BY <1>5, <1>6 DEF OtherReceipt, ReceiptOnly
<1>7. ASSUME NEW k \in DOMAIN cases, OtherStop(k) PROVE FALSE
  BY <1>7 DEF OtherStop, Serial
<1>8. CASE UNCHANGED vars
  BY <1>5, <1>8 DEF vars, storeVars
<1>9. QED
  BY <1>2, <1>3, <1>4, <1>6, <1>7, <1>8 DEF Next

LEMMA SerialInvariance ==
    ASSUME Serial
    PROVE  Spec => []SInv
<1>1. Init => SInv
  <2> SUFFICES ASSUME Init PROVE SInv
    OBVIOUS
  <2>1. \A v \in Workers : work[v] = Idle
    BY DEF Init
  <2>2. QED
    BY <2>1, InitOK, IdleStillSo DEF SInv
<1>2. SInv /\ [Next]_vars => SInv'
  BY SerialStepKeeps
<1>3. QED
  BY <1>1, <1>2, PTL DEF Spec

-----------------------------------------------------------------------------
(* What the invariant is for. *)

LEMMA SerialTxs ==
    ASSUME SInv, NEW w \in Workers, Commit(w)
    PROVE  /\ work[w].plan # "resolve" => txs' = KnownTxs(work[w].event)
           /\ work[w].plan = "resolve" => txs' = With(txs, work[w].event.ref, "SUCCEEDED")
<1> DEFINE q == work[w]
<1>1. q.event.ref \in DOMAIN txs \/ "transaction" \in q.made
  BY DEF SInv, IInv, DeliveryOK, ProgressOK, Commit
<1>2. txs' = Settled(q)
  BY DEF Commit
<1>3. q.event.ref \in DOMAIN txs => KnownTxs(q.event) = txs
  BY DEF KnownTxs
<1> HIDE DEF q
<1>4. QED
  BY <1>1, <1>2, <1>3 DEF Settled, q

\* A commit is the effect of its event, in one step.
LEMMA CommitTakesEffect ==
    ASSUME SInv, NEW w \in Workers, Commit(w)
    PROVE  EventTakesEffect(work[w].event)
<1> DEFINE q == work[w]
           e == q.event
<1>1. /\ q.pc = "commit" /\ PlanFits(q) /\ q.plan \in Plans /\ Processed(e)
      /\ cases' = CASE q.plan = "none"    -> cases
                    [] q.plan = "create"  -> Opened(e)
                    [] q.plan = "update"  -> Updated(e, q.case, q.failures)
                    [] q.plan = "resolve" -> Resolved(e, q.case)
  BY DEF SInv, IInv, DeliveryOK, Deliveries, StillSo, Commit
<1>2. /\ e.id \notin DOMAIN receipts
      /\ customer' /\ customer' \in BOOLEAN
      /\ q.plan # "resolve" => txs' = KnownTxs(e)
      /\ q.plan = "resolve" => txs' = With(txs, e.ref, "SUCCEEDED")
  BY CommitReceipt, CommitCommits, CommitStoreOK, SerialTxs DEF SInv, Committed, StoreOK
<1>3. customer' = TRUE
  BY <1>2
<1> HIDE DEF q
<1>4. CASE q.plan = "none"
  <2>1. NoEffect(e) /\ cases' = cases
    BY <1>1, <1>4 DEF PlanFits
  <2>2. EventAcknowledged(e)
    BY <1>1, <1>2, <1>3, <1>4, <2>1 DEF EventAcknowledged, NoEffect
  <2>3. QED
    BY <1>2, <2>2 DEF EventTakesEffect, q
<1>5. CASE q.plan = "create"
  <2>1. e.kind = "failed" /\ Found(e) = {} /\ cases' = Opened(e)
    BY <1>1, <1>5 DEF PlanFits
  <2>2. CaseOpened(e)
    BY <1>1, <1>2, <1>3, <1>5, <2>1 DEF CaseOpened
  <2>3. QED
    BY <1>2, <2>2 DEF EventTakesEffect, q
<1>6. CASE q.plan = "update"
  <2>1. /\ e.kind = "failed" /\ q.case \in Found(e)
        /\ cases[q.case].state \notin TerminalStates
        /\ q.failures = cases[q.case].failures + 1
        /\ KnownTxs(e)[cases[q.case].trigger] # "SUCCEEDED"
        /\ cases' = Updated(e, q.case, q.failures)
    BY <1>1, <1>6 DEF PlanFits, CaseLoaded
  <2>2. FailureCounted(e)
    BY <1>1, <1>2, <1>3, <1>6, <2>1 DEF FailureCounted
  <2>3. QED
    BY <1>2, <2>2 DEF EventTakesEffect, q
<1>7. CASE q.plan = "resolve"
  <2>1. /\ e.kind = "succeeded" /\ q.case \in Found(e)
        /\ cases[q.case].state \notin TerminalStates
        /\ cases' = Resolved(e, q.case)
    BY <1>1, <1>7 DEF PlanFits, CaseLoaded
  <2>2. CaseResolved(e)
    BY <1>1, <1>2, <1>3, <1>7, <2>1 DEF CaseResolved
  <2>3. QED
    BY <1>2, <2>2 DEF EventTakesEffect, q
<1>8. QED
  BY <1>1, <1>4, <1>5, <1>6, <1>7 DEF Plans

\* Every step of a worker but the commit is invisible in the database.
LEMMA StepIsEffect ==
    ASSUME Serial, SInv, [Next]_vars
    PROVE  [EffectsNext]_storeVars
<1>1. ASSUME NEW w \in Workers, Commit(w) PROVE EffectsNext
  <2>1. work[w].event \in Events
    BY CommitReceipt, <1>1 DEF SInv
  <2>2. QED
    BY <1>1, <2>1, CommitTakesEffect DEF EffectsNext
<1>2. ASSUME NEW w \in Workers, Proceeds(w), ~Commit(w) PROVE UNCHANGED storeVars
  <2>1. ASSUME NEW q, Goes(w, q) PROVE UNCHANGED storeVars
    BY <2>1 DEF Goes
  <2>2. QED
    BY <1>2, <2>1 DEF Proceeds, RecordReceipt, FindCustomer, InsertCustomer, FindTransaction,
       InsertTransaction, MatchCase, InsertCase, ReadLog, RollBack
<1>3. ASSUME NEW w \in Workers, Crash(w) \/ \E e \in Events : Deliver(w, e)
      PROVE  UNCHANGED storeVars
  BY <1>3 DEF Crash, Deliver, Goes
<1>4. ASSUME NEW e \in Events, OtherReceipt(e) PROVE EffectsNext
  BY <1>4 DEF OtherReceipt, EffectsNext
<1>5. ASSUME NEW k \in DOMAIN cases, OtherStop(k) PROVE EffectsNext
  BY <1>5 DEF OtherStop, EffectsNext
<1>6. UNCHANGED vars => UNCHANGED storeVars
  BY DEF vars
<1>7. QED
  BY <1>1, <1>2, <1>3, <1>4, <1>5, <1>6 DEF Next

\* EventToCaseEngine, process_event: deliveries that are repeated, out of order or cut
\* short leave the database as if each event had been processed in one step, once or
\* not at all, although it is read and written statement by statement.
THEOREM EventsAreAtomic ==
    ASSUME Serial
    PROVE  Spec => SerialEventsAreAtomic
<1>1. Init => EffectsInit
  BY DEF Init
<1>2. SInv /\ [Next]_vars => [EffectsNext]_storeVars
  BY StepIsEffect
<1>3. QED
  BY <1>1, <1>2, SerialInvariance, PTL DEF Spec, SerialEventsAreAtomic, EffectsSpec

\* EventToCaseEngine, derive_case_key and the match by reference: a payment has one
\* case, whatever keys it is reported under.
THEOREM PaymentHasOneCase ==
    ASSUME Serial
    PROVE  Spec => []OneCasePerPayment
<1>1. Init => OneCasePerPayment
  BY DEF Init, EffectsInit, OneCasePerPayment
<1>2. ASSUME SInv, OneCasePerPayment, [Next]_vars PROVE OneCasePerPayment'
  <2>1. ASSUME NEW k,
               \A l \in DOMAIN cases' : l = k \/ l \in DOMAIN cases,
               \A l \in DOMAIN cases : cases'[l].trigger = cases[l].trigger,
               k \in DOMAIN cases \/ \A l \in DOMAIN cases : cases[l].trigger # cases'[k].trigger
        PROVE  OneCasePerPayment'
    BY <1>2, <2>1 DEF OneCasePerPayment
  <2>2. ASSUME NEW e, EventTakesEffect(e) PROVE OneCasePerPayment'
    <3>1. CASE EventAcknowledged(e)
      BY <1>2, <3>1 DEF EventAcknowledged, OneCasePerPayment
    <3>2. CASE CaseOpened(e)
      <4>1. /\ e.key \notin DOMAIN cases /\ \A l \in DOMAIN cases : cases[l].trigger # e.ref
            /\ cases' = Opened(e)
        BY <3>2 DEF CaseOpened, Found
      <4>2. /\ DOMAIN cases' = DOMAIN cases \cup {e.key}
            /\ \A l \in DOMAIN cases : cases'[l] = cases[l]
            /\ cases'[e.key].trigger = e.ref
        BY <4>1 DEF Opened, With
      <4>3. QED
        BY <2>1, <4>1, <4>2
    <3>3. CASE FailureCounted(e)
      <4>1. PICK k \in Found(e) : cases' = Updated(e, k, cases[k].failures + 1)
        BY <3>3 DEF FailureCounted
      <4>2. k \in DOMAIN cases
        BY <4>1 DEF Found
      <4>3. /\ DOMAIN cases' = DOMAIN cases
            /\ \A l \in DOMAIN cases : cases'[l].trigger = cases[l].trigger
        BY <1>2, <4>1, <4>2 DEF Updated, SInv, IInv, StoreOK, CaseRecords
      <4>4. QED
        BY <2>1, <4>2, <4>3
    <3>4. CASE CaseResolved(e)
      <4>1. PICK k \in Found(e) : cases' = Resolved(e, k)
        BY <3>4 DEF CaseResolved
      <4>2. k \in DOMAIN cases
        BY <4>1 DEF Found
      <4>3. /\ DOMAIN cases' = DOMAIN cases
            /\ \A l \in DOMAIN cases : cases'[l].trigger = cases[l].trigger
        BY <1>2, <4>1, <4>2 DEF Resolved, SInv, IInv, StoreOK, CaseRecords
      <4>4. QED
        BY <2>1, <4>2, <4>3
    <3>5. QED
      BY <2>2, <3>1, <3>2, <3>3, <3>4 DEF EventTakesEffect
  <2>3. ASSUME NEW e, ReceiptOnly(e) PROVE OneCasePerPayment'
    BY <1>2, <2>3 DEF ReceiptOnly, OneCasePerPayment
  <2>4. ASSUME NEW k \in DOMAIN cases, CaseStopped(k) PROVE OneCasePerPayment'
    <3>1. /\ DOMAIN cases' = DOMAIN cases
          /\ \A l \in DOMAIN cases : cases'[l].trigger = cases[l].trigger
      BY <1>2, <2>4 DEF CaseStopped, SInv, IInv, StoreOK, CaseRecords
    <3>2. QED
      BY <2>1, <3>1
  <2>5. UNCHANGED storeVars => OneCasePerPayment'
    BY <1>2 DEF storeVars, OneCasePerPayment
  <2>6. QED
    BY <1>2, <2>2, <2>3, <2>4, <2>5, StepIsEffect DEF EffectsNext
<1>3. QED
  BY <1>1, <1>2, SerialInvariance, PTL DEF Spec

-----------------------------------------------------------------------------
(* The failure count.                                                      *)

\* The failures in a log.
Counted(log) ==
    {r.event : r \in {log[n] : n \in {m \in DOMAIN log : log[m].what \in {"opened", "updated"}}}}

CountOK ==
    \A k \in DOMAIN cases :
        /\ IsFiniteSet(Counted(cases[k].log))
        /\ cases[k].failures = Cardinality(Counted(cases[k].log))

LEMMA InCounted ==
    ASSUME NEW log, NEW i
    PROVE  i \in Counted(log) <=>
              \E n \in DOMAIN log : log[n].what \in {"opened", "updated"} /\ log[n].event = i
BY DEF Counted

LEMMA CountedAppend ==
    ASSUME NEW log \in Seq(Rows), NEW row \in Rows
    PROVE  Counted(Append(log, row)) =
              Counted(log) \cup (IF row.what \in {"opened", "updated"} THEN {row.event} ELSE {})
<1> DEFINE longer == Append(log, row)
<1>1. /\ DOMAIN longer = DOMAIN log \cup {Len(log) + 1} /\ longer[Len(log) + 1] = row
      /\ \A n \in DOMAIN log : longer[n] = log[n]
  BY AppendProperties
<1> HIDE DEF longer
<1>2. ASSUME NEW i
      PROVE  i \in Counted(longer) <=>
                i \in Counted(log) \/ (row.what \in {"opened", "updated"} /\ row.event = i)
  BY <1>1, InCounted
<1>3. QED
  BY <1>2 DEF longer

\* A failure that is not in the log yet counts one more.
LEMMA CountedOneMore ==
    ASSUME NEW log \in Seq(Rows), IsFiniteSet(Counted(log)), NEW row \in Rows,
           row.what \in {"opened", "updated"}, row.event \notin Counted(log)
    PROVE  /\ IsFiniteSet(Counted(Append(log, row)))
           /\ Cardinality(Counted(Append(log, row))) = Cardinality(Counted(log)) + 1
<1>1. Counted(Append(log, row)) = Counted(log) \cup {row.event}
  BY CountedAppend
<1> DEFINE old == Counted(log)
           i == row.event
<1>2. IsFiniteSet(old) /\ i \notin old
  OBVIOUS
<1> HIDE DEF old, i
<1>3. IsFiniteSet(old \cup {i}) /\ Cardinality(old \cup {i}) = Cardinality(old) + 1
  BY <1>2, FS_AddElement
<1>4. QED
  BY <1>1, <1>3 DEF old, i

LEMMA CountStays ==
    ASSUME NEW k, DOMAIN cases' = DOMAIN cases \cup {k}, CountOK,
           \A l \in DOMAIN cases : l # k => cases'[l] = cases[l],
           IsFiniteSet(Counted(cases'[k].log)),
           cases'[k].failures = Cardinality(Counted(cases'[k].log))
    PROVE  CountOK'
BY DEF CountOK

LEMMA EffectKeepsCount ==
    ASSUME SInv, CountOK, NEW e \in Events, EventTakesEffect(e)
    PROVE  CountOK'
<1>1. /\ StoreOK /\ RowsOK /\ e.id \in Ids /\ e.id # NoOne /\ e.id \notin DOMAIN receipts
  BY EventsAssumption DEF SInv, IInv, EventTakesEffect, Ids
<1>2. ASSUME NEW k \in DOMAIN cases
      PROVE  /\ cases[k] \in CaseRecords /\ cases[k].log \in Seq(Rows)
             /\ e.id \notin Counted(cases[k].log)
  BY <1>1, InCounted DEF StoreOK, RowsOK, CaseRecords
<1>3. CASE EventAcknowledged(e)
  BY <1>3 DEF EventAcknowledged, CountOK
<1>4. CASE CaseOpened(e)
  <2> DEFINE row == Row(e, "opened")
  <2>1. row \in Rows /\ row.what = "opened"
    BY <1>1 DEF Row, Rows
  <2>2. /\ e.key \notin DOMAIN cases
        /\ cases' = With(cases, e.key, [state |-> "DETECTED", trigger |-> e.ref, failures |-> 1,
                                        log |-> <<row>>])
    BY <1>4 DEF CaseOpened, Found, Opened
  <2>3. /\ DOMAIN cases' = DOMAIN cases \cup {e.key}
        /\ \A l \in DOMAIN cases : l # e.key => cases'[l] = cases[l]
        /\ cases'[e.key].failures = 1 /\ cases'[e.key].log = <<row>>
    BY <2>2 DEF With
  <2> HIDE DEF row
  <2>4. Counted(<<>>) = {} /\ <<>> \in Seq(Rows) /\ <<row>> = Append(<<>>, row)
    BY DEF Counted
  <2>5. IsFiniteSet(Counted(<<row>>)) /\ Cardinality(Counted(<<row>>)) = 1
    <3>1. IsFiniteSet(Counted(<<>>)) /\ Cardinality(Counted(<<>>)) = 0
      BY <2>4, FS_EmptySet
    <3>2. row.event \notin Counted(<<>>)
      BY <2>4
    <3>3. /\ IsFiniteSet(Counted(Append(<<>>, row)))
          /\ Cardinality(Counted(Append(<<>>, row))) = Cardinality(Counted(<<>>)) + 1
      <4>1. ASSUME NEW log \in Seq(Rows), log = <<>>
            PROVE  /\ IsFiniteSet(Counted(Append(log, row)))
                   /\ Cardinality(Counted(Append(log, row))) = Cardinality(Counted(log)) + 1
        BY <2>1, <3>1, <3>2, <4>1, CountedOneMore
      <4>2. QED
        BY <2>4, <4>1
    <3>4. QED
      BY <2>4, <3>1, <3>3
  <2>6. QED
    BY <2>3, <2>5, CountStays
<1>5. CASE FailureCounted(e)
  <2>1. PICK k \in Found(e) : cases' = Updated(e, k, cases[k].failures + 1)
    BY <1>5 DEF FailureCounted
  <2> DEFINE row == Row(e, "updated")
             log == Append(cases[k].log, row)
             failures == cases[k].failures + 1
  <2>2. k \in DOMAIN cases
    BY <2>1 DEF Found
  <2>3. row \in Rows /\ row.what = "updated" /\ row.event = e.id
    BY <1>1 DEF Row, Rows
  <2>4. /\ DOMAIN cases' = DOMAIN cases \cup {k}
        /\ \A l \in DOMAIN cases : l # k => cases'[l] = cases[l]
        /\ cases'[k].failures = failures /\ cases'[k].log = log
    BY <1>2, <2>1, <2>2 DEF Updated, CaseRecords
  <2> HIDE DEF row
  <2>5. IsFiniteSet(Counted(log)) /\ Cardinality(Counted(log)) = failures
    BY <1>2, <2>2, <2>3, CountedOneMore DEF CountOK
  <2>6. QED
    BY <2>4, <2>5, CountStays
<1>6. CASE CaseResolved(e)
  <2>1. PICK k \in Found(e) : cases' = Resolved(e, k)
    BY <1>6 DEF CaseResolved
  <2> DEFINE row == Row(e, "resolved")
             log == Append(cases[k].log, row)
  <2>2. k \in DOMAIN cases
    BY <2>1 DEF Found
  <2>3. row \in Rows /\ row.what = "resolved"
    BY <1>1 DEF Row, Rows
  <2>4. /\ DOMAIN cases' = DOMAIN cases \cup {k}
        /\ \A l \in DOMAIN cases : l # k => cases'[l] = cases[l]
        /\ cases'[k].failures = cases[k].failures /\ cases'[k].log = log
    BY <1>2, <2>1, <2>2 DEF Resolved, CaseRecords
  <2> HIDE DEF row
  <2>5. Counted(log) = Counted(cases[k].log)
    BY <1>2, <2>2, <2>3, CountedAppend
  <2>6. QED
    BY <2>2, <2>4, <2>5, CountStays DEF CountOK
<1>7. QED
  BY <1>3, <1>4, <1>5, <1>6 DEF EventTakesEffect

\* EventToCaseEngine, _handle_existing_case_update: the failure_count of a case, read
\* and written back, is the number of failure events the case has seen.
THEOREM CountIsRight ==
    ASSUME Serial
    PROVE  Spec => []FailuresCounted
<1>1. Init => CountOK
  BY DEF Init, EffectsInit, CountOK
<1>2. ASSUME SInv, CountOK, [Next]_vars PROVE CountOK'
  <2>1. ASSUME UNCHANGED cases PROVE CountOK'
    BY <1>2, <2>1 DEF CountOK
  <2>2. ASSUME NEW k \in DOMAIN cases, OtherStop(k) PROVE FALSE
    BY <2>2 DEF OtherStop, Serial
  <2>3. ASSUME NEW w \in Workers, Commit(w) PROVE CountOK'
    <3>1. ASSUME NEW e, e = work[w].event PROVE CountOK'
      BY <1>2, <2>3, <3>1, CommitReceipt, CommitTakesEffect, EffectKeepsCount DEF SInv
    <3>2. QED
      BY <3>1
  <2>4. CASE UNCHANGED vars
    BY <2>1, <2>4 DEF vars, storeVars
  <2>5. CASE Next /\ ~(\E w \in Workers : Commit(w)) /\ ~(\E k \in DOMAIN cases : OtherStop(k))
    <3>1. UNCHANGED cases
      <4>1. ASSUME NEW q, NEW w, Goes(w, q) PROVE UNCHANGED cases
        BY <4>1 DEF Goes, storeVars
      <4>2. QED
        BY <2>5, <4>1 DEF Next, Proceeds, RecordReceipt, FindCustomer, InsertCustomer,
           FindTransaction, InsertTransaction, MatchCase, InsertCase, ReadLog, RollBack,
           Crash, Deliver, OtherReceipt, ReceiptOnly, storeVars
    <3>2. QED
      BY <2>1, <3>1
  <2>6. QED
    BY <1>2, <2>2, <2>3, <2>4, <2>5
<1>3. CountOK => FailuresCounted
  BY Zenon DEF CountOK, FailuresCounted, Counted
<1>4. QED
  BY <1>1, <1>2, <1>3, SerialInvariance, PTL DEF Spec
=============================================================================
