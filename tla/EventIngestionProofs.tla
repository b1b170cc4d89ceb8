------------------------- MODULE EventIngestionProofs -------------------------
(***************************************************************************)
(* Theorems about EventIngestion for any finite set of events, any number  *)
(* of workers and crashes, with the other route and operators beside them. *)
(***************************************************************************)
EXTENDS EventIngestion, FiniteSetTheorems, SequenceTheorems, TLAPS

-----------------------------------------------------------------------------
(* The inductive invariant: what is committed. *)

Rows == [event : Ids \cup {NoOne}, what : {"opened", "updated", "resolved", "moved"}]

CaseRecords ==
    [state : {"DETECTED", "RECOVERED", "STOPPED"}, trigger : Refs, failures : Nat, log : Seq(Rows)]

StoreOK ==
    /\ DOMAIN receipts \subseteq Ids
    /\ \A i \in DOMAIN receipts :
          receipts[i] \in [event : Events, processed : BOOLEAN] /\ receipts[i].event.id = i
    /\ \A i \in DOMAIN receipts :
          receipts[i].processed => receipts[i].event.ref \in DOMAIN txs
    /\ customer \in BOOLEAN
    /\ DOMAIN txs \subseteq Refs /\ txs \in [DOMAIN txs -> TxnStatuses]
    /\ DOMAIN txs # {} => customer
    /\ DOMAIN cases \subseteq Keys
    /\ \A k \in DOMAIN cases : cases[k] \in CaseRecords /\ cases[k].trigger \in DOMAIN txs

\* A row names an event whose receipt is committed, and no two name the same.
RowsOK ==
    /\ \A k \in DOMAIN cases : \A n \in DOMAIN cases[k].log :
          cases[k].log[n].event \in DOMAIN receipts \cup {NoOne}
    /\ \A k, l \in DOMAIN cases : \A n \in DOMAIN cases[k].log, m \in DOMAIN cases[l].log :
          /\ cases[k].log[n].event = cases[l].log[m].event
          /\ cases[k].log[n].event # NoOne
          => k = l /\ n = m

IsCaseOf(k, e) == k = e.key \/ cases[k].trigger = e.ref

\* A case of e needs no further failure.
Excused(e) ==
    \E k \in DOMAIN cases :
        /\ IsCaseOf(k, e)
        /\ cases[k].state \in TerminalStates \/ txs[cases[k].trigger] = "SUCCEEDED"

InSomeLog(i) == \E k \in DOMAIN cases : \E n \in DOMAIN cases[k].log : cases[k].log[n].event = i

FailuresKept ==
    \A i \in DOMAIN receipts :
        receipts[i].processed /\ receipts[i].event.kind = "failed" =>
            InSomeLog(i) \/ Excused(receipts[i].event)

-----------------------------------------------------------------------------
(* The inductive invariant: deliveries in progress. *)

\* What a delivery has inserted is not committed by anybody else.
MadeOK(q) ==
    /\ "receipt" \in q.made => q.event.id \notin DOMAIN receipts
    /\ "customer" \in q.made => ~customer
    /\ "transaction" \in q.made => q.event.ref \notin DOMAIN txs
    /\ "case" \in q.made => q.event.key \notin DOMAIN cases

\* How far it has come, and what it has found.
ProgressOK(q) ==
    /\ q.pc \notin {"idle", "receipt"} => "receipt" \in q.made
    /\ q.pc \notin {"idle", "receipt", "customer", "newCustomer"} =>
          customer \/ "customer" \in q.made
    /\ q.pc \in {"match", "newCase", "number", "commit"} =>
          q.event.ref \in DOMAIN txs \/ "transaction" \in q.made
    /\ q.pc = "newCase" => q.event.kind = "failed"
    /\ q.pc = "number" => q.plan \in {"update", "resolve"}
    /\ q.seen = "SUCCEEDED" /\ q.event.kind = "failed" =>
          q.event.ref \in DOMAIN txs /\ txs[q.event.ref] = "SUCCEEDED"

PlanOK(q) ==
    /\ q.plan = "create" =>
          "case" \in q.made /\ q.case = q.event.key /\ q.event.kind = "failed"
    /\ q.plan \in {"update", "resolve"} => q.case \in DOMAIN cases /\ IsCaseOf(q.case, q.event)
    /\ q.plan = "update" => q.event.kind = "failed"
    /\ q.plan = "resolve" => q.event.kind = "succeeded"
    /\ q.pc = "commit" /\ q.plan = "none" /\ q.event.kind = "failed" => Excused(q.event)

DeliveryOK(q) == q \in Deliveries /\ MadeOK(q) /\ ProgressOK(q) /\ PlanOK(q)

\* No two deliveries have inserted under the same key.
MadeOnce ==
    \A w, o \in Workers : \A m \in work[w].made \cap work[o].made :
        w = o \/ UniqueKey(work[w].event, m) # UniqueKey(work[o].event, m)

IInv ==
    /\ StoreOK /\ RowsOK /\ FailuresKept /\ RecoveredHasProof
    /\ crashes \in 0..MaxCrashes
    /\ work \in [Workers -> Deliveries]
    /\ \A w \in Workers : DeliveryOK(work[w])
    /\ MadeOnce

-----------------------------------------------------------------------------
(* What committed rows never do. *)

\* Cases stay, their logs keep their rows, and what has ended stays so.
CasesGrown ==
    /\ DOMAIN cases \subseteq DOMAIN cases'
    /\ \A k \in DOMAIN cases :
          /\ cases'[k].trigger = cases[k].trigger
          /\ cases[k].state \in TerminalStates => cases'[k].state \in TerminalStates
          /\ DOMAIN cases[k].log \subseteq DOMAIN cases'[k].log
          /\ \A n \in DOMAIN cases[k].log : cases'[k].log[n] = cases[k].log[n]

\* Receipts stay as well, and payments that have succeeded.
Grown ==
    /\ DOMAIN receipts \subseteq DOMAIN receipts'
    /\ \A i \in DOMAIN receipts : receipts'[i] = receipts[i]
    /\ customer => customer'
    /\ DOMAIN txs \subseteq DOMAIN txs'
    /\ \A t \in DOMAIN txs : txs[t] = "SUCCEEDED" => txs'[t] = "SUCCEEDED"
    /\ CasesGrown

LEMMA WithIs ==
    ASSUME NEW f, NEW x, NEW y
    PROVE  /\ DOMAIN With(f, x, y) = DOMAIN f \cup {x}
           /\ With(f, x, y)[x] = y
           /\ \A z \in DOMAIN f : z # x => With(f, x, y)[z] = f[z]
BY DEF With

LEMMA ExcusedStays ==
    ASSUME StoreOK, Grown, NEW e, Excused(e)
    PROVE  Excused(e)'
<1>1. PICK k \in DOMAIN cases :
         /\ IsCaseOf(k, e)
         /\ cases[k].state \in TerminalStates \/ txs[cases[k].trigger] = "SUCCEEDED"
  BY DEF Excused
<1>2. /\ k \in DOMAIN cases' /\ cases'[k].trigger = cases[k].trigger
      /\ cases[k].state \in TerminalStates => cases'[k].state \in TerminalStates
      /\ txs[cases[k].trigger] = "SUCCEEDED" => txs'[cases[k].trigger] = "SUCCEEDED"
  BY <1>1 DEF Grown, CasesGrown, StoreOK
<1>3. QED
  BY <1>1, <1>2 DEF Excused, IsCaseOf

\* A delivery goes on as it was, if nobody has committed what it has inserted.
LEMMA DeliveryStaysOK ==
    ASSUME StoreOK, Grown, NEW q, DeliveryOK(q), MadeOK(q)'
    PROVE  DeliveryOK(q)'
<1>1. ProgressOK(q)'
  BY DEF DeliveryOK, ProgressOK, Grown, CasesGrown
<1>2. PlanOK(q)'
  BY ExcusedStays DEF DeliveryOK, PlanOK, Grown, CasesGrown, IsCaseOf
<1>3. QED
  BY <1>1, <1>2 DEF DeliveryOK

LEMMA IdleOK == DeliveryOK(Idle)
<1>1. Idle.event \in Events
  BY EventsAssumption DEF Idle
<1>2. Idle \in Deliveries
  BY <1>1 DEF Idle, Deliveries, Plans
<1>3. QED
  BY <1>2 DEF Idle, DeliveryOK, MadeOK, ProgressOK, PlanOK, NoState

\* A delivery that moves on without committing anything.
LEMMA GoesKeeps ==
    ASSUME IInv, NEW w \in Workers, NEW q, DeliveryOK(q), Goes(w, q),
           \A o \in Workers \ {w} : \A m \in q.made \cap work[o].made :
              UniqueKey(q.event, m) # UniqueKey(work[o].event, m)
    PROVE  IInv'
<1>1. /\ work' = [work EXCEPT ![w] = q] /\ DOMAIN work = Workers
      /\ UNCHANGED <<receipts, customer, txs, cases, crashes>>
  BY DEF Goes, storeVars, IInv
<1>2. \A o \in Workers : work'[o] = IF o = w THEN q ELSE work[o]
  BY <1>1
<1>3. ASSUME NEW o \in Workers PROVE DeliveryOK(work[o])'
  <2>1. DeliveryOK(IF o = w THEN q ELSE work[o])
    BY DEF IInv
  <2>2. Grown
    BY <1>1 DEF Grown, CasesGrown
  <2>3. ASSUME NEW d, DeliveryOK(d) PROVE DeliveryOK(d)'
    <3>1. MadeOK(d)'
      BY <1>1, <2>3 DEF DeliveryOK, MadeOK
    <3>2. QED
      BY <2>2, <2>3, <3>1, DeliveryStaysOK DEF IInv
  <2>4. QED
    BY <1>2, <2>1, <2>3
<1>4. MadeOnce'
  <2>1. ASSUME NEW u \in Workers, NEW o \in Workers, u # o,
               NEW m \in work'[u].made \cap work'[o].made
        PROVE  UniqueKey(work'[u].event, m) # UniqueKey(work'[o].event, m)
    <3>1. CASE u = w
      BY <1>2, <2>1, <3>1
    <3>2. CASE o = w
      BY <1>2, <2>1, <3>2
    <3>3. CASE u # w /\ o # w
      BY <1>2, <2>1, <3>3 DEF IInv, MadeOnce
    <3>4. QED
      BY <3>1, <3>2, <3>3
  <2>2. QED
    BY <2>1 DEF MadeOnce, UniqueKey
<1>5. StoreOK' /\ RowsOK' /\ FailuresKept' /\ RecoveredHasProof' /\ (crashes \in 0..MaxCrashes)'
  BY <1>1 DEF IInv, StoreOK, RowsOK, FailuresKept, RecoveredHasProof, InSomeLog, Excused, IsCaseOf
<1>6. work' \in [Workers -> Deliveries]
  BY <1>1 DEF IInv, DeliveryOK
<1>7. QED
  BY <1>3, <1>4, <1>5, <1>6 DEF IInv

\* A delivery that goes on with its event, and inserts only what is free.
LEMMA AdvanceKeeps ==
    ASSUME IInv, NEW w \in Workers, NEW q, DeliveryOK(q), Goes(w, q),
           q.event = work[w].event,
           \A m \in q.made : m \in work[w].made \/ Free(w, m)
    PROVE  IInv'
<1>1. ASSUME NEW o \in Workers \ {w}, NEW m \in q.made \cap work[o].made
      PROVE  UniqueKey(q.event, m) # UniqueKey(work[o].event, m)
  <2>1. CASE m \in work[w].made
    BY <1>1, <2>1 DEF IInv, MadeOnce
  <2>2. CASE Free(w, m)
    BY <1>1, <2>2 DEF Free
  <2>3. QED
    BY <1>1, <2>1, <2>2
<1>2. QED
  BY <1>1, GoesKeeps

LEMMA ToIdleKeeps ==
    ASSUME IInv, NEW w \in Workers, Goes(w, Idle)
    PROVE  IInv'
BY IdleOK, GoesKeeps DEF Idle

-----------------------------------------------------------------------------
(* Every step keeps the invariant: what a delivery looks up and inserts. *)

LEMMA DeliverKeeps ==
    ASSUME IInv, NEW w \in Workers, NEW e \in Events, Deliver(w, e)
    PROVE  IInv'
<1> DEFINE q == [Idle EXCEPT !.pc = "receipt", !.event = e]
<1>1. /\ q.pc = "receipt" /\ q.event = e /\ q.made = {} /\ q.plan = "none" /\ q.seen = NoState
      /\ q \in Deliveries
  BY IdleOK DEF Idle, DeliveryOK, Deliveries
<1>2. Goes(w, q)
  BY DEF Deliver
<1> HIDE DEF q
<1>3. DeliveryOK(q)
  BY <1>1 DEF DeliveryOK, MadeOK, ProgressOK, PlanOK, NoState
<1>4. QED
  BY <1>1, <1>2, <1>3, GoesKeeps

LEMMA RecordReceiptKeeps ==
    ASSUME IInv, NEW w \in Workers, RecordReceipt(w)
    PROVE  IInv'
<1> DEFINE q == work[w]
           p == [q EXCEPT !.pc = "customer", !.made = @ \cup {"receipt"}]
<1>1. DeliveryOK(q) /\ q \in Deliveries /\ q.pc = "receipt" /\ Free(w, "receipt")
  BY DEF IInv, DeliveryOK, RecordReceipt
<1>2. CASE q.event.id \in DOMAIN receipts
  BY <1>2, ToIdleKeeps DEF RecordReceipt
<1>3. CASE q.event.id \notin DOMAIN receipts
  <2>1. Goes(w, p)
    BY <1>3 DEF RecordReceipt
  <2>2. /\ p.pc = "customer" /\ p.event = q.event /\ p.made = q.made \cup {"receipt"}
        /\ p.plan = q.plan /\ p.seen = q.seen /\ p.case = q.case /\ p \in Deliveries
    BY <1>1 DEF Deliveries
  <2> HIDE DEF p, q
  <2>3. DeliveryOK(p)
    BY <1>1, <1>3, <2>2 DEF DeliveryOK, MadeOK, ProgressOK, PlanOK
  <2>4. QED
    BY <1>1, <2>1, <2>2, <2>3, AdvanceKeeps DEF q
<1>4. QED
  BY <1>2, <1>3

LEMMA FindCustomerKeeps ==
    ASSUME IInv, NEW w \in Workers, FindCustomer(w)
    PROVE  IInv'
<1> DEFINE q == work[w]
           next == IF customer THEN "transaction" ELSE "newCustomer"
           p == [q EXCEPT !.pc = next]
<1>1. DeliveryOK(q) /\ q \in Deliveries /\ q.pc = "customer"
  BY DEF IInv, DeliveryOK, FindCustomer
<1>2. Goes(w, p)
  BY DEF FindCustomer
<1>3. /\ p.pc = next /\ p.event = q.event /\ p.made = q.made
      /\ p.plan = q.plan /\ p.seen = q.seen /\ p.case = q.case /\ p \in Deliveries
  BY <1>1 DEF Deliveries
<1> HIDE DEF p, q
<1>4. DeliveryOK(p)
  BY <1>1, <1>3 DEF DeliveryOK, MadeOK, ProgressOK, PlanOK
<1>5. QED
  BY <1>2, <1>3, <1>4, AdvanceKeeps DEF q

LEMMA InsertCustomerKeeps ==
    ASSUME IInv, NEW w \in Workers, InsertCustomer(w)
    PROVE  IInv'
<1> DEFINE q == work[w]
           p == [q EXCEPT !.pc = "transaction", !.made = @ \cup {"customer"}]
<1>1. /\ DeliveryOK(q) /\ q \in Deliveries /\ q.pc = "newCustomer" /\ Free(w, "customer")
      /\ ~customer
  BY DEF IInv, DeliveryOK, InsertCustomer
<1>2. Goes(w, p)
  BY DEF InsertCustomer
<1>3. /\ p.pc = "transaction" /\ p.event = q.event /\ p.made = q.made \cup {"customer"}
      /\ p.plan = q.plan /\ p.seen = q.seen /\ p.case = q.case /\ p \in Deliveries
  BY <1>1 DEF Deliveries
<1> HIDE DEF p, q
<1>4. DeliveryOK(p)
  BY <1>1, <1>3 DEF DeliveryOK, MadeOK, ProgressOK, PlanOK
<1>5. QED
  BY <1>1, <1>2, <1>3, <1>4, AdvanceKeeps DEF q

LEMMA FindTransactionKeeps ==
    ASSUME IInv, NEW w \in Workers, FindTransaction(w)
    PROVE  IInv'
<1> DEFINE q == work[w]
           found == [q EXCEPT !.pc = "match", !.seen = txs[q.event.ref]]
           new == [q EXCEPT !.pc = "newTransaction"]
<1>1. DeliveryOK(q) /\ q \in Deliveries /\ q.pc = "transaction"
  BY DEF IInv, DeliveryOK, FindTransaction
<1>2. CASE q.event.ref \in DOMAIN txs
  <2>1. Goes(w, found)
    BY <1>2 DEF FindTransaction
  <2>2. txs[q.event.ref] \in TxnStatuses
    BY <1>2 DEF IInv, StoreOK
  <2>3. /\ found.pc = "match" /\ found.event = q.event /\ found.made = q.made
        /\ found.plan = q.plan /\ found.seen = txs[q.event.ref] /\ found.case = q.case
        /\ found \in Deliveries
    BY <1>1, <2>2 DEF Deliveries
  <2> HIDE DEF found, q
  <2>4. DeliveryOK(found)
    BY <1>1, <1>2, <2>3 DEF DeliveryOK, MadeOK, ProgressOK, PlanOK
  <2>5. QED
    BY <2>1, <2>3, <2>4, AdvanceKeeps DEF q
<1>3. CASE q.event.ref \notin DOMAIN txs
  <2>1. Goes(w, new)
    BY <1>3 DEF FindTransaction
  <2>2. /\ new.pc = "newTransaction" /\ new.event = q.event /\ new.made = q.made
        /\ new.plan = q.plan /\ new.seen = q.seen /\ new.case = q.case /\ new \in Deliveries
    BY <1>1 DEF Deliveries
  <2> HIDE DEF new, q
  <2>3. DeliveryOK(new)
    BY <1>1, <2>2 DEF DeliveryOK, MadeOK, ProgressOK, PlanOK
  <2>4. QED
    BY <2>1, <2>2, <2>3, AdvanceKeeps DEF q
<1>4. QED
  BY <1>2, <1>3

LEMMA InsertTransactionKeeps ==
    ASSUME IInv, NEW w \in Workers, InsertTransaction(w)
    PROVE  IInv'
<1> DEFINE q == work[w]
           status == KnownTxs(q.event)[q.event.ref]
           p == [q EXCEPT !.pc = "match", !.made = @ \cup {"transaction"}, !.seen = status]
<1>1. /\ DeliveryOK(q) /\ q \in Deliveries /\ q.pc = "newTransaction"
      /\ Free(w, "transaction") /\ q.event.ref \notin DOMAIN txs
  BY DEF IInv, DeliveryOK, InsertTransaction
<1>2. Goes(w, p)
  BY DEF InsertTransaction
<1>3. status = IF q.event.kind = "succeeded" THEN "SUCCEEDED" ELSE "FAILED"
  <2> DEFINE new == IF q.event.kind = "succeeded" THEN "SUCCEEDED" ELSE "FAILED"
  <2>1. KnownTxs(q.event) = With(txs, q.event.ref, new)
    BY <1>1 DEF KnownTxs
  <2> HIDE DEF new, q
  <2>2. With(txs, q.event.ref, new)[q.event.ref] = new
    BY DEF With
  <2>3. QED
    BY <2>1, <2>2 DEF new
<1> HIDE DEF status
<1>4. /\ p.pc = "match" /\ p.event = q.event /\ p.made = q.made \cup {"transaction"}
      /\ p.plan = q.plan /\ p.seen = status /\ p.case = q.case /\ p \in Deliveries
  BY <1>1, <1>3 DEF Deliveries, TxnStatuses
<1> HIDE DEF p, q
<1>5. DeliveryOK(p)
  BY <1>1, <1>3, <1>4 DEF DeliveryOK, MadeOK, ProgressOK, PlanOK
<1>6. QED
  BY <1>1, <1>2, <1>4, <1>5, AdvanceKeeps DEF q

\* What it decides about a case it has found.
LEMMA DecidedOK ==
    ASSUME IInv, NEW q, DeliveryOK(q), q.pc \in {"match", "newCase"}, NEW k \in DOMAIN cases,
           IsCaseOf(k, q.event)
    PROVE  /\ DeliveryOK(Decided(q, k))
           /\ Decided(q, k).event = q.event
           /\ Decided(q, k).made = q.made
<1>1. /\ q \in Deliveries /\ q.event \in Events /\ q.event.kind \in Kinds
      /\ k \in Keys /\ cases[k] \in CaseRecords /\ cases[k].failures + 1 \in Nat
  BY EventsAssumption DEF DeliveryOK, Deliveries, IInv, StoreOK, CaseRecords
<1>2. CASE Decide(q, k) = "none"
  <2> DEFINE p == [q EXCEPT !.pc = "commit"]
  <2>1. /\ p.pc = "commit" /\ p.event = q.event /\ p.made = q.made
        /\ p.plan = q.plan /\ p.seen = q.seen /\ p.case = q.case /\ p \in Deliveries
    BY <1>1 DEF Deliveries
  <2>2. Decided(q, k) = p
    BY <1>2 DEF Decided
  <2> HIDE DEF p
  <2>3. q.event.kind = "failed" => Excused(q.event)
    <3>1. CASE cases[k].state \in TerminalStates
      BY <3>1 DEF Excused
    <3>2. CASE q.event.kind = "failed" /\ TriggerStatus(q, k) = "SUCCEEDED"
      <4>1. txs[cases[k].trigger] = "SUCCEEDED"
        BY <3>2 DEF TriggerStatus, DeliveryOK, ProgressOK
      <4>2. QED
        BY <4>1 DEF Excused
    <3>3. QED
      BY <1>1, <1>2, <3>1, <3>2 DEF Decide, Kinds
  <2>4. DeliveryOK(p)
    BY <2>1, <2>3 DEF DeliveryOK, MadeOK, ProgressOK, PlanOK
  <2>5. QED
    BY <2>1, <2>2, <2>4
<1>3. CASE Decide(q, k) # "none"
  <2> DEFINE plan == Decide(q, k)
             p == [q EXCEPT !.pc = "number", !.plan = plan, !.case = k,
                            !.failures = cases[k].failures + 1]
  <2>1. /\ plan \in {"update", "resolve"}
        /\ plan = "update" => q.event.kind = "failed"
        /\ plan = "resolve" => q.event.kind = "succeeded"
    BY <1>1, <1>3 DEF Decide, Kinds
  <2>2. Decided(q, k) = p
    BY <1>3 DEF Decided
  <2> HIDE DEF plan
  <2>3. /\ p.pc = "number" /\ p.event = q.event /\ p.made = q.made
        /\ p.plan = plan /\ p.seen = q.seen /\ p.case = k /\ p \in Deliveries
    BY <1>1, <2>1 DEF Deliveries, Plans
  <2> HIDE DEF p
  <2>4. DeliveryOK(p)
    BY <2>1, <2>3 DEF DeliveryOK, MadeOK, ProgressOK, PlanOK
  <2>5. QED
    BY <2>2, <2>3, <2>4
<1>4. QED
  BY <1>2, <1>3

LEMMA MatchCaseKeeps ==
    ASSUME IInv, NEW w \in Workers, MatchCase(w)
    PROVE  IInv'
<1> DEFINE q == work[w]
           next == IF q.event.kind = "failed" THEN "newCase" ELSE "commit"
           p == [q EXCEPT !.pc = next]
<1>1. DeliveryOK(q) /\ q \in Deliveries /\ q.pc = "match"
  BY DEF IInv, DeliveryOK, MatchCase
<1>2. CASE Found(q.event) # {}
  <2>1. PICK k \in Found(q.event) : Goes(w, Decided(q, k))
    BY <1>2 DEF MatchCase
  <2>2. k \in DOMAIN cases /\ IsCaseOf(k, q.event)
    BY DEF Found, IsCaseOf
  <2> HIDE DEF q
  <2>3. /\ DeliveryOK(Decided(q, k)) /\ Decided(q, k).event = q.event
        /\ Decided(q, k).made = q.made
    BY <1>1, <2>2, DecidedOK
  <2>4. QED
    BY <2>1, <2>3, AdvanceKeeps DEF q
<1>3. CASE Found(q.event) = {}
  <2>1. Goes(w, p)
    BY <1>3 DEF MatchCase
  <2>2. /\ p.pc = next /\ p.event = q.event /\ p.made = q.made
        /\ p.plan = q.plan /\ p.seen = q.seen /\ p.case = q.case /\ p \in Deliveries
    BY <1>1 DEF Deliveries
  <2> HIDE DEF p, q
  <2>3. DeliveryOK(p)
    BY <1>1, <2>2 DEF DeliveryOK, MadeOK, ProgressOK, PlanOK
  <2>4. QED
    BY <2>1, <2>2, <2>3, AdvanceKeeps DEF q
<1>4. QED
  BY <1>2, <1>3

LEMMA InsertCaseKeeps ==
    ASSUME IInv, NEW w \in Workers, InsertCase(w)
    PROVE  IInv'
<1> DEFINE q == work[w]
           p == [q EXCEPT !.pc = "commit", !.plan = "create", !.case = q.event.key,
                          !.made = @ \cup {"case"}]
<1>1. DeliveryOK(q) /\ q \in Deliveries /\ q.pc = "newCase" /\ Free(w, "case")
  BY DEF IInv, DeliveryOK, InsertCase
<1>2. CASE q.event.key \in DOMAIN cases
  <2>1. Goes(w, Decided(q, q.event.key))
    BY <1>2 DEF InsertCase
  <2>2. IsCaseOf(q.event.key, q.event)
    BY DEF IsCaseOf
  <2> HIDE DEF q
  <2>3. /\ DeliveryOK(Decided(q, q.event.key)) /\ Decided(q, q.event.key).event = q.event
        /\ Decided(q, q.event.key).made = q.made
    BY <1>1, <1>2, <2>2, DecidedOK
  <2>4. QED
    BY <2>1, <2>3, AdvanceKeeps DEF q
<1>3. CASE q.event.key \notin DOMAIN cases
  <2>1. Goes(w, p)
    BY <1>3 DEF InsertCase
  <2>2. q.event.key \in Keys
    BY <1>1 DEF Deliveries, Keys
  <2>3. /\ p.pc = "commit" /\ p.event = q.event /\ p.made = q.made \cup {"case"}
        /\ p.plan = "create" /\ p.seen = q.seen /\ p.case = q.event.key /\ p \in Deliveries
    BY <1>1, <2>2 DEF Deliveries, Plans
  <2> HIDE DEF p, q
  <2>4. DeliveryOK(p)
    BY <1>1, <1>3, <2>3 DEF DeliveryOK, MadeOK, ProgressOK, PlanOK
  <2>5. QED
    BY <1>1, <2>1, <2>3, <2>4, AdvanceKeeps DEF q
<1>4. QED
  BY <1>2, <1>3

LEMMA ReadLogKeeps ==
    ASSUME IInv, NEW w \in Workers, ReadLog(w)
    PROVE  IInv'
<1> DEFINE q == work[w]
           number == Len(cases[q.case].log) + 1
           p == [q EXCEPT !.pc = "commit", !.number = number]
<1>1. DeliveryOK(q) /\ q \in Deliveries /\ q.pc = "number"
  BY DEF IInv, DeliveryOK, ReadLog
<1>2. Goes(w, p)
  BY DEF ReadLog
<1>3. number \in Nat
  <2>1. cases[q.case].log \in Seq(Rows)
    BY <1>1 DEF DeliveryOK, ProgressOK, PlanOK, IInv, StoreOK, CaseRecords
  <2>2. QED
    BY <2>1
<1> HIDE DEF number
<1>4. /\ p.pc = "commit" /\ p.event = q.event /\ p.made = q.made
      /\ p.plan = q.plan /\ p.seen = q.seen /\ p.case = q.case /\ p \in Deliveries
  BY <1>1, <1>3 DEF Deliveries
<1> HIDE DEF p, q
<1>5. DeliveryOK(p)
  BY <1>1, <1>4 DEF DeliveryOK, MadeOK, ProgressOK, PlanOK
<1>6. QED
  BY <1>2, <1>4, <1>5, AdvanceKeeps DEF q

-----------------------------------------------------------------------------
(* Every step keeps the invariant: what is committed. *)

\* One case is opened or changed, and its log gets one row more.
RowAdded(k, row) ==
    /\ DOMAIN cases' = DOMAIN cases \cup {k}
    /\ \A l \in DOMAIN cases : l # k => cases'[l] = cases[l]
    /\ cases'[k].log = Append(IF k \in DOMAIN cases THEN cases[k].log ELSE <<>>, row)
    /\ k \in DOMAIN cases =>
          /\ cases'[k].trigger = cases[k].trigger
          /\ cases[k].state \in TerminalStates => cases'[k].state \in TerminalStates

LEMMA LogIsLonger ==
    ASSUME StoreOK, NEW k, NEW row \in Rows, RowAdded(k, row)
    PROVE  LET log == IF k \in DOMAIN cases THEN cases[k].log ELSE <<>> IN
           /\ log \in Seq(Rows) /\ cases'[k].log \in Seq(Rows) /\ Len(log) \in Nat
           /\ DOMAIN log = 1..Len(log) /\ DOMAIN cases'[k].log = 1..Len(log) + 1
           /\ \A n \in DOMAIN log : cases'[k].log[n] = log[n]
           /\ cases'[k].log[Len(log) + 1] = row
<1> DEFINE log == IF k \in DOMAIN cases THEN cases[k].log ELSE <<>>
<1>1. log \in Seq(Rows)
  BY DEF StoreOK, CaseRecords
<1>2. cases'[k].log = Append(log, row)
  BY DEF RowAdded
<1> HIDE DEF log
<1>3. QED
  BY <1>1, <1>2, AppendProperties DEF log

\* The row is that of an event not processed before, or of none.
LEMMA RowsStayOK ==
    ASSUME StoreOK, RowsOK, NEW k, NEW row \in Rows, RowAdded(k, row),
           row.event \notin DOMAIN receipts,
           row.event \in DOMAIN receipts' \cup {NoOne},
           DOMAIN receipts \subseteq DOMAIN receipts'
    PROVE  RowsOK'
<1> DEFINE log == IF k \in DOMAIN cases THEN cases[k].log ELSE <<>>
           last == Len(log) + 1
<1>1. /\ DOMAIN log = 1..Len(log) /\ DOMAIN cases'[k].log = 1..last /\ Len(log) \in Nat
      /\ \A n \in DOMAIN log : cases'[k].log[n] = log[n]
      /\ cases'[k].log[last] = row
  BY LogIsLonger
<1> HIDE DEF log
\* A row of the new logs is the new one, or an old one in its old place.
<1>2. ASSUME NEW l \in DOMAIN cases', NEW n \in DOMAIN cases'[l].log
      PROVE  \/ l = k /\ n = last /\ cases'[l].log[n] = row
             \/ l \in DOMAIN cases /\ n \in DOMAIN cases[l].log
                   /\ cases'[l].log[n] = cases[l].log[n]
  <2>1. CASE l = k /\ n = last
    BY <1>1, <2>1
  <2>2. CASE l = k /\ n # last
    <3>1. n \in DOMAIN log
      BY <1>1, <1>2, <2>2
    <3>2. k \in DOMAIN cases
      BY <3>1 DEF log
    <3>3. QED
      BY <1>1, <2>2, <3>1, <3>2 DEF log
  <2>3. CASE l # k
    BY <1>2, <2>3 DEF RowAdded
  <2>4. QED
    BY <2>1, <2>2, <2>3
<1>3. ASSUME NEW l \in DOMAIN cases', NEW n \in DOMAIN cases'[l].log
      PROVE  cases'[l].log[n].event \in DOMAIN receipts' \cup {NoOne}
  BY <1>2, <1>3 DEF RowsOK
<1>4. ASSUME NEW l \in DOMAIN cases', NEW j \in DOMAIN cases',
             NEW n \in DOMAIN cases'[l].log, NEW m \in DOMAIN cases'[j].log,
             cases'[l].log[n].event = cases'[j].log[m].event,
             cases'[l].log[n].event # NoOne
      PROVE  l = j /\ n = m
  <2>1. \/ l = k /\ n = last /\ cases'[l].log[n] = row
        \/ l \in DOMAIN cases /\ n \in DOMAIN cases[l].log
              /\ cases'[l].log[n] = cases[l].log[n]
    BY <1>2
  <2>2. \/ j = k /\ m = last /\ cases'[j].log[m] = row
        \/ j \in DOMAIN cases /\ m \in DOMAIN cases[j].log
              /\ cases'[j].log[m] = cases[j].log[m]
    BY <1>2
  <2>3. QED
    BY <1>4, <2>1, <2>2 DEF RowsOK
<1>5. QED
  BY <1>3, <1>4 DEF RowsOK

LEMMA CommittedKeeps ==
    ASSUME IInv, Grown, StoreOK', RowsOK', FailuresKept', RecoveredHasProof',
           (crashes \in 0..MaxCrashes)', work' \in [Workers -> Deliveries],
           \A o \in Workers : work'[o] = Idle \/ (work'[o] = work[o] /\ MadeOK(work[o])')
    PROVE  IInv'
<1>1. ASSUME NEW d, DeliveryOK(d), MadeOK(d)' PROVE DeliveryOK(d)'
  BY <1>1, DeliveryStaysOK DEF IInv
<1>2. MadeOK(Idle)'
  BY DEF MadeOK, Idle
<1>3. ASSUME NEW o \in Workers PROVE DeliveryOK(work[o])'
  <2>1. CASE work'[o] = Idle
    <3>1. DeliveryOK(Idle)'
      BY <1>1, <1>2, IdleOK
    <3>2. QED
      BY <2>1, <3>1
  <2>2. CASE work'[o] = work[o] /\ MadeOK(work[o])'
    <3>1. DeliveryOK(work[o])
      BY DEF IInv
    <3>2. ASSUME NEW d, d = work[o], MadeOK(d)' PROVE DeliveryOK(d)'
      BY <1>1, <3>1, <3>2
    <3>3. QED
      BY <2>2, <3>2
  <2>3. QED
    BY <2>1, <2>2
<1>4. MadeOnce'
  <2>1. \A o \in Workers : work'[o] = work[o] \/ work'[o].made = {}
    BY DEF Idle
  <2>2. ASSUME NEW u \in Workers, NEW o \in Workers, u # o,
               NEW m \in work'[u].made \cap work'[o].made
        PROVE  UniqueKey(work'[u].event, m) # UniqueKey(work'[o].event, m)
    <3>1. work'[u] = work[u] /\ work'[o] = work[o]
      BY <2>1, <2>2
    <3>2. QED
      BY <2>2, <3>1 DEF IInv, MadeOnce
  <2>3. QED
    BY <2>2, Zenon DEF MadeOnce
<1>5. QED
  BY <1>3, <1>4 DEF IInv

\* What committing a delivery does, whatever its plan.
Committed(q) ==
    /\ receipts' = With(receipts, q.event.id, [event |-> q.event, processed |-> TRUE])
    /\ customer'
    /\ DOMAIN txs' = DOMAIN txs \cup {q.event.ref}
    /\ txs' \in [DOMAIN txs' -> TxnStatuses]
    /\ \A t \in DOMAIN txs : txs[t] = "SUCCEEDED" => txs'[t] = "SUCCEEDED"
    /\ q.plan = "resolve" => txs'[q.event.ref] = "SUCCEEDED"

LEMMA KnownTxsIs ==
    ASSUME StoreOK, NEW e \in Events
    PROVE  /\ DOMAIN KnownTxs(e) = DOMAIN txs \cup {e.ref}
           /\ KnownTxs(e) \in [DOMAIN KnownTxs(e) -> TxnStatuses]
           /\ \A t \in DOMAIN txs : KnownTxs(e)[t] = txs[t]
<1>1. CASE e.ref \in DOMAIN txs
  BY <1>1 DEF KnownTxs, StoreOK
<1>2. CASE e.ref \notin DOMAIN txs
  BY <1>2 DEF KnownTxs, With, StoreOK, TxnStatuses
<1>3. QED
  BY <1>1, <1>2

LEMMA CommitCommits ==
    ASSUME IInv, NEW w \in Workers, Commit(w)
    PROVE  Committed(work[w])
<1> DEFINE q == work[w]
<1>1. /\ DeliveryOK(q) /\ q.pc = "commit" /\ q.event \in Events /\ StoreOK
      /\ txs' = Settled(q)
      /\ receipts' = With(receipts, q.event.id, [event |-> q.event, processed |-> TRUE])
      /\ customer' = (customer \/ "customer" \in q.made)
  BY DEF IInv, DeliveryOK, Deliveries, Commit, Processed
<1> SUFFICES Committed(q)
  OBVIOUS
<1> HIDE DEF q
<1>2. /\ q.event.ref \in DOMAIN txs \/ "transaction" \in q.made
      /\ customer'
  BY <1>1 DEF DeliveryOK, ProgressOK
<1>3. CASE q.plan = "resolve"
  <2>1. txs' = With(txs, q.event.ref, "SUCCEEDED")
    BY <1>1, <1>3 DEF Settled
  <2>2. QED
    BY <1>1, <1>2, <2>1 DEF Committed, With, StoreOK, TxnStatuses
<1>4. CASE q.plan # "resolve" /\ "transaction" \in q.made
  <2>1. txs' = KnownTxs(q.event)
    BY <1>1, <1>4 DEF Settled
  <2>2. QED
    BY <1>1, <1>2, <1>4, <2>1, KnownTxsIs DEF Committed
<1>5. CASE q.plan # "resolve" /\ "transaction" \notin q.made
  <2>1. txs' = txs
    BY <1>1, <1>5 DEF Settled
  <2>2. QED
    BY <1>1, <1>2, <1>5, <2>1 DEF Committed, StoreOK
<1>6. QED
  BY <1>3, <1>4, <1>5

\* What it does to the case of its plan.
LEMMA CommitAddsRow ==
    ASSUME IInv, NEW w \in Workers, Commit(w), work[w].plan # "none"
    PROVE  LET q == work[w] IN
           \E row \in Rows :
              /\ row.event = q.event.id
              /\ RowAdded(q.case, row)
              /\ q.case \in Keys /\ cases'[q.case] \in CaseRecords
              /\ cases'[q.case].trigger \in DOMAIN txs \cup {q.event.ref}
              /\ cases'[q.case].state = "RECOVERED" =>
                    \/ q.plan = "resolve"
                    \/ q.case \in DOMAIN cases /\ cases[q.case].state = "RECOVERED"
<1> DEFINE q == work[w]
           e == q.event
           k == q.case
<1>1. /\ DeliveryOK(q) /\ q.pc = "commit" /\ e \in Events /\ StoreOK
      /\ q.failures \in Nat /\ q.plan \in Plans
      /\ cases' = CASE q.plan = "none"    -> cases
                    [] q.plan = "create"  -> Opened(e)
                    [] q.plan = "update"  -> Updated(e, k, q.failures)
                    [] q.plan = "resolve" -> Resolved(e, k)
  BY DEF IInv, DeliveryOK, Deliveries, Commit
<1>2. e.id \in Ids /\ e.ref \in Refs /\ e.key \in Keys
  BY <1>1 DEF Ids, Refs, Keys
<1> HIDE DEF q
<1>3. CASE q.plan = "create"
  <2> DEFINE row == Row(e, "opened")
             case == [state |-> "DETECTED", trigger |-> e.ref, failures |-> 1, log |-> <<row>>]
  <2>1. row \in Rows /\ row.event = e.id
    BY <1>2 DEF Row, Rows
  <2>2. k = e.key /\ k \notin DOMAIN cases
    BY <1>1, <1>3 DEF DeliveryOK, PlanOK, MadeOK
  <2>3. cases' = With(cases, k, case)
    BY <1>1, <1>3, <2>2 DEF Opened
  <2> HIDE DEF row
  <2>4. <<row>> = Append(<<>>, row) /\ <<row>> \in Seq(Rows)
    BY <2>1
  <2>5. case \in CaseRecords
    BY <1>2, <2>4 DEF CaseRecords
  <2>6. /\ DOMAIN cases' = DOMAIN cases \cup {k} /\ cases'[k] = case
        /\ \A l \in DOMAIN cases : l # k => cases'[l] = cases[l]
    BY <2>3 DEF With
  <2>7. RowAdded(k, row)
    BY <2>2, <2>4, <2>6 DEF RowAdded
  <2>8. QED
    BY <1>2, <2>1, <2>2, <2>5, <2>6, <2>7 DEF q
<1>4. CASE q.plan = "update"
  <2> DEFINE row == Row(e, "updated")
             case == [cases[k] EXCEPT !.failures = q.failures, !.log = Append(@, row)]
  <2>1. row \in Rows /\ row.event = e.id
    BY <1>2 DEF Row, Rows
  <2>2. k \in DOMAIN cases /\ cases[k] \in CaseRecords /\ k \in Keys
        /\ cases[k].trigger \in DOMAIN txs
    BY <1>1, <1>4 DEF DeliveryOK, PlanOK, StoreOK
  <2>3. cases' = [cases EXCEPT ![k] = case]
    BY <1>1, <1>4, Zenon DEF Updated
  <2> HIDE DEF row
  <2>4. Append(cases[k].log, row) \in Seq(Rows)
    BY <2>1, <2>2 DEF CaseRecords
  <2>5. /\ case \in CaseRecords /\ case.log = Append(cases[k].log, row)
        /\ case.trigger = cases[k].trigger /\ case.state = cases[k].state
    BY <1>1, <2>2, <2>4 DEF CaseRecords
  <2> HIDE DEF case
  <2>6. /\ DOMAIN cases' = DOMAIN cases \cup {k} /\ cases'[k] = case
        /\ \A l \in DOMAIN cases : l # k => cases'[l] = cases[l]
    BY <2>2, <2>3
  <2>7. RowAdded(k, row)
    BY <2>2, <2>5, <2>6 DEF RowAdded
  <2>8. QED
    BY <2>1, <2>2, <2>5, <2>6, <2>7 DEF q
<1>5. CASE q.plan = "resolve"
  <2> DEFINE row == Row(e, "resolved")
             case == [cases[k] EXCEPT !.state = "RECOVERED", !.log = Append(@, row)]
  <2>1. row \in Rows /\ row.event = e.id
    BY <1>2 DEF Row, Rows
  <2>2. k \in DOMAIN cases /\ cases[k] \in CaseRecords /\ k \in Keys
        /\ cases[k].trigger \in DOMAIN txs
    BY <1>1, <1>5 DEF DeliveryOK, PlanOK, StoreOK
  <2>3. cases' = [cases EXCEPT ![k] = case]
    BY <1>1, <1>5, Zenon DEF Resolved
  <2> HIDE DEF row
  <2>4. Append(cases[k].log, row) \in Seq(Rows)
    BY <2>1, <2>2 DEF CaseRecords
  <2>5. /\ case \in CaseRecords /\ case.log = Append(cases[k].log, row)
        /\ case.trigger = cases[k].trigger /\ case.state = "RECOVERED"
    BY <2>2, <2>4 DEF CaseRecords
  <2> HIDE DEF case
  <2>6. /\ DOMAIN cases' = DOMAIN cases \cup {k} /\ cases'[k] = case
        /\ \A l \in DOMAIN cases : l # k => cases'[l] = cases[l]
    BY <2>2, <2>3
  <2>7. RowAdded(k, row)
    BY <2>2, <2>5, <2>6 DEF RowAdded, TerminalStates
  <2>8. QED
    BY <1>5, <2>1, <2>2, <2>5, <2>6, <2>7 DEF q
<1>6. QED
  BY <1>1, <1>3, <1>4, <1>5 DEF Plans, q

LEMMA RowAddedGrows ==
    ASSUME StoreOK, NEW k, NEW row \in Rows, RowAdded(k, row)
    PROVE  CasesGrown
<1>1. ASSUME NEW l \in DOMAIN cases
      PROVE  /\ l \in DOMAIN cases'
             /\ cases'[l].trigger = cases[l].trigger
             /\ cases[l].state \in TerminalStates => cases'[l].state \in TerminalStates
             /\ DOMAIN cases[l].log \subseteq DOMAIN cases'[l].log
             /\ \A n \in DOMAIN cases[l].log : cases'[l].log[n] = cases[l].log[n]
  <2>1. CASE l = k
    <3>1. /\ DOMAIN cases[k].log = 1..Len(cases[k].log) /\ Len(cases[k].log) \in Nat
          /\ DOMAIN cases'[k].log = 1..Len(cases[k].log) + 1
          /\ \A n \in DOMAIN cases[k].log : cases'[k].log[n] = cases[k].log[n]
      BY <1>1, <2>1, LogIsLonger
    <3>2. QED
      BY <1>1, <2>1, <3>1 DEF RowAdded
  <2>2. CASE l # k
    BY <1>1, <2>2 DEF RowAdded
  <2>3. QED
    BY <2>1, <2>2
<1>2. QED
  BY <1>1 DEF CasesGrown

LEMMA RowAddedStoreOK ==
    ASSUME StoreOK, NEW k \in Keys, NEW row \in Rows, RowAdded(k, row),
           cases'[k] \in CaseRecords, cases'[k].trigger \in DOMAIN txs',
           DOMAIN txs \subseteq DOMAIN txs'
    PROVE  /\ DOMAIN cases' \subseteq Keys
           /\ \A l \in DOMAIN cases' :
                 cases'[l] \in CaseRecords /\ cases'[l].trigger \in DOMAIN txs'
BY DEF StoreOK, RowAdded

LEMMA CommitReceipt ==
    ASSUME IInv, NEW w \in Workers, Commit(w)
    PROVE  LET e == work[w].event IN
           /\ e \in Events /\ e.id \in Ids /\ e.ref \in Refs /\ e.kind \in Kinds
           /\ e.id \notin DOMAIN receipts
           /\ DOMAIN receipts' = DOMAIN receipts \cup {e.id}
           /\ \A i \in DOMAIN receipts : receipts'[i] = receipts[i]
           /\ receipts'[e.id] = [event |-> e, processed |-> TRUE]
<1> DEFINE q == work[w]
           e == q.event
<1>1. DeliveryOK(q) /\ q.pc = "commit" /\ e \in Events
  BY DEF IInv, DeliveryOK, Deliveries, Commit
<1>2. e.id \in Ids /\ e.ref \in Refs /\ e.kind \in Kinds
  BY <1>1, EventsAssumption DEF Ids, Refs
<1>3. e.id \notin DOMAIN receipts
  BY <1>1 DEF DeliveryOK, ProgressOK, MadeOK
<1>4. receipts' = With(receipts, e.id, [event |-> e, processed |-> TRUE])
  BY DEF Commit, Processed
<1> HIDE DEF q
<1>5. /\ DOMAIN receipts' = DOMAIN receipts \cup {e.id}
      /\ \A i \in DOMAIN receipts : receipts'[i] = receipts[i]
      /\ receipts'[e.id] = [event |-> e, processed |-> TRUE]
  BY <1>3, <1>4 DEF With
<1>6. QED
  BY <1>1, <1>2, <1>3, <1>5 DEF q

LEMMA CommitGrows ==
    ASSUME IInv, NEW w \in Workers, Commit(w)
    PROVE  Grown
<1>1. CASE work[w].plan = "none"
  <2>1. cases' = cases
    BY <1>1 DEF Commit
  <2>2. CasesGrown
    BY <2>1 DEF CasesGrown
  <2>3. QED
    BY <2>2, CommitReceipt, CommitCommits DEF Grown, Committed
<1>2. CASE work[w].plan # "none"
  <2>1. PICK row \in Rows : RowAdded(work[w].case, row)
    BY <1>2, CommitAddsRow
  <2>2. CasesGrown
    BY <2>1, RowAddedGrows DEF IInv
  <2>3. QED
    BY <2>2, CommitReceipt, CommitCommits DEF Grown, Committed
<1>3. QED
  BY <1>1, <1>2

LEMMA CommitStoreOK ==
    ASSUME IInv, NEW w \in Workers, Commit(w)
    PROVE  StoreOK' /\ RowsOK'
<1> DEFINE e == work[w].event
<1>1. /\ e \in Events /\ e.id \in Ids /\ e.ref \in Refs
      /\ e.id \notin DOMAIN receipts
      /\ DOMAIN receipts' = DOMAIN receipts \cup {e.id}
      /\ \A i \in DOMAIN receipts : receipts'[i] = receipts[i]
      /\ receipts'[e.id] = [event |-> e, processed |-> TRUE]
  BY CommitReceipt
<1>2. /\ customer' /\ DOMAIN txs' = DOMAIN txs \cup {e.ref}
      /\ txs' \in [DOMAIN txs' -> TxnStatuses]
  BY CommitCommits DEF Committed
<1>3. StoreOK /\ RowsOK /\ customer' \in BOOLEAN
  BY DEF IInv, StoreOK, Commit
<1> HIDE DEF e
<1>4. /\ DOMAIN receipts' \subseteq Ids
      /\ \A i \in DOMAIN receipts' :
            /\ receipts'[i] \in [event : Events, processed : BOOLEAN]
            /\ receipts'[i].event.id = i
            /\ receipts'[i].processed => receipts'[i].event.ref \in DOMAIN txs'
  <2>1. ASSUME NEW i \in DOMAIN receipts'
        PROVE  /\ receipts'[i] \in [event : Events, processed : BOOLEAN]
               /\ receipts'[i].event.id = i
               /\ receipts'[i].processed => receipts'[i].event.ref \in DOMAIN txs'
    <3>1. CASE i = e.id
      <4> DEFINE receipt == [event |-> e, processed |-> TRUE]
      <4>1. receipts'[i] = receipt
        BY <1>1, <3>1
      <4>2. /\ receipt \in [event : Events, processed : BOOLEAN]
            /\ receipt.event.id = i /\ receipt.event.ref \in DOMAIN txs'
        BY <1>1, <1>2, <3>1
      <4> HIDE DEF receipt
      <4>3. QED
        BY <4>1, <4>2
    <3>2. CASE i \in DOMAIN receipts
      BY <1>1, <1>2, <1>3, <3>2 DEF StoreOK
    <3>3. QED
      BY <1>1, <2>1, <3>1, <3>2
  <2>2. QED
    BY <1>1, <1>3, <2>1 DEF StoreOK
<1>5. DOMAIN txs' \subseteq Refs
  BY <1>1, <1>2, <1>3 DEF StoreOK
<1>6. CASE work[w].plan = "none"
  <2>1. cases' = cases
    BY <1>6 DEF Commit
  <2>2. StoreOK'
    BY <1>2, <1>3, <1>4, <1>5, <2>1 DEF StoreOK
  <2>3. RowsOK'
    BY <1>1, <1>3, <2>1 DEF RowsOK
  <2>4. QED
    BY <2>2, <2>3
<1>7. CASE work[w].plan # "none"
  <2>1. PICK row \in Rows :
           /\ row.event = e.id
           /\ RowAdded(work[w].case, row)
           /\ work[w].case \in Keys /\ cases'[work[w].case] \in CaseRecords
           /\ cases'[work[w].case].trigger \in DOMAIN txs \cup {e.ref}
    BY <1>7, CommitAddsRow DEF e
  <2>2. /\ DOMAIN cases' \subseteq Keys
        /\ \A l \in DOMAIN cases' :
              cases'[l] \in CaseRecords /\ cases'[l].trigger \in DOMAIN txs'
    BY <1>2, <1>3, <2>1, RowAddedStoreOK
  <2>3. StoreOK'
    BY <1>2, <1>3, <1>4, <1>5, <2>2 DEF StoreOK
  <2>4. RowsOK'
    BY <1>1, <1>3, <2>1, RowsStayOK
  <2>5. QED
    BY <2>3, <2>4
<1>8. QED
  BY <1>6, <1>7

\* The failures that were processed before keep their rows or their excuse.
LEMMA OldFailuresKept ==
    ASSUME IInv, Grown, NEW i \in DOMAIN receipts,
           receipts[i].processed, receipts[i].event.kind = "failed"
    PROVE  InSomeLog(i)' \/ Excused(receipts[i].event)'
<1>1. CASE InSomeLog(i)
  BY <1>1 DEF InSomeLog, Grown, CasesGrown
<1>2. CASE Excused(receipts[i].event)
  <2>1. ASSUME NEW e, Excused(e) PROVE Excused(e)'
    BY <2>1, ExcusedStays DEF IInv
  <2>2. ASSUME NEW e, e = receipts[i].event PROVE Excused(e)'
    BY <1>2, <2>1, <2>2
  <2>3. receipts'[i] = receipts[i]
    BY DEF Grown
  <2>4. QED
    BY <2>2, <2>3
<1>3. QED
  BY <1>1, <1>2 DEF IInv, FailuresKept

LEMMA CommitFailuresKept ==
    ASSUME IInv, NEW w \in Workers, Commit(w)
    PROVE  FailuresKept'
<1> DEFINE q == work[w]
           e == q.event
<1>1. /\ e.id \notin DOMAIN receipts /\ DOMAIN receipts' = DOMAIN receipts \cup {e.id}
      /\ \A i \in DOMAIN receipts : receipts'[i] = receipts[i]
      /\ receipts'[e.id] = [event |-> e, processed |-> TRUE]
  BY CommitReceipt
<1>2. Grown /\ StoreOK /\ DeliveryOK(q) /\ q.pc = "commit" /\ q.plan \in Plans
  BY CommitGrows DEF IInv, DeliveryOK, Deliveries, Commit
<1>3. ASSUME NEW d, d = e, d.kind = "failed" PROVE InSomeLog(d.id)' \/ Excused(d)'
  <2>1. CASE q.plan = "none"
    <3>1. Excused(d)
      BY <1>2, <1>3, <2>1 DEF DeliveryOK, PlanOK
    <3>2. QED
      BY <1>2, <3>1, ExcusedStays
  <2>2. CASE q.plan \in {"create", "update"}
    <3>1. PICK row \in Rows : row.event = d.id /\ RowAdded(q.case, row)
      BY <1>3, <2>2, CommitAddsRow
    <3>2. PICK n \in DOMAIN cases'[q.case].log : cases'[q.case].log[n] = row
      BY <1>2, <3>1, LogIsLonger
    <3>3. PICK k : k = q.case
      OBVIOUS
    <3>4. k \in DOMAIN cases' /\ n \in DOMAIN cases'[k].log /\ cases'[k].log[n].event = d.id
      BY <3>1, <3>2, <3>3 DEF RowAdded
    <3>5. QED
      BY <3>4 DEF InSomeLog
  <2>3. CASE q.plan = "resolve"
    BY <1>2, <1>3, <2>3 DEF DeliveryOK, PlanOK
  <2>4. QED
    BY <1>2, <2>1, <2>2, <2>3 DEF Plans
<1>4. ASSUME NEW i \in DOMAIN receipts', receipts'[i].processed,
             receipts'[i].event.kind = "failed"
      PROVE  InSomeLog(i)' \/ Excused(receipts[i].event)'
  <2>1. CASE i \in DOMAIN receipts
    BY <1>1, <1>2, <1>4, <2>1, OldFailuresKept
  <2>2. CASE i = e.id
    <3>1. ASSUME NEW d, d = e PROVE InSomeLog(d.id)' \/ Excused(d)'
      BY <1>1, <1>3, <1>4, <2>2, <3>1
    <3>2. ASSUME NEW d, d = receipts'[i].event, d.id = i
          PROVE  InSomeLog(i)' \/ Excused(receipts[i].event)'
      BY <1>1, <2>2, <3>1, <3>2
    <3>3. QED
      BY <1>1, <2>2, <3>2
  <2>3. QED
    BY <1>1, <1>4, <2>1, <2>2
<1>5. QED
  BY <1>4 DEF FailuresKept

\* A proof of a recovery stays one.
IsProof(i, k) ==
    /\ i \in DOMAIN receipts
    /\ receipts[i].processed /\ receipts[i].event.kind = "succeeded"
    /\ IsCaseOf(k, receipts[i].event)
    /\ txs[receipts[i].event.ref] = "SUCCEEDED"

LEMMA ProofStays ==
    ASSUME StoreOK, Grown, NEW k \in DOMAIN cases, NEW i, IsProof(i, k)
    PROVE  IsProof(i, k)'
BY DEF StoreOK, Grown, CasesGrown, IsProof, IsCaseOf

LEMMA RecoveredIsProved ==
    RecoveredHasProof <=>
        \A k \in DOMAIN cases : cases[k].state = "RECOVERED" => \E i : IsProof(i, k)
BY DEF RecoveredHasProof, IsProof, IsCaseOf

LEMMA CommitRecoveredHasProof ==
    ASSUME IInv, NEW w \in Workers, Commit(w)
    PROVE  RecoveredHasProof'
<1> DEFINE q == work[w]
           e == q.event
<1>1. /\ e.id \notin DOMAIN receipts /\ DOMAIN receipts' = DOMAIN receipts \cup {e.id}
      /\ receipts'[e.id] = [event |-> e, processed |-> TRUE]
  BY CommitReceipt
<1>2. Grown /\ StoreOK /\ DeliveryOK(q) /\ q.pc = "commit"
  BY CommitGrows DEF IInv, DeliveryOK, Commit
<1>3. ASSUME NEW k \in DOMAIN cases, cases[k].state = "RECOVERED"
      PROVE  \E i : IsProof(i, k)'
  BY <1>2, <1>3, ProofStays, RecoveredIsProved DEF IInv
<1>4. ASSUME NEW k, k = q.case, NEW i, i = e.id, q.plan = "resolve" PROVE IsProof(i, k)'
  <2>1. k \in DOMAIN cases /\ IsCaseOf(k, e) /\ e.kind = "succeeded"
    BY <1>2, <1>4 DEF DeliveryOK, PlanOK
  <2>2. cases'[k].trigger = cases[k].trigger /\ txs'[e.ref] = "SUCCEEDED"
    BY <1>2, <1>4, <2>1, CommitCommits DEF Grown, CasesGrown, Committed
  <2>3. i \in DOMAIN receipts' /\ receipts'[i] = [event |-> e, processed |-> TRUE]
    BY <1>1, <1>4
  <2>4. receipts'[i].processed /\ receipts'[i].event = e
    BY <2>3
  <2> HIDE DEF e
  <2>5. QED
    BY <2>1, <2>2, <2>3, <2>4 DEF IsProof, IsCaseOf
<1>5. ASSUME NEW k \in DOMAIN cases', cases'[k].state = "RECOVERED"
      PROVE  \E i : IsProof(i, k)'
  <2>1. CASE q.plan = "none"
    <3>1. cases' = cases
      BY <2>1 DEF Commit
    <3>2. QED
      BY <1>3, <1>5, <3>1
  <2>2. CASE q.plan # "none"
    <3>1. PICK row \in Rows :
             /\ RowAdded(q.case, row)
             /\ cases'[q.case].state = "RECOVERED" =>
                    \/ q.plan = "resolve"
                    \/ q.case \in DOMAIN cases /\ cases[q.case].state = "RECOVERED"
      BY <2>2, CommitAddsRow
    <3>2. CASE k = q.case /\ q.plan = "resolve"
      <4>1. PICK i : i = e.id
        OBVIOUS
      <4>2. QED
        BY <1>4, <3>2, <4>1
    <3>3. CASE k \in DOMAIN cases /\ cases[k].state = "RECOVERED"
      BY <1>3, <3>3
    <3>4. QED
      BY <1>5, <3>1, <3>2, <3>3 DEF RowAdded
  <2>3. QED
    BY <2>1, <2>2
<1>6. QED
  BY <1>5 DEF RecoveredHasProof, IsProof, IsCaseOf

LEMMA CommitKeeps ==
    ASSUME IInv, NEW w \in Workers, Commit(w)
    PROVE  IInv'
<1> DEFINE q == work[w]
           e == q.event
<1>1. /\ DeliveryOK(q) /\ q.pc = "commit" /\ work' \in [Workers -> Deliveries]
      /\ work \in [Workers -> Deliveries] /\ work' = [work EXCEPT ![w] = Idle]
      /\ (crashes \in 0..MaxCrashes)'
      /\ customer' = (customer \/ "customer" \in q.made)
  BY IdleOK DEF IInv, DeliveryOK, Commit
<1>2. /\ DOMAIN receipts' = DOMAIN receipts \cup {e.id}
      /\ DOMAIN txs' = DOMAIN txs \cup {e.ref}
  BY CommitReceipt, CommitCommits DEF Committed
<1>3. \A k \in DOMAIN cases' : k \in DOMAIN cases \/ (k = e.key /\ "case" \in q.made)
  <2>1. CASE q.plan \in {"none", "update", "resolve"}
    BY <2>1 DEF Commit, Updated, Resolved
  <2>2. CASE q.plan = "create"
    <3>1. cases' = Opened(e)
      BY <2>2 DEF Commit
    <3>2. "case" \in q.made
      BY <1>1, <2>2 DEF DeliveryOK, PlanOK
    <3>3. QED
      BY <3>1, <3>2 DEF Opened, With
  <2>3. QED
    BY <1>1, <2>1, <2>2 DEF DeliveryOK, Deliveries, Plans
<1>4. ASSUME NEW o \in Workers, o # w PROVE MadeOK(work[o])'
  <2> DEFINE p == work[o]
  <2>1. MadeOK(p) /\ work'[o] = p
    BY <1>1, <1>4 DEF IInv, DeliveryOK
  <2>2. \A m \in q.made \cap p.made : UniqueKey(e, m) # UniqueKey(p.event, m)
    BY <1>4 DEF IInv, MadeOnce
  <2>3. /\ "receipt" \in q.made
        /\ e.ref \in DOMAIN txs \/ "transaction" \in q.made
    BY <1>1 DEF DeliveryOK, ProgressOK
  <2>4. "receipt" \in p.made => p.event.id \notin DOMAIN receipts'
    BY <1>2, <2>1, <2>2, <2>3 DEF MadeOK, UniqueKey
  <2>5. "customer" \in p.made => ~customer'
    BY <1>1, <2>1, <2>2 DEF MadeOK, UniqueKey
  <2>6. "transaction" \in p.made => p.event.ref \notin DOMAIN txs'
    BY <1>2, <2>1, <2>2, <2>3 DEF MadeOK, UniqueKey
  <2>7. "case" \in p.made => p.event.key \notin DOMAIN cases'
    BY <1>3, <2>1, <2>2 DEF MadeOK, UniqueKey
  <2>8. QED
    BY <2>1, <2>4, <2>5, <2>6, <2>7 DEF MadeOK
<1>5. \A o \in Workers : work'[o] = Idle \/ (work'[o] = work[o] /\ MadeOK(work[o])')
  BY <1>1, <1>4
<1>6. QED
  BY <1>1, <1>5, CommitGrows, CommitStoreOK, CommitFailuresKept, CommitRecoveredHasProof,
     CommittedKeeps

-----------------------------------------------------------------------------
(* Every step keeps the invariant: failures, and the rest of the program. *)

\* Nothing is committed, and deliveries stay as they are or end.
LEMMA NothingCommittedKeeps ==
    ASSUME IInv, UNCHANGED <<receipts, customer, txs, cases>>, (crashes \in 0..MaxCrashes)',
           work' \in [Workers -> Deliveries],
           \A o \in Workers : work'[o] = Idle \/ work'[o] = work[o]
    PROVE  IInv'
<1>1. UNCHANGED <<receipts, customer, txs, cases>>
  OBVIOUS
<1>2. Grown
  BY <1>1 DEF Grown, CasesGrown
<1>3. StoreOK' /\ RowsOK' /\ FailuresKept' /\ RecoveredHasProof'
  BY <1>1 DEF IInv, StoreOK, RowsOK, FailuresKept, RecoveredHasProof, InSomeLog, Excused, IsCaseOf
<1>4. \A o \in Workers : MadeOK(work[o])
  BY DEF IInv, DeliveryOK
<1>5. ASSUME NEW q, MadeOK(q) PROVE MadeOK(q)'
  BY <1>1, <1>5 DEF MadeOK
<1>6. ASSUME NEW o \in Workers, work'[o] = work[o] PROVE MadeOK(work[o])'
  <2>1. ASSUME NEW q, q = work[o] PROVE MadeOK(q)'
    BY <1>4, <1>5, <2>1
  <2>2. QED
    BY <1>6, <2>1
<1>7. QED
  BY <1>2, <1>3, <1>6, CommittedKeeps

LEMMA CrashKeeps ==
    ASSUME IInv, NEW w \in Workers, Crash(w)
    PROVE  IInv'
<1>1. /\ UNCHANGED <<receipts, customer, txs, cases>> /\ (crashes \in 0..MaxCrashes)'
      /\ work' \in [Workers -> Deliveries]
      /\ \A o \in Workers : work'[o] = Idle \/ work'[o] = work[o]
  BY IdleOK, MaxCrashesAssumption DEF IInv, DeliveryOK, Crash, storeVars
<1>2. QED
  BY <1>1, NothingCommittedKeeps

LEMMA OtherReceiptKeeps ==
    ASSUME IInv, NEW e \in Events, OtherReceipt(e)
    PROVE  IInv'
<1> DEFINE receipt == [event |-> e, processed |-> FALSE]
<1>1. /\ e.id \in Ids /\ e.id \notin DOMAIN receipts
      /\ receipts' = With(receipts, e.id, receipt)
      /\ UNCHANGED <<customer, txs, cases, work, crashes>>
  BY DEF OtherReceipt, ReceiptOnly, Ids
<1>2. receipt \in [event : Events, processed : BOOLEAN]
      /\ receipt.event.id = e.id /\ ~receipt.processed
  OBVIOUS
<1> HIDE DEF receipt
<1>3. /\ DOMAIN receipts' = DOMAIN receipts \cup {e.id} /\ receipts'[e.id] = receipt
      /\ \A i \in DOMAIN receipts : receipts'[i] = receipts[i]
  BY <1>1 DEF With
<1>4. Grown
  BY <1>1, <1>3 DEF Grown, CasesGrown
<1>5. StoreOK'
  <2>1. ASSUME NEW i \in DOMAIN receipts'
        PROVE  /\ i \in Ids /\ receipts'[i] \in [event : Events, processed : BOOLEAN]
               /\ receipts'[i].event.id = i
               /\ receipts'[i].processed => receipts'[i].event.ref \in DOMAIN txs'
    <3>1. CASE i = e.id
      BY <1>1, <1>2, <1>3, <3>1
    <3>2. CASE i \in DOMAIN receipts
      BY <1>1, <1>3, <3>2 DEF IInv, StoreOK
    <3>3. QED
      BY <1>3, <2>1, <3>1, <3>2
  <2>2. QED
    BY <1>1, <2>1 DEF IInv, StoreOK
<1>6. RowsOK'
  BY <1>1, <1>3 DEF IInv, RowsOK
<1>7. FailuresKept'
  <2>1. \A i \in DOMAIN receipts' : receipts'[i].processed => i \in DOMAIN receipts
    BY <1>2, <1>3
  <2>2. QED
    BY <1>3, <1>4, <2>1, OldFailuresKept DEF FailuresKept
<1>8. RecoveredHasProof'
  <2>1. ASSUME NEW k \in DOMAIN cases', cases'[k].state = "RECOVERED"
        PROVE  \E i : IsProof(i, k)'
    BY <1>1, <1>4, <2>1, ProofStays, RecoveredIsProved DEF IInv
  <2>2. QED
    BY <2>1 DEF RecoveredHasProof, IsProof, IsCaseOf
<1>9. ASSUME NEW o \in Workers PROVE MadeOK(work[o])'
  <2>1. MadeOK(work[o]) /\ ("receipt" \in work[o].made => work[o].event.id # e.id)
    BY DEF IInv, DeliveryOK, OtherReceipt
  <2>2. QED
    BY <1>1, <1>3, <2>1 DEF MadeOK
<1>10. work' \in [Workers -> Deliveries] /\ (crashes \in 0..MaxCrashes)'
  BY <1>1 DEF IInv
<1>11. QED
  BY <1>1, <1>4, <1>5, <1>6, <1>7, <1>8, <1>9, <1>10, CommittedKeeps

LEMMA OtherStopAddsRow ==
    ASSUME IInv, NEW k \in DOMAIN cases, OtherStop(k)
    PROVE  \E row \in Rows :
              /\ row.event = NoOne /\ RowAdded(k, row)
              /\ cases'[k] \in CaseRecords
              /\ cases'[k].trigger = cases[k].trigger /\ cases'[k].state = "STOPPED"
<1> DEFINE row == [event |-> NoOne, what |-> "moved"]
           case == [cases[k] EXCEPT !.state = "STOPPED", !.log = Append(@, row)]
<1>1. row \in Rows /\ row.event = NoOne
  BY DEF Rows
<1>2. cases[k] \in CaseRecords
  BY DEF IInv, StoreOK
<1>3. cases' = [cases EXCEPT ![k] = case]
  BY Zenon DEF OtherStop, CaseStopped
<1> HIDE DEF row
<1>4. Append(cases[k].log, row) \in Seq(Rows)
  BY <1>1, <1>2 DEF CaseRecords
<1>5. /\ case \in CaseRecords /\ case.log = Append(cases[k].log, row)
      /\ case.trigger = cases[k].trigger /\ case.state = "STOPPED"
  BY <1>2, <1>4 DEF CaseRecords
<1> HIDE DEF case
<1>6. /\ DOMAIN cases' = DOMAIN cases \cup {k} /\ cases'[k] = case
      /\ \A l \in DOMAIN cases : l # k => cases'[l] = cases[l]
  BY <1>3
<1>7. RowAdded(k, row)
  BY <1>5, <1>6 DEF RowAdded, TerminalStates
<1>8. QED
  BY <1>1, <1>5, <1>6, <1>7

LEMMA OtherStopKeeps ==
    ASSUME IInv, NEW k \in DOMAIN cases, OtherStop(k)
    PROVE  IInv'
<1>1. PICK row \in Rows :
         /\ row.event = NoOne /\ RowAdded(k, row)
         /\ cases'[k] \in CaseRecords
         /\ cases'[k].trigger = cases[k].trigger /\ cases'[k].state = "STOPPED"
  BY OtherStopAddsRow
<1>2. /\ StoreOK /\ RowsOK /\ k \in Keys /\ cases[k].trigger \in DOMAIN txs
      /\ UNCHANGED <<receipts, customer, txs, work, crashes>>
  BY DEF IInv, StoreOK, OtherStop, CaseStopped
<1>3. CasesGrown
  BY <1>1, <1>2, RowAddedGrows
<1>4. Grown
  BY <1>2, <1>3 DEF Grown
<1>5. StoreOK'
  <2>1. /\ DOMAIN cases' \subseteq Keys
        /\ \A l \in DOMAIN cases' :
              cases'[l] \in CaseRecords /\ cases'[l].trigger \in DOMAIN txs'
    BY <1>1, <1>2, RowAddedStoreOK
  <2>2. QED
    BY <1>2, <2>1 DEF StoreOK
<1>6. RowsOK'
  <2>1. NoOne \notin DOMAIN receipts
    BY <1>2, EventsAssumption DEF StoreOK, Ids
  <2>2. QED
    BY <1>1, <1>2, <2>1, RowsStayOK
<1>7. FailuresKept'
  BY <1>2, <1>4, OldFailuresKept DEF FailuresKept
<1>8. RecoveredHasProof'
  <2>1. ASSUME NEW l \in DOMAIN cases', cases'[l].state = "RECOVERED"
        PROVE  \E i : IsProof(i, l)'
    <3>1. l \in DOMAIN cases /\ cases[l].state = "RECOVERED"
      BY <1>1, <2>1 DEF RowAdded
    <3>2. QED
      BY <1>2, <1>4, <3>1, ProofStays, RecoveredIsProved DEF IInv
  <2>2. QED
    BY <2>1 DEF RecoveredHasProof, IsProof, IsCaseOf
<1>9. ASSUME NEW o \in Workers PROVE MadeOK(work[o])'
  <2>1. MadeOK(work[o]) /\ DOMAIN cases' = DOMAIN cases
    BY <1>1 DEF IInv, DeliveryOK, RowAdded
  <2>2. QED
    BY <1>2, <2>1 DEF MadeOK
<1>10. work' \in [Workers -> Deliveries] /\ (crashes \in 0..MaxCrashes)'
  BY <1>2 DEF IInv
<1>11. QED
  BY <1>2, <1>4, <1>5, <1>6, <1>7, <1>8, <1>9, <1>10, CommittedKeeps

-----------------------------------------------------------------------------
LEMMA InitOK == Init => IInv
<1> SUFFICES ASSUME Init PROVE IInv
  OBVIOUS
<1>1. /\ DOMAIN receipts = {} /\ DOMAIN cases = {} /\ crashes = 0
      /\ work = [w \in Workers |-> Idle]
  BY DEF Init, EffectsInit
<1>2. StoreOK
  BY <1>1 DEF Init, EffectsInit, StoreOK
<1>3. RowsOK /\ FailuresKept /\ RecoveredHasProof
  BY <1>1 DEF RowsOK, FailuresKept, RecoveredHasProof
<1>4. work \in [Workers -> Deliveries] /\ \A w \in Workers : DeliveryOK(work[w])
  BY <1>1, IdleOK DEF DeliveryOK
<1>5. MadeOnce
  BY <1>1 DEF MadeOnce, Idle
<1>6. QED
  BY <1>1, <1>2, <1>3, <1>4, <1>5, MaxCrashesAssumption DEF IInv

LEMMA StepKeeps ==
    ASSUME IInv, [Next]_vars
    PROVE  IInv'
<1>1. ASSUME NEW w \in Workers, NEW e \in Events, Deliver(w, e) PROVE IInv'
  BY <1>1, DeliverKeeps
<1>2. ASSUME NEW w \in Workers, Proceeds(w) PROVE IInv'
  <2>1. CASE RollBack(w)
    BY <2>1, ToIdleKeeps DEF RollBack
  <2>2. QED
    BY <1>2, <2>1, RecordReceiptKeeps, FindCustomerKeeps, InsertCustomerKeeps,
       FindTransactionKeeps, InsertTransactionKeeps, MatchCaseKeeps, InsertCaseKeeps,
       ReadLogKeeps, CommitKeeps DEF Proceeds
<1>3. ASSUME NEW w \in Workers, Crash(w) PROVE IInv'
  BY <1>3, CrashKeeps
<1>4. ASSUME NEW e \in Events, OtherReceipt(e) PROVE IInv'
  BY <1>4, OtherReceiptKeeps
<1>5. ASSUME NEW k \in DOMAIN cases, OtherStop(k) PROVE IInv'
  BY <1>5, OtherStopKeeps
<1>6. CASE UNCHANGED vars
  BY <1>6, NothingCommittedKeeps DEF vars, storeVars, IInv
<1>7. QED
  BY <1>1, <1>2, <1>3, <1>4, <1>5, <1>6 DEF Next

\* What a transaction inserts stays its own until it commits, and a commit adds
\* the effect of one event.
LEMMA Invariance == Spec => []IInv
<1>1. Init => IInv
  BY InitOK
<1>2. IInv /\ [Next]_vars => IInv'
  BY StepKeeps
<1>3. QED
  BY <1>1, <1>2, PTL DEF Spec

-----------------------------------------------------------------------------
(* The theorems. *)

\* What EventService and EventToCaseEngine write keeps its type, and the
\* trigger transaction of every case exists.
THEOREM TypeCorrect == Spec => []TypeOK
<1>1. IInv => TypeOK
  <2> SUFFICES ASSUME IInv PROVE TypeOK
    OBVIOUS
  <2>1. txs # [r \in {} |-> {}] => customer
    BY DEF IInv, StoreOK
  <2>2. QED
    BY <2>1 DEF IInv, StoreOK, CaseRecords, TypeOK
<1>2. QED
  BY <1>1, Invariance, PTL

\* EventService, ingest_canonical_event: the receipt's UNIQUE key and the one
\* transaction it shares with the effects make an event that is delivered again, to
\* another worker or after a crash, take effect on at most one case and once.
THEOREM EffectOnce == Spec => []ExactlyOnce
<1>1. ASSUME IInv, NEW i \in Ids PROVE Cardinality(RowsOf(i)) <= 1
  <2>1. i # NoOne
    BY EventsAssumption DEF Ids
  <2>2. ASSUME NEW x \in RowsOf(i), NEW y \in RowsOf(i) PROVE x = y
    <3>1. ASSUME NEW z \in RowsOf(i)
          PROVE  \E k \in DOMAIN cases : \E n \in DOMAIN cases[k].log :
                    z = <<k, n>> /\ cases[k].log[n].event = i
      BY <3>1, Zenon DEF RowsOf
    <3>2. PICK k \in DOMAIN cases : \E n \in DOMAIN cases[k].log :
             x = <<k, n>> /\ cases[k].log[n].event = i
      BY <3>1
    <3>3. PICK n \in DOMAIN cases[k].log : x = <<k, n>> /\ cases[k].log[n].event = i
      BY <3>2
    <3>4. PICK l \in DOMAIN cases : \E m \in DOMAIN cases[l].log :
             y = <<l, m>> /\ cases[l].log[m].event = i
      BY <3>1
    <3>5. PICK m \in DOMAIN cases[l].log : y = <<l, m>> /\ cases[l].log[m].event = i
      BY <3>4
    <3>6. QED
      BY <1>1, <2>1, <3>3, <3>5 DEF IInv, RowsOK
  <2>3. CASE RowsOf(i) = {}
    BY <2>3, FS_EmptySet
  <2>4. CASE RowsOf(i) # {}
    <3>1. PICK x : RowsOf(i) = {x}
      BY <2>2, <2>4
    <3>2. QED
      BY <3>1, FS_Singleton
  <2>5. QED
    BY <2>3, <2>4
<1>2. IInv => ExactlyOnce
  BY <1>1 DEF ExactlyOnce
<1>3. QED
  BY <1>2, Invariance, PTL

\* EventToCaseEngine, process_event: a failure that was processed is in the log of a
\* case, also if the case it was to open has been opened by another worker meanwhile,
\* unless its case was past recovering or its payment had succeeded.
THEOREM FailureKept == Spec => []NoFailureLost
<1>1. ASSUME IInv, NEW i, InSomeLog(i) PROVE RowsOf(i) # {}
  <2>1. PICK k \in DOMAIN cases : \E n \in DOMAIN cases[k].log : cases[k].log[n].event = i
    BY <1>1 DEF InSomeLog
  <2>2. PICK n \in DOMAIN cases[k].log : cases[k].log[n].event = i
    BY <2>1
  <2> DEFINE rows(c) == {<<c, m>> : m \in {j \in DOMAIN cases[c].log : cases[c].log[j].event = i}}
  <2>3. <<k, n>> \in rows(k)
    BY <2>2
  <2>4. rows(k) \subseteq RowsOf(i)
    <3>1. rows(k) \in {rows(c) : c \in DOMAIN cases}
      OBVIOUS
    <3> HIDE DEF rows
    <3>2. rows(k) \subseteq UNION {rows(c) : c \in DOMAIN cases}
      BY <3>1
    <3>3. QED
      BY <3>2, Zenon DEF rows, RowsOf
  <2>5. QED
    BY <2>3, <2>4
<1>2. IInv => NoFailureLost
  BY <1>1 DEF IInv, FailuresKept, NoFailureLost, Excused, IsCaseOf
<1>3. QED
  BY <1>2, Invariance, PTL

\* EventToCaseEngine, _handle_payment_succeeded: ingestion makes a case RECOVERED only
\* with a processed success of its key or payment.
THEOREM RecoveryProved == Spec => []RecoveredHasProof
<1>1. IInv => RecoveredHasProof
  BY DEF IInv
<1>2. QED
  BY <1>1, Invariance, PTL

LEMMA PrefixIs ==
    ASSUME NEW S, NEW a \in Seq(S), NEW b \in Seq(S), DOMAIN a \subseteq DOMAIN b,
           \A n \in DOMAIN a : b[n] = a[n]
    PROVE  Len(b) >= Len(a) /\ SubSeq(b, 1, Len(a)) = a
<1>1. Len(a) \in Nat /\ Len(b) \in Nat /\ DOMAIN a = 1..Len(a) /\ DOMAIN b = 1..Len(b)
  OBVIOUS
<1>2. Len(b) >= Len(a)
  BY <1>1
<1>3. QED
  BY <1>1, <1>2

\* EventToCaseEngine, _create_new_case and _handle_existing_case_update: a case is not
\* replaced by a worker that has lost the race for creating it, and its log only grows.
THEOREM CasesOnlyGrow == Spec => CasesAreNeverReplaced
<1> DEFINE Kept == \A k \in DOMAIN cases :
              /\ k \in DOMAIN cases' /\ cases'[k].trigger = cases[k].trigger
              /\ Len(cases'[k].log) >= Len(cases[k].log)
              /\ SubSeq(cases'[k].log, 1, Len(cases[k].log)) = cases[k].log
<1>1. ASSUME IInv, [Next]_vars PROVE CasesGrown
  <2>1. CASE UNCHANGED cases
    BY <2>1 DEF CasesGrown
  <2>2. ASSUME NEW w \in Workers, Commit(w) PROVE CasesGrown
    BY <1>1, <2>2, CommitGrows DEF Grown
  <2>3. ASSUME NEW k \in DOMAIN cases, OtherStop(k) PROVE CasesGrown
    BY <1>1, <2>3, OtherStopAddsRow, RowAddedGrows DEF IInv
  <2>4. ASSUME NEW w \in Workers, Proceeds(w), ~Commit(w) PROVE UNCHANGED cases
    <3>1. ASSUME NEW q, Goes(w, q) PROVE UNCHANGED cases
      BY <3>1 DEF Goes, storeVars
    <3>2. QED
      BY <2>4, <3>1 DEF Proceeds, RecordReceipt, FindCustomer, InsertCustomer, FindTransaction,
         InsertTransaction, MatchCase, InsertCase, ReadLog, RollBack
  <2>5. ASSUME NEW w \in Workers, Crash(w) \/ \E e \in Events : Deliver(w, e)
        PROVE  UNCHANGED cases
    BY <2>5 DEF Crash, Deliver, Goes, storeVars
  <2>6. ASSUME NEW e \in Events, OtherReceipt(e) PROVE UNCHANGED cases
    BY <2>6 DEF OtherReceipt, ReceiptOnly
  <2>7. UNCHANGED vars => UNCHANGED cases
    BY DEF vars, storeVars
  <2>8. QED
    BY <1>1, <2>1, <2>2, <2>3, <2>4, <2>5, <2>6, <2>7 DEF Next
<1>2. ASSUME IInv, IInv', CasesGrown PROVE Kept
  <2>1. ASSUME NEW k \in DOMAIN cases
        PROVE  /\ k \in DOMAIN cases' /\ cases'[k].trigger = cases[k].trigger
               /\ cases[k].log \in Seq(Rows) /\ cases'[k].log \in Seq(Rows)
               /\ DOMAIN cases[k].log \subseteq DOMAIN cases'[k].log
               /\ \A n \in DOMAIN cases[k].log : cases'[k].log[n] = cases[k].log[n]
    BY <1>2, <2>1 DEF IInv, StoreOK, CaseRecords, CasesGrown
  <2>2. QED
    BY <2>1, PrefixIs
<1>3. IInv /\ IInv' /\ [Next]_vars => [Kept]_vars
  BY <1>1, <1>2
<1> HIDE DEF Kept
<1>4. Spec => [][Kept]_vars
  BY <1>3, Invariance, PTL DEF Spec
<1>5. QED
  BY <1>4, Zenon DEF CasesAreNeverReplaced, Kept
=============================================================================
