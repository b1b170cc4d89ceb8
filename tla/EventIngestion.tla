--------------------------- MODULE EventIngestion ---------------------------
(***************************************************************************)
(* The workers that process deliveries of provider events: EventService    *)
(* records the receipt and calls EventToCaseEngine, statement by           *)
(* statement, in one database transaction per delivery.                    *)
(*                                                                         *)
(* What a transaction has inserted is seen by no other until it commits,   *)
(* but another that inserts under the same unique key waits for it         *)
(* (PostgreSQL), and gets an IntegrityError if it commits.  Receipts and   *)
(* cases are inserted in a savepoint and the error is handled; for         *)
(* customers and transactions it ends the request, and get_db rolls back.  *)
(***************************************************************************)
EXTENDS EventEffects

CONSTANTS
    Workers,     \* request threads, each with a database session
    MaxCrashes,  \* bound: requests that die before they commit
    Others       \* what happens beside the workers: "receipt", "stop"

ASSUME MaxCrashesAssumption == MaxCrashes \in Nat
ASSUME OthersAssumption == Others \subseteq {"receipt", "stop"}

VARIABLES
    work,    \* per worker, the delivery in progress
    crashes

vars == <<storeVars, work, crashes>>

-----------------------------------------------------------------------------
(* A delivery: its event, what it has inserted, the status of the          *)
(* transaction it has loaded, and once it has matched a case, the case,    *)
(* the plan for it, the failure count to write and the log number read.    *)
Plans == {"none", "create", "update", "resolve"}

Idle == [pc |-> "idle", event |-> CHOOSE e \in Events : TRUE, made |-> {}, seen |-> NoState,
         plan |-> "none", case |-> NoOne, failures |-> 0, number |-> 0]

Init ==
    /\ EffectsInit
    /\ work = [w \in Workers |-> Idle]
    /\ crashes = 0

\* w moves on to q; nothing is committed.
Goes(w, q) == work' = [work EXCEPT ![w] = q] /\ UNCHANGED <<storeVars, crashes>>

\* The unique key a delivery of e inserts each row under.
UniqueKey(e, made) ==
    CASE made = "receipt"     -> e.id
      [] made = "customer"    -> "customer"
      [] made = "transaction" -> e.ref
      [] made = "case"        -> e.key

\* Nobody else has inserted such a row under the same key and not committed.
Free(w, made) ==
    \A o \in Workers \ {w} :
        made \in work[o].made
            => UniqueKey(work[o].event, made) # UniqueKey(work[w].event, made)

-----------------------------------------------------------------------------
\* The provider delivers, for the first time or again.
Deliver(w, e) ==
    /\ work[w].pc = "idle"
    /\ Goes(w, [Idle EXCEPT !.pc = "receipt", !.event = e])

\* Fault: a receipt that exists does not end the request.
RecordReceiptAgain(w) ==
    LET q == work[w] IN
    /\ q.pc = "receipt"
    /\ Goes(w, [q EXCEPT !.pc = "customer",
                         !.made = @ \cup {"receipt"}])

\* evaluate_and_record: with a receipt there, the answer is 200 (duplicate) or
\* 409 (other contents), and nothing is written.
RecordReceipt(w) ==
    LET q == work[w] IN
    /\ q.pc = "receipt"
    /\ Free(w, "receipt")
    /\ IF q.event.id \in DOMAIN receipts
       THEN Goes(w, Idle)
       ELSE Goes(w, [q EXCEPT !.pc = "customer",
                              !.made = @ \cup {"receipt"}])

\* Fault: the event is marked processed and committed before its case is.
CommitReceiptFirst(w) ==
    LET q == work[w] IN
    /\ q.pc = "customer"
    /\ Processed(q.event)
    /\ work' = [work EXCEPT ![w].pc = "transaction"]
    /\ UNCHANGED <<customer, txs, cases, crashes>>

FindCustomer(w) ==
    /\ work[w].pc = "customer"
    /\ Goes(w, [work[w] EXCEPT !.pc = IF customer THEN "transaction" ELSE "newCustomer"])

\* Fault: the new customer is not added to the session.
InsertCustomerUnsaved(w) ==
    /\ work[w].pc = "newCustomer"
    /\ Goes(w, [work[w] EXCEPT !.pc = "transaction"])

InsertCustomer(w) ==
    /\ work[w].pc = "newCustomer"
    /\ Free(w, "customer")
    /\ ~customer
    /\ Goes(w, [work[w] EXCEPT !.pc = "transaction", !.made = @ \cup {"customer"}])

FindTransaction(w) ==
    LET q == work[w] IN
    /\ q.pc = "transaction"
    /\ Goes(w, IF q.event.ref \in DOMAIN txs
               THEN [q EXCEPT !.pc = "match", !.seen = txs[q.event.ref]]
               ELSE [q EXCEPT !.pc = "newTransaction"])

InsertTransaction(w) ==
    LET q == work[w] IN
    /\ q.pc = "newTransaction"
    /\ Free(w, "transaction")
    /\ q.event.ref \notin DOMAIN txs
    /\ Goes(w, [q EXCEPT !.pc = "match", !.made = @ \cup {"transaction"},
                         !.seen = KnownTxs(q.event)[q.event.ref]])

\* The status of the transaction that triggered case k: the event's own is the
\* object the session has loaded already.
TriggerStatus(q, k) ==
    IF cases[k].trigger = q.event.ref THEN q.seen ELSE txs[cases[k].trigger]

\* Fault: a terminal case is not left alone.
DecideAnyState(q, k) ==
    IF q.event.kind = "succeeded" THEN "resolve"
    ELSE IF TriggerStatus(q, k) = "SUCCEEDED" THEN "none" ELSE "update"

\* What to do about case k, as it is loaded.
Decide(q, k) ==
    IF cases[k].state \in TerminalStates THEN "none"
    ELSE IF q.event.kind = "succeeded" THEN "resolve"
    ELSE IF TriggerStatus(q, k) = "SUCCEEDED" THEN "none" ELSE "update"

Decided(q, k) ==
    IF Decide(q, k) = "none" THEN [q EXCEPT !.pc = "commit"]
    ELSE [q EXCEPT !.pc = "number", !.plan = Decide(q, k), !.case = k,
                   !.failures = cases[k].failures + 1]

MatchCase(w) ==
    LET q == work[w] IN
    /\ q.pc = "match"
    /\ IF Found(q.event) # {} THEN \E k \in Found(q.event) : Goes(w, Decided(q, k))
       ELSE Goes(w, [q EXCEPT !.pc = IF q.event.kind = "failed" THEN "newCase" ELSE "commit"])

\* Fault: the error of the savepoint is taken for a case of one's own.
InsertCaseUnchecked(w) ==
    LET q == work[w] IN
    /\ q.pc = "newCase"
    /\ Free(w, "case")
    /\ Goes(w, [q EXCEPT !.pc = "commit", !.plan = "create", !.case = q.event.key,
                         !.made = @ \cup {"case"}])

\* A case somebody else has committed meanwhile is updated instead.
InsertCase(w) ==
    LET q == work[w] IN
    /\ q.pc = "newCase"
    /\ Free(w, "case")
    /\ IF q.event.key \in DOMAIN cases THEN Goes(w, Decided(q, q.event.key))
       ELSE Goes(w, [q EXCEPT !.pc = "commit", !.plan = "create", !.case = q.event.key,
                              !.made = @ \cup {"case"}])

\* The next number of the case's log.  Resolving reads that of the transition
\* log before; no commit moves one log past the other in between that would
\* not also refuse this number.
ReadLog(w) ==
    LET q == work[w] IN
    /\ q.pc = "number"
    /\ Goes(w, [q EXCEPT !.pc = "commit", !.number = Len(cases[q.case].log) + 1])

-----------------------------------------------------------------------------
\* The log number is taken: UNIQUE (case_id, sequence_number).
Collides(q) == q.plan \in {"update", "resolve"} /\ Len(cases[q.case].log) >= q.number

\* Fault: a success does not mark a transaction that was there before.
SettledOnInsert(q) == IF "transaction" \in q.made THEN KnownTxs(q.event) ELSE txs

\* The transactions once q is committed.
Settled(q) ==
    IF q.plan = "resolve" THEN With(txs, q.event.ref, "SUCCEEDED")
    ELSE IF "transaction" \in q.made THEN KnownTxs(q.event) ELSE txs

\* The flush of the plan, mark_processed and COMMIT.
Commit(w) ==
    LET q == work[w] IN
    /\ q.pc = "commit"
    /\ ~Collides(q)
    /\ Processed(q.event)
    /\ customer' = (customer \/ "customer" \in q.made)
    /\ txs' = Settled(q)
    /\ cases' = CASE q.plan = "none"    -> cases
                  [] q.plan = "create"  -> Opened(q.event)
                  [] q.plan = "update"  -> Updated(q.event, q.case, q.failures)
                  [] q.plan = "resolve" -> Resolved(q.event, q.case)
    /\ work' = [work EXCEPT ![w] = Idle]
    /\ UNCHANGED crashes

\* An IntegrityError nobody handles.
Fails(w) ==
    \/ work[w].pc = "newCustomer" /\ Free(w, "customer") /\ customer
    \/ work[w].pc = "newTransaction" /\ Free(w, "transaction")
          /\ work[w].event.ref \in DOMAIN txs
    \/ work[w].pc = "commit" /\ Collides(work[w])

RollBack(w) == Fails(w) /\ Goes(w, Idle)

\* The process dies, or the connection: nothing was committed.
Crash(w) ==
    /\ work[w].pc # "idle"
    /\ crashes < MaxCrashes
    /\ crashes' = crashes + 1
    /\ work' = [work EXCEPT ![w] = Idle]
    /\ UNCHANGED storeVars

\* The receipt of the other route, which also waits for one in progress.
OtherReceipt(e) ==
    /\ "receipt" \in Others
    /\ \A w \in Workers : "receipt" \in work[w].made => work[w].event.id # e.id
    /\ ReceiptOnly(e)
    /\ UNCHANGED <<work, crashes>>

OtherStop(k) ==
    /\ "stop" \in Others
    /\ CaseStopped(k)
    /\ UNCHANGED <<work, crashes>>

\* What a worker does on its own once it has a delivery.
Proceeds(w) ==
    \/ RecordReceipt(w) \/ FindCustomer(w) \/ InsertCustomer(w)
    \/ FindTransaction(w) \/ InsertTransaction(w)
    \/ MatchCase(w) \/ InsertCase(w) \/ ReadLog(w)
    \/ Commit(w) \/ RollBack(w)

Next ==
    \/ \E w \in Workers :
          \/ \E e \in Events : Deliver(w, e)
          \/ Proceeds(w)
          \/ Crash(w)
    \/ \E e \in Events : OtherReceipt(e)
    \/ \E k \in DOMAIN cases : OtherStop(k)

\* Providers deliver again until an event is acknowledged, and requests are
\* served: handlers run to their end.
Fairness ==
    /\ \A w \in Workers : WF_vars(Proceeds(w))
    /\ \A e \in Events :
          SF_vars(e.id \notin DOMAIN receipts /\ \E w \in Workers : Deliver(w, e))

Spec == Init /\ [][Next]_vars

FairSpec == Spec /\ Fairness

-----------------------------------------------------------------------------
(* Properties. *)

Deliveries ==
    [pc : {"idle", "receipt", "customer", "newCustomer", "transaction", "newTransaction",
           "match", "newCase", "number", "commit"},
     event : Events, made : SUBSET {"receipt", "customer", "transaction", "case"},
     seen : TxnStatuses \cup {NoState}, plan : Plans, case : Keys \cup {NoOne},
     failures : Nat, number : Nat]

\* Every variable keeps its type, and a case's trigger transaction exists.
TypeOK ==
    /\ DOMAIN receipts \subseteq Ids /\ DOMAIN cases \subseteq Keys
    /\ \A i \in DOMAIN receipts : receipts[i].event \in Events /\ receipts[i].event.id = i
    /\ DOMAIN txs \subseteq Refs /\ txs \in [DOMAIN txs -> TxnStatuses]
    /\ txs # [r \in {} |-> {}] => customer
    /\ \A k \in DOMAIN cases :
          /\ cases[k].state \in {"DETECTED", "RECOVERED", "STOPPED"}
          /\ cases[k].trigger \in DOMAIN txs
          /\ cases[k].failures \in Nat
    /\ work \in [Workers -> Deliveries]
    /\ crashes \in 0..MaxCrashes

\* The rows of the cases' audit logs that name event i.
RowsOf(i) ==
    UNION {{<<k, n>> : n \in {m \in DOMAIN cases[k].log : cases[k].log[m].event = i}} :
              k \in DOMAIN cases}

\* An event takes effect on at most one case and once, however often and on
\* however many workers it is delivered, and whichever of them die.
ExactlyOnce == \A i \in Ids : Cardinality(RowsOf(i)) <= 1

\* A failure that was processed is in the log of a case, unless its case was
\* past recovering or its payment had succeeded: no interleaving of receipt,
\* savepoints and rollbacks acknowledges a failure and drops it.
NoFailureLost ==
    \A i \in DOMAIN receipts :
        LET e == receipts[i].event IN
        receipts[i].processed /\ e.kind = "failed" =>
            \/ RowsOf(i) # {}
            \/ \E k \in DOMAIN cases :
                  /\ k = e.key \/ cases[k].trigger = e.ref
                  /\ cases[k].state \in TerminalStates \/ txs[cases[k].trigger] = "SUCCEEDED"

\* A case is RECOVERED only on a processed success of its key or of its payment,
\* and the payment of that success, not always the one that triggered the
\* case, is known to have succeeded.
RecoveredHasProof ==
    \A k \in DOMAIN cases :
        cases[k].state = "RECOVERED" =>
            \E i \in DOMAIN receipts :
                LET e == receipts[i].event IN
                /\ receipts[i].processed /\ e.kind = "succeeded"
                /\ k = e.key \/ cases[k].trigger = e.ref
                /\ txs[e.ref] = "SUCCEEDED"

\* Workers that open the same case at once do not replace one another's: a
\* case keeps its trigger, and its log only grows.
CasesAreNeverReplaced ==
    [][\A k \in DOMAIN cases :
          /\ k \in DOMAIN cases' /\ cases'[k].trigger = cases[k].trigger
          /\ Len(cases'[k].log) >= Len(cases[k].log)
          /\ SubSeq(cases'[k].log, 1, Len(cases[k].log)) = cases[k].log]_vars

\* Every event is processed in the end, although first deliveries that meet are
\* rolled back and requests may die.
EveryEventIsProcessed ==
    \A e \in Events : <>(e.id \in DOMAIN receipts /\ receipts[e.id].processed)

-----------------------------------------------------------------------------
(* Properties of one delivery at a time. *)

\* Deliveries that are repeated, out of order or cut short leave the database
\* as if each event had been processed in one step, once or not at all.
SerialEventsAreAtomic == EffectsSpec

\* A payment has one case, whatever keys it is reported under; the database does
\* not enforce it, and two workers can open two.
OneCasePerPayment ==
    \A k, l \in DOMAIN cases : cases[k].trigger = cases[l].trigger => k = l

\* The failure_count of a case is the number of failure events it has seen.
FailuresCounted ==
    \A k \in DOMAIN cases :
        cases[k].failures =
            Cardinality({r.event : r \in {cases[k].log[n] : n \in
                {m \in DOMAIN cases[k].log : cases[k].log[m].what \in {"opened", "updated"}}}})

=============================================================================
