---------------------------- MODULE EventEffects ----------------------------
(***************************************************************************)
(* What ingestion promises about the events of payment providers, seen     *)
(* from outside: each event takes effect at most once and in one step, on  *)
(* the receipts, the transactions and the recovery cases, however often    *)
(* and in whatever order it is delivered.                                  *)
(*                                                                         *)
(* The variables are what is committed in the database.  EventIngestion    *)
(* adds the workers that process deliveries statement by statement, and    *)
(* implements this module when there is one worker.                        *)
(***************************************************************************)
EXTENDS CaseLifecycle, Naturals, Sequences, FiniteSets

(* An event as EventIntake makes it of a delivery: its provider and the    *)
(* identifier there, a kind, the reference of its payment, and its case    *)
(* key.  Payments of one subscription period share a key, and one payment  *)
(* may be reported under two.  What intake refuses is no event.            *)
CONSTANT Events

Kinds == {"failed", "succeeded"}

\* In the place of an event, or of a case key, where there is none.
NoOne == <<>>

\* Identifiers are pairs of a provider and a name.
ASSUME EventsAssumption ==
    /\ IsFiniteSet(Events) /\ Events # {}
    /\ \A e \in Events :
          DOMAIN e = {"id", "kind", "ref", "key"} /\ e.kind \in Kinds /\ e.id # NoOne

Ids  == {e.id : e \in Events}
Refs == {e.ref : e \in Events}
Keys == {e.key : e \in Events}

VARIABLES
    receipts,  \* provider_webhook_events: by identifier, the event and processed?
    customer,  \* does the customer row exist?
    txs,       \* transactions: status, by payment reference
    cases      \* recovery_cases by key, with failure_count and audit log

storeVars == <<receipts, customer, txs, cases>>

\* f with x mapped to y.
With(f, x, y) == [z \in DOMAIN f \cup {x} |-> IF z = x THEN y ELSE f[z]]

EffectsInit ==
    /\ receipts = [i \in {} |-> {}]
    /\ customer \in BOOLEAN
    /\ \E known \in SUBSET Refs :
          /\ known # {} => customer
          /\ txs \in [known -> TxnStatuses]
    /\ cases = [k \in {} |-> {}]

-----------------------------------------------------------------------------
\* _get_or_create_transaction: a new transaction has the status of its event.
KnownTxs(e) ==
    IF e.ref \in DOMAIN txs THEN txs
    ELSE With(txs, e.ref, IF e.kind = "succeeded" THEN "SUCCEEDED" ELSE "FAILED")

\* Fault: the case is not looked up by the payment that triggered it.
FoundByKey(e) == {e.key} \cap DOMAIN cases

\* The case of an event: the one with its key, else one its payment triggered.
Found(e) ==
    IF e.key \in DOMAIN cases THEN {e.key}
    ELSE {k \in DOMAIN cases : cases[k].trigger = e.ref}

\* An audit event, as far as it names its source.
Row(e, what) == [event |-> e.id, what |-> what]

\* _create_new_case.
Opened(e) == With(cases, e.key, [state |-> "DETECTED", trigger |-> e.ref, failures |-> 1,
                                 log |-> <<Row(e, "opened")>>])

\* _handle_existing_case_update: priority and metadata, not the state.
Updated(e, k, failures) ==
    [cases EXCEPT ![k].failures = failures, ![k].log = Append(@, Row(e, "updated"))]

\* _handle_payment_succeeded.
Resolved(e, k) ==
    [cases EXCEPT ![k].state = "RECOVERED", ![k].log = Append(@, Row(e, "resolved"))]

-----------------------------------------------------------------------------
\* Fault: mark_processed is forgotten.
ProcessedUnmarked(e) == receipts' = With(receipts, e.id, [event |-> e, processed |-> FALSE])

Processed(e) == receipts' = With(receipts, e.id, [event |-> e, processed |-> TRUE])

\* An event without effect on a case: it reports a success and there is no
\* case, its case is terminal, or it reports the failure of a case whose
\* payment is known to have succeeded.
EventAcknowledged(e) ==
    /\ \/ e.kind = "succeeded" /\ Found(e) = {}
       \/ \E k \in Found(e) :
             \/ cases[k].state \in TerminalStates
             \/ e.kind = "failed" /\ KnownTxs(e)[cases[k].trigger] = "SUCCEEDED"
    /\ Processed(e)
    /\ customer' = TRUE
    /\ txs' = KnownTxs(e)
    /\ UNCHANGED cases

CaseOpened(e) ==
    /\ e.kind = "failed" /\ Found(e) = {}
    /\ Processed(e)
    /\ customer' = TRUE
    /\ txs' = KnownTxs(e)
    /\ cases' = Opened(e)

FailureCounted(e) ==
    /\ e.kind = "failed"
    /\ \E k \in Found(e) :
          /\ cases[k].state \notin TerminalStates
          /\ KnownTxs(e)[cases[k].trigger] # "SUCCEEDED"
          /\ cases' = Updated(e, k, cases[k].failures + 1)
    /\ Processed(e)
    /\ customer' = TRUE
    /\ txs' = KnownTxs(e)

\* The transaction that is marked is the one of the event.
CaseResolved(e) ==
    /\ e.kind = "succeeded"
    /\ \E k \in Found(e) :
          /\ cases[k].state \notin TerminalStates
          /\ cases' = Resolved(e, k)
    /\ Processed(e)
    /\ customer' = TRUE
    /\ txs' = With(txs, e.ref, "SUCCEEDED")

\* POST /webhooks/provider of the intelligence routes: a receipt, and nothing
\* that would process it.
ReceiptOnly(e) ==
    /\ e.id[1] = "razorpay" /\ e.id \notin DOMAIN receipts
    /\ receipts' = With(receipts, e.id, [event |-> e, processed |-> FALSE])
    /\ UNCHANGED <<customer, txs, cases>>

\* The rest of the program stops a case.
CaseStopped(k) ==
    /\ cases[k].state \notin TerminalStates
    /\ cases' = [cases EXCEPT ![k].state = "STOPPED",
                              ![k].log = Append(@, [event |-> NoOne, what |-> "moved"])]
    /\ UNCHANGED <<receipts, customer, txs>>

EventTakesEffect(e) ==
    /\ e.id \notin DOMAIN receipts
    /\ \/ EventAcknowledged(e)
       \/ CaseOpened(e) \/ FailureCounted(e) \/ CaseResolved(e)

EffectsNext ==
    \/ \E e \in Events : EventTakesEffect(e) \/ ReceiptOnly(e)
    \/ \E k \in DOMAIN cases : CaseStopped(k)

EffectsSpec == EffectsInit /\ [][EffectsNext]_storeVars
=============================================================================
