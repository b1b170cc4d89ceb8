----------------------------- MODULE EventIntake -----------------------------
(***************************************************************************)
(* From the requests that deliver events to the events EventIngestion      *)
(* processes: what EventNormalizer makes of the three shapes of webhooks,  *)
(* of requests in the program's own form and of simulated failures, what   *)
(* EventValidator refuses, and the references and keys EventToCaseEngine   *)
(* derives.  No variables: a refused request changes nothing.              *)
(*                                                                         *)
(* A delivery d has the fields                                             *)
(*   shape     "stripe", "razorpay", "generic", "own" or "simulated"       *)
(*   route     "provider" or "razorpay", for a webhook                     *)
(*   agent     does the user agent name Razorpay?                          *)
(*   payload   has the body a field "payload", as Razorpay's always has?   *)
(*   signed    is its signature right, or is no secret configured?         *)
(*   provider  the provider the request names; for a webhook, "synthetic"  *)
(*             if that word is in it                                       *)
(*   header, id    the identifiers that come with the request and in it    *)
(*   type, code              the event type and the failure code as given  *)
(*   payment, subscription, invoice, checkout   the references given       *)
(*   month, period           when it occurred; the billing_period given    *)
(*   named     does the metadata name the checkout or the invoice?         *)
(*   sound     is it not from the future, and within the lengths, amounts  *)
(*             and currencies that are accepted?                           *)
(* A reference or a code that is not given is Absent.                      *)
(***************************************************************************)
EXTENDS Sequences

Absent == ""

\* The first of the values that is given; Absent if none is.
FirstOf(values) ==
    LET given == SelectSeq(values, LAMBDA v : v # Absent)
    IN  IF given = <<>> THEN Absent ELSE Head(given)

-----------------------------------------------------------------------------
(* The routes. *)

IsWebhook(d) == d.shape \in {"stripe", "razorpay", "generic"}

\* Webhooks are admitted by their signature, the other requests by a role.
IsAdmitted(d) == IsWebhook(d) => d.signed

\* The provider of an event: one route is Razorpay's, the other goes by the user
\* agent and a field of the body, whatever shape the body has, and takes what it
\* cannot tell for Stripe's.
Provider(d) ==
    CASE d.shape = "own" -> d.provider
      [] d.shape = "simulated" -> "synthetic"
      [] IsWebhook(d) ->
            IF d.route = "razorpay" \/ d.agent \/ d.payload THEN "razorpay"
            ELSE IF d.provider = "synthetic" THEN "synthetic" ELSE "stripe"

-----------------------------------------------------------------------------
(* EventNormalizer. *)

\* EVENT_TYPE_MAPPING, and for each canonical type another spelling that the
\* conversion to upper case with underscores turns into its name.
TypesOf ==
    [PAYMENT_FAILED |-> {"payment_intent.payment_failed", "payment.failed", "charge.failed",
                         "payment_failed", "PAYMENT_FAILED", "Payment.Failed"},
     PAYMENT_SUCCEEDED |-> {"payment_intent.succeeded", "payment.captured", "charge.succeeded",
                            "payment_succeeded", "PAYMENT_SUCCEEDED", "payment.succeeded"},
     SUBSCRIPTION_PAYMENT_FAILED |-> {"invoice.payment_failed", "subscription.payment_failed",
                                      "subscription_payment_failed", "SUBSCRIPTION_PAYMENT_FAILED"},
     CHECKOUT_ABANDONED |-> {"checkout.session.expired", "checkout_abandoned",
                             "CHECKOUT_ABANDONED", "checkout.abandoned"},
     INVOICE_OVERDUE |-> {"invoice.marked_uncollectible", "invoice.overdue", "invoice_overdue",
                          "INVOICE_OVERDUE"}]

CanonicalTypes == DOMAIN TypesOf

\* normalize_event_type; a type with another name keeps it, and is not supported.
CanonicalType(t) ==
    IF \E k \in CanonicalTypes : t \in TypesOf[k]
    THEN CHOOSE k \in CanonicalTypes : t \in TypesOf[k]
    ELSE "unsupported"

\* A webhook without a type reports a failure, and so does every simulation.
TypeGiven(d) ==
    IF d.shape = "simulated" \/ (d.shape # "own" /\ d.type = Absent) THEN "PAYMENT_FAILED"
    ELSE CanonicalType(d.type)

\* The identifier of the event: Stripe's own comes before that of the request, for
\* the others it is the reverse.  Without one every delivery is a new event.
Identifier(d, fresh) ==
    CASE d.shape = "stripe" -> FirstOf(<<d.id, d.header, fresh>>)
      [] d.shape \in {"razorpay", "generic"} -> FirstOf(<<d.header, d.id, fresh>>)
      [] d.shape = "own" -> FirstOf(<<d.id, fresh>>)
      [] d.shape = "simulated" -> fresh

\* The payment: Stripe's and Razorpay's have a name even when none is given.
PaymentReference(d, fresh) ==
    CASE d.shape = "stripe" -> FirstOf(<<d.payment, "txn_unknown">>)
      [] d.shape = "razorpay" -> FirstOf(<<d.payment, "pay_unknown">>)
      [] d.shape \in {"generic", "own"} -> d.payment
      [] d.shape = "simulated" -> fresh

\* normalize_failure_code: only a request in the program's own form can lack one.
FailureCode(d) == IF d.shape = "own" THEN d.code ELSE FirstOf(<<d.code, "unknown">>)

\* The canonical event.  Of the metadata of Stripe's and Razorpay's bodies a
\* status or a method is kept, no billing period and no name.
Canonical(d, fresh) ==
    LET keeps == d.shape \in {"generic", "own", "simulated"} IN
    [provider |-> Provider(d),
     id |-> Identifier(d, fresh),
     type |-> TypeGiven(d),
     payment |-> PaymentReference(d, fresh),
     subscription |-> IF d.shape = "simulated" THEN Absent ELSE d.subscription,
     invoice |-> IF d.shape = "simulated" THEN Absent ELSE d.invoice,
     checkout |-> IF d.shape = "simulated" THEN Absent ELSE d.checkout,
     code |-> FailureCode(d),
     period |-> IF keeps THEN FirstOf(<<d.period, d.month>>) ELSE d.month,
     named |-> keeps /\ d.named,
     sound |-> d.sound]

-----------------------------------------------------------------------------
\* EventValidator.validate, for a canonical event.
IsValidEvent(c) ==
    /\ c.type \in CanonicalTypes /\ c.sound
    /\ c.type \in {"PAYMENT_FAILED", "PAYMENT_SUCCEEDED"} => c.payment # Absent
    /\ c.type \in {"PAYMENT_FAILED", "SUBSCRIPTION_PAYMENT_FAILED"} => c.code # Absent
    /\ c.type = "SUBSCRIPTION_PAYMENT_FAILED" => c.subscription # Absent \/ c.payment # Absent
    /\ c.type = "CHECKOUT_ABANDONED" => c.checkout # Absent \/ c.named
    /\ c.type = "INVOICE_OVERDUE" => c.invoice # Absent \/ c.named

-----------------------------------------------------------------------------
(* EventToCaseEngine. *)

\* derive_case_key.
CaseKey(c) ==
    CASE c.subscription # Absent -> <<"SUB", c.subscription, c.period>>
      [] c.subscription = Absent /\ c.invoice # Absent -> <<"INV", c.invoice>>
      [] c.subscription = Absent /\ c.invoice = Absent /\ c.checkout # Absent ->
            <<"CHK", c.checkout>>
      [] OTHER -> IF c.payment # Absent THEN <<"TX", c.provider, c.payment>>
                  ELSE <<"EVT", c.provider, c.id>>

\* The reference _get_or_create_transaction looks for.
TransactionReference(c) == <<c.provider, FirstOf(<<c.payment, c.invoice, c.checkout, c.id>>)>>

\* What tells events apart for the receipts, the transactions and the cases.
Ingested(c) ==
    [id |-> <<c.provider, c.id>>,
     kind |-> IF c.type = "PAYMENT_SUCCEEDED" THEN "succeeded" ELSE "failed",
     ref |-> TransactionReference(c),
     key |-> CaseKey(c)]

\* The events of a set of deliveries, each delivered as often as there are new
\* identifiers.
EventsOf(deliveries, identifiers) ==
    LET admitted == {d \in deliveries : IsAdmitted(d)}
        events == {Canonical(d, fresh) : d \in admitted, fresh \in identifiers}
    IN  {Ingested(c) : c \in {e \in events : IsValidEvent(e)}}
=============================================================================
