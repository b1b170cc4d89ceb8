-------------------------- MODULE MCEventIngestion --------------------------
(***************************************************************************)
(* Model checking of EventIngestion: deliveries whose events differ in     *)
(* what they share, identifier, payment or case key.                       *)
(***************************************************************************)
EXTENDS EventIngestion, EventIntake

\* A webhook of Razorpay's, with its identifier in the header.
Webhook(id, type, payment, subscription, month) ==
    [shape |-> "razorpay", route |-> "razorpay", agent |-> TRUE, payload |-> TRUE, signed |-> TRUE,
     provider |-> Absent, header |-> id, id |-> Absent,
     type |-> type, code |-> Absent, payment |-> payment, subscription |-> subscription,
     invoice |-> Absent, checkout |-> Absent, month |-> month, period |-> Absent,
     named |-> FALSE, sound |-> TRUE]

\* A request in the program's own form.
Direct(id, type, payment, subscription, period) ==
    [Webhook(id, type, payment, subscription, "m9") EXCEPT
        !.shape = "own", !.provider = "razorpay", !.header = Absent, !.id = id,
        !.code = "card_declined", !.period = period]

\* Deliveries that are refused: of another type, without a checkout, without a
\* code, unsigned.
Refused ==
    {Webhook("e9", "order.paid", "p1", "s1", "m1"),
     Direct("e8", "checkout_abandoned", "p1", Absent, Absent),
     [Direct("e7", "PAYMENT_FAILED", "p1", "s1", "m1") EXCEPT !.code = Absent],
     [Webhook("e6", "payment.failed", "p1", "s1", "m1") EXCEPT !.signed = FALSE]}

\* Payments that share keys and keys that share payments, one identifier used for
\* two contents, failures without identifier or payment, and what is refused.
\* Webhooks that name no payment are about one and the same.
Mixed ==
    EventsOf({Webhook("e1", "payment.failed", Absent, "s1", "m1"),
              Webhook(Absent, "invoice.payment_failed", Absent, "s1", "m2"),
              Webhook("e3", "payment.captured", Absent, "s1", "m1"),
              [Webhook("e3", "payment.captured", Absent, "s1", "m1") EXCEPT !.route = "provider"],
              Direct("e4", "payment.succeeded", "p2", "s1", "m1"),
              Webhook("e1", "payment.failed", "p2", "s1", "m2")} \cup Refused, {"u1"})

\* What concurrent deliveries contend for: an identifier, two payments, two keys.
Contended ==
    EventsOf({Webhook("e1", "payment.failed", "p1", "s1", "m1"),
              Direct("e2", "Payment.Failed", "p1", "s1", "m2"),
              Webhook("e1", "payment.failed", "p2", "s1", "m2"),
              Direct("e4", "charge.succeeded", "p2", "s1", "m1")}, {"u1"})

=============================================================================
