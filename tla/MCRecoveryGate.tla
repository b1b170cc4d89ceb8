--------------------------- MODULE MCRecoveryGate ---------------------------
(***************************************************************************)
(* Model checking of RecoveryGate: profiles of cases on both sides of the  *)
(* thresholds, and the consents the properties tell apart.                 *)
(***************************************************************************)
EXTENDS RecoveryGate, TLC

Symmetry == Permutations(Sessions)

Consent(type, merchant, expires) ==
    [type |-> type, status |-> "GRANTED", merchant |-> merchant, expires |-> expires]

Revoked(type) == [Consent(type, "m1", NoTime) EXCEPT !.status = "REVOKED"]

Profile(code, text, amount, rate, given) ==
    [context |-> [text |-> text, amount |-> amount, attempts |-> 0, velocity |-> FALSE,
                  restricted |-> FALSE, subscription |-> FALSE, rate |-> rate,
                  alternate |-> TRUE],
     txn |-> [code |-> code, amount |-> amount, currency |-> "INR"],
     merchant |-> "m1", contact |-> TRUE, consents |-> given]

\* A customer who nearly always pays, with too little on the account, and who
\* has agreed to retries again, or to reminders alone.
Reliable == Profile("insufficient_funds", {"insufficient_funds"}, 50000, 90,
                    <<Revoked("RECURRING_BILLING"),
                      Consent("RECURRING_BILLING", "m1", 3)>>)
Reminded == [Reliable EXCEPT !.consents = <<Revoked("COMMUNICATION_EMAIL"),
                                            Consent("COMMUNICATION_EMAIL", NoMerchant, 2)>>]

\* On the other side of the confidence, with consent to another merchant; of
\* the high value; and of the retryable failures.
Average == Profile("insufficient_funds", {"insufficient_funds"}, 50000, 50,
                   <<Consent("RECURRING_BILLING", "m2", NoTime)>>)
HighValue == Profile("timeout", {"timeout"}, 100000, 100, <<Revoked("RECURRING_BILLING")>>)
Stolen == Profile("stolen_card", {"stolen_card"}, 50000, 100, <<Revoked("RECURRING_BILLING")>>)

\* A failure that is answered with a reminder, which the customer has agreed to.
Expired == Profile("expired_card", {"expired_card"}, 50000, 100,
                   <<Consent("COMMUNICATION_EMAIL", NoMerchant, NoTime)>>)

RetryOrReminder == {Reliable, Expired}
AllProfiles == {Reliable, Reminded, Average, HighValue, Stolen}

Unlimited == {<<"RECURRING_BILLING", "GRANTED", NoMerchant, NoTime>>}
Expiring == {<<"RECURRING_BILLING", "GRANTED", "m1", 3>>}
=============================================================================
