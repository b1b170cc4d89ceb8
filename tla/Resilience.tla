----------------------------- MODULE Resilience -----------------------------
(***************************************************************************)
(* A controlled call through ResilientExecutor and the retries that        *)
(* ResiliencePolicy schedules.  The executor runs the operation in a       *)
(* thread of its own and waits for it with a timeout; when the time is up  *)
(* the operation is not stopped, and leaving the pool waits for its end.   *)
(* Whether the operation has done its work by then is not known to the     *)
(* caller, who acts on the classification alone: it calls again when a     *)
(* retry is scheduled and the delay has passed, and stops otherwise.       *)
(***************************************************************************)
EXTENDS Integers, Sequences, FiniteSets

CONSTANTS
    Budgets,      \* values of max_attempts
    Bases, Caps   \* values of base_delay_seconds and max_delay_seconds

ASSUME ResilienceAssumption ==
    Budgets \subseteq Nat \ {0} /\ Bases \subseteq Nat /\ Caps \subseteq Nat

VARIABLES
    max, base, cap,   \* the ResiliencePolicy
    attempt,          \* attempt_number of the latest call of run; 0 before it
    late,             \* has the timeout of that call passed?
    workers,          \* operations at work: the attempts they belong to
    ended,            \* how the operation of the latest call ended
    effects,          \* attempts whose work has been done
    result,           \* what the latest call returned
    past              \* history: the results that were followed by another call

policy == <<max, base, cap>>
vars == <<max, base, cap, attempt, late, workers, ended, effects, result, past>>

\* A value, a value the caller cannot judge, and exceptions by class: a timeout
\* of the operation's own, ConnectionError, ValueError, any other.
Endings == {"value", "unclear", "own_timeout", "connection", "value_error", "other"}

Least(m, n) == IF m < n THEN m ELSE n

\* What run returns: a classification, with the schedule if there is one.
Scheduled(kind, disposition, next, delay) ==
    [kind |-> kind, disposition |-> disposition, next |-> next, delay |-> delay]
Result(kind, disposition) == Scheduled(kind, disposition, 0, 0)

Init ==
    /\ max \in Budgets /\ base \in Bases /\ cap \in Caps
    /\ attempt = 0 /\ late = FALSE /\ workers = {} /\ ended = "none"
    /\ effects = {} /\ result = Result("none", "NONE") /\ past = <<>>

-----------------------------------------------------------------------------
(* ResiliencePolicy.classify. *)

Transient == {"TIMEOUT", "TRANSIENT_API", "UNKNOWN"}

\* Fault: the delay doubles without an end.
BackoffUncapped(n) == base * 2^(IF n > 1 THEN n - 1 ELSE 0)

\* The delay after attempt n.
Backoff(n) == Least(base * 2^(IF n > 1 THEN n - 1 ELSE 0), cap)

\* An attempt the budget allows no successor escalates like a permanent failure.
Classify(kind, n) ==
    IF kind \in Transient /\ n < max THEN Scheduled(kind, "RETRY", n + 1, Backoff(n))
    ELSE IF kind = "UNCERTAIN_OUTCOME" THEN Result(kind, "VERIFY")
    ELSE IF kind = "DUPLICATE_REQUEST" THEN Result(kind, "STOP")
    ELSE Result(kind, "ESCALATE")

-----------------------------------------------------------------------------
(* ResilientExecutor.run. *)

\* The builtin TimeoutError is the one future.result raises, so an operation's
\* own timeout is caught by the first clause too.
FailureKind ==
    CASE late \/ ended = "own_timeout" -> "TIMEOUT"
      [] ~late /\ ended = "connection" -> "TRANSIENT_API"
      [] ~late /\ ended = "value_error" -> "PERMANENT_API"
      [] ~late /\ ended = "other" -> "UNKNOWN"
      [] ~late /\ ended = "unclear" -> "UNCERTAIN_OUTCOME"
      [] ~late /\ ended = "value" -> "none"

\* Fault: the call returns when the time is up.
PoolLeftAtOnce == ended # "none" \/ late

\* Leaving the pool waits for its threads.
PoolLeft == ended # "none"

\* A call submits the operation to a pool of its own.
Submit(n) ==
    /\ attempt' = n /\ late' = FALSE /\ ended' = "none" /\ result' = Result("none", "NONE")
    /\ workers' = workers \cup {n}
    /\ UNCHANGED <<policy, effects>>

FirstCall == attempt = 0 /\ Submit(1) /\ UNCHANGED past

\* The work is done at the other side, before the operation ends.
TakeEffect(n) ==
    /\ n \in workers \ effects
    /\ effects' = effects \cup {n}
    /\ UNCHANGED <<policy, attempt, late, workers, ended, result, past>>

\* The operation ends: with a value when its work is done, by a ValueError when
\* the other side has refused it, by another exception with or without it.
EndWork(n) ==
    /\ n \in workers
    /\ \E e \in Endings :
          /\ e = "value" => n \in effects
          /\ e = "value_error" => n \notin effects
          /\ ended' = IF n = attempt THEN e ELSE ended
    /\ workers' = workers \ {n}
    /\ UNCHANGED <<policy, attempt, late, effects, result, past>>

TimeOut ==
    /\ attempt \in workers /\ ~late /\ late' = TRUE
    /\ UNCHANGED <<policy, attempt, workers, ended, effects, result, past>>

\* run returns; for a value it cannot judge the caller asks `uncertain`.
Return ==
    /\ attempt > 0 /\ result.kind = "none" /\ PoolLeft
    /\ result' = IF FailureKind = "none" THEN Result("value", "NONE")
                 ELSE Classify(FailureKind, attempt)
    /\ UNCHANGED <<policy, attempt, late, workers, ended, effects, past>>

\* The delay of the schedule has passed, and the caller runs the attempt it names.
CallAgain ==
    /\ result.disposition = "RETRY"
    /\ Submit(result.next)
    /\ past' = Append(past, result)

Next ==
    \/ FirstCall \/ TimeOut \/ Return \/ CallAgain
    \/ \E n \in workers : TakeEffect(n) \/ EndWork(n)

Spec == Init /\ [][Next]_vars

-----------------------------------------------------------------------------
(* Properties. *)

\* No two attempts of an operation are at work at once, and none is at work when
\* its call has returned: the timeout says that an answer is late, and does not
\* let the caller go on before the operation has ended.
AttemptsDoNotOverlap ==
    Cardinality(workers) <= 1 /\ (result.kind # "none" => workers = {})

\* The work is done at most once for every call, and there are no more calls
\* than the budget allows.
WithinBudget == Cardinality(effects) <= attempt /\ attempt <= max

\* Work is done again only within the budget and only after attempts that gave no
\* judgement, their time being up or the connection or the code having failed; and
\* the pause before a repetition never shrinks and never exceeds the cap.
RepeatsAreSpaced ==
    /\ WithinBudget
    /\ \A i \in 1..Len(past) :
          /\ past[i].kind \in Transient /\ past[i].delay <= cap
          /\ i > 1 => past[i - 1].delay <= past[i].delay
=============================================================================
