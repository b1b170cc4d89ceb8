-------------------------- MODULE ResilienceProofs --------------------------
(***************************************************************************)
(* The calls of one operation through ResilientExecutor never overlap and  *)
(* keep within the budget, and the pauses between them grow up to the cap, *)
(* whatever the policy's budget and delays are and however late an         *)
(* operation ends.                                                         *)
(***************************************************************************)
EXTENDS Resilience, FiniteSetTheorems, TLAPS

NothingYet == Result("none", "NONE")

\* Only the latest attempt can be at work, and it is not when it has ended or
\* its call has returned.  Return waits for the end and not for the timeout:
\* that is what lets the caller go on.
AtWork ==
    /\ workers \subseteq {attempt}
    /\ attempt = 0 => workers = {}
    /\ ended # "none" => workers = {}
    /\ result # NothingYet => workers = {}

\* Attempts are counted up to the budget, and a schedule names the next one.
Counted ==
    /\ max \in Nat \ {0} /\ attempt \in 0..max
    /\ result.disposition = "RETRY" => result.next = attempt + 1 /\ attempt < max

\* The work of an attempt is done while it is at work, so after its call began.
EffectsKnown == effects \subseteq 1..attempt

IInv == AtWork /\ Counted /\ EffectsKnown

\* ResiliencePolicy.classify: a retry is scheduled under the next number, and
\* only where the budget has room for it.
LEMMA NextAttempt ==
    ASSUME NEW kind, NEW n \in Nat, Classify(kind, n).disposition = "RETRY"
    PROVE  Classify(kind, n).next = n + 1 /\ n < max
BY DEF Classify, Result, Scheduled

\* ResilientExecutor.run: what a call that has not returned has for a result
\* schedules nothing.
LEMMA RetryIsResult ==
    ASSUME result.disposition = "RETRY"
    PROVE  result # NothingYet
BY DEF NothingYet, Result, Scheduled

\* ResilientExecutor.run: submitting the next attempt when none is at work.
LEMMA SubmitKeeps ==
    ASSUME IInv, workers = {}, attempt < max, Submit(attempt + 1)
    PROVE  IInv'
<1>1. attempt \in Nat /\ max \in Nat
  BY DEF IInv, Counted
<1>2. AtWork'
  BY <1>1 DEF Submit, AtWork, NothingYet
<1>3. Counted'
  BY <1>1 DEF Submit, Counted, IInv, Result, Scheduled, policy
<1>4. EffectsKnown'
  BY <1>1 DEF Submit, EffectsKnown, IInv
<1>5. QED
  BY <1>2, <1>3, <1>4 DEF IInv

\* ResilientExecutor.run and ResiliencePolicy.classify: every step keeps the
\* invariant.
LEMMA StepKeeps == IInv /\ [Next]_vars => IInv'
<1> SUFFICES ASSUME IInv, [Next]_vars PROVE IInv'
  OBVIOUS
<1> USE DEF IInv
<1>1. CASE FirstCall
  <2>1. attempt = 0 /\ workers = {} /\ attempt < max /\ Submit(attempt + 1)
    BY <1>1 DEF FirstCall, AtWork, Counted
  <2>2. QED
    BY <2>1, SubmitKeeps
<1>2. CASE TimeOut
  BY <1>2 DEF TimeOut, AtWork, Counted, EffectsKnown, policy
<1>3. CASE Return
  <2>1. AtWork'
    BY <1>3 DEF Return, PoolLeft, AtWork
  <2>2. Counted'
    <3>1. CASE FailureKind = "none"
      BY <1>3, <3>1 DEF Return, Counted, Result, Scheduled, policy
    <3>2. CASE FailureKind # "none"
      <4>1. result' = Classify(FailureKind, attempt) /\ attempt \in Nat
        BY <1>3, <3>2 DEF Return, Counted
      <4>2. result'.disposition = "RETRY" => result'.next = attempt + 1 /\ attempt < max
        BY <4>1, NextAttempt
      <4>3. QED
        BY <1>3, <4>2 DEF Return, Counted, policy
    <3>3. QED
      BY <3>1, <3>2
  <2>3. EffectsKnown'
    BY <1>3 DEF Return, EffectsKnown
  <2>4. QED
    BY <2>1, <2>2, <2>3
<1>4. CASE CallAgain
  <2>1. workers = {} /\ attempt < max /\ Submit(attempt + 1)
    BY <1>4, RetryIsResult DEF CallAgain, AtWork, Counted
  <2>2. QED
    BY <2>1, SubmitKeeps
<1>5. ASSUME NEW n \in workers, TakeEffect(n)
      PROVE  IInv'
  <2>1. n = attempt /\ attempt \in 1..attempt
    BY <1>5 DEF AtWork, Counted
  <2>2. EffectsKnown'
    BY <1>5, <2>1 DEF TakeEffect, EffectsKnown
  <2>3. QED
    BY <1>5, <2>2 DEF TakeEffect, AtWork, Counted, policy
<1>6. ASSUME NEW n \in workers, EndWork(n)
      PROVE  IInv'
  <2>1. AtWork'
    BY <1>6 DEF EndWork, AtWork
  <2>2. QED
    BY <1>6, <2>1 DEF EndWork, Counted, EffectsKnown, policy
<1>7. CASE UNCHANGED vars
  BY <1>7 DEF vars, AtWork, Counted, EffectsKnown
<1>8. QED
  BY <1>1, <1>2, <1>3, <1>4, <1>5, <1>6, <1>7 DEF Next

\* Resilience: the invariant holds of every behaviour.
LEMMA InvariantHolds == Spec => []IInv
<1>1. Init => IInv
  BY ResilienceAssumption
     DEF Init, IInv, AtWork, Counted, EffectsKnown, NothingYet, Result, Scheduled
<1>2. QED
  BY <1>1, StepKeeps, PTL DEF Spec

\* ResilientExecutor.run: no two attempts of an operation are at work at once,
\* and none is when its call has returned.
THEOREM NoOverlap == Spec => []AttemptsDoNotOverlap
<1>1. IInv => AttemptsDoNotOverlap
  <2> SUFFICES ASSUME IInv PROVE AttemptsDoNotOverlap
    OBVIOUS
  <2>1. workers = {} \/ workers = {attempt}
    BY DEF IInv, AtWork
  <2>2. Cardinality(workers) <= 1
    <3>1. CASE workers = {}
      <4>1. Cardinality(workers) = 0
        BY <3>1, FS_EmptySet
      <4>2. QED
        BY <4>1
    <3>2. CASE workers = {attempt}
      <4>1. Cardinality(workers) = 1
        BY <3>2, FS_Singleton
      <4>2. QED
        BY <4>1
    <3>3. QED
      BY <2>1, <3>1, <3>2
  <2>3. result.kind # "none" => workers = {}
    BY DEF IInv, AtWork, NothingYet, Result, Scheduled
  <2>4. QED
    BY <2>2, <2>3 DEF AttemptsDoNotOverlap
<1>2. QED
  BY <1>1, InvariantHolds, PTL

\* ResilientExecutor.run and ResiliencePolicy.classify: an operation does its
\* work at most once for every call, and at most max_attempts times.
THEOREM BudgetKept == Spec => []WithinBudget
<1>1. IInv => WithinBudget
  <2> SUFFICES ASSUME IInv PROVE WithinBudget
    OBVIOUS
  <2>1. attempt \in Nat /\ attempt <= max
    BY DEF IInv, Counted
  <2>2. IsFiniteSet(1..attempt) /\ Cardinality(1..attempt) = attempt
    BY <2>1, FS_Interval
  <2>3. Cardinality(effects) <= Cardinality(1..attempt)
    BY <2>2, FS_Subset DEF IInv, EffectsKnown
  <2>4. QED
    BY <2>1, <2>2, <2>3 DEF WithinBudget
<1>2. QED
  BY <1>1, InvariantHolds, PTL

-----------------------------------------------------------------------------
(* The pauses between the calls. *)

\* ResiliencePolicy.classify: powers of two grow, being the numbers of subsets of
\* growing sets.
LEMMA PowersGrow ==
    ASSUME NEW m \in Nat, NEW n \in Nat, m <= n
    PROVE  2^m \in Nat /\ 2^n \in Nat /\ 2^m <= 2^n
<1> DEFINE M == SUBSET (1..m)
           N == SUBSET (1..n)
<1>1. /\ IsFiniteSet(1..m) /\ Cardinality(1..m) = m
      /\ IsFiniteSet(1..n) /\ Cardinality(1..n) = n
  BY FS_Interval
<1>2. /\ IsFiniteSet(M) /\ Cardinality(M) = 2^m
      /\ IsFiniteSet(N) /\ Cardinality(N) = 2^n
  BY <1>1, FS_SUBSET
<1>3. M \subseteq N
  OBVIOUS
<1>4. Cardinality(M) \in Nat /\ Cardinality(N) \in Nat /\ Cardinality(M) <= Cardinality(N)
  BY <1>2, <1>3, FS_Subset, FS_CardinalityType
<1>5. QED
  BY <1>2, <1>4

\* A longer pause remains longer when the base multiplies it.
LEMMA ProductsGrow ==
    ASSUME NEW b \in Nat, NEW x \in Nat, NEW y \in Nat, x <= y
    PROVE  b * x \in Nat /\ b * y \in Nat /\ b * x <= b * y
OBVIOUS

\* ResiliencePolicy.classify: the delay after a later attempt is no shorter, and
\* none is longer than the cap.
LEMMA BackoffGrows ==
    ASSUME base \in Nat, cap \in Nat, NEW m \in Nat \ {0}, NEW n \in Nat, m <= n
    PROVE  /\ Backoff(m) \in Nat /\ Backoff(m) <= cap
           /\ Backoff(m) <= Backoff(n)
<1> DEFINE e(k) == IF k > 1 THEN k - 1 ELSE 0
           x == base * 2^e(m)
           y == base * 2^e(n)
<1>1. e(m) \in Nat /\ e(n) \in Nat /\ e(m) <= e(n)
  OBVIOUS
<1>2. 2^e(m) \in Nat /\ 2^e(n) \in Nat /\ 2^e(m) <= 2^e(n)
  <2> HIDE DEF e
  <2>1. QED
    BY <1>1, PowersGrow
<1>3. x \in Nat /\ y \in Nat /\ x <= y
  <2> DEFINE a == 2^e(m)
             b == 2^e(n)
  <2>1. a \in Nat /\ b \in Nat /\ a <= b
    BY <1>2
  <2> HIDE DEF a, b
  <2>2. base * a \in Nat /\ base * b \in Nat /\ base * a <= base * b
    BY <2>1, ProductsGrow
  <2>3. QED
    BY <2>2 DEF a, b
<1>4. Backoff(m) = Least(x, cap) /\ Backoff(n) = Least(y, cap)
  BY Zenon DEF Backoff
<1> HIDE DEF x, y
<1>5. QED
  BY <1>3, <1>4 DEF Least

\* What a call returns, and a schedule: a failure without judgement and the delay
\* after attempt n.
FailureKinds == Transient \cup {"PERMANENT_API", "UNCERTAIN_OUTCOME"}

Results ==
    [kind : FailureKinds \cup {"none", "value"},
     disposition : {"NONE", "RETRY", "VERIFY", "STOP", "ESCALATE"}, next : Nat, delay : Nat]

IsPause(r, n) == r.kind \in Transient /\ r.delay = Backoff(n)

\* How the operation ended, if it did.
EndingKnown == ended \in Endings \cup {"none"} /\ late \in BOOLEAN

\* The results that were followed by another call are those of the attempts before
\* the latest, in their order, and each of them was a schedule.
PausesKnown ==
    /\ base \in Nat /\ cap \in Nat
    /\ result \in Results
    /\ attempt = 0 => result = NothingYet
    /\ result.disposition = "RETRY" => IsPause(result, attempt)
    /\ past \in Seq(Results)
    /\ Len(past) = IF attempt = 0 THEN 0 ELSE attempt - 1
    /\ \A i \in 1..Len(past) : IsPause(past[i], i)

\* ResiliencePolicy.classify.
LEMMA ClassifyMeans ==
    ASSUME base \in Nat, cap \in Nat, NEW kind \in FailureKinds, NEW n \in Nat \ {0}
    PROVE  /\ Classify(kind, n) \in Results
           /\ Classify(kind, n).disposition = "RETRY" => IsPause(Classify(kind, n), n)
<1>1. Backoff(n) \in Nat
  BY BackoffGrows
<1>2. QED
  BY <1>1 DEF Classify, Result, Scheduled, Results, IsPause, FailureKinds, Transient

\* ResilientExecutor.run: how a call failed.
LEMMA FailureKindMeans ==
    ASSUME PoolLeft, EndingKnown
    PROVE  FailureKind \in FailureKinds \cup {"none"}
BY DEF FailureKind, Endings, PoolLeft, EndingKnown, FailureKinds, Transient

\* ResilientExecutor.run and ResiliencePolicy.classify: every step keeps what is
\* known of the pauses.
LEMMA StepKeepsPauses ==
    IInv /\ EndingKnown /\ PausesKnown /\ [Next]_vars => EndingKnown' /\ PausesKnown'
<1> SUFFICES ASSUME IInv, EndingKnown, PausesKnown, [Next]_vars
             PROVE  EndingKnown' /\ PausesKnown'
  OBVIOUS
<1>1. attempt \in Nat
  BY DEF IInv, Counted
<1>2. Result("none", "NONE") \in Results /\ Result("value", "NONE") \in Results
  BY DEF Result, Scheduled, Results, FailureKinds
<1>3. Result("none", "NONE").disposition # "RETRY" /\ Result("value", "NONE").disposition # "RETRY"
  BY DEF Result, Scheduled
<1>4. CASE FirstCall
  <2>1. /\ attempt = 0 /\ attempt' = 1 /\ ended' = "none" /\ late' = FALSE
        /\ result' = Result("none", "NONE") /\ past' = past /\ base' = base /\ cap' = cap
    BY <1>4 DEF FirstCall, Submit, policy
  <2>2. past \in Seq(Results) /\ Len(past) = 0 /\ base \in Nat /\ cap \in Nat
    BY <2>1 DEF PausesKnown
  <2>3. /\ result'.disposition # "RETRY" /\ result' \in Results
        /\ Len(past') = 0 /\ attempt' # 0 /\ attempt' - 1 = 0
    BY <1>2, <1>3, <2>1, <2>2
  <2>4. PausesKnown'
    BY <2>1, <2>2, <2>3 DEF PausesKnown
  <2>5. QED
    BY <2>1, <2>4 DEF EndingKnown
<1>5. CASE TimeOut \/ (\E n \in workers : TakeEffect(n) \/ EndWork(n)) \/ UNCHANGED vars
  <2>1. UNCHANGED <<base, cap, attempt, result, past>>
    BY <1>5 DEF TimeOut, TakeEffect, EndWork, vars, policy
  <2>2. EndingKnown'
    BY <1>5 DEF TimeOut, TakeEffect, EndWork, vars, EndingKnown
  <2>3. PausesKnown'
    BY <2>1 DEF PausesKnown, IsPause, Backoff
  <2>4. QED
    BY <2>2, <2>3
<1>6. CASE Return
  <2>1. /\ attempt > 0 /\ UNCHANGED <<base, cap, attempt, past, ended, late>>
        /\ result' = IF FailureKind = "none" THEN Result("value", "NONE")
                     ELSE Classify(FailureKind, attempt)
    BY <1>6 DEF Return, policy
  <2>2. FailureKind \in FailureKinds \cup {"none"}
    BY <1>6, FailureKindMeans DEF Return
  <2>3. result' \in Results /\ (result'.disposition = "RETRY" => IsPause(result', attempt))
    <3>1. CASE FailureKind = "none"
      BY <3>1, <2>1, <1>2, <1>3
    <3>2. CASE FailureKind # "none"
      BY <3>2, <2>1, <2>2, <1>1, ClassifyMeans DEF PausesKnown
    <3>3. QED
      BY <3>1, <3>2
  <2>4. \A r, n : IsPause(r, n) => IsPause(r, n)'
    BY <2>1 DEF IsPause, Backoff
  <2>5. PausesKnown'
    BY <2>1, <2>3, <2>4 DEF PausesKnown, IsPause, Backoff
  <2>6. QED
    BY <2>1, <2>5 DEF EndingKnown
<1>7. CASE CallAgain
  <2>1. result.disposition = "RETRY" /\ result.next = attempt + 1 /\ attempt # 0
    <3>1. result.disposition = "RETRY" /\ result.next = attempt + 1
      BY <1>7 DEF CallAgain, IInv, Counted
    <3>2. QED
      BY <3>1, RetryIsResult DEF PausesKnown
  <2>2. /\ attempt' = attempt + 1 /\ ended' = "none" /\ late' = FALSE
        /\ result' = Result("none", "NONE") /\ past' = Append(past, result)
        /\ base' = base /\ cap' = cap
    BY <1>7, <2>1 DEF CallAgain, Submit, policy
  <2>3. /\ past' \in Seq(Results) /\ Len(past') = attempt
        /\ \A i \in 1..(attempt - 1) : past'[i] = past[i]
        /\ past'[attempt] = result
    BY <1>1, <2>1, <2>2 DEF PausesKnown
  <2>4. \A i \in 1..attempt : IsPause(past'[i], i)
    <3> TAKE i \in 1..attempt
    <3>1. CASE i = attempt
      BY <3>1, <2>1, <2>3 DEF PausesKnown
    <3>2. CASE i # attempt
      BY <3>2, <1>1, <2>1, <2>3 DEF PausesKnown
    <3>3. QED
      BY <3>1, <3>2
  <2>5. PausesKnown'
    BY <1>1, <1>2, <1>3, <2>1, <2>2, <2>3, <2>4 DEF PausesKnown, IsPause, Backoff
  <2>6. QED
    BY <2>2, <2>5 DEF EndingKnown
<1>8. QED
  BY <1>4, <1>5, <1>6, <1>7 DEF Next

\* ResilientExecutor.run and ResiliencePolicy.classify: an operation is repeated
\* within the budget only, after attempts that gave no judgement, and the pauses
\* between the attempts never shrink and never exceed the cap.
THEOREM SpacedRepeats == Spec => []RepeatsAreSpaced
<1>1. Init => EndingKnown /\ PausesKnown
  <2> SUFFICES ASSUME Init PROVE EndingKnown /\ PausesKnown
    OBVIOUS
  <2>1. base \in Nat /\ cap \in Nat
    BY ResilienceAssumption DEF Init
  <2>2. /\ result \in Results /\ result = NothingYet /\ result.disposition # "RETRY"
        /\ attempt = 0 /\ ended = "none" /\ late = FALSE
    BY DEF Init, NothingYet, Result, Scheduled, Results, FailureKinds
  <2>3. past \in Seq(Results) /\ Len(past) = 0
    BY DEF Init
  <2>4. Len(past) = (IF attempt = 0 THEN 0 ELSE attempt - 1) /\ 1..Len(past) = {}
    BY <2>2, <2>3
  <2>5. PausesKnown
    <3> DEFINE n == Len(past)
    <3>1. \A i \in 1..n : IsPause(past[i], i)
      BY <2>4
    <3>2. QED
      BY <2>1, <2>2, <2>3, <2>4, <3>1, Zenon DEF PausesKnown
  <2>6. EndingKnown
    BY <2>2 DEF EndingKnown
  <2>7. QED
    BY <2>5, <2>6
<1>2. IInv /\ PausesKnown /\ WithinBudget => RepeatsAreSpaced
  <2> SUFFICES ASSUME PausesKnown, NEW i \in 1..Len(past)
               PROVE  /\ past[i].kind \in Transient /\ past[i].delay <= cap
                      /\ i > 1 => past[i - 1].delay <= past[i].delay
    BY DEF RepeatsAreSpaced
  <2>1. /\ i \in Nat \ {0}
        /\ i > 1 => i - 1 \in Nat \ {0} /\ i - 1 \in 1..Len(past)
        /\ base \in Nat /\ cap \in Nat
    BY DEF PausesKnown
  <2>2. /\ past[i].kind \in Transient /\ past[i].delay = Backoff(i)
        /\ i > 1 => past[i - 1].delay = Backoff(i - 1)
    BY <2>1 DEF PausesKnown, IsPause
  <2>3. Backoff(i) <= cap /\ (i > 1 => Backoff(i - 1) <= Backoff(i))
    BY <2>1, BackoffGrows
  <2>4. QED
    BY <2>2, <2>3
<1>3. QED
  BY <1>1, <1>2, StepKeepsPauses, InvariantHolds, BudgetKept, PTL DEF Spec
=============================================================================
