----------------------------- MODULE ScanProofs -----------------------------
(***************************************************************************)
(* Theorems about Scan, for every retry budget and every set of errors.    *)
(*                                                                         *)
(* The properties speak of the returned result; IInv adds what the loop    *)
(* knows before it returns: how the attempts begun relate to the loop      *)
(* variable (Count), and that past the first attempt lastErr holds an      *)
(* error worth a retry (Pending).                                          *)
(***************************************************************************)
EXTENDS Scan, TLAPS

(* What ScanAssumption says of an error, and what ctx.Err() satisfies too. *)
Sound(e) ==
  /\ e.is = "deadline" => e.net = "timeout"
  /\ e.op => e.net # "none"
  /\ e.dns => e.op
  /\ e.noCert => e.net = "none" /\ "transient" \notin e.text /\ e.is # "deadline"

Count ==
  /\ pc \in {"start", "rate", "backoff"} => started = attempt
  /\ pc = "attempt" => started = attempt + 1
  /\ pc = "start" => attempt = 0
  /\ pc = "backoff" => attempt > 0
  /\ ~valid => started = 0 /\ pc \in {"start", "done"}
  /\ pc = "done" /\ valid /\ started = 0 => ctx # "live"

Pending ==
  /\ Sound(lastErr)
  /\ lastErr.is = "canceled" => ctx = "canceled"
  /\ pc \notin {"start", "done"} /\ attempt > 0 => isRetryable(lastErr)

Returned ==
  /\ pc = "done" <=> result.status # "none"
  /\ KindIsTrue
  /\ KindFitsRetry
  /\ RetriesUsed

IInv == TypeOK /\ Count /\ Pending /\ Returned

-----------------------------------------------------------------------------
(* The kind and the advice of a classified error agree.                      *)
LEMMA ClassifyFits ==
  ASSUME NEW e \in Error, Sound(e), e.is # "nil"
  PROVE  LET c == classifyError(e) IN
         /\ c \in [status : {"none", "success", "failed"}, kind : Kinds, retryable : BOOLEAN]
         /\ c.status = "failed"
         /\ c.kind # "internal"
         /\ c.kind = "canceled" <=> e.is = "canceled"
         /\ c.kind \in {"canceled", "dns", "no_certificate"} => ~c.retryable
         /\ c.kind = "connect_timeout" => c.retryable
         /\ c.retryable <=> isRetryable(e)
<1>1. Kind(e) \in Kinds \ {"none", "internal"}
  BY DEF Kind, Kinds
<1>2. Kind(e) = "canceled" <=> e.is = "canceled"
  BY DEF Kind
<1>3. Kind(e) \in {"canceled", "dns", "no_certificate"} => ~isRetryable(e)
  BY DEF Kind, isRetryable, Sound, Error
<1>4. Kind(e) = "connect_timeout" => isRetryable(e)
  BY DEF Kind, isRetryable, Sound, Error
<1>5. isRetryable(e) \in BOOLEAN
  BY DEF isRetryable
<1>6. QED
  BY <1>1, <1>2, <1>3, <1>4, <1>5 DEF classifyError

LEMMA ErrorsSound ==
  /\ \A e \in Errors : e \in Error /\ Sound(e) /\ e.is # "nil"
  /\ ContextError \in Error /\ Sound(ContextError) /\ ContextError.is # "nil"
  /\ ContextError.is = "canceled" => ctx = "canceled"
  BY ScanAssumption DEF ContextError, Error, Plain, Sound, Words

(* Whatever ends the loop with an error that is set keeps the invariant.     *)
LEMMA FailStep ==
  ASSUME IInv, NEW e \in Error, Sound(e), e.is # "nil", Fail(e),
         pc \in {"rate", "backoff", "attempt"}, valid,
         UNCHANGED <<attempt, started, env>>,
         e.is = "canceled" => ctx = "canceled",
         isRetryable(e) => started = Retries + 1 \/ ctx # "live",
         started = 0 => ctx # "live"
  PROVE  IInv'
<1> DEFINE c == classifyError(e)
<1>1. /\ c \in [status : {"none", "success", "failed"}, kind : Kinds, retryable : BOOLEAN]
      /\ c.status = "failed"
      /\ c.kind # "internal"
      /\ c.kind = "canceled" <=> e.is = "canceled"
      /\ c.kind \in {"canceled", "dns", "no_certificate"} => ~c.retryable
      /\ c.kind = "connect_timeout" => c.retryable
      /\ c.retryable <=> isRetryable(e)
  BY ClassifyFits
<1>2. result' = c /\ lastErr' = e /\ pc' = "done"
  BY DEF Fail
<1> HIDE DEF c
<1>3. TypeOK'
  BY <1>1, <1>2 DEF IInv, TypeOK, env
<1>4. Count' /\ Pending'
  BY <1>2 DEF IInv, Count, Pending, TypeOK, env, Sound
<1>5. Returned'
  BY <1>1, <1>2 DEF IInv, Returned, KindIsTrue, KindFitsRetry, RetriesUsed, Failed, env
<1>6. QED
  BY <1>3, <1>4, <1>5 DEF IInv

LEMMA InitIInv == Init => IInv
<1> SUFFICES ASSUME Init PROVE IInv
  OBVIOUS
<1>1. NoError \in Error
  BY DEF NoError, Plain, Error, Words
<1>2. NoResult \in [status : {"none", "success", "failed"}, kind : Kinds, retryable : BOOLEAN]
  BY DEF NoResult, Kinds
<1>3. TypeOK
  <2>1. attempt \in 0 .. Retries /\ started \in 0 .. Retries + 1
    BY ScanAssumption DEF Init
  <2>2. QED
    BY <1>1, <1>2, <2>1 DEF Init, TypeOK
<1>4. Count /\ Pending /\ Returned
  BY DEF Init, Count, Pending, Sound, NoError, Plain, Returned, NoResult, KindIsTrue,
     KindFitsRetry, RetriesUsed, Failed
<1>5. QED
  BY <1>3, <1>4 DEF IInv

(* A step of the call: one case for each way it can go on or return.         *)
LEMMA CallStep == IInv /\ Call => IInv'
<1> SUFFICES ASSUME IInv, Call PROVE IInv'
  OBVIOUS
<1> USE DEF IInv
<1>1. CASE Start
  <2>1. TypeOK' /\ Count' /\ Pending'
    BY <1>1 DEF Start, TypeOK, Count, Pending, Sound, env
  <2>2. Returned'
    BY <1>1 DEF Start, Returned, KindIsTrue, KindFitsRetry, RetriesUsed, Failed, env
  <2>3. QED
    BY <2>1, <2>2
<1>2. CASE RefuseTarget
  <2> DEFINE refusal == [status |-> "failed", kind |-> "invalid_input", retryable |-> FALSE]
  <2>1. refusal \in [status : {"none", "success", "failed"}, kind : Kinds, retryable : BOOLEAN]
    BY DEF Kinds
  <2>2. TypeOK' /\ Count' /\ Pending'
    BY <1>2, <2>1 DEF RefuseTarget, TypeOK, Count, Pending, Sound, env
  <2>3. Returned'
    BY <1>2 DEF RefuseTarget, Returned, KindIsTrue, KindFitsRetry, RetriesUsed, Failed, env
  <2>4. QED
    BY <2>2, <2>3
<1>3. CASE PassRate \/ TakeToken
  <2>1. pc = "rate" /\ UNCHANGED <<attempt, lastErr, result, valid, limited, ctx, closed>>
    BY <1>3 DEF PassRate, TakeToken, env
  <2>2. token' \in BOOLEAN /\ paid' \in Nat
    <3>1. token' = token \/ token' = FALSE
      BY <1>3 DEF PassRate, TakeToken, env
    <3>2. paid' = paid \/ paid' = paid + 1
      BY <1>3 DEF PassRate, TakeToken, env
    <3>3. token \in BOOLEAN /\ paid \in Nat
      BY DEF TypeOK
    <3>4. token' \in BOOLEAN
      BY <3>1, <3>3, Zenon
    <3>5. paid' \in Nat
      BY <3>2, <3>3
    <3>6. QED
      BY <3>4, <3>5
  <2>3. \/ attempt = 0 /\ pc' = "attempt" /\ started' = started + 1
        \/ attempt > 0 /\ pc' = "backoff" /\ started' = started
    BY <1>3 DEF PassRate, TakeToken, Proceed, Begin
  <2>4. TypeOK' /\ Count' /\ Pending'
    BY <2>1, <2>2, <2>3, ScanAssumption DEF TypeOK, Count, Pending, Sound
  <2>5. Returned'
    BY <2>1, <2>3 DEF Returned, KindIsTrue, KindFitsRetry, RetriesUsed, Failed
  <2>6. QED
    BY <2>4, <2>5
<1>4. CASE RateCanceled
  BY <1>4, ErrorsSound, FailStep DEF RateCanceled, Count
<1>5. CASE BackoffElapsed
  <2>1. CASE ctx = "live" /\ Begin /\ UNCHANGED <<lastErr, result>>
    <3>1. TypeOK' /\ Count' /\ Pending'
      BY <1>5, <2>1, ScanAssumption DEF BackoffElapsed, Begin, TypeOK, Count, Pending, Sound, env
    <3>2. Returned'
      BY <1>5, <2>1 DEF BackoffElapsed, Begin, Returned, KindIsTrue, KindFitsRetry, RetriesUsed, Failed, env
    <3>3. QED
      BY <3>1, <3>2
  <2>2. CASE ctx # "live" /\ Fail(lastErr) /\ UNCHANGED started
    <3>1. lastErr \in Error /\ Sound(lastErr) /\ lastErr.is # "nil"
      BY <1>5 DEF BackoffElapsed, TypeOK, Count, Pending, isRetryable
    <3>2. QED
      BY <1>5, <2>2, <3>1, FailStep DEF BackoffElapsed, Count, Pending
  <2>3. QED
    BY <1>5, <2>1, <2>2 DEF BackoffElapsed
<1>6. CASE BackoffCanceled
  BY <1>6, ErrorsSound, FailStep DEF BackoffCanceled, Count
<1>7. CASE AttemptSucceeds
  <2>1. TypeOK' /\ Count' /\ Pending'
    BY <1>7, ScanAssumption DEF AttemptSucceeds, Success, Kinds, TypeOK, Count, Pending, Sound, env
  <2>2. Returned'
    BY <1>7 DEF AttemptSucceeds, Success, Returned, KindIsTrue, KindFitsRetry, RetriesUsed, Failed, env
  <2>3. QED
    BY <2>1, <2>2
<1>8. ASSUME NEW e \in Errors, AttemptFails(e) PROVE IInv'
  <2>1. e \in Error /\ Sound(e) /\ e.is # "nil"
    BY ErrorsSound
  <2>2. CASE isRetryable(e) /\ MoreAttempts /\ lastErr' = e /\ attempt' = attempt + 1
             /\ pc' = "rate" /\ UNCHANGED result
    <3>1. TypeOK' /\ Count'
      BY <1>8, <2>1, <2>2, ScanAssumption DEF AttemptFails, MoreAttempts, TypeOK, Count, env
    <3>2. Pending'
      BY <1>8, <2>1, <2>2 DEF AttemptFails, Pending, Sound, isRetryable, env
    <3>3. Returned'
      BY <1>8, <2>2 DEF AttemptFails, Returned, KindIsTrue, KindFitsRetry, RetriesUsed, Failed, env
    <3>4. QED
      BY <3>1, <3>2, <3>3
  <2>3. CASE ~(isRetryable(e) /\ MoreAttempts) /\ Fail(e) /\ UNCHANGED attempt
    <3>1. isRetryable(e) => started = Retries + 1
      BY <1>8, <2>3, ScanAssumption DEF AttemptFails, MoreAttempts, TypeOK, Count
    <3>2. started # 0 /\ valid
      BY <1>8 DEF AttemptFails, TypeOK, Count
    <3>3. QED
      BY <1>8, <2>1, <2>3, <3>1, <3>2, FailStep DEF AttemptFails
  <2>4. QED
    BY <1>8, <2>2, <2>3 DEF AttemptFails
<1>9. QED
  BY <1>1, <1>2, <1>3, <1>4, <1>5, <1>6, <1>7, <1>8 DEF Call

LEMMA StepIInv == IInv /\ [Next]_vars => IInv'
<1> SUFFICES ASSUME IInv, [Next]_vars PROVE IInv'
  OBVIOUS
<1>1. CASE Call
  BY <1>1, CallStep
<1>2. CASE Tick \/ OtherScanTakesToken \/ ContextEnds \/ Close \/ UNCHANGED vars
  <2>1. UNCHANGED <<pc, attempt, started, lastErr, result, valid, limited, paid>>
    BY <1>2 DEF Tick, OtherScanTakesToken, ContextEnds, Close, vars
  <2>2. /\ ctx' \in {"live", "canceled", "deadline"}
        /\ ctx # "live" => ctx' = ctx
        /\ token' \in BOOLEAN /\ closed' \in BOOLEAN
    BY <1>2 DEF Tick, OtherScanTakesToken, ContextEnds, Close, vars, IInv, TypeOK
  <2>3. TypeOK' /\ Count' /\ Pending'
    BY <2>1, <2>2 DEF IInv, TypeOK, Count, Pending, Sound, isRetryable
  <2>4. Returned'
    BY <2>1, <2>2 DEF IInv, Returned, KindIsTrue, KindFitsRetry, RetriesUsed, Failed
  <2>5. QED
    BY <2>3, <2>4 DEF IInv
<1>3. QED
  BY <1>1, <1>2 DEF Next

LEMMA Invariance == Spec => []IInv
  BY InitIInv, StepIInv, PTL DEF Spec

-----------------------------------------------------------------------------
(* The call's state keeps its types; no attempt beyond the budget.           *)
THEOREM ScanTypeCorrect == Spec => []TypeOK
<1>1. IInv => TypeOK
  BY DEF IInv
<1>2. QED
  BY <1>1, Invariance, PTL

(* classifyError is never handed a nil error (scanner.go:500-503), and       *)
(* "canceled" is reported only to a caller that canceled.                    *)
THEOREM ScanKindIsTrue == Spec => []KindIsTrue
<1>1. IInv => KindIsTrue
  BY DEF IInv, Returned
<1>2. QED
  BY <1>1, Invariance, PTL

(* For every error an attempt can end with, the kind and the Retryable flag  *)
(* of the returned failure agree (scanner.go:504-539).                       *)
THEOREM AdviceIsConsistent == Spec => []KindFitsRetry
<1>1. IInv => KindFitsRetry
  BY DEF IInv, Returned
<1>2. QED
  BY <1>1, Invariance, PTL

(* A retryable failure has used up the retry budget or lost its context.     *)
THEOREM BudgetIsUsed == Spec => []RetriesUsed
<1>1. IInv => RetriesUsed
  BY DEF IInv, Returned
<1>2. QED
  BY <1>1, Invariance, PTL

(* At most Retries + 1 attempts, none for a refused target, and at least one *)
(* for any other unless its context ended while it waited for a token.       *)
THEOREM BudgetIsKept == Spec => []AttemptsBounded
<1>1. IInv => AttemptsBounded
  BY ScanAssumption DEF IInv, TypeOK, Count, AttemptsBounded
<1>2. QED
  BY <1>1, Invariance, PTL

(* The tokens of a limited call: one for each attempt, taken at the rate     *)
(* wait and so before the backoff.                                           *)
Paid ==
  limited =>
    /\ pc \in {"start", "rate"} => paid = started
    /\ pc = "backoff" => paid = started + 1
    /\ AttemptsPaid

LEMMA StepPaid == IInv /\ Paid /\ [Next]_vars => Paid'
<1> SUFFICES ASSUME IInv, Paid, [Next]_vars PROVE Paid'
  OBVIOUS
<1>1. started \in Nat /\ paid \in Nat
  BY ScanAssumption DEF IInv, TypeOK
<1>2. CASE Start
  BY <1>2 DEF Start, env, Paid, AttemptsPaid
<1>3. CASE PassRate
  BY <1>3 DEF PassRate, env, Paid
<1>4. CASE TakeToken
  <2>1. pc = "rate" /\ paid' = paid + 1 /\ limited' = limited /\ limited
    BY <1>4 DEF TakeToken
  <2>2. \/ pc' = "attempt" /\ started' = started + 1
        \/ pc' = "backoff" /\ started' = started
    BY <1>4 DEF TakeToken, Proceed, Begin
  <2>3. QED
    BY <1>1, <2>1, <2>2 DEF Paid, AttemptsPaid
<1>5. CASE RefuseTarget \/ RateCanceled \/ BackoffCanceled \/ AttemptSucceeds
  <2>1. pc' = "done" /\ UNCHANGED <<started, limited, paid>>
    BY <1>5 DEF RefuseTarget, RateCanceled, BackoffCanceled, AttemptSucceeds, Fail, env
  <2>2. QED
    BY <2>1 DEF Paid, AttemptsPaid
<1>6. CASE BackoffElapsed
  <2>1. pc = "backoff" /\ UNCHANGED <<limited, paid>>
    BY <1>6 DEF BackoffElapsed, env
  <2>2. \/ pc' = "attempt" /\ started' = started + 1
        \/ pc' = "done" /\ started' = started
    BY <1>6 DEF BackoffElapsed, Begin, Fail
  <2>3. QED
    BY <1>1, <2>1, <2>2 DEF Paid, AttemptsPaid
<1>7. ASSUME NEW e \in Errors, AttemptFails(e) PROVE Paid'
  <2>1. pc = "attempt" /\ pc' \in {"rate", "done"} /\ UNCHANGED <<started, limited, paid>>
    BY <1>7 DEF AttemptFails, Fail, env
  <2>2. QED
    BY <2>1 DEF Paid, AttemptsPaid
<1>8. CASE Tick \/ OtherScanTakesToken \/ ContextEnds \/ Close \/ UNCHANGED vars
  <2>1. UNCHANGED <<pc, started, limited, paid>>
    BY <1>8 DEF Tick, OtherScanTakesToken, ContextEnds, Close, vars
  <2>2. QED
    BY <2>1 DEF Paid, AttemptsPaid
<1>9. QED
  BY <1>2, <1>3, <1>4, <1>5, <1>6, <1>7, <1>8 DEF Next, Call

(* Every attempt, the retries too, is made on a token of its own, and no     *)
(* call holds more than one in advance (scanner.go:188-206, 223-233).        *)
THEOREM ScanPaysAttempts == Spec => []AttemptsPaid
<1>1. Init => Paid
  BY DEF Init, Paid, AttemptsPaid
<1>2. Paid => AttemptsPaid
  BY DEF Paid, AttemptsPaid
<1>3. QED
  BY <1>1, <1>2, StepPaid, Invariance, PTL DEF Spec

(* A retry follows a temporary error only, and a context that is still live. *)
THEOREM RetriesAreJustified == Spec => RetryJustified
<1> DEFINE A == started' > started /\ started > 0 =>
                  ctx = "live" /\ lastErr.is # "canceled" /\ lastErr.net # "permanent"
<1>1. IInv /\ [Next]_vars => [A]_vars
  <2> SUFFICES ASSUME IInv, Next, started' > started, started > 0
               PROVE  ctx = "live" /\ lastErr.is # "canceled" /\ lastErr.net # "permanent"
    OBVIOUS
  <2>0. started \in Nat /\ started' # started
    BY ScanAssumption DEF IInv, TypeOK
  <2>1. ~(PassRate \/ TakeToken)
    BY <2>0 DEF PassRate, TakeToken, Proceed, IInv, Count
  <2>2. BackoffElapsed
    BY <2>0, <2>1 DEF Next, Call, Start, RefuseTarget, RateCanceled, BackoffCanceled,
       AttemptSucceeds, AttemptFails, Tick, OtherScanTakesToken, ContextEnds, Close, env
  <2>3. ctx = "live" /\ isRetryable(lastErr) /\ Sound(lastErr)
    BY <2>0, <2>2 DEF BackoffElapsed, IInv, Count, Pending
  <2>4. QED
    BY <2>3 DEF isRetryable, Sound
<1>2. QED
  BY <1>1, Invariance, PTL DEF Spec, RetryJustified
=============================================================================
