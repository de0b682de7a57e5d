-------------------------------- MODULE Scan --------------------------------
(***************************************************************************)
(* One call of Scanner.Scan (pkg/ctscan/scanner.go:175-233): wait for a    *)
(* token of the rate ticker, back off, attempt, and again while the error  *)
(* is retryable; then classify the last error (500-539).                   *)
(*                                                                         *)
(* An error is what classifyError and isRetryable ask of it: errors.Is,    *)
(* errors.As and the words of its lower-cased text.  An attempt is one     *)
(* step here; it may end with any error of the constant Errors.  Other     *)
(* scans share the ticker, the caller's context may end at any time, by a  *)
(* cancel or by a deadline, and Close may stop the ticker under the call.  *)
(***************************************************************************)
EXTENDS Naturals

CONSTANTS
  Retries,                \* Config.Retries
  Errors                  \* the errors an attempt can end with

Words == {"refused", "proxy", "starttls", "transient"}

\* is: the context error it wraps, if any, or nil.  net: the Timeout() of the first
\* net.Error in the chain, "none" without one.  op, dns: it wraps such an error.
Error ==
  [is : {"nil", "canceled", "deadline", "other"}, net : {"none", "timeout", "permanent"},
   op : BOOLEAN, dns : BOOLEAN, noCert : BOOLEAN, text : SUBSET Words]

Plain ==
  [is |-> "other", net |-> "none", op |-> FALSE, dns |-> FALSE, noCert |-> FALSE,
   text |-> {}]

NoError == [Plain EXCEPT !.is = "nil"]

ASSUME ScanAssumption ==
  /\ Retries \in Nat
  /\ Errors \subseteq Error
  \* a lookup fails inside a net.OpError, which is a net.Error; errNoCertificate is bare
  /\ \A e \in Errors :
       /\ e.is # "nil"
       /\ e.is = "deadline" => e.net = "timeout"
       /\ e.op => e.net # "none"
       /\ e.dns => e.op
       /\ e.noCert => e.net = "none" /\ "transient" \notin e.text /\ e.is # "deadline"

VARIABLES
  pc,                     \* where the call is
  attempt,                \* the loop variable
  started,                \* attempts begun
  lastErr,                \* the error of the last attempt
  result,                 \* what Scan returns
  valid,                  \* the target has a host or an address
  limited,                \* Config.RateLimit > 0: the scanner has a ticker
  ctx,                    \* "live", or how the caller's context ended
  token,                  \* the ticker's channel holds a tick
  closed,                 \* Close was called
  paid                    \* history: ticks that this call took

vars == <<pc, attempt, started, lastErr, result, valid, limited, ctx, token, closed, paid>>
env == <<valid, limited, ctx, token, closed, paid>>

NoResult == [status |-> "none", kind |-> "none", retryable |-> FALSE]
Success == [status |-> "success", kind |-> "none", retryable |-> FALSE]

Kinds == {"none", "internal", "invalid_input", "tls_handshake", "canceled", "connect_timeout",
          "dns", "no_certificate", "connect_refused", "proxy", "starttls"}

TypeOK ==
  /\ pc \in {"start", "rate", "backoff", "attempt", "done"}
  /\ attempt \in 0 .. Retries
  /\ started \in 0 .. Retries + 1
  /\ lastErr \in Error
  /\ result \in [status : {"none", "success", "failed"}, kind : Kinds, retryable : BOOLEAN]
  /\ valid \in BOOLEAN
  /\ limited \in BOOLEAN
  /\ ctx \in {"live", "canceled", "deadline"}
  /\ token \in BOOLEAN
  /\ closed \in BOOLEAN
  /\ paid \in Nat

Init ==
  /\ pc = "start"
  /\ attempt = 0
  /\ started = 0
  /\ lastErr = NoError
  /\ result = NoResult
  /\ valid \in BOOLEAN
  /\ limited \in BOOLEAN
  /\ ctx = "live"
  /\ token = FALSE
  /\ closed = FALSE
  /\ paid = 0

-----------------------------------------------------------------------------
(* isRetryable and classifyError. *)

\* Fault: any net.Error is worth a retry, the permanent ones too.
RetryableNet(e) ==
  e.is \notin {"nil", "canceled"} /\ (e.is = "deadline" \/ e.net # "none" \/ "transient" \in e.text)

isRetryable(e) ==
  /\ e.is \notin {"nil", "canceled"}
  /\ \/ e.is = "deadline"
     \/ e.net = "timeout"
     \/ e.net = "none" /\ "transient" \in e.text

\* Fault: a lookup that timed out is a DNS error.
KindDNSFirst(e) ==
  IF e.is = "canceled" THEN "canceled"
  ELSE IF e.dns THEN "dns"
  ELSE IF e.is = "deadline" \/ (e.op /\ e.net = "timeout") THEN "connect_timeout"
  ELSE "tls_handshake"

\* The switch of classifyError, in its order.
Kind(e) ==
  IF e.is = "canceled" THEN "canceled"
  ELSE IF e.is = "deadline" \/ (e.op /\ e.net = "timeout") THEN "connect_timeout"
  ELSE IF e.dns THEN "dns"
  ELSE IF e.noCert THEN "no_certificate"
  ELSE IF "refused" \in e.text THEN "connect_refused"
  ELSE IF "proxy" \in e.text THEN "proxy"
  ELSE IF "starttls" \in e.text THEN "starttls"
  ELSE "tls_handshake"

classifyError(e) ==
  [status |-> "failed",
   kind |-> IF e.is = "nil" THEN "internal" ELSE Kind(e),
   retryable |-> isRetryable(e)]

\* ctx.Err(); context.DeadlineExceeded is a net.Error that timed out.
ContextError ==
  IF ctx = "canceled" THEN [Plain EXCEPT !.is = "canceled"]
  ELSE [Plain EXCEPT !.is = "deadline", !.net = "timeout"]

-----------------------------------------------------------------------------
(* The call. *)

Fail(e) ==
  /\ lastErr' = e
  /\ result' = classifyError(e)
  /\ pc' = "done"

Begin ==
  /\ pc' = "attempt"
  /\ started' = started + 1

Start ==
  /\ pc = "start"
  /\ valid
  /\ pc' = "rate"
  /\ UNCHANGED <<attempt, started, lastErr, result, env>>

RefuseTarget ==
  /\ pc = "start"
  /\ ~valid
  /\ result' = [status |-> "failed", kind |-> "invalid_input", retryable |-> FALSE]
  /\ pc' = "done"
  /\ UNCHANGED <<attempt, started, lastErr, env>>

Proceed ==
  \/ attempt = 0 /\ Begin
  \/ attempt > 0 /\ pc' = "backoff" /\ UNCHANGED started

PassRate ==
  /\ pc = "rate"
  /\ ~limited
  /\ Proceed
  /\ UNCHANGED <<attempt, lastErr, result, env>>

TakeToken ==
  /\ pc = "rate"
  /\ limited
  /\ token
  /\ token' = FALSE
  /\ paid' = paid + 1
  /\ Proceed
  /\ UNCHANGED <<attempt, lastErr, result, valid, limited, ctx, closed>>

\* Fault: the error of waitRate is not kept.
RateCanceledSilently ==
  /\ pc = "rate"
  /\ limited
  /\ ctx # "live"
  /\ Fail(lastErr)
  /\ UNCHANGED <<attempt, started, env>>

\* Fault: waitRate waits for the ticker only.
RateIgnoresContext == FALSE /\ UNCHANGED vars

RateCanceled ==
  /\ pc = "rate"
  /\ limited
  /\ ctx # "live"
  /\ Fail(ContextError)
  /\ UNCHANGED <<attempt, started, env>>

\* The timer fired; the select may prefer it to a done context, the check after
\* the select does not, and leaves lastErr as the attempt set it.
BackoffElapsed ==
  /\ pc = "backoff"
  /\ \/ ctx = "live" /\ Begin /\ UNCHANGED <<lastErr, result>>
     \/ ctx # "live" /\ Fail(lastErr) /\ UNCHANGED started
  /\ UNCHANGED <<attempt, env>>

\* Fault: break leaves the select only, and no check follows it.
BackoffBreaksSelect ==
  /\ pc = "backoff"
  /\ ctx # "live"
  /\ lastErr' = ContextError
  /\ Begin
  /\ UNCHANGED <<attempt, result, env>>

BackoffCanceled ==
  /\ pc = "backoff"
  /\ ctx # "live"
  /\ Fail(ContextError)
  /\ UNCHANGED <<attempt, started, env>>

AttemptSucceeds ==
  /\ pc = "attempt"
  /\ result' = Success
  /\ pc' = "done"
  /\ UNCHANGED <<attempt, started, lastErr, env>>

\* Fault: one retry too few.
LastRetryLost == attempt + 1 < Retries

MoreAttempts == attempt < Retries

\* Fault: a retry waits out its backoff but takes no token.
RetryUnpaid(e) ==
  /\ pc = "attempt"
  /\ e.is = "canceled" => ctx = "canceled"
  /\ \/ /\ isRetryable(e) /\ MoreAttempts
        /\ lastErr' = e
        /\ attempt' = attempt + 1
        /\ pc' = "backoff"
        /\ UNCHANGED result
     \/ /\ ~(isRetryable(e) /\ MoreAttempts)
        /\ Fail(e)
        /\ UNCHANGED attempt
  /\ UNCHANGED <<started, env>>

\* An attempt sees a canceled context only if it was canceled.
AttemptFails(e) ==
  /\ pc = "attempt"
  /\ e.is = "canceled" => ctx = "canceled"
  /\ \/ /\ isRetryable(e) /\ MoreAttempts
        /\ lastErr' = e
        /\ attempt' = attempt + 1
        /\ pc' = "rate"
        /\ UNCHANGED result
     \/ /\ ~(isRetryable(e) /\ MoreAttempts)
        /\ Fail(e)
        /\ UNCHANGED attempt
  /\ UNCHANGED <<started, env>>

-----------------------------------------------------------------------------
(* Around the call. *)

Tick ==
  /\ limited /\ ~closed /\ ~token
  /\ token' = TRUE
  /\ UNCHANGED <<pc, attempt, started, lastErr, result, valid, limited, ctx, closed, paid>>

OtherScanTakesToken ==
  /\ token
  /\ token' = FALSE
  /\ UNCHANGED <<pc, attempt, started, lastErr, result, valid, limited, ctx, closed, paid>>

ContextEnds ==
  /\ ctx = "live"
  /\ ctx' \in {"canceled", "deadline"}
  /\ UNCHANGED <<pc, attempt, started, lastErr, result, valid, limited, token, closed, paid>>

Close ==
  /\ ~closed
  /\ closed' = TRUE
  /\ UNCHANGED <<pc, attempt, started, lastErr, result, valid, limited, ctx, token, paid>>

Call ==
  \/ Start \/ RefuseTarget
  \/ PassRate \/ TakeToken \/ RateCanceled
  \/ BackoffElapsed \/ BackoffCanceled
  \/ AttemptSucceeds \/ \E e \in Errors : AttemptFails(e)

Next == Call \/ Tick \/ OtherScanTakesToken \/ ContextEnds \/ Close

\* The call runs when it can: timers fire and attempts time out.  No fairness between
\* scans that wait for a token is assumed.
Fairness == WF_vars(Call)

Spec == Init /\ [][Next]_vars /\ Fairness

-----------------------------------------------------------------------------
(* Properties. *)

Failed == result.status = "failed"

\* The kind of a failure is true: "unknown scan failure" of classifyError is
\* unreachable, as every way out of the loop without a result leaves an error behind,
\* and "canceled" is said only to a caller whose context was canceled.
KindIsTrue ==
  Failed =>
    /\ result.kind # "internal"
    /\ result.kind = "canceled" => ctx = "canceled"

\* The kind of a failure agrees with the advice to retry it: what the caller is told
\* to retry is never a cancellation, an absent name or an absent certificate, and a
\* timeout is always worth another try.
KindFitsRetry ==
  Failed =>
    /\ result.kind \in {"canceled", "dns", "no_certificate"} => ~result.retryable
    /\ result.kind = "connect_timeout" => result.retryable

\* A failure that is called retryable has used up its attempts, unless the context
\* ended: Scan gives up early on permanent errors only.
RetriesUsed ==
  Failed /\ result.retryable => started = Retries + 1 \/ ctx # "live"

\* A retry begins only on a live context, after an error that is neither a cancel
\* nor a permanent network error.
RetryJustified ==
  [][started' > started /\ started > 0 =>
       ctx = "live" /\ lastErr.is # "canceled" /\ lastErr.net # "permanent"]_vars

\* A target without a host is refused before any attempt, every other target is
\* attempted unless the context ended first, and never more than Retries + 1 times.
AttemptsBounded ==
  /\ started <= Retries + 1
  /\ pc = "done" /\ valid /\ started = 0 => ctx # "live"
  /\ ~valid => started = 0

\* Every attempt of a limited scanner has a tick of its own, the retries too, and a
\* call that waits out a backoff holds one in advance, never more: what the calls of
\* a scanner can save up for a burst is one tick for each of them.
AttemptsPaid ==
  limited =>
    /\ pc = "attempt" => paid = started
    /\ started <= paid /\ paid <= started + 1

\* A call whose context ends returns, ticker or not.
CancelReturns == ctx # "live" ~> pc = "done"
=============================================================================
