------------------------------ MODULE AuditWave ------------------------------
(***************************************************************************)
(* The audit branch of runWave (internal/cli/cli.go:406-408, 465-501): a   *)
(* feeder hands targets to workers over an unbuffered channel, workers     *)
(* audit them and send on a result channel of capacity Concurrency, a      *)
(* closer closes it after the join, and runWave ranges over it.  Unlike    *)
(* the workers of ScanStream, these wait for a job without looking at the  *)
(* context: only the feeder's close releases them.                         *)
(*                                                                         *)
(* ScanAudit is one step (AuditReturns).  The results are a log with a     *)
(* read index; signal is the parent context, ctxDone the derived one.      *)
(***************************************************************************)
EXTENDS Integers, Sequences

CONSTANTS
  Concurrency,            \* --concurrency
  NumTargets              \* targets of the wave

ASSUME AuditAssumption ==
  /\ Concurrency \in Nat \ {0}
  /\ NumTargets \in Nat

Workers == 1 .. Concurrency

VARIABLES
  handed,                 \* targets handed to workers
  jobsClosed,             \* the feeder has returned
  wpc,                    \* worker -> where it is
  item,                   \* worker -> the target it holds, 0 for none
  sent,                   \* every result ever sent, in order
  recvd,                  \* how many of them runWave received
  resClosed,              \* the result channel is closed
  cpc,                    \* runWave: "range", "return" (err decided), "returned"
  failed,                 \* runWave returns the error of emit
  signal,                 \* the parent context is canceled
  ctxDone                 \* the derived context is

vars == <<handed, jobsClosed, wpc, item, sent, recvd, resClosed, cpc, failed, signal, ctxDone>>
main == <<recvd, cpc, failed, signal, ctxDone>>
pool == <<handed, jobsClosed, wpc, item, sent, resClosed>>

TypeOK ==
  /\ handed \in 0 .. NumTargets
  /\ jobsClosed \in BOOLEAN
  /\ wpc \in [Workers -> {"recv", "audit", "send", "done"}]
  /\ item \in [Workers -> 0 .. NumTargets]
  /\ sent \in Seq(1 .. NumTargets)
  /\ recvd \in 0 .. Len(sent)
  /\ Len(sent) - recvd <= Concurrency
  /\ resClosed \in BOOLEAN
  /\ cpc \in {"range", "return", "returned"}
  /\ failed \in BOOLEAN
  /\ signal \in BOOLEAN
  /\ ctxDone \in BOOLEAN

Init ==
  /\ handed = 0
  /\ jobsClosed = FALSE
  /\ wpc = [w \in Workers |-> "recv"]
  /\ item = [w \in Workers |-> 0]
  /\ sent = <<>>
  /\ recvd = 0
  /\ resClosed = FALSE
  /\ cpc = "range"
  /\ failed = FALSE
  /\ signal = FALSE
  /\ ctxDone = FALSE

-----------------------------------------------------------------------------
(* The feeder. *)

\* Its send and a worker's receive are one event.
HandTarget(w) ==
  /\ ~jobsClosed
  /\ handed < NumTargets
  /\ wpc[w] = "recv"
  /\ handed' = handed + 1
  /\ item' = [item EXCEPT ![w] = handed + 1]
  /\ wpc' = [wpc EXCEPT ![w] = "audit"]
  /\ UNCHANGED <<jobsClosed, sent, resClosed, main>>

\* Fault: the select has no ctx.Done(), the feeder waits for workers that are gone.
FeederIgnoresContext == handed = NumTargets

\* Fault: the loop stops one target early.
FeederStopsEarly == handed + 1 >= NumTargets \/ ctxDone

FeederMayStop == handed = NumTargets \/ ctxDone

FeederStops ==
  /\ ~jobsClosed
  /\ FeederMayStop
  /\ jobsClosed' = TRUE
  /\ UNCHANGED <<handed, wpc, item, sent, resClosed, main>>

-----------------------------------------------------------------------------
(* A worker. *)

AuditReturns(w) ==
  /\ wpc[w] = "audit"
  /\ wpc' = [wpc EXCEPT ![w] = "send"]
  /\ UNCHANGED <<handed, jobsClosed, item, sent, resClosed, main>>

RoomForResult == Len(sent) - recvd < Concurrency

SendResult(w) ==
  /\ wpc[w] = "send"
  /\ RoomForResult
  /\ sent' = Append(sent, item[w])
  /\ wpc' = [wpc EXCEPT ![w] = "recv"]
  /\ item' = [item EXCEPT ![w] = 0]
  /\ UNCHANGED <<handed, jobsClosed, resClosed, main>>

\* The select may pick ctx.Done() although the channel has room.
DropResult(w) ==
  /\ wpc[w] = "send"
  /\ ctxDone
  /\ wpc' = [wpc EXCEPT ![w] = "done"]
  /\ item' = [item EXCEPT ![w] = 0]
  /\ UNCHANGED <<handed, jobsClosed, sent, resClosed, main>>

JobsEnd(w) ==
  /\ wpc[w] = "recv"
  /\ jobsClosed
  /\ wpc' = [wpc EXCEPT ![w] = "done"]
  /\ UNCHANGED <<handed, jobsClosed, item, sent, resClosed, main>>

Worker(w) == AuditReturns(w) \/ SendResult(w) \/ DropResult(w) \/ JobsEnd(w)

CloserMayClose == \A w \in Workers : wpc[w] = "done"

CloseResults ==
  /\ ~resClosed
  /\ CloserMayClose
  /\ resClosed' = TRUE
  /\ UNCHANGED <<handed, jobsClosed, wpc, item, sent, main>>

-----------------------------------------------------------------------------
(* runWave itself. *)

EmitResult ==
  /\ cpc = "range"
  /\ recvd < Len(sent)
  /\ recvd' = recvd + 1
  /\ UNCHANGED <<pool, cpc, failed, signal, ctxDone>>

EmitFails ==
  /\ cpc = "range"
  /\ recvd < Len(sent)
  /\ recvd' = recvd + 1
  /\ cpc' = "return"
  /\ failed' = TRUE
  /\ UNCHANGED <<pool, signal, ctxDone>>

RangeEnds ==
  /\ cpc = "range"
  /\ resClosed
  /\ recvd = Len(sent)
  /\ cpc' = "return"
  /\ UNCHANGED <<pool, recvd, failed, signal, ctxDone>>

\* return, then the deferred cancel().
Return ==
  /\ cpc = "return"
  /\ cpc' = "returned"
  /\ ctxDone' = TRUE
  /\ UNCHANGED <<pool, recvd, failed, signal>>

Signal ==
  /\ ~signal
  /\ signal' = TRUE
  /\ ctxDone' = TRUE
  /\ UNCHANGED <<pool, recvd, cpc, failed>>

Feeder == FeederStops \/ \E w \in Workers : HandTarget(w)

Collector == EmitResult \/ EmitFails \/ RangeEnds \/ Return

Next == Feeder \/ (\E w \in Workers : Worker(w)) \/ CloseResults \/ Collector \/ Signal

Fairness ==
  /\ WF_vars(Feeder)
  /\ WF_vars(CloseResults)
  /\ WF_vars(Collector)
  /\ \A w \in Workers : WF_vars(Worker(w))

Spec == Init /\ [][Next]_vars /\ Fairness

-----------------------------------------------------------------------------
(* Properties. *)

Emitted == {sent[i] : i \in 1 .. recvd}

\* The closed channel has no sender left.
NoSendOnClosed == resClosed => \A w \in Workers : wpc[w] = "done"

\* runWave returns, whatever emit and the signals do, and its feeder, workers and
\* closer all end: "Scans can be canceled
\* cleanly without orphaning worker or progress goroutines" (CHANGELOG.md:31).
AllGone ==
  /\ cpc = "returned"
  /\ jobsClosed
  /\ \A w \in Workers : wpc[w] = "done"
  /\ resClosed

NoOrphans == <>[]AllGone

Promise ==
  INSTANCE Wave WITH
    targets <- 1 .. NumTargets,
    emitted <- Emitted,
    outcome <- IF cpc = "range" THEN "none" ELSE IF failed THEN "emit" ELSE "nil",
    interrupted <- signal

\* The branch keeps the promise of Wave.
KeepsWave == Promise!Spec
=============================================================================
