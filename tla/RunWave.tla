------------------------------- MODULE RunWave -------------------------------
(***************************************************************************)
(* The unordered scan branch of runWave (internal/cli/cli.go:406-408,      *)
(* 445-462): a feeder goroutine writes the wave's targets on a channel of  *)
(* capacity Concurrency and closes it, ScanStream scans them, and runWave  *)
(* itself ranges over the results and emits each one.  It returns at the   *)
(* end of the stream or at the first error of emit, and its deferred       *)
(* cancel() stops everything that still runs.                              *)
(*                                                                         *)
(* The workers and the channels are those of ScanStream; this module plays *)
(* its caller.  signal is the parent context (SIGINT, SIGTERM), ctxDone    *)
(* the context derived from it.                                            *)
(***************************************************************************)
EXTENDS Integers, Sequences

CONSTANTS
  Concurrency,            \* --concurrency
  NumTargets              \* targets of the wave

ASSUME WaveAssumption ==
  /\ Concurrency \in Nat \ {0}
  /\ NumTargets \in Nat

VARIABLES fed, taken, inClosed, wpc, item, sent, recvd, resClosed, eof, ctxDone

VARIABLES
  cpc,                    \* runWave: "range", "return" (err decided), "returned"
  failed,                 \* runWave returns the error of emit
  signal                  \* the parent context is canceled

streamVars == <<fed, taken, inClosed, wpc, item, sent, recvd, resClosed, eof, ctxDone>>
vars == <<streamVars, cpc, failed, signal>>

Stream == INSTANCE ScanStream WITH InCap <- Concurrency

TypeOK ==
  /\ Stream!TypeOK
  /\ cpc \in {"range", "return", "returned"}
  /\ failed \in BOOLEAN
  /\ signal \in BOOLEAN

Init ==
  /\ Stream!Init
  /\ cpc = "range"
  /\ failed = FALSE
  /\ signal = FALSE

-----------------------------------------------------------------------------
(* The feeder goroutine; it has returned when the channel is closed. *)

FeedTarget ==
  /\ Stream!CallerSend
  /\ UNCHANGED <<cpc, failed, signal>>

\* Fault: the loop stops one target early.
FeederStopsEarly == fed + 1 >= NumTargets \/ ctxDone

\* The loop is over, or its select picked ctx.Done().
FeederMayStop == fed = NumTargets \/ ctxDone

FeederStops ==
  /\ FeederMayStop
  /\ Stream!CallerClose
  /\ UNCHANGED <<cpc, failed, signal>>

-----------------------------------------------------------------------------
(* The collector: runWave's own goroutine. *)

EmitResult ==
  /\ cpc = "range"
  /\ Stream!CallerReceive
  /\ UNCHANGED <<cpc, failed, signal>>

EmitFails ==
  /\ cpc = "range"
  /\ Stream!CallerReceive
  /\ cpc' = "return"
  /\ failed' = TRUE
  /\ UNCHANGED signal

RangeEnds ==
  /\ cpc = "range"
  /\ Stream!CallerSeesEnd
  /\ cpc' = "return"
  /\ UNCHANGED <<failed, signal>>

\* Fault: no deferred cancel.
ReturnOnly ==
  /\ cpc = "return"
  /\ cpc' = "returned"
  /\ UNCHANGED <<streamVars, failed, signal>>

\* return err (or nil), then the deferred cancel().
Return ==
  /\ cpc = "return"
  /\ cpc' = "returned"
  /\ ctxDone' = TRUE
  /\ UNCHANGED <<fed, taken, inClosed, wpc, item, sent, recvd, resClosed, eof>>
  /\ UNCHANGED <<failed, signal>>

-----------------------------------------------------------------------------

Goroutines ==
  /\ \/ \E w \in Stream!Workers : Stream!Worker(w)
     \/ Stream!CloseResults
  /\ UNCHANGED <<cpc, failed, signal>>

\* SIGINT or SIGTERM; the derived context follows at once.
Signal ==
  /\ ~signal
  /\ signal' = TRUE
  /\ ctxDone' = TRUE
  /\ UNCHANGED <<fed, taken, inClosed, wpc, item, sent, recvd, resClosed, eof>>
  /\ UNCHANGED <<cpc, failed>>

Feeder == FeedTarget \/ FeederStops

Collector == EmitResult \/ EmitFails \/ RangeEnds \/ Return

Next == Feeder \/ Collector \/ Goroutines \/ Signal

\* Every goroutine runs when it can; signals need not come.
Fairness ==
  /\ WF_vars(Feeder)
  /\ WF_vars(Collector)
  /\ \A w \in Stream!Workers : WF_vars(Stream!Worker(w) /\ UNCHANGED <<cpc, failed, signal>>)
  /\ WF_vars(Stream!CloseResults /\ UNCHANGED <<cpc, failed, signal>>)

Spec == Init /\ [][Next]_vars /\ Fairness

-----------------------------------------------------------------------------
(* Properties. *)

Emitted == {sent[i] : i \in 1 .. recvd}

\* runWave returns whatever the signals, the scheduling and the errors of emit, and no
\* goroutine outlives it for ever: "Scans can be canceled cleanly without
\* orphaning worker or progress goroutines" (CHANGELOG.md:31).
AllGone ==
  /\ cpc = "returned"
  /\ inClosed
  /\ \A w \in Stream!Workers : wpc[w] = "done"
  /\ resClosed

NoOrphans == <>[]AllGone

Promise ==
  INSTANCE Wave WITH
    targets <- 1 .. NumTargets,
    emitted <- Emitted,
    outcome <- IF cpc = "range" THEN "none" ELSE IF failed THEN "emit" ELSE "nil",
    interrupted <- signal

\* The branch keeps the promise of Wave: a target is emitted once, and a nil return
\* that was not interrupted means that every target was.
KeepsWave == Promise!Spec
=============================================================================
